---------------------------- MODULE TraceSession ----------------------------
(***************************************************************************)
(* The life cycle of a trace: zt_setup_remote_payload maps three regions   *)
(* in the stopped target and tells the payload where the trace buffer is;  *)
(* zt_trace_poll reads it and notices the end of the target; the last      *)
(* probe takes the regions with it, while calls that were caught by the    *)
(* probe may still be on their way back through the payload.               *)
(*                                                                         *)
(* What a trace shows of its calls is EventPairing's; every action here    *)
(* is one of its actions together with what happens to the session, or     *)
(* leaves its variables alone.                                             *)
(***************************************************************************)
EXTENDS EventPairing

CONSTANT MaxStarts   \* bound: traces that are set up, successfully or not

ASSUME SessionAssumption == MaxStarts \in Nat

Regions == {"path", "buffer", "config"}

VARIABLES
    runtime,         \* g_active_trace.state
    step,            \* how far zt_setup_remote_payload has come, or "window": zt_trace_poll
                     \* is in zt_trace_is_exit_window
    start,           \* number of the set-up
    recorded,        \* regions whose address is in g_active_trace.runtime
    mapped,          \* regions of this set-up that are mapped in the target
    shared_buffer,   \* g_payload_config.shared_buffer_addr: "none", the buffer of this
                     \* set-up, or that of an older one, which is "mapped" or "unmapped"
    attached,        \* g_cli_attached
    stopped,         \* the thread group is held in ptrace stops
    exited,          \* the target is gone
    stale,           \* the function holds the jump of a probe that was forgotten
    foreign,         \* the session is attached to another process than the active trace's
    g_trace_exit_observed,
    \* history, not in the code
    abandoned,       \* regions of this set-up that nobody is going to unmap
    crashed          \* the payload used a buffer that was no longer mapped

region == <<recorded, mapped, shared_buffer, abandoned>>
control == <<runtime, step, start, attached, stopped, g_trace_exit_observed>>
fate == <<exited, stale, foreign, crashed>>
sessionVars == <<region, control, fate>>

SessionInit ==
    /\ PairInit
    /\ runtime = "INACTIVE" /\ step = "none" /\ start = 0
    /\ recorded = {} /\ mapped = {} /\ shared_buffer = "none"
    /\ attached = TRUE /\ stopped = FALSE /\ g_trace_exit_observed = FALSE
    /\ abandoned = {} /\ stale = FALSE /\ exited = FALSE /\ foreign = FALSE /\ crashed = FALSE

\* Between commands of the user.
Idle == step = "none" /\ attached

\* zt_trace_session_is_active
SessionIsActive == Idle /\ runtime # "INACTIVE"

\* What zt_get_trace_buffer returns in the target is there.
BufferThere == shared_buffer = "mapped" \/ (shared_buffer = "this" /\ "buffer" \in mapped)
-----------------------------------------------------------------------------
(* The target.                                                             *)

Runs == ~stopped /\ ~exited

Hit(arg) == Runs /\ BufferThere /\ Enter(arg) /\ UNCHANGED sessionVars

ReturnHit(call) == Runs /\ BufferThere /\ Return(call) /\ UNCHANGED sessionVars

\* zt_reserve_event_slot reads buffer->magic where nothing is mapped.
Fault ==
    /\ Runs /\ ~BufferThere
    /\ patched \/ running # {}
    /\ exited' = TRUE /\ crashed' = TRUE
    /\ Aside /\ UNCHANGED <<region, control, stale, foreign>>

Exit ==
    /\ ~exited /\ exited' = TRUE
    /\ Aside /\ UNCHANGED <<region, control, stale, foreign, crashed>>
-----------------------------------------------------------------------------
(* zt_trace_start_filtered_in_session                                      *)

\* Mutant: the page of the configuration is forgotten.
MutantCleanup(unknown) ==
    \E done \in SUBSET (recorded \ {"config"}) :
        /\ ~stopped' \/ exited => done = {}
        /\ mapped' = (mapped \cup unknown) \ done
        /\ abandoned' = abandoned \cup unknown \cup (recorded \ (done \cup {"config"}))
        /\ recorded' = {}

\* zt_trace_cleanup_runtime: each region is unmapped by a remote call of its own,
\* which may fail, and does on a target that runs or is gone.  The addresses that are
\* left are forgotten, by zt_trace_reset_active now or before the next set-up.
Cleanup(unknown) ==
    \E done \in SUBSET recorded :
        /\ ~stopped' \/ exited => done = {}
        /\ mapped' = (mapped \cup unknown) \ done
        /\ abandoned' = abandoned \cup unknown \cup (recorded \ done)
        /\ recorded' = {}

\* cmd_trace stops the target, and zt_trace_reset_active forgets the trace before: what
\* is left of it in the target stays there for ever.
StartTrace ==
    /\ Idle /\ runtime = "INACTIVE" /\ ~exited /\ start < MaxStarts
    /\ step' = "path" /\ start' = start + 1
    /\ stopped' = TRUE /\ g_trace_exit_observed' = FALSE
    /\ recorded' = {} /\ mapped' = {} /\ abandoned' = {}
    /\ shared_buffer' = IF shared_buffer # "this" THEN shared_buffer
                        ELSE IF BufferThere THEN "mapped" ELSE "unmapped"
    /\ Aside /\ UNCHANGED <<runtime, attached, fate>>

Following == [path |-> "dlopen", dlopen |-> "buffer", buffer |-> "config", config |-> "init", init |-> "install"]

\* Mutant: the payload that is loaded already is not initialized again.
MutantSetup ==
    /\ step \in DOMAIN Following /\ ~exited
    /\ step' = Following[step]
    /\ IF step \in Regions
       THEN mapped' = mapped \cup {step} /\ recorded' = recorded \cup {step}
       ELSE UNCHANGED <<mapped, recorded>>
    /\ shared_buffer' = IF step = "init" /\ shared_buffer = "none" THEN "this" ELSE shared_buffer
    /\ Aside /\ UNCHANGED <<abandoned, runtime, start, attached, stopped, g_trace_exit_observed, fate>>

\* zt_setup_remote_payload, call by call.
Setup ==
    /\ step \in DOMAIN Following /\ ~exited
    /\ step' = Following[step]
    /\ IF step \in Regions
       THEN mapped' = mapped \cup {step} /\ recorded' = recorded \cup {step}
       ELSE UNCHANGED <<mapped, recorded>>
    /\ shared_buffer' = IF step = "init" THEN "this" ELSE shared_buffer
    /\ Aside /\ UNCHANGED <<abandoned, runtime, start, attached, stopped, g_trace_exit_observed, fate>>

\* A call fails before it had an effect in the target, or after it: then a signal
\* stopped the stub behind the system call, and the address of a new region is lost.
SetupFails ==
    /\ step \notin {"none", "window"} /\ step' = "none"
    /\ Aside /\ UNCHANGED <<runtime, start, attached, stopped, g_trace_exit_observed, fate>>
    /\ \E effect \in {FALSE, ~exited} :
        /\ Cleanup(IF effect /\ step \in Regions THEN {step} ELSE {})
        /\ shared_buffer' = IF effect /\ step = "init" THEN "this" ELSE shared_buffer

\* zt_trace_install_probe and zt_trace_ensure_running
Install ==
    /\ step = "install" /\ ~exited
    /\ BeginTrace
    /\ step' = "none" /\ runtime' = "RUNNING" /\ stopped' = FALSE
    /\ UNCHANGED <<region, start, attached, g_trace_exit_observed, fate>>
-----------------------------------------------------------------------------
(* Commands on an active trace.                                            *)

\* zt_trace_ensure_stopped trusts the state STOPPED, which may be one of before a detach:
\* on a target that runs, nothing can be changed then.
CanChange == SessionIsActive /\ ~exited /\ (runtime = "STOPPED" => stopped)

\* zt_trace_ensure_running at the end of a command that stopped the target.
Rerun ==
    /\ CanChange
    /\ runtime' = "RUNNING" /\ stopped' = FALSE
    /\ UNCHANGED <<region, step, start, attached, g_trace_exit_observed, fate>>

EnableOrDisable == Rerun /\ \E jumps \in {stale, TRUE} : Toggle(jumps)
Untrace == Rerun /\ DropProbe(stale)

\* The slots of the trampoline pool are addresses of the process of the trace; in another
\* one zt_write_remote_memory finds nothing there, and the probe is rolled back.
TraceAnother == ~foreign /\ Rerun /\ AddProbe

Refilter == SessionIsActive /\ UpdateFilter /\ UNCHANGED sessionVars

\* zt_cli_set_target_running
Pause ==
    /\ Idle /\ ~exited
    /\ runtime = "STOPPED" => UNCHANGED stopped
    /\ runtime # "STOPPED" => stopped' = TRUE
    /\ runtime' = IF runtime = "INACTIVE" THEN runtime ELSE "STOPPED"
    /\ Aside /\ UNCHANGED <<region, step, start, attached, g_trace_exit_observed, fate>>

Resume ==
    /\ Idle
    /\ stopped' = FALSE
    /\ runtime' = IF runtime = "INACTIVE" THEN runtime ELSE "RUNNING"
    /\ Aside /\ UNCHANGED <<region, step, start, attached, g_trace_exit_observed, fate>>

\* zt_trace_reset_active after zt_trace_cleanup_runtime.
Finish(jumps) ==
    /\ EndTrace(FALSE, jumps)
    /\ runtime' = "INACTIVE" /\ g_trace_exit_observed' = FALSE /\ foreign' = FALSE
    /\ Cleanup({})
    /\ UNCHANGED <<shared_buffer, step, start, attached, exited, crashed>>

\* Mutant: the buffer goes, the jump stays.
MutantUntraceLast ==
    /\ CanChange
    /\ stopped' = TRUE
    /\ Finish(patched)
    /\ UNCHANGED stale

\* zt_trace_remove_probe of the last probe, and zt_trace_shutdown when it can restore
\* the code: the target stays stopped.
UntraceLast ==
    /\ CanChange
    /\ stopped' = TRUE
    /\ Finish(IF probed THEN stale ELSE patched)
    /\ UNCHANGED stale

\* zt_trace_shutdown when it cannot: zt_trace_stop goes on, and forgets the probe.
ShutdownFails ==
    /\ SessionIsActive /\ ~exited
    /\ stopped' = (stopped \/ runtime = "RUNNING")
    /\ Finish(patched)
    /\ stale' = patched

\* zt_injector_detach clears the session and its probes, and leaves g_active_trace.
Detach ==
    /\ Idle
    /\ attached' = FALSE /\ stopped' = FALSE
    /\ IF probed
       THEN DropProbe(patched) /\ stale' = patched
       ELSE Aside /\ UNCHANGED stale
    /\ UNCHANGED <<region, runtime, step, start, g_trace_exit_observed, exited, foreign, crashed>>

\* cmd_attach: zt_injector_attach and zt_injector_continue_all, of the same process.
Attach ==
    /\ ~attached /\ ~exited
    /\ attached' = TRUE
    /\ Aside /\ UNCHANGED <<region, runtime, step, start, stopped, g_trace_exit_observed, fate>>

\* cmd_attach takes any process.  A trace that is still active is taken for one of the
\* new process, where none of its addresses is mapped.
AttachOther ==
    /\ ~attached
    /\ attached' = TRUE
    /\ NewTarget
    /\ mapped' = {} /\ shared_buffer' = "none" /\ abandoned' = {}
    /\ exited' = FALSE /\ stale' = FALSE /\ crashed' = FALSE
    /\ foreign' = (runtime # "INACTIVE")
    /\ UNCHANGED <<recorded, runtime, step, start, stopped, g_trace_exit_observed>>
-----------------------------------------------------------------------------
(* zt_trace_poll of a running trace.                                       *)

PollDump(e) ==
    /\ SessionIsActive /\ runtime = "RUNNING" /\ ~exited
    /\ DumpEntry(e) \/ DumpReturn(e)
    /\ UNCHANGED sessionVars

PollLost ==
    /\ SessionIsActive /\ runtime = "RUNNING" /\ ~exited
    /\ Lose
    /\ UNCHANGED sessionVars

\* zt_trace_mark_target_exited
MarkTargetExited ==
    /\ EndTrace(probed, patched)
    /\ runtime' = "INACTIVE" /\ g_trace_exit_observed' = TRUE /\ foreign' = FALSE
    /\ recorded' = {} /\ abandoned' = abandoned \cup mapped
    /\ UNCHANGED <<mapped, shared_buffer, start, attached, stopped, exited, stale, crashed>>

\* zt_injector_poll_events has reaped the target.
PollExited ==
    /\ SessionIsActive /\ runtime = "RUNNING" /\ exited
    /\ step' = step
    /\ MarkTargetExited

\* zt_injector_poll_events or a read of the buffer fails, for whatever reason; it does
\* for a session without a process.
PollFails ==
    /\ step = "none" /\ runtime = "RUNNING"
    /\ step' = "window"
    /\ Aside /\ UNCHANGED <<region, runtime, start, attached, stopped, g_trace_exit_observed, fate>>

\* One of the looks of zt_trace_is_exit_window.
SeenGone == exited \/ ~attached \/ "buffer" \notin mapped

ExitWindow ==
    /\ step = "window" /\ SeenGone
    /\ step' = "none"
    /\ MarkTargetExited

\* The looks are used up, and zt_trace_poll returns -1: the trace goes on.
WindowCloses ==
    /\ step = "window" /\ ~SeenGone
    /\ step' = "none"
    /\ Aside /\ UNCHANGED <<region, runtime, start, attached, stopped, g_trace_exit_observed, fate>>

SessionNext ==
    \/ \E arg \in Args : Hit(arg)
    \/ \E call \in running : ReturnHit(call)
    \/ \E e \in {queue[i] : i \in DOMAIN queue} : PollDump(e)
    \/ Fault \/ Exit
    \/ StartTrace \/ Setup \/ SetupFails \/ Install
    \/ EnableOrDisable \/ Untrace \/ TraceAnother \/ Refilter \/ Pause \/ Resume
    \/ UntraceLast \/ ShutdownFails \/ Detach \/ Attach \/ AttachOther
    \/ PollLost \/ PollExited \/ PollFails \/ ExitWindow \/ WindowCloses

allVars == <<pairVars, sessionVars>>

SessionSpec == SessionInit /\ [][SessionNext]_allVars
-----------------------------------------------------------------------------
(* Properties.                                                             *)

\* Every variable stays in its type, and every address in g_active_trace.runtime is
\* that of a mapped region, of this process or of the one that was attached before.
SessionTypeOK ==
    /\ runtime \in {"INACTIVE", "STOPPED", "RUNNING"}
    /\ step \in {"none", "install", "window"} \cup DOMAIN Following
    /\ start \in 0 .. MaxStarts /\ shared_buffer \in {"none", "this", "mapped", "unmapped"}
    /\ (recorded \subseteq mapped \/ foreign) /\ recorded \subseteq Regions /\ mapped \subseteq Regions /\ abandoned \subseteq Regions
    /\ attached \in BOOLEAN /\ stopped \in BOOLEAN /\ exited \in BOOLEAN /\ stale \in BOOLEAN
    /\ g_trace_exit_observed \in BOOLEAN /\ foreign \in BOOLEAN /\ crashed \in BOOLEAN

\* Whatever set-ups failed before, the payload writes into the buffer that
\* zt_trace_poll reads, and this buffer is mapped as long as the trace is active, unless
\* another process was attached under the trace; it is polled only while the target runs.
SameBuffer ==
    /\ active <=> runtime # "INACTIVE"
    /\ active /\ ~foreign => shared_buffer = "this" /\ BufferThere /\ recorded = Regions
    /\ runtime = "RUNNING" => ~stopped

\* A call that a probe catches finds its buffer: no failed or repeated set-up leaves
\* the function patched and the payload without a buffer.  Only the jump of a
\* forgotten probe (zt_injector_detach, a failing zt_trace_shutdown) can lead there.
CaughtSafely == patched /\ Runs /\ ~stale => BufferThere

\* zt_trace_cleanup_runtime leaves nothing in the target between two traces, unless
\* an unmapping failed, the stub that mapped a region was disturbed, or the target was
\* gone or detached.
NothingLeft == runtime = "INACTIVE" /\ step = "none" => mapped \subseteq abandoned

\* zt_payload.c: "The saved return address is later popped by exit_stub to resume the
\* original caller transparently."  Where no jump of a forgotten probe is in the way, a
\* call that is running when the last probe goes refutes it.
ResumesCaller == crashed => stale
=============================================================================
