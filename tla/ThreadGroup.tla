---------------------------- MODULE ThreadGroup ----------------------------
(***************************************************************************)
(* How zt_injector.c stops, resumes and watches the threads of the target  *)
(* with ptrace, and how zt_remote_exec.c borrows the stopped main thread,  *)
(* next to a target whose threads clone, exit and receive signals.         *)
(*                                                                         *)
(* Thread ids are 1, 2, ... in the order of creation, which is the order   *)
(* of /proc/pid/task and of session->threads; 1 is the main thread, which  *)
(* ends only with the whole process.  The kernel's side of ptrace, wait    *)
(* and readdir is external: it is modelled from how the code uses it.      *)
(***************************************************************************)
EXTENDS Integers, FiniteSets

CONSTANTS NThreads,     \* bound: threads ever created
          Capacity,     \* ZT_THREADS_CAPACITY
          MaxPasses,    \* max_stop_passes
          MaxSignals    \* bound: signals sent to the target

ASSUME ThreadAssumption == NThreads \in Nat \ {0} /\ Capacity \in Nat /\ MaxPasses \in Nat /\ MaxSignals \in Nat

Tids == 1 .. NThreads
Leader == 1

VARIABLES
    \* the kernel's view
    task,           \* "unborn", "running", "trapped" (a ptrace stop), "zombie" or "gone"
    traced,         \* seized by zeroTrace
    trap,           \* what stopped it: "signal", "SIGTRAP" (that signal, sent to the target),
                    \* "event" (PTRACE_EVENT_STOP) or "stub" (the trap at the end of a stub)
    unwaited,       \* a stop or an exit that waitpid has not returned yet
    interrupt,      \* a PTRACE_INTERRUPT has not trapped it yet
    \* zt_injector_session_t
    attached, threads, stopped, resume_signal, threads_stopped, target_exited,
    runtime,        \* g_active_trace.state: "INACTIVE", "STOPPED" or "RUNNING"
    \* the command being executed, and where it is
    goal, pc, pass, pos, todo,
    \* history, not in the code
    signals,
    owed,           \* signals that stopped a thread and were not yet given to it
    lost,           \* how signals were lost since the last command or poll began
    vanished,       \* the last refresh met an entry whose thread was gone
    failed,         \* a refresh or zt_injector_interrupt_all of the last command returned -1
    strays,         \* threads seized and not recorded, or left by a detach whose stop failed
    stale,          \* a stop failed in a session that an earlier stop marked threads_stopped
    phantom         \* another stop was taken for the trap of the last stub in this stop

kernel == <<task, traced, trap, unwaited, interrupt>>
session == <<attached, threads, stopped, resume_signal, threads_stopped, target_exited, runtime>>
progress == <<goal, pc, pass, pos, todo>>
history == <<signals, owed, lost, vanished, failed, strays, stale, phantom>>
threadVars == <<kernel, session, progress, history>>

ThreadInit ==
    /\ task = [t \in Tids |-> IF t = Leader THEN "running" ELSE "unborn"]
    /\ traced = {} /\ trap = [t \in Tids |-> "none"] /\ unwaited = {} /\ interrupt = {}
    /\ attached = FALSE /\ threads = {} /\ stopped = {} /\ resume_signal = {}
    /\ threads_stopped = FALSE /\ target_exited = FALSE /\ runtime = "INACTIVE"
    /\ goal = "none" /\ pc = "idle" /\ pass = 0 /\ pos = 0 /\ todo = {}
    /\ signals = 0 /\ owed = [t \in Tids |-> 0] /\ lost = {}
    /\ vanished = FALSE /\ failed = FALSE /\ strays = {} /\ stale = FALSE /\ phantom = FALSE

Listed == {t \in Tids : task[t] \in {"running", "trapped", "zombie"}}
IsFirst(t, S) == t \in S /\ \A u \in S : t <= u

\* waitpid has something to return for t; the exit of the main thread is reported
\* when all others are reaped.
Waitable(t) == t \in unwaited /\ (t = Leader /\ task[t] = "zombie" => Listed = {Leader})
-----------------------------------------------------------------------------
(* The target and the kernel.                                              *)

\* The main thread does nothing else while it executes a remote stub.
Free(t) == task[t] = "running" /\ ~(t = Leader /\ pc = "stub")

Clone(t) ==
    /\ Free(t)
    /\ \E u \in Tids : /\ IsFirst(u, {v \in Tids : task[v] = "unborn"})
                       /\ task' = [task EXCEPT ![u] = "running"]
    /\ UNCHANGED <<traced, trap, unwaited, interrupt, session, progress, history>>

\* A thread that nobody traces is reaped at once.
Exit(t) ==
    /\ Free(t)
    /\ t # Leader
    /\ task' = [task EXCEPT ![t] = IF t \in traced THEN "zombie" ELSE "gone"]
    /\ unwaited' = IF t \in traced THEN unwaited \cup {t} ELSE unwaited
    /\ interrupt' = interrupt \ {t}
    /\ UNCHANGED <<traced, trap, session, progress, history>>

\* exit_group in some thread, or SIGKILL: all threads end, the stopped ones too.
ExitGroup ==
    /\ task[Leader] \in {"running", "trapped"}
    /\ task' = [u \in Tids |-> IF u \notin Listed THEN task[u]
                               ELSE IF u \in traced \cup {Leader} THEN "zombie" ELSE "gone"]
    /\ unwaited' = unwaited \cup (traced \cap Listed)
    /\ interrupt' = {}
    /\ owed' = [u \in Tids |-> 0]
    /\ UNCHANGED <<traced, trap, session, progress, signals, lost, vanished, failed, strays, stale, phantom>>

\* The target's own parent waits for it.
ParentReaps ==
    /\ task[Leader] = "zombie" /\ Leader \notin traced /\ Listed = {Leader}
    /\ task' = [task EXCEPT ![Leader] = "gone"]
    /\ UNCHANGED <<traced, trap, unwaited, interrupt, session, progress, history>>

\* Any stop takes a pending interrupt with it; an interrupt that comes during a stop
\* traps the thread after that stop.
Trapped(t, why) ==
    /\ task' = [task EXCEPT ![t] = "trapped"]
    /\ trap' = [trap EXCEPT ![t] = why]
    /\ unwaited' = unwaited \cup {t}
    /\ interrupt' = interrupt \ {t}
    /\ UNCHANGED <<traced, session, progress, lost, vanished, failed, strays, stale, phantom>>

Trap(t) ==
    /\ task[t] = "running" /\ t \in interrupt
    /\ Trapped(t, "event")
    /\ UNCHANGED <<signals, owed>>

\* SIGTRAP is a signal like any other: a breakpoint of the program's own, or raise.
SignalStop(t) ==
    /\ task[t] = "running" /\ t \in traced
    /\ signals < MaxSignals
    /\ signals' = signals + 1
    /\ owed' = [owed EXCEPT ![t] = @ + 1]
    /\ \E sig \in {"signal", "SIGTRAP"} : Trapped(t, sig)

\* The stub in the main thread reaches its trap instruction.
StubTrap ==
    /\ pc = "stub" /\ task[Leader] = "running" /\ Leader \notin interrupt
    /\ Trapped(Leader, "stub")
    /\ UNCHANGED <<signals, owed>>
-----------------------------------------------------------------------------
(* zt_injector_refresh_threads                                             *)

Restart(n) == pc' = "readdir" /\ pos' = 0 /\ pass' = n /\ todo' = {} /\ vanished' = FALSE
Goto(place) == pc' = place /\ pos' = 0 /\ pass' = 0 /\ todo' = {} /\ UNCHANGED vanished

\* A refresh fails, and with it the command: zt_injector_attach gives up by
\* zt_injector_detach, which stops the target again, and detaches anyway; a poll
\* looks whether the target is about to exit.
GiveUp ==
    /\ failed' = TRUE
    /\ stale' = (stale \/ (goal = "stop" /\ threads_stopped))
    /\ \/ goal = "stop" /\ Goto("idle") /\ goal' = "none"
       \/ goal = "poll" /\ Goto("window") /\ goal' = "none"
       \/ goal = "attach" /\ Restart(0) /\ goal' = "detach"
       \/ goal = "detach" /\ Goto("detach") /\ UNCHANGED goal

\* zt_process_is_exited
ProcessExited == task[Leader] \in {"zombie", "gone"}

\* zt_injector_poll_events asks whether the target is gone when the refresh fails.
RefreshFails ==
    /\ GiveUp
    /\ IF goal = "poll" /\ ProcessExited
       THEN target_exited' = TRUE /\ threads_stopped' = FALSE
       ELSE UNCHANGED <<target_exited, threads_stopped>>

\* opendir and readdir: one getdents returns what follows the position reached.
ReadDir ==
    LET entries == {t \in Listed : Cardinality({u \in Listed : u < t}) >= pos} IN
    /\ pc = "readdir"
    /\ IF Listed = {} /\ pos = 0
       THEN RefreshFails /\ UNCHANGED <<attached, threads, stopped, resume_signal, runtime, kernel, signals, owed, lost, strays, phantom>>
       ELSE /\ entries # {}
            /\ todo' = entries \ threads
            /\ pos' = pos + Cardinality(entries)
            /\ pc' = IF todo' = {} THEN pc ELSE "seize"
            /\ UNCHANGED <<kernel, session, goal, pass, history>>

\* zt_injector_seize_thread and zt_session_add_thread.
Seize(t) ==
    /\ pc = "seize" /\ IsFirst(t, todo)
    /\ task[t] \in {"running", "trapped"} /\ t \notin traced
    /\ traced' = traced \cup {t}
    /\ IF Cardinality(threads) < Capacity
       THEN /\ threads' = threads \cup {t}
            /\ todo' = todo \ {t}
            /\ pc' = IF todo' = {} THEN "readdir" ELSE pc
            /\ UNCHANGED <<goal, pass, pos, history, threads_stopped, target_exited>>
       ELSE RefreshFails /\ strays' = strays \cup {t} /\ UNCHANGED <<threads, signals, owed, lost, phantom>>
    /\ UNCHANGED <<task, trap, unwaited, interrupt, attached, stopped, resume_signal, runtime>>

\* ESRCH: the thread is gone.
SeizeGone(t) ==
    /\ pc = "seize" /\ IsFirst(t, todo)
    /\ task[t] = "gone"
    /\ vanished' = TRUE
    /\ todo' = todo \ {t}
    /\ pc' = IF todo' = {} THEN "readdir" ELSE pc
    /\ UNCHANGED <<kernel, session, goal, pass, pos, signals, owed, lost, failed, strays, stale, phantom>>

\* EPERM: a zombie, or traced already.
SeizeFails(t) ==
    /\ pc = "seize" /\ IsFirst(t, todo)
    /\ task[t] = "zombie" \/ (task[t] # "gone" /\ t \in traced)
    /\ RefreshFails
    /\ UNCHANGED <<kernel, attached, threads, stopped, resume_signal, runtime, signals, owed, lost, strays, phantom>>

EndOfDir == pc = "readdir" /\ (Listed = {} => pos > 0) /\ Cardinality(Listed) <= pos
-----------------------------------------------------------------------------
(* zt_injector_interrupt_all                                               *)

\* The refresh at the beginning of zt_injector_attach is followed by that of
\* zt_injector_interrupt_all, and this one by the first pass.
AttachRefreshed ==
    /\ EndOfDir /\ pass = -1 /\ goal = "attach"
    /\ Restart(0)
    /\ UNCHANGED <<kernel, session, goal, signals, owed, lost, failed, strays, stale, phantom>>

\* Mutant: only the threads known before the first pass are interrupted.
MutantInterrupt ==
    /\ EndOfDir /\ goal # "poll"
    /\ pass = 0 \/ (pass \in 1 .. MaxPasses - 1 /\ ~(threads \subseteq stopped))
    /\ interrupt' = IF pass = 0 THEN interrupt \cup {t \in threads \ stopped : task[t] \in {"running", "trapped"}} ELSE interrupt
    /\ pc' = "wait" /\ pos' = 0
    /\ UNCHANGED <<task, traced, trap, unwaited, session, goal, pass, todo, history>>

\* PTRACE_INTERRUPT of all known threads.  A thread may run on until it traps, so
\* sending them one by one adds nothing.
Interrupt ==
    /\ EndOfDir /\ goal # "poll"
    /\ pass = 0 \/ (pass \in 1 .. MaxPasses - 1 /\ ~(threads \subseteq stopped))
    /\ interrupt' = interrupt \cup {t \in threads \ stopped : task[t] \in {"running", "trapped"}}
    /\ pc' = "wait" /\ pos' = 0
    /\ UNCHANGED <<task, traced, trap, unwaited, session, goal, pass, todo, history>>

\* zt_thread_clear and zt_compact_threads
Drop(t) == threads' = threads \ {t} /\ stopped' = stopped \ {t} /\ resume_signal' = resume_signal \ {t}

\* A thread's exit is reaped; of the main thread a zombie stays for its parent.
Reap(t) ==
    /\ task' = [task EXCEPT ![t] = IF t = Leader THEN "zombie" ELSE "gone"]
    /\ traced' = traced \ {t}

\* A signal that will not be given back to t.
Forget(t, how) == owed' = [owed EXCEPT ![t] = @ - 1] /\ lost' = lost \cup {how}

\* Mutant: a thread that stops with a signal is marked as if it had none.
MutantMarkStopped(t) ==
    /\ stopped' = stopped \cup {t}
    /\ UNCHANGED <<resume_signal, owed, lost>>

\* zt_thread_mark_stopped; zt_resume_signal_from_status takes every SIGTRAP for one of
\* ptrace's own and drops it.
MarkStopped(t) ==
    /\ stopped' = stopped \cup {t}
    /\ resume_signal' = IF trap[t] = "signal" THEN resume_signal \cup {t} ELSE resume_signal \ {t}
    /\ IF trap[t] = "SIGTRAP" THEN Forget(t, "SIGTRAP") ELSE UNCHANGED <<owed, lost>>

\* zt_wait_for_thread_stop of the next thread that is not stopped.
Wait(t) ==
    /\ pc = "wait" /\ IsFirst(t, threads \ stopped)
    /\ Waitable(t)
    /\ unwaited' = unwaited \ {t}
    /\ IF task[t] = "zombie"
       THEN Reap(t) /\ Drop(t) /\ UNCHANGED <<owed, lost>>
       ELSE MarkStopped(t) /\ UNCHANGED <<task, traced, threads>>
    /\ UNCHANGED <<trap, interrupt, attached, threads_stopped, target_exited, runtime, progress, signals, vanished, failed, strays, stale, phantom>>

\* Mutant: the threads are not enumerated again after a pass.
MutantEndPass ==
    /\ pc = "wait" /\ threads \subseteq stopped
    /\ pc' = "readdir" /\ pos' = Cardinality(Listed) /\ pass' = pass + 1 /\ todo' = {}
    /\ UNCHANGED <<kernel, session, goal, history>>

EndPass ==
    /\ pc = "wait" /\ threads \subseteq stopped
    /\ Restart(pass + 1)
    /\ UNCHANGED <<kernel, session, goal, signals, owed, lost, failed, strays, stale, phantom>>

\* zt_session_has_unstopped_thread finds none after a pass and a refresh.
AllKnownStopped == EndOfDir /\ goal # "poll" /\ pass > 0 /\ threads \subseteq stopped

\* Success: zt_trace_ensure_stopped notes it of a trace that runs, cmd_attach goes on by
\* resuming the target, or by detaching when the executable cannot be read.
StopDone ==
    /\ AllKnownStopped
    /\ threads_stopped' = TRUE
    /\ runtime' = IF goal = "stop" /\ runtime = "RUNNING" THEN "STOPPED" ELSE runtime
    /\ \/ goal = "stop" /\ Goto("idle") /\ goal' = "none"
       \/ goal = "attach" /\ Goto("continue") /\ UNCHANGED goal
       \/ goal \in {"attach", "detach"} /\ Goto("detach") /\ goal' = "detach"
    /\ UNCHANGED <<kernel, attached, threads, stopped, resume_signal, target_exited, signals, owed, lost, failed, strays, stale, phantom>>

StopGivesUp ==
    /\ EndOfDir /\ goal # "poll" /\ pass = MaxPasses /\ ~(threads \subseteq stopped)
    /\ GiveUp
    /\ UNCHANGED <<kernel, session, signals, owed, lost, strays, phantom>>
-----------------------------------------------------------------------------
(* Resuming, polling, detaching, remote execution.                         *)

\* PTRACE_CONT of a stopped thread.
Cont(t) == task' = [task EXCEPT ![t] = "running"] /\ trap' = [trap EXCEPT ![t] = "none"]

\* ... with a signal or without: a signal is delivered unless the thread is in an event
\* stop.  What the thread is owed after that it will never get; the main thread can be in
\* an event stop, and owed a signal, after a stub that a late interrupt has ended.
Deliver(t, sig) ==
    LET given == IF sig /\ trap[t] # "event" THEN 1 ELSE 0
        how == IF t = Leader /\ phantom /\ trap[t] = "event" THEN "interrupt" ELSE "resume"
    IN  /\ Cont(t)
        /\ owed' = [owed EXCEPT ![t] = 0]
        /\ lost' = IF owed[t] = given THEN lost ELSE lost \cup {how}

\* Mutant: the resumed thread stays marked.
MutantMarkRunning(t) == UNCHANGED <<threads, stopped, resume_signal>>

\* zt_thread_mark_running
MarkRunning(t) == stopped' = stopped \ {t} /\ resume_signal' = resume_signal \ {t} /\ UNCHANGED threads

\* zt_injector_continue_all, thread by thread; one that was killed is dropped.
Continue(t) ==
    /\ pc = "continue" /\ IsFirst(t, stopped)
    /\ IF task[t] = "trapped" /\ t \in traced
       THEN Deliver(t, t \in resume_signal) /\ MarkRunning(t)
       ELSE Drop(t) /\ UNCHANGED <<task, trap, owed, lost>>
    /\ UNCHANGED <<traced, unwaited, interrupt, attached, threads_stopped, target_exited, runtime, progress, signals, vanished, failed, strays, stale, phantom>>

\* The whole target runs: zt_trace_ensure_running notes it of a trace, cmd_attach does not.
ContinueDone ==
    /\ pc = "continue" /\ stopped = {}
    /\ threads_stopped' = FALSE
    /\ runtime' = IF goal # "attach" /\ runtime = "STOPPED" THEN "RUNNING" ELSE runtime
    /\ pc' = "idle" /\ goal' = "none"
    /\ phantom' = FALSE
    /\ UNCHANGED <<kernel, attached, threads, stopped, resume_signal, target_exited, pass, pos, todo, signals, owed, lost, vanished, failed, strays, stale>>

\* zt_injector_poll_events after its refresh: any event of any traced thread.
PollRefreshed ==
    /\ EndOfDir /\ goal = "poll"
    /\ Goto("reap")
    /\ UNCHANGED <<kernel, session, goal, signals, owed, lost, failed, strays, stale, phantom>>

NoteExit(exited) ==
    /\ target_exited' = (target_exited \/ exited)
    /\ threads_stopped' = (threads_stopped /\ ~exited)

\* Mutant: the end of any known thread counts as the end of the target.
MutantPollExit(t) ==
    /\ pc = "reap" /\ Waitable(t) /\ task[t] = "zombie"
    /\ unwaited' = unwaited \ {t}
    /\ Reap(t)
    /\ Drop(t)
    /\ NoteExit(t \in threads)
    /\ UNCHANGED <<trap, interrupt, attached, runtime, progress, history>>

PollExit(t) ==
    /\ pc = "reap" /\ Waitable(t) /\ task[t] = "zombie"
    /\ unwaited' = unwaited \ {t}
    /\ Reap(t)
    /\ Drop(t)
    /\ NoteExit(t = Leader \/ (t \in threads /\ threads' = {}))
    /\ UNCHANGED <<trap, interrupt, attached, runtime, progress, history>>

\* Mutant: only stops by a signal are resumed.
MutantPollStop(t) ==
    /\ pc = "reap" /\ Waitable(t) /\ task[t] = "trapped"
    /\ unwaited' = unwaited \ {t}
    /\ IF t \in threads /\ trap[t] = "signal"
       THEN MarkRunning(t) /\ Deliver(t, TRUE)
       ELSE UNCHANGED <<task, trap, owed, lost, threads, stopped, resume_signal>>
    /\ UNCHANGED <<traced, interrupt, attached, threads_stopped, target_exited, runtime, progress, signals, vanished, failed, strays, stale, phantom>>

\* A stop of a known thread is resumed with its signal, which a SIGTRAP is not for
\* zt_resume_signal_from_status; one of an unknown thread is taken and forgotten.
PollStop(t) ==
    /\ pc = "reap" /\ Waitable(t) /\ task[t] = "trapped"
    /\ unwaited' = unwaited \ {t}
    /\ IF t \in threads
       THEN MarkRunning(t) /\ IF trap[t] = "SIGTRAP" THEN Cont(t) /\ Forget(t, "SIGTRAP") ELSE Deliver(t, trap[t] = "signal")
       ELSE UNCHANGED <<task, trap, owed, lost, threads, stopped, resume_signal>>
    /\ UNCHANGED <<traced, interrupt, attached, threads_stopped, target_exited, runtime, progress, signals, vanished, failed, strays, stale, phantom>>

\* Mutant: waitpid is asked for the main thread only.
MutantPollDone ==
    /\ pc = "reap" /\ ~Waitable(Leader)
    /\ NoteExit(threads = {} \/ ProcessExited)
    /\ runtime' = IF target_exited' THEN "INACTIVE" ELSE runtime
    /\ Goto("idle") /\ goal' = "none"
    /\ UNCHANGED <<kernel, attached, threads, stopped, resume_signal, signals, owed, lost, failed, strays, stale, phantom>>

\* zt_session_report_if_target_exited; an exit ends the trace.
PollDone ==
    /\ pc = "reap" /\ \A t \in Tids : ~Waitable(t)
    /\ NoteExit(threads = {} \/ ProcessExited)
    /\ runtime' = IF target_exited' THEN "INACTIVE" ELSE runtime
    /\ Goto("idle") /\ goal' = "none"
    /\ UNCHANGED <<kernel, attached, threads, stopped, resume_signal, signals, owed, lost, failed, strays, stale, phantom>>

\* zt_trace_is_exit_window after a poll that failed; the mapping of the trace buffer, which
\* it also looks at, is TraceSession's.
ExitWindow ==
    /\ pc = "window"
    /\ runtime' = IF ProcessExited THEN "INACTIVE" ELSE runtime
    /\ pc' = "idle"
    /\ UNCHANGED <<kernel, attached, threads, stopped, resume_signal, threads_stopped, target_exited, goal, pass, pos, todo, history>>

\* PTRACE_DETACH works on stopped threads only, and takes no signal along.  The trace, if
\* there is one, is not told.
DetachAll ==
    LET freed == {t \in threads \cap traced : task[t] = "trapped"} IN
    /\ pc = "detach"
    /\ task' = [t \in Tids |-> IF t \in freed THEN "running" ELSE task[t]]
    /\ traced' = traced \ freed /\ unwaited' = unwaited \ freed /\ interrupt' = interrupt \ freed
    /\ trap' = [t \in Tids |-> IF t \in freed THEN "none" ELSE trap[t]]
    /\ owed' = [t \in Tids |-> IF t \in freed THEN 0 ELSE owed[t]]
    /\ lost' = IF \E t \in freed : owed[t] # 0 THEN lost \cup {"detach"} ELSE lost
    /\ attached' = FALSE /\ threads' = {} /\ stopped' = {} /\ resume_signal' = {}
    /\ threads_stopped' = FALSE /\ target_exited' = FALSE
    /\ Goto("idle") /\ goal' = "none"
    /\ strays' = strays \cup ((threads \cap traced) \ freed)
    /\ phantom' = FALSE
    /\ UNCHANGED <<runtime, signals, failed, stale>>

\* zt_arch_execute_remote_stub lets the main thread of a stopped target run a stub ...
RemoteCall ==
    /\ pc = "idle" /\ threads_stopped
    /\ task[Leader] = "trapped" /\ Leader \in traced /\ Leader \notin unwaited
    /\ Cont(Leader)
    /\ pc' = "stub"
    /\ phantom' = FALSE
    /\ UNCHANGED <<traced, unwaited, interrupt, session, goal, pass, pos, todo, signals, owed, lost, vanished, failed, strays, stale>>

\* ... until it stops, and takes every SIGTRAP stop for the one at the end of the stub.  A
\* signal that stops it is not kept, for zt_thread_mark_stopped is not called.  How
\* registers and code are lent and given back is RemoteExec's.
RemoteReturn ==
    /\ pc = "stub" /\ Waitable(Leader)
    /\ unwaited' = unwaited \ {Leader}
    /\ IF task[Leader] = "zombie" THEN Reap(Leader) ELSE UNCHANGED <<task, traced>>
    /\ IF task[Leader] = "trapped" /\ trap[Leader] \in {"signal", "SIGTRAP"} THEN Forget(Leader, "stub") ELSE UNCHANGED <<owed, lost>>
    /\ phantom' = (task[Leader] = "trapped" /\ trap[Leader] \in {"event", "SIGTRAP"})
    /\ pc' = "idle"
    /\ UNCHANGED <<trap, interrupt, session, goal, pass, pos, todo, signals, vanished, failed, strays, stale>>
-----------------------------------------------------------------------------
(* Commands of the user, and the poll between them.                        *)

Begin(command) == pc = "idle" /\ goal' = command /\ failed' = FALSE /\ lost' = {} /\ UNCHANGED <<kernel, signals, owed, strays, stale, phantom>>

BeginAttach == Begin("attach") /\ ~attached /\ attached' = TRUE /\ Restart(-1) /\ UNCHANGED <<threads, stopped, resume_signal, threads_stopped, target_exited, runtime>>

\* zt_trace_ensure_stopped and zt_trace_ensure_running believe the state of the trace, and
\* do nothing when it says that the target is stopped, or runs.
BeginStop == Begin("stop") /\ attached /\ runtime # "STOPPED" /\ Restart(0) /\ UNCHANGED session
BeginContinue == Begin("continue") /\ attached /\ runtime # "RUNNING" /\ Goto("continue") /\ UNCHANGED session

\* zt_cli_event_hook polls while a trace is active, and zt_trace_poll while it runs.
BeginPoll == Begin("poll") /\ attached /\ ~target_exited /\ runtime = "RUNNING" /\ Restart(0) /\ UNCHANGED session

\* ... and finds the target gone when it was detached, or has been seen to exit.
PollEnded ==
    /\ pc = "idle" /\ runtime = "RUNNING" /\ (~attached \/ target_exited)
    /\ runtime' = "INACTIVE"
    /\ UNCHANGED <<kernel, attached, threads, stopped, resume_signal, threads_stopped, target_exited, progress, history>>

Poll == BeginPoll \/ PollEnded

\* A trace is set up in the stopped target and ends with the removal of its last probe;
\* what they do is TraceSession's.
StartTrace ==
    /\ pc = "idle" /\ attached /\ threads_stopped /\ runtime = "INACTIVE"
    /\ runtime' = "STOPPED"
    /\ UNCHANGED <<kernel, attached, threads, stopped, resume_signal, threads_stopped, target_exited, progress, history>>

StopTrace ==
    /\ pc = "idle" /\ attached /\ runtime = "STOPPED"
    /\ runtime' = "INACTIVE"
    /\ UNCHANGED <<kernel, attached, threads, stopped, resume_signal, threads_stopped, target_exited, progress, history>>

\* Mutant: detaching does not stop the target first.
MutantBeginDetach ==
    /\ Begin("detach") /\ attached
    /\ Goto("detach")
    /\ UNCHANGED session

\* zt_injector_detach
BeginDetach ==
    /\ Begin("detach") /\ attached
    /\ IF threads_stopped THEN Goto("detach") ELSE Restart(0)
    /\ UNCHANGED session

Command == BeginAttach \/ BeginStop \/ BeginContinue \/ BeginDetach \/ Poll \/ StartTrace \/ StopTrace

Tracer ==
    \/ ReadDir \/ AttachRefreshed \/ Interrupt \/ EndPass \/ StopDone \/ StopGivesUp
    \/ ContinueDone \/ PollRefreshed \/ PollDone \/ ExitWindow \/ DetachAll
    \/ \E t \in Tids : Seize(t) \/ SeizeGone(t) \/ SeizeFails(t) \/ Wait(t) \/ Continue(t) \/ PollExit(t) \/ PollStop(t)

Target == ExitGroup \/ ParentReaps \/ StubTrap \/ \E t \in Tids : Clone(t) \/ Exit(t) \/ Trap(t) \/ SignalStop(t)

ThreadNext == Command \/ Tracer \/ RemoteCall \/ RemoteReturn \/ Target

ThreadSpec == ThreadInit /\ [][ThreadNext]_threadVars

\* The tracer runs on, an interrupted thread traps, and the target's parent reaps it.
\* readline calls its event hook as long as it waits for a command, and the user does not
\* enter commands for ever without a pause.  Nothing is assumed of a stub: a function that
\* it calls may wait for a lock that one of the stopped threads holds.
ThreadFairness ==
    /\ WF_threadVars(Tracer) /\ SF_threadVars(Poll) /\ WF_threadVars(ParentReaps)
    /\ \A t \in Tids : WF_threadVars(Trap(t))

FairThreadSpec == ThreadSpec /\ ThreadFairness
-----------------------------------------------------------------------------
(* Properties.                                                             *)

\* Every variable stays in its type.
ThreadTypeOK ==
    /\ task \in [Tids -> {"unborn", "running", "trapped", "zombie", "gone"}]
    /\ trap \in [Tids -> {"none", "signal", "SIGTRAP", "event", "stub"}]
    /\ traced \subseteq Tids /\ unwaited \subseteq traced /\ interrupt \subseteq traced
    /\ threads \subseteq Tids /\ stopped \subseteq threads /\ resume_signal \subseteq stopped
    /\ Cardinality(threads) <= Capacity
    /\ attached \in BOOLEAN /\ threads_stopped \in BOOLEAN /\ target_exited \in BOOLEAN /\ runtime \in {"INACTIVE", "STOPPED", "RUNNING"}
    /\ goal \in {"none", "attach", "stop", "continue", "detach", "poll"}
    /\ pc \in {"idle", "readdir", "seize", "wait", "continue", "reap", "window", "detach", "stub"}
    /\ pass \in Int /\ pos \in Nat /\ todo \subseteq Tids
    /\ signals \in 0 .. MaxSignals /\ owed \in [Tids -> Int] /\ lost \subseteq {"SIGTRAP", "stub", "interrupt", "detach", "resume"}
    /\ vanished \in BOOLEAN /\ failed \in BOOLEAN /\ strays \subseteq Tids /\ stale \in BOOLEAN /\ phantom \in BOOLEAN

\* The target is known to be stopped and the tracer works on it.
Held == threads_stopped /\ pc \in {"idle", "stub"} /\ ~failed

Running == {t \in Tids : task[t] = "running" /\ ~(t = Leader /\ pc = "stub")}

\* zt_injector_refresh_threads promises it: no code is patched "while one thread is
\* still running".  A thread that is created by one which ends before it is seized
\* refutes it.
AllStopped == Held => Running = {}

\* What it guarantees: a thread is missed only if another one, read from
\* /proc/pid/task in the last refresh, had ended before it was seized.
MissedExplained == Held /\ ~vanished => Running = {}

\* session->threads tells the truth: a thread marked stopped is stopped and its stop
\* was waited for, or it was killed; only the main thread runs a remote stub.
MarkedStopped ==
    \A t \in stopped : ~(t = Leader /\ pc = "stub") =>
        \/ task[t] = "trapped" /\ t \notin unwaited
        \/ task[t] \in {"zombie", "gone"}

\* Between commands session->threads knows every thread that is in a ptrace stop: it is
\* marked stopped, for a continue or a detach, or its stop is still to be waited for; also
\* after a stop that failed half way.  The exceptions are threads beyond ZT_THREADS_CAPACITY
\* and those of a detach that could not stop the target.  A stop that is still to be
\* waited for is taken by the next poll only if a trace runs (EventsNoticed): else
\* zt_cli_event_hook does not poll, and the thread stays stopped until the next stop.
NoneForgotten ==
    pc = "idle" => \A t \in Tids : task[t] = "trapped" =>
        IF t \in threads THEN t \in stopped \cup unwaited ELSE t \in strays

\* A signal that stopped a thread is given to it when it is resumed, however stops,
\* interrupts, polls and remote stubs follow each other, with four exceptions: a SIGTRAP
\* of the target's own (zt_resume_signal_from_status), a signal that stops a stub, one that
\* the main thread is owed when a late interrupt stops a stub, and one that is
\* pending when the thread is detached.
SignalsKept == lost \subseteq {"SIGTRAP", "stub", "interrupt", "detach"}

\* zt_injector_poll_events reports the end of a process only if it has ended: the main
\* thread is dead, whatever other threads have been reaped and dropped.
ExitTrue == target_exited => ProcessExited

\* zt_injector_detach that did not fail leaves no living thread traced, unless it
\* relied on a threads_stopped that a failed stop had made stale.
DetachFrees ==
    pc = "idle" /\ ~attached /\ ~failed /\ ~stale => \A t \in traced : task[t] = "zombie"

\* zt_remote_exec.c: "Execute a tiny syscall/call stub in the target": a stub that is
\* reported to have returned was executed.  An interrupt that was sent during a signal
\* stop refutes it: its trap comes when the stub is started.
StubExecuted == ~phantom

\* zt_injector_interrupt_all "wait[s] for them, compact[s] exits": waiting for the
\* threads ends.
WaitEnds == (pc = "wait") ~> (pc # "wait")

\* Waiting ends unless the process has exited: then the exit of the main thread,
\* first in the table, is not reported before the others are reaped.
WaitEndsOrExited == (pc = "wait") ~> (pc # "wait" \/ task[Leader] = "zombie")

\* While a trace runs, every stop and every exit of a known thread is noticed by a poll:
\* it does not stay unwaited for.  The exceptions are a thread that was seized and not
\* recorded, for which every refresh fails, and the hanging wait of WaitEndsOrExited.
EventsNoticed ==
    \A t \in Tids :
        runtime = "RUNNING" /\ t \in threads \cap unwaited
            ~> \/ runtime # "RUNNING" \/ t \notin threads \cap unwaited
               \/ strays # {} \/ (pc = "wait" /\ task[Leader] = "zombie")
=============================================================================
