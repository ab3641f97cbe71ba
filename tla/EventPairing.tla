---------------------------- MODULE EventPairing ----------------------------
(***************************************************************************)
(* What the log shows of a probed call: zt_dump_one_trace_event applies    *)
(* the probe's filter to the entry event and keeps the decision in         *)
(* g_entry_cache for the return event of the same call_id.  Events arrive  *)
(* in order, and any of them may have been lost in the ring buffer.        *)
(*                                                                         *)
(* A trace ends with its last probe, or when its target is gone.  Calls    *)
(* that are still running then may return in a later trace, in which the   *)
(* call ids start again from 1; what they do between two traces is left to *)
(* TraceSession, which composes this module with the trace's life cycle.   *)
(***************************************************************************)
EXTENDS Integers, Sequences, FiniteSets

CONSTANTS Args,        \* what the filter tells apart of a call's arguments
          CacheSize,   \* slots of g_entry_cache (ZT_TRACE_EVENT_CAPACITY)
          MaxCalls,    \* bound: calls in a trace
          MaxTraces,   \* bound: traces
          MaxQueue     \* bound: events in the ring buffer

ASSUME PairAssumption ==
    CacheSize \in Nat \ {0} /\ MaxCalls \in Nat /\ MaxTraces \in Nat \ {0} /\ MaxQueue \in Nat

Calls == [trace : 1 .. MaxTraces, id : 1 .. MaxCalls, arg : Args]
NoCall == [trace |-> 0, id |-> 0]
Events == [type : {"ENTRY", "RETURN"}, call : Calls]
NoSlot == [call |-> NoCall, suppressed |-> FALSE]

VARIABLES
    call_id_seq,   \* g_call_id_seq
    running,       \* calls that were entered and have not returned
    queue,         \* committed events that were not read yet
    trace,         \* number of the trace, or of the last one
    active,        \* the tracer reads the buffer
    patched,       \* the function jumps to a trampoline
    probed,        \* the probe is in the table
    filter,        \* the arguments it lets pass
    g_entry_cache,
    \* history, not in the code
    open,          \* calls whose entry event was read: was it shown, who took its slot
    last           \* the return event read in this step: was it shown, what entry was it matched with

producing == <<call_id_seq, running>>
table == <<trace, active, patched, probed, filter>>
log == <<g_entry_cache, open>>
pairVars == <<producing, queue, table, log, last>>

Nothing == [call |-> NoCall, with |-> NoCall, shown |-> FALSE, entry |-> {}]

PairInit ==
    /\ call_id_seq = 0 /\ running = {} /\ queue = <<>>
    /\ trace = 0 /\ active = FALSE /\ patched = FALSE /\ probed = FALSE /\ filter = {}
    /\ g_entry_cache = [s \in 0 .. CacheSize - 1 |-> NoSlot]
    /\ open = {} /\ last = Nothing

\* Mutant: the modulus is one too small.
MutantSlot(id) == id % (CacheSize - 1)

Slot(id) == id % CacheSize
-----------------------------------------------------------------------------
(* The target, as far as its events go.                                    *)

\* An event that is committed while no trace is active is never read.
CommitEvent(type, call) ==
    IF active
    THEN Len(queue) < MaxQueue /\ queue' = Append(queue, [type |-> type, call |-> call])
    ELSE UNCHANGED queue

\* zt_handle_entry
Enter(arg) ==
    LET call == [trace |-> trace, id |-> call_id_seq + 1, arg |-> arg] IN
    /\ patched /\ call_id_seq < MaxCalls
    /\ call_id_seq' = call_id_seq + 1
    /\ running' = running \cup {call}
    /\ CommitEvent("ENTRY", call)
    /\ last' = Nothing /\ UNCHANGED <<table, log>>

\* zt_handle_return; threads return in any order.
Return(call) ==
    /\ running' = running \ {call}
    /\ CommitEvent("RETURN", call)
    /\ last' = Nothing /\ UNCHANGED <<call_id_seq, table, log>>

\* The ring buffer overwrites its oldest event.
Lose ==
    /\ queue # <<>>
    /\ queue' = Tail(queue)
    /\ open' = {o \in open : Head(queue).type = "ENTRY" \/ o.call # Head(queue).call}
    /\ last' = Nothing /\ UNCHANGED <<producing, table, g_entry_cache>>
-----------------------------------------------------------------------------
(* zt_dump_one_trace_event                                                 *)

\* zt_trace_event_is_suppressed; a probe that is no longer in the table filters nothing.
Suppressed(e) == e.type = "ENTRY" /\ probed /\ e.call.arg \notin filter

Read(e, type) == queue # <<>> /\ e = Head(queue) /\ e.type = type /\ queue' = Tail(queue)

\* The calls in `victims` lose their cache slots to `call`.
Rob(victims, call) == {IF o.call \in victims THEN [o EXCEPT !.robber = call] ELSE o : o \in open}

\* Mutant: only entry events that are shown are kept.
MutantForget(e) ==
    LET s == Slot(e.call.id) IN
    /\ Read(e, "ENTRY")
    /\ g_entry_cache' = IF Suppressed(e) THEN g_entry_cache
                        ELSE [g_entry_cache EXCEPT ![s] = [call |-> e.call, suppressed |-> FALSE]]
    /\ open' = (IF Suppressed(e) THEN open ELSE Rob({g_entry_cache[s].call}, e.call))
                 \cup {[call |-> e.call, shown |-> ~ Suppressed(e), robber |-> NoCall]}
    /\ last' = Nothing /\ UNCHANGED <<producing, table>>

DumpEntry(e) ==
    LET s == Slot(e.call.id) IN
    /\ Read(e, "ENTRY")
    /\ g_entry_cache' = [g_entry_cache EXCEPT ![s] = [call |-> e.call, suppressed |-> Suppressed(e)]]
    /\ open' = Rob({g_entry_cache[s].call}, e.call)
                 \cup {[call |-> e.call, shown |-> ~ Suppressed(e), robber |-> NoCall]}
    /\ last' = Nothing /\ UNCHANGED <<producing, table>>

\* Mutant: any entry in the slot is taken for the call's own.
MutantMatches(slot, call) == slot.call # NoCall

\* Only the call_id is compared: that it comes from another trace cannot be seen.
Matches(slot, call) == slot.call.id = call.id

DumpReturn(e) ==
    LET s == Slot(e.call.id)
        slot == g_entry_cache[s]
        matched == Matches(slot, e.call)
    IN  /\ Read(e, "RETURN")
        /\ g_entry_cache' = IF matched THEN [g_entry_cache EXCEPT ![s] = NoSlot] ELSE g_entry_cache
        /\ open' = {o \in (IF matched THEN Rob({slot.call} \ {e.call}, e.call) ELSE open) : o.call # e.call}
        /\ last' = [call  |-> e.call,
                    with  |-> IF matched THEN slot.call ELSE NoCall,
                    shown |-> IF matched THEN ~ slot.suppressed ELSE ~ Suppressed(e),
                    entry |-> {o \in open : o.call = e.call}]
        /\ UNCHANGED <<producing, table>>
-----------------------------------------------------------------------------
(* Commands.                                                               *)

\* zt_trace_update_probe_filter, without stopping the target.
UpdateFilter ==
    /\ active /\ probed
    /\ filter' \in (SUBSET Args) \ {filter}
    /\ last' = Nothing /\ UNCHANGED <<producing, queue, trace, active, patched, probed, log>>

\* zt_trace_disable_probe and zt_trace_enable_probe.  A function whose probe is removed
\* or disabled may still jump to a trampoline: one of a probe that was forgotten.
Toggle(jumps) ==
    /\ active /\ probed
    /\ patched' = jumps
    /\ last' = Nothing /\ UNCHANGED <<producing, queue, trace, active, probed, filter, log>>

\* The probe leaves the table while the trace stays active: zt_trace_remove_probe next
\* to another probe, or zt_injector_detach.
DropProbe(jumps) ==
    /\ probed /\ probed' = FALSE /\ patched' = jumps
    /\ last' = Nothing /\ UNCHANGED <<producing, queue, trace, active, filter, log>>

\* zt_trace_install_active_probe
AddProbe ==
    /\ active /\ ~probed
    /\ probed' = TRUE /\ patched' = TRUE /\ filter' \in SUBSET Args
    /\ last' = Nothing /\ UNCHANGED <<producing, queue, trace, active, log>>

\* zt_trace_reset_active
Reset == g_entry_cache' = [s \in 0 .. CacheSize - 1 |-> NoSlot]

\* What is left in the buffer is lost with it.
EndTrace(known, jumps) ==
    /\ active /\ active' = FALSE
    /\ probed' = known /\ patched' = jumps
    /\ queue' = <<>> /\ open' = {}
    /\ Reset
    /\ last' = Nothing /\ UNCHANGED <<producing, trace, filter>>

\* zt_payload_init starts the call ids anew in an empty buffer, and the probe is
\* installed.
BeginTrace ==
    /\ ~active /\ trace < MaxTraces
    /\ active' = TRUE /\ trace' = trace + 1
    /\ probed' = TRUE /\ patched' = TRUE /\ filter' \in SUBSET Args
    /\ call_id_seq' = 0
    /\ last' = Nothing /\ UNCHANGED <<running, queue, log>>

\* Another process is attached, in which nothing of the tracer is.
NewTarget ==
    /\ running' = {} /\ patched' = FALSE
    /\ queue' = <<>> /\ open' = {}
    /\ last' = Nothing /\ UNCHANGED <<call_id_seq, trace, active, probed, filter, g_entry_cache>>

\* Anything else that the tracer or the target does.
Aside == last' = Nothing /\ UNCHANGED <<producing, queue, table, log>>

PairNext ==
    \/ \E arg \in Args : Enter(arg)
    \/ \E call \in running : Return(call)
    \/ \E e \in {queue[i] : i \in DOMAIN queue} : DumpEntry(e) \/ DumpReturn(e)
    \/ Lose \/ UpdateFilter \/ AddProbe \/ BeginTrace \/ NewTarget \/ Aside
    \/ \E jumps \in BOOLEAN : Toggle(jumps) \/ DropProbe(jumps) \/ \E known \in BOOLEAN : EndTrace(known, jumps)

PairSpec == PairInit /\ [][PairNext]_pairVars
-----------------------------------------------------------------------------
(* Properties.                                                             *)

\* Every variable stays in its type, and a cached entry sits in the slot of its own
\* call_id, where zt_dump_one_trace_event looks for it.
PairTypeOK ==
    /\ call_id_seq \in 0 .. MaxCalls /\ running \subseteq Calls
    /\ queue \in Seq(Events) /\ Len(queue) <= MaxQueue
    /\ trace \in 0 .. MaxTraces /\ filter \subseteq Args
    /\ active \in BOOLEAN /\ patched \in BOOLEAN /\ probed \in BOOLEAN
    /\ g_entry_cache \in [0 .. CacheSize - 1 -> [call : Calls \cup {NoCall}, suppressed : BOOLEAN]]
    /\ \A s \in DOMAIN g_entry_cache : g_entry_cache[s].call = NoCall \/ Slot(g_entry_cache[s].call.id) = s
    /\ open \subseteq [call : Calls, shown : BOOLEAN, robber : Calls \cup {NoCall}]

\* The comment in zt_dump_one_trace_event: "applying the same filter decision to the
\* pair".  Whatever happens to the filter and to the probe between the two events, the
\* return of a call is shown if and only if its entry was, provided the entry was read
\* in the same trace and its slot was not taken by another call in the meantime.  A
\* return that finds no entry, because it was lost or its slot taken, is shown.
SameDecision ==
    /\ \A o \in last.entry : o.robber = NoCall => last.shown = o.shown
    /\ last # Nothing /\ last.with = NoCall => last.shown

\* A return is formatted with the entry of its own call.  The one exception is a call
\* that was running when an earlier trace ended: it meets the ids of the new trace.
MatchedOwn == last.with \in {NoCall, last.call} \/ last.call.trace < last.with.trace

\* A call loses its slot only to a call that entered at least CacheSize calls later,
\* or to one that was running when an earlier trace ended.
RobberExplained ==
    \A o \in open :
        o.robber # NoCall => o.call.id + CacheSize <= o.robber.id \/ o.robber.trace < o.call.trace
=============================================================================
