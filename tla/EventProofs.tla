---------------------------- MODULE EventProofs -----------------------------
(***************************************************************************)
(* Proofs about the way of an event: RingBuffer, which carries it out of   *)
(* the target, for any number of producers, any capacity and any event     *)
(* size; EventPairing, which matches it with its entry, for any cache size *)
(* and any number of calls; TraceSession, which says when it is read.      *)
(***************************************************************************)
EXTENDS RingBuffer, TraceSession, TLAPS

-----------------------------------------------------------------------------
(* EventPairing.                                                           *)

\* The calls an event in the queue, the cache or the open list belongs to.
Queued == {queue[i].call : i \in DOMAIN queue}
Cached == {g_entry_cache[s].call : s \in 0 .. CacheSize - 1} \ {NoCall}
Opened == {o.call : o \in open}
Known == running \cup Queued \cup Cached \cup Opened

\* A trace and a number name one call, and numbers of this trace were handed out.
Unique ==
    /\ \A c \in Known : c.trace <= trace /\ (c.trace = trace => c.id <= call_id_seq)
    /\ \A c, d \in Known : c.trace = d.trace /\ c.id = d.id => c = d

\* The log belongs to this trace, and there is none without a trace.
OfThisTrace ==
    /\ active \/ probed \/ patched => trace >= 1
    /\ \A c \in Cached \cup Opened : c.trace = trace
    /\ \A i \in DOMAIN queue : queue[i].type = "ENTRY" => queue[i].call.trace = trace
    /\ ~active => queue = <<>> /\ Cached = {} /\ open = {}

\* Entry events are read in the order of their calls.
InOrder ==
    \A i \in DOMAIN queue : queue[i].type = "ENTRY" =>
        /\ \A j \in DOMAIN queue : queue[j].type = "ENTRY" /\ i < j => queue[i].call.id < queue[j].call.id
        /\ \A c \in Cached \cup Opened : c.id < queue[i].call.id

\* A call that kept its slot finds its own entry there, with the decision taken.
Kept ==
    \A o \in open : o.robber = NoCall =>
        g_entry_cache[Slot(o.call.id)] = [call |-> o.call, suppressed |-> ~ o.shown]

\* The inductive invariant, without and with what it says of the event just read.
LogInv == PairTypeOK /\ Unique /\ OfThisTrace /\ InOrder /\ Kept /\ RobberExplained
PairInv == LogInv /\ SameDecision /\ MatchedOwn
-----------------------------------------------------------------------------
(* Slots and queues.                                                       *)

\* Every call id has a slot of g_entry_cache.
LEMMA SlotType == \A id \in Nat : Slot(id) \in 0 .. CacheSize - 1
  BY PairAssumption DEF Slot

\* Two calls that share a slot are at least CacheSize calls apart.
LEMMA SlotsApart ==
    ASSUME NEW a \in Nat, NEW b \in Nat, a < b, Slot(a) = Slot(b)
    PROVE  a + CacheSize <= b
  <1> DEFINE q == b \div CacheSize
             r == a \div CacheSize
  <1>1. /\ q \in Int /\ r \in Int
        /\ b = q * CacheSize + (b % CacheSize)
        /\ a = r * CacheSize + (a % CacheSize)
    BY PairAssumption
  <1> HIDE DEF q, r
  <1>2. b - a = (q - r) * CacheSize
    BY <1>1, PairAssumption DEF Slot
  <1>3. q - r >= 1
    BY <1>1, <1>2, PairAssumption
  <1>4. (q - r) * CacheSize >= CacheSize
    BY <1>1, <1>3, PairAssumption
  <1> QED BY <1>1, <1>2, <1>4, PairAssumption

\* What reading or losing the oldest event leaves of the queue.
LEMMA QueueTail ==
    ASSUME queue \in Seq(Events), queue # <<>>, queue' = Tail(queue)
    PROVE  /\ 1 \in DOMAIN queue /\ Head(queue) = queue[1] /\ queue[1] \in Events
           /\ queue' \in Seq(Events) /\ Len(queue') < Len(queue)
           /\ \A i \in DOMAIN queue' : i + 1 \in DOMAIN queue /\ queue'[i] = queue[i + 1] /\ i \in Nat /\ i >= 1
  OBVIOUS

\* What a commit adds to the queue.
LEMMA QueueAppend ==
    ASSUME queue \in Seq(Events), NEW e \in Events, queue' = Append(queue, e)
    PROVE  /\ queue' \in Seq(Events) /\ Len(queue') = Len(queue) + 1
           /\ DOMAIN queue' = DOMAIN queue \cup {Len(queue) + 1}
           /\ \A i \in DOMAIN queue : queue'[i] = queue[i] /\ i < Len(queue) + 1
           /\ queue'[Len(queue) + 1] = e
  OBVIOUS
-----------------------------------------------------------------------------
(* The invariant.                                                          *)

\* zt_trace_reset_active leaves no entry behind.
LEMMA EmptyCache ==
    ASSUME NEW cache, cache = [s \in 0 .. CacheSize - 1 |-> NoSlot]
    PROVE  /\ cache \in [0 .. CacheSize - 1 -> [call : Calls \cup {NoCall}, suppressed : BOOLEAN]]
           /\ \A s \in DOMAIN cache : cache[s].call = NoCall
           /\ \A s \in 0 .. CacheSize - 1 : cache[s].call = NoCall
  <1>1. NoSlot \in [call : Calls \cup {NoCall}, suppressed : BOOLEAN] /\ NoSlot.call = NoCall
    BY DEF NoSlot
  <1> QED BY <1>1

\* Before the first trace the invariant holds.
LEMMA PairInitial == PairInit => PairInv
  <1> SUFFICES ASSUME PairInit PROVE PairInv
    OBVIOUS
  <1> USE PairAssumption DEF PairInit
  <1>1. queue \in Seq(Events) /\ Len(queue) = 0 /\ DOMAIN queue = {}
    OBVIOUS
  <1>2. Known = {} /\ Cached = {} /\ Opened = {}
    BY <1>1 DEF Known, Cached, Opened, Queued, NoSlot
  <1>3. PairTypeOK
    <2>1. /\ g_entry_cache \in [0 .. CacheSize - 1 -> [call : Calls \cup {NoCall}, suppressed : BOOLEAN]]
          /\ \A s \in DOMAIN g_entry_cache : g_entry_cache[s].call = NoCall
      BY EmptyCache
    <2>2. call_id_seq \in 0 .. MaxCalls /\ trace \in 0 .. MaxTraces /\ Len(queue) <= MaxQueue
      BY <1>1
    <2>3. /\ running \subseteq Calls /\ filter \subseteq Args
          /\ active \in BOOLEAN /\ patched \in BOOLEAN /\ probed \in BOOLEAN
          /\ open \subseteq [call : Calls, shown : BOOLEAN, robber : Calls \cup {NoCall}]
      OBVIOUS
    <2> QED BY <1>1, <2>1, <2>2, <2>3, Zenon DEF PairTypeOK
  <1>4. Unique /\ OfThisTrace /\ InOrder /\ Kept /\ RobberExplained
    BY <1>1, <1>2 DEF Unique, OfThisTrace, InOrder, Kept, RobberExplained
  <1>5. SameDecision /\ MatchedOwn
    BY DEF SameDecision, MatchedOwn, Nothing
  <1> QED BY <1>3, <1>4, <1>5 DEF PairInv, LogInv

\* A step that reads no return event says nothing of one.
LEMMA NothingRead == ASSUME last' = Nothing PROVE SameDecision' /\ MatchedOwn'
  BY DEF SameDecision, MatchedOwn, Nothing

\* Commands that change the probe table and not the trace.
LEMMA TableStep ==
    ASSUME LogInv, UNCHANGED <<call_id_seq, running, queue, trace, active, g_entry_cache, open>>,
           probed' \in BOOLEAN, patched' \in BOOLEAN, filter' \subseteq Args,
           probed' \/ patched' => active \/ probed \/ patched
    PROVE  LogInv'
  <1>1. Known' = Known /\ Cached' = Cached /\ Opened' = Opened
    BY DEF Known, Queued, Cached, Opened
  <1>2. PairTypeOK'
    BY DEF LogInv, PairTypeOK
  <1>3. Unique' /\ InOrder' /\ Kept' /\ RobberExplained'
    BY <1>1 DEF LogInv, Unique, InOrder, Kept, RobberExplained
  <1>4. OfThisTrace'
    BY <1>1 DEF LogInv, OfThisTrace
  <1> QED BY <1>2, <1>3, <1>4 DEF LogInv

\* The types of the calls the invariant speaks of.
LEMMA KnownType ==
    ASSUME PairTypeOK
    PROVE  /\ Known \subseteq Calls /\ NoCall \notin Calls
           /\ running \subseteq Known /\ Queued \subseteq Known /\ Cached \subseteq Known /\ Opened \subseteq Known
           /\ \A i \in DOMAIN queue : queue[i] \in Events /\ queue[i].call \in Queued /\ i \in Nat
           /\ \A c \in Calls : c.id \in Nat /\ c.id # 0 /\ c.trace \in Nat
           /\ trace \in Nat /\ call_id_seq \in Nat
  <1>1. \A i \in DOMAIN queue : queue[i] \in Events /\ queue[i].call \in Queued /\ i \in Nat
    BY DEF PairTypeOK, Queued
  <1>2. Queued \subseteq Calls
    BY <1>1 DEF Queued, Events
  <1>3. Cached \subseteq Calls /\ Opened \subseteq Calls
    BY DEF PairTypeOK, Cached, Opened
  <1>4. NoCall \notin Calls /\ \A c \in Calls : c.id \in Nat /\ c.id # 0 /\ c.trace \in Nat
    BY PairAssumption DEF NoCall, Calls
  <1> QED BY <1>1, <1>2, <1>3, <1>4, PairAssumption DEF PairTypeOK, Known

\* Numbers stay unique when no call is added.
LEMMA UniqueShrinks ==
    ASSUME Unique, Known' \subseteq Known, UNCHANGED <<trace, call_id_seq>>
    PROVE  Unique'
  BY DEF Unique

\* zt_handle_entry hands out a number that no call of the trace has.
LEMMA EnterStep ==
    ASSUME LogInv, NEW arg \in Args, Enter(arg)
    PROVE  LogInv'
  <1> DEFINE call == [trace |-> trace, id |-> call_id_seq + 1, arg |-> arg]
             e == [type |-> "ENTRY", call |-> call]
  <1> USE PairAssumption
  <1>0. PairTypeOK
    BY DEF LogInv
  <1>1. /\ patched /\ call_id_seq' = call_id_seq + 1 /\ running' = running \cup {call}
        /\ UNCHANGED <<trace, active, patched, probed, filter, g_entry_cache, open>>
        /\ CommitEvent("ENTRY", call)
    BY DEF Enter, table, log
  <1>2. /\ call \in Calls /\ e \in Events /\ call.trace = trace /\ call.id = call_id_seq + 1
        /\ e.call = call /\ e.type = "ENTRY"
    BY <1>1 DEF LogInv, PairTypeOK, OfThisTrace, Calls, Events, Enter
  <1>3. Cached' = Cached /\ Opened' = Opened
    BY <1>1 DEF Cached, Opened
  <1>4. /\ queue' \in Seq(Events) /\ Len(queue') <= MaxQueue
        /\ \A i \in DOMAIN queue' : \/ i \in DOMAIN queue /\ queue'[i] = queue[i]
                                    \/ queue'[i] = e /\ i = Len(queue) + 1
        /\ DOMAIN queue = 1 .. Len(queue) /\ Len(queue) \in Nat
        /\ ~active => queue' = queue
    <2>1. CASE active
      <3>1. queue' = Append(queue, e) /\ Len(queue) < MaxQueue
        BY <1>1, <2>1 DEF CommitEvent
      <3> HIDE DEF call, e
      <3>2. /\ queue' \in Seq(Events) /\ Len(queue') = Len(queue) + 1
            /\ DOMAIN queue' = DOMAIN queue \cup {Len(queue) + 1}
            /\ \A i \in DOMAIN queue : queue'[i] = queue[i]
            /\ queue'[Len(queue) + 1] = e
        BY <1>0, <1>2, <3>1, QueueAppend DEF PairTypeOK
      <3>3. DOMAIN queue = 1 .. Len(queue) /\ Len(queue) \in Nat
        BY <1>0 DEF PairTypeOK
      <3>4. Len(queue') <= MaxQueue
        BY <3>1, <3>2, <3>3
      <3>5. ASSUME NEW i \in DOMAIN queue'
            PROVE  \/ i \in DOMAIN queue /\ queue'[i] = queue[i]
                   \/ queue'[i] = e /\ i = Len(queue) + 1
        <4>1. CASE i \in DOMAIN queue
          BY <3>2, <4>1
        <4>2. CASE i = Len(queue) + 1
          BY <3>2, <4>2
        <4> QED BY <3>2, <4>1, <4>2
      <3> QED BY <2>1, <3>2, <3>3, <3>4, <3>5, Zenon
    <2>2. CASE ~active
      <3>1. queue' = queue
        BY <1>1, <2>2 DEF CommitEvent
      <3> QED BY <1>0, <3>1 DEF PairTypeOK
    <2> QED BY <2>1, <2>2
  <1> HIDE DEF call, e
  <1>5. Known' \subseteq Known \cup {call}
    BY <1>1, <1>2, <1>3, <1>4 DEF Known, Queued
  <1>6. PairTypeOK'
    BY <1>1, <1>2, <1>4 DEF LogInv, PairTypeOK, Enter
  <1>7. Unique'
    <2>1. \A c \in Known : c.trace = trace => c.id < call.id
      BY <1>0, <1>2, KnownType DEF LogInv, Unique
    <2>2. ASSUME NEW c \in Known', NEW d \in Known', c.trace = d.trace, c.id = d.id PROVE c = d
      BY <1>0, <1>2, <1>5, <2>1, <2>2, KnownType DEF LogInv, Unique
    <2>3. ASSUME NEW c \in Known' PROVE c.trace <= trace /\ (c.trace = trace => c.id <= call_id_seq + 1)
      BY <1>2, <1>5, KnownType, SMT, Z3 DEF LogInv, Unique
    <2> QED BY <1>1, <2>2, <2>3 DEF Unique
  <1>8. OfThisTrace'
    BY <1>1, <1>2, <1>3, <1>4 DEF LogInv, OfThisTrace
  <1>9. InOrder'
    <2>1. \A c \in Cached \cup Opened : c.id < call.id
      BY <1>0, <1>2, KnownType DEF LogInv, OfThisTrace, Unique
    <2>2. \A i \in DOMAIN queue : queue[i].type = "ENTRY" => queue[i].call.id < call.id
      BY <1>0, <1>2, KnownType DEF LogInv, OfThisTrace, Unique
    <2> QED BY <1>2, <1>3, <1>4, <2>1, <2>2 DEF LogInv, InOrder
  <1>10. Kept' /\ RobberExplained'
    BY <1>1 DEF LogInv, Kept, RobberExplained, Slot
  <1> QED BY <1>6, <1>7, <1>8, <1>9, <1>10 DEF LogInv

\* zt_handle_return commits the number of a call that is known.
LEMMA ReturnStep ==
    ASSUME LogInv, NEW call \in running, Return(call)
    PROVE  LogInv'
  <1> DEFINE e == [type |-> "RETURN", call |-> call]
  <1> USE PairAssumption
  <1>1. /\ running' = running \ {call}
        /\ UNCHANGED <<call_id_seq, trace, active, patched, probed, filter, g_entry_cache, open>>
        /\ CommitEvent("RETURN", call)
    BY DEF Return, table, log
  <1>2. call \in Calls /\ e \in Events /\ e.call = call /\ e.type # "ENTRY"
    BY DEF LogInv, PairTypeOK, Events
  <1>3. Cached' = Cached /\ Opened' = Opened
    BY <1>1 DEF Cached, Opened
  <1>4. /\ queue' \in Seq(Events) /\ Len(queue') <= MaxQueue
        /\ \A i \in DOMAIN queue' : (i \in DOMAIN queue /\ queue'[i] = queue[i]) \/ queue'[i] = e
        /\ ~active => queue' = queue
    <2>1. CASE active
      BY <1>1, <1>2, <2>1, QueueAppend DEF CommitEvent, LogInv, PairTypeOK
    <2>2. CASE ~active
      BY <1>1, <2>2 DEF CommitEvent, LogInv, PairTypeOK
    <2> QED BY <2>1, <2>2
  <1>5. Known' \subseteq Known
    BY <1>1, <1>2, <1>3, <1>4 DEF Known, Queued
  <1>6. PairTypeOK'
    BY <1>1, <1>2, <1>4 DEF LogInv, PairTypeOK
  <1>7. Unique'
    BY <1>1, <1>5, UniqueShrinks DEF LogInv
  <1>8. OfThisTrace' /\ InOrder'
    BY <1>1, <1>2, <1>3, <1>4 DEF LogInv, OfThisTrace, InOrder
  <1>9. Kept' /\ RobberExplained'
    BY <1>1 DEF LogInv, Kept, RobberExplained, Slot
  <1> QED BY <1>6, <1>7, <1>8, <1>9 DEF LogInv

\* An event that is lost leaves the log as it is.
LEMMA LoseStep ==
    ASSUME LogInv, Lose
    PROVE  LogInv'
  <1> USE PairAssumption
  <1>0. PairTypeOK
    BY DEF LogInv
  <1>1. /\ queue # <<>> /\ queue' = Tail(queue) /\ open' \subseteq open
        /\ UNCHANGED <<call_id_seq, running, trace, active, patched, probed, filter, g_entry_cache>>
    BY DEF Lose, producing, table
  <1>2. /\ queue' \in Seq(Events) /\ Len(queue') < Len(queue) /\ Len(queue') <= MaxQueue
        /\ \A i \in DOMAIN queue' : i + 1 \in DOMAIN queue /\ queue'[i] = queue[i + 1] /\ i \in Nat
    BY <1>0, <1>1, QueueTail DEF PairTypeOK
  <1>3. Cached' = Cached /\ Opened' \subseteq Opened
    BY <1>1 DEF Cached, Opened
  <1>4. Queued' \subseteq Queued
    BY <1>2 DEF Queued
  <1>5. Known' \subseteq Known
    BY <1>1, <1>3, <1>4 DEF Known
  <1>6. PairTypeOK'
    BY <1>0, <1>1, <1>2 DEF PairTypeOK
  <1>7. Unique'
    BY <1>1, <1>5, UniqueShrinks DEF LogInv
  <1>8. OfThisTrace'
    BY <1>1, <1>2, <1>3 DEF LogInv, OfThisTrace
  <1>9. InOrder'
    BY <1>2, <1>3 DEF LogInv, InOrder
  <1>10. Kept' /\ RobberExplained'
    BY <1>1 DEF LogInv, Kept, RobberExplained, Slot
  <1> QED BY <1>6, <1>7, <1>8, <1>9, <1>10 DEF LogInv

\* The end of a trace: nothing of it is left in the tracer.
LEMMA EndStep ==
    ASSUME LogInv, NEW known \in BOOLEAN, NEW jumps \in BOOLEAN, EndTrace(known, jumps)
    PROVE  LogInv'
  <1>1. /\ active /\ active' = FALSE /\ probed' = known /\ patched' = jumps
        /\ queue' = <<>> /\ open' = {} /\ g_entry_cache' = [s \in 0 .. CacheSize - 1 |-> NoSlot]
        /\ UNCHANGED <<call_id_seq, running, trace, filter>>
    BY DEF EndTrace, producing, Reset
  <1>2. /\ g_entry_cache' \in [0 .. CacheSize - 1 -> [call : Calls \cup {NoCall}, suppressed : BOOLEAN]]
        /\ \A s \in DOMAIN g_entry_cache' : g_entry_cache'[s].call = NoCall
        /\ \A s \in 0 .. CacheSize - 1 : g_entry_cache'[s].call = NoCall
    BY <1>1, EmptyCache, Zenon
  <1>3. queue' \in Seq(Events) /\ Len(queue') = 0 /\ DOMAIN queue' = {}
    BY <1>1
  <1>4. Cached' = {} /\ Opened' = {} /\ Known' \subseteq Known
    BY <1>1, <1>2, <1>3 DEF Cached, Opened, Queued, Known
  <1>5. PairTypeOK'
    BY <1>1, <1>2, <1>3, PairAssumption DEF LogInv, PairTypeOK
  <1>6. Unique'
    BY <1>1, <1>4, UniqueShrinks DEF LogInv
  <1>7. OfThisTrace' /\ InOrder' /\ Kept' /\ RobberExplained'
    BY <1>1, <1>3, <1>4 DEF LogInv, OfThisTrace, InOrder, Kept, RobberExplained
  <1> QED BY <1>5, <1>6, <1>7 DEF LogInv

\* Another process is attached: no call and no event of the one before is left.
LEMMA NewTargetStep ==
    ASSUME LogInv, NewTarget
    PROVE  LogInv'
  <1>1. /\ patched' = FALSE /\ running' = {} /\ queue' = <<>> /\ open' = {}
        /\ UNCHANGED <<call_id_seq, trace, active, probed, filter, g_entry_cache>>
    BY DEF NewTarget
  <1>2. queue' \in Seq(Events) /\ Len(queue') = 0 /\ DOMAIN queue' = {}
    BY <1>1
  <1>3. Cached' = Cached /\ Opened' = {} /\ Known' \subseteq Known
    BY <1>1, <1>2 DEF Cached, Opened, Queued, Known
  <1>4. PairTypeOK'
    BY <1>1, <1>2, PairAssumption DEF LogInv, PairTypeOK
  <1>5. Unique'
    BY <1>1, <1>3, UniqueShrinks DEF LogInv
  <1>6. OfThisTrace' /\ InOrder' /\ Kept' /\ RobberExplained'
    BY <1>1, <1>2, <1>3 DEF LogInv, OfThisTrace, InOrder, Kept, RobberExplained
  <1> QED BY <1>4, <1>5, <1>6 DEF LogInv

\* A new trace begins with an empty log, and its number is new.
LEMMA BeginStep ==
    ASSUME LogInv, BeginTrace
    PROVE  LogInv'
  <1> USE PairAssumption
  <1>0. PairTypeOK
    BY DEF LogInv
  <1>1. /\ ~active /\ trace < MaxTraces /\ active' = TRUE /\ trace' = trace + 1
        /\ probed' = TRUE /\ patched' = TRUE /\ filter' \subseteq Args /\ call_id_seq' = 0
        /\ UNCHANGED <<running, queue, g_entry_cache, open>>
    BY DEF BeginTrace, log
  <1>2. queue = <<>> /\ Cached = {} /\ open = {}
    BY <1>1 DEF LogInv, OfThisTrace
  <1>3. DOMAIN queue' = {} /\ Cached' = {} /\ Opened' = {} /\ open' = {}
    BY <1>1, <1>2 DEF Cached, Opened
  <1>4. Known' \subseteq Known
    BY <1>1, <1>3 DEF Known, Queued
  <1>5. PairTypeOK'
    BY <1>0, <1>1 DEF PairTypeOK
  <1>6. Unique'
    BY <1>0, <1>1, <1>4, KnownType DEF LogInv, Unique
  <1>7. OfThisTrace' /\ InOrder' /\ Kept' /\ RobberExplained'
    BY <1>0, <1>1, <1>3 DEF PairTypeOK, OfThisTrace, InOrder, Kept, RobberExplained
  <1> QED BY <1>5, <1>6, <1>7 DEF LogInv

\* What taking slots away does to a call whose entry was read.
LEMMA Robbed ==
    ASSUME PairTypeOK, NEW victims, NEW call \in Calls, NEW o \in Rob(victims, call)
    PROVE  /\ o \in [call : Calls, shown : BOOLEAN, robber : Calls \cup {NoCall}]
           /\ o.call \in Opened
           /\ \/ o \in open /\ o.call \notin victims
              \/ o.call \in victims /\ o.robber = call
  <1>1. PICK v \in open : o = IF v.call \in victims THEN [v EXCEPT !.robber = call] ELSE v
    BY DEF Rob
  <1>2. v \in [call : Calls, shown : BOOLEAN, robber : Calls \cup {NoCall}] /\ v.call \in Opened
    BY DEF PairTypeOK, Opened
  <1>3. CASE v.call \in victims
    <2>1. o = [call |-> v.call, shown |-> v.shown, robber |-> call]
      BY <1>1, <1>2, <1>3
    <2> QED BY <1>2, <1>3, <2>1
  <1>4. CASE v.call \notin victims
    <2>1. o = v
      BY <1>1, <1>4
    <2> QED BY <1>2, <1>4, <2>1
  <1> QED BY <1>3, <1>4

\* zt_dump_one_trace_event, entry event: the slot it takes is free, or that of a call
\* at least CacheSize calls older.
LEMMA DumpEntryStep ==
    ASSUME LogInv, NEW e, DumpEntry(e)
    PROVE  LogInv'
  <1> DEFINE s == Slot(e.call.id)
             kept == [call |-> e.call, suppressed |-> Suppressed(e)]
             new == [call |-> e.call, shown |-> ~ Suppressed(e), robber |-> NoCall]
  <1> USE PairAssumption
  <1>0. PairTypeOK
    BY DEF LogInv
  <1>1. /\ queue # <<>> /\ e = Head(queue) /\ e.type = "ENTRY" /\ queue' = Tail(queue)
        /\ g_entry_cache' = [g_entry_cache EXCEPT ![s] = kept]
        /\ open' = Rob({g_entry_cache[s].call}, e.call) \cup {new}
        /\ UNCHANGED <<call_id_seq, running, trace, active, patched, probed, filter>>
    BY DEF DumpEntry, Read, producing, table
  <1>2. /\ queue' \in Seq(Events) /\ Len(queue') < Len(queue) /\ Len(queue') <= MaxQueue
        /\ 1 \in DOMAIN queue /\ e = queue[1] /\ e \in Events
        /\ \A i \in DOMAIN queue' : i + 1 \in DOMAIN queue /\ queue'[i] = queue[i + 1] /\ i \in Nat /\ i >= 1
    BY <1>0, <1>1, SMT, Z3 DEF PairTypeOK
  <1>3. /\ e.call \in Calls /\ e.call \in Queued /\ e.call.id \in Nat /\ e.call # NoCall
        /\ e.call.trace = trace /\ s \in 0 .. CacheSize - 1
        /\ \A c \in Cached \cup Opened : c.id < e.call.id
    BY <1>0, <1>1, <1>2, KnownType, SlotType, Zenon DEF Events, LogInv, OfThisTrace, InOrder
  <1>4. /\ kept \in [call : Calls \cup {NoCall}, suppressed : BOOLEAN] /\ kept.call = e.call
        /\ new \in [call : Calls, shown : BOOLEAN, robber : Calls \cup {NoCall}]
        /\ new.call = e.call /\ new.robber = NoCall /\ kept = [call |-> new.call, suppressed |-> ~ new.shown]
    BY <1>0, <1>3, Zenon DEF PairTypeOK, Suppressed
  <1> HIDE DEF kept, new
  <1>6. ASSUME NEW o \in open'
        PROVE  /\ o \in [call : Calls, shown : BOOLEAN, robber : Calls \cup {NoCall}]
               /\ o.call \in Opened \cup {e.call}
               /\ \/ o = new
                  \/ o \in open /\ o.call # g_entry_cache[s].call
                  \/ o.call \in Opened /\ o.call = g_entry_cache[s].call /\ o.robber = e.call
    <2>1. CASE o = new
      BY <1>4, <2>1
    <2>2. CASE o \in Rob({g_entry_cache[s].call}, e.call)
      BY <1>0, <1>3, <2>2, Robbed
    <2> QED BY <1>1, <2>1, <2>2
  <1>7. Cached' \subseteq Cached \cup {e.call} /\ Opened' \subseteq Opened \cup {e.call}
    <2>1. \A t \in 0 .. CacheSize - 1 : g_entry_cache'[t].call \in {g_entry_cache[t].call, e.call}
      BY <1>0, <1>1, <1>3, <1>4 DEF PairTypeOK
    <2>2. Cached' \subseteq Cached \cup {e.call}
      BY <2>1 DEF Cached
    <2>3. Opened' \subseteq Opened \cup {e.call}
      BY <1>6 DEF Opened
    <2> QED BY <2>2, <2>3
  <1>8. Known' \subseteq Known
    <2>1. Queued' \subseteq Queued
      BY <1>2 DEF Queued
    <2> QED BY <1>1, <1>3, <1>7, <2>1 DEF Known
  <1>9. PairTypeOK'
    <2>1. g_entry_cache' \in [0 .. CacheSize - 1 -> [call : Calls \cup {NoCall}, suppressed : BOOLEAN]]
      BY <1>0, <1>1, <1>3, <1>4 DEF PairTypeOK
    <2>2. \A t \in DOMAIN g_entry_cache' : g_entry_cache'[t].call = NoCall \/ Slot(g_entry_cache'[t].call.id) = t
      BY <1>0, <1>1, <1>3, <1>4 DEF PairTypeOK
    <2>3. open' \subseteq [call : Calls, shown : BOOLEAN, robber : Calls \cup {NoCall}]
      BY <1>6
    <2> QED BY <1>0, <1>1, <1>2, <2>1, <2>2, <2>3, Zenon DEF PairTypeOK
  <1>10. Unique'
    BY <1>1, <1>8, UniqueShrinks DEF LogInv
  <1>11. OfThisTrace'
    <2>1. active
      BY <1>1 DEF LogInv, OfThisTrace
    <2> QED BY <1>1, <1>2, <1>3, <1>7, <2>1 DEF LogInv, OfThisTrace
  <1>12. InOrder'
    BY <1>1, <1>2, <1>7, SMT, Z3 DEF LogInv, InOrder
  <1>13. Kept'
    <2> SUFFICES ASSUME NEW o \in open', o.robber = NoCall
                 PROVE  g_entry_cache'[Slot(o.call.id)] = [call |-> o.call, suppressed |-> ~ o.shown]
      BY DEF Kept, Slot
    <2>1. CASE o = new
      BY <1>0, <1>1, <1>3, <1>4, <2>1 DEF PairTypeOK
    <2>2. CASE o \in open /\ o.call # g_entry_cache[s].call
      <3>1. /\ g_entry_cache[Slot(o.call.id)] = [call |-> o.call, suppressed |-> ~ o.shown]
            /\ Slot(o.call.id) \in 0 .. CacheSize - 1
        <4>1. o.call \in Calls /\ o.call.id \in Nat
          BY <1>0, <1>6, KnownType
        <4> QED BY <2>2, <4>1, SlotType DEF LogInv, Kept
      <3>2. Slot(o.call.id) # s
        BY <2>2, <3>1, SMT, Z3
      <3> QED BY <1>0, <1>1, <1>3, <3>1, <3>2 DEF PairTypeOK
    <2> QED BY <1>3, <1>6, <2>1, <2>2
  <1>14. RobberExplained'
    <2> SUFFICES ASSUME NEW o \in open', o.robber # NoCall
                 PROVE  o.call.id + CacheSize <= o.robber.id \/ o.robber.trace < o.call.trace
      BY DEF RobberExplained
    <2>1. CASE o \in open
      BY <2>1 DEF LogInv, RobberExplained
    <2>2. CASE o.call \in Opened /\ o.call = g_entry_cache[s].call /\ o.robber = e.call
      <3>1. o.call.id < e.call.id /\ o.call.id \in Nat /\ Slot(o.call.id) = s
        BY <1>0, <1>3, <2>2, KnownType DEF PairTypeOK
      <3> QED BY <1>3, <2>2, <3>1, SlotsApart
    <2> QED BY <1>4, <1>6, <2>1, <2>2
  <1> QED BY <1>9, <1>10, <1>11, <1>12, <1>13, <1>14 DEF LogInv

\* zt_dump_one_trace_event, return event: what it finds in its slot is its own entry,
\* or that of the call which has its number in a later trace.
LEMMA DumpReturnStep ==
    ASSUME LogInv, NEW e, DumpReturn(e)
    PROVE  PairInv'
  <1> DEFINE s == Slot(e.call.id)
             slot == g_entry_cache[s]
             matched == Matches(slot, e.call)
             victims == {slot.call} \ {e.call}
  <1> USE PairAssumption
  <1>0. PairTypeOK
    BY DEF LogInv
  <1>1. /\ queue # <<>> /\ e = Head(queue) /\ e.type = "RETURN" /\ queue' = Tail(queue)
        /\ g_entry_cache' = IF matched THEN [g_entry_cache EXCEPT ![s] = NoSlot] ELSE g_entry_cache
        /\ open' = {o \in (IF matched THEN Rob(victims, e.call) ELSE open) : o.call # e.call}
        /\ last' = [call  |-> e.call,
                    with  |-> IF matched THEN slot.call ELSE NoCall,
                    shown |-> IF matched THEN ~ slot.suppressed ELSE ~ Suppressed(e),
                    entry |-> {o \in open : o.call = e.call}]
        /\ UNCHANGED <<call_id_seq, running, trace, active, patched, probed, filter>>
    BY Zenon DEF DumpReturn, Read, producing, table
  <1>2. /\ queue' \in Seq(Events) /\ Len(queue') < Len(queue) /\ Len(queue') <= MaxQueue
        /\ 1 \in DOMAIN queue /\ e = queue[1] /\ e \in Events
        /\ \A i \in DOMAIN queue' : i + 1 \in DOMAIN queue /\ queue'[i] = queue[i + 1] /\ i \in Nat /\ i >= 1
    BY <1>0, <1>1, SMT, Z3 DEF PairTypeOK
  <1>3. /\ e.call \in Calls /\ e.call \in Known /\ e.call.id \in Nat \ {0} /\ e.call # NoCall
        /\ s \in 0 .. CacheSize - 1 /\ slot \in [call : Calls \cup {NoCall}, suppressed : BOOLEAN]
    BY <1>0, <1>2, KnownType, SlotType, Zenon DEF Events, PairTypeOK
  <1>4. ASSUME matched
        PROVE  slot.call \in Cached /\ (slot.call = e.call \/ e.call.trace < slot.call.trace)
    <2>1. slot.call.id = e.call.id
      BY <1>4 DEF Matches
    <2>2. slot.call # NoCall
      BY <1>3, <2>1 DEF NoCall
    <2>3. slot.call \in Cached
      BY <1>3, <2>2 DEF Cached
    <2>4. slot.call \in Known /\ slot.call.trace = trace /\ e.call.trace <= trace
      BY <1>0, <1>3, <2>3, KnownType DEF LogInv, OfThisTrace, Unique
    <2>5. e.call.trace = trace => slot.call = e.call
      BY <1>3, <2>1, <2>4 DEF LogInv, Unique
    <2>6. e.call.trace \in Nat /\ trace \in Nat
      BY <1>0, <1>3, KnownType
    <2> QED BY <2>3, <2>4, <2>5, <2>6
  <1> HIDE DEF matched, slot, s
  <1>5. ASSUME NEW o \in open'
        PROVE  /\ o \in [call : Calls, shown : BOOLEAN, robber : Calls \cup {NoCall}]
               /\ o.call \in Opened /\ o.call # e.call
               /\ \/ o \in open /\ (matched => o.call # slot.call)
                  \/ matched /\ o.call = slot.call /\ o.robber = e.call
    <2>1. CASE matched
      <3>1. o \in Rob(victims, e.call) /\ o.call # e.call
        BY <1>1, <2>1
      <3> QED BY <1>0, <1>3, <2>1, <3>1, Robbed, SMT, Z3
    <2>2. CASE ~matched
      BY <1>0, <1>1, <2>2 DEF PairTypeOK, Opened
    <2> QED BY <2>1, <2>2
  <1>6. \A t \in 0 .. CacheSize - 1 : \/ g_entry_cache'[t] = g_entry_cache[t]
                                      \/ t = s /\ matched /\ g_entry_cache'[t] = NoSlot
    BY <1>0, <1>1 DEF PairTypeOK
  <1>7. NoSlot.call = NoCall /\ NoSlot \in [call : Calls \cup {NoCall}, suppressed : BOOLEAN]
    BY DEF NoSlot
  <1>8. Cached' \subseteq Cached /\ Opened' \subseteq Opened
    <2>1. \A t \in 0 .. CacheSize - 1 : g_entry_cache'[t].call \in {g_entry_cache[t].call, NoCall}
      BY <1>6, <1>7
    <2> QED BY <1>5, <2>1 DEF Cached, Opened
  <1>9. Known' \subseteq Known
    <2>1. Queued' \subseteq Queued
      BY <1>2 DEF Queued
    <2> QED BY <1>1, <1>8, <2>1 DEF Known
  <1>10. PairTypeOK'
    <2>1. g_entry_cache' \in [0 .. CacheSize - 1 -> [call : Calls \cup {NoCall}, suppressed : BOOLEAN]]
      BY <1>0, <1>1, <1>3, <1>7 DEF PairTypeOK
    <2>2. \A t \in DOMAIN g_entry_cache' : g_entry_cache'[t].call = NoCall \/ Slot(g_entry_cache'[t].call.id) = t
      BY <1>0, <1>6, <1>7, <2>1 DEF PairTypeOK
    <2>3. open' \subseteq [call : Calls, shown : BOOLEAN, robber : Calls \cup {NoCall}]
      BY <1>5
    <2> QED BY <1>0, <1>1, <1>2, <2>1, <2>2, <2>3, Zenon DEF PairTypeOK
  <1>11. Unique'
    BY <1>1, <1>9, UniqueShrinks DEF LogInv
  <1>12. OfThisTrace'
    <2>1. active
      BY <1>1 DEF LogInv, OfThisTrace
    <2> QED BY <1>1, <1>2, <1>8, <2>1 DEF LogInv, OfThisTrace
  <1>13. InOrder'
    BY <1>1, <1>2, <1>8, SMTT(30) DEF LogInv, InOrder
  <1>14. Kept'
    <2> SUFFICES ASSUME NEW o \in open', o.robber = NoCall
                 PROVE  g_entry_cache'[Slot(o.call.id)] = [call |-> o.call, suppressed |-> ~ o.shown]
      BY DEF Kept, Slot
    <2>1. o \in open /\ (matched => o.call # slot.call) /\ o.call.id \in Nat
      BY <1>0, <1>3, <1>5, KnownType
    <2>2. /\ g_entry_cache[Slot(o.call.id)] = [call |-> o.call, suppressed |-> ~ o.shown]
          /\ Slot(o.call.id) \in 0 .. CacheSize - 1
      BY <2>1, SlotType DEF LogInv, Kept
    <2>3. matched => Slot(o.call.id) # s
      BY <2>1, <2>2, SMT, Z3 DEF slot
    <2> QED BY <1>6, <2>2, <2>3
  <1>15. RobberExplained'
    <2> SUFFICES ASSUME NEW o \in open', o.robber # NoCall
                 PROVE  o.call.id + CacheSize <= o.robber.id \/ o.robber.trace < o.call.trace
      BY DEF RobberExplained
    <2>1. CASE o \in open
      BY <2>1 DEF LogInv, RobberExplained
    <2>2. CASE matched /\ o.call = slot.call /\ o.robber = e.call
      BY <1>4, <1>5, <2>2
    <2> QED BY <1>5, <2>1, <2>2
  <1>16. SameDecision'
    <2>1. ASSUME NEW o \in last'.entry, o.robber = NoCall PROVE last'.shown = o.shown
      <3>1. o \in open /\ o.call = e.call
        BY <1>1, <2>1, Zenon
      <3>2. slot = [call |-> o.call, suppressed |-> ~ o.shown] /\ o.shown \in BOOLEAN
        BY <1>0, <2>1, <3>1 DEF LogInv, Kept, PairTypeOK, slot, s
      <3>3. matched
        BY <3>1, <3>2 DEF matched, Matches
      <3> QED BY <1>1, <3>2, <3>3, Zenon
    <2>2. last'.with = NoCall => last'.shown
      <3>1. ~ Suppressed(e)
        BY <1>1 DEF Suppressed
      <3>2. matched => slot.call # NoCall
        BY <1>4 DEF Cached
      <3> QED BY <1>1, <3>1, <3>2, Zenon
    <2> QED BY <2>1, <2>2 DEF SameDecision
  <1>17. MatchedOwn'
    BY <1>1, <1>4 DEF MatchedOwn
  <1> QED BY <1>10, <1>11, <1>12, <1>13, <1>14, <1>15, <1>16, <1>17 DEF PairInv, LogInv

\* Every step keeps the invariant.
LEMMA PairStep ==
    ASSUME PairInv, PairNext
    PROVE  PairInv'
  <1>0. LogInv /\ PairTypeOK
    BY DEF PairInv, LogInv
  <1>1. ASSUME NEW arg \in Args, Enter(arg) PROVE PairInv'
    BY <1>0, <1>1, EnterStep, NothingRead DEF Enter, PairInv
  <1>2. ASSUME NEW call \in running, Return(call) PROVE PairInv'
    BY <1>0, <1>2, ReturnStep, NothingRead DEF Return, PairInv
  <1>3. ASSUME NEW e, DumpEntry(e) PROVE PairInv'
    BY <1>0, <1>3, DumpEntryStep, NothingRead, Zenon DEF DumpEntry, PairInv
  <1>4. ASSUME NEW e, DumpReturn(e) PROVE PairInv'
    BY <1>0, <1>4, DumpReturnStep
  <1>5. CASE Lose
    BY <1>0, <1>5, LoseStep, NothingRead DEF Lose, PairInv
  <1>6. CASE BeginTrace
    BY <1>0, <1>6, BeginStep, NothingRead DEF BeginTrace, PairInv
  <1>7. ASSUME NEW known \in BOOLEAN, NEW jumps \in BOOLEAN, EndTrace(known, jumps) PROVE PairInv'
    BY <1>0, <1>7, EndStep, NothingRead, Zenon DEF EndTrace, PairInv
  <1>8. CASE UpdateFilter \/ AddProbe \/ Aside
    <2>1. /\ UNCHANGED <<call_id_seq, running, queue, trace, active, g_entry_cache, open>>
          /\ probed' \in BOOLEAN /\ patched' \in BOOLEAN /\ filter' \subseteq Args
          /\ (probed' \/ patched' => active \/ probed \/ patched) /\ last' = Nothing
      <3>1. CASE UpdateFilter
        BY <1>0, <3>1 DEF UpdateFilter, PairTypeOK, producing, log
      <3>2. CASE AddProbe
        BY <1>0, <3>2 DEF AddProbe, PairTypeOK, producing, log
      <3>3. CASE Aside
        BY <1>0, <3>3 DEF Aside, PairTypeOK, producing, table, log
      <3> QED BY <1>8, <3>1, <3>2, <3>3
    <2> QED BY <1>0, <2>1, TableStep, NothingRead DEF PairInv
  <1>9. ASSUME NEW jumps \in BOOLEAN, Toggle(jumps) \/ DropProbe(jumps) PROVE PairInv'
    <2>1. /\ UNCHANGED <<call_id_seq, running, queue, trace, active, g_entry_cache, open>>
          /\ probed' \in BOOLEAN /\ patched' \in BOOLEAN /\ filter' \subseteq Args
          /\ (probed' \/ patched' => active \/ probed \/ patched) /\ last' = Nothing
      BY <1>0, <1>9, Zenon DEF Toggle, DropProbe, PairTypeOK, producing, table, log
    <2> QED BY <1>0, <2>1, TableStep, NothingRead DEF PairInv
  <1>10. CASE NewTarget
    BY <1>0, <1>10, NewTargetStep, NothingRead DEF NewTarget, PairInv
  <1> QED BY <1>1, <1>2, <1>3, <1>4, <1>5, <1>6, <1>7, <1>8, <1>9, <1>10 DEF PairNext

\* For any cache size, number of calls and number of traces: zt_dump_one_trace_event
\* matches a return with the entry of its own call or with that of the same number in
\* a later trace, shows both or neither, and a call loses its slot only to one that
\* entered CacheSize calls later or is left from an earlier trace.
LEMMA PairingCorrect == PairSpec => [](PairTypeOK /\ SameDecision /\ MatchedOwn /\ RobberExplained)
  <1>1. PairInit => PairInv
    BY PairInitial
  <1>2. PairInv /\ [PairNext]_pairVars => PairInv'
    <2> SUFFICES ASSUME PairInv, [PairNext]_pairVars PROVE PairInv'
      OBVIOUS
    <2>1. CASE PairNext
      BY <2>1, PairStep
    <2>2. CASE UNCHANGED pairVars
      <3>0. UNCHANGED <<call_id_seq, running, queue, trace, active, patched, probed, filter, g_entry_cache, open, last>>
        BY <2>2, Zenon DEF pairVars, producing, table, log
      <3>1. PairTypeOK'
        BY <3>0 DEF PairInv, LogInv, PairTypeOK, Slot
      <3>2. Cached' = Cached /\ Opened' = Opened /\ Queued' = Queued /\ Known' = Known
        BY <3>0 DEF Cached, Opened, Queued, Known
      <3>3. Unique' /\ OfThisTrace' /\ InOrder'
        BY <3>0, <3>2, Zenon DEF PairInv, LogInv, Unique, OfThisTrace, InOrder
      <3>4. Kept' /\ RobberExplained' /\ SameDecision' /\ MatchedOwn'
        BY <3>0, Zenon DEF PairInv, LogInv, Kept, RobberExplained, SameDecision, MatchedOwn, Slot
      <3> QED BY <3>1, <3>3, <3>4 DEF PairInv, LogInv
    <2> QED BY <2>1, <2>2
  <1>3. PairInv => PairTypeOK /\ SameDecision /\ MatchedOwn /\ RobberExplained
    BY DEF PairInv, LogInv
  <1> QED BY <1>1, <1>2, <1>3, PTL DEF PairSpec

\* zt_dump_one_trace_event formats a return with the entry of its own call, or with that of
\* the same number in a later trace.
THEOREM ReturnsMatched == PairSpec => []MatchedOwn
  BY PairingCorrect, PTL

\* zt_dump_one_trace_event shows the return of a call exactly if it showed its entry,
\* whatever happened to the filter and the probe between the two events.
THEOREM ShownInPairs == PairSpec => []SameDecision
  BY PairingCorrect, PTL

\* A call loses its slot of g_entry_cache only to one that entered CacheSize calls later or
\* is left from an earlier trace.
THEOREM SlotLossExplained == PairSpec => []RobberExplained
  BY PairingCorrect, PTL

-----------------------------------------------------------------------------
(* TraceSession, a refinement of EventPairing.                             *)

\* What zt_setup_remote_payload has recorded when it comes to a step.
RecordedAt ==
    [path |-> {}, dlopen |-> {"path"}, buffer |-> {"path"}, config |-> {"path", "buffer"}, init |-> Regions,
     install |-> Regions]

\* A set-up under way: nothing of it is lost yet.  A poll that waits is that of a trace.
UnderWay ==
    /\ step = "window" => runtime = "RUNNING"
    /\ step \notin {"none", "window"} =>
        /\ runtime = "INACTIVE" /\ attached /\ stopped
        /\ recorded = RecordedAt[step] /\ mapped = recorded /\ abandoned = {}
        /\ step = "install" => shared_buffer = "this"

\* Where the jump of a patched function comes from; in a process that was attached under
\* a trace there is none.
JumpKnown ==
    /\ patched => stale \/ probed
    /\ probed => attached /\ (active \/ exited)
    /\ foreign => active /\ ~patched /\ ~probed

\* The inductive invariant.
SessionInv ==
    /\ SessionTypeOK /\ active \in BOOLEAN /\ patched \in BOOLEAN /\ probed \in BOOLEAN
    /\ SameBuffer /\ UnderWay /\ JumpKnown /\ NothingLeft
    /\ active => mapped = (IF foreign THEN {} ELSE Regions) /\ abandoned = {}
    /\ step = "none" /\ ~active => recorded = {}

-----------------------------------------------------------------------------
(* Refinement.                                                             *)

\* Every step of the session is a step of EventPairing.
LEMMA SessionSimulates ==
    ASSUME SessionInv, SessionNext
    PROVE  PairNext
  <1>0. stale \in BOOLEAN /\ patched \in BOOLEAN /\ probed \in BOOLEAN /\ TRUE \in BOOLEAN /\ FALSE \in BOOLEAN
    BY DEF SessionInv, SessionTypeOK
  <1>1. ASSUME NEW arg \in Args, Hit(arg) PROVE PairNext
    BY <1>1 DEF Hit, PairNext
  <1>2. ASSUME NEW call \in running, ReturnHit(call) PROVE PairNext
    BY <1>2 DEF ReturnHit, PairNext
  <1>3. ASSUME NEW e \in {queue[i] : i \in DOMAIN queue}, PollDump(e) PROVE PairNext
    BY <1>3 DEF PollDump, PairNext
  <1>4. CASE Fault \/ Exit \/ StartTrace \/ Setup \/ SetupFails \/ Pause \/ Resume \/ Attach \/ PollFails \/ WindowCloses
    <2>1. Aside
      BY <1>4 DEF Fault, Exit, StartTrace, Setup, SetupFails, Pause, Resume, Attach, PollFails, WindowCloses
    <2> QED BY <2>1 DEF PairNext
  <1>5. CASE Install
    BY <1>5 DEF Install, PairNext
  <1>6. CASE EnableOrDisable
    <2>1. PICK jumps \in {stale, TRUE} : Toggle(jumps)
      BY <1>6 DEF EnableOrDisable
    <2> QED BY <1>0, <2>1, Zenon DEF PairNext
  <1>7. CASE Untrace
    BY <1>0, <1>7 DEF Untrace, PairNext
  <1>8. CASE TraceAnother \/ Refilter \/ PollLost
    BY <1>8 DEF TraceAnother, Refilter, PollLost, PairNext
  <1>9. CASE UntraceLast
    BY <1>0, <1>9, Zenon DEF UntraceLast, Finish, PairNext
  <1>10. CASE ShutdownFails
    BY <1>0, <1>10, Zenon DEF ShutdownFails, Finish, PairNext
  <1>11. CASE Detach
    BY <1>0, <1>11 DEF Detach, PairNext
  <1>12. CASE PollExited \/ ExitWindow
    BY <1>0, <1>12 DEF PollExited, ExitWindow, MarkTargetExited, PairNext
  <1>13. CASE AttachOther
    BY <1>13 DEF AttachOther, PairNext
  <1> QED BY <1>1, <1>2, <1>3, <1>4, <1>5, <1>6, <1>7, <1>8, <1>9, <1>10, <1>11, <1>12, <1>13 DEF SessionNext
-----------------------------------------------------------------------------
(* The invariant.                                                          *)

\* It holds before the first command.
LEMMA SessionInitial == SessionInit => SessionInv
  <1> SUFFICES ASSUME SessionInit PROVE SessionInv
    OBVIOUS
  <1>1. SessionTypeOK
    <2>1. start \in 0 .. MaxStarts
      BY SessionAssumption DEF SessionInit
    <2> QED BY <2>1, Zenon DEF SessionInit, SessionTypeOK
  <1>2. SameBuffer /\ UnderWay /\ JumpKnown /\ NothingLeft /\ ~active /\ ~patched /\ ~probed
    BY DEF SessionInit, PairInit, SameBuffer, UnderWay, JumpKnown, NothingLeft
  <1> QED BY <1>1, <1>2, Zenon DEF SessionInit, PairInit, SessionInv

\* Steps of the target and of the reader leave the session as it is.
LEMMA QuietStep ==
    ASSUME SessionInv, UNCHANGED <<active, patched, probed, region, control, stale, foreign>>,
           exited' \in BOOLEAN, exited => exited', crashed' \in BOOLEAN
    PROVE  SessionInv'
  BY DEF SessionInv, SessionTypeOK, SameBuffer, BufferThere, UnderWay, JumpKnown, NothingLeft, region, control

\* Commands that stop or resume the target, and change its probes.
LEMMA CommandStep ==
    ASSUME SessionInv, Idle, UNCHANGED <<active, region, step, start, g_trace_exit_observed, exited, foreign, crashed>>,
           attached' \in BOOLEAN, stale' \in BOOLEAN, stopped' \in BOOLEAN,
           patched' \in BOOLEAN, probed' \in BOOLEAN, JumpKnown',
           runtime' \in {"INACTIVE", "STOPPED", "RUNNING"},
           runtime' = "INACTIVE" <=> runtime = "INACTIVE", runtime' = "RUNNING" => ~stopped'
    PROVE  SessionInv'
  BY DEF SessionInv, SessionTypeOK, SameBuffer, BufferThere, UnderWay, NothingLeft, region, Idle

\* The end of a trace, by command or noticed by a poll.
LEMMA EndOfTrace ==
    ASSUME SessionInv, active, active' = FALSE, step' = "none", runtime' = "INACTIVE", foreign' = FALSE,
           UNCHANGED <<start, attached, shared_buffer, exited, crashed>>,
           recorded' = {}, mapped' \subseteq mapped, mapped' \subseteq abandoned', abandoned' \subseteq Regions,
           stale' \in BOOLEAN, stopped' \in BOOLEAN, g_trace_exit_observed' \in BOOLEAN,
           patched' \in BOOLEAN, probed' \in BOOLEAN, JumpKnown'
    PROVE  SessionInv'
  BY Zenon DEF SessionInv, SessionTypeOK, SameBuffer, UnderWay, NothingLeft

\* A set-up that goes on, and one that fails.
LEMMA SetupStep ==
    ASSUME SessionInv, StartTrace \/ Setup \/ SetupFails \/ Install
    PROVE  SessionInv'
  <1> USE DEF SessionInv, SessionTypeOK
  <1>1. CASE StartTrace
    <2>1. /\ step' = "path" /\ step' \in DOMAIN Following /\ start' \in 0 .. MaxStarts
          /\ recorded' = {} /\ mapped' = {} /\ abandoned' = {} /\ RecordedAt[step'] = {}
      <3>1. /\ step' = "path" /\ start < MaxStarts /\ start' = start + 1 /\ start \in 0 .. MaxStarts
            /\ recorded' = {} /\ mapped' = {} /\ abandoned' = {}
        BY <1>1, Zenon DEF StartTrace
      <3>2. "path" \in DOMAIN Following /\ RecordedAt["path"] = {}
        BY DEF Following, RecordedAt
      <3>3. start' \in 0 .. MaxStarts
        BY <3>1, SessionAssumption
      <3> QED BY <3>1, <3>2, <3>3, Zenon
    <2>2. /\ runtime = "INACTIVE" /\ attached /\ stopped' = TRUE /\ g_trace_exit_observed' = FALSE /\ ~active
          /\ shared_buffer' \in {shared_buffer, "mapped", "unmapped"}
          /\ UNCHANGED <<active, patched, probed, runtime, attached, exited, stale, foreign, crashed>>
      BY <1>1 DEF StartTrace, Idle, Aside, table, fate, SameBuffer
    <2> QED BY <2>1, <2>2, Zenon DEF SameBuffer, UnderWay, JumpKnown, NothingLeft
  <1>2. CASE Setup
    <2>1. /\ step \notin {"none", "window"} /\ runtime = "INACTIVE" /\ ~active /\ attached /\ stopped /\ abandoned = {}
          /\ recorded = RecordedAt[step] /\ mapped = recorded
      BY <1>2 DEF Setup, Following, UnderWay, SameBuffer
    <2>2. /\ step' = Following[step] /\ step \in DOMAIN Following
          /\ recorded' = RecordedAt[step'] /\ mapped' = recorded'
          /\ (step' = "install" => shared_buffer' = "this")
          /\ mapped' \subseteq Regions /\ step' \in {"install"} \cup DOMAIN Following
          /\ shared_buffer' \in {"this", shared_buffer}
      BY <1>2, <2>1, SMTT(30) DEF Setup, Following, RecordedAt, Regions
    <2>3. UNCHANGED <<active, patched, probed, abandoned, runtime, start, attached, stopped, g_trace_exit_observed, exited, stale, foreign, crashed>>
      BY <1>2 DEF Setup, Aside, table, fate
    <2>4. step' \notin {"none", "window"}
      BY <2>2 DEF Following
    <2> QED BY <2>1, <2>2, <2>3, <2>4 DEF SameBuffer, UnderWay, JumpKnown, NothingLeft
  <1>3. CASE SetupFails
    <2>1. /\ runtime = "INACTIVE" /\ ~active /\ attached /\ stopped /\ abandoned = {} /\ mapped = recorded
      BY <1>3 DEF SetupFails, UnderWay, SameBuffer
    <2>2. UNCHANGED <<active, patched, probed, runtime, start, attached, stopped, g_trace_exit_observed, exited, stale, foreign, crashed>> /\ step' = "none"
      BY <1>3 DEF SetupFails, Aside, table, fate
    <2>3. PICK effect \in {FALSE, ~exited} :
            /\ Cleanup(IF effect /\ step \in Regions THEN {step} ELSE {})
            /\ shared_buffer' = IF effect /\ step = "init" THEN "this" ELSE shared_buffer
      BY <1>3, Zenon DEF SetupFails
    <2>4. PICK unknown \in SUBSET Regions : Cleanup(unknown)
      BY <2>3
    <2>5. recorded' = {} /\ mapped' \subseteq Regions /\ abandoned' \subseteq Regions /\ mapped' \subseteq abandoned'
      BY <2>1, <2>4 DEF Cleanup
    <2> QED BY <2>1, <2>2, <2>3, <2>5 DEF SameBuffer, UnderWay, JumpKnown, NothingLeft
  <1>4. CASE Install
    BY <1>4, Zenon DEF Install, BeginTrace, region, fate, SameBuffer, BufferThere, UnderWay, RecordedAt, Regions, JumpKnown, NothingLeft
  <1> QED BY <1>1, <1>2, <1>3, <1>4

\* zt_trace_cleanup_runtime of an active trace: what stays mapped is abandoned.
LEMMA FinishStep ==
    ASSUME SessionInv, NEW jumps \in BOOLEAN, Finish(jumps), Idle, stopped' \in BOOLEAN, stale' \in BOOLEAN,
           jumps => stale'
    PROVE  SessionInv'
  <1>1. /\ active /\ active' = FALSE /\ probed' = FALSE /\ patched' = jumps
        /\ runtime' = "INACTIVE" /\ g_trace_exit_observed' = FALSE /\ foreign' = FALSE
        /\ UNCHANGED <<shared_buffer, step, start, attached, exited, crashed>>
        /\ Cleanup({})
    BY DEF Finish, EndTrace
  <1>2. recorded' = {} /\ mapped' \subseteq mapped /\ mapped' \subseteq abandoned' /\ abandoned' \subseteq Regions
    <2>1. recorded \subseteq Regions /\ (recorded = mapped \/ mapped = {}) /\ abandoned = {}
      BY <1>1 DEF SessionInv, SessionTypeOK, SameBuffer
    <2> QED BY <1>1, <2>1 DEF Cleanup
  <1>3. JumpKnown'
    BY <1>1 DEF JumpKnown
  <1> QED BY <1>1, <1>2, <1>3, EndOfTrace, Zenon DEF Idle

\* Every step of the session keeps the invariant.
LEMMA SessionStep ==
    ASSUME SessionInv, SessionNext
    PROVE  SessionInv'
  <1>0. SessionTypeOK /\ active \in BOOLEAN /\ patched \in BOOLEAN /\ probed \in BOOLEAN /\ JumpKnown
    BY DEF SessionInv
  <1>1. ASSUME NEW arg \in Args, Hit(arg) PROVE SessionInv'
    BY <1>0, <1>1, QuietStep DEF Hit, Enter, table, sessionVars, fate, SessionTypeOK
  <1>2. ASSUME NEW call \in running, ReturnHit(call) PROVE SessionInv'
    BY <1>0, <1>2, QuietStep DEF ReturnHit, Return, table, sessionVars, fate, SessionTypeOK
  <1>3. ASSUME NEW e, PollDump(e) PROVE SessionInv'
    BY <1>0, <1>3, QuietStep, Zenon DEF PollDump, DumpEntry, DumpReturn, table, sessionVars, fate, SessionTypeOK
  <1>4. CASE PollLost \/ Refilter
    BY <1>0, <1>4, QuietStep DEF PollLost, Lose, Refilter, UpdateFilter, table, sessionVars, fate, SessionTypeOK
  <1>5. CASE Fault \/ Exit
    BY <1>0, <1>5, QuietStep, Zenon DEF Fault, Exit, Aside, table, SessionTypeOK
  <1>6. CASE StartTrace \/ Setup \/ SetupFails \/ Install
    BY <1>6, SetupStep
  <1>7. CASE EnableOrDisable \/ Untrace \/ TraceAnother
    <2>1. /\ CanChange /\ runtime' = "RUNNING" /\ stopped' = FALSE
          /\ UNCHANGED <<region, step, start, attached, g_trace_exit_observed, exited, stale, foreign, crashed>>
      BY <1>7 DEF EnableOrDisable, Untrace, TraceAnother, Rerun, fate
    <2>2. Idle /\ attached /\ runtime # "INACTIVE"
      BY <2>1 DEF CanChange, SessionIsActive, Idle
    <2>3. active' = active /\ patched' \in BOOLEAN /\ probed' \in BOOLEAN /\ JumpKnown'
      <3>1. CASE EnableOrDisable
        <4>1. PICK jumps \in {stale, TRUE} : Toggle(jumps)
          BY <3>1 DEF EnableOrDisable
        <4>2. active' = active /\ patched' = jumps /\ probed /\ probed' = probed
          BY <4>1 DEF Toggle
        <4>3. jumps \in BOOLEAN
          BY <1>0, Zenon DEF SessionTypeOK
        <4> QED BY <1>0, <2>1, <4>2, <4>3 DEF JumpKnown
      <3>2. CASE Untrace
        BY <1>0, <2>1, <3>2, Zenon DEF Untrace, DropProbe, JumpKnown, SessionTypeOK
      <3>3. CASE TraceAnother
        BY <1>0, <2>1, <2>2, <3>3 DEF TraceAnother, AddProbe, JumpKnown
      <3> QED BY <1>7, <3>1, <3>2, <3>3
    <2> QED BY <1>0, <2>1, <2>2, <2>3, CommandStep, Zenon DEF SessionTypeOK
  <1>8. CASE Pause \/ Resume
    <2>1. /\ Idle /\ UNCHANGED <<active, patched, probed, region, step, start, attached, g_trace_exit_observed, exited, stale, foreign, crashed>>
          /\ stopped' \in BOOLEAN /\ runtime' \in {"INACTIVE", "STOPPED", "RUNNING"}
          /\ (runtime' = "INACTIVE" <=> runtime = "INACTIVE") /\ (runtime' = "RUNNING" => ~stopped')
      <3>1. CASE Pause
        BY <1>0, <3>1, Zenon DEF Pause, Aside, table, fate, SessionTypeOK
      <3>2. CASE Resume
        BY <1>0, <3>2, Zenon DEF Resume, Aside, table, fate, SessionTypeOK
      <3> QED BY <1>8, <3>1, <3>2
    <2>2. JumpKnown'
      BY <1>0, <2>1 DEF JumpKnown
    <2> QED BY <1>0, <2>1, <2>2, CommandStep DEF SessionTypeOK
  <1>9. CASE Detach
    <2>1. /\ Idle /\ attached' = FALSE /\ stopped' = FALSE /\ probed' = FALSE
          /\ UNCHANGED <<active, patched, region, runtime, step, start, g_trace_exit_observed, exited, foreign, crashed>>
          /\ stale' \in BOOLEAN /\ (patched => stale')
      BY <1>0, <1>9 DEF Detach, DropProbe, Aside, table, JumpKnown, SessionTypeOK
    <2>2. JumpKnown'
      BY <1>0, <2>1 DEF JumpKnown
    <2> QED BY <1>0, <2>1, <2>2, CommandStep, Zenon DEF SessionTypeOK
  <1>10. CASE Attach
    BY <1>10 DEF Attach, Aside, table, fate, region, SessionInv, SessionTypeOK, SameBuffer, BufferThere, UnderWay, JumpKnown, NothingLeft
  <1>11. CASE UntraceLast
    BY <1>0, <1>11, FinishStep DEF UntraceLast, CanChange, SessionIsActive, JumpKnown, SessionTypeOK
  <1>12. CASE ShutdownFails
    BY <1>0, <1>12, FinishStep DEF ShutdownFails, SessionIsActive, SessionTypeOK
  <1>13. CASE PollExited \/ ExitWindow
    <2>1. /\ active /\ active' = FALSE /\ probed' = probed /\ patched' = patched /\ step' = "none" /\ foreign' = FALSE
          /\ runtime' = "INACTIVE" /\ g_trace_exit_observed' = TRUE /\ recorded' = {} /\ abandoned' = abandoned \cup mapped
          /\ UNCHANGED <<mapped, shared_buffer, start, attached, stopped, exited, stale, crashed>>
      BY <1>13 DEF PollExited, SessionIsActive, Idle, ExitWindow, MarkTargetExited, EndTrace
    <2>2. exited \/ ~attached \/ foreign
      BY <1>13, <2>1 DEF PollExited, ExitWindow, SeenGone, SessionInv, Regions
    <2>3. JumpKnown'
      BY <1>0, <2>1, <2>2 DEF JumpKnown
    <2> QED BY <1>0, <2>1, <2>3, EndOfTrace, Zenon DEF SessionTypeOK
  <1>14. CASE AttachOther
    <2>1. /\ ~attached /\ attached' = TRUE /\ mapped' = {} /\ shared_buffer' = "none" /\ abandoned' = {}
          /\ exited' = FALSE /\ stale' = FALSE /\ crashed' = FALSE /\ foreign' = (runtime # "INACTIVE") /\ patched' = FALSE
          /\ UNCHANGED <<recorded, runtime, step, start, stopped, g_trace_exit_observed, active, probed>>
      BY <1>14 DEF AttachOther, NewTarget
    <2>2. ~probed /\ (active <=> runtime # "INACTIVE") /\ (~active => recorded = {})
      BY <1>0, <2>1 DEF SessionInv, JumpKnown, SameBuffer, UnderWay
    <2> QED BY <1>0, <2>1, <2>2 DEF SessionInv, SessionTypeOK, SameBuffer, UnderWay, JumpKnown, NothingLeft
  <1>15. CASE PollFails \/ WindowCloses
    <2>1. /\ UNCHANGED <<active, patched, probed, region, runtime, start, attached, stopped, g_trace_exit_observed, fate>>
          /\ runtime = "RUNNING" /\ step' \in {"none", "window"}
      BY <1>15 DEF PollFails, WindowCloses, Aside, table, SessionInv, UnderWay
    <2> QED BY <1>0, <2>1 DEF region, fate, SessionInv, SessionTypeOK, SameBuffer, BufferThere, UnderWay, JumpKnown, NothingLeft
  <1> QED BY <1>1, <1>2, <1>3, <1>4, <1>5, <1>6, <1>7, <1>8, <1>9, <1>10, <1>11, <1>12, <1>13, <1>14, <1>15 DEF SessionNext

\* The invariant is inductive.
LEMMA SessionInvariant == SessionSpec => []SessionInv
  <1>1. SessionInv /\ [SessionNext]_allVars => SessionInv'
    <2> SUFFICES ASSUME SessionInv, [SessionNext]_allVars PROVE SessionInv'
      OBVIOUS
    <2>1. CASE UNCHANGED allVars
      BY <2>1, QuietStep DEF allVars, pairVars, table, sessionVars, fate, SessionInv, SessionTypeOK
    <2> QED BY <2>1, SessionStep
  <1> QED BY <1>1, SessionInitial, PTL DEF SessionSpec

\* For any number of traces and set-ups, failed ones included, the state of the session
\* keeps its type and its properties.
LEMMA SessionCorrect == SessionSpec => [](SessionTypeOK /\ SameBuffer /\ CaughtSafely /\ NothingLeft)
  <1>1. SessionInv => SessionTypeOK /\ SameBuffer /\ CaughtSafely /\ NothingLeft
    BY DEF SessionInv, CaughtSafely, JumpKnown, SameBuffer, Runs
  <1> QED BY <1>1, SessionInvariant, PTL

\* Whatever set-ups failed before, the payload writes into the buffer that zt_trace_poll
\* reads, and this buffer is mapped as long as the trace is active, unless cmd_attach has
\* attached another process under it.
THEOREM BufferShared == SessionSpec => []SameBuffer
  BY SessionCorrect, PTL

\* A call that a probe catches finds its buffer mapped: zt_setup_remote_payload, however
\* it fails, leaves no function patched whose payload has none.
THEOREM CaughtCallsSafe == SessionSpec => []CaughtSafely
  BY SessionCorrect, PTL

\* Between two traces zt_trace_cleanup_runtime has unmapped every region, except those
\* that an unmapping that failed, a disturbed stub or the target's end abandoned.
THEOREM RegionsFreed == SessionSpec => []NothingLeft
  BY SessionCorrect, PTL

\* The session implements EventPairing: set-ups, detaches and exits do nothing to the
\* log that EventPairing does not allow.
LEMMA SessionImplementsPairing == SessionSpec => PairSpec
  <1>1. SessionInit => PairInit
    BY DEF SessionInit
  <1>2. SessionInv /\ [SessionNext]_allVars => [PairNext]_pairVars
    BY SessionSimulates DEF allVars
  <1> QED BY <1>1, <1>2, SessionInvariant, PTL DEF SessionSpec, PairSpec

\* What EventPairing guarantees therefore holds of every session.
THEOREM SessionPairs == SessionSpec => [](SameDecision /\ MatchedOwn /\ RobberExplained)
  BY SessionImplementsPairing, PairingCorrect, PTL

-----------------------------------------------------------------------------
(* RingBuffer.                                                             *)

\* The reader's position: while a poll is under way, seq is the first number
\* not yet passed and the snapshot covers seq .. end_seq, all reserved already.
Position ==
    rpc # "idle" =>
        /\ seq = last_seq + 1
        /\ end_seq <= write_seq
        /\ seq <= end_seq + 1
        /\ rpc \in {"before", "copySeq", "copyWord", "after"} => cursor \in seq .. end_seq
        /\ rpc = "copyWord" => copied < NWords
        /\ rpc = "fresh" => seq <= end_seq

\* A commit number found in slot k, now or in a snapshot, belongs to slot k and
\* was handed out before.
Belongs(c, k) == c # 0 => SlotOf(c) = k /\ c <= write_seq

\* Every commit number in the ring and in the snapshot is of that kind.
Origins ==
    /\ \A p \in Producers : /\ reserved[p] <= write_seq
                            /\ reserved[p] = 0 => todo[p] = {}
    /\ \A k \in Slots : /\ Belongs(committed_seq[k], k)
                        /\ Belongs(g_commit_before[k], k)
                        /\ Belongs(g_event_seq[k], k)
                        /\ Belongs(g_commit_after[k], k)

\* p is writing an event of slot k.
Writes(p, k) == reserved[p] # 0 /\ SlotOf(reserved[p]) = k

\* A slot nobody was lapped in has one writer at a time, whose stores happen in
\* program order, and a published number vouches for all words of the slot.
Sequential(k) ==
    /\ \A p, q \in Producers : Writes(p, k) /\ Writes(q, k) => p = q
    /\ committed_seq[k] # 0 => \A w \in Words : word[k][w] = committed_seq[k]
    /\ \A p \in Producers : Writes(p, k) =>
        /\ committed_seq[k] < reserved[p]
        /\ 0 \in todo[p] => todo[p] = {0} \cup Words
        /\ 0 \notin todo[p] =>
            /\ committed_seq[k] = 0
            /\ \A w \in Words \ todo[p] : word[k][w] = reserved[p]

\* The number s has left slot k for good.
Gone(s, k) ==
    /\ committed_seq[k] # s
    /\ \A p \in Producers : Writes(p, k) => reserved[p] # s
    /\ s <= write_seq

\* What the first sweep saw is still there, or gone for good.
BeforeHolds(k) ==
    g_commit_before[k] # 0 =>
        committed_seq[k] = g_commit_before[k] \/ Gone(g_commit_before[k], k)

\* The event sweep has copied word w of the event s.
Copied(s, w) ==
    \/ rpc = "copySeq" /\ s < cursor
    \/ rpc = "copyWord" /\ (s < cursor \/ (s = cursor /\ w <= copied))
    \/ rpc \in {"after", "scan", "fresh"}

\* A word copied so far belongs to the number seen before, or that is gone.
CopyHolds(s, k) ==
    \A w \in Words :
        g_commit_before[k] # 0 /\ Copied(s, w) =>
            \/ g_event_word[k][w] = g_commit_before[k]
            \/ Gone(g_commit_before[k], k)

\* When the second sweep saw the same number again, the copy is intact.
AfterHolds(k) ==
    g_commit_after[k] # 0 /\ g_commit_after[k] = g_commit_before[k] =>
        \A w \in Words : g_event_word[k][w] = g_commit_before[k]

\* What the reader has of the slots no writer lapped, sweep by sweep.
SnapshotInv ==
    /\ rpc \in {"before", "copySeq", "copyWord"} => g_commit_after = NoSeqs
    /\ \A k \in Slots : k \notin lapped => BeforeHolds(k)
    /\ \A s \in seq .. end_seq : SlotOf(s) \notin lapped =>
        /\ CopyHolds(s, SlotOf(s))
        /\ AfterHolds(SlotOf(s))

\* What the writers leave in those slots.
RingInv == \A k \in Slots : k \notin lapped => Sequential(k)

\* The part of the inductive invariant that needs no order of the stores.
BaseInv ==
    /\ TypeOK
    /\ Position
    /\ Accounting
    /\ Origins
    /\ OverwrittenIsLapped

\* The inductive invariant of the ring.
IInv == BaseInv /\ RingInv /\ SnapshotInv /\ IntactUnlessLapped
-----------------------------------------------------------------------------
(* Slots.                                                                  *)

\* Every number has a slot.
LEMMA SlotOfType == \A s \in Int : SlotOf(s) \in Slots
  BY CapacityAssumption DEF SlotOf, Slots

\* Two numbers that share a slot are at least a whole ring apart.
LEMMA SlotDistance ==
    ASSUME NEW a \in Nat \ {0}, NEW b \in Nat \ {0}, a > b, SlotOf(a) = SlotOf(b)
    PROVE  a - b >= Capacity
  <1> DEFINE x == a - 1
             y == b - 1
             q == x \div Capacity
             r == y \div Capacity
  <1>1. x \in Nat /\ y \in Nat /\ x > y /\ x % Capacity = y % Capacity
    BY DEF SlotOf
  <1> HIDE DEF x, y
  <1>2. /\ q \in Int /\ r \in Int
        /\ x = q * Capacity + (x % Capacity)
        /\ y = r * Capacity + (y % Capacity)
    BY <1>1, CapacityAssumption
  <1> HIDE DEF q, r
  <1>3. x - y = (q - r) * Capacity
    BY <1>1, <1>2, CapacityAssumption
  <1>4. q - r >= 1
    BY <1>1, <1>2, <1>3, CapacityAssumption
  <1>5. (q - r) * Capacity >= Capacity
    BY <1>2, <1>4, CapacityAssumption
  <1> QED BY <1>1, <1>3, <1>5, CapacityAssumption DEF x, y
-----------------------------------------------------------------------------
(* The base invariant.                                                     *)

\* The base invariant holds when zt_payload_init has cleared the buffer.
LEMMA BaseInit == Init => BaseInv
  <1> SUFFICES ASSUME Init PROVE BaseInv
    OBVIOUS
  <1> USE CapacityAssumption, NWordsAssumption DEF Init, NoSeqs, EmptyWords
  <1>1. TypeOK
    BY SMT, Z3 DEF TypeOK
  <1>2. Position /\ Accounting /\ Origins /\ OverwrittenIsLapped
    BY SMT, Z3 DEF Position, Accounting, Origins, Belongs, OverwrittenIsLapped
  <1> QED BY <1>1, <1>2 DEF BaseInv

\* Steps of a producer keep the types.
LEMMA ProducerType ==
    ASSUME BaseInv, NEW p \in Producers, Reserve(p) \/ Produce(p)
    PROVE  TypeOK'
  <1> USE CapacityAssumption, NWordsAssumption
          DEF BaseInv, TypeOK, target, snapshot, reader, history
  <1>0. SlotOf(write_seq + 1) \in Slots
    BY SlotOfType, SMT, Z3
  <1>1. CASE Reserve(p)
    BY <1>0, <1>1, SMTT(30), Z3T(30) DEF Reserve
  <1>2. CASE ClearCommit(p)
    BY <1>2, Zenon DEF ClearCommit
  <1>3. ASSUME NEW w \in Words, StoreWord(p, w) PROVE TypeOK'
    BY <1>3, Zenon DEF StoreWord
  <1>4. CASE Commit(p)
    BY <1>4, Zenon DEF Commit
  <1> QED BY <1>1, <1>2, <1>3, <1>4 DEF Produce

\* Steps of the reader keep the types.
LEMMA ReaderType ==
    ASSUME BaseInv, Poll \/ ReadError
    PROVE  TypeOK'
  <1> USE CapacityAssumption, NWordsAssumption
          DEF BaseInv, TypeOK, target, snapshot, reader, history
  <1>0. NoSeqs \in [Slots -> Nat] /\ EmptyWords \in [Slots -> [Words -> Nat]]
    BY DEF NoSeqs, EmptyWords
  <1>a. (rpc \in {"before", "copySeq", "copyWord", "after"}) => SlotOf(cursor) \in Slots
    BY SlotOfType DEF Position
  <1>b. ASSUME NEW first \in Nat, NEW newest \in Nat, StartSnapshot(first, newest)
        PROVE  /\ rpc' = "before" /\ seq' \in Nat /\ end_seq' \in Nat /\ cursor' \in Nat
               /\ copied' \in 0 .. NWords
               /\ g_commit_before' \in [Slots -> Nat]
               /\ g_event_seq' \in [Slots -> Nat]
               /\ g_event_word' \in [Slots -> [Words -> Nat]]
               /\ g_commit_after' \in [Slots -> Nat]
    BY <1>0, <1>b DEF StartSnapshot
  <1>c. ASSUME NEW first \in Nat, NEW oldest \in Nat \ {0}, LogLost(first, oldest)
        PROVE  lost' \subseteq Nat /\ last_seq' \in Nat
    BY <1>c, SMT, Z3 DEF LogLost
  <1>1. CASE ReadHeader
    <2>1. CASE write_seq - last_seq > Capacity
      <3>1. OldestKept(write_seq) \in Nat \ {0}
        BY <2>1, SMT, Z3 DEF OldestKept
      <3>2. LogLost(last_seq + 1, OldestKept(write_seq)) /\ StartSnapshot(OldestKept(write_seq), write_seq)
        BY <1>1, <2>1 DEF ReadHeader
      <3>3. lost' \subseteq Nat /\ last_seq' \in Nat
        BY <1>c, <3>1, <3>2, SMT, Z3
      <3> QED BY <1>1, <1>b, <3>1, <3>2, <3>3 DEF ReadHeader
    <2>2. CASE ~(write_seq - last_seq > Capacity)
      <3>1. StartSnapshot(last_seq + 1, write_seq) /\ UNCHANGED <<last_seq, lost>>
        BY <1>1, <2>2 DEF ReadHeader
      <3> QED BY <1>1, <1>b, <3>1, SMTT(30), Z3T(30) DEF ReadHeader
    <2> QED BY <2>1, <2>2
  <1>2. CASE ReadBefore
    BY <1>2, <1>a, SMTT(30), Z3T(30) DEF ReadBefore, Advance
  <1>3. CASE CopySeq
    BY <1>3, <1>a, SMTT(30), Z3T(30) DEF CopySeq
  <1>4. CASE CopyWord
    <2>1. copied + 1 \in Words /\ SlotOf(cursor) \in Slots
      BY <1>4, <1>a, SMTT(30), Z3T(30) DEF CopyWord, Position, Words
    <2>2. g_event_word' \in [Slots -> [Words -> Nat]]
      BY <1>4, <2>1 DEF CopyWord
    <2>3. copied' \in 0 .. NWords /\ cursor' \in Nat /\ rpc' \in {"copyWord", "copySeq", "after"}
      BY <1>4, SMT, Z3 DEF CopyWord
    <2> QED BY <1>4, <2>2, <2>3 DEF CopyWord
  <1>5. CASE ReadAfter
    BY <1>5, <1>a, SMT, Z3 DEF ReadAfter, Advance
  <1>6. CASE Dump
    BY <1>6, SMT, Z3 DEF Dump
  <1>7. CASE ScanDone
    BY <1>0, <1>7, SMTT(30), Z3T(30) DEF ScanDone, EndPoll
  <1>8. CASE FindOverwritten
    BY <1>8 DEF FindOverwritten
  <1>9. CASE FreshHeader
    <2>1. CASE write_seq >= seq /\ write_seq - seq >= Capacity
      <3>1. OldestKept(write_seq) \in Nat \ {0}
        BY <2>1, SMT, Z3 DEF OldestKept
      <3>2. LogLost(seq, OldestKept(write_seq)) /\ StartSnapshot(OldestKept(write_seq), write_seq)
        BY <1>9, <2>1 DEF FreshHeader
      <3>3. lost' \subseteq Nat /\ last_seq' \in Nat
        BY <1>c, <3>1, <3>2
      <3> QED BY <1>9, <1>b, <3>1, <3>2, <3>3 DEF FreshHeader
    <2>2. CASE ~(write_seq >= seq /\ write_seq - seq >= Capacity)
      <3>1. EndPoll /\ UNCHANGED <<last_seq, lost>>
        BY <1>9, <2>2 DEF FreshHeader
      <3> QED BY <1>0, <1>9, <3>1, SMTT(30), Z3T(30) DEF FreshHeader, EndPoll
    <2> QED BY <2>1, <2>2
  <1>10. CASE ReadError
    BY <1>0, <1>10, SMTT(30) DEF ReadError, EndPoll
  <1> QED BY <1>1, <1>2, <1>3, <1>4, <1>5, <1>6, <1>7, <1>8, <1>9, <1>10, Zenon DEF Poll

\* A new snapshot starts behind last_seq, or behind the loss just reported; the
\* break after the fresh header is dead code.
KeepUp ==
    /\ write_seq > last_seq
    /\ StartSnapshot(last_seq + 1, write_seq)
    /\ UNCHANGED <<target, last_seq, lost, readErrors, delivered, torn, lapped>>

\* ... or it has fallen behind and skips what was overwritten.
FallBehind ==
    /\ write_seq - last_seq > Capacity
    /\ LogLost(last_seq + 1, OldestKept(write_seq))
    /\ StartSnapshot(OldestKept(write_seq), write_seq)
    /\ UNCHANGED <<target, readErrors, delivered, torn, lapped>>

\* A snapshot started by zt_trace_refresh_event_snapshots leaves the reader in a valid position.
LEMMA NewSnapshot ==
    ASSUME BaseInv, ReadHeader \/ FreshHeader
    PROVE  KeepUp \/ FallBehind
  <1>1. CASE ReadHeader
    <2>1. CASE write_seq - last_seq > Capacity
      BY <1>1, <2>1 DEF ReadHeader, FallBehind
    <2>2. CASE ~(write_seq - last_seq > Capacity)
      <3>1. StartSnapshot(last_seq + 1, write_seq) /\ UNCHANGED <<last_seq, lost>>
        BY <1>1, <2>2 DEF ReadHeader
      <3> QED BY <1>1, <3>1 DEF ReadHeader, KeepUp
    <2> QED BY <2>1, <2>2
  <1>2. CASE FreshHeader
    <2>1. write_seq >= seq /\ write_seq - seq >= Capacity
      BY <1>2 DEF BaseInv, OverwrittenIsLapped, FreshHeader
    <2>2. LogLost(seq, OldestKept(write_seq)) /\ StartSnapshot(OldestKept(write_seq), write_seq)
      BY <1>2, <2>1 DEF FreshHeader
    <2>3. seq = last_seq + 1
      BY <1>2 DEF BaseInv, Position, FreshHeader
    <2>4. write_seq - last_seq > Capacity
      BY <2>1, <2>3, CapacityAssumption, SMT, Z3 DEF BaseInv, TypeOK
    <2> QED BY <1>2, <2>2, <2>3, <2>4 DEF FreshHeader, FallBehind
  <1> QED BY <1>1, <1>2

\* Every step keeps the reader's position valid.
LEMMA PositionStep ==
    ASSUME BaseInv, Next
    PROVE  Position'
  <1> USE CapacityAssumption, NWordsAssumption
          DEF BaseInv, TypeOK, Position, target, reader, snapshot, history
  <1>1. ASSUME NEW p \in Producers, Reserve(p) PROVE Position'
    BY <1>1, SMTT(30), Z3T(30) DEF Reserve
  <1>2. ASSUME NEW p \in Producers, Produce(p) PROVE Position'
    BY <1>2 DEF Produce, ClearCommit, StoreWord, Commit
  <1>3. CASE ReadHeader \/ FreshHeader
    <2>1. CASE KeepUp
      BY <2>1, SMT, Z3 DEF KeepUp, StartSnapshot
    <2>2. CASE FallBehind
      <3>1. /\ OldestKept(write_seq) = write_seq - Capacity + 1
            /\ last_seq' = OldestKept(write_seq) - 1
            /\ seq' = OldestKept(write_seq) /\ cursor' = OldestKept(write_seq)
            /\ end_seq' = write_seq /\ write_seq' = write_seq /\ rpc' = "before"
        BY <2>2 DEF FallBehind, StartSnapshot, LogLost, OldestKept
      <3> QED BY <3>1, SMT, Z3
    <2> QED BY <1>3, <2>1, <2>2, NewSnapshot
  <1>4. CASE ReadBefore
    BY <1>4, SMT, Z3 DEF ReadBefore, Advance
  <1>5. CASE CopySeq
    BY <1>5, SMTT(30), Z3T(30) DEF CopySeq
  <1>6. CASE CopyWord
    BY <1>6, SMTT(30), Z3T(30) DEF CopyWord
  <1>7. CASE ReadAfter
    BY <1>7, SMT, Z3 DEF ReadAfter, Advance
  <1>8. CASE Dump
    BY <1>8, SMT, Z3 DEF Dump
  <1>9. CASE ScanDone
    BY <1>9 DEF ScanDone, EndPoll
  <1>10. CASE FindOverwritten
    BY <1>10 DEF FindOverwritten
  <1>11. CASE ReadError
    BY <1>11 DEF ReadError, EndPoll
  <1> QED BY <1>1, <1>2, <1>3, <1>4, <1>5, <1>6, <1>7, <1>8, <1>9, <1>10, <1>11, Zenon DEF Next, Poll

\* An interval that starts at 1 grows by its new end.
LEMMA IntervalGrows == \A n \in Nat : 1 .. n + 1 = (1 .. n) \cup {n + 1}
  OBVIOUS

\* Every step accounts for each number once: dumped or in a loss marker.
LEMMA AccountingStep ==
    ASSUME BaseInv, Next
    PROVE  Accounting'
  <1> USE CapacityAssumption DEF BaseInv, TypeOK, Accounting, target, reader, snapshot, history
  <1>1. ASSUME NEW p \in Producers, Reserve(p) PROVE Accounting'
    BY <1>1, SMT, Z3 DEF Reserve
  <1>2. ASSUME NEW p \in Producers, Produce(p) PROVE Accounting'
    BY <1>2 DEF Produce, ClearCommit, StoreWord, Commit
  <1>3. CASE ReadHeader \/ FreshHeader
    <2>1. CASE KeepUp
      BY <2>1 DEF KeepUp
    <2>2. CASE FallBehind
      <3>1. /\ OldestKept(write_seq) = write_seq - Capacity + 1
            /\ last_seq' = OldestKept(write_seq) - 1
            /\ lost' = lost \cup (last_seq + 1 .. OldestKept(write_seq) - 1)
            /\ write_seq' = write_seq /\ delivered' = delivered
        BY <2>2 DEF FallBehind, LogLost, OldestKept
      <3>2. last_seq' \in Nat /\ last_seq' >= last_seq /\ last_seq' <= write_seq
        BY <2>2, <3>1 DEF FallBehind
      <3>3. lost' = lost \cup (last_seq + 1 .. last_seq')
        BY <3>1
      <3> QED BY <3>1, <3>2, SMT, Z3
    <2> QED BY <1>3, <2>1, <2>2, NewSnapshot
  <1>4. CASE ReadBefore \/ CopySeq \/ CopyWord \/ ReadAfter
    BY <1>4 DEF ReadBefore, CopySeq, CopyWord, ReadAfter
  <1>5. CASE Dump
    <2>1. /\ last_seq' = last_seq + 1 /\ last_seq' <= write_seq
          /\ delivered' = delivered \cup {last_seq + 1}
          /\ UNCHANGED <<lost, write_seq>>
      BY <1>5, SMTT(30) DEF Dump, Position
    <2>2. last_seq + 1 \notin lost
      OBVIOUS
    <2>3. 1 .. last_seq + 1 = (1 .. last_seq) \cup {last_seq + 1}
      BY IntervalGrows
    <2>4. delivered' \cup lost' = 1 .. last_seq'
      BY <2>1, <2>3
    <2> QED BY <2>1, <2>2, <2>4
  <1>6. CASE ScanDone \/ FindOverwritten \/ ReadError
    BY <1>6 DEF ScanDone, FindOverwritten, ReadError
  <1> QED BY <1>1, <1>2, <1>3, <1>4, <1>5, <1>6 DEF Next, Poll

\* Every step keeps commit numbers in the slots they belong to.
LEMMA OriginsStep ==
    ASSUME BaseInv, Next
    PROVE  Origins'
  <1> USE CapacityAssumption
          DEF BaseInv, TypeOK, Origins, Belongs, target, reader, snapshot, history
  <1>0. \A p \in Producers : reserved[p] # 0 => SlotOf(reserved[p]) \in Slots
    BY SlotOfType, SMT, Z3
  <1>a. (rpc \in {"before", "copySeq", "copyWord", "after"}) => SlotOf(cursor) \in Slots
    BY SlotOfType, SMT, Z3
  <1>1. ASSUME NEW p \in Producers, Reserve(p) PROVE Origins'
    BY <1>1, SMTT(30), Z3T(30) DEF Reserve
  <1>2. ASSUME NEW p \in Producers, Produce(p) PROVE Origins'
    <2>1. CASE ClearCommit(p)
      BY <1>0, <2>1 DEF ClearCommit, MayStore
    <2>2. ASSUME NEW w \in Words, StoreWord(p, w) PROVE Origins'
      BY <2>2 DEF StoreWord, MayStore
    <2>3. CASE Commit(p)
      BY <2>3, SMTT(30), Z3T(30) DEF Commit
    <2> QED BY <1>2, <2>1, <2>2, <2>3, Zenon DEF Produce
  <1>3. CASE ReadHeader \/ FreshHeader
    <2>1. UNCHANGED target /\ \E first, newest : StartSnapshot(first, newest)
      BY <1>3, NewSnapshot, Zenon DEF KeepUp, FallBehind
    <2> QED BY <2>1, SMTT(30), Z3T(30) DEF StartSnapshot, NoSeqs
  <1>4. CASE ReadBefore
    BY <1>4, <1>a DEF ReadBefore
  <1>5. CASE CopySeq
    BY <1>5, <1>a DEF CopySeq
  <1>6. CASE CopyWord
    BY <1>6, <1>a DEF CopyWord
  <1>7. CASE ReadAfter
    BY <1>7, <1>a DEF ReadAfter
  <1>8. CASE Dump \/ FindOverwritten
    BY <1>8 DEF Dump, FindOverwritten
  <1>9. CASE ScanDone \/ ReadError
    BY <1>9, SMTT(30) DEF ScanDone, ReadError, EndPoll, NoSeqs
  <1> QED BY <1>1, <1>2, <1>3, <1>4, <1>5, <1>6, <1>7, <1>8, <1>9, Zenon DEF Next, Poll

\* A slot is classified as overwritten only if the ring has wrapped past it.
LEMMA OverwrittenStep ==
    ASSUME BaseInv, Next
    PROVE  OverwrittenIsLapped'
  <1> USE CapacityAssumption
          DEF BaseInv, TypeOK, OverwrittenIsLapped, target, reader, snapshot, history
  <1>1. ASSUME NEW p \in Producers, Reserve(p) PROVE OverwrittenIsLapped'
    BY <1>1, SMT, Z3 DEF Reserve
  <1>2. ASSUME NEW p \in Producers, Produce(p) PROVE OverwrittenIsLapped'
    BY <1>2 DEF Produce, ClearCommit, StoreWord, Commit
  <1>3. CASE ReadHeader \/ FreshHeader
    BY <1>3, NewSnapshot DEF KeepUp, FallBehind, StartSnapshot
  <1>4. CASE ReadBefore \/ ReadAfter
    BY <1>4 DEF ReadBefore, ReadAfter, Advance
  <1>5. CASE CopySeq \/ CopyWord
    BY <1>5 DEF CopySeq, CopyWord
  <1>6. CASE FindOverwritten
    <2>1. seq \in Nat \ {0}
      BY <1>6, SMT, Z3 DEF FindOverwritten, Position
    <2>2. PICK c \in Seen(seq) : c > seq
      BY <1>6 DEF FindOverwritten, Overwritten
    <2>3. c \in Nat \ {0} /\ SlotOf(c) = SlotOf(seq) /\ c <= write_seq
      <3>1. SlotOf(seq) \in Slots
        BY SlotOfType, SMT, Z3
      <3>2. c \in Nat /\ Belongs(c, SlotOf(seq))
        BY <2>2, <3>1 DEF Seen, Origins
      <3>3. c # 0
        BY <2>2, SMT, Z3
      <3> QED BY <3>2, <3>3 DEF Belongs
    <2>4. c - seq >= Capacity
      BY <2>1, <2>2, <2>3, SlotDistance
    <2> QED BY <1>6, <2>3, <2>4, SMT, Z3 DEF FindOverwritten
  <1>7. CASE Dump
    BY <1>7 DEF Dump
  <1>8. CASE ScanDone \/ ReadError
    BY <1>8 DEF ScanDone, ReadError, EndPoll
  <1> QED BY <1>1, <1>2, <1>3, <1>4, <1>5, <1>6, <1>7, <1>8 DEF Next, Poll

\* The base invariant depends on the variables only.
LEMMA BaseStutter ==
    ASSUME BaseInv, UNCHANGED vars
    PROVE  BaseInv'
  BY Zenon DEF BaseInv, TypeOK, Position, Accounting, Origins, Belongs, OverwrittenIsLapped,
         vars, target, reader, snapshot, history

\* Every step keeps the base invariant.
LEMMA BaseStep ==
    ASSUME BaseInv, [Next]_vars
    PROVE  BaseInv'
  <1>1. CASE Next
    <2>1. TypeOK'
      BY <1>1, ProducerType, ReaderType DEF Next
    <2> QED BY <1>1, <2>1, PositionStep, AccountingStep, OriginsStep, OverwrittenStep DEF BaseInv
  <1>2. CASE UNCHANGED vars
    BY <1>2, BaseStutter
  <1> QED BY <1>1, <1>2

\* The base invariant holds in every reachable state.
LEMMA BaseInvariant == Spec => []BaseInv
  BY BaseInit, BaseStep, PTL DEF Spec

\* Type correctness of the ring, whatever the sizes and the order of stores.
THEOREM TypeCorrect == Spec => []TypeOK
  BY BaseInvariant, PTL DEF BaseInv

\* zt_dump_trace_events_since passes every sequence number once, as an event or
\* as a loss, however many producers race with it.
THEOREM AccountingHolds == Spec => []Accounting
  BY BaseInvariant, PTL DEF BaseInv

\* Whenever zt_trace_snapshot_slot says OVERWRITTEN, the fresh header shows that
\* the ring has wrapped past seq: the reader reports the loss and goes on.
THEOREM OverwrittenIsLappedHolds == Spec => []OverwrittenIsLapped
  BY BaseInvariant, PTL DEF BaseInv
-----------------------------------------------------------------------------
(* The ring implements the abstract event log.                             *)

\* The initial ring is an empty event log.
LEMMA LogInitHolds == Init => Log!LogInit
  BY DEF Init, Log!LogInit

\* Each step of the ring is a step of the log or leaves the log alone.
LEMMA LogStep ==
    ASSUME BaseInv, [Next]_vars
    PROVE  [Log!LogNext]_(Log!logVars)
  <1> USE DEF target, reader, snapshot, history
  <1>1. ASSUME NEW p \in Producers, Reserve(p) PROVE Log!Produce
    BY <1>1 DEF Reserve, Log!Produce
  <1>2. ASSUME NEW p \in Producers, Produce(p) PROVE UNCHANGED Log!logVars
    BY <1>2, Zenon DEF Produce, ClearCommit, StoreWord, Commit, Log!logVars
  <1>3. CASE KeepUp
    BY <1>3 DEF KeepUp, Log!logVars
  <1>4. CASE FallBehind
    <2> DEFINE upTo == OldestKept(write_seq) - 1
    <2>1. upTo \in 1 .. write_seq /\ last_seq < upTo /\ upTo + Capacity <= write_seq
      BY <1>4, CapacityAssumption DEF FallBehind, OldestKept, BaseInv, TypeOK
    <2>2. last_seq' = upTo /\ lost' = lost \cup (last_seq + 1 .. upTo)
      BY <1>4 DEF FallBehind, LogLost
    <2>3. Log!Lose(upTo)
      BY <1>4, <2>1, <2>2 DEF FallBehind, Log!Lose
    <2> HIDE DEF upTo
    <2> QED BY <2>1, <2>3 DEF Log!LogNext
  <1>5. CASE ReadBefore \/ CopySeq \/ CopyWord \/ ReadAfter
    BY <1>5 DEF ReadBefore, CopySeq, CopyWord, ReadAfter, Log!logVars
  <1>6. CASE Dump
    BY <1>6, SMTT(30) DEF Dump, Position, BaseInv, TypeOK, Log!Deliver, Log!LogNext
  <1>7. CASE ScanDone \/ FindOverwritten \/ ReadError
    BY <1>7 DEF ScanDone, FindOverwritten, ReadError, Log!logVars
  <1>8. CASE UNCHANGED vars
    BY <1>8 DEF vars, Log!logVars
  <1> QED BY <1>1, <1>2, <1>3, <1>4, <1>5, <1>6, <1>7, <1>8, NewSnapshot
          DEF Next, Poll, Log!LogNext

\* What the reader writes to the log is, for any number of racing producers, a
\* behaviour of EventLog: ordered, without gaps, and no event is reported lost
\* that its slot may still hold.
THEOREM RingImplementsEventLog == Spec => ImplementsEventLog
  BY BaseInvariant, LogInitHolds, LogStep, PTL DEF Spec, ImplementsEventLog, Log!LogSpec
-----------------------------------------------------------------------------
(* Dumped events are intact, when stores become visible in program order.  *)

\* The producer's stores keep the discipline of the slots nobody is lapped in.
LEMMA RingProduce ==
    ASSUME OrderedStores, BaseInv, RingInv, NEW p \in Producers, Reserve(p) \/ Produce(p)
    PROVE  RingInv'
  <1> SUFFICES ASSUME NEW k \in Slots, k \notin lapped' PROVE Sequential(k)'
    BY DEF RingInv
  <1>0. lapped \subseteq lapped'
    BY Zenon DEF Reserve, Produce, ClearCommit, StoreWord, Commit, history
  <1>a. Sequential(k)
    BY <1>0 DEF RingInv
  <1>b. /\ committed_seq \in [Slots -> Nat] /\ word \in [Slots -> [Words -> Nat]]
        /\ reserved \in [Producers -> Nat] /\ todo \in [Producers -> SUBSET ({0} \cup Words)]
        /\ write_seq \in Nat
        /\ \A q \in Producers : reserved[q] <= write_seq /\ (reserved[q] = 0 => todo[q] = {})
        /\ committed_seq[k] <= write_seq
    BY SMTT(30) DEF BaseInv, TypeOK, Origins, Belongs
  <1>1. CASE Reserve(p)
    <2>1. CASE k # SlotOf(write_seq + 1)
      BY <1>1, <1>a, <1>b, <2>1, Zenon DEF Reserve, Sequential, Writes
    <2>2. CASE k = SlotOf(write_seq + 1)
      <3>1. \A q \in Producers : ~Writes(q, k)
        BY <1>1, <2>2 DEF Reserve, SlotBusy, Writes
      <3>2. \A q \in Producers : Writes(q, k)' => q = p
        BY <1>1, <1>b, <3>1 DEF Reserve, Writes
      <3>3. UNCHANGED <<committed_seq, word>> /\ reserved'[p] = write_seq + 1 /\ todo'[p] = {0} \cup Words
        BY <1>1, <1>b DEF Reserve
      <3>4. committed_seq'[k] < reserved'[p]
        BY <1>b, <3>3
      <3> QED BY <1>a, <3>2, <3>3, <3>4 DEF Sequential
    <2> QED BY <2>1, <2>2
  <1>2. CASE ClearCommit(p)
    <2>1. reserved[p] # 0 /\ 0 \in todo[p]
      BY <1>2, <1>b DEF ClearCommit, MayStore
    <2>2. CASE k # SlotOf(reserved[p])
      BY <1>2, <1>a, <1>b, <2>2 DEF ClearCommit, Sequential, Writes
    <2>3. CASE k = SlotOf(reserved[p])
      <3>1. Writes(p, k) /\ \A q \in Producers : Writes(q, k) => q = p
        BY <1>a, <2>1, <2>3, Zenon DEF Sequential, Writes
      <3>2. todo[p] = {0} \cup Words
        BY <1>a, <2>1, <3>1, Zenon DEF Sequential
      <3>3. \A q \in Producers : Writes(q, k)' => q = p
        BY <1>2, <3>1 DEF ClearCommit, Writes
      <3>4. todo'[p] = Words /\ 0 \notin Words
        BY <1>2, <1>b, <3>2 DEF ClearCommit, Words
      <3> QED BY <1>2, <1>b, <2>1, <2>3, <3>3, <3>4, SMTT(30), Z3T(30) DEF ClearCommit, Sequential
    <2> QED BY <2>2, <2>3
  <1>3. ASSUME NEW w \in Words, StoreWord(p, w) PROVE Sequential(k)'
    <2>1. reserved[p] # 0 /\ 0 \notin todo[p]
      BY <1>3, <1>b, SMTT(30), Z3T(30) DEF StoreWord, MayStore, Words
    <2>2. CASE k # SlotOf(reserved[p])
      BY <1>3, <1>a, <1>b, <2>2 DEF StoreWord, Sequential, Writes
    <2>3. CASE k = SlotOf(reserved[p])
      <3>1. Writes(p, k) /\ \A q \in Producers : Writes(q, k) => q = p
        BY <1>a, <2>1, <2>3, Zenon DEF Sequential, Writes
      <3>2. committed_seq[k] = 0 /\ \A v \in Words \ todo[p] : word[k][v] = reserved[p]
        BY <1>a, <2>1, <3>1, Zenon DEF Sequential
      <3>3. \A q \in Producers : Writes(q, k)' => q = p
        BY <1>3, <3>1 DEF StoreWord, Writes
      <3>4. \A v \in Words \ todo'[p] : word'[k][v] = reserved[p]
        BY <1>3, <1>b, <2>3, <3>2 DEF StoreWord
      <3> QED BY <1>3, <1>b, <2>1, <3>2, <3>3, <3>4, SMTT(30), Z3T(30) DEF StoreWord, Sequential
    <2> QED BY <2>2, <2>3
  <1>4. CASE Commit(p)
    <2>1. CASE k # SlotOf(reserved[p])
      BY <1>4, <1>a, <1>b, <2>1 DEF Commit, Sequential, Writes
    <2>2. CASE k = SlotOf(reserved[p])
      <3>1. Writes(p, k) /\ \A q \in Producers : Writes(q, k) => q = p
        BY <1>4, <1>a, <2>2, Zenon DEF Commit, Sequential, Writes
      <3>2. \A v \in Words : word[k][v] = reserved[p]
        BY <1>4, <1>a, <3>1, Zenon DEF Commit, Sequential
      <3>3. \A q \in Producers : ~Writes(q, k)'
        BY <1>4, <1>b, <3>1 DEF Commit, Writes
      <3> QED BY <1>4, <1>b, <2>2, <3>2, <3>3 DEF Commit, Sequential, Writes
    <2> QED BY <2>1, <2>2
  <1> QED BY <1>1, <1>2, <1>3, <1>4 DEF Produce

\* A number that has left its slot never comes back to it.
LEMMA GoneForGood ==
    ASSUME BaseInv, NEW p \in Producers, Reserve(p) \/ Produce(p),
           NEW k \in Slots, NEW s \in Nat, Gone(s, k), s # 0
    PROVE  Gone(s, k)'
  <1>b. /\ committed_seq \in [Slots -> Nat] /\ reserved \in [Producers -> Nat]
        /\ write_seq \in Nat
        /\ \A q \in Producers : reserved[q] = 0 => todo[q] = {}
    BY DEF BaseInv, TypeOK, Origins
  <1>1. CASE Reserve(p)
    BY <1>1, <1>b, SMT, Z3 DEF Reserve, Gone, Writes
  <1>2. CASE ClearCommit(p)
    BY <1>2, <1>b DEF ClearCommit, Gone, Writes
  <1>3. ASSUME NEW w \in Words, StoreWord(p, w) PROVE Gone(s, k)'
    BY <1>3 DEF StoreWord, Gone, Writes
  <1>4. CASE Commit(p)
    BY <1>4, <1>b DEF Commit, Gone, Writes
  <1> QED BY <1>1, <1>2, <1>3, <1>4 DEF Produce

\* A published number stays, or leaves for good, while nobody is lapped.
LEMMA HeldOrGone ==
    ASSUME OrderedStores, BaseInv, NEW p \in Producers, Reserve(p) \/ Produce(p),
           NEW k \in Slots, Sequential(k), NEW s \in Nat, s # 0, committed_seq[k] = s
    PROVE  committed_seq'[k] = s \/ Gone(s, k)'
  <1>a. s <= write_seq
    BY Zenon DEF BaseInv, Origins, Belongs
  <1>b. /\ committed_seq \in [Slots -> Nat] /\ reserved \in [Producers -> Nat]
        /\ write_seq \in Nat /\ s <= write_seq
        /\ todo \in [Producers -> SUBSET ({0} \cup Words)]
        /\ \A q \in Producers : reserved[q] = 0 => todo[q] = {}
    BY <1>a, Zenon DEF BaseInv, TypeOK, Origins
  <1>1. CASE Reserve(p)
    BY <1>1 DEF Reserve
  <1>2. CASE ClearCommit(p)
    <2>1. \A q \in Producers : Writes(q, k) => reserved[q] # s
      <3>1. \A q \in Producers : Writes(q, k) => s < reserved[q]
        BY Zenon DEF Sequential
      <3> QED BY <1>b, <3>1
    <2>2. committed_seq'[k] \in {0, s}
      BY <1>2, <1>b DEF ClearCommit
    <2> QED BY <1>2, <1>b, <2>1, <2>2 DEF ClearCommit, Gone, Writes
  <1>3. ASSUME NEW w \in Words, StoreWord(p, w) PROVE committed_seq'[k] = s
    BY <1>3 DEF StoreWord
  <1>4. CASE Commit(p)
    <2>1. k # SlotOf(reserved[p])
      BY <1>4, Zenon DEF Commit, Sequential, Writes
    <2> QED BY <1>4, <1>b, <2>1 DEF Commit
  <1> QED BY <1>1, <1>2, <1>3, <1>4, Zenon DEF Produce

\* A producer's step keeps what the snapshot says about the slots.
LEMMA SnapshotProduce ==
    ASSUME OrderedStores, IInv, NEW p \in Producers, Reserve(p) \/ Produce(p)
    PROVE  SnapshotInv'
  <1>0. lapped \subseteq lapped' /\ UNCHANGED reader
    BY Zenon DEF Reserve, Produce, ClearCommit, StoreWord, Commit, history
  <1>1. UNCHANGED <<rpc, seq, end_seq, cursor, copied, g_commit_before, g_event_word, g_commit_after>>
    BY <1>0 DEF reader, snapshot
  <1>b. /\ g_commit_before \in [Slots -> Nat] /\ seq \in Nat
        /\ Position
    BY DEF IInv, BaseInv, TypeOK
  <1>2. ASSUME NEW k \in Slots, k \notin lapped' PROVE BeforeHolds(k)'
    <2>1. BeforeHolds(k) /\ Sequential(k)
      BY <1>0, <1>2 DEF IInv, SnapshotInv, RingInv
    <2>2. PICK c \in Nat : c = g_commit_before[k]
      BY <1>b
    <2>3. ASSUME c # 0 PROVE committed_seq'[k] = c \/ Gone(c, k)'
      <3>1. CASE committed_seq[k] = c
        BY <2>1, <2>3, <3>1, HeldOrGone, Zenon DEF IInv
      <3>2. CASE Gone(c, k)
        BY <2>3, <3>2, GoneForGood DEF IInv
      <3> QED BY <2>1, <2>2, <2>3, <3>1, <3>2, Zenon DEF BeforeHolds
    <2>4. g_commit_before'[k] = c
      BY <1>1, <2>2
    <2> QED BY <2>3, <2>4 DEF BeforeHolds, Gone, Writes
  <1>3. ASSUME NEW s \in seq .. end_seq, NEW k \in Slots, k = SlotOf(s), k \notin lapped'
        PROVE CopyHolds(s, k)' /\ AfterHolds(k)'
    <2>1. CopyHolds(s, k) /\ AfterHolds(k)
      BY <1>0, <1>3 DEF IInv, SnapshotInv
    <2>2. AfterHolds(k)'
      BY <1>1, <2>1 DEF AfterHolds
    <2>3. PICK c \in Nat : c = g_commit_before[k]
      BY <1>b
    <2>4. ASSUME NEW w \in Words, c # 0, Copied(s, w)
          PROVE  g_event_word[k][w] = c \/ Gone(c, k)'
      <3>1. g_event_word[k][w] = c \/ Gone(c, k)
        BY <2>1, <2>3, <2>4, Zenon DEF CopyHolds
      <3> QED BY <2>4, <3>1, GoneForGood, Zenon DEF IInv
    <2>5. g_commit_before'[k] = c
      BY <1>1, <2>3
    <2> QED BY <1>1, <2>2, <2>4, <2>5, Zenon DEF CopyHolds, Copied, Gone, Writes
  <1>4. (rpc' \in {"before", "copySeq", "copyWord"}) => g_commit_after' = NoSeqs
    BY <1>1 DEF IInv, SnapshotInv
  <1>5. \A s \in seq .. end_seq : SlotOf(s) \in Slots
    BY SlotOfType DEF IInv, BaseInv, TypeOK
  <1> QED BY <1>1, <1>2, <1>3, <1>4, <1>5 DEF SnapshotInv

\* A snapshot just taken up, or given up, holds nothing yet.
LEMMA SnapshotReset ==
    ASSUME BaseInv, UNCHANGED <<target, lapped>>,
           g_commit_before' = NoSeqs, g_commit_after' = NoSeqs
    PROVE  SnapshotInv'
  <1>1. \A k \in Slots : g_commit_before'[k] = 0 /\ g_commit_after'[k] = 0
    BY DEF NoSeqs
  <1>2. \A k \in Slots : BeforeHolds(k)'
    BY <1>1 DEF BeforeHolds
  <1>3. ASSUME NEW s \in Int, NEW k \in Slots
        PROVE CopyHolds(s, k)' /\ AfterHolds(k)'
    BY <1>1, <1>3 DEF CopyHolds, AfterHolds
  <1> QED BY <1>2, <1>3, SlotOfType DEF SnapshotInv

\* A step of the reader keeps what the snapshot says about the slots.
LEMMA SnapshotReader ==
    ASSUME OrderedStores, IInv, Poll \/ ReadError, TypeOK'
    PROVE  SnapshotInv'
  <1> USE DEF target, snapshot, reader, history
  <1>b. TypeOK /\ Position /\ SnapshotInv /\ RingInv /\ BaseInv /\ Origins
    BY DEF IInv, BaseInv
  <1>c. \A s \in Int : SlotOf(s) \in Slots
    BY SlotOfType
  <1>d. seq \in Nat /\ end_seq \in Nat /\ cursor \in Nat /\ copied \in Nat
    BY <1>b DEF TypeOK
  <1>1. CASE ReadHeader \/ FreshHeader
    BY <1>1, <1>b, NewSnapshot, SnapshotReset DEF KeepUp, FallBehind, StartSnapshot
  <1>2. CASE ScanDone \/ ReadError
    BY <1>2, <1>b, SnapshotReset DEF ScanDone, ReadError, EndPoll
  <1>3. CASE ReadBefore
    <2>1. /\ UNCHANGED <<target, lapped, seq, end_seq, g_event_word, g_commit_after>>
          /\ rpc = "before" /\ rpc' \in {"before", "copySeq"}
          /\ g_commit_after' = NoSeqs /\ cursor \in Nat /\ cursor' \in Nat
          /\ rpc' = "copySeq" => cursor' = seq
      BY <1>3, <1>b DEF ReadBefore, Advance, SnapshotInv, TypeOK
    <2>2. ASSUME NEW k \in Slots, k \notin lapped PROVE BeforeHolds(k)'
      <3>1. g_commit_before'[k] \in {g_commit_before[k], committed_seq[k]}
        BY <1>3, <1>b, <1>c DEF ReadBefore, TypeOK
      <3>2. BeforeHolds(k)
        BY <1>b, <2>2 DEF SnapshotInv
      <3> QED BY <2>1, <3>1, <3>2, Zenon DEF BeforeHolds, Gone, Writes
    <2>3. ASSUME NEW s \in seq .. end_seq, NEW k \in Slots PROVE CopyHolds(s, k)' /\ AfterHolds(k)'
      <3>1. \A w \in Words : ~Copied(s, w)'
        BY <1>b, <2>1, SMTT(30) DEF Copied, TypeOK
      <3>2. g_commit_after'[k] = 0
        BY <2>1 DEF NoSeqs
      <3> QED BY <3>1, <3>2, Zenon DEF CopyHolds, AfterHolds
    <2> QED BY <1>c, <2>1, <2>2, <2>3, SMTT(30), Z3T(30) DEF SnapshotInv
  <1>4. CASE CopySeq
    <2>1. /\ UNCHANGED <<target, lapped, seq, end_seq, cursor, g_commit_before, g_event_word, g_commit_after>>
          /\ rpc = "copySeq" /\ rpc' = "copyWord" /\ copied' = 0
      BY <1>4 DEF CopySeq
    <2>2. ASSUME NEW s \in Int, NEW w \in Words, Copied(s, w)' PROVE Copied(s, w)
      BY <2>1, <2>2, SMTT(30), Z3T(30) DEF Copied, Words
    <2>3. \A k \in Slots : (BeforeHolds(k)' <=> BeforeHolds(k)) /\ (AfterHolds(k)' <=> AfterHolds(k))
      BY <2>1, Zenon DEF BeforeHolds, AfterHolds, Gone, Writes
    <2>4. \A s \in Int, k \in Slots : CopyHolds(s, k) => CopyHolds(s, k)'
      BY <2>1, <2>2, Zenon DEF CopyHolds, Gone, Writes
    <2>5. g_commit_after' = NoSeqs
      BY <1>b, <2>1 DEF SnapshotInv
    <2>6. \A k \in Slots : k \notin lapped' => BeforeHolds(k)'
      BY <1>b, <2>1, <2>3 DEF SnapshotInv
    <2>7. ASSUME NEW s \in seq' .. end_seq', SlotOf(s) \notin lapped'
          PROVE  CopyHolds(s, SlotOf(s))' /\ AfterHolds(SlotOf(s))'
      <3>1. s \in seq .. end_seq /\ s \in Int /\ SlotOf(s) \notin lapped
        BY <2>1, <2>7
      <3>2. CopyHolds(s, SlotOf(s)) /\ AfterHolds(SlotOf(s))
        BY <1>b, <3>1 DEF SnapshotInv
      <3> QED BY <1>c, <2>3, <2>4, <3>1, <3>2
    <2> QED BY <2>5, <2>6, <2>7 DEF SnapshotInv
  <1>5. CASE CopyWord
    <2>1. /\ UNCHANGED <<target, lapped, seq, end_seq, g_commit_before, g_commit_after>>
          /\ rpc = "copyWord" /\ rpc' \in {"copyWord", "copySeq", "after"}
          /\ g_commit_after' = NoSeqs /\ copied + 1 \in Words /\ cursor \in seq .. end_seq
      <3>1. /\ UNCHANGED <<target, lapped, seq, end_seq, g_commit_before, g_commit_after>>
            /\ rpc = "copyWord" /\ rpc' \in {"copyWord", "copySeq", "after"}
        BY <1>5 DEF CopyWord
      <3>2. g_commit_after' = NoSeqs
        BY <1>b, <3>1 DEF SnapshotInv
      <3>3. copied < NWords /\ cursor \in seq .. end_seq
        BY <1>b, <3>1 DEF Position
      <3> QED BY <1>d, <3>1, <3>2, <3>3, NWordsAssumption, SMT, Z3 DEF Words
    <2>2. ASSUME NEW s \in seq .. end_seq, NEW w \in Words, Copied(s, w)'
          PROVE  Copied(s, w) \/ (s = cursor /\ w = copied + 1)
      BY <1>5, <1>d, <2>2, NWordsAssumption, SMT, Z3 DEF CopyWord, Copied, Words
    <2>3. ASSUME NEW k \in Slots, NEW w \in Words
          PROVE  g_event_word'[k][w] = IF k = SlotOf(cursor) /\ w = copied + 1
                                       THEN word[k][w] ELSE g_event_word[k][w]
      BY <1>5, <1>b, <1>c, <2>1, Zenon DEF CopyWord, TypeOK
    <2>4. \A k \in Slots : (BeforeHolds(k)' <=> BeforeHolds(k)) /\ AfterHolds(k)'
      BY <2>1, Zenon DEF BeforeHolds, AfterHolds, Gone, Writes, NoSeqs
    <2>5. ASSUME NEW s \in seq .. end_seq, NEW k \in Slots, k = SlotOf(s), k \notin lapped
          PROVE  CopyHolds(s, k)'
      <3>1. CopyHolds(s, k) /\ BeforeHolds(k) /\ Sequential(k)
        BY <1>b, <2>5 DEF SnapshotInv, RingInv
      <3>2. ASSUME NEW w \in Words, g_commit_before[k] # 0, Copied(s, w)'
            PROVE  g_event_word'[k][w] = g_commit_before[k] \/ Gone(g_commit_before[k], k)
        <4>1. CASE k = SlotOf(cursor) /\ w = copied + 1
          BY <2>3, <3>1, <3>2, <4>1, Zenon DEF BeforeHolds, Sequential
        <4>2. CASE ~(k = SlotOf(cursor) /\ w = copied + 1)
          BY <2>2, <2>3, <2>5, <3>1, <3>2, <4>2, Zenon DEF CopyHolds
        <4> QED BY <4>1, <4>2, Zenon
      <3> QED BY <2>1, <3>2, Zenon DEF CopyHolds, Gone, Writes
    <2>6. \A k \in Slots : k \notin lapped' => BeforeHolds(k)'
      BY <1>b, <2>1, <2>4 DEF SnapshotInv
    <2>7. \A s \in seq' .. end_seq' : SlotOf(s) \notin lapped' =>
              CopyHolds(s, SlotOf(s))' /\ AfterHolds(SlotOf(s))'
      BY <1>c, <2>1, <2>4, <2>5, SMT, Z3
    <2> QED BY <2>1, <2>6, <2>7 DEF SnapshotInv
  <1>6. CASE ReadAfter
    <2>1. /\ UNCHANGED <<target, lapped, seq, end_seq, g_commit_before, g_event_word>>
          /\ rpc = "after" /\ rpc' \in {"after", "scan"}
      BY <1>6 DEF ReadAfter, Advance
    <2>2. \A k \in Slots : g_commit_after'[k] \in {g_commit_after[k], committed_seq[k]}
      BY <1>6, <1>b, <1>c DEF ReadAfter, TypeOK
    <2>3. \A k \in Slots : BeforeHolds(k)' <=> BeforeHolds(k)
      BY <2>1, Zenon DEF BeforeHolds, Gone, Writes
    <2>4. \A s \in Int, w \in Words : Copied(s, w) /\ Copied(s, w)'
      BY <2>1 DEF Copied
    <2>5. \A s \in Int, k \in Slots : CopyHolds(s, k)' <=> CopyHolds(s, k)
      BY <2>1, <2>4, Zenon DEF CopyHolds, Gone, Writes
    <2>6. ASSUME NEW s \in Int, NEW k \in Slots, CopyHolds(s, k), AfterHolds(k)
          PROVE  AfterHolds(k)'
      BY <2>1, <2>2, <2>4, <2>6, Zenon DEF AfterHolds, CopyHolds, Gone
    <2>7. \A k \in Slots : k \notin lapped' => BeforeHolds(k)'
      BY <1>b, <2>1, <2>3 DEF SnapshotInv
    <2>8. \A s \in seq' .. end_seq' : SlotOf(s) \notin lapped' =>
              CopyHolds(s, SlotOf(s))' /\ AfterHolds(SlotOf(s))'
      BY <1>b, <1>c, <2>1, <2>5, <2>6, SMTT(30), Z3T(30) DEF SnapshotInv
    <2> QED BY <2>1, <2>7, <2>8 DEF SnapshotInv
  <1>7. CASE Dump \/ FindOverwritten
    <2>1. /\ UNCHANGED <<target, lapped, end_seq, g_commit_before, g_event_word, g_commit_after>>
          /\ rpc = "scan" /\ rpc' \in {"scan", "fresh"} /\ seq' \in {seq, seq + 1}
      BY <1>7, Zenon DEF Dump, FindOverwritten
    <2>2. \A s \in Int, w \in Words : Copied(s, w) /\ Copied(s, w)'
      BY <2>1 DEF Copied
    <2>3. \A k \in Slots : (BeforeHolds(k)' <=> BeforeHolds(k)) /\ (AfterHolds(k)' <=> AfterHolds(k))
      BY <2>1, Zenon DEF BeforeHolds, AfterHolds, Gone, Writes
    <2>4. \A s \in Int, k \in Slots : CopyHolds(s, k)' <=> CopyHolds(s, k)
      BY <2>1, <2>2, Zenon DEF CopyHolds, Gone, Writes
    <2>5. \A k \in Slots : k \notin lapped' => BeforeHolds(k)'
      BY <1>b, <2>1, <2>3 DEF SnapshotInv
    <2>6. \A s \in seq' .. end_seq' : s \in seq .. end_seq
      <3>1. seq \in Nat /\ end_seq \in Nat /\ end_seq' = end_seq /\ seq' \in Nat /\ seq' >= seq
        BY <1>b, <2>1, SMTT(30) DEF TypeOK
      <3> QED BY <3>1, SMT, Z3
    <2>7. \A s \in seq' .. end_seq' : SlotOf(s) \notin lapped' =>
              CopyHolds(s, SlotOf(s))' /\ AfterHolds(SlotOf(s))'
      <3> SUFFICES ASSUME NEW s \in seq' .. end_seq', NEW k \in Slots, k = SlotOf(s), k \notin lapped
                   PROVE  CopyHolds(s, k)' /\ AfterHolds(k)'
        BY <1>c, <2>1
      <3>1. s \in Int /\ s \in seq .. end_seq
        BY <2>6, SMT, Z3
      <3>2. CopyHolds(s, k) /\ AfterHolds(k)
        BY <1>b, <3>1 DEF SnapshotInv
      <3> QED BY <2>3, <2>4, <3>1, <3>2
    <2> QED BY <2>1, <2>5, <2>7 DEF SnapshotInv
  <1> QED BY <1>1, <1>2, <1>3, <1>4, <1>5, <1>6, <1>7 DEF Poll

\* A dumped event passed the three-fold test, so its copy is intact.
LEMMA IntactStep ==
    ASSUME OrderedStores, IInv, Next
    PROVE  IntactUnlessLapped'
  <1> USE DEF target, snapshot, reader, history
  <1>1. CASE Dump
    <2>1. seq \in Nat \ {0} /\ seq \in seq .. end_seq /\ lapped' = lapped
      <3>1. rpc = "scan" /\ seq <= end_seq /\ lapped' = lapped
        BY <1>1, Zenon DEF Dump
      <3>2. TypeOK /\ Position
        BY Zenon DEF IInv, BaseInv
      <3>3. seq \in Nat \ {0} /\ end_seq \in Nat
        BY <3>1, <3>2 DEF TypeOK, Position
      <3> QED BY <3>1, <3>3
    <2>2. /\ g_commit_before[SlotOf(seq)] = seq
          /\ g_commit_after[SlotOf(seq)] = seq
      BY <1>1, Zenon DEF Dump, Ready, Seen
    <2>3. SlotOf(seq) \notin lapped => \A w \in Words : g_event_word[SlotOf(seq)][w] = seq
      BY <2>1, <2>2 DEF IInv, SnapshotInv, AfterHolds
    <2>4. SlotOf(seq) \notin lapped => torn' = torn
      BY <1>1, <2>3, Zenon DEF Dump
    <2>5. torn' \subseteq torn \cup {seq}
      BY <1>1 DEF Dump
    <2> QED BY <2>1, <2>4, <2>5 DEF IInv, IntactUnlessLapped
  <1>2. CASE ~Dump
    <2>1. torn' = torn /\ lapped \subseteq lapped'
      <3>1. ASSUME NEW p \in Producers, Reserve(p) \/ Produce(p) PROVE torn' = torn /\ lapped \subseteq lapped'
        BY <3>1, Zenon DEF Reserve, Produce, ClearCommit, StoreWord, Commit
      <3>2. CASE ReadHeader \/ ReadBefore \/ CopySeq \/ CopyWord \/ ReadAfter
        BY <3>2, Zenon DEF ReadHeader, ReadBefore, CopySeq, CopyWord, ReadAfter
      <3>3. CASE ScanDone \/ FindOverwritten \/ FreshHeader \/ ReadError
        BY <3>3 DEF ScanDone, FindOverwritten, FreshHeader, ReadError
      <3> QED BY <1>2, <3>1, <3>2, <3>3 DEF Next, Poll
    <2> QED BY <2>1 DEF IInv, IntactUnlessLapped
  <1> QED BY <1>1, <1>2

\* The inductive invariant for intact events holds initially.
LEMMA IInvInit == Init => IInv
  <1> SUFFICES ASSUME Init PROVE IInv
    OBVIOUS
  <1>1. RingInv
    BY Zenon DEF Init, RingInv, Sequential, Writes, NoSeqs
  <1>2. \A k \in Slots : g_commit_before[k] = 0 /\ g_commit_after[k] = 0
    BY DEF Init, NoSeqs
  <1>3. SnapshotInv
    <2>1. \A k \in Slots : BeforeHolds(k) /\ AfterHolds(k)
      BY <1>2 DEF BeforeHolds, AfterHolds
    <2>2. \A s \in Int, k \in Slots : CopyHolds(s, k)
      BY <1>2 DEF CopyHolds
    <2>3. g_commit_after = NoSeqs
      BY DEF Init
    <2> QED BY <2>1, <2>2, <2>3, SlotOfType, SMT, Z3 DEF SnapshotInv
  <1>4. IntactUnlessLapped
    BY DEF Init, IntactUnlessLapped
  <1> QED BY <1>1, <1>3, <1>4, BaseInit DEF IInv

\* Every step keeps the inductive invariant for intact events.
LEMMA IInvStep ==
    ASSUME OrderedStores, IInv, [Next]_vars
    PROVE  IInv'
  <1>1. BaseInv'
    BY BaseStep DEF IInv
  <1>2. ASSUME NEW p \in Producers, Reserve(p) \/ Produce(p) PROVE RingInv' /\ SnapshotInv'
    BY <1>2, RingProduce, SnapshotProduce DEF IInv
  <1>3. ASSUME Poll \/ ReadError PROVE RingInv' /\ SnapshotInv'
    <2>1. UNCHANGED <<target, lapped>>
      <3>1. CASE ReadHeader \/ ReadBefore \/ CopySeq \/ CopyWord \/ ReadAfter
        BY <3>1 DEF ReadHeader, ReadBefore, CopySeq, CopyWord, ReadAfter, history
      <3>2. CASE Dump \/ ScanDone \/ FindOverwritten \/ FreshHeader \/ ReadError
        BY <3>2, Zenon DEF Dump, ScanDone, FindOverwritten, FreshHeader, ReadError, history
      <3> QED BY <1>3, <3>1, <3>2 DEF Poll
    <2>2. RingInv'
      <3>1. \A k \in Slots : Sequential(k)' <=> Sequential(k)
        BY <2>1, Zenon DEF Sequential, Writes, target
      <3> QED BY <2>1, <3>1 DEF IInv, RingInv
    <2> QED BY <1>1, <1>3, <2>2, SnapshotReader DEF BaseInv
  <1>4. CASE UNCHANGED vars
    <2>1. /\ UNCHANGED <<target, lapped, torn, rpc, seq, end_seq, cursor, copied>>
          /\ UNCHANGED <<g_commit_before, g_event_word, g_commit_after>>
      BY <1>4 DEF vars, reader, snapshot, history
    <2>2. RingInv'
      <3>1. \A k \in Slots : Sequential(k)' <=> Sequential(k)
        BY <2>1, Zenon DEF Sequential, Writes, target
      <3> QED BY <2>1, <3>1 DEF IInv, RingInv
    <2>3. IntactUnlessLapped'
      BY <2>1 DEF IInv, IntactUnlessLapped
    <2>4. SnapshotInv'
      <3>1. \A k \in Slots : BeforeHolds(k)' <=> BeforeHolds(k)
        BY <2>1, Zenon DEF BeforeHolds, Gone, Writes, target
      <3>2. \A k \in Slots : AfterHolds(k)' <=> AfterHolds(k)
        BY <2>1, Zenon DEF AfterHolds
      <3>3. \A s \in Int, w \in Words : Copied(s, w)' <=> Copied(s, w)
        BY <2>1 DEF Copied
      <3>4. \A s \in Int, k \in Slots : CopyHolds(s, k)' <=> CopyHolds(s, k)
        BY <2>1, <3>3, Zenon DEF CopyHolds, Gone, Writes, target
      <3>5. \A s \in Int : SlotOf(s) \in Slots
        BY SlotOfType
      <3> QED BY <2>1, <3>1, <3>2, <3>4, <3>5, SMT, Z3 DEF IInv, SnapshotInv
    <2> QED BY <1>1, <2>2, <2>3, <2>4 DEF IInv
  <1>5. CASE Next
    BY <1>1, <1>2, <1>3, <1>5, IntactStep DEF Next, IInv
  <1> QED BY <1>4, <1>5

\* With stores visible in program order, no event that zt_trace_snapshot_slot
\* calls READY holds words of another event, unless the producers ran a full lap
\* around a thread that was still writing into the slot.
THEOREM DumpedEventsIntact == OrderedStores => (Spec => []IntactUnlessLapped)
  <1> SUFFICES ASSUME OrderedStores PROVE Spec => []IntactUnlessLapped
    OBVIOUS
  <1>1. IInv /\ [Next]_vars => IInv'
    BY IInvStep
  <1>2. IInv => IntactUnlessLapped
    BY DEF IInv
  <1> QED BY <1>1, <1>2, IInvInit, PTL DEF Spec

=============================================================================
