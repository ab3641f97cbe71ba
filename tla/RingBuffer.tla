----------------------------- MODULE RingBuffer -----------------------------
(***************************************************************************)
(* The shared trace ring: producer threads in the target (zt_payload.c)    *)
(* against the one reader in the tracer (zt_trace_runner.c).               *)
(*                                                                         *)
(* A producer reserves a sequence number with an atomic increment, zeroes  *)
(* the slot's committed_seq with a plain store, fills the event words with *)
(* plain stores and publishes with a release store of committed_seq.  The  *)
(* reader copies the slots with process_vm_readv: committed_seq, then the  *)
(* whole event, then committed_seq again, one slot after the other while   *)
(* the producers keep running.                                             *)
(*                                                                         *)
(* The content of an event is abstracted to the sequence number it was     *)
(* written for: a word holding another number is a word of another event.  *)
(* Sequence numbers are the commit_seq values of the code (1, 2, ...).     *)
(***************************************************************************)
EXTENDS Integers

CONSTANTS Producers,      \* target threads that hit probes
          Capacity,       \* ZT_TRACE_EVENT_CAPACITY
          NWords,         \* words of an event that are copied separately
          OrderedStores,  \* TRUE: stores become visible in program order (x86_64)
                          \* FALSE: in any order before the release (aarch64)
          MaxSeq,         \* bound: events produced in a behaviour
          MaxReadErrors   \* bound: failed remote reads in a behaviour

ASSUME CapacityAssumption == Capacity \in Nat \ {0}
ASSUME NWordsAssumption == NWords \in Nat \ {0}
ASSUME OrderedStoresAssumption == OrderedStores \in BOOLEAN
ASSUME BoundsAssumption == MaxSeq \in Nat /\ MaxReadErrors \in Nat

Words == 1 .. NWords
Slots == 0 .. Capacity - 1

VARIABLES
    \* zt_trace_buffer_t, in memory of the target
    write_seq,      \* events reserved so far
    committed_seq,  \* per slot: the publication flag
    word,           \* per slot and word: the event the word belongs to
    \* zt_handle_entry, zt_handle_return, zt_run_call_action: one event at a time
    reserved,       \* per producer: commit_seq of the event being written, or 0
    todo,           \* per producer: stores not yet performed; 0 is committed_seq = 0
    \* zt_dump_trace_events_since
    rpc,            \* what the reader does next
    last_seq,       \* g_active_trace.last_seq
    seq,            \* next sequence number to classify
    end_seq,        \* the local write_seq
    cursor,         \* next sequence number to copy in the current sweep
    copied,         \* words of the event at cursor copied so far, 0 .. NWords
    g_commit_before, g_event_seq, g_event_word, g_commit_after,
    readErrors,
    \* history, not in the code
    delivered,      \* sequence numbers handed to zt_dump_one_trace_event
    lost,           \* sequence numbers covered by a ztrace:lost line
    torn,           \* delivered numbers whose copy holds words of other events
    lapped          \* slots reserved again while an earlier writer was in them

target == <<write_seq, committed_seq, word, reserved, todo>>
snapshot == <<g_commit_before, g_event_seq, g_event_word, g_commit_after>>
reader == <<rpc, last_seq, seq, end_seq, cursor, copied, snapshot, readErrors>>
history == <<delivered, lost, torn, lapped>>
vars == <<target, reader, history>>

SlotOf(s) == (s - 1) % Capacity

EmptyWords == [k \in Slots |-> [w \in Words |-> 0]]
NoSeqs == [k \in Slots |-> 0]

\* zt_payload_init has cleared the buffer; the reader has not polled yet.
Init ==
    /\ write_seq = 0
    /\ committed_seq = NoSeqs
    /\ word = EmptyWords
    /\ reserved = [p \in Producers |-> 0]
    /\ todo = [p \in Producers |-> {}]
    /\ rpc = "idle"
    /\ last_seq = 0
    /\ seq = 0
    /\ end_seq = 0
    /\ cursor = 0
    /\ copied = 0
    /\ g_commit_before = NoSeqs
    /\ g_event_seq = NoSeqs
    /\ g_event_word = EmptyWords
    /\ g_commit_after = NoSeqs
    /\ readErrors = 0
    /\ delivered = {}
    /\ lost = {}
    /\ torn = {}
    /\ lapped = {}
-----------------------------------------------------------------------------
(* The producers.                                                          *)

\* Someone still writes an event of this slot.
SlotBusy(k) == \E q \in Producers : reserved[q] # 0 /\ SlotOf(reserved[q]) = k

\* fetch_add of write_seq; the slot and the commit number follow from it.
Reserve(p) ==
    /\ write_seq < MaxSeq
    /\ reserved[p] = 0
    /\ write_seq' = write_seq + 1
    /\ reserved' = [reserved EXCEPT ![p] = write_seq + 1]
    /\ todo' = [todo EXCEPT ![p] = {0} \cup Words]
    /\ lapped' = IF SlotBusy(SlotOf(write_seq + 1))
                 THEN lapped \cup {SlotOf(write_seq + 1)} ELSE lapped
    /\ UNCHANGED <<committed_seq, word, reader, delivered, lost, torn>>

\* The plain stores, which only the release store of the commit orders.
MayStore(p, w) ==
    /\ w \in todo[p]
    /\ OrderedStores => \A v \in todo[p] : w <= v

\* slot->committed_seq = 0
ClearCommit(p) ==
    /\ MayStore(p, 0)
    /\ committed_seq' = [committed_seq EXCEPT ![SlotOf(reserved[p])] = 0]
    /\ todo' = [todo EXCEPT ![p] = @ \ {0}]
    /\ UNCHANGED <<write_seq, word, reserved, reader, history>>

\* One word of the event (zt_init_event_header and the argument stores).
StoreWord(p, w) ==
    /\ MayStore(p, w)
    /\ word' = [word EXCEPT ![SlotOf(reserved[p])][w] = reserved[p]]
    /\ todo' = [todo EXCEPT ![p] = @ \ {w}]
    /\ UNCHANGED <<write_seq, committed_seq, reserved, reader, history>>

\* zt_commit_event_slot
Commit(p) ==
    /\ reserved[p] # 0
    /\ todo[p] = {}
    /\ committed_seq' = [committed_seq EXCEPT ![SlotOf(reserved[p])] = reserved[p]]
    /\ reserved' = [reserved EXCEPT ![p] = 0]
    /\ UNCHANGED <<write_seq, word, todo, reader, history>>

Produce(p) ==
    \/ ClearCommit(p)
    \/ \E w \in Words : StoreWord(p, w)
    \/ Commit(p)
-----------------------------------------------------------------------------
(* The reader.                                                             *)

\* Mutant: a loss marker that swallows one event too many.
MutantOldestKept(n) == n - Capacity + 2

\* The first number still in the ring, when n numbers have been reserved.
OldestKept(n) == n - Capacity + 1

\* Start copying the slots of first .. last: zt_trace_refresh_event_snapshots.
\* Every slot classified later is copied first, so old copies do not matter.
StartSnapshot(first, last) ==
    /\ seq' = first
    /\ end_seq' = last
    /\ cursor' = first
    /\ rpc' = "before"
    /\ g_commit_before' = NoSeqs
    /\ g_event_seq' = NoSeqs
    /\ g_event_word' = EmptyWords
    /\ g_commit_after' = NoSeqs
    /\ copied' = 0

\* Mutant: the loss marker covers the first event that is still there.
MutantLogLost(first, start) ==
    /\ lost' = lost \cup (first .. start)
    /\ last_seq' = start - 1

\* zt_trace_log_lost_events and the last_seq update that goes with it.
LogLost(first, start) ==
    /\ lost' = lost \cup (first .. start - 1)
    /\ last_seq' = start - 1

\* The poll returns; nothing is kept but last_seq.
EndPoll ==
    /\ rpc' = "idle"
    /\ seq' = 0
    /\ end_seq' = 0
    /\ cursor' = 0
    /\ copied' = 0
    /\ g_commit_before' = NoSeqs
    /\ g_event_seq' = NoSeqs
    /\ g_event_word' = EmptyWords
    /\ g_commit_after' = NoSeqs

\* Mutant: one new event is not worth a poll.
MutantReadHeader ==
    /\ rpc = "idle"
    /\ write_seq > last_seq + 1
    /\ IF write_seq - last_seq > Capacity
       THEN /\ LogLost(last_seq + 1, OldestKept(write_seq))
            /\ StartSnapshot(OldestKept(write_seq), write_seq)
       ELSE /\ StartSnapshot(last_seq + 1, write_seq)
            /\ UNCHANGED <<last_seq, lost>>
    /\ UNCHANGED <<target, readErrors, delivered, torn, lapped>>

\* A poll that finds new events: the header read, and the loss marker when the
\* producers have lapped the reader.
ReadHeader ==
    /\ rpc = "idle"
    /\ write_seq > last_seq
    /\ IF write_seq - last_seq > Capacity
       THEN /\ LogLost(last_seq + 1, OldestKept(write_seq))
            /\ StartSnapshot(OldestKept(write_seq), write_seq)
       ELSE /\ StartSnapshot(last_seq + 1, write_seq)
            /\ UNCHANGED <<last_seq, lost>>
    /\ UNCHANGED <<target, readErrors, delivered, torn, lapped>>

\* Move the sweep on to the next slot, or start the next sweep.
Advance(nextSweep) ==
    IF cursor = end_seq
    THEN cursor' = seq /\ rpc' = nextSweep
    ELSE cursor' = cursor + 1 /\ UNCHANGED rpc

\* zt_trace_read_commit_snapshot into g_commit_before, one slot.
ReadBefore ==
    /\ rpc = "before"
    /\ g_commit_before' = [g_commit_before EXCEPT ![SlotOf(cursor)] = committed_seq[SlotOf(cursor)]]
    /\ Advance("copySeq")
    /\ UNCHANGED <<target, last_seq, seq, end_seq, copied, g_event_seq, g_event_word,
                   g_commit_after, readErrors, history>>

\* zt_trace_read_event_snapshot, one slot: committed_seq is its first word ...
CopySeq ==
    /\ rpc = "copySeq"
    /\ g_event_seq' = [g_event_seq EXCEPT ![SlotOf(cursor)] = committed_seq[SlotOf(cursor)]]
    /\ copied' = 0
    /\ rpc' = "copyWord"
    /\ UNCHANGED <<target, last_seq, seq, end_seq, cursor, g_commit_before, g_event_word,
                   g_commit_after, readErrors, history>>

\* ... and the other words follow.
CopyWord ==
    /\ rpc = "copyWord"
    /\ g_event_word' = [g_event_word EXCEPT
                          ![SlotOf(cursor)][copied + 1] = word[SlotOf(cursor)][copied + 1]]
    /\ IF copied + 1 < NWords
       THEN copied' = copied + 1 /\ UNCHANGED <<cursor, rpc>>
       ELSE /\ copied' = 0
            /\ IF cursor = end_seq
               THEN cursor' = seq /\ rpc' = "after"
               ELSE cursor' = cursor + 1 /\ rpc' = "copySeq"
    /\ UNCHANGED <<target, last_seq, seq, end_seq, g_commit_before, g_event_seq,
                   g_commit_after, readErrors, history>>

\* zt_trace_read_commit_snapshot into g_commit_after, one slot.
ReadAfter ==
    /\ rpc = "after"
    /\ g_commit_after' = [g_commit_after EXCEPT ![SlotOf(cursor)] = committed_seq[SlotOf(cursor)]]
    /\ Advance("scan")
    /\ UNCHANGED <<target, last_seq, seq, end_seq, copied, g_commit_before, g_event_seq,
                   g_event_word, readErrors, history>>

\* zt_trace_snapshot_slot
Seen(s) == {g_commit_before[SlotOf(s)], g_event_seq[SlotOf(s)], g_commit_after[SlotOf(s)]}
\* Mutants: no second look at committed_seq, and a pending slot taken for an
\* overwritten one.
MutantReady(s) == g_commit_before[SlotOf(s)] = s
MutantOverwritten(s) == \E c \in Seen(s) : c # s

Ready(s) == Seen(s) = {s}
Overwritten(s) == \E c \in Seen(s) : c > s

\* SLOT_READY: the event goes to zt_dump_one_trace_event.
Dump ==
    /\ rpc = "scan"
    /\ seq <= end_seq
    /\ Ready(seq)
    /\ delivered' = delivered \cup {seq}
    /\ torn' = IF \A w \in Words : g_event_word[SlotOf(seq)][w] = seq
               THEN torn ELSE torn \cup {seq}
    /\ last_seq' = seq
    /\ seq' = seq + 1
    /\ UNCHANGED <<target, rpc, end_seq, cursor, copied, snapshot, readErrors, lost, lapped>>

\* The loop ends: all slots done, or SLOT_PENDING.
ScanDone ==
    /\ rpc = "scan"
    /\ seq <= end_seq => ~Ready(seq) /\ ~Overwritten(seq)
    /\ EndPoll
    /\ UNCHANGED <<target, last_seq, readErrors, history>>

\* SLOT_OVERWRITTEN: ask for a fresh header.
FindOverwritten ==
    /\ rpc = "scan"
    /\ seq <= end_seq
    /\ Overwritten(seq)
    /\ rpc' = "fresh"
    /\ UNCHANGED <<target, last_seq, seq, end_seq, cursor, copied, snapshot, readErrors, history>>

\* The fresh header shows how far the producers are: report the loss and take a
\* new snapshot, or give up when the ring has not wrapped past seq.
FreshHeader ==
    /\ rpc = "fresh"
    /\ IF write_seq >= seq /\ write_seq - seq >= Capacity
       THEN /\ LogLost(seq, OldestKept(write_seq))
            /\ StartSnapshot(OldestKept(write_seq), write_seq)
       ELSE /\ EndPoll
            /\ UNCHANGED <<last_seq, lost>>
    /\ UNCHANGED <<target, readErrors, delivered, torn, lapped>>

\* Any remote read may fail; the poll returns -1 and a later poll starts again.
ReadError ==
    /\ rpc \in {"before", "copySeq", "copyWord", "after", "fresh"}
    /\ readErrors < MaxReadErrors
    /\ readErrors' = readErrors + 1
    /\ EndPoll
    /\ UNCHANGED <<target, last_seq, history>>

Poll ==
    \/ ReadHeader \/ ReadBefore \/ CopySeq \/ CopyWord \/ ReadAfter
    \/ Dump \/ ScanDone \/ FindOverwritten \/ FreshHeader

Next ==
    \/ \E p \in Producers : Reserve(p) \/ Produce(p)
    \/ Poll
    \/ ReadError

Spec == Init /\ [][Next]_vars

\* A target thread that has entered the payload leaves it, and the command line
\* polls the ring every 50 ms.  No thread has to hit another probe.
Fairness ==
    /\ \A p \in Producers : WF_vars(Produce(p))
    /\ WF_vars(Poll)

FairSpec == Spec /\ Fairness
-----------------------------------------------------------------------------
(* Properties.                                                             *)

\* Every variable stays in its type.
TypeOK ==
    /\ write_seq \in Nat
    /\ committed_seq \in [Slots -> Nat]
    /\ word \in [Slots -> [Words -> Nat]]
    /\ reserved \in [Producers -> Nat]
    /\ todo \in [Producers -> SUBSET ({0} \cup Words)]
    /\ rpc \in {"idle", "before", "copySeq", "copyWord", "after", "scan", "fresh"}
    /\ last_seq \in Nat /\ seq \in Nat /\ end_seq \in Nat /\ cursor \in Nat
    /\ copied \in 0 .. NWords
    /\ g_commit_before \in [Slots -> Nat]
    /\ g_event_seq \in [Slots -> Nat]
    /\ g_event_word \in [Slots -> [Words -> Nat]]
    /\ g_commit_after \in [Slots -> Nat]
    /\ readErrors \in Nat
    /\ delivered \subseteq Nat /\ lost \subseteq Nat /\ torn \subseteq Nat
    /\ lapped \subseteq Slots

\* The log accounts for every event exactly once: each sequence number up to
\* last_seq was either dumped or covered by a ztrace:lost line, none was both,
\* and the reader never runs ahead of the producers.
Accounting ==
    /\ delivered \cap lost = {}
    /\ delivered \cup lost = 1 .. last_seq
    /\ last_seq <= write_seq

\* zt_trace_snapshot_slot lets no half-written or overwritten event through:
\* each dumped event consists of its own words only, unless the producers ran
\* a full lap around a thread that was still writing into the slot.
IntactUnlessLapped == \A s \in torn : SlotOf(s) \in lapped

\* The comment on the double read (zt_trace_runner.c:906-910) promises it
\* without the exception: a slot that is pending or overwritten is never
\* formatted.
Intact == torn = {}

\* A slot found OVERWRITTEN means that the ring has wrapped past seq, so the
\* fresh header always yields a loss marker and a new snapshot; the break that
\* follows the test in zt_dump_trace_events_since is never taken.
OverwrittenIsLapped ==
    rpc = "fresh" => write_seq >= seq /\ write_seq - seq >= Capacity

\* Everything the reader does to the log is a step of the abstract event log:
\* in order, without gaps, and nothing is called lost that is still in the ring.
Log == INSTANCE EventLog WITH produced <- write_seq, consumed <- last_seq
ImplementsEventLog == Log!LogSpec

\* Every reserved event is passed in the end, as an event or as a loss, unless
\* some writer was lapped: its late commit puts an old number back into
\* committed_seq and the reader takes the slot for pending.
EventuallyPassed ==
    \A s \in 1 .. MaxSeq : write_seq >= s ~> (last_seq >= s \/ lapped # {})
=============================================================================
