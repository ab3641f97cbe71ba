----------------------------- MODULE CallAction -----------------------------
(***************************************************************************)
(* Call actions: the tracer publishes them into call_actions of the shared *)
(* buffer while target threads look them up on every probe hit.            *)
(*                                                                         *)
(* The tracer (zt_trace_runner.c) writes enabled = 0, then the fields,     *)
(* then enabled = epoch, then the number of actions, with a remote write   *)
(* each; any of them may fail.  The payload (zt_payload.c) reads the       *)
(* number, and in each slot, the probe's home slot first, it reads         *)
(* enabled, the fields, and enabled again.                                 *)
(*                                                                         *)
(* A field is abstracted to the action it was written for: its probe and   *)
(* its epoch.                                                              *)
(***************************************************************************)
EXTENDS Integers, FiniteSets

CONSTANTS Threads,        \* target threads that hit probes
          Probes,         \* probe ids, positive numbers
          Cap,            \* ZT_PAYLOAD_PROBE_ACTION_CAP
          OrderedLoads,   \* TRUE: loads take effect in program order (x86_64)
                          \* FALSE: earlier loads may pass an acquire (aarch64)
          MaxEpoch,       \* bound: actions published in a behaviour
          MaxFailures     \* bound: failed remote writes in a behaviour

\* The probe table and call_actions have the same number of entries.
ASSUME CapAssumption == Cap \in Nat \ {0}
ASSUME ActionProbesAssumption ==
    Probes \subseteq Nat \ {0} /\ IsFiniteSet(Probes) /\ Cardinality(Probes) <= Cap
ASSUME OrderedLoadsAssumption == OrderedLoads \in BOOLEAN
ASSUME ActionBoundsAssumption == MaxEpoch \in Nat /\ MaxFailures \in Nat

Slots == 0 .. Cap - 1
Fields == {"probe_id", "callee_addr", "args"}
Actions == [probe_id : Probes \cup {0}, epoch : Nat]
NoAction == [probe_id |-> 0, epoch |-> 0]

VARIABLES
    enabled, field, call_action_count,          \* the shared buffer
    registered, slot, action, epoch,            \* the tracer's probe table
    op, subject, step, todo, failures,          \* its operation under way
    pc, probe, pos, first, snapshot, second, unread,  \* lookups of the threads
    floor                  \* history: oldest epoch the thread may still run

memory == <<enabled, field, call_action_count>>
table == <<registered, slot, action, epoch>>
tracer == <<op, subject, step, todo, failures>>
lookups == <<pc, probe, pos, first, snapshot, second, unread, floor>>
actionVars == <<memory, table, tracer, lookups>>

ActionInit ==
    /\ enabled = [s \in Slots |-> 0]
    /\ field = [s \in Slots |-> [f \in Fields |-> NoAction]]
    /\ call_action_count = 0
    /\ registered = Probes
    /\ slot = [p \in Probes |-> -1]
    /\ action = [p \in Probes |-> NoAction]
    /\ epoch = 0
    /\ op = "none" /\ subject = 0 /\ step = "idle" /\ todo = {} /\ failures = 0
    /\ pc = [t \in Threads |-> "idle"]
    /\ probe = [t \in Threads |-> 0]
    /\ pos = [t \in Threads |-> 0]
    /\ first = [t \in Threads |-> 0]
    /\ snapshot = [t \in Threads |-> [f \in Fields |-> NoAction]]
    /\ second = [t \in Threads |-> 0]
    /\ unread = [t \in Threads |-> {}]
    /\ floor = [t \in Threads |-> 0]
-----------------------------------------------------------------------------
(* The tracer.                                                             *)

HasAction(p) == action[p] # NoAction

\* Mutant: every probe is given its home slot.
MutantIsFreeFor(p, s) == TRUE

\* No other probe with an action owns slot s.
IsFreeFor(p, s) == \A q \in registered \ {p} : ~(HasAction(q) /\ slot[q] = s)

\* How far from the home slot of p the search comes to slot s.
Offset(p, s) == (s - p) % Cap

\* zt_trace_assign_call_action_slot: keep the slot, or take the first free one.
AssignedSlot(p, s) ==
    IF slot[p] \in Slots /\ IsFreeFor(p, slot[p])
    THEN s = slot[p]
    ELSE IsFreeFor(p, s) /\ \A r \in Slots : IsFreeFor(p, r) => Offset(p, s) <= Offset(p, r)

Begin(what, p, next) ==
    /\ op' = what
    /\ subject' = p
    /\ step' = next
    /\ todo' = Fields

\* zt_trace_update_probe_call_action_args, up to the first remote write.
Update(p) ==
    /\ step = "idle"
    /\ p \in registered
    /\ epoch < MaxEpoch
    /\ \E s \in Slots : AssignedSlot(p, s) /\ slot' = [slot EXCEPT ![p] = s]
    /\ epoch' = epoch + 1
    /\ action' = [action EXCEPT ![p] = [probe_id |-> p, epoch |-> epoch + 1]]
    /\ Begin("update", p, "disable")
    /\ UNCHANGED <<memory, registered, failures, lookups>>

\* Mutant: the slot is given up without a write.
MutantClear(p) ==
    /\ step = "idle"
    /\ p \in registered
    /\ action' = [action EXCEPT ![p] = NoAction]
    /\ slot' = [slot EXCEPT ![p] = -1]
    /\ Begin("clear", p, "count")
    /\ UNCHANGED <<memory, registered, epoch, failures, lookups>>

\* zt_trace_clear_probe_call_action, up to the first remote write.
Clear(p) ==
    /\ step = "idle"
    /\ p \in registered
    /\ action' = [action EXCEPT ![p] = NoAction]
    /\ Begin("clear", p, IF slot[p] = -1 THEN "count" ELSE "disable")
    /\ UNCHANGED <<memory, registered, slot, epoch, failures, lookups>>

\* Mutant: the action of a removed probe is left in the buffer.
MutantRemove(p) ==
    /\ step = "idle"
    /\ p \in registered
    /\ registered # {p}
    /\ action' = [action EXCEPT ![p] = NoAction]
    /\ Begin("remove", p, "unregister")
    /\ UNCHANGED <<memory, registered, slot, epoch, failures, lookups>>

\* zt_trace_remove_probe of a probe that is not the last one, with the target
\* stopped: its action is cleared, when it has one, and the probe forgotten.
Remove(p) ==
    /\ step = "idle"
    /\ p \in registered
    /\ registered # {p}
    /\ action' = [action EXCEPT ![p] = NoAction]
    /\ IF HasAction(p)
       THEN Begin("remove", p, "disable")
       ELSE Begin("remove", p, "unregister")
    /\ UNCHANGED <<memory, registered, slot, epoch, failures, lookups>>

Goto(next) == step' = next /\ UNCHANGED <<op, subject, failures>>

\* zt_trace_write_call_action: enabled = 0 ...
WriteDisable ==
    /\ step = "disable"
    /\ enabled' = [enabled EXCEPT ![slot[subject]] = 0]
    /\ Goto("data")
    /\ UNCHANGED <<field, call_action_count, table, todo, lookups>>

\* ... the staged action, a field at a time under the eyes of the target ...
WriteField(f) ==
    /\ step = "data"
    /\ f \in todo
    /\ field' = [field EXCEPT ![slot[subject]][f] = action[subject]]
    /\ todo' = todo \ {f}
    /\ step' = IF todo # {f} THEN "data" ELSE IF HasAction(subject) THEN "enable" ELSE "written"
    /\ UNCHANGED <<enabled, call_action_count, table, op, subject, failures, lookups>>

\* ... and enabled = epoch.
WriteEnable ==
    /\ step = "enable"
    /\ enabled' = [enabled EXCEPT ![slot[subject]] = action[subject].epoch]
    /\ Goto("count")
    /\ UNCHANGED <<field, call_action_count, table, todo, lookups>>

\* A cleared action gives up its slot once it is written.
FreeSlot ==
    /\ step = "written"
    /\ slot' = [slot EXCEPT ![subject] = -1]
    /\ Goto("count")
    /\ UNCHANGED <<memory, registered, action, epoch, todo, lookups>>

\* zt_trace_count_call_actions
ActionCount == Cardinality({p \in registered : HasAction(p)})

\* zt_trace_write_call_action_count
WriteCount ==
    /\ step = "count"
    /\ call_action_count' = ActionCount
    /\ Goto(IF op = "remove" THEN "unregister" ELSE "idle")
    /\ UNCHANGED <<enabled, field, table, todo, lookups>>

\* A remote write fails: the operation returns -1 where it stands, and removal,
\* which ignores the result, goes on.
WriteFails ==
    /\ step \in {"disable", "data", "enable", "count"}
    /\ failures < MaxFailures
    /\ failures' = failures + 1
    /\ step' = IF op = "remove" THEN "unregister" ELSE "idle"
    /\ UNCHANGED <<memory, table, op, subject, todo, lookups>>

\* zt_unregister_probe
Unregister ==
    /\ step = "unregister"
    /\ registered' = registered \ {subject}
    /\ slot' = [slot EXCEPT ![subject] = -1]
    /\ Goto("idle")
    /\ UNCHANGED <<memory, action, epoch, todo, lookups>>

Tracer ==
    \/ \E p \in Probes : Update(p) \/ Clear(p) \/ Remove(p)
    \/ WriteDisable
    \/ \E f \in Fields : WriteField(f)
    \/ WriteEnable \/ FreeSlot \/ WriteCount \/ WriteFails \/ Unregister
-----------------------------------------------------------------------------
(* The lookups.                                                            *)

\* The threads run, except while zt_trace_remove_probe has stopped them.
Running == op # "remove" \/ step = "idle"

\* The pos-th slot that zt_find_call_action looks at: the home slot, then the others.
Looked(p, n) ==
    LET home == p % Cap IN
    IF n = 0 THEN home ELSE IF n - 1 < home THEN n - 1 ELSE n

Here(t) == Looked(probe[t], pos[t])

\* A thread hits probe p; from here on it may run the action of this moment or
\* a later one.
Hit(t, p) ==
    /\ Running
    /\ pc[t] = "idle"
    /\ p \in registered
    /\ pc' = [pc EXCEPT ![t] = "count"]
    /\ probe' = [probe EXCEPT ![t] = p]
    /\ pos' = [pos EXCEPT ![t] = 0]
    /\ floor' = [floor EXCEPT ![t] = IF step # "idle" \/ failures > 0 THEN 0
                                     ELSE IF HasAction(p) THEN action[p].epoch ELSE epoch + 1]
    /\ UNCHANGED <<memory, table, tracer, first, snapshot, second, unread>>

\* zt_find_call_action: nothing to do while the count is 0.
ReadCount(t) ==
    /\ Running
    /\ pc[t] = "count"
    /\ pc' = [pc EXCEPT ![t] = IF call_action_count = 0 THEN "idle" ELSE "first"]
    /\ UNCHANGED <<memory, table, tracer, probe, pos, first, snapshot, second, unread, floor>>

\* The locals of zt_copy_call_action_if_match are gone.
Forget(t) ==
    /\ first' = [first EXCEPT ![t] = 0]
    /\ snapshot' = [snapshot EXCEPT ![t] = [f \in Fields |-> NoAction]]
    /\ second' = [second EXCEPT ![t] = 0]

\* On to the next slot, or no action after the last one.
NextSlot(t) ==
    /\ pos' = [pos EXCEPT ![t] = IF @ = Cap - 1 THEN 0 ELSE @ + 1]
    /\ pc' = [pc EXCEPT ![t] = IF pos[t] = Cap - 1 THEN "idle" ELSE "first"]

\* zt_copy_call_action_if_match: the first load of enabled ...
ReadFirst(t) ==
    /\ Running
    /\ pc[t] = "first"
    /\ IF enabled[Here(t)] = 0
       THEN NextSlot(t) /\ UNCHANGED <<first, unread>>
       ELSE /\ pc' = [pc EXCEPT ![t] = "copy"]
            /\ first' = [first EXCEPT ![t] = enabled[Here(t)]]
            /\ unread' = [unread EXCEPT ![t] = Fields \cup {"enabled"}]
            /\ UNCHANGED pos
    /\ UNCHANGED <<memory, table, tracer, probe, snapshot, second, floor>>

\* ... the copy of the fields ...
ReadField(t, f) ==
    /\ Running
    /\ pc[t] = "copy"
    /\ f \in unread[t]
    /\ snapshot' = [snapshot EXCEPT ![t][f] = field[Here(t)][f]]
    /\ unread' = [unread EXCEPT ![t] = @ \ {f}]
    /\ UNCHANGED <<memory, table, tracer, pc, probe, pos, first, second, floor>>

\* ... the second load of enabled ...
ReadSecond(t) ==
    /\ Running
    /\ pc[t] = "copy"
    /\ "enabled" \in unread[t]
    /\ OrderedLoads => unread[t] = {"enabled"}
    /\ second' = [second EXCEPT ![t] = enabled[Here(t)]]
    /\ unread' = [unread EXCEPT ![t] = @ \ {"enabled"}]
    /\ UNCHANGED <<memory, table, tracer, pc, probe, pos, first, snapshot, floor>>

\* Mutant: the second load is not compared with the first.
MutantMatches(t) ==
    /\ snapshot[t]["probe_id"].probe_id = probe[t]
    /\ snapshot[t]["callee_addr"] # NoAction

\* ... and the test.  arg_count is in range in every action the tracer writes.
Matches(t) ==
    /\ second[t] = first[t]
    /\ snapshot[t]["probe_id"].probe_id = probe[t]
    /\ snapshot[t]["callee_addr"] # NoAction

Decide(t) ==
    /\ Running
    /\ pc[t] = "copy"
    /\ unread[t] = {}
    /\ IF Matches(t)
       THEN pc' = [pc EXCEPT ![t] = "run"] /\ UNCHANGED <<pos, first, snapshot, second>>
       ELSE NextSlot(t) /\ Forget(t)
    /\ UNCHANGED <<memory, table, tracer, probe, unread, floor>>

\* zt_run_call_action calls the callee.
Run(t) ==
    /\ Running
    /\ pc[t] = "run"
    /\ pc' = [pc EXCEPT ![t] = "idle"]
    /\ Forget(t)
    /\ UNCHANGED <<memory, table, tracer, probe, pos, unread, floor>>

Lookup(t) ==
    \/ \E p \in Probes : Hit(t, p)
    \/ ReadCount(t) \/ ReadFirst(t)
    \/ \E f \in Fields : ReadField(t, f)
    \/ ReadSecond(t) \/ Decide(t) \/ Run(t)

ActionNext == Tracer \/ \E t \in Threads : Lookup(t)

ActionSpec == ActionInit /\ [][ActionNext]_actionVars
-----------------------------------------------------------------------------
(* Properties.                                                             *)

\* Every variable stays in its type; the number of actions fits the table.
ActionTypeOK ==
    /\ enabled \in [Slots -> Nat]
    /\ field \in [Slots -> [Fields -> Actions]]
    /\ call_action_count \in 0 .. Cap
    /\ registered \subseteq Probes
    /\ slot \in [Probes -> Slots \cup {-1}]
    /\ action \in [Probes -> Actions]
    /\ epoch \in Nat
    /\ op \in {"none", "update", "clear", "remove"}
    /\ subject \in Probes \cup {0}
    /\ step \in {"idle", "disable", "data", "enable", "written", "count", "unregister"}
    /\ todo \subseteq Fields
    /\ failures \in Nat
    /\ pc \in [Threads -> {"idle", "count", "first", "copy", "run"}]
    /\ probe \in [Threads -> Probes \cup {0}]
    /\ pos \in [Threads -> Slots]
    /\ first \in [Threads -> Nat]
    /\ snapshot \in [Threads -> [Fields -> Actions]]
    /\ second \in [Threads -> Nat]
    /\ unread \in [Threads -> SUBSET (Fields \cup {"enabled"})]
    /\ floor \in [Threads -> Nat]

\* What a thread runs is one whole action that the tracer made for the probe it
\* hit: zt_copy_call_action_if_match never passes fields of two actions, however
\* the lookup and the tracer's writes (and their failures) interleave.
WholeAction ==
    \A t \in Threads : pc[t] = "run" =>
        \A f \in Fields : snapshot[t][f] = [probe_id |-> probe[t], epoch |-> first[t]]

\* Once "update call" or "call clear" is back, a probe hit that begins later does
\* not run the action that was replaced or cleared, as long as no write failed.
Fresh == \A t \in Threads : pc[t] = "run" => first[t] >= floor[t]

\* The slots in which a lookup finds an action for p.
Live(p) == {s \in Slots : enabled[s] # 0 /\ field[s]["probe_id"].probe_id = p}

\* Between operations, and until a write fails, the shared buffer says what the
\* probe table says: an action is found for a probe exactly if the table has one,
\* in one slot only, whole, and the count does not hide it.
Agreement ==
    step = "idle" /\ failures = 0 =>
        /\ call_action_count = ActionCount
        /\ \A p \in Probes :
               IF HasAction(p)
               THEN /\ Live(p) = {slot[p]}
                    /\ enabled[slot[p]] = action[p].epoch
                    /\ \A f \in Fields : field[slot[p]][f] = action[p]
               ELSE Live(p) = {}

\* An operation on one probe leaves the published actions of the others alone,
\* until a write fails.  (After a failed "call clear" the probe keeps the number
\* of a slot that another probe may be given; clearing it again wipes that slot.)
OthersUntouched ==
    [][failures = 0 =>
         \A p \in Probes : HasAction(p) /\ subject # p =>
             enabled'[slot[p]] = enabled[slot[p]] /\ field'[slot[p]] = field[slot[p]]]_actionVars
=============================================================================
