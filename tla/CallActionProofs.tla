-------------------------- MODULE CallActionProofs --------------------------
(***************************************************************************)
(* Proofs about CallAction for any number of threads, probes, epochs and   *)
(* failed writes, where loads take effect in program order (x86_64).       *)
(***************************************************************************)
EXTENDS CallAction, FiniteSetTheorems, TLAPS

\* The tracer is about to publish the action of the latest epoch.
Pending == step \in {"disable", "data", "enable"} /\ HasAction(subject)

\* The operation under way.
OpInv ==
    /\ step # "idle" => subject \in Probes
    /\ step = "unregister" => op = "remove"
    /\ step = "disable" => todo = Fields
    /\ step \in {"disable", "data", "enable", "written"} => slot[subject] \in Slots
    /\ step \in {"data", "enable", "written"} => enabled[slot[subject]] = 0
    /\ step \in {"data", "enable"} => \A f \in Fields \ todo : field[slot[subject]][f] = action[subject]
    /\ step = "enable" => todo = {} /\ HasAction(subject)
    /\ Pending => action[subject] = [probe_id |-> subject, epoch |-> epoch] /\ epoch > 0

\* A slot that is enabled holds one whole action.
SlotInv ==
    \A s \in Slots : enabled[s] # 0 =>
        /\ enabled[s] <= epoch
        /\ \E p \in Probes : \A f \in Fields : field[s][f] = [probe_id |-> p, epoch |-> enabled[s]]

\* The action of a pending epoch is nowhere yet.
PendingInv ==
    Pending =>
        /\ \A s \in Slots : enabled[s] < epoch
        /\ \A t \in Threads : first[t] < epoch

\* What thread t has copied is one whole action, and no older than it may be.
Whole(t) ==
    \E p \in Probes : /\ \A f \in Fields : snapshot[t][f] = [probe_id |-> p, epoch |-> first[t]]
                      /\ p = probe[t] => first[t] >= floor[t]

\* A lookup: as long as the slot has the epoch that was read first, the copy is that
\* of the slot; once it has lost it, it never has it again.
LookupInv(t) ==
    /\ first[t] <= epoch
    /\ pc[t] = "copy" => first[t] > 0
    /\ pc[t] = "copy" /\ "enabled" \in unread[t] /\ enabled[Here(t)] = first[t] =>
           \A f \in Fields \ unread[t] : snapshot[t][f] = field[Here(t)][f]
    /\ pc[t] = "copy" /\ "enabled" \notin unread[t] => unread[t] = {} /\ (second[t] = first[t] => Whole(t))
    /\ pc[t] = "run" => /\ \A f \in Fields : snapshot[t][f] = [probe_id |-> probe[t], epoch |-> first[t]]
                        /\ first[t] >= floor[t]

\* What a thread may still run is not older than when it hit the probe.
FloorInv(t) ==
    pc[t] # "idle" =>
        /\ floor[t] <= epoch + 1
        /\ Pending /\ subject = probe[t] => floor[t] <= epoch
        /\ \A s \in Live(probe[t]) : floor[t] <= enabled[s]

\* Owners of slots.
TableInv ==
    /\ \A p \in Probes : HasAction(p) => slot[p] \in Slots /\ p \in registered /\ action[p].epoch <= epoch
    /\ failures = 0 =>
        /\ \A p \in Probes : slot[p] \in Slots => \/ HasAction(p)
                                                  \/ p = subject /\ step \in {"disable", "data", "written"}
        /\ \A p, q \in Probes : p # q /\ slot[p] \in Slots => slot[p] # slot[q]
    /\ step = "written" \/ (op = "remove" /\ step # "idle") => ~HasAction(subject)

\* The buffer says of p what the table says.
Published(p) ==
    IF HasAction(p)
    THEN /\ Live(p) = {slot[p]}
         /\ enabled[slot[p]] = action[p].epoch
         /\ \A f \in Fields : field[slot[p]][f] = action[p]
    ELSE Live(p) = {}

\* Agreement in the course of an operation.
AgreeInv ==
    failures = 0 =>
        /\ \A p \in Probes : \/ p = subject /\ step \in {"disable", "data", "enable", "written"}
                             \/ Published(p)
        /\ step = "disable" => Live(subject) \subseteq {slot[subject]}
        /\ step \in {"data", "enable", "written"} => Live(subject) = {}
        /\ step \in {"idle", "unregister"} => call_action_count = ActionCount

\* The inductive invariant.
ActionInv ==
    /\ ActionTypeOK /\ OpInv /\ SlotInv /\ PendingInv /\ TableInv /\ AgreeInv
    /\ \A t \in Threads : LookupInv(t) /\ FloorInv(t)

-----------------------------------------------------------------------------
(* Types.                                                                  *)

\* A lookup stays within call_actions.
LEMMA HereType ==
    ASSUME ActionTypeOK, NEW t \in Threads
    PROVE  Here(t) \in Slots
  <1>1. probe[t] \in Nat /\ pos[t] \in Slots
    <2>1. probe[t] \in Probes \/ probe[t] = 0
      BY DEF ActionTypeOK
    <2>2. \A p \in Probes : p \in Nat
      BY ActionProbesAssumption
    <2> QED BY <2>1, <2>2 DEF ActionTypeOK
  <1>2. \A p \in Nat : p % Cap \in Slots
    BY CapAssumption DEF Slots
  <1>3. probe[t] % Cap \in Slots
    BY <1>1, <1>2
  <1> QED BY <1>1, <1>3, CapAssumption DEF Here, Looked, Slots

\* The number of actions fits the table.
LEMMA CountType ==
    ASSUME registered \subseteq Probes
    PROVE  ActionCount \in 0 .. Cap
  <1>1. {p \in registered : HasAction(p)} \subseteq Probes
    OBVIOUS
  <1> QED BY <1>1, FS_Subset, FS_CardinalityType, ActionProbesAssumption, CapAssumption DEF ActionCount

\* Every variable has its type in the beginning.
LEMMA ActionInitial == ActionInit => ActionInv
  <1> SUFFICES ASSUME ActionInit PROVE ActionInv
    OBVIOUS
  <1>1. NoAction \in Actions /\ \A p \in Probes : ~HasAction(p)
    BY DEF ActionInit, NoAction, Actions, HasAction
  <1>2. ActionTypeOK
    BY <1>1, CapAssumption DEF ActionInit, ActionTypeOK, Slots
  <1>3. OpInv /\ SlotInv /\ PendingInv /\ TableInv
    BY <1>1, SMT, Z3 DEF ActionInit, OpInv, SlotInv, PendingInv, Pending, TableInv, Slots
  <1>4. AgreeInv
    <2>1. \A p \in Probes : Live(p) = {}
      BY DEF ActionInit, Live
    <2>2. {p \in registered : HasAction(p)} = {}
      BY <1>1 DEF ActionInit
    <2>3. ActionCount = 0
      BY <2>2, FS_EmptySet DEF ActionCount
    <2> QED BY <1>1, <2>1, <2>3 DEF ActionInit, AgreeInv, Published
  <1>5. \A t \in Threads : LookupInv(t) /\ FloorInv(t)
    BY DEF ActionInit, LookupInv, FloorInv
  <1> QED BY <1>2, <1>3, <1>4, <1>5 DEF ActionInv

\* Steps of the tracer keep the types.
LEMMA TracerType ==
    ASSUME ActionTypeOK, OpInv, Tracer
    PROVE  ActionTypeOK'
  <1> USE DEF ActionTypeOK, memory, table, tracer, lookups
  <1>1. NoAction \in Actions /\ Probes \subseteq Nat \ {0}
    BY ActionProbesAssumption DEF NoAction, Actions
  <1>2. ASSUME NEW p \in Probes, Update(p) PROVE ActionTypeOK'
    <2>1. [probe_id |-> p, epoch |-> epoch + 1] \in Actions
      BY DEF Actions
    <2> QED BY <1>2, <2>1 DEF Update, Begin
  <1>3. ASSUME NEW p \in Probes, Clear(p) PROVE ActionTypeOK'
    BY <1>1, <1>3 DEF Clear, Begin
  <1>4. ASSUME NEW p \in Probes, Remove(p) PROVE ActionTypeOK'
    BY <1>1, <1>4 DEF Remove, Begin
  <1>5. CASE WriteDisable
    BY <1>5 DEF WriteDisable, Goto, OpInv
  <1>6. ASSUME NEW f \in Fields, WriteField(f) PROVE ActionTypeOK'
    <2>1. slot[subject] \in Slots /\ action[subject] \in Actions
      BY <1>6 DEF WriteField, OpInv
    <2>2. field' \in [Slots -> [Fields -> Actions]]
      BY <1>6, <2>1 DEF WriteField
    <2> QED BY <1>6, <2>2 DEF WriteField
  <1>7. CASE WriteEnable
    <2>1. slot[subject] \in Slots /\ action[subject].epoch \in Nat
      BY <1>7 DEF WriteEnable, OpInv, Actions
    <2> QED BY <1>7, <2>1 DEF WriteEnable, Goto
  <1>8. CASE FreeSlot
    BY <1>8, Zenon DEF FreeSlot, Goto
  <1>9. CASE WriteCount
    BY <1>9, CountType DEF WriteCount, Goto
  <1>10. CASE WriteFails
    BY <1>10 DEF WriteFails
  <1>11. CASE Unregister
    BY <1>11, Zenon DEF Unregister, Goto
  <1> QED BY <1>2, <1>3, <1>4, <1>5, <1>6, <1>7, <1>8, <1>9, <1>10, <1>11 DEF Tracer

\* Steps of a lookup keep the types.
LEMMA LookupType ==
    ASSUME ActionTypeOK, NEW t \in Threads, Lookup(t)
    PROVE  ActionTypeOK'
  <1> USE DEF ActionTypeOK, memory, table, tracer
  <1>1. [f \in Fields |-> NoAction] \in [Fields -> Actions]
    BY DEF NoAction, Actions
  <1>a. ASSUME Forget(t)
        PROVE  /\ first' \in [Threads -> Nat] /\ second' \in [Threads -> Nat]
               /\ snapshot' \in [Threads -> [Fields -> Actions]]
    BY <1>1, <1>a DEF Forget
  <1>2. Here(t) \in Slots
    BY HereType
  <1>3. ASSUME NextSlot(t) PROVE pos' \in [Threads -> Slots] /\ pc' \in [Threads -> {"idle", "count", "first", "copy", "run"}]
    BY <1>3, CapAssumption DEF NextSlot, Slots
  <1>4. ASSUME NEW p \in Probes, Hit(t, p) PROVE ActionTypeOK'
    <2>1. action[p].epoch \in Nat
      BY DEF Actions
    <2> QED BY <1>4, <2>1, CapAssumption, SMT, Z3 DEF Hit, Slots
  <1>5. CASE ReadCount(t)
    BY <1>5 DEF ReadCount
  <1>6. CASE ReadFirst(t)
    <2>1. CASE enabled[Here(t)] = 0
      BY <1>3, <1>6, <2>1 DEF ReadFirst
    <2>2. CASE enabled[Here(t)] # 0
      <3>1. /\ first' = [first EXCEPT ![t] = enabled[Here(t)]] /\ enabled[Here(t)] \in Nat
            /\ pc' = [pc EXCEPT ![t] = "copy"]
            /\ unread' = [unread EXCEPT ![t] = Fields \cup {"enabled"}]
            /\ UNCHANGED <<memory, table, tracer, pos, probe, snapshot, second, floor>>
        BY <1>2, <1>6, <2>2 DEF ReadFirst
      <3> QED BY <3>1
    <2> QED BY <2>1, <2>2
  <1>7. ASSUME NEW f \in Fields, ReadField(t, f) PROVE ActionTypeOK'
    <2>1. snapshot' \in [Threads -> [Fields -> Actions]]
      BY <1>2, <1>7 DEF ReadField
    <2> QED BY <1>7, <2>1 DEF ReadField
  <1>8. CASE ReadSecond(t)
    BY <1>2, <1>8 DEF ReadSecond
  <1>9. CASE Decide(t)
    <2>1. CASE Matches(t)
      BY <1>9, <2>1 DEF Decide
    <2>2. CASE ~Matches(t)
      <3>1. NextSlot(t) /\ Forget(t)
        BY <1>9, <2>2 DEF Decide
      <3> QED BY <1>a, <1>3, <1>9, <3>1 DEF Decide
    <2> QED BY <2>1, <2>2
  <1>10. CASE Run(t)
    BY <1>a, <1>10 DEF Run
  <1> QED BY <1>4, <1>5, <1>6, <1>7, <1>8, <1>9, <1>10 DEF Lookup

-----------------------------------------------------------------------------
(* Steps of a lookup.                                                      *)

\* They change nothing of the tracer's.
LEMMA BufferKept ==
    ASSUME OpInv, SlotInv, TableInv, AgreeInv, UNCHANGED <<memory, table, tracer>>
    PROVE  OpInv' /\ SlotInv' /\ TableInv' /\ AgreeInv' /\ Pending' = Pending
  <1> USE DEF memory, table, tracer
  <1>1. Pending' = Pending /\ \A p \in Probes : HasAction(p)' = HasAction(p) /\ Published(p)' = Published(p)
    BY DEF Pending, HasAction, Published, Live
  <1>2. ActionCount' = ActionCount
    BY DEF ActionCount, HasAction
  <1> QED BY <1>1, <1>2 DEF OpInv, SlotInv, TableInv, AgreeInv, HasAction, Pending, Live

\* A thread that does not move keeps its part.
LEMMA OtherThread ==
    ASSUME NEW u \in Threads, LookupInv(u), FloorInv(u), UNCHANGED <<memory, table, tracer>>,
           UNCHANGED <<pc[u], probe[u], pos[u], first[u], snapshot[u], second[u], unread[u], floor[u]>>
    PROVE  LookupInv(u)' /\ FloorInv(u)'
  BY DEF memory, table, tracer, LookupInv, FloorInv, Whole, Here, Pending, HasAction, Live

\* The thread that moves, when loads take effect in program order.
LEMMA ThisThread ==
    ASSUME OrderedLoads, ActionInv, NEW t \in Threads, Lookup(t)
    PROVE  LookupInv(t)' /\ FloorInv(t)' /\ (Pending => first'[t] < epoch)
  <1>0. /\ ActionTypeOK /\ LookupInv(t) /\ FloorInv(t) /\ SlotInv /\ (Pending => first[t] < epoch)
        /\ Here(t) \in Slots /\ epoch \in Nat
    BY HereType DEF ActionInv, PendingInv, ActionTypeOK
  <1>1. UNCHANGED <<memory, table, tracer>>
    BY DEF Lookup, Hit, ReadCount, ReadFirst, ReadField, ReadSecond, Decide, Run
  <1>2. /\ Pending' = Pending /\ \A p : Live(p)' = Live(p)
        /\ UNCHANGED <<epoch, enabled, field, subject>>
    BY <1>1 DEF memory, table, tracer, Pending, HasAction, Live
  <1>3. ASSUME NEW p \in Probes, Hit(t, p) PROVE LookupInv(t)' /\ FloorInv(t)' /\ (Pending => first'[t] < epoch)
    <2>1. /\ pc'[t] = "count" /\ probe'[t] = p /\ first' = first
          /\ floor'[t] = IF step # "idle" \/ failures > 0 THEN 0
                         ELSE IF HasAction(p) THEN action[p].epoch ELSE epoch + 1
      BY <1>0, <1>3 DEF Hit, ActionTypeOK
    <2>2. LookupInv(t)' /\ (Pending => first'[t] < epoch)
      BY <1>0, <1>2, <2>1 DEF LookupInv
    <2>3. CASE step # "idle" \/ failures > 0
      <3>1. floor'[t] = 0 /\ \A s \in Slots : enabled[s] \in Nat
        BY <1>0, <2>1, <2>3 DEF ActionTypeOK
      <3>2. \A s \in Live(p) : 0 <= enabled[s]
        BY <3>1 DEF Live
      <3> QED BY <1>0, <1>2, <2>1, <2>2, <3>1, <3>2, SMTT(20) DEF FloorInv
    <2>4. CASE step = "idle" /\ failures = 0
      <3>1. Published(p) /\ ~Pending
        BY <2>4, <1>0 DEF ActionInv, AgreeInv, Pending
      <3>2. CASE HasAction(p)
        <4>1. floor'[t] = action[p].epoch /\ action[p].epoch <= epoch /\ action[p].epoch \in Nat
          BY <1>0, <2>1, <2>4, <3>2 DEF ActionInv, TableInv, ActionTypeOK, Actions
        <4>2. \A s \in Live(p) : action[p].epoch <= enabled[s]
          BY <3>1, <4>1, SMT, Z3 DEF Published
        <4> QED BY <1>0, <1>2, <2>1, <2>2, <3>1, <4>1, <4>2 DEF FloorInv
      <3>3. CASE ~HasAction(p)
        <4>1. floor'[t] = epoch + 1 /\ Live(p) = {}
          BY <2>1, <2>4, <3>1, <3>3 DEF Published
        <4> QED BY <1>0, <1>2, <2>1, <2>2, <3>1, <4>1, SMTT(20) DEF FloorInv
      <3> QED BY <3>2, <3>3
    <2> QED BY <1>0, <2>3, <2>4 DEF ActionTypeOK
  <1>4. CASE ReadCount(t)
    <2>1. pc[t] # "idle" /\ pc'[t] \in {"idle", "first"} /\ UNCHANGED <<probe, first, floor>>
      BY <1>0, <1>4 DEF ReadCount, ActionTypeOK
    <2> QED BY <1>0, <1>2, <2>1 DEF LookupInv, FloorInv
  <1>5. CASE ReadFirst(t)
    <2>1. pc[t] # "idle" /\ UNCHANGED <<probe, floor, snapshot, second>>
      BY <1>5 DEF ReadFirst
    <2>2. FloorInv(t)'
      BY <1>0, <1>2, <2>1 DEF FloorInv
    <2>3. CASE enabled[Here(t)] = 0
      <3>1. pc'[t] \in {"idle", "first"} /\ first' = first
        BY <1>0, <1>5, <2>3 DEF ReadFirst, NextSlot, ActionTypeOK
      <3> QED BY <1>0, <1>2, <2>2, <3>1 DEF LookupInv
    <2>4. CASE enabled[Here(t)] # 0
      <3>1. /\ pc'[t] = "copy" /\ first'[t] = enabled[Here(t)] /\ unread'[t] = Fields \cup {"enabled"}
            /\ pos' = pos
        BY <1>0, <1>5, <2>4 DEF ReadFirst, ActionTypeOK
      <3>2. first'[t] <= epoch /\ first'[t] > 0 /\ (Pending => first'[t] < epoch)
        BY <1>0, <2>4, <3>1, SMT, Z3 DEF SlotInv, ActionTypeOK, ActionInv, PendingInv
      <3> QED BY <1>0, <1>2, <2>2, <3>1, <3>2 DEF LookupInv
    <2> QED BY <2>3, <2>4
  <1>6. ASSUME NEW f \in Fields, ReadField(t, f) PROVE LookupInv(t)' /\ FloorInv(t)' /\ (Pending => first'[t] < epoch)
    <2>1. /\ pc[t] = "copy" /\ f \in unread[t] /\ unread'[t] = unread[t] \ {f}
          /\ UNCHANGED <<pc, probe, pos, first, second, floor>>
          /\ snapshot'[t] = [snapshot[t] EXCEPT ![f] = field[Here(t)][f]]
      BY <1>0, <1>6 DEF ReadField, ActionTypeOK
    <2>2. FloorInv(t)'
      BY <1>0, <1>2, <2>1 DEF FloorInv
    <2>3. "enabled" \in unread[t] /\ "enabled" \notin Fields /\ Here(t)' = Here(t)
      BY <1>0, <2>1 DEF LookupInv, Fields, Here
    <2>4. \A g \in Fields \ unread'[t] : snapshot'[t][g] = IF g = f THEN field[Here(t)][f] ELSE snapshot[t][g]
      BY <1>0, <2>1 DEF ActionTypeOK
    <2> QED BY <1>0, <1>2, <2>1, <2>2, <2>3, <2>4, Zenon DEF LookupInv
  <1>7. CASE ReadSecond(t)
    <2>1. /\ pc[t] = "copy" /\ unread[t] = {"enabled"} /\ unread'[t] = {} /\ second'[t] = enabled[Here(t)]
          /\ UNCHANGED <<pc, probe, pos, first, snapshot, floor>>
      BY <1>0, <1>7 DEF ReadSecond, ActionTypeOK
    <2>2. FloorInv(t)'
      BY <1>0, <1>2, <2>1 DEF FloorInv
    <2>3. ASSUME second'[t] = first[t] PROVE Whole(t)
      <3>1. enabled[Here(t)] = first[t] /\ first[t] # 0
        BY <1>0, <2>1, <2>3, SMT, Z3 DEF LookupInv
      <3>2. \A f \in Fields : snapshot[t][f] = field[Here(t)][f]
        BY <1>0, <2>1, <3>1, Zenon DEF LookupInv, Fields
      <3>3. PICK p \in Probes : \A f \in Fields : field[Here(t)][f] = [probe_id |-> p, epoch |-> enabled[Here(t)]]
        BY <1>0, <3>1 DEF SlotInv
      <3>4. p = probe[t] => Here(t) \in Live(probe[t])
        BY <1>0, <3>1, <3>3 DEF Live, Fields
      <3>5. p = probe[t] => first[t] >= floor[t]
        BY <1>0, <2>1, <3>1, <3>4 DEF FloorInv, ActionTypeOK
      <3> QED BY <3>1, <3>2, <3>3, <3>5 DEF Whole
    <2>4. Whole(t)' = Whole(t)
      BY <2>1 DEF Whole
    <2> QED BY <1>0, <1>2, <2>1, <2>2, <2>3, <2>4 DEF LookupInv
  <1>8. CASE Decide(t)
    <2>1. pc[t] = "copy" /\ unread[t] = {} /\ UNCHANGED <<probe, floor>>
      BY <1>8 DEF Decide
    <2>2. FloorInv(t)'
      BY <1>0, <1>2, <2>1 DEF FloorInv
    <2>3. CASE Matches(t)
      <3>1. pc'[t] = "run" /\ UNCHANGED <<first, snapshot>>
        BY <1>0, <1>8, <2>3 DEF Decide, ActionTypeOK
      <3>2. PICK p \in Probes : /\ \A f \in Fields : snapshot[t][f] = [probe_id |-> p, epoch |-> first[t]]
                                /\ p = probe[t] => first[t] >= floor[t]
        BY <1>0, <2>1, <2>3 DEF LookupInv, Matches, Whole
      <3>3. p = probe[t]
        BY <2>3, <3>2 DEF Matches, Fields
      <3> QED BY <1>0, <1>2, <2>1, <2>2, <3>1, <3>2, <3>3 DEF LookupInv
    <2>4. CASE ~Matches(t)
      <3>1. pc'[t] \in {"idle", "first"} /\ first'[t] = 0
        BY <1>0, <1>8, <2>4 DEF Decide, NextSlot, Forget, ActionTypeOK
      <3>2. Pending => first'[t] < epoch
        BY <1>0, <3>1 DEF ActionInv, OpInv
      <3> QED BY <1>0, <1>2, <2>2, <3>1, <3>2 DEF LookupInv
    <2> QED BY <2>3, <2>4
  <1>9. CASE Run(t)
    <2>1. pc'[t] = "idle" /\ first'[t] = 0
      BY <1>0, <1>9 DEF Run, Forget, ActionTypeOK
    <2>2. Pending => first'[t] < epoch
      BY <1>0, <2>1, Zenon DEF ActionInv, OpInv
    <2> QED BY <1>0, <1>2, <2>1, <2>2, SMTT(20) DEF LookupInv, FloorInv
  <1> QED BY <1>3, <1>4, <1>5, <1>6, <1>7, <1>8, <1>9 DEF Lookup

-----------------------------------------------------------------------------
(* Steps of the tracer.                                                    *)

\* What they may do to a slot under the eyes of the lookups.
LEMMA LookupsKept ==
    ASSUME ActionInv, UNCHANGED lookups, epoch' \in Nat, epoch <= epoch',
           \A s \in Slots : \/ enabled'[s] = 0
                            \/ enabled'[s] = enabled[s] /\ (enabled[s] # 0 => field'[s] = field[s])
                            \/ /\ Pending /\ epoch' = epoch /\ enabled'[s] = epoch
                               /\ field'[s]["probe_id"].probe_id = subject,
           Pending' => epoch' = epoch + 1 \/ (Pending /\ subject' = subject /\ epoch' = epoch)
    PROVE  \A t \in Threads : LookupInv(t)' /\ FloorInv(t)'
  <1> SUFFICES ASSUME NEW t \in Threads PROVE LookupInv(t)' /\ FloorInv(t)'
    OBVIOUS
  <1>1. /\ LookupInv(t) /\ FloorInv(t) /\ (Pending => first[t] < epoch) /\ Here(t) \in Slots
        /\ first[t] \in Nat /\ floor[t] \in Nat /\ epoch \in Nat
    BY HereType DEF ActionInv, PendingInv, ActionTypeOK
  <1>2. UNCHANGED <<pc, probe, pos, first, snapshot, second, unread, floor>> /\ Here(t)' = Here(t) /\ Whole(t)' = Whole(t)
    BY DEF lookups, Here, Whole
  <1>3. LookupInv(t)'
    <2>1. first[t] > 0 /\ enabled'[Here(t)] = first[t] => enabled[Here(t)] = first[t] /\ field'[Here(t)] = field[Here(t)]
      BY <1>1, SMTT(20)
    <2> QED BY <1>1, <1>2, SMTT(20), Z3T(20) DEF LookupInv
  <1>4. FloorInv(t)'
    <2> SUFFICES ASSUME pc[t] # "idle"
                 PROVE  /\ floor[t] <= epoch' + 1
                        /\ Pending' /\ subject' = probe[t] => floor[t] <= epoch'
                        /\ \A s \in Live(probe[t])' : floor[t] <= enabled'[s]
      BY <1>2 DEF FloorInv, Live
    <2>1. floor[t] <= epoch' + 1 /\ (Pending' /\ subject' = probe[t] => floor[t] <= epoch')
      BY <1>1, SMTT(20), Z3T(20) DEF FloorInv
    <2>2. ASSUME NEW s \in Live(probe[t])' PROVE floor[t] <= enabled'[s]
      <3>1. s \in Slots /\ enabled'[s] # 0 /\ field'[s]["probe_id"].probe_id = probe[t]
        BY <1>2, <2>2 DEF Live
      <3>2. CASE enabled'[s] = enabled[s] /\ field'[s] = field[s]
        BY <1>1, <3>1, <3>2 DEF FloorInv, Live
      <3>3. CASE Pending /\ epoch' = epoch /\ enabled'[s] = epoch /\ field'[s]["probe_id"].probe_id = subject
        BY <1>1, <3>1, <3>3 DEF FloorInv
      <3> QED BY <3>1, <3>2, <3>3
    <2> QED BY <2>1, <2>2
  <1> QED BY <1>3, <1>4

\* What the buffer says of a probe depends on its entry in the table and on its slot.
LEMMA PublishedKept ==
    ASSUME NEW p, Published(p), UNCHANGED <<action[p], slot[p]>>, Live(p)' = Live(p),
           HasAction(p) => enabled'[slot[p]] = enabled[slot[p]] /\ field'[slot[p]] = field[slot[p]]
    PROVE  Published(p)'
  BY DEF Published, HasAction, Live

\* Published of a probe without action.
LEMMA NotPublished ==
    ASSUME NEW p, ~HasAction(p)', Live(p)' = {}
    PROVE  Published(p)'
  BY DEF Published, HasAction, Live

\* An operation begins.
LEMMA BeginStep ==
    ASSUME ActionInv, ActionTypeOK', NEW p \in Probes, Update(p) \/ Clear(p) \/ Remove(p)
    PROVE  ActionInv'
  <1>0. ActionTypeOK /\ OpInv /\ SlotInv /\ PendingInv /\ TableInv /\ AgreeInv
    BY DEF ActionInv
  <1>1. /\ step = "idle" /\ p \in registered /\ UNCHANGED <<memory, registered, failures, lookups>>
        /\ subject' = p /\ action' = [action EXCEPT ![p] = action'[p]] /\ todo' = Fields
        /\ epoch \in Nat /\ epoch' \in Nat
    BY <1>0 DEF Update, Clear, Remove, Begin, ActionTypeOK
  <1>2. \/ /\ epoch' = epoch + 1 /\ action'[p] = [probe_id |-> p, epoch |-> epoch'] /\ step' = "disable"
           /\ op' = "update"
           /\ \E s \in Slots : /\ slot' = [slot EXCEPT ![p] = s] /\ IsFreeFor(p, s)
                               /\ slot[p] \in Slots /\ IsFreeFor(p, slot[p]) => s = slot[p]
        \/ /\ epoch' = epoch /\ action'[p] = NoAction /\ slot' = slot
           /\ \/ op' = "clear" /\ step' = IF slot[p] = -1 THEN "count" ELSE "disable"
              \/ op' = "remove" /\ step' = IF HasAction(p) THEN "disable" ELSE "unregister"
    BY <1>0, <1>1 DEF Update, Clear, Remove, Begin, ActionTypeOK, AssignedSlot
  <1>3. /\ HasAction(p)' <=> epoch' = epoch + 1
        /\ \A q \in Probes \ {p} : action'[q] = action[q] /\ slot'[q] = slot[q] /\ (HasAction(q)' <=> HasAction(q))
        /\ slot'[p] \in Slots <=> (slot[p] \in Slots \/ epoch' = epoch + 1)
    BY <1>0, <1>1, <1>2, ActionProbesAssumption DEF ActionTypeOK, HasAction, NoAction
  <1>4. /\ UNCHANGED <<enabled, field, call_action_count>> /\ \A q : Live(q)' = Live(q)
    BY <1>1 DEF memory, Live
  <1>5. slot[p] = -1 \/ slot[p] \in Slots
    BY <1>0 DEF ActionTypeOK
  <1>6. OpInv'
    <2>1. CASE epoch' = epoch + 1
      <3>1. step' = "disable" /\ action'[p] = [probe_id |-> p, epoch |-> epoch'] /\ slot'[p] \in Slots
        BY <1>1, <1>2, <1>3, <2>1
      <3> QED BY <1>1, <2>1, <3>1 DEF OpInv, Pending
    <2>2. CASE epoch' = epoch
      <3>1. /\ ~HasAction(p)' /\ step' \in {"disable", "count", "unregister"} /\ (step' = "unregister" => op' = "remove")
            /\ step' = "disable" => slot'[p] \in Slots
        BY <1>0, <1>1, <1>2, <1>3, <1>5, <2>2 DEF TableInv
      <3> QED BY <1>1, <3>1 DEF OpInv, Pending
    <2> QED BY <1>2, <2>1, <2>2
  <1>7. SlotInv'
    <2> SUFFICES ASSUME NEW s \in Slots, enabled[s] # 0
                 PROVE  /\ enabled[s] <= epoch'
                        /\ \E q \in Probes : \A f \in Fields : field[s][f] = [probe_id |-> q, epoch |-> enabled[s]]
      BY <1>4, Zenon DEF SlotInv
    <2>1. enabled[s] \in Nat /\ enabled[s] <= epoch /\ epoch <= epoch'
      BY <1>0, <1>1, <1>2 DEF SlotInv, ActionTypeOK
    <2>2. \E q \in Probes : \A f \in Fields : field[s][f] = [probe_id |-> q, epoch |-> enabled[s]]
      BY <1>0 DEF SlotInv
    <2>3. enabled[s] <= epoch'
      BY <1>1, <2>1
    <2> QED BY <2>2, <2>3
  <1>8. PendingInv'
    <2>1. \A s \in Slots : enabled[s] \in Nat /\ enabled[s] <= epoch
      BY <1>0, SMT, Z3 DEF SlotInv, ActionTypeOK
    <2>2. \A t \in Threads : first[t] \in Nat /\ first[t] <= epoch /\ first'[t] = first[t]
      BY <1>0, <1>1, Zenon DEF ActionInv, LookupInv, ActionTypeOK, lookups
    <2>3. Pending' => epoch' = epoch + 1
      BY <1>1, <1>3, Zenon DEF Pending
    <2> QED BY <1>1, <1>4, <2>1, <2>2, <2>3 DEF PendingInv
  <1>9. TableInv'
    <2>1. ASSUME NEW q \in Probes, HasAction(q)' PROVE slot'[q] \in Slots /\ q \in registered' /\ action'[q].epoch <= epoch'
      <3>1. CASE q = p
        BY <1>1, <1>2, <1>3, <2>1, <3>1, SMTT(20), Z3T(20)
      <3>2. CASE q # p
        <4>1. HasAction(q) /\ action'[q] = action[q] /\ slot'[q] = slot[q] /\ action[q].epoch \in Nat
          BY <1>0, <1>3, <2>1, <3>2 DEF ActionTypeOK, Actions
        <4> QED BY <1>0, <1>1, <1>2, <4>1, SMTT(20) DEF TableInv
      <3> QED BY <3>1, <3>2
    <2>2. ASSUME failures = 0, NEW q \in Probes, slot'[q] \in Slots
          PROVE  HasAction(q)' \/ (q = p /\ step' = "disable")
      <3>1. slot[q] \in Slots => HasAction(q)
        BY <1>0, <1>1, <2>2 DEF TableInv
      <3>2. CASE q = p
        <4>1. slot'[p] = slot[p] => slot[p] # -1 /\ HasAction(p)
          BY <2>2, <3>1, <3>2 DEF Slots
        <4> QED BY <1>2, <1>3, <3>2, <4>1
      <3>3. CASE q # p
        BY <1>3, <2>2, <3>1, <3>3
      <3> QED BY <3>2, <3>3
    <2>3. ASSUME failures = 0, NEW q \in Probes, NEW r \in Probes, q # r, slot'[q] \in Slots PROVE slot'[q] # slot'[r]
      <3>1. /\ \A u \in Probes : slot[u] \in Slots => HasAction(u) /\ u \in registered
            /\ \A u, v \in Probes : u # v /\ slot[u] \in Slots => slot[u] # slot[v]
        BY <1>0, <1>1, <2>3 DEF TableInv
      <3>2. \A u \in Probes \ {p} : slot'[p] \in Slots => slot'[p] # slot[u]
        <4>1. CASE slot' = slot
          BY <3>1, <4>1
        <4>2. ASSUME NEW s \in Slots, slot' = [slot EXCEPT ![p] = s], IsFreeFor(p, s)
              PROVE  \A u \in Probes \ {p} : slot'[p] # slot[u]
          BY <1>0, <3>1, <4>2 DEF IsFreeFor, ActionTypeOK
        <4> QED BY <1>2, <4>1, <4>2
      <3>3. CASE q = p
        BY <1>3, <2>3, <3>2, <3>3
      <3>4. CASE r = p
        BY <1>3, <2>3, <3>2, <3>4
      <3>5. CASE q # p /\ r # p
        BY <1>3, <2>3, <3>1, <3>5
      <3> QED BY <3>3, <3>4, <3>5
    <2>4. step' # "written" /\ (op' = "remove" => ~HasAction(p)')
      BY <1>1, <1>2, <1>3, SMTT(20)
    <2> QED BY <1>1, <2>1, <2>2, <2>3, <2>4, Zenon DEF TableInv
  <1>10. AgreeInv'
    <2> SUFFICES ASSUME failures = 0
                 PROVE  /\ \A q \in Probes : (q = p /\ step' = "disable") \/ Published(q)'
                        /\ step' = "disable" => Live(p) \subseteq {slot'[p]}
                        /\ step' = "unregister" => call_action_count = ActionCount'
                        /\ step' \in {"disable", "count", "unregister"}
      BY <1>1, <1>4 DEF AgreeInv
    <2>1. /\ \A q \in Probes : Published(q) /\ (slot[q] \in Slots => HasAction(q))
          /\ \A u, v \in Probes : u # v /\ slot[u] \in Slots => slot[u] # slot[v]
          /\ call_action_count = ActionCount
      BY <1>0, <1>1 DEF AgreeInv, TableInv
    <2>2. ASSUME NEW q \in Probes \ {p} PROVE Published(q)'
      BY <1>3, <1>4, <2>1, PublishedKept
    <2>3. ~HasAction(p) => Live(p) = {}
      BY <2>1 DEF Published
    <2>4. step' # "disable" => ~HasAction(p) /\ ~HasAction(p)' /\ action' = action
      <3>1. HasAction(p) => slot[p] \in Slots /\ slot[p] # -1
        BY <1>0 DEF TableInv, Slots
      <3>2. step' # "disable" => ~HasAction(p) /\ action'[p] = NoAction
        BY <1>2, <3>1
      <3> QED BY <1>0, <1>1, <3>2 DEF HasAction, ActionTypeOK
    <2>5. step' # "disable" => Published(p)'
      BY <1>4, <2>3, <2>4, NotPublished
    <2>6. HasAction(p) => Live(p) \subseteq {slot'[p]}
      <3>1. HasAction(p) => Live(p) = {slot[p]} /\ slot[p] \in Slots
        BY <1>0, <2>1 DEF Published, TableInv
      <3>2. HasAction(p) => IsFreeFor(p, slot[p])
        BY <1>0, <2>1, <3>1 DEF IsFreeFor, ActionTypeOK
      <3>3. HasAction(p) => slot'[p] = slot[p]
        BY <1>0, <1>2, <3>1, <3>2 DEF ActionTypeOK
      <3> QED BY <3>1, <3>3
    <2>7. step' = "unregister" => call_action_count = ActionCount'
      BY <1>1, <2>1, <2>4 DEF ActionCount, HasAction
    <2>8. step' \in {"disable", "count", "unregister"}
      BY <1>2
    <2> QED BY <2>2, <2>3, <2>5, <2>6, <2>7, <2>8
  <1>11. \A t \in Threads : LookupInv(t)' /\ FloorInv(t)'
    <2>1. Pending' => epoch' = epoch + 1
      BY <1>1, <1>3 DEF Pending
    <2> QED BY <1>0, <1>1, <1>2, <1>4, <2>1, LookupsKept DEF ActionTypeOK
  <1> QED BY <1>6, <1>7, <1>8, <1>9, <1>10, <1>11 DEF ActionInv

\* A step that only moves on in the operation, without touching a slot.
LEMMA MoveOn ==
    ASSUME ActionInv, ActionTypeOK',
           UNCHANGED <<enabled, field, action, epoch, op, subject, todo, lookups>>,
           step' \in {"idle", "count", "unregister"}, OpInv', TableInv', AgreeInv'
    PROVE  ActionInv'
  <1>1. SlotInv' /\ PendingInv' /\ ~Pending'
    BY DEF ActionInv, SlotInv, PendingInv, Pending
  <1>2. \A t \in Threads : LookupInv(t)' /\ FloorInv(t)'
    BY <1>1, LookupsKept DEF ActionInv, ActionTypeOK
  <1> QED BY <1>1, <1>2 DEF ActionInv

\* The writes that touch no slot, and those that fail.
LEMMA OtherWrites ==
    ASSUME ActionInv, ActionTypeOK', FreeSlot \/ WriteCount \/ WriteFails \/ Unregister
    PROVE  ActionInv'
  <1>0. ActionTypeOK /\ OpInv /\ TableInv /\ AgreeInv
    BY DEF ActionInv
  <1>1. /\ step # "idle" /\ subject \in Probes
        /\ UNCHANGED <<enabled, field, action, epoch, op, subject, todo, lookups>>
    BY <1>0, Zenon DEF FreeSlot, WriteCount, WriteFails, Unregister, Goto, memory, table, OpInv
  <1>2. /\ \A q : Live(q)' = Live(q) /\ (HasAction(q)' <=> HasAction(q))
    BY <1>1 DEF Live, HasAction
  <1>3. CASE FreeSlot \/ Unregister
    <2>1. /\ slot' = [slot EXCEPT ![subject] = -1] /\ failures' = failures /\ call_action_count' = call_action_count
          /\ step \in {"written", "unregister"} /\ step' = IF step = "written" THEN "count" ELSE "idle"
          /\ registered' = IF step = "written" THEN registered ELSE registered \ {subject}
      BY <1>3 DEF FreeSlot, Unregister, Goto, memory
    <2>2. ~HasAction(subject) /\ (step = "unregister" => op = "remove")
      BY <1>0, <2>1 DEF TableInv, OpInv
    <2>3. /\ \A q \in Probes : slot'[q] = IF q = subject THEN -1 ELSE slot[q]
          /\ -1 \notin Slots
      BY <2>1, SMT, Z3 DEF ActionTypeOK, Slots
    <2>4. OpInv'
      BY <1>1, <1>2, <2>1 DEF OpInv, Pending
    <2>5. TableInv'
      BY <1>0, <1>1, <1>2, <2>1, <2>2, <2>3 DEF TableInv
    <2>6. AgreeInv'
      <3> SUFFICES ASSUME failures = 0
                   PROVE  /\ \A q \in Probes : Published(q)'
                          /\ step' = "idle" => call_action_count = ActionCount'
        BY <1>1, <2>1 DEF AgreeInv
      <3>1. ASSUME NEW q \in Probes PROVE Published(q)'
        <4>1. CASE q = subject
          <5>1. Live(q) = {}
            BY <1>0, <1>1, <2>1, <2>2, <4>1 DEF AgreeInv, Published
          <5> QED BY <1>2, <2>2, <4>1, <5>1, NotPublished
        <4>2. CASE q # subject
          BY <1>0, <1>1, <1>2, <2>3, <4>2, PublishedKept DEF AgreeInv
        <4> QED BY <4>1, <4>2
      <3>2. step' = "idle" => call_action_count = ActionCount'
        <4>1. {q \in registered' : HasAction(q)'} = {q \in registered : HasAction(q)}
          BY <1>2, <2>1, <2>2
        <4>2. step' = "idle" => call_action_count = ActionCount
          BY <1>0, <2>1 DEF AgreeInv
        <4> QED BY <4>1, <4>2 DEF ActionCount
      <3> QED BY <3>1, <3>2
    <2> QED BY <1>1, <2>1, <2>4, <2>5, <2>6, MoveOn
  <1>4. CASE WriteCount \/ WriteFails
    <2>1. /\ step' = IF op = "remove" THEN "unregister" ELSE "idle"
          /\ UNCHANGED <<registered, slot>> /\ (WriteFails => failures' # 0)
          /\ (WriteCount => step = "count" /\ call_action_count' = ActionCount /\ failures' = failures)
          /\ step \in {"disable", "data", "enable", "count"} /\ (failures' = 0 => failures = 0 /\ step = "count")
      BY <1>0, <1>4, SMTT(20), Z3T(20) DEF WriteCount, WriteFails, Goto, table, ActionTypeOK
    <2>2. OpInv'
      BY <1>1, <1>2, <2>1, Zenon DEF OpInv, Pending
    <2>3. TableInv'
      BY <1>0, <1>1, <1>2, <2>1 DEF TableInv
    <2>4. AgreeInv'
      <3> SUFFICES ASSUME failures' = 0 PROVE (\A q \in Probes : Published(q)') /\ call_action_count' = ActionCount'
        BY <2>1 DEF AgreeInv
      <3>1. WriteCount /\ failures = 0 /\ step = "count"
        BY <1>4, <2>1
      <3>2. ASSUME NEW q \in Probes PROVE Published(q)'
        BY <1>0, <1>1, <1>2, <2>1, <3>1, PublishedKept, Zenon DEF AgreeInv
      <3>3. ActionCount' = ActionCount
        BY <1>2, <2>1 DEF ActionCount
      <3> QED BY <2>1, <3>1, <3>2, <3>3
    <2> QED BY <1>1, <2>1, <2>2, <2>3, <2>4, MoveOn
  <1> QED BY <1>3, <1>4

\* zt_trace_write_call_action: the writes to the slot of the probe.
LEMMA SlotWrites ==
    ASSUME ActionInv, ActionTypeOK', WriteDisable \/ (\E f \in Fields : WriteField(f)) \/ WriteEnable
    PROVE  ActionInv'
  <1> DEFINE k == slot[subject]
  <1>0. ActionTypeOK /\ OpInv /\ SlotInv /\ PendingInv /\ TableInv /\ AgreeInv
    BY DEF ActionInv
  <1>1. /\ step \in {"disable", "data", "enable"} /\ subject \in Probes /\ k \in Slots
        /\ UNCHANGED <<call_action_count, registered, slot, action, epoch, op, subject, failures, lookups>>
    BY <1>0, Zenon DEF WriteDisable, WriteField, WriteEnable, Goto, table, OpInv
  <1>2. \A q : HasAction(q)' <=> HasAction(q)
    BY <1>1 DEF HasAction
  <1>3. \A s \in Slots \ {k} : enabled'[s] = enabled[s] /\ field'[s] = field[s]
    BY <1>0, Zenon DEF WriteDisable, WriteField, WriteEnable, ActionTypeOK
  <1>4. \/ /\ step = "disable" /\ step' = "data" /\ enabled'[k] = 0 /\ field' = field /\ todo' = todo
        \/ /\ step = "data" /\ enabled' = enabled /\ enabled[k] = 0
           /\ \E f \in todo : /\ todo' = todo \ {f}
                              /\ \A g \in Fields : field'[k][g] = IF g = f THEN action[subject] ELSE field[k][g]
                              /\ step' = IF todo # {f} THEN "data" ELSE IF HasAction(subject) THEN "enable" ELSE "written"
        \/ /\ step = "enable" /\ step' = "count" /\ enabled'[k] = epoch /\ enabled[k] = 0 /\ field' = field /\ todo' = todo
           /\ todo = {} /\ Pending /\ action[subject] = [probe_id |-> subject, epoch |-> epoch]
           /\ \A g \in Fields : field[k][g] = action[subject]
    <2>1. CASE WriteDisable
      BY <1>0, <1>1, <2>1 DEF WriteDisable, Goto, ActionTypeOK
    <2>2. ASSUME NEW f \in Fields, WriteField(f)
          PROVE  /\ step = "data" /\ enabled' = enabled /\ enabled[k] = 0 /\ f \in todo /\ todo' = todo \ {f}
                 /\ \A g \in Fields : field'[k][g] = IF g = f THEN action[subject] ELSE field[k][g]
                 /\ step' = IF todo # {f} THEN "data" ELSE IF HasAction(subject) THEN "enable" ELSE "written"
      BY <1>0, <1>1, <2>2 DEF WriteField, OpInv, ActionTypeOK
    <2>3. CASE WriteEnable
      <3>1. step = "enable" /\ HasAction(subject) /\ Pending
        BY <1>0, <2>3, Zenon DEF WriteEnable, OpInv, Pending
      <3>2. action[subject] = [probe_id |-> subject, epoch |-> epoch] /\ todo = {} /\ enabled[k] = 0
        BY <1>0, <3>1, Zenon DEF OpInv
      <3> QED BY <1>0, <2>3, <3>1, SMTT(20), Z3T(20) DEF WriteEnable, Goto, OpInv, ActionTypeOK
    <2> QED BY <2>1, <2>2, <2>3, Zenon
  <1>5. Pending' => Pending
    BY <1>1, <1>2 DEF Pending
  <1>6. OpInv'
    <2>1. step' \in {"data", "enable"} => \A g \in Fields \ todo' : field'[k][g] = action[subject]
      BY <1>0, <1>1, <1>4 DEF OpInv
    <2>2. Pending' => action[subject] = [probe_id |-> subject, epoch |-> epoch] /\ epoch > 0
      BY <1>0, <1>5, Zenon DEF OpInv
    <2>3. /\ step' \in {"data", "enable", "written"} => enabled'[k] = 0
          /\ step' = "enable" => todo' = {} /\ HasAction(subject)
          /\ step' \in {"data", "enable", "written", "count"}
      BY <1>4
    <2> QED BY <1>1, <1>2, <2>1, <2>2, <2>3 DEF OpInv
  <1>7. SlotInv'
    <2> SUFFICES ASSUME NEW s \in Slots, enabled'[s] # 0
                 PROVE  /\ enabled'[s] <= epoch
                        /\ \E p \in Probes : \A f \in Fields : field'[s][f] = [probe_id |-> p, epoch |-> enabled'[s]]
      BY <1>1 DEF SlotInv
    <2>1. CASE s # k
      BY <1>0, <1>3, <2>1, Zenon DEF SlotInv
    <2>2. CASE s = k
      BY <1>0, <1>1, <1>4, <2>2 DEF ActionTypeOK
    <2> QED BY <2>1, <2>2
  <1>8. PendingInv'
    <2> SUFFICES ASSUME Pending' PROVE \A s \in Slots : enabled'[s] < epoch
      BY <1>0, <1>1, <1>5 DEF PendingInv, lookups
    <2>1. step' # "count"
      BY DEF Pending
    <2>2. enabled'[k] = 0 /\ epoch > 0
      BY <1>0, <1>4, <1>5, <2>1, Zenon DEF OpInv
    <2> QED BY <1>0, <1>3, <1>5, <2>2 DEF PendingInv
  <1>9. TableInv'
    BY <1>0, <1>1, <1>2, <1>4, Zenon DEF TableInv
  <1>10. AgreeInv'
    <2> SUFFICES ASSUME failures = 0 PROVE AgreeInv'
      BY <1>1 DEF AgreeInv
    <2>1. \A q \in Probes \ {subject} : Published(q) /\ (HasAction(q) => slot[q] \in Slots \ {k})
      BY <1>0, <1>1 DEF AgreeInv, TableInv
    <2>2. ASSUME NEW q \in Probes \ {subject} PROVE Published(q)'
      <3>1. k \notin Live(q)
        BY <2>1 DEF Published
      <3>2. k \notin Live(q)'
        <4>1. CASE enabled'[k] = 0
          BY <4>1 DEF Live
        <4>2. CASE enabled'[k] # 0
          <5>1. field' = field /\ action[subject] = [probe_id |-> subject, epoch |-> epoch] /\ \A g \in Fields : field[k][g] = action[subject]
            BY <1>4, <4>2
          <5>2. field'[k]["probe_id"].probe_id = subject
            BY <5>1, SMT, Z3 DEF Fields
          <5> QED BY <5>2 DEF Live
        <4> QED BY <4>1, <4>2
      <3>3. Live(q)' = Live(q)
        BY <1>1, <1>3, <3>1, <3>2 DEF Live
      <3> QED BY <1>1, <1>3, <2>1, <3>3, PublishedKept
    <2>3. Live(subject) \subseteq {k}
      BY <1>0, <1>1 DEF AgreeInv
    <2>4. \A s \in Live(subject)' : s \in Slots /\ enabled'[s] # 0 /\ (s # k => s \in Live(subject))
      BY <1>1, <1>3 DEF Live
    <2>5. CASE step' # "count"
      <3>1. enabled'[k] = 0 /\ step' \in {"data", "enable", "written"}
        BY <1>4, <2>5
      <3>2. Live(subject)' = {}
        BY <2>3, <2>4, <3>1
      <3> QED BY <1>1, <2>2, <3>1, <3>2 DEF AgreeInv
    <2>6. CASE step' = "count"
      <3>1. /\ step = "enable" /\ enabled'[k] = epoch /\ field' = field /\ Pending
            /\ action[subject] = [probe_id |-> subject, epoch |-> epoch]
            /\ \A g \in Fields : field[k][g] = action[subject]
        BY <1>4, <2>6
      <3>2. HasAction(subject) /\ epoch > 0
        BY <1>0, <3>1, Zenon DEF Pending, OpInv
      <3>3. k \in Live(subject)'
        BY <1>1, <3>1, <3>2 DEF Live, Fields
      <3>4. Live(subject)' = {k}
        BY <2>3, <2>4, <3>3
      <3>5. Published(subject)'
        <4>1. HasAction(subject)' /\ subject' = subject /\ slot'[subject] = k /\ action'[subject].epoch = epoch
          BY <1>1, <1>2, <3>1, <3>2, SMT, Z3
        <4>2. enabled'[k] = epoch /\ \A g \in Fields : field'[k][g] = action'[subject]
          BY <1>1, <3>1
        <4>3. /\ Live(subject)' = {slot'[subject]} /\ enabled'[slot'[subject]] = action'[subject].epoch
              /\ \A g \in Fields : field'[slot'[subject]][g] = action'[subject]
          BY <3>4, <4>1, <4>2
        <4> QED BY <4>1, <4>3, Zenon DEF Published
      <3> QED BY <1>1, <2>2, <2>6, <3>5 DEF AgreeInv
    <2> QED BY <2>5, <2>6
  <1>11. \A t \in Threads : LookupInv(t)' /\ FloorInv(t)'
    <2>1. ASSUME NEW s \in Slots
          PROVE  \/ enabled'[s] = 0
                 \/ enabled'[s] = enabled[s] /\ (enabled[s] # 0 => field'[s] = field[s])
                 \/ Pending /\ enabled'[s] = epoch /\ field'[s]["probe_id"].probe_id = subject
      <3>1. CASE s # k
        BY <1>3, <3>1
      <3>2. CASE s = k
        BY <1>4, <3>2, SMTT(20) DEF Fields
      <3> QED BY <3>1, <3>2, Zenon
    <2> QED BY <1>1, <1>5, <2>1, LookupsKept, SMTT(20), Z3T(20) DEF ActionTypeOK
  <1> QED BY <1>6, <1>7, <1>8, <1>9, <1>10, <1>11 DEF ActionInv

\* Every step keeps the invariant, where loads take effect in program order.
LEMMA ActionStep ==
    ASSUME OrderedLoads, ActionInv, [ActionNext]_actionVars
    PROVE  ActionInv'
  <1>0. ActionTypeOK /\ OpInv /\ SlotInv /\ PendingInv /\ TableInv /\ AgreeInv
    BY DEF ActionInv
  <1>1. CASE Tracer
    <2>1. ActionTypeOK'
      BY <1>0, <1>1, TracerType
    <2> QED BY <1>1, <2>1, BeginStep, OtherWrites, SlotWrites DEF Tracer
  <1>2. ASSUME NEW t \in Threads, Lookup(t) PROVE ActionInv'
    <2>1. ActionTypeOK'
      BY <1>0, <1>2, LookupType
    <2>2. UNCHANGED <<memory, table, tracer>>
      BY <1>2 DEF Lookup, Hit, ReadCount, ReadFirst, ReadField, ReadSecond, Decide, Run
    <2>3. OpInv' /\ SlotInv' /\ TableInv' /\ AgreeInv' /\ Pending' = Pending
      BY <1>0, <2>2, BufferKept
    <2>4. LookupInv(t)' /\ FloorInv(t)' /\ (Pending => first'[t] < epoch)
      BY <1>2, ThisThread
    <2>5. ASSUME NEW u \in Threads, u # t
          PROVE  UNCHANGED <<pc[u], probe[u], pos[u], first[u], snapshot[u], second[u], unread[u], floor[u]>>
      BY <1>0, <1>2, <2>5 DEF Lookup, Hit, ReadCount, ReadFirst, NextSlot, ReadField, ReadSecond, Decide, Forget, Run, ActionTypeOK
    <2>6. ASSUME NEW u \in Threads, u # t PROVE LookupInv(u)' /\ FloorInv(u)'
      BY <2>2, <2>5, <2>6, OtherThread, Zenon DEF ActionInv
    <2>7. PendingInv'
      BY <1>0, <2>2, <2>3, <2>4, <2>5, Zenon DEF PendingInv, memory, table
    <2> QED BY <2>1, <2>3, <2>4, <2>6, <2>7 DEF ActionInv
  <1>3. CASE UNCHANGED actionVars
    <2>1. UNCHANGED <<memory, table, tracer, lookups>>
      BY <1>3 DEF actionVars
    <2>2. ActionTypeOK'
      BY <1>0, <2>1 DEF ActionTypeOK, memory, table, tracer, lookups
    <2>3. OpInv' /\ SlotInv' /\ TableInv' /\ AgreeInv' /\ Pending' = Pending
      BY <1>0, <2>1, BufferKept
    <2>4. \A u \in Threads : LookupInv(u)' /\ FloorInv(u)'
      BY <2>1, OtherThread, Zenon DEF ActionInv, lookups
    <2>5. PendingInv'
      BY <1>0, <2>1, <2>3 DEF PendingInv, memory, table, lookups
    <2> QED BY <2>2, <2>3, <2>4, <2>5 DEF ActionInv
  <1> QED BY <1>1, <1>2, <1>3 DEF ActionNext
-----------------------------------------------------------------------------
(* Theorems.                                                               *)

\* The invariant is inductive.
LEMMA ActionInvariant == ASSUME OrderedLoads PROVE ActionSpec => []ActionInv
  <1>1. ActionInv /\ [ActionNext]_actionVars => ActionInv'
    BY ActionStep
  <1> QED BY <1>1, ActionInitial, PTL DEF ActionSpec

\* For any number of threads, probes and failed writes, where loads take effect in
\* program order: what zt_copy_call_action_if_match passes is one whole action of the
\* probe that was hit, however the tracer rewrites the slot meanwhile.
THEOREM LookupsWhole == ASSUME OrderedLoads PROVE ActionSpec => [](ActionTypeOK /\ WholeAction)
  <1>1. ActionInv => ActionTypeOK /\ WholeAction
    BY DEF ActionInv, LookupInv, WholeAction
  <1> QED BY <1>1, ActionInvariant, PTL

\* Under the same assumption: an action that zt_trace_write_call_action replaced or
\* cleared before a hit began is not run by that hit, as long as no write failed.
THEOREM LookupsFresh == ASSUME OrderedLoads PROVE ActionSpec => []Fresh
  <1>1. ActionInv => Fresh
    BY Zenon DEF ActionInv, LookupInv, Fresh
  <1> QED BY <1>1, ActionInvariant, PTL

\* As long as no write has failed, the shared buffer says between two operations of the
\* tracer what its probe table says.
THEOREM AgreementHolds == ASSUME OrderedLoads PROVE ActionSpec => []Agreement
  <1>1. ActionInv => Agreement
    BY DEF ActionInv, AgreeInv, Published, Agreement
  <1> QED BY <1>1, ActionInvariant, PTL

\* As long as no write has failed, zt_trace_write_call_action touches only slots that
\* no other probe's action is in.
THEOREM OthersUntouchedHolds == ASSUME OrderedLoads PROVE ActionSpec => OthersUntouched
  <1> DEFINE A == failures = 0 =>
                    \A p \in Probes : HasAction(p) /\ subject # p =>
                        enabled'[slot[p]] = enabled[slot[p]] /\ field'[slot[p]] = field[slot[p]]
  <1>1. ASSUME ActionInv, ActionNext PROVE A
    <2> SUFFICES ASSUME failures = 0, NEW p \in Probes, HasAction(p), subject # p
                 PROVE  enabled'[slot[p]] = enabled[slot[p]] /\ field'[slot[p]] = field[slot[p]]
      OBVIOUS
    <2>0. ActionTypeOK /\ OpInv /\ TableInv
      BY <1>1 DEF ActionInv
    <2>1. slot[p] \in Slots /\ (step # "idle" => slot[p] # slot[subject])
      BY <2>0, Zenon DEF TableInv, OpInv
    <2>2. CASE UNCHANGED <<enabled, field>>
      BY <2>2, Zenon
    <2>3. CASE WriteDisable \/ (\E f \in Fields : WriteField(f)) \/ WriteEnable
      <3>1. step # "idle" /\ slot[subject] \in Slots
        BY <2>0, <2>3, Zenon DEF WriteDisable, WriteField, WriteEnable, OpInv
      <3> QED BY <2>0, <2>1, <2>3, <3>1, Zenon DEF WriteDisable, WriteField, WriteEnable, ActionTypeOK
    <2> QED BY <1>1, <2>2, <2>3, Zenon DEF ActionNext, Tracer, Update, Clear, Remove, FreeSlot, WriteCount, WriteFails, Unregister,
                 Lookup, Hit, ReadCount, ReadFirst, ReadField, ReadSecond, Decide, Run, memory
  <1>2. ActionInv /\ [ActionNext]_actionVars => [A]_actionVars
    BY <1>1
  <1> QED BY <1>2, ActionInvariant, PTL DEF ActionSpec, OthersUntouched
=============================================================================
