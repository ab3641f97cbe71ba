------------------------ MODULE ProbePatchingProofs ------------------------
(***************************************************************************)
(* The probe table, the trampoline pool and the patched bytes agree, and a *)
(* thread runs into changed bytes only in the named cases: for any number  *)
(* of functions, threads, slots, places for a pool, failures and detaches. *)
(*                                                                         *)
(* The probe table is true only because of what holds of the pool behind   *)
(* it: registered probes own different slots of the one pool, and nothing  *)
(* is unmapped or allocated while an owner is left.  For the threads, a    *)
(* trampoline stays what it was as long as its slot is not given up, also  *)
(* when detach has forgotten the probe it belonged to.                     *)
(***************************************************************************)
EXTENDS ProbePatching, FiniteSetTheorems, FunctionTheorems, TLAPS

\* The types: the probe table, memory and pool, the session and its failures, the threads.
TableType ==
    /\ state \in [Functions -> {"EMPTY", "INSTALLED", "DISABLED"}]
    /\ orig_code \in [Functions -> Code]
    /\ trampoline_slot \in [Functions -> Slots \cup {None}]
    /\ trampoline_addr \in [Functions -> Addrs \cup {None}]

MemoryType ==
    /\ pool_addr \in Pools \cup {None} /\ slot_used \subseteq Slots
    /\ code \in [Functions -> Code]
    /\ mapped \subseteq Pools /\ trampoline \in [Addrs -> [fn : Functions \cup {Nowhere}, code : Code]]

ControlType ==
    /\ attached \in BOOLEAN /\ runtime \in {"INACTIVE", "RUNNING", "STOPPED"} /\ stopped \in BOOLEAN
    /\ failures \in 0 .. MaxFailures /\ detaches \in 0 .. MaxDetaches
    /\ harmed \subseteq Functions /\ leaked \in BOOLEAN

PlaceType ==
    /\ at \in [Threads -> Places] /\ pending \in [Threads -> Places]
    /\ endangered \subseteq Threads /\ derailed \subseteq Threads

\* g_active_trace: without a runtime there is no pool, without a pool no slot, and
\* without a session no probe.
PoolInv ==
    /\ pool_addr = None => slot_used = {}
    /\ pool_addr # None => pool_addr \in mapped
    /\ runtime = "INACTIVE" => pool_addr = None
    /\ ~attached => Registered = {}

\* A registered probe owns a slot of the pool, also one that is disabled or harmed.
Owns(f) ==
    /\ trampoline_slot[f] \in slot_used
    /\ trampoline_addr[f] = SlotAddr(pool_addr, trampoline_slot[f])
    /\ trampoline[trampoline_addr[f]].fn = f

\* No two probes own one slot, and each trampoline holds its own probe's code.
OwnerInv ==
    /\ \A f \in Functions : IF state[f] = "EMPTY" THEN trampoline_slot[f] = None /\ trampoline_addr[f] = None ELSE Owns(f)
    /\ \A f, g \in Functions : state[f] # "EMPTY" /\ state[g] # "EMPTY" /\ trampoline_slot[f] = trampoline_slot[g] => f = g

\* What the table says of a function is what its first bytes are.
CodeInv ==
    \A f \in Functions \ harmed :
        IF state[f] = "INSTALLED"
        THEN code[f] = trampoline_addr[f] /\ trampoline[code[f]] = [fn |-> f, code |-> Orig] /\ orig_code[f] = Orig
        ELSE code[f] = Orig

\* Unless something leaked, the one mapping is the pool, and its used slots have owners.
LeakInv ==
    ~leaked => /\ \A k \in slot_used : \E f \in Functions : state[f] # "EMPTY" /\ trampoline_slot[f] = k
               /\ mapped \subseteq {pool_addr}
               /\ pool_addr # None => slot_used # {}

\* The part of the invariant that does not mention threads.
TableInv == TableType /\ MemoryType /\ ControlType /\ PoolInv /\ OwnerInv /\ CodeInv /\ LeakInv

\* Address a is in a mapped pool, in a slot that no installation can get.
Kept(a, maps, pl, used) ==
    \E p \in maps, k \in Slots : a = SlotAddr(p, k) /\ (p = pl => k \in used)

\* Executing at p goes right, now and later, as long as nobody endangers it.
Safe(p, cd, tr, maps, pl, used, hm) ==
    \/ p.where \in {"out", "start", "body"}
    \/ p.fn \in hm
    \/ p.where = "mid" /\ cd[p.fn] = Orig
    \/ p.where = "trampoline" /\ tr[p.addr] = [fn |-> p.fn, code |-> Orig] /\ Kept(p.addr, maps, pl, used)

\* A place that is safe as things are.
SafeNow(p) == Safe(p, code, trampoline, mapped, pool_addr, slot_used, harmed)

\* Threads no step endangered are at safe places, and those that derail are explained.
ThreadInv ==
    /\ PlaceType
    /\ \A t \in Threads \ endangered : SafeNow(at[t]) /\ SafeNow(pending[t])
    /\ DerailExplained

\* The inductive invariant.
PatchInv == TableInv /\ ThreadInv
-----------------------------------------------------------------------------
(* Addresses.                                                              *)

\* A pool lies before every later one.
LEMMA PoolsApart ==
    ASSUME NEW p \in Int, NEW q \in Int, NEW n \in Nat, p < q
    PROVE  p * n + n <= q * n
<1>1. q - p - 1 \in Nat
  OBVIOUS
<1>2. (q - p - 1) * n \in Nat
  BY <1>1
<1>3. (q - p - 1) * n = q * n - p * n - n
  OBVIOUS
<1>4. q * n \in Int /\ p * n \in Int
  OBVIOUS
<1> QED
  BY <1>2, <1>3, <1>4

\* The address of a slot is an address.
LEMMA SlotAddrType ==
    ASSUME NEW p \in Pools, NEW k \in Slots
    PROVE  SlotAddr(p, k) \in Addrs
<1>1. NSlots \in Nat /\ NPools \in Nat /\ p \in Nat /\ p < NPools /\ k \in Nat /\ k < NSlots
  BY PoolAssumption DEF Pools, Slots
<1>2. p * NSlots + NSlots <= NPools * NSlots
  BY <1>1, PoolsApart
<1>3. p * NSlots \in Nat /\ NPools * NSlots \in Nat
  BY <1>1
<1> QED
  BY <1>1, <1>2, <1>3 DEF SlotAddr, Addrs

\* No two slots have the same address.
LEMMA SlotAddrInjective ==
    ASSUME NEW p \in Pools, NEW k \in Slots, NEW q \in Pools, NEW j \in Slots, SlotAddr(p, k) = SlotAddr(q, j)
    PROVE  p = q /\ k = j
<1>1. NSlots \in Nat /\ p \in Nat /\ q \in Nat /\ k \in Nat /\ k < NSlots /\ j \in Nat /\ j < NSlots
  BY PoolAssumption DEF Pools, Slots
<1>2. p * NSlots \in Nat /\ q * NSlots \in Nat
  BY <1>1
<1>3. p * NSlots + k = q * NSlots + j
  BY DEF SlotAddr
<1>4. ~(p < q)
  <2> SUFFICES ASSUME p < q PROVE FALSE
    OBVIOUS
  <2>1. p * NSlots + NSlots <= q * NSlots
    BY <1>1, PoolsApart
  <2> QED
    BY <1>1, <1>2, <1>3, <2>1
<1>5. ~(q < p)
  <2> SUFFICES ASSUME q < p PROVE FALSE
    OBVIOUS
  <2>1. q * NSlots + NSlots <= p * NSlots
    BY <1>1, PoolsApart
  <2> QED
    BY <1>1, <1>2, <1>3, <2>1
<1>6. p = q
  BY <1>1, <1>4, <1>5
<1> QED
  BY <1>1, <1>2, <1>3, <1>6

\* The values that stand for nothing are no addresses, slots or pools.
LEMMA Distinct ==
    /\ Orig \notin Addrs /\ Torn \notin Addrs /\ None \notin Addrs /\ None \notin Slots /\ None \notin Pools /\ Orig # Torn
    /\ Addrs \subseteq Code /\ Orig \in Code /\ Torn \in Code
BY SMT, Z3 DEF Orig, Torn, None, Addrs, Slots, Pools, Code
-----------------------------------------------------------------------------
(* Commands that leave table and memory alone, and counters.               *)

\* What changes neither table nor memory keeps the table's part.
LEMMA TableSame ==
    ASSUME TableInv, UNCHANGED <<probes, pool, memory, harmed, leaked>>, ControlType',
           runtime' = "INACTIVE" => pool_addr = None,
           ~attached' => Registered = {}
    PROVE  TableInv'
<1>1. TableType' /\ MemoryType'
  BY DEF TableInv, TableType, MemoryType, probes, pool, memory
<1>2. PoolInv'
  BY DEF TableInv, PoolInv, Registered, probes, pool, memory
<1>3. OwnerInv'
  BY DEF TableInv, OwnerInv, Owns, probes, pool, memory
<1>4. CodeInv'
  BY DEF TableInv, CodeInv, probes, memory
<1>5. LeakInv'
  BY DEF TableInv, LeakInv, probes, pool, memory
<1> QED
  BY <1>1, <1>2, <1>3, <1>4, <1>5 DEF TableInv

\* The bound on failures is kept.
LEMMA CostsBounded ==
    ASSUME ControlType, NEW n \in Nat, Costs(n)
    PROVE  failures' \in 0 .. MaxFailures /\ detaches' = detaches
BY PatchOptionsAssumption DEF ControlType, Costs

\* Only commands on probes need a runtime, so letting the target run never invents one.
LEMMA Running ==
    ASSUME TableInv, NEW f \in Functions, state[f] # "EMPTY"
    PROVE  /\ pool_addr \in mapped /\ pool_addr \in Pools /\ pool_addr # None /\ runtime # "INACTIVE" /\ attached
           /\ trampoline_slot[f] \in slot_used /\ trampoline_slot[f] \in Slots /\ trampoline_addr[f] \in Addrs
           /\ trampoline_addr[f] = SlotAddr(pool_addr, trampoline_slot[f])
           /\ trampoline[trampoline_addr[f]].fn = f
<1>1. Owns(f)
  BY DEF TableInv, OwnerInv
<1>2. pool_addr \in mapped /\ pool_addr \in Pools /\ pool_addr # None
  BY <1>1, Distinct DEF TableInv, PoolInv, MemoryType, Owns
<1>3. trampoline_slot[f] \in Slots
  BY <1>1 DEF TableInv, MemoryType, Owns
<1>4. runtime # "INACTIVE" /\ attached
  BY <1>2 DEF TableInv, PoolInv, Registered, ControlType
<1> QED
  BY <1>1, <1>2, <1>3, <1>4, SlotAddrType DEF Owns

\* The slot of an installation: the probe's own, or one that nobody owns.
LEMMA AllocFacts ==
    ASSUME TableInv, NEW f \in Functions, NEW p \in Pools, NEW k \in Slots, Allocates(f, p, k)
    PROVE  /\ SlotAddr(p, k) \in Addrs
           /\ state[f] # "EMPTY" => pool_addr = p /\ trampoline_slot[f] = k /\ trampoline_addr[f] = SlotAddr(p, k) /\ k \in slot_used
           /\ state[f] = "EMPTY" => k \notin slot_used /\ trampoline_addr[f] # SlotAddr(p, k)
           /\ pool_addr # None => p = pool_addr
           /\ pool_addr = None => p \notin mapped /\ slot_used = {}
           /\ \A g \in Functions : g # f /\ state[g] # "EMPTY" =>
                  pool_addr = p /\ trampoline_slot[g] # k /\ trampoline_addr[g] # SlotAddr(p, k)
<1>1. SlotAddr(p, k) \in Addrs
  BY SlotAddrType
<1>2. /\ pool_addr # None => p = pool_addr
      /\ pool_addr = None => p \notin mapped /\ slot_used = {}
  BY DEF Allocates, EnsuredPool, TableInv, PoolInv
<1>3. ASSUME state[f] # "EMPTY"
      PROVE  pool_addr = p /\ trampoline_slot[f] = k /\ trampoline_addr[f] = SlotAddr(p, k) /\ k \in slot_used
  BY <1>2, <1>3, Running DEF Allocates
<1>4. ASSUME state[f] = "EMPTY"
      PROVE  k \notin slot_used /\ trampoline_addr[f] # SlotAddr(p, k)
  <2>1. trampoline_slot[f] = None /\ trampoline_addr[f] = None
    BY <1>4 DEF TableInv, OwnerInv
  <2> QED
    BY <1>1, <2>1, Distinct DEF Allocates
<1>5. ASSUME NEW g \in Functions, g # f, state[g] # "EMPTY"
      PROVE  pool_addr = p /\ trampoline_slot[g] # k /\ trampoline_addr[g] # SlotAddr(p, k)
  <2>1. pool_addr = p /\ trampoline_slot[g] \in slot_used /\ trampoline_slot[g] \in Slots
        /\ trampoline_addr[g] = SlotAddr(p, trampoline_slot[g])
    BY <1>2, <1>5, Running
  <2>2. trampoline_slot[g] # k
    <3>1. CASE state[f] = "EMPTY"
      BY <1>4, <2>1, <3>1
    <3>2. CASE state[f] # "EMPTY"
      BY <1>3, <1>5, <3>2 DEF TableInv, OwnerInv
    <3> QED
      BY <3>1, <3>2
  <2> QED
    BY <2>1, <2>2, SlotAddrInjective
<1> QED
  BY <1>1, <1>2, <1>3, <1>4, <1>5

\* zt_probe_install, with everything it allocates.
LEMMA InstallTable ==
    ASSUME TableInv, NEW f \in Functions, NEW p \in Pools, NEW k \in Slots, Install(f, p, k)
    PROVE  TableInv'
<1> DEFINE a == SlotAddr(p, k)
<1>1. /\ state' = [state EXCEPT ![f] = "INSTALLED"] /\ orig_code' = [orig_code EXCEPT ![f] = code[f]]
      /\ trampoline_slot' = [trampoline_slot EXCEPT ![f] = k] /\ trampoline_addr' = [trampoline_addr EXCEPT ![f] = a]
      /\ pool_addr' = p /\ mapped' = mapped \cup {p} /\ slot_used' = slot_used \cup {k}
      /\ trampoline' = [trampoline EXCEPT ![a] = [fn |-> f, code |-> code[f]]] /\ code' = [code EXCEPT ![f] = a]
      /\ stopped' = FALSE /\ runtime' = "RUNNING" /\ UNCHANGED <<attached, failures, detaches, harmed, leaked>>
      /\ attached /\ state[f] # "INSTALLED" /\ Allocates(f, p, k)
  BY DEF Install, SavedCode, Built, LetRun, CanStop
<1>2. /\ a \in Addrs /\ a \in Code
      /\ state[f] # "EMPTY" => pool_addr = p /\ k \in slot_used /\ trampoline_slot[f] = k
      /\ pool_addr # None => p = pool_addr
      /\ pool_addr = None => p \notin mapped /\ slot_used = {}
      /\ \A g \in Functions : g # f /\ state[g] # "EMPTY" =>
             pool_addr = p /\ trampoline_slot[g] # k /\ trampoline_addr[g] # a
  BY <1>1, AllocFacts, Distinct
<1> HIDE DEF a
<1>3. TableType' /\ ControlType'
  BY <1>1, <1>2, Zenon DEF TableInv, TableType, MemoryType, ControlType
<1>4. MemoryType'
  <2>1. [fn |-> f, code |-> code[f]] \in [fn : Functions \cup {Nowhere}, code : Code]
    BY DEF TableInv, MemoryType
  <2> QED
    BY <1>1, <1>2, <2>1 DEF TableInv, MemoryType
<1>5. PoolInv'
  BY <1>1, Distinct DEF PoolInv, TableInv, ControlType
<1>6. trampoline'[a] = [fn |-> f, code |-> code[f]] /\ \A b \in Addrs : b # a => trampoline'[b] = trampoline[b]
  BY <1>1, <1>2 DEF TableInv, MemoryType
<1>7. /\ state'[f] = "INSTALLED" /\ trampoline_slot'[f] = k /\ trampoline_addr'[f] = a /\ code'[f] = a /\ orig_code'[f] = code[f]
      /\ \A g \in Functions : g # f => /\ state'[g] = state[g] /\ trampoline_slot'[g] = trampoline_slot[g]
                                       /\ trampoline_addr'[g] = trampoline_addr[g] /\ code'[g] = code[g] /\ orig_code'[g] = orig_code[g]
  BY <1>1 DEF TableInv, TableType, MemoryType
<1>8. OwnerInv'
  <2>1. ASSUME NEW g \in Functions, g # f, state[g] # "EMPTY" PROVE Owns(g)'
    <3>1. /\ trampoline_addr[g] \in Addrs /\ trampoline_addr[g] # a /\ trampoline_slot[g] \in slot_used
          /\ trampoline_addr[g] = SlotAddr(p, trampoline_slot[g]) /\ trampoline[trampoline_addr[g]].fn = g
      BY <1>2, <2>1, Running
    <3> QED
      BY <1>1, <2>1, <3>1, SMT, Z3 DEF Owns
  <2>2. Owns(f)'
    BY <1>1, <1>6, <1>7, SMT, Z3 DEF Owns, a
  <2>3. ASSUME NEW g \in Functions, state'[g] = "EMPTY" PROVE trampoline_slot'[g] = None /\ trampoline_addr'[g] = None
    BY <1>7, <2>3 DEF TableInv, OwnerInv
  <2>4. ASSUME NEW g \in Functions, NEW h \in Functions, state'[g] # "EMPTY", state'[h] # "EMPTY", trampoline_slot'[g] = trampoline_slot'[h]
        PROVE  g = h
    BY <1>2, <1>7, <2>4 DEF TableInv, OwnerInv
  <2> QED
    BY <1>7, <2>1, <2>2, <2>3, <2>4 DEF OwnerInv
<1>9. CodeInv'
  <2>1. f \notin harmed => code[f] = Orig
    BY <1>1, Zenon DEF TableInv, CodeInv
  <2>2. ASSUME NEW g \in Functions \ harmed, g # f, state[g] = "INSTALLED"
        PROVE  code'[g] = trampoline_addr'[g] /\ trampoline'[code'[g]] = [fn |-> g, code |-> Orig] /\ orig_code'[g] = Orig
    <3>1. code[g] = trampoline_addr[g] /\ trampoline[code[g]] = [fn |-> g, code |-> Orig] /\ orig_code[g] = Orig
      BY <2>2 DEF TableInv, CodeInv
    <3>2. trampoline_addr[g] \in Addrs /\ trampoline_addr[g] # a
      BY <1>2, <2>2, Running
    <3> HIDE DEF a
    <3>3. code'[g] = code[g] /\ trampoline_addr'[g] = trampoline_addr[g] /\ orig_code'[g] = orig_code[g]
      BY <1>6, <1>7, <2>2
    <3>4. trampoline'[code[g]] = trampoline[code[g]]
      BY <1>6, <1>7, <3>1, <3>2
    <3> QED
      BY <3>1, <3>3, <3>4
  <2>3. ASSUME NEW g \in Functions \ harmed, g # f, state[g] # "INSTALLED" PROVE code'[g] = Orig
    BY <1>7, <2>3, Zenon DEF TableInv, CodeInv
  <2> QED
    BY <1>1, <1>6, <1>7, <2>1, <2>2, <2>3 DEF CodeInv
<1>10. LeakInv'
  <2> SUFFICES ASSUME ~leaked PROVE LeakInv'
    BY <1>1 DEF LeakInv
  <2>1. mapped \subseteq {p}
    BY <1>2, Distinct DEF TableInv, LeakInv, MemoryType
  <2>2. \A j \in slot_used' : \E g \in Functions : state'[g] # "EMPTY" /\ trampoline_slot'[g] = j
    <3> SUFFICES ASSUME NEW j \in slot_used' PROVE \E g \in Functions : state'[g] # "EMPTY" /\ trampoline_slot'[g] = j
      OBVIOUS
    <3>1. CASE j = k
      BY <1>7, <3>1
    <3>2. CASE j \in slot_used
      <4>1. PICK g \in Functions : state[g] # "EMPTY" /\ trampoline_slot[g] = j
        BY <3>2 DEF TableInv, LeakInv
      <4> QED
        BY <1>2, <1>7, <4>1
    <3> QED
      BY <1>1, <3>1, <3>2
  <2> QED
    BY <1>1, <2>1, <2>2 DEF LeakInv
<1> QED
  BY <1>3, <1>4, <1>5, <1>8, <1>9, <1>10 DEF TableInv

\* The code of a probe that is not installed is torn, or stays as it was.
LEMMA InstallFailsLateTable ==
    ASSUME TableInv, NEW f \in Functions, NEW p \in Pools, NEW k \in Slots, NEW torn \in BOOLEAN, NEW unmapFails \in BOOLEAN,
           InstallFailsLate(f, p, k, torn, unmapFails)
    PROVE  TableInv'
<1> DEFINE a == SlotAddr(p, k)
<1> DEFINE empty == trampoline_addr[f] # a /\ slot_used = {}
<1>1. /\ UNCHANGED <<state, orig_code, trampoline_slot, trampoline_addr, slot_used, attached>> /\ stopped' = TRUE
      /\ runtime' = (IF runtime = "INACTIVE" THEN runtime ELSE "STOPPED")
      /\ leaked' = (leaked \/ unmapFails) /\ attached /\ state[f] # "INSTALLED" /\ Allocates(f, p, k)
      /\ unmapFails => empty
  BY DEF InstallFailsLate, Rollback, LeaveStopped, CanStop, probes
<1>2. /\ torn => code' = [code EXCEPT ![f] = Torn] /\ harmed' = harmed \cup {f}
      /\ ~torn => code' = code /\ harmed' = harmed
  BY DEF InstallFailsLate
<1>3. /\ empty /\ ~unmapFails => pool_addr' = None /\ Without(p)
      /\ ~(empty /\ ~unmapFails) => /\ pool_addr' = IF runtime = "INACTIVE" THEN None ELSE p
                                    /\ mapped' = mapped \cup {p}
                                    /\ trampoline' = [trampoline EXCEPT ![a] = [fn |-> f, code |-> code[f]]]
  BY DEF InstallFailsLate, Rollback, Built, SavedCode
<1>4. /\ a \in Addrs
      /\ state[f] # "EMPTY" => pool_addr = p /\ k \in slot_used /\ trampoline_addr[f] = a
      /\ pool_addr # None => p = pool_addr
      /\ pool_addr = None => p \notin mapped /\ slot_used = {}
      /\ state[f] = "EMPTY" => trampoline_addr[f] # a
      /\ \A g \in Functions : g # f /\ state[g] # "EMPTY" => pool_addr = p /\ trampoline_addr[g] # a
  BY <1>1, AllocFacts
<1> HIDE DEF a
<1>5. empty <=> slot_used = {}
  BY <1>4
<1> HIDE DEF empty
<1>6. slot_used = {} => \A g \in Functions : state[g] = "EMPTY"
  BY Running
<1>7. TableType'
  BY <1>1 DEF TableInv, TableType
<1>8. ControlType'
  <2>1. failures' \in 0 .. MaxFailures /\ detaches' = detaches
    BY CostsBounded DEF TableInv, InstallFailsLate
  <2>2. leaked' \in BOOLEAN /\ harmed' \subseteq Functions
    BY <1>1, <1>2 DEF TableInv, ControlType
  <2> QED
    BY <1>1, <2>1, <2>2 DEF TableInv, ControlType
<1>9. MemoryType'
  <2>1. code' \in [Functions -> Code]
    BY <1>2, Distinct DEF TableInv, MemoryType
  <2>2. [fn |-> f, code |-> code[f]] \in [fn : Functions \cup {Nowhere}, code : Code]
    BY DEF TableInv, MemoryType
  <2>3. Blank \in [fn : Functions \cup {Nowhere}, code : Code]
    BY Distinct DEF Blank
  <2>4. trampoline' \in [Addrs -> [fn : Functions \cup {Nowhere}, code : Code]]
    BY <1>3, <2>2, <2>3 DEF TableInv, MemoryType, Without
  <2>5. mapped' \subseteq Pools /\ pool_addr' \in Pools \cup {None}
    BY <1>3 DEF TableInv, MemoryType, Without
  <2> QED
    BY <1>1, <2>1, <2>4, <2>5 DEF TableInv, MemoryType
<1>10. PoolInv'
  <2>1. runtime = "INACTIVE" => slot_used = {}
    BY DEF TableInv, PoolInv
  <2>2. pool_addr' = None => slot_used = {}
    BY <1>3, <1>5, <2>1, Distinct
  <2>3. pool_addr' # None => pool_addr' \in mapped'
    BY <1>3
  <2>4. runtime' = "INACTIVE" => pool_addr' = None
    BY <1>1, <1>3
  <2> QED
    BY <1>1, <2>2, <2>3, <2>4 DEF PoolInv
<1>11. ASSUME slot_used # {}
       PROVE  /\ pool_addr = p /\ pool_addr' = p /\ runtime # "INACTIVE" /\ leaked' = leaked
              /\ trampoline'[a] = [fn |-> f, code |-> code[f]] /\ \A b \in Addrs : b # a => trampoline'[b] = trampoline[b]
  <2>1. pool_addr = p /\ runtime # "INACTIVE"
    BY <1>4, <1>11 DEF TableInv, PoolInv
  <2>2. ~empty /\ leaked' = leaked
    BY <1>1, <1>5, <1>11 DEF TableInv, ControlType
  <2> QED
    BY <1>3, <1>4, <2>1, <2>2 DEF TableInv, MemoryType
<1>12. OwnerInv'
  <2>1. ASSUME NEW g \in Functions, state[g] # "EMPTY" PROVE Owns(g)'
    <3>1. /\ trampoline_addr[g] \in Addrs /\ trampoline_slot[g] \in slot_used /\ pool_addr = p
          /\ trampoline_addr[g] = SlotAddr(p, trampoline_slot[g]) /\ trampoline[trampoline_addr[g]].fn = g
      BY <1>4, <2>1, Running
    <3>2. trampoline'[trampoline_addr[g]].fn = g
      <4>1. CASE g = f
        BY <1>11, <3>1, <4>1, SMT, Z3
      <4>2. CASE g # f
        BY <1>4, <1>11, <2>1, <3>1, <4>2
      <4> QED
        BY <4>1, <4>2
    <3> QED
      BY <1>1, <1>11, <3>1, <3>2 DEF Owns
  <2> QED
    BY <1>1, <2>1 DEF TableInv, OwnerInv
<1>13. CodeInv'
  <2>1. ASSUME NEW g \in Functions \ harmed', state[g] = "INSTALLED"
        PROVE  code'[g] = trampoline_addr[g] /\ trampoline'[code'[g]] = [fn |-> g, code |-> Orig] /\ orig_code[g] = Orig
    <3>1. g \notin harmed /\ g # f /\ code'[g] = code[g]
      BY <1>1, <1>2, <2>1 DEF TableInv, MemoryType
    <3>2. code[g] = trampoline_addr[g] /\ trampoline[code[g]] = [fn |-> g, code |-> Orig] /\ orig_code[g] = Orig
      BY <2>1, <3>1 DEF TableInv, CodeInv
    <3>3. trampoline_addr[g] \in Addrs /\ trampoline_addr[g] # a /\ slot_used # {}
      BY <1>4, <2>1, <3>1, Running
    <3> QED
      BY <1>11, <3>1, <3>2, <3>3
  <2>2. ASSUME NEW g \in Functions \ harmed', state[g] # "INSTALLED" PROVE code'[g] = Orig
    BY <1>2, <2>2, Zenon DEF TableInv, CodeInv, MemoryType
  <2> QED
    BY <1>1, <2>1, <2>2 DEF CodeInv
<1>14. LeakInv'
  <2> SUFFICES ASSUME ~leaked' PROVE LeakInv'
    BY DEF LeakInv
  <2>1. ~leaked /\ ~unmapFails
    BY <1>1, Zenon
  <2>2. mapped \subseteq {pool_addr} /\ mapped \subseteq Pools /\ (pool_addr # None => slot_used # {})
    BY <2>1 DEF TableInv, LeakInv, MemoryType
  <2>3. CASE slot_used = {}
    <3>1. pool_addr' = None /\ mapped' = mapped \ {p}
      BY <1>3, <1>5, <2>1, <2>3 DEF Without
    <3>2. mapped = {}
      BY <2>2, <2>3, Distinct
    <3> QED
      BY <1>1, <2>3, <3>1, <3>2 DEF LeakInv
  <2>4. CASE slot_used # {}
    <3>1. mapped' \subseteq {p}
      BY <1>3, <1>5, <1>11, <2>2, <2>4
    <3> QED
      BY <1>1, <1>11, <2>1, <2>4, <3>1 DEF TableInv, LeakInv
  <2> QED
    BY <2>3, <2>4
<1> QED
  BY <1>7, <1>8, <1>9, <1>10, <1>12, <1>13, <1>14 DEF TableInv

\* cmd_disable and a failed uninstallation change the code of one installed probe.
LEMMA UninstallTable ==
    ASSUME TableInv, NEW f \in Functions, Disable(f) \/ \E torn \in BOOLEAN : UninstallFails(f, torn)
    PROVE  TableInv'
<1>1. /\ UNCHANGED <<orig_code, trampoline_slot, trampoline_addr, pool_addr, slot_used, trampoline, mapped, attached, leaked>>
      /\ state[f] = "INSTALLED" /\ attached
  BY DEF Disable, UninstallFails, probes, pool, CanStop
<1>2. \/ state' = [state EXCEPT ![f] = "DISABLED"] /\ code' = [code EXCEPT ![f] = orig_code[f]] /\ harmed' = harmed
      \/ state' = state /\ code' = [code EXCEPT ![f] = Torn] /\ harmed' = harmed \cup {f}
      \/ state' = state /\ code' = code /\ harmed' = harmed
  BY DEF Disable, UninstallFails, probes
<1>3. runtime # "INACTIVE" /\ pool_addr # None
  BY <1>1, Running
<1>4. TableType' /\ MemoryType'
  BY <1>1, <1>2, Distinct DEF TableInv, TableType, MemoryType
<1>5. ControlType' /\ runtime' # "INACTIVE"
  <2>1. CASE Disable(f)
    BY <1>2, <2>1, Zenon DEF Disable, LetRun, TableInv, ControlType
  <2>2. ASSUME NEW torn \in BOOLEAN, UninstallFails(f, torn) PROVE ControlType' /\ runtime' # "INACTIVE"
    <3>1. failures' \in 0 .. MaxFailures /\ detaches' = detaches
      BY <2>2, CostsBounded DEF TableInv, UninstallFails
    <3> QED
      BY <1>1, <1>2, <1>3, <2>2, <3>1 DEF UninstallFails, LeaveStopped, TableInv, ControlType
  <2> QED
    BY <2>1, <2>2
<1>6. \A g \in Functions : state'[g] = "EMPTY" <=> state[g] = "EMPTY"
  BY <1>1, <1>2 DEF TableInv, TableType
<1>7. PoolInv'
  BY <1>1, <1>5 DEF TableInv, PoolInv
<1>8. OwnerInv'
  BY <1>1, <1>6, Zenon DEF TableInv, OwnerInv, Owns
<1>9. CodeInv'
  <2>1. ASSUME NEW g \in Functions \ harmed', g # f
        PROVE  state'[g] = state[g] /\ code'[g] = code[g] /\ g \in Functions \ harmed
    BY <1>2, <2>1 DEF TableInv, TableType, MemoryType
  <2>2. f \notin harmed' => \/ state'[f] = "DISABLED" /\ code'[f] = Orig
                            \/ state'[f] = state[f] /\ code'[f] = code[f] /\ f \notin harmed
    BY <1>1, <1>2, Zenon DEF TableInv, TableType, MemoryType, CodeInv
  <2> QED
    BY <1>1, <2>1, <2>2, Zenon DEF TableInv, CodeInv
<1>10. LeakInv'
  BY <1>1, <1>6 DEF TableInv, LeakInv
<1> QED
  BY <1>4, <1>5, <1>7, <1>8, <1>9, <1>10 DEF TableInv

\* Releasing registered probes gives up exactly the slots they own.
LEMMA FreedOwned ==
    ASSUME TableInv, NEW fs \in SUBSET Functions, \A f \in fs : state[f] # "EMPTY"
    PROVE  /\ FreedSlots(fs) = {trampoline_slot[f] : f \in fs}
           /\ FreedSlots(fs) \subseteq slot_used
<1>1. \A f \in fs : trampoline_slot[f] \in Slots /\ trampoline_slot[f] \in slot_used /\ Belongs(f, trampoline_slot[f])
  BY Running DEF Belongs
<1> QED
  BY <1>1 DEF FreedSlots

\* What a release leaves of the pool; "rest" are the slots that stay in use.
LEMMA ReleaseFacts ==
    ASSUME TableInv, NEW fs \in SUBSET Functions, \A f \in fs : state[f] # "EMPTY", NEW unmapFails \in BOOLEAN, NEW reset \in BOOLEAN,
           Release(fs, unmapFails, reset)
    PROVE  LET rest == slot_used \ {trampoline_slot[f] : f \in fs} IN
           /\ slot_used' = (IF reset THEN {} ELSE rest)
           /\ unmapFails => rest = {} /\ fs # {}
           /\ leaked' = (leaked \/ unmapFails)
           /\ reset => pool_addr' = None
           /\ rest # {} => mapped' = mapped /\ trampoline' = trampoline /\ (~reset => pool_addr' = pool_addr)
           /\ rest = {} /\ fs # {} /\ ~unmapFails => pool_addr' = None /\ Without(pool_addr)
           /\ fs = {} => mapped' = mapped /\ trampoline' = trampoline
           /\ unmapFails => mapped' = mapped /\ trampoline' = trampoline
<1> DEFINE freed == FreedSlots(fs)
<1>1. freed = {trampoline_slot[f] : f \in fs}
  BY FreedOwned
<1>2. fs # {} => pool_addr # None
  BY Running
<1>3. fs = {} <=> freed = {}
  BY <1>1
<1> HIDE DEF freed
<1>4. /\ unmapFails => (pool_addr # None /\ freed # {} /\ slot_used \ freed = {})
      /\ slot_used' = (IF reset THEN {} ELSE slot_used \ freed)
      /\ pool_addr' = (IF reset \/ ((pool_addr # None /\ freed # {} /\ slot_used \ freed = {}) /\ ~unmapFails) THEN None ELSE pool_addr)
      /\ IF (pool_addr # None /\ freed # {} /\ slot_used \ freed = {}) /\ ~unmapFails
         THEN Without(pool_addr) ELSE UNCHANGED <<mapped, trampoline>>
      /\ leaked' = (leaked \/ unmapFails)
  BY DEF Release, freed
<1> QED
  BY <1>1, <1>2, <1>3, <1>4

\* Giving up slots keeps the types.
LEMMA ReleaseTypes ==
    ASSUME TableInv, NEW fs \in SUBSET Functions, NEW unmapFails \in BOOLEAN, NEW reset \in BOOLEAN, Release(fs, unmapFails, reset)
    PROVE  /\ pool_addr' \in Pools \cup {None} /\ slot_used' \subseteq Slots /\ mapped' \subseteq Pools
           /\ trampoline' \in [Addrs -> [fn : Functions \cup {Nowhere}, code : Code]]
           /\ leaked' \in BOOLEAN
<1>1. Blank \in [fn : Functions \cup {Nowhere}, code : Code]
  BY Distinct DEF Blank
<1>2. slot_used' \subseteq Slots /\ pool_addr' \in Pools \cup {None} /\ leaked' \in BOOLEAN
  BY DEF Release, TableInv, MemoryType, ControlType
<1>3. Without(pool_addr) \/ UNCHANGED <<mapped, trampoline>>
  BY DEF Release
<1> QED
  BY <1>1, <1>2, <1>3 DEF Without, TableInv, MemoryType

\* zt_unregister_probe of fs, after zt_uninstall_probe_patch of those that work.
LEMMA ForgetTable ==
    ASSUME TableInv, NEW fs \in SUBSET Functions, Unregister(fs), NEW gone \in SUBSET fs,
           code' = [f \in Functions |-> IF f \in gone THEN orig_code[f] ELSE code[f]],
           harmed \subseteq harmed',
           \A f \in fs \ harmed' : IF f \in gone THEN state[f] = "INSTALLED" ELSE code[f] = Orig,
           \A f \in Functions \ fs : state[f] # "EMPTY" => pool_addr' = pool_addr /\ trampoline' = trampoline /\ trampoline_slot[f] \in slot_used'
    PROVE  TableType' /\ OwnerInv' /\ CodeInv' /\ code' \in [Functions -> Code]
<1>1. /\ \A f \in fs : state'[f] = "EMPTY" /\ trampoline_slot'[f] = None /\ trampoline_addr'[f] = None
      /\ \A f \in Functions \ fs : /\ state'[f] = state[f] /\ orig_code'[f] = orig_code[f] /\ trampoline_slot'[f] = trampoline_slot[f]
                                   /\ trampoline_addr'[f] = trampoline_addr[f]
  BY DEF Unregister
<1>2. TableType'
  BY Distinct DEF Unregister, TableInv, TableType
<1>3. code' \in [Functions -> Code]
  BY DEF TableInv, TableType, MemoryType
<1>4. OwnerInv'
  <2>1. ASSUME NEW f \in Functions \ fs, state[f] # "EMPTY" PROVE Owns(f)'
    BY <1>1, <2>1, Running DEF Owns
  <2>2. ASSUME NEW f \in Functions \ fs, state[f] = "EMPTY" PROVE trampoline_slot'[f] = None /\ trampoline_addr'[f] = None
    BY <1>1, <2>2, Zenon DEF TableInv, OwnerInv
  <2>3. ASSUME NEW f \in Functions, NEW g \in Functions, state'[f] # "EMPTY", state'[g] # "EMPTY", trampoline_slot'[f] = trampoline_slot'[g]
        PROVE  f = g
    BY <1>1, <2>3 DEF TableInv, OwnerInv
  <2> QED
    BY <1>1, <2>1, <2>2, <2>3 DEF OwnerInv
<1>5. CodeInv'
  <2>1. ASSUME NEW f \in fs \ harmed' PROVE code'[f] = Orig
    <3>1. CASE f \in gone
      BY <2>1, <3>1, Zenon DEF TableInv, CodeInv
    <3>2. CASE f \notin gone
      BY <2>1, <3>2
    <3> QED
      BY <3>1, <3>2
  <2>2. ASSUME NEW f \in Functions \ harmed', f \notin fs
        PROVE  /\ state'[f] = state[f] /\ orig_code'[f] = orig_code[f] /\ trampoline_addr'[f] = trampoline_addr[f] /\ code'[f] = code[f]
               /\ f \in Functions \ harmed /\ (state[f] = "INSTALLED" => trampoline' = trampoline)
    BY <1>1, <2>2
  <2> QED
    BY <1>1, <2>1, <2>2 DEF TableInv, CodeInv
<1> QED
  BY <1>2, <1>3, <1>4, <1>5

\* cmd_untrace: one probe is forgotten.
LEMMA UntraceTable ==
    ASSUME TableInv, NEW f \in Functions, NEW unmapFails \in BOOLEAN, Untrace(f, unmapFails)
    PROVE  TableInv'
<1> DEFINE gone == {g \in {f} : state[g] = "INSTALLED"}
<1> DEFINE rest == slot_used \ {trampoline_slot[f]}
<1> DEFINE last == Registered = {f}
<1>1. /\ state[f] # "EMPTY" /\ attached /\ attached' = attached /\ harmed' = harmed
      /\ code' = [g \in Functions |-> IF g \in gone THEN orig_code[g] ELSE code[g]]
      /\ Unregister({f}) /\ Release({f}, unmapFails, last) /\ Costs(IF unmapFails THEN 1 ELSE 0)
  BY DEF Untrace, CanStop, Registered, Restore
<1>2. stopped' = (IF last THEN TRUE ELSE FALSE) /\ runtime' = (IF last THEN "INACTIVE" ELSE "RUNNING")
  BY Zenon DEF Untrace, LetRun
<1>3. last \in BOOLEAN /\ {f} \in SUBSET Functions /\ \A g \in {f} : state[g] # "EMPTY"
  BY <1>1
<1>4. {trampoline_slot[g] : g \in {f}} = {trampoline_slot[f]}
  OBVIOUS
<1>5. /\ slot_used' = (IF last THEN {} ELSE rest)
      /\ unmapFails => rest = {}
      /\ leaked' = (leaked \/ unmapFails)
      /\ last => pool_addr' = None
      /\ rest # {} => mapped' = mapped /\ trampoline' = trampoline /\ (~last => pool_addr' = pool_addr)
      /\ rest = {} /\ ~unmapFails => mapped' = mapped \ {pool_addr}
  <2> HIDE DEF last
  <2>1. LET r == slot_used \ {trampoline_slot[g] : g \in {f}} IN
        /\ slot_used' = (IF last THEN {} ELSE r)
        /\ unmapFails => r = {}
        /\ leaked' = (leaked \/ unmapFails)
        /\ last => pool_addr' = None
        /\ r # {} => mapped' = mapped /\ trampoline' = trampoline /\ (~last => pool_addr' = pool_addr)
        /\ r = {} /\ {f} # {} /\ ~unmapFails => pool_addr' = None /\ Without(pool_addr)
    BY <1>1, <1>3, ReleaseFacts, Zenon
  <2>2. Without(pool_addr) => mapped' = mapped \ {pool_addr}
    BY DEF Without
  <2> QED
    BY <1>4, <2>1, <2>2
<1>6. /\ pool_addr' \in Pools \cup {None} /\ slot_used' \subseteq Slots /\ mapped' \subseteq Pools
      /\ trampoline' \in [Addrs -> [fn : Functions \cup {Nowhere}, code : Code]]
      /\ leaked' \in BOOLEAN
  BY <1>1, <1>3, ReleaseTypes, Zenon
<1>7. \A g \in Functions \ {f} : state[g] # "EMPTY" => trampoline_slot[g] \in rest
  BY <1>1, Running DEF TableInv, OwnerInv
<1>8. last <=> \A g \in Functions \ {f} : state[g] = "EMPTY"
  BY <1>1, SMT, Z3 DEF Registered
<1> HIDE DEF last, rest
<1>9. \A g \in Functions \ {f} : state[g] # "EMPTY" => pool_addr' = pool_addr /\ trampoline' = trampoline /\ trampoline_slot[g] \in slot_used'
  BY <1>5, <1>7, <1>8
<1>10. TableType' /\ OwnerInv' /\ CodeInv' /\ code' \in [Functions -> Code]
  <2>1. \A g \in {f} \ harmed' : IF g \in gone THEN state[g] = "INSTALLED" ELSE code[g] = Orig
    BY <1>1, Zenon DEF TableInv, CodeInv
  <2>2. gone \in SUBSET {f} /\ harmed \subseteq harmed'
    BY <1>1
  <2> HIDE DEF gone
  <2> QED
    BY <1>1, <1>9, <2>1, <2>2, ForgetTable, SMT, Z3
<1>11. MemoryType'
  BY <1>6, <1>10 DEF MemoryType
<1>12. ControlType'
  <2>1. failures' \in 0 .. MaxFailures /\ detaches' = detaches
    BY <1>1, CostsBounded DEF TableInv
  <2> QED
    BY <1>1, <1>2, <1>6, <2>1 DEF TableInv, ControlType
<1>13. ~last => rest # {} /\ pool_addr' = pool_addr /\ mapped' = mapped
  BY <1>5, <1>7, <1>8
<1>14. pool_addr # None /\ pool_addr \in mapped
  BY <1>1, Running
<1>15. PoolInv'
  BY <1>1, <1>2, <1>5, <1>13, <1>14 DEF PoolInv
<1>16. LeakInv'
  <2> SUFFICES ASSUME ~leaked' PROVE LeakInv'
    BY DEF LeakInv
  <2>1. ~leaked /\ ~unmapFails
    BY <1>5, Zenon
  <2>2. mapped \subseteq {pool_addr} /\ \A j \in slot_used : \E g \in Functions : state[g] # "EMPTY" /\ trampoline_slot[g] = j
    BY <2>1 DEF TableInv, LeakInv
  <2>3. CASE last
    <3>1. rest = {}
      BY <1>8, <2>2, <2>3 DEF rest
    <3>2. mapped' = {}
      BY <1>5, <2>1, <2>2, <3>1
    <3> QED
      BY <1>5, <2>3, <3>2 DEF LeakInv
  <2>4. CASE ~last
    <3>1. ASSUME NEW j \in slot_used' PROVE \E g \in Functions : state'[g] # "EMPTY" /\ trampoline_slot'[g] = j
      <4>1. PICK g \in Functions : state[g] # "EMPTY" /\ trampoline_slot[g] = j
        BY <1>5, <2>2, <2>4, <3>1 DEF rest
      <4>2. g # f
        BY <1>5, <2>4, <3>1, <4>1 DEF rest
      <4> QED
        BY <1>1, <4>1, <4>2 DEF Unregister
    <3> QED
      BY <1>5, <1>13, <2>2, <2>4, <3>1 DEF LeakInv
  <2> QED
    BY <2>3, <2>4
<1> QED
  BY <1>10, <1>11, <1>12, <1>15, <1>16 DEF TableInv

\* zt_trace_shutdown: all probes are forgotten.
LEMMA ShutdownTable ==
    ASSUME TableInv, NEW failing \in SUBSET Functions, NEW unmapFails \in BOOLEAN, Shutdown(failing, unmapFails)
    PROVE  TableInv'
<1> DEFINE gone == {g \in Registered \ failing : state[g] = "INSTALLED"}
<1>1. /\ attached /\ attached' = attached /\ harmed' = harmed \cup failing /\ runtime' = "INACTIVE" /\ stopped' = TRUE
      /\ code' = [g \in Functions |-> IF g \in gone THEN orig_code[g] ELSE code[g]]
      /\ Unregister(Registered) /\ Release(Registered, unmapFails, TRUE)
      /\ Costs(Cardinality(failing) + (IF unmapFails THEN 1 ELSE 0))
  BY Zenon DEF Shutdown, CanStop, Restore
<1>2. Registered \in SUBSET Functions /\ (\A g \in Registered : state[g] # "EMPTY") /\ \A g \in Functions \ Registered : state[g] = "EMPTY"
  BY DEF Registered
<1>3. TRUE \in BOOLEAN
  OBVIOUS
<1>4. /\ slot_used' = {} /\ pool_addr' = None
      /\ leaked' = (leaked \/ unmapFails)
      /\ slot_used \ {trampoline_slot[f] : f \in Registered} = {} /\ Registered # {} /\ ~unmapFails => mapped' = mapped \ {pool_addr}
      /\ Registered = {} => mapped' = mapped
  BY <1>1, <1>2, <1>3, ReleaseFacts, Zenon DEF Without
<1>5. /\ pool_addr' \in Pools \cup {None} /\ slot_used' \subseteq Slots /\ mapped' \subseteq Pools
      /\ trampoline' \in [Addrs -> [fn : Functions \cup {Nowhere}, code : Code]]
      /\ leaked' \in BOOLEAN
  BY <1>1, <1>2, <1>3, ReleaseTypes, Zenon
<1>6. TableType' /\ OwnerInv' /\ CodeInv' /\ code' \in [Functions -> Code]
  <2>1. \A g \in Registered \ harmed' : IF g \in gone THEN state[g] = "INSTALLED" ELSE code[g] = Orig
    BY <1>1, Zenon DEF TableInv, CodeInv, Registered
  <2>2. gone \in SUBSET Registered /\ harmed \subseteq harmed'
    BY <1>1
  <2> HIDE DEF gone
  <2> QED
    BY <1>1, <1>2, <2>1, <2>2, ForgetTable
<1>7. ControlType'
  <2>1. Cardinality(failing) + (IF unmapFails THEN 1 ELSE 0) \in Nat
    <3>1. Cardinality(failing) \in Nat
      BY PoolAssumption, FS_Subset, FS_CardinalityType
    <3> QED
      BY <3>1
  <2>2. failures' \in 0 .. MaxFailures /\ detaches' = detaches
    BY <1>1, <2>1, CostsBounded DEF TableInv
  <2> QED
    BY <1>1, <1>5, <2>2 DEF TableInv, ControlType
<1>8. PoolInv'
  BY <1>1, <1>4 DEF PoolInv
<1>9. LeakInv'
  <2> SUFFICES ASSUME ~leaked, ~unmapFails PROVE LeakInv'
    BY <1>4, Zenon DEF LeakInv
  <2>1. /\ mapped \subseteq {pool_addr} /\ mapped \subseteq Pools /\ (pool_addr # None => slot_used # {})
        /\ \A j \in slot_used : \E g \in Functions : state[g] # "EMPTY" /\ trampoline_slot[g] = j
    BY DEF TableInv, LeakInv, MemoryType
  <2>2. slot_used \ {trampoline_slot[f] : f \in Registered} = {}
    BY <2>1 DEF Registered
  <2>3. Registered = {} => mapped = {}
    BY <2>1, Distinct DEF Registered
  <2>4. mapped' = {}
    BY <1>4, <2>1, <2>2, <2>3
  <2> QED
    BY <1>4, <2>4 DEF LeakInv
<1> QED
  BY <1>5, <1>6, <1>7, <1>8, <1>9 DEF TableInv, MemoryType

\* A detach, and a poll that finds the target gone.
LEMMA DetachTable ==
    ASSUME TableInv, Detach \/ PollDetached
    PROVE  TableInv'
<1>1. CASE Detach
  <2>1. /\ attached' = FALSE /\ stopped' = FALSE /\ Unregister(Functions) /\ harmed' = harmed \cup {f \in Functions : code[f] # Orig}
        /\ leaked' = (leaked \/ slot_used # {}) /\ UNCHANGED <<pool_addr, slot_used, code, trampoline, mapped, runtime, failures>>
        /\ detaches' \in 0 .. MaxDetaches
    BY <1>1, PatchOptionsAssumption, SMT, Z3 DEF Detach, pool, memory, TableInv, ControlType
  <2>2. \A f \in Functions : state'[f] = "EMPTY"
    BY <2>1 DEF Unregister
  <2>3. TableType' /\ OwnerInv' /\ CodeInv'
    <3>1. /\ code' = [f \in Functions |-> IF f \in {} THEN orig_code[f] ELSE code[f]] /\ harmed \subseteq harmed'
          /\ \A f \in Functions \ harmed' : IF f \in {} THEN state[f] = "INSTALLED" ELSE code[f] = Orig
      BY <2>1, Zenon DEF TableInv, MemoryType
    <3>2. {} \in SUBSET Functions /\ Functions \in SUBSET Functions /\ Functions \ Functions = {}
      OBVIOUS
    <3> QED
      BY <2>1, <3>1, <3>2, ForgetTable, Zenon
  <2>4. MemoryType' /\ ControlType'
    BY <2>1, Zenon DEF TableInv, MemoryType, ControlType
  <2>5. PoolInv'
    BY <2>1, <2>2 DEF TableInv, PoolInv, Registered
  <2>6. LeakInv'
    BY <2>1, Zenon DEF TableInv, LeakInv
  <2> QED
    BY <2>3, <2>4, <2>5, <2>6 DEF TableInv
<1>2. CASE PollDetached
  <2>1. /\ ~attached /\ runtime' = "INACTIVE" /\ pool_addr' = None /\ slot_used' = {}
        /\ UNCHANGED <<state, orig_code, trampoline_slot, trampoline_addr, code, trampoline, mapped, attached, stopped, failures, detaches, harmed, leaked>>
    BY <1>2 DEF PollDetached, probes, memory
  <2>2. \A f \in Functions : state[f] = "EMPTY"
    BY <2>1 DEF TableInv, PoolInv, Registered
  <2>3. TableType' /\ MemoryType' /\ ControlType'
    BY <2>1 DEF TableInv, TableType, MemoryType, ControlType
  <2>4. PoolInv'
    BY <2>1, <2>2 DEF PoolInv, Registered
  <2>5. OwnerInv'
    BY <2>1, <2>2 DEF TableInv, OwnerInv
  <2>6. CodeInv'
    BY <2>1, Zenon DEF TableInv, CodeInv
  <2>7. LeakInv'
    <3>1. ~leaked => slot_used = {} /\ pool_addr = None
      BY <2>2 DEF TableInv, LeakInv
    <3> QED
      BY <2>1, <3>1, Zenon DEF TableInv, LeakInv
  <2> QED
    BY <2>3, <2>4, <2>5, <2>6, <2>7 DEF TableInv
<1> QED
  BY <1>1, <1>2
-----------------------------------------------------------------------------
(* The threads.                                                            *)

\* The types of a place's fields.
LEMMA PlaceFacts ==
    ASSUME NEW p \in Places
    PROVE  /\ p.where \in {"out", "start", "mid", "body", "trampoline"}
           /\ p.where = "out" <=> p = Out
           /\ p.where # "out" => p.fn \in Functions
           /\ p.where \in {"start", "mid", "body"} => p = At(p.where, p.fn)
           /\ p.where = "trampoline" => p.addr \in Addrs
BY DEF Places, Out, At, InTrampoline

\* The places a thread can be sent to are places.
LEMMA PlaceTypes ==
    /\ Out \in Places
    /\ \A w \in {"start", "mid", "body"}, f \in Functions : At(w, f) \in Places /\ At(w, f).where = w /\ At(w, f).fn = f
    /\ \A f \in Functions, a \in Addrs : /\ InTrampoline(f, a) \in Places /\ InTrampoline(f, a).where = "trampoline"
                                         /\ InTrampoline(f, a).fn = f /\ InTrampoline(f, a).addr = a
<1>1. Out \in Places
  BY DEF Places
<1>2. ASSUME NEW w \in {"start", "mid", "body"}, NEW f \in Functions
      PROVE  At(w, f) \in Places /\ At(w, f).where = w /\ At(w, f).fn = f
  <2>1. At(w, f) \in Places
    BY DEF Places
  <2> QED
    BY <2>1 DEF At
<1>3. ASSUME NEW f \in Functions, NEW a \in Addrs
      PROVE  /\ InTrampoline(f, a) \in Places /\ InTrampoline(f, a).where = "trampoline"
             /\ InTrampoline(f, a).fn = f /\ InTrampoline(f, a).addr = a
  <2>1. InTrampoline(f, a) \in Places
    BY DEF Places
  <2> QED
    BY <2>1 DEF InTrampoline
<1> QED
  BY <1>1, <1>2, <1>3

\* A thread that nobody endangered executes what it should, but in a harmed function.
LEMMA SafeNotBad ==
    ASSUME TableInv, NEW p \in Places, SafeNow(p), Bad(p)
    PROVE  p.fn \in harmed
<1> SUFFICES ASSUME p.fn \notin harmed PROVE FALSE
  OBVIOUS
<1>1. CASE p.where = "start"
  <2>1. p.fn \in Functions \ harmed
    BY <1>1, PlaceFacts
  <2>2. CASE state[p.fn] = "INSTALLED"
    <3>1. code[p.fn] = trampoline_addr[p.fn] /\ trampoline[code[p.fn]] = [fn |-> p.fn, code |-> Orig]
      BY <2>1, <2>2 DEF TableInv, CodeInv
    <3>2. code[p.fn] \in Addrs
      BY <2>1, <2>2, <3>1, Running
    <3> QED
      BY <1>1, <3>1, <3>2, Distinct, SMT, Z3 DEF Bad
  <2>3. CASE state[p.fn] # "INSTALLED"
    <3>1. code[p.fn] = Orig
      BY <2>1, <2>3, Zenon DEF TableInv, CodeInv
    <3> QED
      BY <1>1, <3>1, Distinct DEF Bad
  <2> QED
    BY <2>2, <2>3
<1>2. CASE p.where # "start"
  BY <1>2 DEF Bad, SafeNow, Safe
<1> QED
  BY <1>1, <1>2

\* Running on from a safe place leads to a safe place.
LEMMA ThroughSafe ==
    ASSUME TableInv, NEW p \in Places, p.where # "out"
    PROVE  /\ Through(p) \in Places /\ SafeNow(Through(p))
           /\ At("body", p.fn) \in Places /\ SafeNow(At("body", p.fn))
           /\ Through(p).where = "mid" => p.where = "start" /\ code[p.fn] \notin Addrs
<1>1. p.fn \in Functions
  BY PlaceFacts
<1>2. At("body", p.fn) \in Places /\ SafeNow(At("body", p.fn)) /\ SafeNow(Out) /\ Out \in Places /\ At("body", p.fn).where = "body"
      /\ Out.where = "out"
  BY <1>1, PlaceTypes DEF SafeNow, Safe, Out
<1>3. CASE p.where = "start" /\ code[p.fn] \in Addrs
  <2>1. Through(p) = InTrampoline(p.fn, code[p.fn])
    BY <1>3, Zenon DEF Through
  <2>2. Through(p) \in Places /\ Through(p).where = "trampoline" /\ Through(p).fn = p.fn /\ Through(p).addr = code[p.fn]
    BY <1>1, <1>3, <2>1, PlaceTypes, SMT, Z3
  <2>3. ASSUME p.fn \notin harmed
        PROVE  trampoline[code[p.fn]] = [fn |-> p.fn, code |-> Orig] /\ Kept(code[p.fn], mapped, pool_addr, slot_used)
    <3>1. state[p.fn] = "INSTALLED"
      BY <1>1, <1>3, <2>3, Distinct, Zenon DEF TableInv, CodeInv
    <3>2. code[p.fn] = trampoline_addr[p.fn] /\ trampoline[code[p.fn]] = [fn |-> p.fn, code |-> Orig]
      BY <1>1, <2>3, <3>1 DEF TableInv, CodeInv
    <3>3. /\ pool_addr \in mapped /\ trampoline_slot[p.fn] \in slot_used /\ trampoline_slot[p.fn] \in Slots
          /\ trampoline_addr[p.fn] = SlotAddr(pool_addr, trampoline_slot[p.fn])
      BY <1>1, <3>1, Running
    <3> QED
      BY <3>2, <3>3 DEF Kept
  <2> QED
    BY <1>2, <2>2, <2>3, Zenon DEF SafeNow, Safe
<1>4. CASE p.where = "start" /\ code[p.fn] \notin Addrs
  <2>1. Through(p) = At("mid", p.fn)
    BY <1>4, Zenon DEF Through
  <2>2. Through(p) \in Places /\ Through(p).where = "mid" /\ Through(p).fn = p.fn
    BY <1>1, <2>1, PlaceTypes, SMT, Z3
  <2>3. p.fn \notin harmed => code[p.fn] = Orig
    BY <1>1, <1>4, Running, Zenon DEF TableInv, CodeInv
  <2> QED
    BY <1>2, <1>4, <2>2, <2>3, Zenon DEF SafeNow, Safe
<1>5. CASE p.where # "start"
  BY <1>2, <1>5 DEF Through
<1> QED
  BY <1>3, <1>4, <1>5

\* Steps of the target.
LEMMA TargetThread ==
    ASSUME PatchInv, NEW t \in Threads, (\E f \in Functions : Enter(t, f)) \/ Execute(t) \/ Interrupt(t) \/ Resume(t)
    PROVE  ThreadInv'
<1>1. UNCHANGED <<code, trampoline, mapped, pool_addr, slot_used, harmed, endangered>>
  BY DEF Enter, Execute, Interrupt, Resume, UnchangedTracer, pool, memory
<1>2. at[t] \in Places /\ pending[t] \in Places /\ TableInv /\ PlaceType /\ DerailExplained
      /\ \A u \in Threads \ endangered : SafeNow(at[u]) /\ SafeNow(pending[u])
  BY DEF PatchInv, ThreadInv, PlaceType
<1>3. Out \in Places /\ SafeNow(Out) /\ \A f \in Functions : At("start", f) \in Places /\ SafeNow(At("start", f))
  BY PlaceTypes, Zenon DEF SafeNow, Safe, Out
<1>4. t \notin derailed
  BY DEF Enter, Execute, Interrupt, Resume, Moves
<1>5. PICK a, p : /\ a \in Places /\ p \in Places /\ at' = [at EXCEPT ![t] = a] /\ pending' = [pending EXCEPT ![t] = p]
                  /\ t \notin endangered => SafeNow(a) /\ SafeNow(p)
                  /\ derailed' \subseteq Threads
                  /\ derailed' = derailed \/ (derailed' = derailed \cup {t} /\ (t \notin endangered => a.fn \in harmed))
  <2>1. at = [at EXCEPT ![t] = at[t]] /\ pending = [pending EXCEPT ![t] = pending[t]] /\ derailed \subseteq Threads
    BY <1>2 DEF PlaceType
  <2>2. CASE \E f \in Functions : Enter(t, f)
    BY <1>2, <1>3, <2>1, <2>2, Zenon DEF Enter
  <2>3. CASE Execute(t) /\ Bad(at[t])
    <3>1. at' = at /\ pending' = pending /\ derailed' = derailed \cup {t}
      BY <2>3 DEF Execute
    <3>2. t \notin endangered => at[t].fn \in harmed
      BY <1>2, <2>3, SafeNotBad
    <3> QED
      BY <1>2, <2>1, <3>1, <3>2
  <2>4. CASE Execute(t) /\ ~Bad(at[t])
    <3>1. at' = [at EXCEPT ![t] = Through(at[t])] /\ pending' = pending /\ derailed' = derailed /\ at[t] # Out
      BY <2>4 DEF Execute
    <3>2. Through(at[t]) \in Places /\ SafeNow(Through(at[t]))
      BY <1>2, <3>1, PlaceFacts, ThroughSafe
    <3> QED
      BY <1>2, <2>1, <3>1, <3>2, Zenon
  <2>5. CASE Interrupt(t)
    BY <1>2, <1>3, <2>1, <2>5, Zenon DEF Interrupt
  <2>6. CASE Resume(t)
    BY <1>2, <1>3, <2>1, <2>6, Zenon DEF Resume
  <2> QED
    BY <2>2, <2>3, <2>4, <2>5, <2>6
<1>6. PlaceType'
  BY <1>1, <1>2, <1>5 DEF PlaceType
<1>7. ASSUME NEW u \in Threads \ endangered PROVE SafeNow(at'[u]) /\ SafeNow(pending'[u])
  BY <1>2, <1>5, <1>7 DEF PlaceType
<1>8. DerailExplained'
  BY <1>1, <1>2, <1>4, <1>5 DEF DerailExplained, PlaceType
<1> QED
  BY <1>1, <1>6, <1>7, <1>8 DEF ThreadInv, SafeNow

\* zt_ensure_patch_regions_are_safe: in the memory as it still is, everyone is safe, and
\* nobody is left in the middle of a region.
LEMMA StepOutSafe ==
    ASSUME PatchInv, NEW R \in SUBSET Functions, StepOut(R)
    PROVE  /\ at' \in [Threads -> Places] /\ pending' \in [Threads -> Places] /\ derailed' \subseteq Threads
           /\ \A t \in Threads \ endangered : SafeNow(at'[t]) /\ SafeNow(pending'[t])
           /\ \A t \in derailed' : t \in endangered \/ at'[t].fn \in harmed
           /\ \A t \in Threads \ endangered : at'[t].where = "mid" /\ at'[t].fn \in R => at'[t].fn \in harmed
<1> DEFINE inside == {t \in Threads \ derailed : at[t].where \in {"start", "mid"} /\ at[t].fn \in R}
<1> DEFINE bad == {t \in inside : Bad(at[t])}
<1> DEFINE through(p) == IF code[p.fn] \in Addrs THEN Through(p) ELSE At("body", p.fn)
<1>1. PICK away \in SUBSET {t \in inside \ bad : pending[t] = Out} :
         /\ at' = [t \in Threads |-> IF t \in away THEN Out ELSE IF t \in inside \ bad THEN through(at[t]) ELSE at[t]]
         /\ pending' = [t \in Threads |-> IF t \in away THEN at[t] ELSE pending[t]]
         /\ derailed' = derailed \cup bad
  BY Zenon DEF StepOut
<1>2. TableInv /\ at \in [Threads -> Places] /\ pending \in [Threads -> Places] /\ derailed \subseteq Threads /\ DerailExplained
      /\ \A t \in Threads \ endangered : SafeNow(at[t]) /\ SafeNow(pending[t])
  BY DEF PatchInv, ThreadInv, PlaceType
<1>3. SafeNow(Out) /\ Out \in Places /\ Out.where = "out"
  BY PlaceTypes, Zenon DEF SafeNow, Safe, Out
<1>4. ASSUME NEW t \in inside
      PROVE  /\ through(at[t]) \in Places /\ SafeNow(through(at[t])) /\ through(at[t]).where # "mid"
             /\ at[t] \in Places
  <2>1. at[t] \in Places /\ at[t].where \in {"start", "mid"}
    BY <1>2, <1>4
  <2>2. /\ Through(at[t]) \in Places /\ SafeNow(Through(at[t]))
        /\ At("body", at[t].fn) \in Places /\ SafeNow(At("body", at[t].fn))
        /\ Through(at[t]).where = "mid" => code[at[t].fn] \notin Addrs
    BY <1>2, <2>1, ThroughSafe, Zenon
  <2>3. At("body", at[t].fn).where = "body"
    BY Zenon DEF At
  <2> QED
    BY <2>1, <2>2, <2>3
<1>5. ASSUME NEW t \in Threads
      PROVE  \/ t \in away /\ t \in inside /\ at'[t] = Out /\ pending'[t] = at[t]
             \/ t \in inside \ bad /\ at'[t] = through(at[t]) /\ pending'[t] = pending[t]
             \/ t \notin inside \ bad /\ at'[t] = at[t] /\ pending'[t] = pending[t]
  BY <1>1, Zenon
<1>6. ASSUME NEW t \in bad, t \notin endangered PROVE at[t].fn \in harmed
  BY <1>2, <1>6, SafeNotBad
<1>7. inside \subseteq Threads \ derailed /\ bad \subseteq inside
  OBVIOUS
<1>8. \A t \in Threads : t \in inside <=> t \notin derailed /\ at[t].where \in {"start", "mid"} /\ at[t].fn \in R
  OBVIOUS
<1> HIDE DEF inside, bad, through
<1>9. at' \in [Threads -> Places] /\ pending' \in [Threads -> Places] /\ derailed' \subseteq Threads
  BY <1>1, <1>2, <1>3, <1>4, <1>7
<1>10. ASSUME NEW t \in Threads \ endangered PROVE SafeNow(at'[t]) /\ SafeNow(pending'[t])
  BY <1>2, <1>3, <1>4, <1>5
<1>11. ASSUME NEW t \in derailed' PROVE t \in endangered \/ at'[t].fn \in harmed
  <2>1. t \notin inside \ bad /\ t \in Threads
    BY <1>1, <1>2, <1>7
  <2>2. at'[t] = at[t]
    BY <1>1, <1>7, <2>1
  <2>3. CASE t \in derailed
    BY <1>2, <2>2, <2>3 DEF DerailExplained
  <2>4. CASE t \in bad
    BY <1>6, <2>2, <2>4
  <2> QED
    BY <1>1, <2>3, <2>4
<1>12. ASSUME NEW t \in Threads \ endangered, at'[t].where = "mid", at'[t].fn \in R PROVE at'[t].fn \in harmed
  <2>1. t \notin inside \ bad /\ at'[t] = at[t]
    BY <1>3, <1>4, <1>5, <1>12
  <2>2. CASE t \in derailed
    BY <1>2, <2>1, <2>2 DEF DerailExplained
  <2>3. CASE t \notin derailed
    BY <1>6, <1>8, <1>12, <2>1, <2>3
  <2> QED
    BY <2>2, <2>3
<1> QED
  BY <1>9, <1>10, <1>11, <1>12

\* What a change of the target's memory must leave alone for a thread to stay safe.
Spares(p) ==
    /\ p.where = "mid" /\ code[p.fn] = Orig /\ p.fn \notin harmed' => code'[p.fn] = Orig
    /\ /\ p.where = "trampoline" /\ p.fn \notin harmed' /\ trampoline[p.addr] = [fn |-> p.fn, code |-> Orig]
       /\ Kept(p.addr, mapped, pool_addr, slot_used)
       => trampoline'[p.addr] = trampoline[p.addr] /\ Kept(p.addr, mapped', pool_addr', slot_used')

\* A safe place a command spares is safe after it.
LEMMA SparedSafe ==
    ASSUME NEW p, SafeNow(p), Spares(p), harmed \subseteq harmed'
    PROVE  Safe(p, code', trampoline', mapped', pool_addr', slot_used', harmed')
BY DEF SafeNow, Safe, Spares

\* A command that moves threads out of the regions R and then changes memory.
LEMMA CommandThread ==
    ASSUME PatchInv, NEW R \in SUBSET Functions, StepOut(R), harmed \subseteq harmed',
           endangered \subseteq endangered', endangered' \subseteq Threads,
           \A t \in Threads \ endangered' : Spares(at'[t]) /\ Spares(pending'[t])
    PROVE  ThreadInv'
<1>1. /\ at' \in [Threads -> Places] /\ pending' \in [Threads -> Places] /\ derailed' \subseteq Threads
      /\ \A t \in Threads \ endangered : SafeNow(at'[t]) /\ SafeNow(pending'[t])
      /\ \A t \in derailed' : t \in endangered \/ at'[t].fn \in harmed
  BY StepOutSafe
<1>2. PlaceType'
  BY <1>1 DEF PlaceType
<1>3. DerailExplained'
  BY <1>1 DEF DerailExplained
<1>4. ASSUME NEW t \in Threads \ endangered'
      PROVE  /\ Safe(at'[t], code', trampoline', mapped', pool_addr', slot_used', harmed')
             /\ Safe(pending'[t], code', trampoline', mapped', pool_addr', slot_used', harmed')
  BY <1>1, <1>4, SparedSafe
<1> QED
  BY <1>2, <1>3, <1>4 DEF ThreadInv, SafeNow

\* A command that moves nobody and leaves what is safe.
LEMMA QuietThread ==
    ASSUME PatchInv, UNCHANGED <<at, pending, endangered, derailed>>, harmed \subseteq harmed',
           \A p \in Places : Spares(p)
    PROVE  ThreadInv'
<1>1. PlaceType /\ DerailExplained /\ \A t \in Threads \ endangered : SafeNow(at[t]) /\ SafeNow(pending[t])
  BY DEF PatchInv, ThreadInv
<1>2. PlaceType' /\ DerailExplained'
  BY <1>1 DEF PlaceType, DerailExplained
<1>3. ASSUME NEW t \in Threads \ endangered
      PROVE  /\ Safe(at[t], code', trampoline', mapped', pool_addr', slot_used', harmed')
             /\ Safe(pending[t], code', trampoline', mapped', pool_addr', slot_used', harmed')
  <2>1. at[t] \in Places /\ pending[t] \in Places
    BY <1>1 DEF PlaceType
  <2> QED
    BY <1>1, <2>1, SparedSafe
<1> QED
  BY <1>2, <1>3 DEF ThreadInv, SafeNow

\* A slot that is kept is not the one an installation gets, unless it is the probe's own ...
LEMMA AllocOwn ==
    ASSUME TableInv, NEW f \in Functions, NEW p \in Pools, NEW k \in Slots, Allocates(f, p, k),
           Kept(SlotAddr(p, k), mapped, pool_addr, slot_used)
    PROVE  state[f] # "EMPTY" /\ trampoline[SlotAddr(p, k)].fn = f
<1>1. PICK q \in mapped, j \in Slots : SlotAddr(p, k) = SlotAddr(q, j) /\ (q = pool_addr => j \in slot_used)
  BY DEF Kept
<1>2. q \in Pools /\ q # None
  BY Distinct DEF TableInv, MemoryType
<1>3. /\ state[f] # "EMPTY" => trampoline_addr[f] = SlotAddr(p, k)
      /\ state[f] = "EMPTY" => k \notin slot_used
      /\ pool_addr # None => p = pool_addr
      /\ pool_addr = None => p \notin mapped
  BY AllocFacts
<1>4. q = p /\ j = k
  BY <1>1, <1>2, SlotAddrInjective
<1>5. state[f] # "EMPTY"
  BY <1>1, <1>3, <1>4
<1> QED
  BY <1>3, <1>5, Running

\* ... and stays kept when the pool is there or a new one is mapped.
LEMMA AllocSpares ==
    ASSUME TableInv, NEW f \in Functions, NEW p \in Pools, NEW k \in Slots, Allocates(f, p, k), NEW x,
           Kept(x, mapped, pool_addr, slot_used)
    PROVE  /\ slot_used = {} => x \notin {SlotAddr(p, j) : j \in Slots} /\ Kept(x, mapped \ {p}, None, {})
           /\ \A pl \in {p, None} : \A used : slot_used \subseteq used => Kept(x, mapped \cup {p}, pl, used)
<1>1. PICK q \in mapped, j \in Slots : x = SlotAddr(q, j) /\ (q = pool_addr => j \in slot_used)
  BY DEF Kept
<1>2. q \in Pools /\ q # None
  BY Distinct DEF TableInv, MemoryType
<1>3. /\ pool_addr # None => p = pool_addr
      /\ pool_addr = None => p \notin mapped
  BY AllocFacts
<1>4. q = p => pool_addr = p /\ j \in slot_used
  BY <1>1, <1>3
<1>6. ASSUME slot_used = {} PROVE x \notin {SlotAddr(p, i) : i \in Slots} /\ Kept(x, mapped \ {p}, None, {})
  <2>1. q # p
    BY <1>4, <1>6
  <2>2. \A i \in Slots : x # SlotAddr(p, i)
    BY <1>1, <1>2, <2>1, SlotAddrInjective
  <2> QED
    BY <1>1, <1>2, <2>1, <2>2 DEF Kept
<1>7. ASSUME NEW pl \in {p, None}, NEW used, slot_used \subseteq used PROVE Kept(x, mapped \cup {p}, pl, used)
  BY <1>1, <1>2, <1>4, <1>7 DEF Kept
<1> QED
  BY <1>6, <1>7

\* zt_probe_install, and the threads its stepping leaves within the patched bytes.
LEMMA InstallThread ==
    ASSUME PatchInv, NEW f \in Functions, NEW p \in Pools, NEW k \in Slots, Install(f, p, k)
    PROVE  ThreadInv'
<1> DEFINE a == SlotAddr(p, k)
<1> DEFINE R == Regions \cup {f}
<1>1. /\ pool_addr' = p /\ mapped' = mapped \cup {p} /\ slot_used' = slot_used \cup {k}
      /\ trampoline' = [trampoline EXCEPT ![a] = [fn |-> f, code |-> code[f]]] /\ code' = [code EXCEPT ![f] = a]
      /\ harmed' = harmed /\ endangered' = endangered \cup InBytes(f)
      /\ state[f] # "INSTALLED" /\ Allocates(f, p, k) /\ StepOut(R)
  BY DEF Install, SavedCode, Built
<1>2. R \in SUBSET Functions /\ f \in R /\ TableInv
  BY DEF Regions, PatchInv
<1> HIDE DEF R
<1>3. f \notin harmed => code[f] = Orig
  BY <1>1, <1>2, Zenon DEF TableInv, CodeInv
<1>4. code \in [Functions -> Code] /\ trampoline \in [Addrs -> [fn : Functions \cup {Nowhere}, code : Code]]
  BY <1>2 DEF TableInv, MemoryType
<1>5. ASSUME NEW x \in Places, x.where = "mid" => x.fn # f \/ f \in harmed PROVE Spares(x)
  <2>1. ASSUME x.where = "mid", code[x.fn] = Orig, x.fn \notin harmed' PROVE code'[x.fn] = Orig
    BY <1>1, <1>4, <1>5, <2>1, PlaceFacts, Zenon
  <2>2. ASSUME x.where = "trampoline", x.fn \notin harmed', trampoline[x.addr] = [fn |-> x.fn, code |-> Orig],
               Kept(x.addr, mapped, pool_addr, slot_used)
        PROVE  trampoline'[x.addr] = trampoline[x.addr] /\ Kept(x.addr, mapped', pool_addr', slot_used')
    <3>1. x.addr \in Addrs
      BY <2>2, PlaceFacts, Zenon
    <3>2. Kept(x.addr, mapped', pool_addr', slot_used')
      <4>1. slot_used \subseteq slot_used'
        BY <1>1
      <4> QED
        BY <1>1, <1>2, <2>2, <4>1, AllocSpares, Zenon
    <3>3. x.addr = a => x.fn = f
      <4> SUFFICES ASSUME x.addr = a PROVE x.fn = f
        OBVIOUS
      <4>1. Kept(a, mapped, pool_addr, slot_used) /\ trampoline[a].fn = x.fn
        <5> HIDE DEF a
        <5> QED
          BY <2>2
      <4>2. TableInv /\ Allocates(f, p, k)
        BY <1>1, <1>2
      <4>3. Kept(SlotAddr(p, k), mapped, pool_addr, slot_used)
        BY <4>1
      <4>4. trampoline[SlotAddr(p, k)].fn = f
        BY <4>2, <4>3, AllocOwn, Zenon
      <4> QED
        BY <4>1, <4>4
    <3>4. x.addr = a => trampoline[x.addr] = [fn |-> f, code |-> code[f]]
      BY <1>1, <1>3, <2>2, <3>3, Zenon
    <3> QED
      BY <1>1, <1>4, <3>1, <3>2, <3>4
  <2> QED
    BY <2>1, <2>2, Zenon DEF Spares
<1>6. ASSUME NEW t \in Threads \ endangered' PROVE Spares(at'[t]) /\ Spares(pending'[t])
  <2>1. at'[t] \in Places /\ pending'[t] \in Places /\ t \notin endangered
    BY <1>1, <1>2, StepOutSafe, Zenon
  <2>2. at'[t].where = "mid" => at'[t].fn # f \/ f \in harmed
    BY <1>1, <1>2, <2>1, StepOutSafe, Zenon
  <2>3. pending'[t].where = "mid" => pending'[t].fn # f
    <3>1. pending'[t] # At("mid", f)
      BY <1>1 DEF InBytes
    <3> QED
      BY <2>1, <3>1, PlaceFacts
  <2> QED
    BY <1>5, <2>1, <2>2, <2>3, Zenon
<1>7. harmed \subseteq harmed' /\ endangered \subseteq endangered' /\ endangered' \subseteq Threads
  BY <1>1 DEF InBytes, PatchInv, ThreadInv, PlaceType
<1> QED
  BY <1>1, <1>2, <1>6, <1>7, CommandThread, Zenon

\* An installation fails after it allocated its slot, and is rolled back.
LEMMA InstallFailsLateThread ==
    ASSUME PatchInv, NEW f \in Functions, NEW p \in Pools, NEW k \in Slots, NEW torn \in BOOLEAN, NEW unmapFails \in BOOLEAN,
           InstallFailsLate(f, p, k, torn, unmapFails)
    PROVE  ThreadInv'
<1> DEFINE a == SlotAddr(p, k)
<1> DEFINE empty == trampoline_addr[f] # a /\ slot_used = {}
<1> DEFINE R == Regions \cup {f}
<1>1. slot_used' = slot_used /\ endangered' = endangered /\ state[f] # "INSTALLED" /\ Allocates(f, p, k) /\ StepOut(R)
  BY Zenon DEF InstallFailsLate, Rollback
<1>2. /\ torn => code' = [code EXCEPT ![f] = Torn] /\ harmed' = harmed \cup {f}
      /\ ~torn => code' = code /\ harmed' = harmed
  BY DEF InstallFailsLate
<1>3. /\ empty /\ ~unmapFails => pool_addr' = None /\ Without(p)
      /\ ~(empty /\ ~unmapFails) => /\ pool_addr' \in {p, None}
                                    /\ mapped' = mapped \cup {p}
                                    /\ trampoline' = [trampoline EXCEPT ![a] = [fn |-> f, code |-> code[f]]]
  BY Zenon DEF InstallFailsLate, Rollback, Built, SavedCode
<1>4. R \in SUBSET Functions /\ TableInv
  BY DEF Regions, PatchInv
<1> HIDE DEF R
<1>5. f \notin harmed => code[f] = Orig
  BY <1>1, <1>4, Zenon DEF TableInv, CodeInv
<1>6. code \in [Functions -> Code] /\ trampoline \in [Addrs -> [fn : Functions \cup {Nowhere}, code : Code]]
  BY <1>4 DEF TableInv, MemoryType
<1>7. ASSUME NEW x \in Places PROVE Spares(x)
  <2>1. ASSUME x.where = "mid", code[x.fn] = Orig, x.fn \notin harmed' PROVE code'[x.fn] = Orig
    BY <1>2, <1>6, <2>1, PlaceFacts
  <2>2. ASSUME x.where = "trampoline", x.fn \notin harmed', trampoline[x.addr] = [fn |-> x.fn, code |-> Orig],
               Kept(x.addr, mapped, pool_addr, slot_used)
        PROVE  trampoline'[x.addr] = trampoline[x.addr] /\ Kept(x.addr, mapped', pool_addr', slot_used')
    <3>1. x.addr \in Addrs /\ x.fn \notin harmed
      BY <1>2, <2>2, PlaceFacts
    <3>2. CASE empty /\ ~unmapFails
      <4>1. x.addr \notin {SlotAddr(p, j) : j \in Slots} /\ Kept(x.addr, mapped \ {p}, None, {})
        BY <1>1, <1>4, <2>2, <3>2, AllocSpares, Zenon
      <4> QED
        BY <1>1, <1>3, <3>1, <3>2, <4>1, Zenon DEF Without
    <3>3. CASE ~(empty /\ ~unmapFails)
      <4>1. Kept(x.addr, mapped', pool_addr', slot_used')
        <5>1. \A pl \in {p, None} : \A used : slot_used \subseteq used => Kept(x.addr, mapped \cup {p}, pl, used)
          BY <1>1, <1>4, <2>2, AllocSpares, Zenon
        <5>2. slot_used \subseteq slot_used' /\ pool_addr' \in {p, None} /\ mapped' = mapped \cup {p}
          BY <1>1, <1>3, <3>3, Zenon
        <5> QED
          BY <5>1, <5>2
      <4>2. x.addr = a => x.fn = f
        <5> SUFFICES ASSUME x.addr = a PROVE x.fn = f
          OBVIOUS
        <5>1. Kept(a, mapped, pool_addr, slot_used) /\ trampoline[a].fn = x.fn
          <6> HIDE DEF a
          <6> QED
            BY <2>2
        <5>2. TableInv /\ Allocates(f, p, k)
          BY <1>1, <1>4
        <5>3. trampoline[a].fn = f
          BY <5>1, <5>2, AllocOwn, SMT, Z3
        <5> QED
          BY <5>1, <5>3, Zenon
      <4>3. x.addr = a => trampoline[x.addr] = [fn |-> f, code |-> code[f]]
        BY <1>5, <2>2, <3>1, <4>2
      <4> QED
        BY <1>3, <1>6, <3>1, <3>3, <4>1, <4>3, Zenon
    <3> QED
      BY <3>2, <3>3, Zenon
  <2> QED
    BY <2>1, <2>2, Zenon DEF Spares
<1>8. \A t \in Threads : at'[t] \in Places /\ pending'[t] \in Places
  BY <1>1, <1>4, StepOutSafe
<1>9. harmed \subseteq harmed' /\ endangered \subseteq endangered' /\ endangered' \subseteq Threads
  BY <1>1, <1>2 DEF PatchInv, ThreadInv, PlaceType
<1>10. \A t \in Threads \ endangered' : Spares(at'[t]) /\ Spares(pending'[t])
  BY <1>7, <1>8
<1> QED
  BY <1>1, <1>4, <1>9, <1>10, CommandThread, Zenon

\* Original bytes come back, or the function is harmed: no thread in the middle minds.
LEMMA UninstallThread ==
    ASSUME PatchInv, NEW f \in Functions, Disable(f) \/ \E torn \in BOOLEAN : UninstallFails(f, torn)
    PROVE  ThreadInv'
<1>1. UNCHANGED <<pool_addr, slot_used, trampoline, mapped, endangered>> /\ state[f] = "INSTALLED" /\ StepOut(Regions)
  BY DEF Disable, UninstallFails, pool
<1>2. \/ code' = [code EXCEPT ![f] = orig_code[f]] /\ harmed' = harmed
      \/ code' = [code EXCEPT ![f] = Torn] /\ harmed' = harmed \cup {f}
      \/ code' = code /\ harmed' = harmed
  BY DEF Disable, UninstallFails
<1>3. TableInv /\ Regions \in SUBSET Functions
  BY DEF PatchInv, Regions
<1>4. f \notin harmed => orig_code[f] = Orig
  BY <1>1, <1>3, Zenon DEF TableInv, CodeInv
<1>5. ASSUME NEW x \in Places PROVE Spares(x)
  <2>1. ASSUME x.where = "mid", code[x.fn] = Orig, x.fn \notin harmed' PROVE code'[x.fn] = Orig
    BY <1>2, <1>3, <1>4, <2>1, PlaceFacts DEF TableInv, MemoryType
  <2> QED
    BY <1>1, <2>1 DEF Spares
<1>6. \A t \in Threads : at'[t] \in Places /\ pending'[t] \in Places
  BY <1>1, <1>3, StepOutSafe
<1>7. harmed \subseteq harmed' /\ endangered \subseteq endangered' /\ endangered' \subseteq Threads
  BY <1>1, <1>2 DEF PatchInv, ThreadInv, PlaceType
<1>8. \A t \in Threads \ endangered' : Spares(at'[t]) /\ Spares(pending'[t])
  BY <1>5, <1>6
<1> QED
  BY <1>1, <1>3, <1>7, <1>8, CommandThread, Zenon

\* Releasing the probes fs touches no slot that is kept and not one of theirs.
LEMMA ReleaseSpares ==
    ASSUME TableInv, NEW fs \in SUBSET Functions, \A f \in fs : state[f] # "EMPTY", NEW unmapFails \in BOOLEAN, NEW reset \in BOOLEAN,
           Release(fs, unmapFails, reset), NEW x \in Addrs, Kept(x, mapped, pool_addr, slot_used),
           \A j \in FreedSlots(fs) : x # SlotAddr(pool_addr, j)
    PROVE  trampoline'[x] = trampoline[x] /\ Kept(x, mapped', pool_addr', slot_used')
<1> DEFINE rest == slot_used \ {trampoline_slot[f] : f \in fs}
<1>1. PICK q \in mapped, j \in Slots : x = SlotAddr(q, j) /\ (q = pool_addr => j \in slot_used)
  BY DEF Kept
<1>2. q \in Pools /\ q # None
  BY Distinct DEF TableInv, MemoryType
<1>3. q = pool_addr => j \in rest
  BY <1>1, FreedOwned
<1>4. /\ slot_used' = (IF reset THEN {} ELSE rest)
      /\ unmapFails => rest = {} /\ fs # {}
      /\ reset => pool_addr' = None
      /\ rest # {} => mapped' = mapped /\ trampoline' = trampoline /\ (~reset => pool_addr' = pool_addr)
      /\ rest = {} /\ fs # {} /\ ~unmapFails => pool_addr' = None /\ Without(pool_addr)
      /\ fs = {} => mapped' = mapped /\ trampoline' = trampoline
      /\ unmapFails => mapped' = mapped /\ trampoline' = trampoline
  BY ReleaseFacts, Zenon
<1>5. pool_addr' \in {pool_addr, None}
  BY DEF Release
<1> HIDE DEF rest
<1>6. CASE rest = {} /\ fs # {} /\ ~unmapFails
  <2>1. q # pool_addr
    BY <1>3, <1>6
  <2>2. fs # {} => pool_addr \in Pools
    BY Running
  <2>3. \A i \in Slots : x # SlotAddr(pool_addr, i)
    BY <1>1, <1>2, <1>6, <2>1, <2>2, SlotAddrInjective
  <2>4. trampoline'[x] = trampoline[x] /\ q \in mapped' /\ pool_addr' = None
    BY <1>4, <1>6, <2>1, <2>3 DEF Without
  <2> QED
    BY <1>1, <1>2, <2>4 DEF Kept
<1>7. CASE ~(rest = {} /\ fs # {} /\ ~unmapFails)
  <2>1. mapped' = mapped /\ trampoline' = trampoline
    BY <1>4, <1>7
  <2>2. q = pool_addr' => j \in slot_used'
    BY <1>2, <1>3, <1>4, <1>5
  <2> QED
    BY <1>1, <2>1, <2>2 DEF Kept
<1> QED
  BY <1>6, <1>7

\* cmd_untrace and zt_trace_shutdown: fs are forgotten, gone of them had their bytes restored.
LEMMA ReleaseThread ==
    ASSUME PatchInv, NEW fs \in SUBSET Functions, \A f \in fs : state[f] # "EMPTY", NEW unmapFails \in BOOLEAN, NEW reset \in BOOLEAN,
           Release(fs, unmapFails, reset), NEW gone \in SUBSET fs, \A f \in gone : state[f] = "INSTALLED",
           code' = [f \in Functions |-> IF f \in gone THEN orig_code[f] ELSE code[f]],
           harmed \subseteq harmed', endangered' = endangered \cup InSlots(FreedSlots(fs)), NEW R \in SUBSET Functions, StepOut(R)
    PROVE  ThreadInv'
<1>1. TableInv
  BY DEF PatchInv
<1>2. ASSUME NEW x \in Places, \A j \in FreedSlots(fs) : x.addr # SlotAddr(pool_addr, j) PROVE Spares(x)
  <2>1. ASSUME x.where = "mid", code[x.fn] = Orig, x.fn \notin harmed' PROVE code'[x.fn] = Orig
    <3>1. x.fn \in Functions \ harmed
      BY <2>1, PlaceFacts
    <3>2. x.fn \in gone => orig_code[x.fn] = Orig
      BY <1>1, <3>1, Zenon DEF TableInv, CodeInv
    <3> QED
      BY <2>1, <3>1, <3>2
  <2>2. ASSUME x.where = "trampoline", Kept(x.addr, mapped, pool_addr, slot_used)
        PROVE  trampoline'[x.addr] = trampoline[x.addr] /\ Kept(x.addr, mapped', pool_addr', slot_used')
    BY <1>1, <1>2, <2>2, PlaceFacts, ReleaseSpares, Zenon
  <2> QED
    BY <2>1, <2>2 DEF Spares
<1>3. \A t \in Threads : at'[t] \in Places /\ pending'[t] \in Places
  BY StepOutSafe, Zenon
<1>4. ASSUME NEW t \in Threads \ endangered' PROVE Spares(at'[t]) /\ Spares(pending'[t])
  <2>1. \A j \in FreedSlots(fs) : at'[t].addr # SlotAddr(pool_addr, j) /\ pending'[t].addr # SlotAddr(pool_addr, j)
    BY <1>4 DEF InSlots
  <2> QED
    BY <1>2, <1>3, <2>1
<1>5. endangered \subseteq endangered' /\ endangered' \subseteq Threads
  BY DEF InSlots, PatchInv, ThreadInv, PlaceType
<1> QED
  BY <1>4, <1>5, CommandThread

\* cmd_untrace and zt_trace_shutdown are such releases.
LEMMA UntraceThread ==
    ASSUME PatchInv, NEW f \in Functions, NEW unmapFails \in BOOLEAN, Untrace(f, unmapFails)
    PROVE  ThreadInv'
<1> DEFINE gone == {g \in {f} : state[g] = "INSTALLED"}
<1> DEFINE R == IF gone = {} THEN {} ELSE Regions
<1> DEFINE last == Registered = {f}
<1>1. /\ state[f] # "EMPTY" /\ harmed' = harmed /\ StepOut(R) /\ endangered' = endangered \cup InSlots(FreedSlots({f}))
      /\ code' = [g \in Functions |-> IF g \in gone THEN orig_code[g] ELSE code[g]]
      /\ Release({f}, unmapFails, last)
  BY DEF Untrace, Registered, Restore
<1>2. /\ last \in BOOLEAN /\ {f} \in SUBSET Functions /\ (\A g \in {f} : state[g] # "EMPTY") /\ R \in SUBSET Functions
      /\ gone \in SUBSET {f} /\ (\A g \in gone : state[g] = "INSTALLED") /\ harmed \subseteq harmed'
  BY <1>1 DEF Regions
<1> HIDE DEF gone, R, last
<1> QED
  BY <1>1, <1>2, ReleaseThread, Zenon

\* zt_trace_shutdown keeps what is known of the threads.
LEMMA ShutdownThread ==
    ASSUME PatchInv, NEW failing \in SUBSET Functions, NEW unmapFails \in BOOLEAN, Shutdown(failing, unmapFails)
    PROVE  ThreadInv'
<1> DEFINE gone == {g \in Registered \ failing : state[g] = "INSTALLED"}
<1> DEFINE R == IF gone = {} THEN {} ELSE Regions
<1>1. /\ harmed' = harmed \cup failing /\ StepOut(R) /\ endangered' = endangered \cup InSlots(FreedSlots(Registered))
      /\ code' = [g \in Functions |-> IF g \in gone THEN orig_code[g] ELSE code[g]]
      /\ Release(Registered, unmapFails, TRUE)
  BY Zenon DEF Shutdown, Restore
<1>2. /\ TRUE \in BOOLEAN /\ Registered \in SUBSET Functions /\ (\A g \in Registered : state[g] # "EMPTY")
      /\ R \in SUBSET Functions /\ gone \in SUBSET Registered /\ (\A g \in gone : state[g] = "INSTALLED") /\ harmed \subseteq harmed'
  BY <1>1, Zenon DEF Regions, Registered
<1> HIDE DEF gone, R
<1> QED
  BY <1>1, <1>2, ReleaseThread, Zenon

\* A detach forgets the probes and leaves memory as it is.
LEMMA DetachThread ==
    ASSUME PatchInv, Detach \/ PollDetached
    PROVE  ThreadInv'
<1>1. UNCHANGED <<at, pending, endangered, derailed, code, trampoline, mapped>> /\ harmed \subseteq harmed'
  BY DEF Detach, PollDetached, memory, places
<1>2. pool_addr' = None \/ (pool_addr' = pool_addr /\ slot_used' = slot_used)
  BY DEF Detach, PollDetached, pool
<1>3. mapped \subseteq Pools /\ None \notin Pools
  BY Distinct DEF PatchInv, TableInv, MemoryType
<1>4. ASSUME NEW x \in Places PROVE Spares(x)
  <2>1. Kept(x.addr, mapped, pool_addr, slot_used) => Kept(x.addr, mapped', pool_addr', slot_used')
    BY <1>1, <1>2, <1>3 DEF Kept
  <2> QED
    BY <1>1, <2>1, Zenon DEF Spares
<1> QED
  BY <1>1, <1>4, QuietThread
-----------------------------------------------------------------------------
(* The invariant and what follows from it.                                 *)

\* The invariant holds at first.
LEMMA PatchInitial == PatchInit => PatchInv
<1> SUFFICES ASSUME PatchInit PROVE PatchInv
  OBVIOUS
<1>1. Blank \in [fn : Functions \cup {Nowhere}, code : Code]
  BY Distinct DEF Blank
<1>2. TableType /\ MemoryType
  BY <1>1, Distinct DEF PatchInit, TableType, MemoryType
<1>3. ControlType
  <2>1. 0 \in 0 .. MaxFailures /\ 0 \in 0 .. MaxDetaches
    BY PatchOptionsAssumption
  <2>2. failures = 0 /\ detaches = 0 /\ attached = FALSE /\ runtime = "INACTIVE" /\ stopped = FALSE /\ harmed = {} /\ leaked = FALSE
    BY DEF PatchInit
  <2> QED
    BY <2>1, <2>2, Zenon DEF ControlType
<1>4. PoolInv /\ OwnerInv /\ CodeInv /\ LeakInv
  BY DEF PatchInit, PoolInv, OwnerInv, CodeInv, LeakInv, Registered
<1>5. ThreadInv
  <2>1. Out \in Places /\ SafeNow(Out)
    BY PlaceTypes, Zenon DEF SafeNow, Safe, Out
  <2> QED
    BY <2>1 DEF PatchInit, ThreadInv, PlaceType, DerailExplained
<1> QED
  BY <1>2, <1>3, <1>4, <1>5 DEF PatchInv, TableInv

\* Commands that change neither the table nor memory, steps of the target and stuttering.
LEMMA QuietStep ==
    ASSUME PatchInv, UNCHANGED <<probes, pool, memory, harmed, leaked>>, ControlType',
           runtime' = "INACTIVE" => pool_addr = None, ~attached' => Registered = {},
           UNCHANGED <<at, pending, endangered, derailed>>
    PROVE  PatchInv'
<1>1. TableInv'
  BY TableSame DEF PatchInv
<1>2. harmed \subseteq harmed' /\ \A x \in Places : Spares(x)
  BY Zenon DEF Spares, pool, memory
<1>3. ThreadInv'
  BY <1>2, QuietThread
<1> QED
  BY <1>1, <1>3 DEF PatchInv

\* Every command and every step of the target keeps it.
LEMMA PatchStep == PatchInv /\ [PatchNext]_patchVars => PatchInv'
<1> SUFFICES ASSUME PatchInv, [PatchNext]_patchVars PROVE PatchInv'
  OBVIOUS
<1>1. /\ TableInv /\ ControlType
      /\ runtime = "INACTIVE" => pool_addr = None
      /\ ~attached => Registered = {}
  BY DEF PatchInv, TableInv, PoolInv
<1>2. ASSUME NEW f \in Functions, InstallFailsEarly(f) PROVE PatchInv'
  <2>1. failures' \in 0 .. MaxFailures /\ detaches' = detaches
    BY <1>1, <1>2, CostsBounded DEF InstallFailsEarly
  <2>2. ControlType' /\ (runtime' = "INACTIVE" => runtime = "INACTIVE") /\ attached' = attached
    BY <1>1, <1>2, <2>1 DEF InstallFailsEarly, LeaveStopped, ControlType
  <2> QED
    BY <1>1, <1>2, <2>2, QuietStep DEF InstallFailsEarly, places
<1>3. ASSUME NEW f \in Functions, Retrace(f) PROVE PatchInv'
  <2>1. ControlType' /\ runtime' = "RUNNING" /\ attached' = attached
    BY <1>1, <1>3, Zenon DEF Retrace, LetRun, ControlType
  <2> QED
    BY <1>1, <1>3, <2>1, QuietStep, SMT, Z3 DEF Retrace, places
<1>4. CASE Attach
  <2>1. ControlType' /\ runtime' = runtime /\ attached' = TRUE
    BY <1>1, <1>4 DEF Attach, ControlType
  <2> QED
    BY <1>1, <1>4, <2>1, QuietStep DEF Attach, places
<1>5. CASE StopTarget
  <2>1. ControlType' /\ (runtime' = "INACTIVE" => runtime = "INACTIVE") /\ attached' = attached
    BY <1>1, <1>5 DEF StopTarget, LeaveStopped, ControlType
  <2> QED
    BY <1>1, <1>5, <2>1, QuietStep DEF StopTarget, places
<1>6. CASE Continue
  <2>1. ControlType' /\ (runtime' = "INACTIVE" => runtime = "INACTIVE") /\ attached' = attached
    BY <1>1, <1>6, Zenon DEF Continue, ControlType
  <2> QED
    BY <1>1, <1>6, <2>1, QuietStep DEF Continue, places
<1>7. CASE UNCHANGED patchVars
  <2>1. ControlType' /\ runtime' = runtime /\ attached' = attached
    BY <1>1, <1>7 DEF patchVars, control, ControlType
  <2> QED
    BY <1>1, <1>7, <2>1, QuietStep DEF patchVars, places
<1>8. CASE Target
  <2>1. PICK t \in Threads : (\E f \in Functions : Enter(t, f)) \/ Execute(t) \/ Interrupt(t) \/ Resume(t)
    BY <1>8 DEF Target
  <2>2. ThreadInv'
    BY <2>1, TargetThread
  <2>3. UnchangedTracer
    BY <2>1 DEF Enter, Execute, Interrupt, Resume
  <2>4. ControlType' /\ runtime' = runtime /\ attached' = attached
    BY <1>1, <2>3 DEF UnchangedTracer, control, ControlType
  <2>5. TableInv'
    BY <1>1, <2>3, <2>4, TableSame DEF UnchangedTracer
  <2> QED
    BY <2>2, <2>5 DEF PatchInv
<1>9. CASE Detach \/ PollDetached
  BY <1>1, <1>9, DetachTable, DetachThread DEF PatchInv
<1>10. ASSUME NEW f \in Functions, NEW p \in Pools, NEW k \in Slots, Install(f, p, k) PROVE PatchInv'
  BY <1>1, <1>10, InstallTable, InstallThread DEF PatchInv
<1>11. ASSUME NEW f \in Functions, NEW p \in Pools, NEW k \in Slots, NEW torn \in BOOLEAN, NEW unmapFails \in BOOLEAN,
              InstallFailsLate(f, p, k, torn, unmapFails)
       PROVE  PatchInv'
  BY <1>1, <1>11, InstallFailsLateTable, InstallFailsLateThread DEF PatchInv
<1>12. ASSUME NEW f \in Functions, Disable(f) \/ \E torn \in BOOLEAN : UninstallFails(f, torn) PROVE PatchInv'
  BY <1>1, <1>12, UninstallTable, UninstallThread DEF PatchInv
<1>13. ASSUME NEW f \in Functions, NEW unmapFails \in BOOLEAN, Untrace(f, unmapFails) PROVE PatchInv'
  BY <1>1, <1>13, UntraceTable, UntraceThread DEF PatchInv
<1>14. ASSUME NEW failing \in SUBSET Functions, NEW unmapFails \in BOOLEAN, Shutdown(failing, unmapFails) PROVE PatchInv'
  BY <1>1, <1>14, ShutdownTable, ShutdownThread DEF PatchInv
<1>15. Command => PatchInv'
  BY <1>2, <1>3, <1>4, <1>5, <1>6, <1>9, <1>10, <1>11, <1>12, <1>13, <1>14 DEF Command
<1> QED
  BY <1>7, <1>8, <1>15 DEF PatchNext

\* It holds throughout.
LEMMA PatchInvariant == PatchSpec => []PatchInv
BY PatchInitial, PatchStep, PTL DEF PatchSpec

\* As many slots are in use as probes are registered: no two have the same.
LEMMA SlotsCounted ==
    ASSUME TableInv, ~leaked
    PROVE  slot_used = {trampoline_slot[f] : f \in Registered} /\ Cardinality(slot_used) = Cardinality(Registered)
<1>1. slot_used = {trampoline_slot[f] : f \in Registered}
  <2>1. \A f \in Registered : trampoline_slot[f] \in slot_used
    BY Running DEF Registered
  <2> QED
    BY <2>1 DEF TableInv, LeakInv, Registered
<1>2. IsFiniteSet(Registered)
  BY PoolAssumption, FS_Subset DEF Registered
<1> DEFINE h == [f \in Registered |-> trampoline_slot[f]]
<1>3. h \in Bijection(Registered, slot_used)
  <2>1. \A f, g \in Registered : h[f] = h[g] => f = g
    BY DEF TableInv, OwnerInv, Registered
  <2>2. h \in [Registered -> slot_used]
    BY <1>1
  <2>3. \A k \in slot_used : \E f \in Registered : h[f] = k
    BY <1>1
  <2> HIDE DEF h
  <2> QED
    BY <2>1, <2>2, <2>3, Fun_IsInj, Fun_IsSurj DEF Bijection
<1>4. ExistsBijection(Registered, slot_used)
  BY <1>3 DEF ExistsBijection
<1> QED
  BY <1>1, <1>2, <1>4, FS_Bijection, FS_SameCardinalityBij

\* It implies the properties.
LEMMA PatchInvSuffices == PatchInv => PatchTypeOK /\ DerailExplained /\ TableTrue /\ PoolExact
<1> SUFFICES ASSUME PatchInv PROVE PatchTypeOK /\ DerailExplained /\ TableTrue /\ PoolExact
  OBVIOUS
<1>1. TableInv /\ DerailExplained
  BY DEF PatchInv, ThreadInv
<1>2. runtime = "INACTIVE" => Registered = {}
  BY <1>1, Running DEF Registered
<1>3. PatchTypeOK
  BY <1>2 DEF PatchInv, ThreadInv, TableInv, TableType, MemoryType, ControlType, PlaceType, PatchTypeOK
<1>4. TableTrue
  BY <1>1, Running DEF TableTrue, TableInv, CodeInv, Belongs
<1>5. PoolExact
  <2> SUFFICES ASSUME ~leaked PROVE /\ slot_used = {trampoline_slot[f] : f \in Registered}
                                    /\ Cardinality(slot_used) = Cardinality(Registered)
                                    /\ mapped = IF slot_used = {} THEN {} ELSE {pool_addr}
    BY DEF PoolExact
  <2>1. mapped \subseteq {pool_addr} /\ mapped \subseteq Pools /\ (pool_addr # None => slot_used # {}) /\ (pool_addr # None => pool_addr \in mapped)
        /\ (pool_addr = None => slot_used = {})
    BY <1>1 DEF TableInv, LeakInv, MemoryType, PoolInv
  <2>2. mapped = IF slot_used = {} THEN {} ELSE {pool_addr}
    BY <2>1, Distinct
  <2> QED
    BY <1>1, <2>2, SlotsCounted
<1> QED
  BY <1>1, <1>3, <1>4, <1>5

(* The theorems hold whatever commands are given, wherever they fail, and  *)
(* wherever the threads are, for every number of functions, threads, slots *)
(* and places of a pool.                                                   *)

\* Every variable of zt_injector.c's probe table keeps its type, and no probe is left when
\* the trace runtime is gone.
THEOREM ProbesTyped == PatchSpec => []PatchTypeOK
BY PatchInvariant, PatchInvSuffices, PTL

\* Threads run into changed bytes only in the cases that zt_ensure_patch_regions_are_safe
\* does not look at, or after a torn or forgotten patch.
THEOREM DerailsExplained == PatchSpec => []DerailExplained
BY PatchInvariant, PatchInvSuffices, PTL

\* The states that zt_enable_probe, zt_disable_probe and zt_remove_probe record agree with
\* the bytes at the entry of the functions.
THEOREM ProbeTableTrue == PatchSpec => []TableTrue
BY PatchInvariant, PatchInvSuffices, PTL

\* The trampoline pool holds the slots that the probes own and no others, also after a
\* command that failed half-way.
THEOREM PoolHoldsProbes == PatchSpec => []PoolExact
BY PatchInvariant, PatchInvSuffices, PTL
=============================================================================
