--------------------------- MODULE ProbePatching ---------------------------
(***************************************************************************)
(* The life of probes: the probe table and the patched prologues           *)
(* (zt_injector.c), the trampoline pool (zt_trampoline_pool.c) and the     *)
(* commands that drive them (zt_trace_runner.c, zt_cli.c), next to target  *)
(* threads that run through the code that is being changed.                *)
(*                                                                         *)
(* A command works on a stopped target, so each is one step, with a        *)
(* parameter that says at which stage it fails.  The bytes of a prologue   *)
(* are Orig, Torn (a patch half written) or a jump to a trampoline slot.   *)
(* Probed functions do not overlap and have one symbol each.               *)
(***************************************************************************)
EXTENDS Integers, FiniteSets

CONSTANTS Functions,      \* the functions that may be probed
          Threads,        \* target threads
          NSlots,         \* ZT_TRAMPOLINE_POOL_SLOTS
          NPools,         \* bound: places where the target has room for a pool
          MaxFailures,    \* bound: failed remote operations in a behaviour
          MaxDetaches     \* bound: times the user detaches from an active trace

\* ZT_TRAMPOLINE_POOL_SLOTS is ZT_PROBES_CAPACITY: the pool fits the table.
ASSUME PoolAssumption ==
    NSlots \in Nat /\ NPools \in Nat /\ IsFiniteSet(Functions) /\ Cardinality(Functions) <= NSlots
ASSUME PatchOptionsAssumption == MaxFailures \in Nat /\ MaxDetaches \in Nat

Slots == 0 .. NSlots - 1
Pools == 0 .. NPools - 1
None == -1
SlotAddr(pool, k) == pool * NSlots + k
Addrs == 0 .. NPools * NSlots - 1
Orig == -1
Torn == -2
Code == Addrs \cup {Orig, Torn}

CONSTANT Nowhere          \* a function that is not probed
ASSUME NowhereAssumption == Nowhere \notin Functions

\* Where a thread is: in unprobed code, at the first instruction of a function, at
\* a later one within the patched bytes, past them, or in a trampoline (or in
\* entry_stub, which returns there).
Out == [where |-> "out", fn |-> Nowhere, addr |-> None]
At(where, f) == [where |-> where, fn |-> f, addr |-> None]
InTrampoline(f, a) == [where |-> "trampoline", fn |-> f, addr |-> a]
Places == {Out} \cup {At(w, f) : w \in {"start", "mid", "body"}, f \in Functions}
                \cup {InTrampoline(f, a) : f \in Functions, a \in Addrs}

Blank == [fn |-> Nowhere, code |-> Orig]

VARIABLES
    state, orig_code, trampoline_slot, trampoline_addr,  \* the probe table
    pool_addr, slot_used,         \* the trampoline pool
    code, trampoline, mapped,     \* target memory: prologues, trampolines, pools
    attached, runtime,            \* CLI and g_active_trace.state
    stopped,                      \* threads_stopped, and the target is
    failures, detaches,
    at, pending,                  \* of each thread: pc, and where it will return to
    \* history, not in the code
    harmed,                       \* functions whose patch was torn or forgotten
    leaked,                       \* the pool was forgotten or not unmapped
    endangered,                   \* threads in, or returning into, bytes given up or changed
    derailed                      \* threads that executed such bytes

probes == <<state, orig_code, trampoline_slot, trampoline_addr>>
pool == <<pool_addr, slot_used>>
memory == <<code, trampoline, mapped>>
control == <<attached, runtime, stopped>>
places == <<at, pending>>
patchVars == <<probes, pool, memory, control, failures, detaches, places, harmed, leaked, endangered, derailed>>

PatchInit ==
    /\ state = [f \in Functions |-> "EMPTY"]
    /\ orig_code = [f \in Functions |-> Orig]
    /\ trampoline_slot = [f \in Functions |-> None]
    /\ trampoline_addr = [f \in Functions |-> None]
    /\ pool_addr = None /\ slot_used = {}
    /\ code = [f \in Functions |-> Orig]
    /\ trampoline = [a \in Addrs |-> Blank] /\ mapped = {}
    /\ attached = FALSE /\ runtime = "INACTIVE" /\ stopped = FALSE
    /\ failures = 0 /\ detaches = 0
    /\ at = [t \in Threads |-> Out] /\ pending = [t \in Threads |-> Out]
    /\ harmed = {} /\ leaked = FALSE /\ endangered = {} /\ derailed = {}
-----------------------------------------------------------------------------
(* The target.                                                             *)

\* Executing at p goes wrong: the bytes there are not what they were when the
\* thread came.
Bad(p) ==
    \/ /\ p.where = "start"
       /\ \/ code[p.fn] = Torn
          \/ code[p.fn] \in Addrs /\ trampoline[code[p.fn]].fn # p.fn
    \/ p.where = "mid" /\ code[p.fn] # Orig
    \/ p.where = "trampoline" /\ trampoline[p.addr] # [fn |-> p.fn, code |-> Orig]

\* Where execution goes on from p.  The jump of aarch64 is two instructions; one step
\* stands for both, as a thread between them is stepped out before the bytes change.
Through(p) ==
    IF p.where = "start" /\ code[p.fn] \in Addrs THEN InTrampoline(p.fn, code[p.fn])
    ELSE IF p.where = "start" THEN At("mid", p.fn)
    ELSE IF p.where = "body" THEN Out
    ELSE At("body", p.fn)

Moves(t) == ~stopped /\ t \notin derailed

UnchangedTracer == UNCHANGED <<probes, pool, memory, control, failures, detaches, harmed, leaked, endangered>>

Enter(t, f) ==
    /\ Moves(t)
    /\ at[t] = Out
    /\ at' = [at EXCEPT ![t] = At("start", f)]
    /\ UNCHANGED <<pending, derailed>>
    /\ UnchangedTracer

Execute(t) ==
    /\ Moves(t)
    /\ at[t] # Out
    /\ IF Bad(at[t])
       THEN derailed' = derailed \cup {t} /\ UNCHANGED at
       ELSE at' = [at EXCEPT ![t] = Through(at[t])] /\ UNCHANGED derailed
    /\ UNCHANGED pending
    /\ UnchangedTracer

\* A signal handler starts, or a call in the prologue or in the trampoline.
Interrupt(t) ==
    /\ Moves(t)
    /\ pending[t] = Out
    /\ at[t].where \in {"start", "mid", "trampoline"}
    /\ at' = [at EXCEPT ![t] = Out]
    /\ pending' = [pending EXCEPT ![t] = at[t]]
    /\ UNCHANGED derailed
    /\ UnchangedTracer

Resume(t) ==
    /\ Moves(t)
    /\ at[t] = Out
    /\ pending[t] # Out
    /\ at' = [at EXCEPT ![t] = pending[t]]
    /\ pending' = [pending EXCEPT ![t] = Out]
    /\ UNCHANGED derailed
    /\ UnchangedTracer
-----------------------------------------------------------------------------
(* Parts of the commands.                                                  *)

Registered == {f \in Functions : state[f] # "EMPTY"}

\* Failing costs: a command fails at most as often as the bound allows.
Costs(n) ==
    /\ failures + n <= MaxFailures
    /\ failures' = failures + n
    /\ UNCHANGED detaches

\* Mutant: threads are not moved.
MutantStepOut(regions) == UNCHANGED <<at, pending, derailed>>

\* zt_ensure_patch_regions_are_safe: threads inside the bytes of a probe are single
\* stepped until they leave them, which they also do by entering a signal handler
\* or by a call.
StepOut(regions) ==
    LET inside == {t \in Threads \ derailed : at[t].where \in {"start", "mid"} /\ at[t].fn \in regions}
        bad == {t \in inside : Bad(at[t])}
        through(p) == IF code[p.fn] \in Addrs THEN Through(p) ELSE At("body", p.fn)
    IN \E away \in SUBSET {t \in inside \ bad : pending[t] = Out} :
         /\ at' = [t \in Threads |-> IF t \in away THEN Out
                                     ELSE IF t \in inside \ bad THEN through(at[t]) ELSE at[t]]
         /\ pending' = [t \in Threads |-> IF t \in away THEN at[t] ELSE pending[t]]
         /\ derailed' = derailed \cup bad

\* The bytes of f change under threads that will return into them ...
InBytes(f) == {t \in Threads : pending'[t] = At("mid", f)}
\* ... and slots are given up under threads that are in them.
InSlots(ks) == {t \in Threads : \E k \in ks : SlotAddr(pool_addr, k) \in {at'[t].addr, pending'[t].addr}}

\* zt_trampoline_pool_slot_belongs_to_probe
Belongs(f, k) == trampoline_addr[f] = SlotAddr(pool_addr, k)

\* What the target's memory holds once pool a is unmapped.
Without(a) ==
    /\ mapped' = mapped \ {a}
    /\ trampoline' = [b \in Addrs |-> IF b \in {SlotAddr(a, k) : k \in Slots} THEN Blank ELSE trampoline[b]]

\* Mutants: release does not look at the slot's owner, or does not clear slot_used.
MutantFreedSlots(fs) == {0}
MutantKeptSlots(fs) == {}

\* The slots zt_trampoline_pool_release gives up for the probes fs.
FreedSlots(fs) ==
    {trampoline_slot[f] : f \in {g \in fs : /\ trampoline_slot[g] \in Slots
                                            /\ \/ pool_addr = None
                                               \/ trampoline_slot[g] \notin slot_used
                                               \/ Belongs(g, trampoline_slot[g])}}

\* zt_trampoline_pool_release of the probes fs; the empty pool is unmapped.  After
\* the last probe zt_trace_reset_active forgets what is left of the pool.
Release(fs, unmapFails, reset) ==
    LET rest == slot_used \ FreedSlots(fs)
        empty == pool_addr # None /\ FreedSlots(fs) # {} /\ rest = {}
    IN
    /\ unmapFails => empty
    /\ slot_used' = IF reset THEN {} ELSE rest
    /\ pool_addr' = IF reset \/ (empty /\ ~unmapFails) THEN None ELSE pool_addr
    /\ IF empty /\ ~unmapFails THEN Without(pool_addr) ELSE UNCHANGED <<mapped, trampoline>>
    /\ leaked' = (leaked \/ unmapFails)

\* zt_unregister_probe
Unregister(fs) ==
    /\ state' = [f \in Functions |-> IF f \in fs THEN "EMPTY" ELSE state[f]]
    /\ orig_code' = [f \in Functions |-> IF f \in fs THEN Orig ELSE orig_code[f]]
    /\ trampoline_slot' = [f \in Functions |-> IF f \in fs THEN None ELSE trampoline_slot[f]]
    /\ trampoline_addr' = [f \in Functions |-> IF f \in fs THEN None ELSE trampoline_addr[f]]

\* zt_trampoline_pool_ensure: pool p is there, or is mapped at the first place with room.
EnsuredPool(p) ==
    IF pool_addr # None THEN p = pool_addr
    ELSE p \in Pools \ mapped /\ \A q \in Pools \ mapped : p <= q

\* zt_trampoline_pool_alloc: f gets slot k of pool p, its own or the first free one.
Allocates(f, p, k) ==
    /\ EnsuredPool(p)
    /\ IF trampoline_slot[f] \in Slots /\ pool_addr # None
       THEN k = trampoline_slot[f] /\ (k \in slot_used => Belongs(f, k))
       ELSE k \in Slots \ slot_used /\ \A j \in Slots \ slot_used : k <= j

\* A command that leaves the target stopped, or lets it run.
LeaveStopped == stopped' = TRUE /\ runtime' = (IF runtime = "INACTIVE" THEN runtime ELSE "STOPPED")
LetRun == stopped' = FALSE /\ runtime' = "RUNNING"

\* zt_trace_ensure_stopped trusts runtime; everything that changes code or runs
\* code in the target needs the threads stopped.
CanStop == attached /\ (runtime = "STOPPED" => stopped)
-----------------------------------------------------------------------------
(* The commands.                                                           *)

\* The bytes that zt_pc_is_inside_patch_region knows of.
Regions == {f \in Functions : state[f] \in {"INSTALLED", "DISABLED"}}

\* Mutant: the original bytes are read only once for a symbol.
MutantSavedCode(f) == IF code[f] = Orig THEN 0 ELSE code[f]

\* zt_enable_probe saves what it finds.
SavedCode(f) == code[f]

\* zt_build_trampoline: the saved instructions, relocated, and the jump back behind them.
Built(f) == [fn |-> f, code |-> SavedCode(f)]

\* cmd_trace and cmd_enable: zt_trace_install_probe succeeds.
Install(f, p, k) ==
    LET a == SlotAddr(p, k) IN
    /\ CanStop
    /\ state[f] # "INSTALLED"
    /\ Allocates(f, p, k)
    /\ StepOut(Regions \cup {f})
    /\ state' = [state EXCEPT ![f] = "INSTALLED"]
    /\ orig_code' = [orig_code EXCEPT ![f] = SavedCode(f)]
    /\ trampoline_slot' = [trampoline_slot EXCEPT ![f] = k]
    /\ trampoline_addr' = [trampoline_addr EXCEPT ![f] = a]
    /\ pool_addr' = p /\ mapped' = mapped \cup {p}
    /\ slot_used' = slot_used \cup {k}
    /\ trampoline' = [trampoline EXCEPT ![a] = Built(f)]
    /\ code' = [code EXCEPT ![f] = a]
    /\ endangered' = endangered \cup InBytes(f)
    /\ LetRun
    /\ UNCHANGED <<attached, failures, detaches, harmed, leaked>>

\* It fails before a trampoline is allocated: registering, reading or measuring the
\* prologue, mapping the pool.
InstallFailsEarly(f) ==
    /\ CanStop
    /\ state[f] # "INSTALLED"
    /\ Costs(1)
    /\ LeaveStopped
    /\ UNCHANGED <<probes, pool, memory, attached, places, harmed, leaked, endangered, derailed>>

\* Mutant: the rollback keeps a slot it has just allocated.
MutantRollback(f, p, k, unmapFails) ==
    /\ ~unmapFails
    /\ pool_addr' = p /\ mapped' = mapped \cup {p}
    /\ slot_used' = slot_used \cup {k}
    /\ UNCHANGED <<trampoline, leaked>>

\* zt_trace_rollback_probe_install: a slot the probe did not have before is released
\* again, and with the last one the pool.
Rollback(f, p, k, unmapFails) ==
    LET a == SlotAddr(p, k)
        empty == trampoline_addr[f] # a /\ slot_used = {}
    IN
    /\ unmapFails => empty
    /\ IF empty /\ ~unmapFails
       THEN pool_addr' = None /\ Without(p)
       ELSE /\ pool_addr' = IF runtime = "INACTIVE" THEN None ELSE p
            /\ mapped' = mapped \cup {p}
            /\ trampoline' = [trampoline EXCEPT ![a] = Built(f)]
    /\ leaked' = (leaked \/ unmapFails)
    /\ UNCHANGED slot_used

\* It fails later: building or writing the trampoline, moving the threads, or
\* writing the jump, which may leave half of it behind.
InstallFailsLate(f, p, k, torn, unmapFails) ==
    /\ CanStop
    /\ state[f] # "INSTALLED"
    /\ Allocates(f, p, k)
    /\ Costs(IF unmapFails THEN 2 ELSE 1)
    /\ StepOut(Regions \cup {f})
    /\ Rollback(f, p, k, unmapFails)
    /\ IF torn
       THEN code' = [code EXCEPT ![f] = Torn] /\ harmed' = harmed \cup {f}
       ELSE UNCHANGED <<code, harmed>>
    /\ LeaveStopped
    /\ UNCHANGED <<probes, attached, endangered>>

\* cmd_trace of an installed probe: a new filter, after a stop and a continue.
Retrace(f) ==
    /\ CanStop
    /\ state[f] = "INSTALLED"
    /\ LetRun
    /\ UNCHANGED <<probes, pool, memory, attached, failures, detaches, places, harmed, leaked, endangered, derailed>>

\* Mutant: disabling also gives the trampoline back.
MutantDisable(f) ==
    /\ CanStop
    /\ state[f] = "INSTALLED"
    /\ StepOut(Regions)
    /\ code' = [code EXCEPT ![f] = orig_code[f]]
    /\ state' = [state EXCEPT ![f] = "DISABLED"]
    /\ slot_used' = slot_used \ {trampoline_slot[f]}
    /\ LetRun
    /\ UNCHANGED <<orig_code, trampoline_slot, trampoline_addr, pool_addr, trampoline, mapped, attached, failures, detaches, harmed, leaked, endangered>>

\* cmd_disable: zt_trace_disable_probe.
Disable(f) ==
    /\ CanStop
    /\ state[f] = "INSTALLED"
    /\ StepOut(Regions)
    /\ code' = [code EXCEPT ![f] = orig_code[f]]
    /\ state' = [state EXCEPT ![f] = "DISABLED"]
    /\ LetRun
    /\ UNCHANGED <<orig_code, trampoline_slot, trampoline_addr, pool, trampoline, mapped, attached, failures, detaches, harmed, leaked, endangered>>

\* cmd_disable or cmd_untrace stop at a failed zt_uninstall_probe_patch.
UninstallFails(f, torn) ==
    /\ CanStop
    /\ state[f] = "INSTALLED"
    /\ Costs(1)
    /\ StepOut(Regions)
    /\ IF torn
       THEN code' = [code EXCEPT ![f] = Torn] /\ harmed' = harmed \cup {f}
       ELSE UNCHANGED <<code, harmed>>
    /\ LeaveStopped
    /\ UNCHANGED <<probes, pool, trampoline, mapped, attached, leaked, endangered>>

\* zt_uninstall_probe_patch of the probes fs that are installed.
Restore(fs) ==
    LET installed == {f \in fs : state[f] = "INSTALLED"} IN
    /\ StepOut(IF installed = {} THEN {} ELSE Regions)
    /\ code' = [f \in Functions |-> IF f \in installed THEN orig_code[f] ELSE code[f]]

\* cmd_untrace: zt_trace_remove_probe.  The last probe takes the runtime along, and
\* the target stays stopped.
Untrace(f, unmapFails) ==
    /\ CanStop
    /\ f \in Registered
    /\ Costs(IF unmapFails THEN 1 ELSE 0)
    /\ Restore({f})
    /\ Release({f}, unmapFails, Registered = {f})
    /\ endangered' = endangered \cup InSlots(FreedSlots({f}))
    /\ Unregister({f})
    /\ IF Registered = {f} THEN runtime' = "INACTIVE" /\ stopped' = TRUE ELSE LetRun
    /\ UNCHANGED <<attached, harmed>>

\* zt_trace_shutdown: probes that cannot be uninstalled are forgotten all the same.
Shutdown(failing, unmapFails) ==
    /\ CanStop
    /\ runtime # "INACTIVE"
    /\ failing \subseteq {f \in Functions : state[f] = "INSTALLED"}
    /\ Costs(Cardinality(failing) + (IF unmapFails THEN 1 ELSE 0))
    /\ Restore(Registered \ failing)
    /\ harmed' = harmed \cup failing
    /\ Release(Registered, unmapFails, TRUE)
    /\ endangered' = endangered \cup InSlots(FreedSlots(Registered))
    /\ Unregister(Registered)
    /\ runtime' = "INACTIVE" /\ stopped' = TRUE
    /\ UNCHANGED attached

\* cmd_attach stops the threads and lets them run again.
Attach ==
    /\ ~attached
    /\ attached' = TRUE
    /\ UNCHANGED <<probes, pool, memory, runtime, stopped, failures, detaches, places, harmed, leaked, endangered, derailed>>

\* Mutant: detaching keeps the probe table.
MutantDetach ==
    /\ attached
    /\ IF runtime = "INACTIVE" THEN UNCHANGED detaches
       ELSE detaches < MaxDetaches /\ detaches' = detaches + 1
    /\ attached' = FALSE
    /\ stopped' = FALSE
    /\ harmed' = harmed \cup {f \in Functions : code[f] # Orig}
    /\ leaked' = (leaked \/ slot_used # {})
    /\ UNCHANGED <<probes, pool, memory, runtime, failures, places, endangered, derailed>>

\* cmd_detach forgets the probe table; g_active_trace and the patches stay.
Detach ==
    /\ attached
    /\ IF runtime = "INACTIVE" THEN UNCHANGED detaches
       ELSE detaches < MaxDetaches /\ detaches' = detaches + 1
    /\ attached' = FALSE
    /\ stopped' = FALSE
    /\ Unregister(Functions)
    /\ harmed' = harmed \cup {f \in Functions : code[f] # Orig}
    /\ leaked' = (leaked \/ slot_used # {})
    /\ UNCHANGED <<pool, memory, runtime, failures, places, endangered, derailed>>

\* The CLI polls on: the session has no pid, which zt_trace_poll takes for the exit
\* of the target, and zt_trace_reset_active forgets the trace.
PollDetached ==
    /\ ~attached
    /\ runtime = "RUNNING"
    /\ runtime' = "INACTIVE"
    /\ pool_addr' = None /\ slot_used' = {}
    /\ UNCHANGED <<probes, memory, attached, stopped, failures, detaches, places, harmed, leaked, endangered, derailed>>

\* cmd_stop and cmd_continue.
StopTarget ==
    /\ CanStop
    /\ ~stopped
    /\ LeaveStopped
    /\ UNCHANGED <<probes, pool, memory, attached, failures, detaches, places, harmed, leaked, endangered, derailed>>

Continue ==
    /\ attached
    /\ stopped \/ runtime = "STOPPED"
    /\ stopped' = FALSE
    /\ runtime' = (IF runtime = "INACTIVE" THEN runtime ELSE "RUNNING")
    /\ UNCHANGED <<probes, pool, memory, attached, failures, detaches, places, harmed, leaked, endangered, derailed>>

Command ==
    \/ Attach \/ Detach \/ PollDetached \/ StopTarget \/ Continue
    \/ \E f \in Functions :
         \/ InstallFailsEarly(f) \/ Retrace(f) \/ Disable(f)
         \/ \E p \in Pools, k \in Slots :
              \/ Install(f, p, k)
              \/ \E torn, unmapFails \in BOOLEAN : InstallFailsLate(f, p, k, torn, unmapFails)
         \/ \E torn \in BOOLEAN : UninstallFails(f, torn)
         \/ \E unmapFails \in BOOLEAN : Untrace(f, unmapFails)
    \/ \E failing \in SUBSET Functions, unmapFails \in BOOLEAN : Shutdown(failing, unmapFails)

Target == \E t \in Threads : (\E f \in Functions : Enter(t, f)) \/ Execute(t) \/ Interrupt(t) \/ Resume(t)

PatchNext == Command \/ Target

PatchSpec == PatchInit /\ [][PatchNext]_patchVars
-----------------------------------------------------------------------------
(* Properties.                                                             *)

\* Every variable stays in its type, and without a runtime there are no probes left that
\* a command could disable, update or remove behind the back of g_active_trace.
PatchTypeOK ==
    /\ state \in [Functions -> {"EMPTY", "INSTALLED", "DISABLED"}]
    /\ orig_code \in [Functions -> Code]
    /\ trampoline_slot \in [Functions -> Slots \cup {None}]
    /\ trampoline_addr \in [Functions -> Addrs \cup {None}]
    /\ pool_addr \in Pools \cup {None} /\ slot_used \subseteq Slots
    /\ code \in [Functions -> Code]
    /\ mapped \subseteq Pools /\ trampoline \in [Addrs -> [fn : Functions \cup {Nowhere}, code : Code]]
    /\ attached \in BOOLEAN /\ runtime \in {"INACTIVE", "RUNNING", "STOPPED"} /\ stopped \in BOOLEAN
    /\ failures \in 0 .. MaxFailures /\ detaches \in 0 .. MaxDetaches
    /\ at \in [Threads -> Places] /\ pending \in [Threads -> Places]
    /\ harmed \subseteq Functions /\ leaked \in BOOLEAN
    /\ endangered \subseteq Threads /\ derailed \subseteq Threads
    /\ runtime = "INACTIVE" => Registered = {}

\* A thread runs into changed bytes only if, when they were changed, it had a return
\* address or an interrupted pc in them, or was in a trampoline that was given up
\* (zt_ensure_patch_regions_are_safe looks at the pc and at the prologues only), or
\* if the patch was torn by a failed write or forgotten.
DerailExplained ==
    \A t \in derailed : t \in endangered \/ at[t].fn \in harmed

\* The comment in zt_ensure_patch_regions_are_safe promises it without exceptions;
\* a thread that returns into patched bytes from a signal handler refutes it.
Undisturbed == derailed = {}

\* The probe table tells the truth about the target's code, after every command and
\* every failure that does not tear a patch: an installed probe's prologue jumps to
\* a mapped trampoline of its own, built from the original bytes, and every other
\* function has its original bytes.
TableTrue ==
    \A f \in Functions \ harmed :
        IF state[f] = "INSTALLED"
        THEN /\ pool_addr \in mapped /\ trampoline_slot[f] \in slot_used
             /\ trampoline_addr[f] = code[f] /\ Belongs(f, trampoline_slot[f])
             /\ trampoline[code[f]] = [fn |-> f, code |-> Orig]
             /\ orig_code[f] = Orig
        ELSE code[f] = Orig

\* zt_injector.h says it of every disabled probe.
DisabledRestored == \A f \in Functions : state[f] = "DISABLED" => code[f] = Orig

\* The slots in use are those the registered probes own, no two the same, and the
\* pool is mapped exactly while there are any; after the last probe, or a failed
\* first one, nothing is left behind.
PoolExact ==
    ~leaked =>
        /\ slot_used = {trampoline_slot[f] : f \in Registered}
        /\ Cardinality(slot_used) = Cardinality(Registered)
        /\ mapped = IF slot_used = {} THEN {} ELSE {pool_addr}

=============================================================================
