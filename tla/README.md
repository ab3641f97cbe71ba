# TLA+ models of zeroTrace

zeroTrace attaches to a running Linux process with ptrace, patches the prologues
of chosen functions with jumps into trampolines, and lets a payload library
loaded into the target write entry and return events into a shared ring buffer,
which the tracer reads while the target runs.  This directory models the parts
of it in which several actors change the same state: target threads, signal
handlers, the kernel, and the tracer's commands.

`PROJECT.json` maps every definition to the source lines it stands for.

## 1. The system

Two processes, two sides of each data structure:

```
  tracer                                      target
  ------                                      ------
  zt_cli.c        commands, event hook        patched function
     |                                           | jump
  zt_trace_runner.c  session, reader,            v
     |               actions, filters         trampoline (zt_trampoline_pool.c)
  zt_injector.c   ptrace, probe table            | call
     |                                           v
  isa/common/zt_remote_exec.c                 entry_stub, exit_stub (stub.S)
     |                                           |
     +-- process_vm_readv/writev, PTRACE_POKE -> zt_payload.c: shadow stack,
                                                 ring buffer, call actions
```

| Part | State | Operations | What is hard about it | What must hold |
|---|---|---|---|---|
| Trace ring (`zt_payload.c`, `zt_trace_runner.c`) | `write_seq`, per slot `committed_seq` and the event; `last_seq` and the snapshot arrays in the tracer | reserve, fill, commit; read header, copy slots, classify, dump, report losses | many lock-free producers, a reader that copies from another process without any synchronisation, wrap-around, failing reads | every event is dumped or reported lost, once; no mixed event is dumped; reading goes on |
| Stubs and shadow stack (`stub.S`, `zt_payload.c`) | TLS `saved_frames`, `call_stack_idx`, `last_call_id`, `in_call_action` | `zt_handle_entry`, `save_probe_frame_c`, `zt_handle_return`, `get_ret_addr_c` | recursion, tail calls, signal handlers between any two steps, `longjmp`, a full stack | a return resumes its caller and its event carries the id of its call |
| Call actions (`zt_trace_runner.c`, `zt_payload.c`) | `call_actions`, `call_action_count` in shared memory; slot and epoch in the probe table | update, clear, remove; lookup on each hit | the tracer rewrites a slot while threads read it; a write may fail half way | only whole actions are run; buffer and table agree |
| Probe table and patching (`zt_injector.c`) | probe states, original bytes, patched code | install with rollback, disable, enable, uninstall | threads inside the bytes being patched; failures between the steps; detach with patches in place | table and code agree; no thread executes half an instruction |
| Trampoline pool (`zt_trampoline_pool.c`) | pool address, used slots | ensure, allocate, release, unmap | first and last probe, failed unmapping | slots in use are those of the registered probes |
| Thread control (`zt_injector.c`) | `session->threads`, stop flags, pending signals | attach, refresh, stop in passes, continue, poll, detach | threads are created and die during enumeration; stops and signals arrive in any order | everything is stopped when code is patched; a stopped thread is known to the table; a signal reaches its thread; an exit is reported only when there was one; waiting ends (each with the exceptions of section 5) |
| Remote execution (`isa/common/zt_remote_exec.c`) | borrowed registers and code of the main thread | write a stub, run it to its trap, restore | another stop in place of the trap; the death of the main thread at any stage; a system call that is restarted | the main thread gets its general registers and its code back; what else a stub disturbs is known |
| Filters (`zt_filter.c`) | token array of a probe | compile, evaluate | precedence, short circuit, wrap-around, division by zero, limits on tokens, characters and numbers | value of the C expression, but for comparisons of comparisons |
| Event pairing (`zt_trace_runner.c`) | `g_entry_cache` | dump an entry or a return event | lost events, slot collisions, filters that change between entry and return, call ids that start again | both events of a call are treated alike |
| Session and command line (`zt_trace_runner.c`, `zt_cli.c`) | `g_active_trace`, CLI state | trace, untrace, enable, disable, update, stop, continue, detach, quit | set-ups that fail half way, a target that exits, calls in flight when a trace ends, a payload that survives a detach, a trace that survives it and meets another process | payload and reader use the same buffer; nothing is left behind |
| Relocation, jump patches (`isa/*/trampoline_manager.c`, `isa/*/arch.c`) | none | choose the span, rewrite instructions, encode jumps | jumps into and out of the span, displacements out of range, scratch registers | the patched function does what the original does |
| Symbols, signatures (`zt_sigconf.c`), formatting | none | parse ELF and maps, parse a configuration, print | text | - |

The hazards of each part, with the line at which they bite and the property that
would notice, are listed in `PROJECT.json`.

## 2. Modules

| Module | Models | Actors that interleave |
|---|---|---|
| `EventLog` | what the log promises: in order, without gaps, an event is called lost only when it is out of the ring's reach | - |
| `RingBuffer` | the ring, its producers and the tracer's sweep | producers, reader |
| `ProbeCalls` | entry and exit stubs over a machine stack and a shadow stack | thread, its signal handlers |
| `CallAction` | publication and lookup of call actions | tracer, threads |
| `ProbePatching` | probe table, prologues, trampolines and pool, runtime states | commands, threads |
| `ThreadGroup` | ptrace control of a thread group | tracer, kernel, threads |
| `RemoteExec` | remote stubs step by step, on top of `ThreadGroup` | the same, and the stub |
| `ProbeFilter` | tokenizer, validation, recursive descent evaluation | - |
| `EventPairing` | entry cache and filter decisions over lost events and several traces | target, reader, commands |
| `TraceSession` | set-up and end of a trace, composed with `EventPairing` | target, tracer, user |
| `Relocation` | the trampoline builders, executed beside the original function | two machines |
| `EventProofs` | theorems about `RingBuffer`, `EventPairing` and `TraceSession` | - |
| `ThreadProofs` | theorems about `ThreadGroup` and `RemoteExec` | - |
| `ProbeCallsProofs`, `CallActionProofs`, `ProbePatchingProofs` | theorems about the module of that name | - |
| `RelocationProofs` | theorems about `Relocation`, resting on the lemmas of `RelocationMachineProofs` (instructions, the two invariants) and `RelocationStepProofs` (the way through the trampoline) | - |

`MCProbePatching` adds a symmetry set and `MCRelocation` the functions that are
tried; the other modules are checked as they are.

How the modules fit together:

- `RingBuffer` implements `EventLog` (checked and proved).  `EventPairing` reads a
  queue from which events vanish, which is what `EventLog` allows.
- `TraceSession` EXTENDS `EventPairing`: each of its actions is an action of
  `EventPairing` together with what happens to the session, or leaves
  `EventPairing`'s variables alone.  So it implements `EventPairing`, and the
  guarantees about pairs hold of every session (`SessionPairs`).
- `RemoteExec` EXTENDS `ThreadGroup` and replaces its one-step remote call by the
  steps of `zt_arch_execute_remote_stub`.  `ThreadGroup` sees a start and a wait of
  it, so its guarantees hold of `RemoteExec` (`RemoteThreadsSafe`).
- `ProbePatching` executes each command on a stopped target, and `ThreadGroup` says
  when the target really is.  `ProbeCalls` takes from `CallAction` only that a hit
  may or may not run an action, and from `Relocation` that a trampoline does what
  the replaced instructions did.

### RingBuffer

`zt_reserve_event_slot` is `Reserve` (the atomic increment), `ClearCommit`,
`StoreWord` and `Commit` are its later stores, one step each.  With
`OrderedStores` they become visible in program order, as on x86_64; without, in
any order before the release store, as the C code allows on aarch64.  An event is
its number and `NWords` words, and each word holds the number of the event it was
stored for, so a mixed event is one whose parts disagree.

The reader is `zt_dump_trace_events_since`: `ReadHeader`; the three sweeps of
`zt_trace_refresh_event_snapshots`, in steps of one slot or one word
(`process_vm_readv` gives no atomicity); then `Dump`, `ScanDone`,
`FindOverwritten` and `FreshHeader` as the loop classifies each slot.  `ReadError`
ends a poll at any remote read.  `delivered`, `lost`, `torn` and `lapped` are
history variables.

### ProbeCalls

The machine stack is a sequence of activations with a program counter each; a
return address is the number of the call that pushed it, so a return that leaves
for a wrong place is seen.  The payload's steps are separate where a signal
handler in between makes a difference: the frame is stored and then the index is
incremented; the index is decremented and then the frame is read.  A handler is
a call that starts at any of these points and may itself call probed functions.

### CallAction

Each remote write of `zt_trace_write_call_action` and
`zt_trace_write_call_action_count` is a step that may fail; the lookup reads the
count, then per slot `enabled`, the fields, and `enabled` again.  The fields of a
slot carry the action they were written for.  `OrderedLoads` says whether the
field loads may move past the second load of `enabled`.

### ProbePatching

A command runs on a stopped target and is one step; its parameters say which pool
and slot an installation gets and at which stage it fails, and the step includes
the rollback of that stage.  A prologue holds the original bytes, a torn patch, or
a jump to a trampoline slot; a trampoline remembers the function it was built for
and the bytes it was built from.  Threads move from the first instruction of a
function through the bytes under the patch or through the trampoline, and may be
interrupted by a handler.  The safety test of `zt_ensure_patch_regions_are_safe`
is the guard it is in the code: it looks at each thread's pc.

### ThreadGroup and RemoteExec

Each `PTRACE_SEIZE`, each `waitpid`, each resumed thread is a step.  The kernel's
half (`Clone`, `Exit`, `ExitGroup`, `Trap`, `SignalStop`, reaping) is external and
modelled from the way the code uses it: an exit of the main thread is reported
only after the other traced threads are reaped, an interrupt that arrives during a
signal stop stays pending, and a thread may be created after its place in
`/proc/pid/task` was read.  `runtime` is `g_active_trace.state`: `zt_cli_event_hook`
polls only while a trace is active and `zt_trace_poll` only while it runs, and
`zt_trace_ensure_stopped` and `zt_trace_ensure_running` believe it.  A signal that
stops a thread is `owed` to it until it is resumed with that signal; `lost` says in
which way one was not given to it.

`RemoteExec` has one step for each stage of `zt_arch_execute_remote_stub` (save,
write, set registers, continue, wait, restore registers, restore code) and both
backends' stubs and register set-ups.  A stage fails when the main thread is
already dead.  `harm` records what a stub does to the computation it borrows the
thread from: a system call restarted with the stub's registers, an overwritten red
zone, and vector registers, which `zt_get_regs` of neither backend saves.

### ProbeFilter

A text is a sequence of lexemes and blanks.  The parse functions are the code's,
one for each level of precedence, with the flag that keeps skipped sides from
being evaluated.  A condition is refused when it has more tokens, or more characters
behind its leading blanks, than the probe can hold, or a number that does not fit
64 bits.  The reference is the value of an expression tree in C, where a text is
read with C's levels of precedence; `Init` enumerates the trees, with as few
parentheses as C needs, and short texts that come from no tree.

### EventPairing and TraceSession

`EventPairing` has one probe, whose filter may change at any time.  Calls begin,
end and overlap, and events are read in order or lost.  A trace may end while calls
are running; in the next one the ids start from 1 again and `g_entry_cache` has
been cleared.

`TraceSession` adds where the events come from: `zt_setup_remote_payload` maps
path, buffer and configuration one after the other and each of its remote calls may
fail; the payload is told the buffer's address; the last `untrace` unmaps; `detach`
forgets everything and leaves jumps and payload in the target; the target may exit
at any time, and `zt_trace_poll` notices (`PollExited`).  A poll or a read that fails,
for whatever reason, leads to `zt_trace_is_exit_window`, which ends the trace when the
process or the buffer's mapping is gone (`ExitWindow`) and gives up otherwise
(`WindowCloses`).  `attach` takes the same process again or another one
(`AttachOther`), under a trace that may still be active; `foreign` says so.
`shared_buffer` is what the payload in the target believes, `recorded` what the
tracer does.

### Relocation

A text is a function from addresses to instructions without gaps that ends with a
return (`IsText`).  Instructions are of the kinds that the builders treat
differently: ordinary, PC-relative address or load, jump, conditional jump, loop,
call, return, and one that the disassembler does not know.  `Capture` is
`zt_enable_probe` with `zt_arch_calc_patch_span`; `BuildPrefix`, `Relocate` (one
round of the loop over the instructions) and `Finish` are `zt_build_trampoline` of
both architectures.  Each emitter is an operator that appends to a buffer and
refuses when the slot is full; a refused build leaves the function unpatched.

Then the original and the patched function run side by side, with free outcomes of
conditions.  `Round` chooses the next step of the original; `PatchedStep` executes
one instruction of the patched function, and when that has come to a place that can
be compared the original takes its step.  Sizes of emitted code are those of the
source.  Addresses have four halfwords, as in `zt_emit_mov_abs`, which leaves out
the zero ones.

## 3. What is model-checked

All numbers are for the configurations in this directory.

| Run | Configuration | Distinct states | Shows |
|---|---|---|---|
| `ring` | `MCRingBuffer.cfg` | 436,549 | `Accounting`, `IntactUnlessLapped`, `OverwrittenIsLapped`, `ImplementsEventLog`, `EventuallyPassed` |
| `calls` | `MCProbeCalls.cfg` | 1,639,372 | `StrayExplained`, `ReturnPaired`, `Balanced`, `NoNestedAction` |
| `calls_overflow` | `MCProbeCallsOverflow.cfg` | counterexample | `Transparent` fails |
| `action` | `MCCallAction.cfg` | 2,288,529 | `WholeAction`, `Fresh`, `Agreement`, `OthersUntouched` |
| `patching` | `MCProbePatching.cfg` | 2,264,675 | `PatchTypeOK`, `DerailExplained`, `TableTrue`, `PoolExact` |
| `patching_detach` | `MCProbePatchingDetach.cfg` | counterexample | `DisabledRestored` fails |
| `threads` | `MCRemoteExec.cfg` | 469,776 | `MissedExplained`, `MarkedStopped`, `NoneForgotten`, `SignalsKept`, `DetachFrees`, `GivenBack`, `HarmExplained`, `ExitTrue`, `WaitEndsOrExited`, `EventsNoticed` |
| `threads_exit` | `MCThreadGroupExit.cfg` | counterexample | `WaitEnds` fails |
| `filter` | `MCProbeFilter.cfg` | 1,326,417 | `AgreesWithC`, `WellFormedAccepted`, `AcceptedParses` |
| `session` | `MCTraceSession.cfg` | 2,613,050 | `SameBuffer`, `CaughtSafely`, `NothingLeft`, `SameDecision`, `MatchedOwn`, `RobberExplained` |
| `session_in_flight` | `MCTraceSessionFault.cfg` | counterexample | `ResumesCaller` fails |
| `relocation` | `MCRelocation.cfg` | 2,427,818 | `SameMeaning`, `ScratchKept`, `ReportsEntry`, `InsideSlot` |

Every property has a mutant: a definition `Mutant...` next to the one it alters, a
slip that could be made in that code, with which TLC finds the property violated.
Type invariants are part of the inductive invariants that are proved (section 4);
`PatchTypeOK` is also in a run because its last conjunct, that an inactive trace
has no probes, is one that detach could break.

### Bounds, and why they are enough

- **Ring.**  Two slots, two producers and four events: each slot is used twice,
  so a producer can be lapped by the other, the reader can be lapped in every
  phase of a sweep, and a loss marker can cover one event or more.  An event is its
  number and one word, which is enough to be mixed.  One read failure can fall on
  any remote read.
- **Calls.**  A shadow stack of two frames and five activations of the machine
  stack overflow it, return through it and use it again.  Two probes, one with an
  action, and six calls let the callee of an action be probed.  The shadow stack
  is thread local and `g_call_id_seq` is incremented atomically, so a second
  thread only makes ids skip: one thread is checked, with its handlers.  The proof
  is for any number.
- **Actions.**  The probes 1 and 3 have the same home slot of two, so the lookup
  has to walk on, and slots are handed from one probe to the other.
- **Patching.**  Two functions, two slots, two places for a pool (so that a
  second pool can be at another address than the first), one failure at any stage
  of any command, one detach.  Threads do not interact, so one is enough.
- **Threads.**  Three threads with a table of two: the table can be full with a
  thread left over.  Three passes, where the code has 16: one that finds a new
  thread, one that finds none, and one more; a stop can also run out of passes.  Two
  signals, both architectures.  The proofs are for any number of each.
- **Filter.**  All trees of depth two over one operator or more of each level of
  precedence, in words of two bits, where wrap-around is common; a tree of depth
  two has three operators, enough for each pair of neighbouring levels on either
  side.  Nine tokens and 22 characters, where the code has 64 and 128, are fewer than
  the largest text needs, so each limit is met without the other.
  Texts of up to four lexemes cover input that is no expression.
- **Session.**  Three calls on a cache of two slots collide; two traces meet each
  other's ids; three set-ups let one fail before, between or after them.  One event
  in the queue is enough, since an event that waits can be lost at any time.  One
  kind of argument is enough, because the filter may change between any two events.
- **Relocation.**  Four instructions and a `ret`: a span of several instructions,
  jumps into and out of it and backwards, and a rest behind it.  A halfword has two
  bits, so targets have zero halfwords in every position; patch length, displacement
  range and slot size are scaled down so that small functions reach the limits.

Deadlock is checked in `action` and `patching`.  The others reach the end of their
bounded work (or the target is gone) and stop.

### Fairness

`RingBuffer!FairSpec`: a thread that has entered the payload leaves it (the
payload has no loop that waits), and the tracer polls on, which the command
line's 50 ms event hook does.  No thread is obliged to hit another probe.  Failed
reads are bounded, and are not part of what has to happen.

`ThreadGroup!FairThreadSpec`, `RemoteExec!FairRemoteSpec`: the tracer proceeds when
it can (it is a sequential program, blocked only in `waitpid`), an interrupted
thread traps (kernel), and the target's parent reaps it.  readline calls the event
hook as long as it waits for input, and the user does not enter commands for ever
without such a pause: that is strong fairness of `Poll`.  Nothing is assumed about
what the target does by itself; in particular a stub need not reach its trap, and
`WaitEndsOrExited` speaks of the waits of a stop only.

## 4. What is proved

TLAPS proves the following for every value of the constants: any number of threads,
producers, probes, functions, calls and traces, any capacity and any bound, any text
at any address.  The only assumptions are the named ones in the modules (constants
have their types, a capacity is at least one, there are at least as many slots as
functions, the regions of a relocated function do not overlap and its text is one).

| Theorem | Statement |
|---|---|
| `EventProofs!TypeCorrect` | `Spec => []TypeOK` |
| `EventProofs!AccountingHolds` | `Spec => []Accounting` |
| `EventProofs!OverwrittenIsLappedHolds` | `Spec => []OverwrittenIsLapped` |
| `EventProofs!RingImplementsEventLog` | `Spec => ImplementsEventLog` |
| `EventProofs!DumpedEventsIntact` | with `OrderedStores`: `Spec => []IntactUnlessLapped` |
| `EventProofs!ReturnsMatched` | `PairSpec => []MatchedOwn` |
| `EventProofs!ShownInPairs` | `PairSpec => []SameDecision` |
| `EventProofs!SlotLossExplained` | `PairSpec => []RobberExplained` |
| `EventProofs!BufferShared` | `SessionSpec => []SameBuffer` |
| `EventProofs!CaughtCallsSafe` | `SessionSpec => []CaughtSafely` |
| `EventProofs!RegionsFreed` | `SessionSpec => []NothingLeft` |
| `EventProofs!SessionPairs` | `SessionSpec` has the three properties of `PairSpec` |
| `ProbeCallsProofs!CallsTransparent` | `CallSpec => []StrayExplained` |
| `ProbeCallsProofs!ReturnsCarryTheirCall` | `CallSpec => []ReturnPaired` |
| `ProbeCallsProofs!ShadowStackBalanced` | `CallSpec => []Balanced` |
| `ProbeCallsProofs!ActionsNeverNest` | `CallSpec => []NoNestedAction` |
| `CallActionProofs!LookupsWhole` | with `OrderedLoads`: `ActionSpec => []WholeAction` |
| `CallActionProofs!LookupsFresh` | with `OrderedLoads`: `ActionSpec => []Fresh` |
| `CallActionProofs!AgreementHolds` | with `OrderedLoads`: `ActionSpec => []Agreement` |
| `CallActionProofs!OthersUntouchedHolds` | with `OrderedLoads`: `ActionSpec => OthersUntouched` |
| `ProbePatchingProofs!ProbesTyped` | `PatchSpec => []PatchTypeOK` |
| `ProbePatchingProofs!DerailsExplained` | `PatchSpec => []DerailExplained` |
| `ProbePatchingProofs!ProbeTableTrue` | `PatchSpec => []TableTrue` |
| `ProbePatchingProofs!PoolHoldsProbes` | `PatchSpec => []PoolExact` |
| `ThreadProofs!StopsAreComplete` | `ThreadSpec => []MissedExplained` |
| `ThreadProofs!MarksTrue` | `ThreadSpec => []MarkedStopped` |
| `ThreadProofs!StoppedKnown` | `ThreadSpec => []NoneForgotten` |
| `ThreadProofs!SignalsDelivered` | `ThreadSpec => []SignalsKept` |
| `ThreadProofs!ExitReportTrue` | `ThreadSpec => []ExitTrue` |
| `ThreadProofs!DetachComplete` | `ThreadSpec => []DetachFrees` |
| `ThreadProofs!StubsGivenBack` | `RemoteSpec => []GivenBack` |
| `ThreadProofs!StubsHarmless` | `RemoteSpec => []HarmExplained` |
| `ThreadProofs!RemoteThreadsSafe` | `RemoteSpec` has the six properties of `ThreadSpec` |
| `RelocationProofs!TrampolineBuilt` | `RelocSpec => []BuildInv` |
| `RelocationProofs!TrampolineInsideSlot` | `RelocSpec => []InsideSlot` |
| `RelocationProofs!MachinesTogether` | `RelocSpec => []MachInv` |
| `RelocationProofs!MeaningKept` | `RelocSpec => []SameMeaning` |
| `RelocationProofs!CallsKeepScratch` | `RelocSpec => []ScratchKept` |
| `RelocationProofs!EntryReported` | `RelocSpec => ReportsEntry` |

The type invariants of `CallAction`, `ThreadGroup`, `EventPairing` and
`TraceSession` are part of the lemmas these rest on.  None of the properties is
inductive alone; what each proof adds is the following.

**RingBuffer.**  `BaseInv` adds `Position` (while a poll is under way, `seq` is the
first number not yet passed, the snapshot covers `seq .. end_seq`, and all of these
have been reserved) and `Origins` (a number in `committed_seq`, or in a snapshot,
belongs to that slot and was reserved before).  A slot that shows a number greater
than `seq` is therefore at least a whole lap ahead, which is `OverwrittenIsLapped`,
and this in turn is why a loss marker written after the fresh header is a step of
`EventLog!Lose`.  Intactness needs `IInv`, with two more parts, both for slots
without a lapped writer only: `RingInv` (at most one producer is in a slot; before
it has zeroed `committed_seq` it has stored nothing, and afterwards the words it has
stored are its own; a published number means that all words are of that event) and
`SnapshotInv` (a word copied after the first read of `committed_seq` belongs to the
number seen, or that number is gone from the slot for good).  A number that is gone
does not come back: this is the point of the double read, and the step where a
lapped writer breaks the proof, because its late commit brings an old number back.

**ProbeCalls.**  For a thread that has met none of the named causes, `ShadowInv`
relates its machine stack to its shadow stack: `Layout` (activations own consecutive
pieces of `saved_frames`, and the top one ends at `call_stack_idx`), `Entries` (each
owned entry holds the return address and id of its call, also the one written and
not counted yet and the one not counted any more and not read yet) and `Accounted`
(each entry event has its return event or an activation that will log it).  `Layout`
has to look past activations that own nothing, or a `longjmp` over unprobed
functions would break it.

**CallAction.**  A slot that is enabled holds one whole action of a current epoch
(`SlotInv`), the epoch being written is nowhere visible yet (`PendingInv`), and a
lookup that still believes its first read of `enabled` has copied only fields of
that epoch (`LookupInv`), because an epoch that was disabled never comes back.
`TableInv` and `AgreeInv` say who owns a slot in the middle of an operation.

**ProbePatching.**  The probe table is true only because of the pool behind it:
registered probes own different slots of the one pool (`OwnerInv`), the pool is
there while one of them is (`PoolInv`), and nothing is unmapped or handed out again
while an owner is left (`LeakInv`).  For the threads (`ThreadInv`), every place that
no step endangered is safe: bytes under a patch are original or the function is
known to be harmed, and a trampoline keeps its contents as long as its slot is not
given up, also when `detach` has forgotten the probe it belonged to (`Kept`).

**ThreadGroup, RemoteExec.**  `MarkInv` says where the tracer will find each traced
thread again (its table, a stop not waited for, or the strays), `RefreshInv` why a
pass that finds nothing new proves that nothing runs (the first read of
`/proc/pid/task` returns all threads, and only a running thread creates one),
`StopInv` what `threads_stopped` is worth, and `ExitInv` that a poll has the main thread
in its table unless that is dead, so that a table without it means an exit.
`SignalInv` keeps the books (`Account`): what a thread of the table is owed is what
`resume_signal` remembers or what a stop not waited for yet carries, and for the main
thread in a stub both.  For the stubs, `LentInv`
says what is borrowed at each stage, and `StubInv` where the stub is.
`RemoteExec` keeps `ThreadGroup`'s variables, and a stage that `ThreadGroup` does not
see leaves them alone, so the invariants carry over.

**EventPairing, TraceSession.**  A trace and an id name one call (`Unique`), entry
events are read in the order of their calls (`InOrder`), the log belongs to this
trace (`OfThisTrace`), and a call that has kept its slot finds its own entry there
(`Kept`).  `SessionInv` adds how far a set-up has come (`UnderWay`) and where the
jump in a patched function is from (`JumpKnown`), also that there is none in a process
that was attached under an active trace.

**Relocation.**  `BuildInv` is about the builder: between two rounds the buffer holds
the prefix and, for each instruction passed, what its copy has to consist of
(`X86Copy`, `A64Copy`), one copy behind the other (`Laid`); at the end also the
suffix, with the displacement of the call filled in.  Two facts carry it: emitting
never overwrites (`Emitted`), and `zt_mov_abs_size` foretells what
`zt_emit_mov_abs` emits.  `MachInv` is about the execution: when the machines can be
compared, the patched one is at the image of the original's pc with the same
registers and stack, return addresses replaced by those in the trampoline
(`AtPoint`); during a round it is at one of the places of `OnTheWay`, each with what
is in flight there: in the prefix (`Entering`), inside a copy, with the halfwords of
the target loaded so far (`Inside`), back from a relocated call before `r11` is
restored (`Returning`), or in the suffix (`Leaving`).  Each instruction leads from one
of these to the next (`WayStep`), the number of reports counted along.  No induction
over the length of a text or of an execution is needed, because both are built by
steps of the specification.  That an address is the sum of its halfwords
(`MovkFacts`) is arithmetic for any halfword size.  Both invariants
hold on the instance of `relocation` when a module that EXTENDS `MCRelocation` and
`RelocationProofs` is given to TLC.

**Only model-checked**: liveness under fairness (`EventuallyPassed`,
`WaitEndsOrExited`, `EventsNoticed`), which is out of the prover's reach; and `ProbeFilter`
(`AgreesWithC`, `WellFormedAccepted`, `AcceptedParses`), whose parser is recursive
over texts and whose reference is recursive over trees: a proof needs induction over
data.

## 5. Where code and comments disagree

Four runs end in a counterexample to something a comment says.

1. **A full shadow stack** (`calls_overflow`).  `save_probe_frame_c` gives up
   silently, `entry_stub` replaces the return address all the same, and the return
   takes the return address of an outer call.
2. **Tracing again after a detach** (`patching_detach`).  trace f, detach, attach,
   trace f, disable f: the second trace has saved the first one's jump as the
   original bytes, and disabling writes it back.
3. **A target that exits while it is being stopped** (`threads_exit`).
   `zt_injector_interrupt_all` waits for the main thread first; the kernel
   reports its exit only after the other traced threads have been reaped.
4. **A call in flight when the last probe goes** (`session_in_flight`).  `untrace`
   of the last probe unmaps the trace buffer; a call that the probe caught returns
   through `zt_handle_return`, which reads the unmapped buffer.

Further statements in the modules are kept, with a comment on how they fail, since
they say what the checked property excepts.  TLC refutes each of them when it is
put into a configuration:

- `RingBuffer!Intact` fails for a lapped writer: a producer that is descheduled
  between reserving and committing while the others go once around the ring still
  stores into a slot that is now another event's, and the reader's double read
  accepts the mixed event.  With 4096 slots this takes a long stall;
  `DumpedEventsIntact` proves that there is no other way.
- `ProbeCalls!Transparent` also fails when a handler hits a probe between the
  frame and the index (`Signals`) and after `longjmp` (`Unwinds`);
  `SameCallId` fails for a call action whose callee is probed.
- `ProbePatching!Undisturbed` fails for a thread that returns from a handler into
  bytes that were patched meanwhile: the safety test sees the handler's pc.
- `ThreadGroup!AllStopped` fails for a thread created by one that ends before it is
  seized; `StubExecuted` fails when an interrupt is pending from a signal stop.
- `ProbeFilter!CPrecedence` fails for `!0 == arg0 < 1`.  `zt_filter.c` promises "normal
  C-like precedence"; its parser has one level for `==`, `!=`, `<`, `<=`, `>` and `>=`
  where C has two, so `a == b < c` is read as `(a == b) < c`.
- `RingBuffer!IntactUnlessLapped` with `OrderedStores = FALSE`, and
  `CallAction!WholeAction` with `OrderedLoads = FALSE`, fail: on a weakly ordered
  machine the plain stores and loads would need fences.

Exceptions that the checked properties name, and what in the code is behind them:

- `DetachFrees` excepts a `threads_stopped` that is `stale`: a second stop of a
  stopped session that fails half way leaves it set, and `zt_injector_detach` then
  detaches without stopping the threads that run.
- `SignalsKept` names four ways in which a signal is lost: a SIGTRAP of the target's
  own is taken for one of ptrace (`zt_resume_signal_from_status`); a signal that stops
  a stub is not recorded, for the stub's wait does not mark the thread; a signal that
  the main thread is owed goes when a late interrupt stops a stub and the thread is
  resumed from that stop; and `PTRACE_DETACH` passes no signal.
- `NoneForgotten` excepts threads beyond `ZT_THREADS_CAPACITY`, which are seized and not
  recorded, and those of a detach that could not stop the target.  A stop that is still
  to be waited for is known, but nobody waits for it unless a trace runs: without one
  `zt_cli_event_hook` does not poll, and a thread that a signal stops then stays
  stopped until the next command that stops the target.
- `EventsNoticed` excepts a thread that was seized and not recorded, for which every
  later refresh fails, and the wait of `threads_exit`.
- `HarmExplained` excepts function calls.  The functions may change floating-point and
  vector registers, which are neither saved nor restored; on x86_64 the stub also
  leaves `rax` and the red zone to chance, while aarch64 avoids the restart with
  `zt_remote_stub_pc`.
- `AgreesWithC` excepts a comparison as the right operand of `==` or `!=` (see above).
  `WellFormedAccepted` excepts conditions with too many tokens or characters and
  numbers beyond 64 bits, which are refused.
- `SameBuffer` excepts a trace under which `attach` took another process: its addresses
  mean nothing there, and the next poll ends the trace.
- `SameMeaning` excepts jumps to an instruction under the patch, functions that are
  shorter than the patch, x86_64 `loop` instructions (copied as they are) and aarch64
  instructions the disassembler does not know (the trampoline is cut short there).
  While a relocated call is running its callee's stack is one word deeper, and a
  relocated jump changes `r11`.
- `NothingLeft` excepts regions whose unmapping failed, or whose set-up a disturbed
  stub or a detach interrupted.

## 6. What is not modelled

- **Symbol resolution, signatures, formatting, argument parsing**: text in, text
  out, no state that another part depends on.
- **Machine code**: `Relocation` abstracts instructions to what they do to the
  program counter and a few registers; decoding is Capstone's.  The registers that
  the stubs save and restore are left out, and so are functions that read x15, x16 or
  x17 before they set them, which the trampolines of aarch64 change.  Of a probe id
  x86_64 keeps 32 bits; ids count from 1.
- **Locks inside the target**: a `dlopen` in the main thread while a stopped thread
  holds the loader's or the allocator's lock never returns.  The code has no
  timeout there, and the target's locks are not part of any state it knows.
- **The last events**: what is in the ring when the last probe is removed or the
  target exits is not part of `RingBuffer`'s liveness.
- A main thread that ends alone while other threads go on; overlapping patches;
  several symbols at one address; sequence numbers that wrap at 2^64.
- In `TraceSession`, another process in which the recorded addresses happen to be
  mapped, and a return to the first process after another one was attached.
- In `ThreadGroup`, signals during the single steps of
  `zt_ensure_patch_regions_are_safe`, stops by job control, and `execve`.
- In `ThreadGroup`, the `waitpid` and the resumption of a stopped thread in a poll
  are one step.
- The composition of all modules in one: their interfaces (section 2) are argued,
  not checked, except where a refinement is.

## 7. Running

```
tlc -config MCRingBuffer.cfg RingBuffer
tlc -config MCProbePatching.cfg MCProbePatching
tlc -config MCRemoteExec.cfg RemoteExec
tlc -config MCRelocation.cfg MCRelocation
tlapm ProbePatchingProofs.tla
```

`MCProbePatching*.cfg` and `MCRelocation.cfg` belong to the modules `MCProbePatching`
and `MCRelocation`, `MCTraceSessionFault.cfg` to `TraceSession`, `MCThreadGroupExit.cfg` to
`ThreadGroup`, and every other configuration to the module it is named after.  A proof module takes from ten to
twenty-five minutes when it is checked from nothing.
