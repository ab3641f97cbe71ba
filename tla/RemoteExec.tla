----------------------------- MODULE RemoteExec -----------------------------
(***************************************************************************)
(* zt_arch_execute_remote_stub, step by step: the registers of the main    *)
(* thread and the code at its program counter are lent to a stub and given *)
(* back, next to everything ThreadGroup's threads, signals and exits may   *)
(* do meanwhile.  ThreadGroup sees the start of the stub and its stop.     *)
(*                                                                         *)
(* What a stub disturbs besides is the kernel's and the ABI's doing: the   *)
(* restart of a system call in which the thread was stopped, the red zone  *)
(* below the stack pointer, and what a called function may change and      *)
(* PTRACE_GETREGS (NT_PRSTATUS) does not save.                             *)
(***************************************************************************)
EXTENDS ThreadGroup, Sequences

CONSTANT Isas       \* subset of {"x86_64", "aarch64"}

ASSUME IsaAssumption == Isas \subseteq {"x86_64", "aarch64"}

VARIABLES
    isa,
    step,       \* where zt_arch_execute_remote_stub is, "none" outside of it
    stub,       \* "syscall" (mmap, munmap) or "call" (dlopen, dlsym, the payload)
    in_syscall, \* the main thread was stopped in a system call that restarts
    stub_pc,    \* "here" (the thread's own program counter) or "next" instruction
    text,       \* instructions of a stub in place of the target's
    lent,       \* registers that hold values of the stub
    \* history, not in the code
    harm        \* what the stub does to the main thread's own computation

stubVars == <<step, stub, in_syscall, stub_pc, text, lent, harm>>
remoteVars == <<threadVars, isa, stubVars>>

RemoteInit ==
    /\ ThreadInit
    /\ isa \in Isas
    /\ step = "none" /\ stub = "none" /\ in_syscall = FALSE /\ stub_pc = "here"
    /\ text = <<>> /\ lent = {} /\ harm = {}
-----------------------------------------------------------------------------
(* The backends.                                                           *)

\* zt_build_syscall_stub and zt_build_call_stub
X86SyscallStub == <<"syscall", "int3">>
X86CallStub == <<"movabs rax", "call rax", "int3">>
A64SyscallStub == <<"svc", "brk">>
A64CallStub == <<"ldr x16", "blr x16", "brk", "nop", "literal">>

\* zt_prepare_syscall_regs and zt_prepare_call_regs
X86SyscallRegs == {"rax", "arguments"}
X86CallRegs == {"arguments"}
A64SyscallRegs == {"pc", "x8", "arguments"}
A64CallRegs == {"pc", "arguments"}

BuildStub(kind) ==
    IF isa = "x86_64" THEN IF kind = "syscall" THEN X86SyscallStub ELSE X86CallStub
                      ELSE IF kind = "syscall" THEN A64SyscallStub ELSE A64CallStub

PrepareRegs(kind) ==
    IF isa = "x86_64" THEN IF kind = "syscall" THEN X86SyscallRegs ELSE X86CallRegs
                      ELSE IF kind = "syscall" THEN A64SyscallRegs ELSE A64CallRegs

\* Mutant: the stub replaces the svc instruction itself.
MutantSelectStubPc(svc) == "here"

\* zt_remote_stub_pc, on aarch64 only: "Replacing the syscall instruction itself is
\* unreliable".
SelectStubPc(svc) == IF isa = "aarch64" /\ svc THEN "next" ELSE "here"

\* The kernel, when it resumes a thread that was stopped in a system call.  On x86_64 it
\* finds -ERESTART... in rax and sets the program counter back; on aarch64 it has set it
\* back already, and replaces the number of the call if it is still there.
Restarts ==
    in_syscall /\ IF isa = "x86_64" THEN "rax" \notin lent ELSE stub_pc = "here" /\ "x8" \in lent

\* call on x86_64 stores below the stack pointer.
RedZone == isa = "x86_64" /\ "call rax" \in {text[n] : n \in DOMAIN text}

\* By the ABI a function may change the floating-point and vector registers that are not
\* callee-saved; zt_get_regs and zt_set_regs deal with the general registers only.
Clobbers == {"call rax", "blr x16"} \cap {text[n] : n \in DOMAIN text} # {}

Harms == {what \in {"restart", "red zone", "vector registers"} :
            CASE what = "restart" -> Restarts [] what = "red zone" -> RedZone [] what = "vector registers" -> Clobbers}
-----------------------------------------------------------------------------
(* zt_arch_execute_remote_stub                                             *)

\* ptrace works on a stopped thread, and fails when it was killed.
Obeys == task[Leader] = "trapped" /\ Leader \in traced

Finish == step' = "none" /\ stub' = "none" /\ in_syscall' = FALSE /\ stub_pc' = "here" /\ harm' = {}

\* get_regs, select_stub_pc and the copy of the code.
SaveState(kind) ==
    /\ step = "none" /\ pc = "idle" /\ threads_stopped /\ Obeys /\ Leader \notin unwaited
    /\ step' = "saved" /\ stub' = kind
    /\ in_syscall' \in BOOLEAN
    /\ stub_pc' = SelectStubPc(in_syscall')
    /\ UNCHANGED <<threadVars, isa, text, lent, harm>>

WriteStub ==
    /\ step = "saved"
    /\ IF Obeys
       THEN step' = "written" /\ text' = BuildStub(stub) /\ UNCHANGED <<stub, in_syscall, stub_pc, harm>>
       ELSE Finish /\ UNCHANGED text
    /\ UNCHANGED <<threadVars, isa, lent>>

\* A failure here puts the code back, as far as the thread obeys.
SetRegs ==
    /\ step = "written"
    /\ IF Obeys
       THEN step' = "prepared" /\ lent' = PrepareRegs(stub) /\ UNCHANGED <<stub, in_syscall, stub_pc, harm>>
       ELSE Finish /\ UNCHANGED lent
    /\ UNCHANGED <<threadVars, isa, text>>

StartStub ==
    /\ step = "prepared" /\ Obeys
    /\ RemoteCall
    /\ step' = "running"
    /\ harm' = Harms
    /\ UNCHANGED <<isa, stub, in_syscall, stub_pc, text, lent>>

StartFails ==
    /\ step = "prepared" /\ ~Obeys
    /\ step' = "restore"
    /\ UNCHANGED <<threadVars, isa, stub, in_syscall, stub_pc, text, lent, harm>>

\* Mutant: after a stop that is not a SIGTRAP the stub is left as it is.
MutantStubStopped ==
    /\ step = "running"
    /\ RemoteReturn
    /\ step' = IF trap[Leader] = "signal" THEN "none" ELSE "restore"
    /\ UNCHANGED <<isa, stub, in_syscall, stub_pc, text, lent, harm>>

\* zt_arch_wait_for_stub_stop; whatever stopped the thread, registers and code go back.
StubStopped ==
    /\ step = "running"
    /\ RemoteReturn
    /\ step' = "restore"
    /\ UNCHANGED <<isa, stub, in_syscall, stub_pc, text, lent, harm>>

\* zt_arch_restore_regs_and_code
RestoreRegs ==
    /\ step = "restore"
    /\ lent' = IF Obeys THEN {} ELSE lent
    /\ step' = "restore code"
    /\ UNCHANGED <<threadVars, isa, stub, in_syscall, stub_pc, text, harm>>

RestoreCode ==
    /\ step = "restore code"
    /\ text' = IF Obeys THEN <<>> ELSE text
    /\ Finish
    /\ UNCHANGED <<threadVars, isa, lent>>

Stub == WriteStub \/ SetRegs \/ StartStub \/ StartFails \/ StubStopped \/ RestoreRegs \/ RestoreCode

RemoteNext ==
    \/ step = "none" /\ (Command \/ Tracer) /\ UNCHANGED <<isa, stubVars>>
    \/ Target /\ UNCHANGED <<isa, stubVars>>
    \/ \E kind \in {"syscall", "call"} : SaveState(kind)
    \/ Stub

RemoteSpec == RemoteInit /\ [][RemoteNext]_remoteVars

FairRemoteSpec == RemoteSpec /\ ThreadFairness /\ WF_remoteVars(Stub)
-----------------------------------------------------------------------------
(* Properties.                                                             *)

\* Every variable stays in its type, and ThreadGroup's are where step says.
RemoteTypeOK ==
    /\ ThreadTypeOK
    /\ step \in {"none", "saved", "written", "prepared", "running", "restore", "restore code"}
    /\ stub \in {"none", "syscall", "call"} /\ in_syscall \in BOOLEAN /\ stub_pc \in {"here", "next"}
    /\ lent \subseteq {"pc", "rax", "x8", "arguments"} /\ harm \subseteq {"restart", "red zone", "vector registers"}
    /\ pc = "stub" <=> step = "running"
    /\ step # "none" => pc \in {"idle", "stub"}

\* zt_remote_exec.c: "Every failure path must put both back before returning."  Between
\* remote calls a living main thread has its own registers and its own code, whatever
\* stopped the stub.
GivenBack ==
    step = "none" /\ task[Leader] \in {"running", "trapped"} => text = <<>> /\ lent = {}

\* A remote system call leaves no trace in the computation of the borrowed thread.  A
\* remote function call may leave the vector registers changed; on x86_64 it also restarts the
\* system call in which the thread was stopped, with the arguments of the function,
\* and uses the red zone.
HarmExplained ==
    \A what \in harm : stub = "call" /\ (what = "vector registers" \/ isa = "x86_64")
=============================================================================
