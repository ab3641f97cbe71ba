----------------------------- MODULE Relocation -----------------------------
(***************************************************************************)
(* The trampoline builders: zt_arch_calc_patch_span finds the instructions *)
(* under the jump, zt_emit_relocated_orig_code rewrites them for their new *)
(* address, and zt_build_trampoline puts them between a call of entry_stub *)
(* and a jump to the rest of the function, on x86_64 and on aarch64.       *)
(*                                                                         *)
(* When the builder has accepted a function, the original and the patched  *)
(* one are executed side by side: for each instruction of the original,    *)
(* the patched one runs on to the next point at which the two can be       *)
(* compared.                                                               *)
(*                                                                         *)
(* Code is a function from addresses to instructions.  Instructions are    *)
(* abstracted to what they do to the program counter, the scratch          *)
(* registers and one destination register; those that are emitted have     *)
(* the sizes they have in the code.  What the stubs do is ProbeCalls'.     *)
(***************************************************************************)
EXTENDS Integers, Sequences

CONSTANTS X86PatchLen, A64PatchLen,   \* bytes of the jump
          DispMax,                    \* INT32_MAX
          Half,                       \* values of a halfword; an address has four halfwords
          TrampolineSize,             \* ZT_TRAMPOLINE_POOL_SLOT_SIZE
          Fn, TextEnd,                \* the text of a function and of what follows it
          Tr,                         \* the slot of the trampoline
          Callee, EntryStub, Caller,  \* functions that it calls, and its return address
          ProbeId,
          Programs                    \* for each architecture: the texts

Insn(op, size, arg) == [op |-> op, size |-> size, arg |-> arg, reg |-> "rd", hw |-> 0]
Move(op, reg, h, arg) == [op |-> op, size |-> 4, arg |-> arg, reg |-> reg, hw |-> h]

Jumps == {"jmp", "jcc", "jrcxz", "loop"}
Relative == Jumps \cup {"call", "mem", "adr", "ldr"}

\* "unknown" is an instruction of the processor that the disassembler does not know.
Ops == [x86_64 |-> {"plain", "unknown", "ret", "mem", "call"} \cup Jumps,
        aarch64 |-> {"plain", "unknown", "ret", "adr", "ldr", "call", "jmp", "jcc"}]

\* The end of the instruction i at address a, and where it leads if it is relative.
After(a, i) == a + i.size
Target(a, i) == After(a, i) + i.arg

Addresses == 0 .. Half * Half * Half * Half - 1
Text == Fn .. TextEnd
Slot == Tr .. Tr + TrampolineSize

\* Instructions follow one another without gaps, relative ones lead to instructions, to
\* the callee or to data, and the last instruction is a return.
IsText(m, p) ==
    /\ Fn \in DOMAIN p
    /\ \A a \in DOMAIN p :
        LET i == p[a]
            to == Target(a, i)
        IN  /\ a \in Text /\ After(a, i) <= TextEnd
            /\ i = Insn(i.op, i.size, i.arg) /\ i.op \in Ops[m] /\ i.size \in Nat \ {0} /\ i.arg \in Int
            /\ m = "aarch64" => i.size = 4 /\ (a - Fn) % 4 = 0
            /\ \A b \in DOMAIN p : a < b => After(a, i) <= b
            /\ After(a, i) \in DOMAIN p \/ (i.op = "ret" /\ \A b \in DOMAIN p : b <= a)
            /\ i.op \in Jumps => to \in DOMAIN p \cup {Callee}
            /\ i.op = "call" => to = Callee
            /\ i.op \in Relative => to \in Addresses

ASSUME RelocationAssumption ==
    /\ {X86PatchLen, A64PatchLen} \subseteq Nat \ {0} /\ Half \in Nat \ {0, 1} /\ {DispMax, TrampolineSize} \subseteq Nat
    /\ {Fn, TextEnd, Tr, Callee, EntryStub, Caller, ProbeId} \subseteq Addresses
    /\ Text \cap Slot = {} /\ {Callee, EntryStub, Caller} \cap (Text \cup Slot) = {}
    /\ Callee # EntryStub /\ Callee # Caller /\ EntryStub # Caller
    /\ \A m \in {"x86_64", "aarch64"} : \A p \in Programs[m] : IsText(m, p)

VARIABLES
    isa,
    prog,       \* the text
    phase,      \* "capture", "build", "relocate", "run" or "refused"
    span,       \* patch_len
    buf,        \* the trampoline: ok, the end of what was emitted, and the instructions
    cursor,     \* the next instruction to be relocated
    starts,     \* for an instruction under the jump: the address of its copy
    suffix,     \* the end of the relocated instructions
    orig,       \* the machine that executes prog
    patched,    \* the machine that executes prog with the jump, and the trampoline
    turn,       \* "patched" while that machine is on its way to the next instruction of orig
    cond,       \* outcome of the condition of the instruction that orig is at
    \* history, not in the code
    reports,    \* calls of entry_stub for this instruction of orig
    entered,    \* orig jumps to an instruction under the patch other than the first
    strayed,    \* orig goes to an instruction that the trampoline holds wrongly or not at all
    jumped      \* orig takes or took a jump from under the patch

build == <<isa, prog, phase, span, buf, cursor, starts, suffix>>
machines == <<orig, patched, turn, cond>>
history == <<reports, entered, strayed, jumped>>
relocVars == <<build, machines, history>>

code == buf.text

Machine(pc) == [pc |-> pc, rd |-> 0, tmp |-> 0, x17 |-> 0, lr |-> Caller, x15 |-> 0, stack |-> <<Caller>>]

\* The first instruction of a function: this one, or one that begins behind a ret.
Entries(p) == {Fn} \cup {a \in DOMAIN p : \E b \in DOMAIN p : p[b].op = "ret" /\ a = After(b, p[b])}

Empty == [ok |-> TRUE, end |-> Tr, text |-> [a \in {} |-> 0]]

Init ==
    /\ isa \in {"x86_64", "aarch64"}
    /\ prog \in Programs[isa]
    /\ phase = "capture" /\ span = 0 /\ buf = Empty /\ cursor = Fn /\ starts = [a \in {} |-> 0] /\ suffix = Tr
    /\ \E pc \in Entries(prog) : orig = Machine(pc) /\ patched = Machine(pc)
    /\ turn = "orig" /\ cond = TRUE
    /\ reports = 0 /\ entered = FALSE /\ strayed = FALSE /\ jumped = FALSE
-----------------------------------------------------------------------------
(* zt_arch_calc_patch_span                                                 *)

\* cs_disasm stops at the first instruction that it does not know.
Decoded(a) == \A b \in DOMAIN prog : b <= a => prog[b].op # "unknown"

\* x86_64: whole instructions, at least as long as the jump.
X86Spans == {n \in {After(a, prog[a]) - Fn : a \in {b \in DOMAIN prog : Decoded(b)}} : n >= X86PatchLen}

\* aarch64: the length of the jump, rounded up to instructions, known or not.
A64Spans == {n \in {((A64PatchLen + 3) \div 4) * 4} : \E a \in DOMAIN prog : Fn + n <= After(a, prog[a])}

\* zt_enable_probe
Capture ==
    LET spans == IF isa = "x86_64" THEN X86Spans ELSE A64Spans IN
    /\ phase = "capture"
    /\ IF spans = {} THEN phase' = "refused" /\ UNCHANGED span
       ELSE phase' = "build" /\ span' \in {n \in spans : \A k \in spans : n <= k}
    /\ UNCHANGED <<isa, prog, buf, cursor, starts, suffix, machines, history>>
-----------------------------------------------------------------------------
(* Emitting into a buffer.                                                 *)

Write(f, a, v) == [x \in DOMAIN f \cup {a} |-> IF x = a THEN v ELSE f[x]]
Refuse(b) == [ok |-> FALSE, end |-> b.end, text |-> b.text]

\* Mutant: the size of the buffer is not looked at.
MutantEmit(b, i) == IF b.ok THEN [ok |-> TRUE, end |-> b.end + i.size, text |-> Write(b.text, b.end, i)] ELSE b

\* zt_emit_bytes
Emit(b, i) ==
    IF b.ok /\ b.end + i.size <= Tr + TrampolineSize
    THEN [ok |-> TRUE, end |-> b.end + i.size, text |-> Write(b.text, b.end, i)]
    ELSE Refuse(b)

b ++ i == Emit(b, i)
-----------------------------------------------------------------------------
(* zt_emit_relocated_orig_code, x86_64.                                    *)

\* zt_rewrite_rel_jmp
X86AbsJmp(b, to) == b ++ Insn("movabs", 10, to) ++ Insn("jmptmp", 3, 0)

\* Mutant: r11 is taken off the stack and not restored.
MutantX86AbsCall(b, to) ==
    b ++ Insn("pushtmp", 2, 0) ++ Insn("movabs", 10, to) ++ Insn("calltmp", 3, 0) ++ Insn("drop", 2, 0)

\* zt_rewrite_rel_call
X86AbsCall(b, to) ==
    b ++ Insn("pushtmp", 2, 0) ++ Insn("movabs", 10, to) ++ Insn("calltmp", 3, 0) ++ Insn("poptmp", 2, 0)

\* zt_is_conditional_jump: LOOP is not among them.
X86Conditional == {"jcc", "jrcxz"}

\* zt_inverse_short_jcc_opcode: a jump on the count register has no inverse.
X86HasInverse(i) == i.op # "jrcxz"

\* zt_rewrite_cond_jmp: the inverse jump skips the absolute one.
X86CondJmp(b, i, to) == IF X86HasInverse(i) THEN X86AbsJmp(b ++ Insn("jncc", 2, 13), to) ELSE Refuse(b)

\* zt_patch_disp32
FitsDisp32(disp) == disp \in -DispMax - 1 .. DispMax

\* Rebasing a RIP-relative operand.
X86Rebase(b, i, to) ==
    LET disp == to - (b.end + i.size)
    IN  IF FitsDisp32(disp) THEN b ++ Insn("mem", i.size, disp) ELSE Refuse(b)

X86Insn(b, a, i) ==
    CASE i.op = "call"            -> X86AbsCall(b, Target(a, i))
      [] i.op = "jmp"             -> X86AbsJmp(b, Target(a, i))
      [] i.op \in X86Conditional  -> X86CondJmp(b, i, Target(a, i))
      [] i.op = "mem"             -> X86Rebase(b, i, Target(a, i))
      [] OTHER                    -> b ++ i
-----------------------------------------------------------------------------
(* zt_emit_relocated_insn, aarch64.                                        *)

\* v >> (16 * h), and the halfword that is then the lowest.
Shift(v, h) ==
    CASE h = 0 -> v [] h = 1 -> v \div Half [] h = 2 -> (v \div Half) \div Half [] h = 3 -> ((v \div Half) \div Half) \div Half
Halfword(v, h) == Shift(v, h) % Half
Unit(h) == CASE h = 0 -> 1 [] h = 1 -> Half [] h = 2 -> Half * Half [] h = 3 -> Half * Half * Half

\* zt_emit_mov_abs
MovAbs(b, reg, v) ==
    LET movk(c, h) == IF Halfword(v, h) = 0 THEN c ELSE c ++ Move("movk", reg, h, Halfword(v, h))
    IN  movk(movk(movk(b ++ Move("movz", reg, 0, Halfword(v, 0)), 1), 2), 3)

\* Mutant: an address has four halfwords.
MutantMovAbsSize(v) == 16

\* zt_mov_abs_size
MovAbsSize(v) ==
    LET movk(h) == IF Halfword(v, h) = 0 THEN 0 ELSE 4 IN 4 + movk(1) + movk(2) + movk(3)

A64AbsBranch(b, to) == MovAbs(b, "tmp", to) ++ Insn("jmptmp", 4, 0)
A64AbsCall(b, to) == MovAbs(b, "tmp", to) ++ Insn("calltmp", 4, 0)

\* zt_emit_cond_abs_branch, zt_emit_cb_abs_branch, zt_emit_tb_abs_branch: the distance is
\* encoded from the branch itself.
A64CondBranch(b, to) ==
    LET skip == 4 + MovAbsSize(to) + 4 IN A64AbsBranch(b ++ Insn("jncc", 4, skip - 4), to)

A64Insn(b, a, i) ==
    CASE i.op = "adr"  -> MovAbs(b, "rd", Target(a, i))
      [] i.op = "call" -> A64AbsCall(b, Target(a, i))
      [] i.op = "jmp"  -> A64AbsBranch(b, Target(a, i))
      [] i.op = "jcc"  -> A64CondBranch(b, Target(a, i))
      [] i.op = "ldr"  -> Refuse(b)
      [] OTHER         -> b ++ i
-----------------------------------------------------------------------------
(* zt_build_trampoline                                                     *)

A64Prefix ==
    A64AbsCall(MovAbs(Empty ++ Insn("savelr", 4, 0), "x17", ProbeId), EntryStub) ++ Insn("restorelr", 4, 0)

\* Mutant: the id of the template stays.
MutantX86Prefix == Empty ++ Insn("pushid", 5, 0) ++ Insn("calli", 6, 0) ++ Insn("drop", 5, 0)

\* push, call [rip + call_disp], lea; call_disp is filled in at the end.  push extends 32
\* bits of the id, and ids count from 1.
X86Prefix == Empty ++ Insn("pushid", 5, ProbeId) ++ Insn("calli", 6, 0) ++ Insn("drop", 5, 0)

\* The prefix.  A disassembly of no instruction is a failure, one that ends early is not.
BuildPrefix ==
    LET b == IF isa = "x86_64" THEN X86Prefix ELSE A64Prefix IN
    /\ phase = "build"
    /\ phase' = IF b.ok /\ prog[Fn].op # "unknown" THEN "relocate" ELSE "refused"
    /\ buf' = b /\ suffix' = b.end
    /\ UNCHANGED <<isa, prog, span, cursor, starts, machines, history>>

More == cursor < Fn + span /\ prog[cursor].op # "unknown"

\* One round of the loop in zt_emit_relocated_orig_code.
Relocate ==
    LET i == prog[cursor]
        b == IF isa = "x86_64" THEN X86Insn(buf, cursor, i) ELSE A64Insn(buf, cursor, i)
    IN  /\ phase = "relocate" /\ More
        /\ buf' = b /\ suffix' = b.end
        /\ phase' = IF b.ok THEN phase ELSE "refused"
        /\ cursor' = After(cursor, i) /\ starts' = Write(starts, cursor, buf.end)
        /\ UNCHANGED <<isa, prog, span, machines, history>>

\* jmp [rip + 8], the address of entry_stub, and the address to continue at.
X86Suffix == buf ++ Insn("jmpi", 6, 8) ++ Insn("quad", 8, EntryStub) ++ Insn("quad", 8, Fn + span)

\* call_disp: from the end of the call to the address of entry_stub.
X86Linked(b) ==
    [ok |-> TRUE, end |-> b.end, text |-> Write(b.text, Tr + 5, Insn("calli", 6, suffix + 6 - (Tr + 11)))]

\* The suffix, and zt_install_probe_patch when it succeeded.
Finish ==
    LET b == IF isa = "x86_64" THEN X86Suffix ELSE A64AbsBranch(buf, Fn + span) IN
    /\ phase = "relocate" /\ ~More
    /\ phase' = IF b.ok THEN "run" ELSE "refused"
    /\ buf' = IF b.ok /\ isa = "x86_64" THEN X86Linked(b) ELSE b
    /\ entered' = (orig.pc \in Fn + 1 .. Fn + span - 1)
    /\ UNCHANGED <<isa, prog, span, cursor, starts, suffix, machines, reports, strayed, jumped>>
-----------------------------------------------------------------------------
(* The processors.                                                         *)

Push(m, v) == [m EXCEPT !.stack = <<v>> \o @]
Link(m, a) == IF isa = "x86_64" THEN Push(m, a) ELSE [m EXCEPT !.lr = a]
Goto(m, a) == [m EXCEPT !.pc = a]
Leave(m) == IF isa = "x86_64" THEN [m EXCEPT !.pc = Head(m.stack), !.stack = Tail(@)] ELSE Goto(m, m.lr)

\* One instruction; c is the outcome of the condition.  rd stands for any register that
\* the ABI lets a function use on entry: a text that reads x15, x16 or x17 before it sets
\* them is left out.
Exec(m, i, c) ==
    LET next == After(m.pc, i)
        to == Target(m.pc, i)
        on == Goto(m, next)
    IN
    CASE i.op \in {"plain", "unknown"}    -> [on EXCEPT !.rd = i.arg]
      [] i.op \in {"mem", "adr", "ldr"}   -> [on EXCEPT !.rd = to]
      [] i.op = "jmp"                     -> Goto(m, to)
      [] i.op \in {"jcc", "jrcxz", "loop"} -> IF c THEN Goto(m, to) ELSE on
      [] i.op = "jncc"                    -> IF c THEN on ELSE Goto(m, to)
      [] i.op = "call"                    -> Goto(Link(m, next), to)
      [] i.op = "calltmp"                 -> Goto(Link(m, next), m.tmp)
      [] i.op = "jmptmp"                  -> Goto(m, m.tmp)
      [] i.op = "calli"                   -> Goto(Link(m, next), code[to].arg)
      [] i.op = "jmpi"                    -> Goto(m, code[to].arg)
      [] i.op = "movabs"                  -> [on EXCEPT !.tmp = i.arg]
      [] i.op = "movz"                    -> [on EXCEPT ![i.reg] = i.arg]
      [] i.op = "movk"                    -> [on EXCEPT ![i.reg] = @ + (i.arg - Halfword(@, i.hw)) * Unit(i.hw)]
      [] i.op = "pushtmp"                 -> Push(on, m.tmp)
      [] i.op = "poptmp"                  -> [on EXCEPT !.tmp = Head(m.stack), !.stack = Tail(@)]
      [] i.op = "pushid"                  -> Push(on, i.arg)
      [] i.op = "drop"                    -> [on EXCEPT !.stack = Tail(@)]
      [] i.op = "savelr"                  -> [on EXCEPT !.x15 = m.lr]
      [] i.op = "restorelr"               -> [on EXCEPT !.lr = m.x15]
      [] i.op = "ret"                     -> Leave(m)

Under(a) == a \in Fn .. Fn + span - 1

\* The instruction at a was dropped.
Dropped(a) == Under(a) /\ a \notin DOMAIN starts

\* The original after its next step: an instruction, or a callee returns.
Goal(c) == IF orig.pc = Callee THEN Leave(orig) ELSE Exec(orig, prog[orig.pc], c)

\* There is nothing to compare behind a jump to an instruction that is no longer there.
Follow == phase = "run" /\ ~entered /\ ~strayed

\* The next step of the original is chosen.
Round ==
    LET op == IF orig.pc = Callee THEN "ret" ELSE prog[orig.pc].op IN
    /\ Follow /\ turn = "orig" /\ orig.pc # Caller
    /\ turn' = "patched" /\ reports' = 0
    /\ cond' \in (IF op \in Jumps \ {"jmp"} THEN BOOLEAN ELSE {TRUE})
    /\ LET to == Goal(cond').pc
           jumps == op \in Jumps /\ cond'
       IN  /\ entered' = (jumps /\ Under(to) /\ to # Fn)
           /\ jumped' = (jumped \/ (jumps /\ Under(orig.pc)))
           /\ strayed' = (Dropped(to) \/ (jumps /\ Under(orig.pc) /\ op = "loop"))
    /\ UNCHANGED <<build, orig, patched>>

\* What zt_arch_install_jump puts under the patch: jmp [rip], or ldr x16 and br x16.
X86Jump(m) == Goto(m, Tr)
A64Jump(m) == [m EXCEPT !.pc = Tr, !.tmp = Tr]

\* An address at which the patched function can go on.
Executable(pc) ==
    \/ pc \in {Fn, EntryStub, Callee}
    \/ pc \in DOMAIN prog /\ ~Under(pc)
    \/ pc \in DOMAIN code /\ code[pc].op # "quad"

Step(m) ==
    IF m.pc = Fn THEN IF isa = "x86_64" THEN X86Jump(m) ELSE A64Jump(m)
    ELSE IF m.pc \in {EntryStub, Callee} THEN Leave(m)
    ELSE Exec(m, IF m.pc \in DOMAIN code THEN code[m.pc] ELSE prog[m.pc], cond)

\* Where the patched function is when the original is at a.
Image(a) == IF a \in DOMAIN starts /\ a # Fn THEN starts[a] ELSE a

\* A point where the two can be compared: not in entry_stub, the prefix, the suffix, or
\* inside of what replaces an instruction.
Comparable(pc) == pc # EntryStub /\ (pc \in DOMAIN code => \E a \in DOMAIN starts : pc = Image(a))

\* An instruction of the patched function; at the end of a round the original takes its step.
PatchedStep ==
    /\ Follow /\ turn = "patched" /\ Executable(patched.pc)
    /\ patched' = Step(patched)
    /\ reports' = reports + (IF patched.pc = EntryStub THEN 1 ELSE 0)
    /\ IF Comparable(patched'.pc) THEN turn' = "orig" /\ orig' = Goal(cond)
       ELSE UNCHANGED <<turn, orig>>
    /\ UNCHANGED <<build, cond, entered, strayed, jumped>>

RelocNext == Capture \/ BuildPrefix \/ Relocate \/ Finish \/ Round \/ PatchedStep

RelocSpec == Init /\ [][RelocNext]_relocVars
-----------------------------------------------------------------------------
(* Properties.                                                             *)

\* Both machines are between two instructions of the original.
Compared == Follow /\ turn = "orig"

\* The original is in a function that an instruction under the patch has called.
InRelocatedCall == orig.pc = Callee /\ Head(orig.stack) \in Fn + 1 .. Fn + span

\* The header of the x86_64 builder: "PC-relative control flow and RIP-relative memory
\* operands are rewritten so copied instructions keep their original meaning from the
\* new address."  The patched function goes where the original goes, computes the same
\* values and has the same stack, on every path, and on its way never comes to an address
\* that holds no instruction.  Excepted are jumps to instructions under the patch, loop
\* instructions, and what the disassembler does not know; a callee of a relocated call
\* on x86_64 finds the saved r11 below its return address.
SameMeaning ==
    /\ Compared =>
        /\ patched.pc = Image(orig.pc) /\ patched.rd = orig.rd
        /\ orig.lr = Caller => patched.lr = Caller
        /\ IF isa = "x86_64" /\ InRelocatedCall THEN Tail(Tail(patched.stack)) = Tail(orig.stack)
           ELSE patched.stack = orig.stack
    /\ Follow /\ turn = "patched" => Executable(patched.pc)

\* zt_rewrite_rel_call: "Preserve r11 around relocated calls."  On x86_64 the function
\* finds its scratch register unchanged, until it takes a relocated jump.
ScratchKept ==
    Compared /\ isa = "x86_64" /\ ~jumped /\ orig.pc # Callee => patched.tmp = orig.tmp

\* entry_stub is called once each time the function is entered, at no other time, and
\* with the id of the probe.
ReportsEntry ==
    [][/\ turn = "patched" /\ turn' = "orig" => reports' = (IF orig.pc = Fn THEN 1 ELSE 0)
       /\ patched'.pc = EntryStub =>
            IF isa = "x86_64" THEN patched'.stack[2] = ProbeId /\ patched'.stack[3] = Caller
            ELSE patched'.x17 = ProbeId]_relocVars

\* A trampoline with its data does not reach into the next slot of the pool.
InsideSlot == \A a \in DOMAIN code : After(a, code[a]) <= Tr + TrampolineSize
=============================================================================
