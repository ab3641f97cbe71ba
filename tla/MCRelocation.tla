---------------------------- MODULE MCRelocation ----------------------------
(***************************************************************************)
(* Relocation for all functions of up to MaxInsns instructions and a       *)
(* return, taken from the sets below.  Addresses and sizes are scaled      *)
(* down: a halfword has two bits.                                          *)
(***************************************************************************)
EXTENDS Relocation, SequencesExt, FiniteSets

CONSTANTS MaxInsns,   \* bound: instructions of the function but for the last ret
          Near, Far   \* addresses of data

\* An instruction of s and the address at which it is when s begins at Fn.
At(s, n) == Fn + FoldSeq(LAMBDA i, k : k + i.size, 0, SubSeq(s, 1, n - 1))

\* Instructions; the argument of a relative one is the address that it is about.
X86Insns ==
    {Insn("plain", 1, 0), Insn("plain", 3, 0), Insn("unknown", 2, 0), Insn("ret", 1, 0),
     Insn("mem", 3, Near), Insn("mem", 3, Far), Insn("call", 3, Callee),
     Insn("loop", 2, Fn), Insn("jrcxz", 2, Fn)}
        \cup {Insn(op, 2, to) : op \in {"jmp", "jcc"}, to \in {Fn, Fn + 2, Fn + 4, Callee}}

A64Insns ==
    {Insn(op, 4, 0) : op \in {"plain", "unknown", "ret"}}
        \cup {Insn("adr", 4, Near), Insn("adr", 4, Far), Insn("ldr", 4, Near), Insn("call", 4, Callee)}
        \cup {Insn(op, 4, to) : op \in {"jmp", "jcc"}, to \in {Fn, Fn + 4, Fn + 8, Callee}}

\* What jumps inside the function leads to an instruction.
Sane(s) ==
    LET places == {At(s, n) : n \in DOMAIN s}
    IN  \A i \in Range(s) : i.op \in Jumps => i.arg \in places \cup {Callee}

\* In memory a relative argument is a distance.  Other instructions are told apart by
\* the address for which they were written.
Encode(a, i) == [i EXCEPT !.arg = IF i.op \in Relative THEN i.arg - After(a, i) ELSE a]

Load(s) ==
    [a \in {At(s, n) : n \in DOMAIN s} |-> Encode(a, s[CHOOSE n \in DOMAIN s : At(s, n) = a])]

Texts(insns) ==
    {Load(s) : s \in {t \in {Append(u, Insn("ret", 4, 0)) : u \in BoundedSeq(insns, MaxInsns)} : Sane(t)}}

MCPrograms == [m \in {"x86_64", "aarch64"} |-> Texts(IF m = "x86_64" THEN X86Insns ELSE A64Insns)]
=============================================================================
