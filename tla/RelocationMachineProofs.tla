---------------------- MODULE RelocationMachineProofs -----------------------
(***************************************************************************)
(* Proofs about Relocation, part 1: instructions, and entering the         *)
(* trampoline.                                                             *)
(*                                                                         *)
(* BuildInv says what zt_build_trampoline has put into the slot, MachInv   *)
(* how the original and the patched function are related on their way.     *)
(* This part states both, proves what each instruction does to a machine,  *)
(* and follows the patched one through the text and, on x86_64, through    *)
(* the prefix.                                                             *)
(***************************************************************************)
EXTENDS Relocation, TLAPS

-----------------------------------------------------------------------------
(* The contents of the trampoline.                                         *)

\* The text t holds the instruction i at address a.
Holds(t, a, i) == a \in DOMAIN t /\ t[a] = i

\* A buffer: what was emitted lies one after the other in the slot.
BufOK(b) ==
    /\ b = [ok |-> b.ok, end |-> b.end, text |-> b.text]
    /\ b.ok \in BOOLEAN /\ b.end \in Tr .. Tr + TrampolineSize
    /\ b.text = [x \in DOMAIN b.text |-> b.text[x]]
    /\ \A x \in DOMAIN b.text : x \in Tr .. b.end - 1 /\ b.text[x].size \in Nat /\ x + b.text[x].size <= b.end

\* The address behind the instructions of MovAbs for the halfwords below h.
Skip(v, h) == IF Halfword(v, h) = 0 THEN 0 ELSE 4
MovAt(s, v, h) ==
    CASE h = 1 -> s + 4
      [] h = 2 -> s + 4 + Skip(v, 1)
      [] h = 3 -> s + 4 + Skip(v, 1) + Skip(v, 2)
      [] h = 4 -> s + 4 + Skip(v, 1) + Skip(v, 2) + Skip(v, 3)

\* What the register holds there.
Low(v, h) ==
    CASE h = 1 -> Halfword(v, 0)
      [] h = 2 -> Halfword(v, 0) + Halfword(v, 1) * Unit(1)
      [] h = 3 -> Halfword(v, 0) + Halfword(v, 1) * Unit(1) + Halfword(v, 2) * Unit(2)
      [] h = 4 -> Halfword(v, 0) + Halfword(v, 1) * Unit(1) + Halfword(v, 2) * Unit(2) + Halfword(v, 3) * Unit(3)

\* MovAbs has put its instructions at s.
Movs(t, s, reg, v) ==
    /\ Holds(t, s, Move("movz", reg, 0, Halfword(v, 0)))
    /\ \A h \in 1 .. 3 : Halfword(v, h) # 0 => Holds(t, MovAt(s, v, h), Move("movk", reg, h, Halfword(v, h)))

\* The copy of the instruction i at a lies from s to e.
X86Copy(t, i, a, s, e) ==
    CASE i.op = "call" -> /\ Holds(t, s, Insn("pushtmp", 2, 0)) /\ Holds(t, s + 2, Insn("movabs", 10, Target(a, i)))
                          /\ Holds(t, s + 12, Insn("calltmp", 3, 0)) /\ Holds(t, s + 15, Insn("poptmp", 2, 0)) /\ e = s + 17
      [] i.op = "jmp"  -> Holds(t, s, Insn("movabs", 10, Target(a, i))) /\ Holds(t, s + 10, Insn("jmptmp", 3, 0)) /\ e = s + 13
      [] i.op = "jcc"  -> /\ Holds(t, s, Insn("jncc", 2, 13)) /\ Holds(t, s + 2, Insn("movabs", 10, Target(a, i)))
                          /\ Holds(t, s + 12, Insn("jmptmp", 3, 0)) /\ e = s + 15
      [] i.op = "mem"  -> Holds(t, s, Insn("mem", i.size, Target(a, i) - (s + i.size))) /\ e = s + i.size
      [] OTHER         -> i.op # "jrcxz" /\ Holds(t, s, i) /\ e = s + i.size

A64Copy(t, i, a, s, e) ==
    LET v == Target(a, i) IN
    CASE i.op = "adr"  -> Movs(t, s, "rd", v) /\ e = MovAt(s, v, 4)
      [] i.op = "call" -> Movs(t, s, "tmp", v) /\ Holds(t, MovAt(s, v, 4), Insn("calltmp", 4, 0)) /\ e = MovAt(s, v, 4) + 4
      [] i.op = "jmp"  -> Movs(t, s, "tmp", v) /\ Holds(t, MovAt(s, v, 4), Insn("jmptmp", 4, 0)) /\ e = MovAt(s, v, 4) + 4
      [] i.op = "jcc"  -> /\ Holds(t, s, Insn("jncc", 4, e - (s + 4))) /\ Movs(t, s + 4, "tmp", v)
                          /\ Holds(t, MovAt(s + 4, v, 4), Insn("jmptmp", 4, 0)) /\ e = MovAt(s + 4, v, 4) + 4
      [] OTHER         -> i.op # "ldr" /\ Holds(t, s, i) /\ e = s + i.size

CopyOf(t, i, a, s, e) == IF isa = "x86_64" THEN X86Copy(t, i, a, s, e) ELSE A64Copy(t, i, a, s, e)

\* The prefix of aarch64: the two constants, the call, and the end.
IdAt == Tr + 4
StubAt == MovAt(IdAt, ProbeId, 4)
CallAt == MovAt(StubAt, EntryStub, 4)
PrefixEnd == IF isa = "x86_64" THEN Tr + 16 ELSE CallAt + 8

X86PrefixAt(t) ==
    /\ Holds(t, Tr, Insn("pushid", 5, ProbeId)) /\ Holds(t, Tr + 11, Insn("drop", 5, 0))
    /\ Tr + 5 \in DOMAIN t /\ t[Tr + 5] = Insn("calli", 6, t[Tr + 5].arg)
A64PrefixAt(t) ==
    /\ Holds(t, Tr, Insn("savelr", 4, 0)) /\ Movs(t, IdAt, "x17", ProbeId) /\ Movs(t, StubAt, "tmp", EntryStub)
    /\ Holds(t, CallAt, Insn("calltmp", 4, 0)) /\ Holds(t, CallAt + 4, Insn("restorelr", 4, 0))
PrefixAt(t) == IF isa = "x86_64" THEN X86PrefixAt(t) ELSE A64PrefixAt(t)

X86SuffixAt(t) ==
    /\ Holds(t, suffix, Insn("jmpi", 6, 8)) /\ Holds(t, suffix + 6, Insn("quad", 8, EntryStub))
    /\ Holds(t, suffix + 14, Insn("quad", 8, Fn + span)) /\ t[Tr + 5].arg = suffix + 6 - (Tr + 11)
A64SuffixAt(t) ==
    Movs(t, suffix, "tmp", Fn + span) /\ Holds(t, MovAt(suffix, Fn + span, 4), Insn("jmptmp", 4, 0))
SuffixAt(t) == IF isa = "x86_64" THEN X86SuffixAt(t) ELSE A64SuffixAt(t)
-----------------------------------------------------------------------------
(* The invariant of the builder.                                           *)

End(a) == After(a, prog[a])

\* Where the copy of the instruction at r begins, or what follows the last copy.
LandingIn(c, st, su, r) == IF r = c THEN su ELSE st[r]
Landing(r) == LandingIn(cursor, starts, suffix, r)

SpanOK ==
    /\ span \in Nat \ {0}
    /\ IF isa = "x86_64" THEN \E a \in DOMAIN prog : Fn + span = End(a)
       ELSE span % 4 = 0 /\ \E a \in DOMAIN prog : Fn + span <= End(a)

Nothing == buf = Empty /\ cursor = Fn /\ starts = [a \in {} |-> 0] /\ suffix = Tr

\* The instructions before address c have their copies in t, one behind the other from
\* the prefix to su; st has the addresses.
Laid(t, c, st, su) ==
    /\ c \in Fn .. Fn + span /\ (isa = "aarch64" => (c - Fn) % 4 = 0)
    /\ c \in DOMAIN prog \/ \A b \in DOMAIN prog : End(b) <= c
    /\ st = [a \in DOMAIN st |-> st[a]] /\ DOMAIN st = {a \in DOMAIN prog : a < c}
    /\ su \in Nat /\ PrefixAt(t) /\ LandingIn(c, st, su, Fn) = PrefixEnd /\ PrefixEnd <= su
    /\ \A a \in DOMAIN st :
        LET e == LandingIn(c, st, su, End(a))
        IN  /\ st[a] \in Nat /\ e \in Nat /\ PrefixEnd <= st[a] /\ st[a] < e /\ e <= su
            /\ CopyOf(t, prog[a], a, st[a], e)
    /\ \A a, b \in DOMAIN st : a < b => LandingIn(c, st, su, End(a)) <= st[b]

Placed == SpanOK /\ prog[Fn].op # "unknown" /\ Laid(code, cursor, starts, suffix)

BuildInv ==
    /\ isa \in {"x86_64", "aarch64"} /\ IsText(isa, prog) /\ BufOK(buf)
    /\ phase \in {"capture", "build", "relocate", "run", "refused"}
    /\ phase = "capture" => Nothing
    /\ phase = "build" => Nothing /\ SpanOK
    /\ phase = "relocate" => Placed /\ buf.ok /\ buf.end = suffix
    /\ phase = "run" => Placed /\ ~More /\ SuffixAt(code)
-----------------------------------------------------------------------------
(* Halfwords.                                                              *)

\* The constants have the types that the configuration gives them.
LEMMA ConstantTypes ==
    /\ X86PatchLen \in Nat \ {0} /\ A64PatchLen \in Nat \ {0} /\ Half \in Nat /\ Half > 1 /\ DispMax \in Nat /\ TrampolineSize \in Nat
    /\ Fn \in Nat /\ TextEnd \in Nat /\ Tr \in Nat /\ Callee \in Nat /\ EntryStub \in Nat /\ Caller \in Nat /\ ProbeId \in Nat
    /\ Callee # EntryStub /\ Callee # Caller /\ EntryStub # Caller
    /\ \A x \in Int : Fn <= x /\ x <= TextEnd => x \in Addresses
PROOF
<1> DEFINE big == Half * Half * Half * Half
<1>1. Half \in Nat /\ big \in Int
  BY RelocationAssumption
<1>2. Addresses = 0 .. big - 1
  BY DEF Addresses
<1>. HIDE DEF big
<1>3. {Fn, TextEnd} \subseteq 0 .. big - 1
  BY <1>2, RelocationAssumption
<1>4. \A x \in Int : Fn <= x /\ x <= TextEnd => x \in Addresses
  BY <1>1, <1>2, <1>3
<1>5. {Fn, TextEnd, Tr, Callee, EntryStub, Caller, ProbeId} \subseteq 0 .. big - 1
  BY <1>2, RelocationAssumption
<1>6. Fn \in Nat /\ TextEnd \in Nat /\ Tr \in Nat /\ Callee \in Nat /\ EntryStub \in Nat /\ Caller \in Nat /\ ProbeId \in Nat
  BY <1>1, <1>5
<1>. QED  BY <1>4, <1>6, RelocationAssumption

\* What a division by the size of a halfword does.
LEMMA Division ==
    ASSUME NEW B \in Nat, B > 1
    PROVE  /\ \A v \in Nat : v \div B \in Nat /\ v % B \in 0 .. B - 1 /\ v = (v \div B) * B + (v % B)
           /\ \A q \in Nat, r \in 0 .. B - 1 : (r + q * B) \div B = q
           /\ \A r \in 0 .. B - 1 : r \div B = 0 /\ r % B = r
PROOF
<1>1. ASSUME NEW v \in Nat PROVE v \div B \in Nat /\ v % B \in 0 .. B - 1 /\ v = (v \div B) * B + (v % B)
  OBVIOUS
<1>2. ASSUME NEW q \in Nat, NEW r \in 0 .. B - 1 PROVE (r + q * B) \div B = q
  OBVIOUS
<1>3. ASSUME NEW r \in 0 .. B - 1 PROVE r \div B = 0 /\ r % B = r
  OBVIOUS
<1>. QED  BY <1>1, <1>2, <1>3

\* The halfwords of an address, and the address that they make.
LEMMA HalfwordFacts ==
    ASSUME NEW v \in Addresses
    PROVE  /\ \A h \in 0 .. 3 : Halfword(v, h) \in 0 .. Half - 1
           /\ Low(v, 4) = v
PROOF
<1> DEFINE u1 == v \div Half
           u2 == u1 \div Half
           u3 == u2 \div Half
           w0 == v % Half
           w1 == u1 % Half
           w2 == u2 % Half
           w3 == u3 % Half
<1>1. Half \in Nat /\ Half > 1 /\ v \in Nat
  BY RelocationAssumption DEF Addresses
<1>2. u1 \in Nat /\ w0 \in 0 .. Half - 1 /\ v = u1 * Half + w0
  BY <1>1, Division, Zenon
<1>3. u2 \in Nat /\ w1 \in 0 .. Half - 1 /\ u1 = u2 * Half + w1
  BY <1>1, <1>2, Division, Zenon
<1>4. u3 \in Nat /\ w2 \in 0 .. Half - 1 /\ u2 = u3 * Half + w2
  BY <1>1, <1>3, Division, Zenon
<1>5. w3 \in 0 .. Half - 1
  BY <1>1, <1>4, Division
<1>6. Halfword(v, 0) = w0 /\ Halfword(v, 1) = w1 /\ Halfword(v, 2) = w2 /\ Halfword(v, 3) = w3
  BY DEF Halfword, Shift
<1>7. \A h \in 0 .. 3 : Halfword(v, h) \in 0 .. Half - 1
  BY <1>2, <1>3, <1>4, <1>5, <1>6
<1>8. u3 < Half
  <2>1. v < Half * Half * Half * Half
    BY <1>1 DEF Addresses
  <2>. HIDE DEF u1, u2, u3, w0, w1, w2, w3
  <2>2. u1 < Half * Half * Half
    BY <2>1, <1>1, <1>2
  <2>3. u2 < Half * Half
    BY <2>2, <1>1, <1>2, <1>3
  <2>. QED  BY <2>3, <1>1, <1>3, <1>4
<1>9. w3 = u3
  <2>1. u3 \in 0 .. Half - 1
    BY <1>1, <1>4, <1>8
  <2>. HIDE DEF u3
  <2>. QED  BY <2>1, <1>1, Division
<1>10. Low(v, 4) = w0 + w1 * Half + w2 * (Half * Half) + w3 * (Half * Half * Half)
  BY <1>6 DEF Low, Unit
<1>. HIDE DEF u1, u2, u3, w0, w1, w2, w3
<1>11. v = ((u3 * Half + w2) * Half + w1) * Half + w0
  BY <1>2, <1>3, <1>4
<1>12. v = w0 + w1 * Half + w2 * (Half * Half) + u3 * (Half * Half * Half)
  BY <1>1, <1>2, <1>3, <1>4, <1>11
<1>. QED  BY <1>7, <1>9, <1>10, <1>12

\* movk puts a halfword on top of the lower ones.
LEMMA MovkFacts ==
    ASSUME NEW v \in Addresses, NEW h \in 1 .. 3
    PROVE  Low(v, h) + (Halfword(v, h) - Halfword(Low(v, h), h)) * Unit(h) = Low(v, h + 1)
PROOF
<1> DEFINE w(k) == Halfword(v, k)
<1>1. Half \in Nat /\ Half > 1 /\ \A k \in 0 .. 3 : w(k) \in 0 .. Half - 1
  BY RelocationAssumption, HalfwordFacts
<1>. HIDE DEF w
<1>2. Low(v, 1) = w(0) /\ Low(v, 2) = w(0) + w(1) * Half /\ Low(v, 3) = w(0) + w(1) * Half + w(2) * (Half * Half)
  BY DEF Low, Unit, w
<1>3. /\ w(0) \in 0 .. Half - 1 /\ w(1) \in 0 .. Half - 1 /\ w(2) \in 0 .. Half - 1 /\ w(3) \in 0 .. Half - 1
      /\ w(0) \in Nat /\ w(1) \in Nat /\ w(2) \in Nat
  BY <1>1
<1>4. CASE h = 1
  <2>1. Halfword(Low(v, 1), 1) = 0
    <3>1. w(0) \div Half = 0 /\ 0 % Half = 0
      BY <1>1, <1>3, Division
    <3>. QED  BY <3>1, <1>2 DEF Halfword, Shift
  <2>. QED  BY <2>1, <1>2, <1>3, <1>4, <1>1 DEF Low, Unit, w
<1>5. CASE h = 2
  <2>1. Halfword(Low(v, 2), 2) = 0
    <3>1. (w(0) + w(1) * Half) \div Half = w(1)
      BY <1>1, <1>3, Division, Zenon
    <3>2. w(1) \div Half = 0 /\ 0 % Half = 0
      BY <1>1, <1>3, Division
    <3>. QED  BY <3>1, <3>2, <1>2 DEF Halfword, Shift
  <2>2. Low(v, 3) = Low(v, 2) + w(2) * Unit(2)
    BY DEF Low, w
  <2>3. Low(v, 2) \in Int /\ w(2) \in Int
    BY <1>1, <1>2, <1>3
  <2>. QED  BY <2>1, <2>2, <2>3, <1>5, <1>1 DEF w
<1>6. CASE h = 3
  <2>1. Halfword(Low(v, 3), 3) = 0
    <3>1. w(0) + w(1) * Half + w(2) * (Half * Half) = w(0) + (w(1) + w(2) * Half) * Half
      BY <1>1, <1>3
    <3>2. w(1) + w(2) * Half \in Nat
      BY <1>1, <1>3
    <3>. DEFINE q == w(1) + w(2) * Half
    <3>3. (w(0) + q * Half) \div Half = q
      <4>. HIDE DEF q
      <4>. QED  BY <3>2, <1>1, <1>3, Division, Zenon DEF q
    <3>6. Low(v, 3) \div Half = w(1) + w(2) * Half
      BY <3>1, <3>3, <1>2
    <3>4. (w(1) + w(2) * Half) \div Half = w(2)
      BY <1>1, <1>3, Division, Zenon
    <3>5. w(2) \div Half = 0 /\ 0 % Half = 0
      BY <1>1, <1>3, Division
    <3>. QED  BY <3>6, <3>4, <3>5 DEF Halfword, Shift
  <2>2. Low(v, 4) = Low(v, 3) + w(3) * Unit(3)
    BY DEF Low, w
  <2>3. Low(v, 3) \in Int /\ w(3) \in Int
    BY <1>1, <1>2, <1>3
  <2>. QED  BY <2>1, <2>2, <2>3, <1>6, <1>1 DEF w
<1>. QED  BY <1>4, <1>5, <1>6

\* A halfword of zero is left out.
LEMMA ZeroHalfword ==
    ASSUME NEW v \in Addresses, NEW h \in 1 .. 3, Halfword(v, h) = 0, NEW s \in Int
    PROVE  Low(v, h + 1) = Low(v, h) /\ MovAt(s, v, h + 1) = MovAt(s, v, h)
PROOF
<1>1. \A k \in 0 .. 3 : Halfword(v, k) \in Int
  BY HalfwordFacts, ConstantTypes
<1>2. Unit(1) \in Int /\ Unit(2) \in Int /\ Unit(3) \in Int
  BY ConstantTypes DEF Unit
<1>3. Skip(v, 1) \in Int /\ Skip(v, 2) \in Int /\ Skip(v, 3) \in Int /\ Skip(v, h) = 0
  BY DEF Skip
<1>4. CASE h = 1
  BY <1>1, <1>2, <1>3, <1>4 DEF Low, MovAt
<1>5. CASE h = 2
  BY <1>1, <1>2, <1>3, <1>5 DEF Low, MovAt
<1>6. CASE h = 3
  BY <1>1, <1>2, <1>3, <1>6 DEF Low, MovAt
<1>. QED  BY <1>4, <1>5, <1>6

\* Where the instructions of MovAbs lie.
LEMMA MovAtFacts ==
    ASSUME NEW v, NEW s \in Int
    PROVE  /\ MovAt(s, v, 1) = s + 4 /\ MovAt(s, v, 4) = s + MovAbsSize(v)
           /\ \A h \in 1 .. 3 : /\ MovAt(s, v, h) \in Int /\ MovAt(s, v, h) >= s + 4 /\ MovAt(s, v, h) <= MovAt(s, v, 4)
                                /\ Halfword(v, h) # 0 => MovAt(s, v, h + 1) = MovAt(s, v, h) + 4 /\ MovAt(s, v, h) < MovAt(s, v, 4)
           /\ MovAt(s, v, 4) \in Int /\ MovAt(s, v, 4) >= s + 4
PROOF
<1>1. \A h \in 1 .. 3 : Skip(v, h) \in {0, 4} /\ (Halfword(v, h) # 0 => Skip(v, h) = 4)
  BY DEF Skip
<1>2. MovAbsSize(v) = 4 + Skip(v, 1) + Skip(v, 2) + Skip(v, 3)
  BY DEF MovAbsSize, Skip
<1>3. /\ MovAt(s, v, 1) = s + 4 /\ MovAt(s, v, 2) = s + 4 + Skip(v, 1)
      /\ MovAt(s, v, 3) = s + 4 + Skip(v, 1) + Skip(v, 2) /\ MovAt(s, v, 4) = s + 4 + Skip(v, 1) + Skip(v, 2) + Skip(v, 3)
  BY DEF MovAt
<1>4. Skip(v, 1) \in {0, 4} /\ Skip(v, 2) \in {0, 4} /\ Skip(v, 3) \in {0, 4}
  BY <1>1
<1>5. MovAt(s, v, 4) = s + MovAbsSize(v) /\ MovAt(s, v, 4) \in Int /\ MovAt(s, v, 4) >= s + 4
  BY <1>2, <1>3, <1>4
<1>6. ASSUME NEW h \in 1 .. 3
      PROVE  /\ MovAt(s, v, h) \in Int /\ MovAt(s, v, h) >= s + 4 /\ MovAt(s, v, h) <= MovAt(s, v, 4)
             /\ Halfword(v, h) # 0 => MovAt(s, v, h + 1) = MovAt(s, v, h) + 4 /\ MovAt(s, v, h) < MovAt(s, v, 4)
  <2>1. CASE h = 1
    BY <2>1, <1>1, <1>3, <1>4
  <2>2. CASE h = 2
    BY <2>2, <1>1, <1>3, <1>4
  <2>3. CASE h = 3
    BY <2>3, <1>1, <1>3, <1>4
  <2>. QED  BY <2>1, <2>2, <2>3
<1>. QED  BY <1>3, <1>5, <1>6

-----------------------------------------------------------------------------
(* Instructions and their addresses.                                       *)

\* An instruction of a text.
IsInsn(i) == i = Insn(i.op, i.size, i.arg) /\ i.size \in Nat \ {0} /\ i.arg \in Int

\* The records of Insn and Move.
LEMMA InsnFields ==
    ASSUME NEW op, NEW size, NEW arg
    PROVE  /\ Insn(op, size, arg).op = op /\ Insn(op, size, arg).size = size /\ Insn(op, size, arg).arg = arg
           /\ Insn(op, size, arg).reg = "rd" /\ Insn(op, size, arg).hw = 0
  BY DEF Insn

\* The fields of a move.
LEMMA MoveFields ==
    ASSUME NEW op, NEW reg, NEW h, NEW arg
    PROVE  /\ Move(op, reg, h, arg).op = op /\ Move(op, reg, h, arg).size = 4 /\ Move(op, reg, h, arg).arg = arg
           /\ Move(op, reg, h, arg).reg = reg /\ Move(op, reg, h, arg).hw = h
  BY DEF Move

\* What IsText says of each instruction of the text.
LEMMA TextFacts ==
    ASSUME IsText(isa, prog)
    PROVE  /\ Fn \in DOMAIN prog
           /\ \A a \in DOMAIN prog :
                /\ a \in Nat /\ Fn <= a /\ a < End(a) /\ End(a) \in Nat /\ End(a) <= TextEnd /\ IsInsn(prog[a])
                /\ isa = "aarch64" => End(a) = a + 4 /\ (a - Fn) % 4 = 0
                /\ End(a) \in DOMAIN prog \/ (prog[a].op = "ret" /\ \A b \in DOMAIN prog : b <= a)
           /\ \A a, b \in DOMAIN prog : a < b => End(a) <= b
PROOF
<1>1. Fn \in DOMAIN prog
  BY DEF IsText
<1>2. ASSUME NEW a \in DOMAIN prog
      PROVE  /\ a \in Nat /\ Fn <= a /\ a < End(a) /\ End(a) \in Nat /\ End(a) <= TextEnd /\ IsInsn(prog[a])
             /\ isa = "aarch64" => End(a) = a + 4 /\ (a - Fn) % 4 = 0
             /\ End(a) \in DOMAIN prog \/ (prog[a].op = "ret" /\ \A b \in DOMAIN prog : b <= a)
  <2>1. /\ a \in Fn .. TextEnd /\ End(a) <= TextEnd /\ IsInsn(prog[a])
        /\ isa = "aarch64" => prog[a].size = 4 /\ (a - Fn) % 4 = 0
        /\ End(a) \in DOMAIN prog \/ (prog[a].op = "ret" /\ \A b \in DOMAIN prog : b <= a)
    BY DEF IsText, End, IsInsn, Text
  <2>2. End(a) = a + prog[a].size /\ prog[a].size \in Nat \ {0}
    BY <2>1 DEF End, After, IsInsn
  <2>. QED  BY <2>1, <2>2, ConstantTypes
<1>3. ASSUME NEW a \in DOMAIN prog, NEW b \in DOMAIN prog, a < b PROVE End(a) <= b
  BY <1>3 DEF IsText, End
<1>. QED  BY <1>1, <1>2, <1>3

\* The addresses of the prefix.
LEMMA PrefixAddresses ==
    /\ IdAt \in Nat /\ StubAt \in Nat /\ CallAt \in Nat /\ PrefixEnd \in Nat
    /\ Tr < IdAt /\ IdAt < StubAt /\ StubAt < CallAt /\ CallAt + 4 < CallAt + 8 /\ Tr + 16 <= PrefixEnd
    /\ isa # "x86_64" => PrefixEnd = CallAt + 8
PROOF
<1>1. IdAt \in Nat /\ Tr \in Nat /\ IdAt = Tr + 4
  BY ConstantTypes DEF IdAt
<1>2. StubAt \in Int /\ StubAt >= IdAt + 4
  BY <1>1, MovAtFacts DEF StubAt
<1>3. CallAt \in Int /\ CallAt >= StubAt + 4
  BY <1>2, MovAtFacts DEF CallAt
<1>4. PrefixEnd = IF isa = "x86_64" THEN Tr + 16 ELSE CallAt + 8
  BY DEF PrefixEnd
<1>. QED  BY <1>1, <1>2, <1>3, <1>4

-----------------------------------------------------------------------------
(* The processors.                                                         *)

Machines == [pc : Int, rd : Int, tmp : Int, x17 : Int, lr : Int, x15 : Int, stack : Seq(Int)]

\* Inside of the instructions of MovAbs.
InMovs(m, s, reg, v) == \E h \in 1 .. 4 : m.pc = MovAt(s, v, h) /\ m[reg] = Low(v, h)

Fields(n, pc, rd, tmp, x17, lr, x15, stack) ==
    /\ n \in Machines /\ n.pc = pc /\ n.rd = rd /\ n.tmp = tmp /\ n.x17 = x17
    /\ n.lr = lr /\ n.x15 = x15 /\ n.stack = stack

\* A stack with something on top.
LEMMA StackFacts ==
    ASSUME NEW s \in Seq(Int), NEW v \in Int
    PROVE  <<v>> \o s \in Seq(Int) /\ Head(<<v>> \o s) = v /\ Tail(<<v>> \o s) = s /\ <<v>> \in Seq(Int)
  OBVIOUS

\* A stack with one entry.
LEMMA BottomFacts ==
    ASSUME NEW v \in Int
    PROVE  <<v>> \in Seq(Int) /\ Head(<<v>>) = v /\ Tail(<<v>>) = <<>> /\ <<>> \in Seq(Int)
  OBVIOUS

\* What is left of a machine when its pc and one more register are set.
LEMMA PutFields ==
    ASSUME NEW m \in Machines, NEW p \in Int, NEW v \in Int, NEW s \in Seq(Int)
    PROVE  /\ Fields([[m EXCEPT !.pc = p] EXCEPT !.rd = v], p, v, m.tmp, m.x17, m.lr, m.x15, m.stack)
           /\ Fields([[m EXCEPT !.pc = p] EXCEPT !.tmp = v], p, m.rd, v, m.x17, m.lr, m.x15, m.stack)
           /\ Fields([[m EXCEPT !.pc = p] EXCEPT !.x17 = v], p, m.rd, m.tmp, v, m.lr, m.x15, m.stack)
           /\ Fields([[m EXCEPT !.pc = p] EXCEPT !.lr = v], p, m.rd, m.tmp, m.x17, v, m.x15, m.stack)
           /\ Fields([[m EXCEPT !.pc = p] EXCEPT !.x15 = v], p, m.rd, m.tmp, m.x17, m.lr, v, m.stack)
           /\ Fields([[m EXCEPT !.pc = p] EXCEPT !.stack = s], p, m.rd, m.tmp, m.x17, m.lr, m.x15, s)
           /\ Fields([[[m EXCEPT !.pc = p] EXCEPT !.tmp = v] EXCEPT !.stack = s], p, m.rd, v, m.x17, m.lr, m.x15, s)
PROOF
<1>1. Fields([[m EXCEPT !.pc = p] EXCEPT !.rd = v], p, v, m.tmp, m.x17, m.lr, m.x15, m.stack)
  BY Zenon DEF Fields, Machines
<1>2. Fields([[m EXCEPT !.pc = p] EXCEPT !.tmp = v], p, m.rd, v, m.x17, m.lr, m.x15, m.stack)
  BY Zenon DEF Fields, Machines
<1>3. Fields([[m EXCEPT !.pc = p] EXCEPT !.x17 = v], p, m.rd, m.tmp, v, m.lr, m.x15, m.stack)
  BY Zenon DEF Fields, Machines
<1>4. Fields([[m EXCEPT !.pc = p] EXCEPT !.lr = v], p, m.rd, m.tmp, m.x17, v, m.x15, m.stack)
  BY Zenon DEF Fields, Machines
<1>5. Fields([[m EXCEPT !.pc = p] EXCEPT !.x15 = v], p, m.rd, m.tmp, m.x17, m.lr, v, m.stack)
  BY Zenon DEF Fields, Machines
<1>6. Fields([[m EXCEPT !.pc = p] EXCEPT !.stack = s], p, m.rd, m.tmp, m.x17, m.lr, m.x15, s)
  BY Zenon DEF Fields, Machines
<1>7. Fields([[[m EXCEPT !.pc = p] EXCEPT !.tmp = v] EXCEPT !.stack = s], p, m.rd, v, m.x17, m.lr, m.x15, s)
  BY Zenon DEF Fields, Machines
<1>. QED  BY <1>1, <1>2, <1>3, <1>4, <1>5, <1>6, <1>7

\* Instructions that set the destination register.
LEMMA ExecSet ==
    ASSUME NEW m \in Machines, NEW i, i.size \in Int, i.arg \in Int, NEW c
    PROVE  /\ i.op \in {"plain", "unknown"} => Fields(Exec(m, i, c), m.pc + i.size, i.arg, m.tmp, m.x17, m.lr, m.x15, m.stack)
           /\ i.op \in {"mem", "adr", "ldr"} =>
                Fields(Exec(m, i, c), m.pc + i.size, m.pc + i.size + i.arg, m.tmp, m.x17, m.lr, m.x15, m.stack)
           /\ i.op = "movabs" => Fields(Exec(m, i, c), m.pc + i.size, m.rd, i.arg, m.x17, m.lr, m.x15, m.stack)
PROOF
<1>0. m.pc + i.size \in Int /\ m.pc + i.size + i.arg \in Int /\ m.stack \in Seq(Int)
  BY DEF Machines
<1>1. ASSUME i.op \in {"plain", "unknown"}
      PROVE  Fields(Exec(m, i, c), m.pc + i.size, i.arg, m.tmp, m.x17, m.lr, m.x15, m.stack)
  <2>1. Exec(m, i, c) = [[m EXCEPT !.pc = m.pc + i.size] EXCEPT !.rd = i.arg]
    BY <1>1 DEF Exec, Goto, After
  <2>. QED  BY <2>1, <1>0, PutFields, Zenon
<1>2. ASSUME i.op \in {"mem", "adr", "ldr"}
      PROVE  Fields(Exec(m, i, c), m.pc + i.size, m.pc + i.size + i.arg, m.tmp, m.x17, m.lr, m.x15, m.stack)
  <2>1. Exec(m, i, c) = [[m EXCEPT !.pc = m.pc + i.size] EXCEPT !.rd = m.pc + i.size + i.arg]
    BY <1>2 DEF Exec, Goto, After, Target
  <2>. QED  BY <2>1, <1>0, PutFields, Zenon
<1>3. ASSUME i.op = "movabs"
      PROVE  Fields(Exec(m, i, c), m.pc + i.size, m.rd, i.arg, m.x17, m.lr, m.x15, m.stack)
  <2>1. Exec(m, i, c) = [[m EXCEPT !.pc = m.pc + i.size] EXCEPT !.tmp = i.arg]
    BY <1>3 DEF Exec, Goto, After
  <2>. QED  BY <2>1, <1>0, PutFields, Zenon
<1>. QED  BY <1>1, <1>2, <1>3

\* Jumps, taken or not.
LEMMA ExecJump ==
    ASSUME NEW m \in Machines, NEW i, i.size \in Int, i.arg \in Int, NEW c \in BOOLEAN
    PROVE  LET next == m.pc + i.size
               to == m.pc + i.size + i.arg
               at(x) == Fields(Exec(m, i, c), x, m.rd, m.tmp, m.x17, m.lr, m.x15, m.stack)
           IN  /\ i.op = "jmp" => at(to)
               /\ i.op \in {"jcc", "jrcxz", "loop"} => at(IF c THEN to ELSE next)
               /\ i.op = "jncc" => at(IF c THEN next ELSE to)
               /\ i.op = "jmptmp" => at(m.tmp)
               /\ i.op = "jmpi" /\ code[to].arg \in Int => at(code[to].arg)
PROOF
<1>. DEFINE next == m.pc + i.size
            to == m.pc + i.size + i.arg
            at(x) == Fields(Exec(m, i, c), x, m.rd, m.tmp, m.x17, m.lr, m.x15, m.stack)
<1>1. \A x \in Int : Exec(m, i, c) = [m EXCEPT !.pc = x] => at(x)
  BY DEF Fields, Machines
<1>2. next \in Int /\ to \in Int /\ m.tmp \in Int
  BY DEF Machines
<1>3. ASSUME i.op = "jmp" PROVE Exec(m, i, c) = [m EXCEPT !.pc = to]
  BY <1>3 DEF Exec, Goto, Target, After
<1>4. ASSUME i.op \in {"jcc", "jrcxz", "loop"} PROVE Exec(m, i, c) = [m EXCEPT !.pc = IF c THEN to ELSE next]
  <2>1. Exec(m, i, c) = IF c THEN Goto(m, to) ELSE Goto(m, next)
    BY <1>4 DEF Exec, Target, After
  <2>. QED  BY <2>1 DEF Goto
<1>5. ASSUME i.op = "jncc" PROVE Exec(m, i, c) = [m EXCEPT !.pc = IF c THEN next ELSE to]
  <2>1. Exec(m, i, c) = IF c THEN Goto(m, next) ELSE Goto(m, to)
    BY <1>5 DEF Exec, Target, After
  <2>. QED  BY <2>1 DEF Goto
<1>6. ASSUME i.op = "jmptmp" PROVE Exec(m, i, c) = [m EXCEPT !.pc = m.tmp]
  BY <1>6 DEF Exec, Goto
<1>7. ASSUME i.op = "jmpi" PROVE Exec(m, i, c) = [m EXCEPT !.pc = code[to].arg]
  BY <1>7 DEF Exec, Goto, Target, After
<1>. HIDE DEF at, next, to
<1>8. (IF c THEN to ELSE next) \in Int /\ (IF c THEN next ELSE to) \in Int
  BY <1>2
<1>9. /\ i.op = "jmp" => at(to)
      /\ i.op \in {"jcc", "jrcxz", "loop"} => at(IF c THEN to ELSE next)
      /\ i.op = "jncc" => at(IF c THEN next ELSE to)
      /\ i.op = "jmptmp" => at(m.tmp)
      /\ i.op = "jmpi" /\ code[to].arg \in Int => at(code[to].arg)
  BY <1>1, <1>2, <1>3, <1>4, <1>5, <1>6, <1>7, <1>8
<1>. QED  BY <1>9 DEF at, next, to

\* Calls link the next address: on the stack on x86_64, in lr on aarch64.
LEMMA ExecCall ==
    ASSUME NEW m \in Machines, NEW i, i.size \in Int, i.arg \in Int, NEW c, NEW to \in Int,
           \/ i.op = "call" /\ to = m.pc + i.size + i.arg
           \/ i.op = "calltmp" /\ to = m.tmp
           \/ i.op = "calli" /\ to = code[m.pc + i.size + i.arg].arg
    PROVE  IF isa = "x86_64"
           THEN Fields(Exec(m, i, c), to, m.rd, m.tmp, m.x17, m.lr, m.x15, <<m.pc + i.size>> \o m.stack)
           ELSE Fields(Exec(m, i, c), to, m.rd, m.tmp, m.x17, m.pc + i.size, m.x15, m.stack)
PROOF
<1>. DEFINE next == m.pc + i.size
<1>1. Exec(m, i, c) = Goto(Link(m, next), to)
  <2>1. CASE i.op = "call" /\ to = m.pc + i.size + i.arg
    BY <2>1 DEF Exec, Target, After
  <2>2. CASE i.op = "calltmp" /\ to = m.tmp
    BY <2>2 DEF Exec, Target, After
  <2>3. CASE i.op = "calli" /\ to = code[m.pc + i.size + i.arg].arg
    BY <2>3 DEF Exec, Target, After
  <2>. QED  BY <2>1, <2>2, <2>3
<1>2. next \in Int /\ m.stack \in Seq(Int)
  BY DEF Machines
<1>. HIDE DEF next
<1>3. <<next>> \o m.stack \in Seq(Int)
  BY <1>2, StackFacts
<1>4. CASE isa = "x86_64"
  <2>1. Exec(m, i, c) = [[m EXCEPT !.stack = <<next>> \o m.stack] EXCEPT !.pc = to]
    BY <1>1, <1>4 DEF Goto, Link, Push
  <2>. DEFINE s == <<next>> \o m.stack
  <2>2. s \in Seq(Int) /\ Exec(m, i, c) = [[m EXCEPT !.stack = s] EXCEPT !.pc = to]
    BY <2>1, <1>3
  <2>. HIDE DEF s
  <2>3. Fields(Exec(m, i, c), to, m.rd, m.tmp, m.x17, m.lr, m.x15, s)
    BY <2>2, Zenon DEF Fields, Machines
  <2>. QED  BY <2>3, <1>4 DEF s, next
<1>5. CASE isa # "x86_64"
  <2>1. Exec(m, i, c) = [[m EXCEPT !.lr = next] EXCEPT !.pc = to]
    BY <1>1, <1>5 DEF Goto, Link
  <2>2. Fields(Exec(m, i, c), to, m.rd, m.tmp, m.x17, next, m.x15, m.stack)
    BY <2>1, <1>2, Zenon DEF Fields, Machines
  <2>. QED  BY <2>2, <1>5 DEF next
<1>. QED  BY <1>4, <1>5

\* Instructions that push, pop or drop.
LEMMA ExecStack ==
    ASSUME NEW m \in Machines, NEW i, i.size \in Int, i.arg \in Int, NEW c
    PROVE  /\ i.op = "pushtmp" => Fields(Exec(m, i, c), m.pc + i.size, m.rd, m.tmp, m.x17, m.lr, m.x15, <<m.tmp>> \o m.stack)
           /\ i.op = "pushid" => Fields(Exec(m, i, c), m.pc + i.size, m.rd, m.tmp, m.x17, m.lr, m.x15, <<i.arg>> \o m.stack)
           /\ \A v \in Int, s \in Seq(Int) : m.stack = <<v>> \o s =>
                /\ i.op = "poptmp" => Fields(Exec(m, i, c), m.pc + i.size, m.rd, v, m.x17, m.lr, m.x15, s)
                /\ i.op = "drop" => Fields(Exec(m, i, c), m.pc + i.size, m.rd, m.tmp, m.x17, m.lr, m.x15, s)
PROOF
<1>. DEFINE p == m.pc + i.size
            on == [m EXCEPT !.pc = p]
<1>1. p \in Int /\ m.tmp \in Int /\ m.stack \in Seq(Int) /\ on.stack = m.stack
  BY DEF Machines
<1>2. <<m.tmp>> \o m.stack \in Seq(Int) /\ <<i.arg>> \o m.stack \in Seq(Int)
  BY <1>1, StackFacts
<1>3. ASSUME i.op = "pushtmp" PROVE Exec(m, i, c) = [on EXCEPT !.stack = <<m.tmp>> \o m.stack]
  <2>1. Exec(m, i, c) = Push(on, m.tmp)
    BY <1>3 DEF Exec, Goto, After
  <2>. QED  BY <2>1, <1>1 DEF Push
<1>4. ASSUME i.op = "pushid" PROVE Exec(m, i, c) = [on EXCEPT !.stack = <<i.arg>> \o m.stack]
  <2>1. Exec(m, i, c) = Push(on, i.arg)
    BY <1>4 DEF Exec, Goto, After
  <2>. QED  BY <2>1, <1>1 DEF Push
<1>5. ASSUME i.op = "poptmp" PROVE Exec(m, i, c) = [[on EXCEPT !.tmp = Head(m.stack)] EXCEPT !.stack = Tail(m.stack)]
  <2>1. Exec(m, i, c) = [[on EXCEPT !.tmp = Head(m.stack)] EXCEPT !.stack = Tail([on EXCEPT !.tmp = Head(m.stack)].stack)]
    BY <1>5 DEF Exec, Goto, After
  <2>2. [on EXCEPT !.tmp = Head(m.stack)].stack = m.stack
    BY DEF Machines
  <2>. QED  BY <2>1, <2>2
<1>6. ASSUME i.op = "drop" PROVE Exec(m, i, c) = [on EXCEPT !.stack = Tail(m.stack)]
  <2>1. Exec(m, i, c) = [on EXCEPT !.stack = Tail(on.stack)]
    BY <1>6 DEF Exec, Goto, After
  <2>. QED  BY <2>1, <1>1
<1>. HIDE DEF p
<1>7. i.op = "pushtmp" => Fields(Exec(m, i, c), p, m.rd, m.tmp, m.x17, m.lr, m.x15, <<m.tmp>> \o m.stack)
  <2>. DEFINE s == <<m.tmp>> \o m.stack
  <2>1. s \in Seq(Int) /\ (i.op = "pushtmp" => Exec(m, i, c) = [[m EXCEPT !.pc = p] EXCEPT !.stack = s])
    BY <1>2, <1>3
  <2>. HIDE DEF s
  <2>2. Fields([[m EXCEPT !.pc = p] EXCEPT !.stack = s], p, m.rd, m.tmp, m.x17, m.lr, m.x15, s)
    BY <2>1, <1>1, PutFields, Zenon
  <2>. QED  BY <2>1, <2>2 DEF s
<1>8. i.op = "pushid" => Fields(Exec(m, i, c), p, m.rd, m.tmp, m.x17, m.lr, m.x15, <<i.arg>> \o m.stack)
  <2>. DEFINE s == <<i.arg>> \o m.stack
  <2>1. s \in Seq(Int) /\ (i.op = "pushid" => Exec(m, i, c) = [[m EXCEPT !.pc = p] EXCEPT !.stack = s])
    BY <1>2, <1>4
  <2>. HIDE DEF s
  <2>2. Fields([[m EXCEPT !.pc = p] EXCEPT !.stack = s], p, m.rd, m.tmp, m.x17, m.lr, m.x15, s)
    BY <2>1, <1>1, PutFields, Zenon
  <2>. QED  BY <2>1, <2>2 DEF s
<1>9. ASSUME NEW v \in Int, NEW s \in Seq(Int), m.stack = <<v>> \o s
      PROVE  /\ i.op = "poptmp" => Fields(Exec(m, i, c), p, m.rd, v, m.x17, m.lr, m.x15, s)
             /\ i.op = "drop" => Fields(Exec(m, i, c), p, m.rd, m.tmp, m.x17, m.lr, m.x15, s)
  <2>1. Head(m.stack) = v /\ Tail(m.stack) = s
    BY <1>9, StackFacts
  <2>2. i.op = "poptmp" => Exec(m, i, c) = [[on EXCEPT !.tmp = v] EXCEPT !.stack = s]
    BY <2>1, <1>5, Zenon
  <2>3. i.op = "drop" => Exec(m, i, c) = [on EXCEPT !.stack = s]
    BY <2>1, <1>6, Zenon
  <2>4. /\ Fields([[[m EXCEPT !.pc = p] EXCEPT !.tmp = v] EXCEPT !.stack = s], p, m.rd, v, m.x17, m.lr, m.x15, s)
        /\ Fields([[m EXCEPT !.pc = p] EXCEPT !.stack = s], p, m.rd, m.tmp, m.x17, m.lr, m.x15, s)
    BY <1>1, PutFields, Zenon
  <2>. QED  BY <2>2, <2>3, <2>4
<1>. QED  BY <1>7, <1>8, <1>9 DEF p

\* The two moves with which the prefix keeps lr on aarch64.
LEMMA ExecLr ==
    ASSUME NEW m \in Machines, NEW i, i.size \in Int, NEW c
    PROVE  /\ i.op = "savelr" => Fields(Exec(m, i, c), m.pc + i.size, m.rd, m.tmp, m.x17, m.lr, m.lr, m.stack)
           /\ i.op = "restorelr" => Fields(Exec(m, i, c), m.pc + i.size, m.rd, m.tmp, m.x17, m.x15, m.x15, m.stack)
PROOF
<1>. DEFINE p == m.pc + i.size
<1>1. p \in Int /\ m.lr \in Int /\ m.x15 \in Int /\ m.stack \in Seq(Int)
  BY DEF Machines
<1>2. ASSUME i.op = "savelr" PROVE Exec(m, i, c) = [[m EXCEPT !.pc = p] EXCEPT !.x15 = m.lr]
  BY <1>2 DEF Exec, Goto, After
<1>3. ASSUME i.op = "restorelr" PROVE Exec(m, i, c) = [[m EXCEPT !.pc = p] EXCEPT !.lr = m.x15]
  BY <1>3 DEF Exec, Goto, After
<1>. HIDE DEF p
<1>4. /\ i.op = "savelr" => Fields(Exec(m, i, c), p, m.rd, m.tmp, m.x17, m.lr, m.lr, m.stack)
      /\ i.op = "restorelr" => Fields(Exec(m, i, c), p, m.rd, m.tmp, m.x17, m.x15, m.x15, m.stack)
  <2>1. /\ Fields([[m EXCEPT !.pc = p] EXCEPT !.x15 = m.lr], p, m.rd, m.tmp, m.x17, m.lr, m.lr, m.stack)
        /\ Fields([[m EXCEPT !.pc = p] EXCEPT !.lr = m.x15], p, m.rd, m.tmp, m.x17, m.x15, m.x15, m.stack)
    BY <1>1, PutFields, Zenon
  <2>. QED  BY <2>1, <1>2, <1>3
<1>. QED  BY <1>4 DEF p

\* A return takes its address where the call has left it.
LEMMA LeaveFacts ==
    ASSUME NEW m \in Machines
    PROVE  /\ isa = "x86_64" => \A v \in Int, s \in Seq(Int) :
                m.stack = <<v>> \o s => Fields(Leave(m), v, m.rd, m.tmp, m.x17, m.lr, m.x15, s)
           /\ isa = "x86_64" => \A v \in Int : m.stack = <<v>> => Fields(Leave(m), v, m.rd, m.tmp, m.x17, m.lr, m.x15, <<>>)
           /\ isa # "x86_64" => Fields(Leave(m), m.lr, m.rd, m.tmp, m.x17, m.lr, m.x15, m.stack)
PROOF
<1>1. ASSUME isa = "x86_64", NEW v \in Int, NEW s \in Seq(Int), Head(m.stack) = v, Tail(m.stack) = s
      PROVE  Fields(Leave(m), v, m.rd, m.tmp, m.x17, m.lr, m.x15, s)
  <2>1. [m EXCEPT !.pc = v].stack = m.stack
    BY DEF Machines
  <2>2. Leave(m) = [[m EXCEPT !.pc = v] EXCEPT !.stack = s]
    BY <1>1, <2>1, Zenon DEF Leave
  <2>. QED  BY <2>2, PutFields, Zenon
<1>2. ASSUME isa # "x86_64" PROVE Fields(Leave(m), m.lr, m.rd, m.tmp, m.x17, m.lr, m.x15, m.stack)
  <2>1. Leave(m) = [m EXCEPT !.pc = m.lr]
    BY <1>2 DEF Leave, Goto
  <2>. QED  BY <2>1 DEF Fields, Machines
<1>3. ASSUME NEW v \in Int, NEW s \in Seq(Int), m.stack = <<v>> \o s PROVE Head(m.stack) = v /\ Tail(m.stack) = s
  BY <1>3, StackFacts
<1>4. ASSUME NEW v \in Int, m.stack = <<v>> PROVE Head(m.stack) = v /\ Tail(m.stack) = <<>> /\ <<>> \in Seq(Int)
  BY <1>4, BottomFacts
<1>. QED  BY <1>1, <1>2, <1>3, <1>4, Zenon

\* ret is a return.
LEMMA ExecRet ==
    ASSUME NEW m, NEW i, i.op = "ret", NEW c
    PROVE  Exec(m, i, c) = Leave(m)
  BY DEF Exec

\* Of the machine n, only the program counter and the register reg differ from m.
Sets(n, m, pc, reg, v) ==
    /\ n \in Machines /\ n.pc = pc /\ n[reg] = v /\ n.lr = m.lr /\ n.x15 = m.x15 /\ n.stack = m.stack
    /\ reg # "rd" => n.rd = m.rd
    /\ reg # "tmp" => n.tmp = m.tmp
    /\ reg # "x17" => n.x17 = m.x17

\* What is left of a machine when its pc and a register given by name are set.
LEMMA PutSets ==
    ASSUME NEW m \in Machines, NEW p \in Int, NEW v \in Int, NEW reg \in {"rd", "tmp", "x17"}
    PROVE  Sets([[m EXCEPT !.pc = p] EXCEPT ![reg] = v], m, p, reg, v) /\ [m EXCEPT !.pc = p][reg] = m[reg] /\ m[reg] \in Int
PROOF
<1>1. CASE reg = "rd"
  BY <1>1, Zenon DEF Sets, Machines
<1>2. CASE reg = "tmp"
  BY <1>2, Zenon DEF Sets, Machines
<1>3. CASE reg = "x17"
  BY <1>3, Zenon DEF Sets, Machines
<1>. QED  BY <1>1, <1>2, <1>3

\* One more halfword of an address is in its register.
LEMMA ExecMov ==
    ASSUME NEW m \in Machines, NEW i, NEW reg \in {"rd", "tmp", "x17"}, NEW v \in Addresses, NEW c
    PROVE  /\ i = Move("movz", reg, 0, Halfword(v, 0)) => Sets(Exec(m, i, c), m, m.pc + 4, reg, Low(v, 1))
           /\ \A h \in 1 .. 3 : i = Move("movk", reg, h, Halfword(v, h)) /\ m[reg] = Low(v, h) =>
                Sets(Exec(m, i, c), m, m.pc + 4, reg, Low(v, h + 1))
PROOF
<1>. DEFINE p == m.pc + 4
<1>1. p \in Int
  BY DEF Machines
<1>2. Halfword(v, 0) \in Int /\ Low(v, 1) = Halfword(v, 0)
  BY HalfwordFacts, ConstantTypes DEF Low
<1>3. ASSUME i = Move("movz", reg, 0, Halfword(v, 0)) PROVE Sets(Exec(m, i, c), m, p, reg, Low(v, 1))
  <2>1. i.op = "movz" /\ i.size = 4 /\ i.reg = reg /\ i.arg = Halfword(v, 0)
    BY <1>3, MoveFields
  <2>2. Exec(m, i, c) = [[m EXCEPT !.pc = p] EXCEPT ![reg] = Halfword(v, 0)]
    BY <2>1 DEF Exec, Goto, After
  <2>. HIDE DEF p
  <2>3. Sets([[m EXCEPT !.pc = p] EXCEPT ![reg] = Halfword(v, 0)], m, p, reg, Halfword(v, 0))
    BY <1>1, <1>2, PutSets, Zenon
  <2>. QED  BY <2>2, <2>3, <1>2, Zenon
<1>4. ASSUME NEW h \in 1 .. 3, i = Move("movk", reg, h, Halfword(v, h)), m[reg] = Low(v, h)
      PROVE  Sets(Exec(m, i, c), m, p, reg, Low(v, h + 1))
  <2>1. i.op = "movk" /\ i.size = 4 /\ i.reg = reg /\ i.arg = Halfword(v, h) /\ i.hw = h
    BY <1>4, MoveFields
  <2>. DEFINE on == [m EXCEPT !.pc = p]
              x == on[reg] + (Halfword(v, h) - Halfword(on[reg], h)) * Unit(h)
  <2>2. Exec(m, i, c) = [on EXCEPT ![reg] = x]
    BY <2>1 DEF Exec, Goto, After
  <2>. HIDE DEF p
  <2>3. on[reg] = Low(v, h)
    BY <1>1, <1>4, PutSets, Zenon
  <2>4. x = Low(v, h + 1)
    BY <2>3, MovkFacts
  <2>5. Low(v, h + 1) \in Int
    <3>1. \A k \in 0 .. 3 : Halfword(v, k) \in Int
      BY HalfwordFacts, ConstantTypes
    <3>2. Unit(1) \in Int /\ Unit(2) \in Int /\ Unit(3) \in Int
      BY ConstantTypes DEF Unit
    <3>3. Low(v, 2) \in Int /\ Low(v, 3) \in Int /\ Low(v, 4) \in Int
      BY <3>1, <3>2 DEF Low
    <3>4. h = 1 \/ h = 2 \/ h = 3
      OBVIOUS
    <3>. QED  BY <3>3, <3>4
  <2>6. Exec(m, i, c) = [[m EXCEPT !.pc = p] EXCEPT ![reg] = Low(v, h + 1)]
    BY <2>2, <2>4, Zenon
  <2>7. Sets([[m EXCEPT !.pc = p] EXCEPT ![reg] = Low(v, h + 1)], m, p, reg, Low(v, h + 1))
    BY <1>1, <2>5, PutSets, Zenon
  <2>. QED  BY <2>6, <2>7, Zenon
<1>. QED  BY <1>3, <1>4

\* In MovAbs: either it is done, or at a movk.
LEMMA MovsStates ==
    ASSUME NEW m, NEW s \in Int, NEW reg, NEW v \in Addresses, InMovs(m, s, reg, v)
    PROVE  \/ m.pc = MovAt(s, v, 4) /\ m[reg] = v
           \/ \E h \in 1 .. 3 : Halfword(v, h) # 0 /\ m.pc = MovAt(s, v, h) /\ m[reg] = Low(v, h)
PROOF
<1>. DEFINE At(h) == m.pc = MovAt(s, v, h) /\ m[reg] = Low(v, h)
<1>1. At(1) \/ At(2) \/ At(3) \/ At(4)
  <2>1. \A h \in 1 .. 4 : h = 1 \/ h = 2 \/ h = 3 \/ h = 4
    OBVIOUS
  <2>. QED  BY <2>1 DEF InMovs
<1>2. ASSUME Halfword(v, 1) = 0 PROVE At(1) => At(2)
  <2>1. Low(v, 1 + 1) = Low(v, 1) /\ MovAt(s, v, 1 + 1) = MovAt(s, v, 1)
    BY <1>2, ZeroHalfword
  <2>. QED  BY <2>1
<1>3. ASSUME Halfword(v, 2) = 0 PROVE At(2) => At(3)
  <2>1. Low(v, 2 + 1) = Low(v, 2) /\ MovAt(s, v, 2 + 1) = MovAt(s, v, 2)
    BY <1>3, ZeroHalfword
  <2>. QED  BY <2>1
<1>4. ASSUME Halfword(v, 3) = 0 PROVE At(3) => At(4)
  <2>1. Low(v, 3 + 1) = Low(v, 3) /\ MovAt(s, v, 3 + 1) = MovAt(s, v, 3)
    BY <1>4, ZeroHalfword
  <2>. QED  BY <2>1
<1>5. At(4) => m.pc = MovAt(s, v, 4) /\ m[reg] = v
  BY HalfwordFacts
<1>6. 1 \in 1 .. 3 /\ 2 \in 1 .. 3 /\ 3 \in 1 .. 3
  OBVIOUS
<1>. HIDE DEF At
<1>7. At(4) \/ \E h \in 1 .. 3 : Halfword(v, h) # 0 /\ At(h)
  BY <1>1, <1>2, <1>3, <1>4, <1>6, Zenon
<1>. QED  BY <1>5, <1>7 DEF At

\* An instruction of MovAbs leads to the next one, or to the end.
LEMMA MovsStep ==
    ASSUME NEW t, NEW m \in Machines, NEW s \in Int, NEW reg \in {"rd", "tmp", "x17"}, NEW v \in Addresses,
           Movs(t, s, reg, v), m.pc = s \/ (InMovs(m, s, reg, v) /\ m.pc # MovAt(s, v, 4)), NEW c
    PROVE  LET n == Exec(m, t[m.pc], c)
           IN  /\ m.pc \in DOMAIN t /\ t[m.pc].op \in {"movz", "movk"}
               /\ InMovs(n, s, reg, v) /\ Sets(n, m, n.pc, reg, n[reg]) /\ n.pc > s /\ n.pc <= MovAt(s, v, 4)
PROOF
<1>. DEFINE n == Exec(m, t[m.pc], c)
<1>1. CASE m.pc = s
  <2>1. m.pc \in DOMAIN t /\ t[m.pc] = Move("movz", reg, 0, Halfword(v, 0))
    BY <1>1 DEF Movs, Holds
  <2>2. t[m.pc].op = "movz"
    BY <2>1, MoveFields
  <2>3. Sets(n, m, m.pc + 4, reg, Low(v, 1))
    BY <2>1, ExecMov
  <2>4. MovAt(s, v, 1) = s + 4 /\ s + 4 <= MovAt(s, v, 4)
    BY MovAtFacts
  <2>5. n.pc = MovAt(s, v, 1) /\ n[reg] = Low(v, 1) /\ 1 \in 1 .. 4
    BY <2>3, <2>4, <1>1 DEF Sets
  <2>6. InMovs(n, s, reg, v)
    BY <2>5 DEF InMovs
  <2>7. Sets(n, m, n.pc, reg, n[reg]) /\ n.pc = s + 4
    BY <2>3, <1>1 DEF Sets
  <2>. HIDE DEF n
  <2>8. n.pc > s /\ n.pc <= MovAt(s, v, 4)
    BY <2>4, <2>7
  <2>. QED  BY <2>1, <2>2, <2>6, <2>7, <2>8 DEF n
<1>2. CASE InMovs(m, s, reg, v) /\ m.pc # MovAt(s, v, 4)
  <2>1. PICK h \in 1 .. 3 : Halfword(v, h) # 0 /\ m.pc = MovAt(s, v, h) /\ m[reg] = Low(v, h)
    BY <1>2, MovsStates
  <2>2. m.pc \in DOMAIN t /\ t[m.pc] = Move("movk", reg, h, Halfword(v, h))
    BY <2>1 DEF Movs, Holds
  <2>3. t[m.pc].op = "movk"
    BY <2>2, MoveFields
  <2>4. Sets(n, m, m.pc + 4, reg, Low(v, h + 1))
    BY <2>1, <2>2, ExecMov
  <2>5. MovAt(s, v, h + 1) = MovAt(s, v, h) + 4 /\ MovAt(s, v, h) \in Int /\ MovAt(s, v, h) >= s + 4
    BY <2>1, MovAtFacts
  <2>6. MovAt(s, v, h + 1) <= MovAt(s, v, 4)
    <3>1. h = 1 \/ h = 2 \/ h = 3
      OBVIOUS
    <3>2. MovAt(s, v, 2) <= MovAt(s, v, 4) /\ MovAt(s, v, 3) <= MovAt(s, v, 4) /\ MovAt(s, v, 4) \in Int
      BY MovAtFacts
    <3>. QED  BY <3>1, <3>2
  <2>7. n.pc = MovAt(s, v, h + 1) /\ n[reg] = Low(v, h + 1) /\ h + 1 \in 1 .. 4
    BY <2>1, <2>4, <2>5 DEF Sets
  <2>8. InMovs(n, s, reg, v)
    BY <2>7 DEF InMovs
  <2>9. Sets(n, m, n.pc, reg, n[reg])
    BY <2>4 DEF Sets
  <2>. HIDE DEF n
  <2>10. n.pc > s /\ n.pc <= MovAt(s, v, 4)
    BY <2>5, <2>6, <2>7
  <2>. QED  BY <2>2, <2>3, <2>8, <2>9, <2>10 DEF n
<1>. QED  BY <1>1, <1>2
-----------------------------------------------------------------------------
(* The invariant of the two machines.                                      *)

\* The original comes to instructions that are not under the patch, or have a copy.
There(a) == a \in DOMAIN prog /\ (Under(a) => a \in DOMAIN starts)

\* The return addresses of the calls of the function.
Returns == {End(a) : a \in {b \in DOMAIN prog : There(b) /\ prog[b].op = "call"}}

\* What the original machine looks like where it can be.
OrigOK(o) ==
    /\ o.tmp = 0
    /\ There(o.pc) \/ o.pc \in {Callee, Caller}
    /\ IF isa = "x86_64"
       THEN /\ o.lr = Caller
            /\ There(o.pc) => o.stack = <<Caller>>
            /\ o.pc = Callee => o.stack = <<Caller>> \/ \E r \in Returns : o.stack = <<r>> \o <<Caller>>
       ELSE o.stack = <<Caller>> /\ o.lr \in {Caller} \cup Returns

Moved(r) == r \in Fn + 1 .. Fn + span

\* The registers and the stack of the patched function when the original has those of o.
Related(o, m) ==
    /\ m.rd = o.rd
    /\ IF isa = "x86_64"
       THEN /\ m.lr = o.lr
            /\ IF o.pc = Callee /\ Moved(Head(o.stack))
               THEN /\ m.stack = <<Landing(Head(o.stack)) - 2>> \o (<<m.stack[2]>> \o <<Caller>>)
                    /\ jumped \/ m.stack[2] = 0
               ELSE m.stack = o.stack /\ (jumped \/ m.tmp = 0)
       ELSE m.stack = o.stack /\ m.lr = IF Moved(o.lr) THEN Landing(o.lr) ELSE o.lr

AtPoint(o, m) == m.pc = Image(o.pc) /\ Related(o, m)

\* Between the jump and the copy of the first instruction.
X86Entering(m, n) ==
    /\ m.rd = orig.rd /\ m.lr = Caller /\ (jumped \/ m.tmp = 0)
    /\ \/ m.pc = Tr /\ m.stack = <<Caller>> /\ n = 0
       \/ m.pc = Tr + 5 /\ m.stack = <<ProbeId>> \o <<Caller>> /\ n = 0
       \/ m.pc = EntryStub /\ m.stack = <<Tr + 11>> \o (<<ProbeId>> \o <<Caller>>) /\ n = 0
       \/ m.pc = Tr + 11 /\ m.stack = <<ProbeId>> \o <<Caller>> /\ n = 1
A64Entering(m, n) ==
    LET lr == IF Moved(orig.lr) THEN Landing(orig.lr) ELSE orig.lr IN
    /\ m.rd = orig.rd /\ m.stack = <<Caller>>
    /\ \/ m.pc = Tr /\ m.lr = lr /\ n = 0
       \/ m.pc = IdAt /\ m.x15 = lr /\ n = 0
       \/ InMovs(m, IdAt, "x17", ProbeId) /\ m.x15 = lr /\ n = 0
       \/ InMovs(m, StubAt, "tmp", EntryStub) /\ m.x17 = ProbeId /\ m.x15 = lr /\ n = 0
       \/ m.pc = EntryStub /\ m.lr = CallAt + 4 /\ m.x17 = ProbeId /\ m.x15 = lr /\ n = 0
       \/ m.pc = CallAt + 4 /\ m.x15 = lr /\ n = 1
Entering(m, n) == orig.pc = Fn /\ IF isa = "x86_64" THEN X86Entering(m, n) ELSE A64Entering(m, n)

\* Calls of entry_stub in a round that has left the prefix.
Once == IF orig.pc = Fn THEN 1 ELSE 0

\* Inside of the copy of an instruction that was replaced.
X86Inside(m, i, s) ==
    LET to == Target(orig.pc, i) IN
    /\ m.rd = orig.rd /\ m.lr = Caller
    /\ \/ /\ i.op = "call" /\ m.stack = <<Head(m.stack)>> \o <<Caller>> /\ (jumped \/ Head(m.stack) = 0)
          /\ m.pc = s + 2 \/ (m.pc = s + 12 /\ m.tmp = to)
       \/ /\ m.stack = <<Caller>> /\ jumped /\ cond
          /\ \/ i.op = "jmp" /\ m.pc = s + 10 /\ m.tmp = to
             \/ i.op = "jcc" /\ (m.pc = s + 2 \/ (m.pc = s + 12 /\ m.tmp = to))
A64Inside(m, i, s) ==
    LET to == Target(orig.pc, i) IN
    /\ m.stack = <<Caller>> /\ m.lr = IF Moved(orig.lr) THEN Landing(orig.lr) ELSE orig.lr
    /\ \/ i.op = "adr" /\ InMovs(m, s, "rd", to)
       \/ /\ m.rd = orig.rd
          /\ \/ i.op \in {"call", "jmp"} /\ InMovs(m, s, "tmp", to)
             \/ i.op = "jcc" /\ cond /\ (m.pc = s + 4 \/ InMovs(m, s + 4, "tmp", to))
Inside(m, n) ==
    /\ orig.pc \in DOMAIN starts /\ n = Once
    /\ LET i == prog[orig.pc]
           s == starts[orig.pc]
       IN  \/ m.pc = s /\ Related(orig, m)
           \/ /\ m.pc \in s + 1 .. Landing(End(orig.pc)) - 1
              /\ IF isa = "x86_64" THEN X86Inside(m, i, s) ELSE A64Inside(m, i, s)

\* Back from the callee of a relocated call, before r11 is restored.
Returning(m, n) ==
    /\ isa = "x86_64" /\ orig.pc = Callee /\ Moved(Head(orig.stack)) /\ n = 0
    /\ m.pc = Landing(Head(orig.stack)) - 2 /\ m.rd = orig.rd /\ m.lr = Caller
    /\ m.stack = <<Head(m.stack)>> \o <<Caller>> /\ (jumped \/ Head(m.stack) = 0)

\* In the jump to the rest of the function.
Leaving(m, n) ==
    LET g == Goal(cond) IN
    /\ Related(g, m) /\ g.pc = cursor /\ cursor = Fn + span /\ n = Once
    /\ m.pc = suffix \/ (isa = "aarch64" /\ InMovs(m, suffix, "tmp", Fn + span))

OnTheWay(m, n) ==
    \/ AtPoint(orig, m) /\ n = 0
    \/ Entering(m, n) \/ Inside(m, n) \/ Returning(m, n) \/ Leaving(m, n)

\* The step of the original that was chosen for this round.
Op == IF orig.pc = Callee THEN "ret" ELSE prog[orig.pc].op
Jumping == Op \in Jumps /\ cond
Chosen ==
    /\ orig.pc # Caller /\ ~Dropped(Goal(cond).pc)
    /\ Jumping => ~Under(Goal(cond).pc) \/ Goal(cond).pc = Fn
    /\ Jumping /\ Under(orig.pc) => jumped /\ Op # "loop"
    /\ cond \/ Op \in Jumps \ {"jmp"}

MachInv ==
    /\ turn \in {"orig", "patched"} /\ cond \in BOOLEAN /\ jumped \in BOOLEAN
    /\ phase \in {"capture", "build", "relocate"} =>
         /\ \E pc \in Entries(prog) : orig = Machine(pc) /\ patched = Machine(pc)
         /\ turn = "orig" /\ ~strayed
    /\ Follow => /\ orig \in Machines /\ patched \in Machines /\ OrigOK(orig)
                 /\ turn = "orig" => AtPoint(orig, patched)
                 /\ turn = "patched" => Chosen /\ OnTheWay(patched, reports)

-----------------------------------------------------------------------------
(* The trampoline that was built.                                          *)

Frozen == BuildInv /\ phase = "run"

\* The addresses of the function and of the trampoline, and where the relocation ended.
LEMMA RunFacts ==
    ASSUME Frozen
    PROVE  /\ isa \in {"x86_64", "aarch64"} /\ span \in Nat /\ span > 0 /\ Fn + span <= TextEnd
           /\ cursor \in Nat /\ Fn < cursor /\ cursor <= Fn + span /\ (cursor < Fn + span => Dropped(cursor))
           /\ DOMAIN starts = {a \in DOMAIN prog : a < cursor} /\ Fn \in DOMAIN starts /\ starts[Fn] = PrefixEnd
           /\ suffix \in Nat /\ suffix \in DOMAIN code /\ PrefixEnd <= suffix
           /\ \A x \in DOMAIN code : x \in Nat /\ Tr <= x /\ x < Tr + TrampolineSize
           /\ PrefixAt(code) /\ SuffixAt(code)
PROOF
<1>1. isa \in {"x86_64", "aarch64"} /\ IsText(isa, prog) /\ BufOK(buf) /\ Placed /\ ~More /\ SuffixAt(code)
  BY DEF Frozen, BuildInv
<1>2. span \in Nat /\ span > 0 /\ Laid(code, cursor, starts, suffix) /\ prog[Fn].op # "unknown" /\ SpanOK
  BY <1>1 DEF Placed, SpanOK
<1>3. Fn + span <= TextEnd
  <2>1. PICK a \in DOMAIN prog : Fn + span <= End(a)
    <3>1. CASE isa = "x86_64"
      <4>1. PICK a \in DOMAIN prog : Fn + span = End(a)
        BY <1>2, <3>1 DEF SpanOK
      <4>2. End(a) \in Nat
        BY <1>1, TextFacts
      <4>. QED  BY <4>1, <4>2
    <3>2. CASE isa # "x86_64"
      BY <1>2, <3>2 DEF SpanOK
    <3>. QED  BY <3>1, <3>2
  <2>2. End(a) \in Nat /\ End(a) <= TextEnd
    BY <1>1, TextFacts
  <2>. QED  BY <2>1, <2>2, <1>2, ConstantTypes
<1>4. cursor \in Nat /\ Fn <= cursor /\ cursor <= Fn + span
  BY <1>2, ConstantTypes DEF Laid
<1>5. Fn < cursor
  BY <1>1, <1>2, <1>4, ConstantTypes DEF More
<1>6. DOMAIN starts = {a \in DOMAIN prog : a < cursor}
  BY <1>2 DEF Laid
<1>7. Fn \in DOMAIN starts
  BY <1>1, <1>5, <1>6, TextFacts
<1>8. starts[Fn] = PrefixEnd
  BY <1>2, <1>5, ConstantTypes DEF Laid, LandingIn
<1>9. cursor < Fn + span => Dropped(cursor)
  BY <1>2, <1>4, <1>6, ConstantTypes DEF Dropped, Under
<1>10. suffix \in Nat /\ PrefixEnd <= suffix /\ PrefixAt(code)
  BY <1>2 DEF Laid
<1>11. suffix \in DOMAIN code
  BY <1>1 DEF SuffixAt, X86SuffixAt, A64SuffixAt, Movs, Holds
<1>12. ASSUME NEW x \in DOMAIN code PROVE x \in Nat /\ Tr <= x /\ x < Tr + TrampolineSize
  <2>1. x \in Tr .. buf.end - 1 /\ buf.end \in Tr .. Tr + TrampolineSize
    BY <1>1 DEF BufOK, code
  <2>. QED  BY <2>1, ConstantTypes
<1>. QED  BY <1>1, <1>2, <1>3, <1>4, <1>5, <1>6, <1>7, <1>8, <1>9, <1>10, <1>11, <1>12

\* The copies.
LEMMA CopyFacts ==
    ASSUME Frozen, NEW a \in DOMAIN starts
    PROVE  /\ a \in DOMAIN prog /\ a \in Nat /\ Fn <= a /\ a < cursor /\ End(a) \in Nat /\ a < End(a) /\ End(a) <= cursor
           /\ starts[a] \in Nat /\ PrefixEnd <= starts[a] /\ starts[a] < Landing(End(a)) /\ Landing(End(a)) \in Nat
           /\ Landing(End(a)) <= suffix /\ (isa = "aarch64" => End(a) = a + 4)
           /\ CopyOf(code, prog[a], a, starts[a], Landing(End(a)))
           /\ \A b \in DOMAIN starts : a < b => Landing(End(a)) <= starts[b]
PROOF
<1>1. IsText(isa, prog) /\ Laid(code, cursor, starts, suffix)
  BY DEF Frozen, BuildInv, Placed
<1>2. a \in DOMAIN prog /\ a < cursor /\ cursor \in Nat
  BY RunFacts
<1>3. a \in Nat /\ Fn <= a /\ End(a) \in Nat /\ a < End(a) /\ (isa = "aarch64" => End(a) = a + 4)
  BY <1>1, <1>2, TextFacts
<1>4. End(a) <= cursor
  <2>1. CASE cursor \in DOMAIN prog
    BY <2>1, <1>1, <1>2, TextFacts
  <2>2. CASE \A b \in DOMAIN prog : End(b) <= cursor
    BY <2>2, <1>2
  <2>. QED  BY <2>1, <2>2, <1>1 DEF Laid
<1>5. /\ starts[a] \in Nat /\ PrefixEnd <= starts[a] /\ starts[a] < Landing(End(a)) /\ Landing(End(a)) \in Nat
      /\ Landing(End(a)) <= suffix /\ CopyOf(code, prog[a], a, starts[a], Landing(End(a)))
  BY <1>1 DEF Laid, Landing
<1>6. \A b \in DOMAIN starts : a < b => Landing(End(a)) <= starts[b]
  BY <1>1 DEF Laid, Landing
<1>. QED  BY <1>2, <1>3, <1>4, <1>5, <1>6

\* The function, the callee, entry_stub and the caller are not in the trampoline.
LEMMA Outside ==
    ASSUME Frozen
    PROVE  /\ \A x \in Nat : Fn <= x /\ x <= TextEnd => x \notin DOMAIN code /\ x \notin {EntryStub, Callee, Caller}
           /\ Callee \notin DOMAIN code /\ Caller \notin DOMAIN code /\ EntryStub \notin DOMAIN code
           /\ \A x \in DOMAIN code : x \notin {Fn, EntryStub, Callee, Caller} /\ x \notin DOMAIN prog
           /\ \A x \in DOMAIN prog : x \notin DOMAIN code /\ x \notin {EntryStub, Callee, Caller}
PROOF
<1>1. \A x \in DOMAIN code : x \in Nat /\ Tr <= x /\ x < Tr + TrampolineSize
  BY RunFacts
<1>2. \A x \in DOMAIN code : x \in Slot
  BY <1>1, ConstantTypes DEF Slot
<1>3. \A x \in Nat : Fn <= x /\ x <= TextEnd => x \in Text
  BY ConstantTypes DEF Text
<1>4. Text \cap Slot = {} /\ {Callee, EntryStub, Caller} \cap (Text \cup Slot) = {}
  BY RelocationAssumption
<1>5. \A x \in DOMAIN prog : x \in Text
  BY DEF Frozen, BuildInv, IsText
<1>6. Fn \in Text
  BY <1>5 DEF Frozen, BuildInv, IsText
<1>. QED  BY <1>2, <1>3, <1>4, <1>5, <1>6

\* The prefix, the suffix, the copy of the first instruction, and the inside of a copy are
\* no points at which the two are compared.
LEMMA NotComparable ==
    ASSUME Frozen, NEW x \in DOMAIN code,
           \/ x <= PrefixEnd \/ x >= suffix
           \/ \E a \in DOMAIN starts : x \in starts[a] + 1 .. Landing(End(a)) - 1
    PROVE  ~Comparable(x)
PROOF
<1>1. x \in Nat /\ x # Fn /\ PrefixEnd \in Nat /\ suffix \in Nat
  BY RunFacts, Outside, PrefixAddresses
<1>2. SUFFICES ASSUME NEW b \in DOMAIN starts, b # Fn, x = starts[b] PROVE FALSE
  <2>1. Image(Fn) = Fn
    BY DEF Image
  <2>. QED  BY <1>1, <1>2, <2>1 DEF Comparable, Image
<1>3. b \in Nat /\ Fn <= b /\ Fn \in Nat /\ Fn < b
  BY <1>2, CopyFacts, ConstantTypes
<1>4. starts[b] \in Nat /\ starts[b] < Landing(End(b)) /\ Landing(End(b)) \in Nat /\ Landing(End(b)) <= suffix
  BY CopyFacts
<1>5. PrefixEnd < starts[b]
  <2>1. Fn \in DOMAIN starts /\ starts[Fn] = PrefixEnd
    BY RunFacts
  <2>2. starts[Fn] < Landing(End(Fn)) /\ Landing(End(Fn)) \in Nat /\ Landing(End(Fn)) <= starts[b]
    BY <2>1, <1>3, CopyFacts
  <2>. QED  BY <2>1, <2>2, <1>1, <1>4
<1>6. PICK a \in DOMAIN starts : x \in starts[a] + 1 .. Landing(End(a)) - 1
  BY <1>1, <1>2, <1>4, <1>5
<1>7. a \in Nat /\ starts[a] \in Nat /\ Landing(End(a)) \in Nat
  BY CopyFacts
<1>8. CASE a < b
  <2>1. Landing(End(a)) <= starts[b]
    BY <1>8, CopyFacts
  <2>. QED  BY <2>1, <1>2, <1>4, <1>6, <1>7
<1>9. CASE b < a
  <2>1. Landing(End(b)) <= starts[a]
    BY <1>9, CopyFacts
  <2>. QED  BY <2>1, <1>2, <1>4, <1>6, <1>7
<1>10. CASE a = b
  BY <1>10, <1>2, <1>4, <1>6, <1>7
<1>. QED  BY <1>3, <1>7, <1>8, <1>9, <1>10

\* Behind a copy comes the copy of the next instruction, or the jump to the rest.
LEMMA Arrive ==
    ASSUME Frozen, NEW a \in DOMAIN starts, prog[a].op # "ret", ~Dropped(End(a))
    PROVE  \/ Landing(End(a)) = Image(End(a)) /\ Comparable(Landing(End(a)))
           \/ Landing(End(a)) = suffix /\ End(a) = cursor /\ cursor = Fn + span /\ ~Comparable(suffix)
PROOF
<1>1. a \in DOMAIN prog /\ End(a) \in Nat /\ Fn < End(a) /\ End(a) <= cursor /\ cursor \in Nat
  BY CopyFacts, RunFacts, ConstantTypes
<1>2. End(a) \in DOMAIN prog
  BY <1>1, TextFacts DEF Frozen, BuildInv
<1>3. CASE End(a) < cursor
  <2>1. End(a) \in DOMAIN starts /\ End(a) # Fn
    BY <1>1, <1>2, <1>3, RunFacts, ConstantTypes
  <2>2. Landing(End(a)) = starts[End(a)] /\ Image(End(a)) = starts[End(a)]
    BY <2>1, <1>1, <1>3, SMT, Z3 DEF Landing, LandingIn, Image
  <2>3. starts[End(a)] \in Nat /\ PrefixEnd <= starts[End(a)] /\ starts[End(a)] < suffix
    <3>1. LET e == Landing(End(End(a))) IN e \in Nat /\ starts[End(a)] < e /\ e <= suffix
      BY <2>1, CopyFacts
    <3>. QED  BY <2>1, <3>1, CopyFacts, RunFacts
  <2>4. starts[End(a)] # EntryStub
    <3>1. starts[End(a)] \in Slot
      BY <2>3, RunFacts, PrefixAddresses, ConstantTypes DEF Slot
    <3>. QED  BY <3>1, RelocationAssumption
  <2>. QED  BY <2>1, <2>2, <2>4 DEF Comparable
<1>4. CASE End(a) = cursor
  <2>1. Landing(End(a)) = suffix
    BY <1>4 DEF Landing, LandingIn
  <2>2. cursor = Fn + span
    BY <1>1, <1>4, RunFacts, ConstantTypes
  <2>3. ~Comparable(suffix)
    <3>1. suffix \in DOMAIN code /\ suffix \in Nat
      BY RunFacts
    <3>. QED  BY <3>1, NotComparable
  <2>. QED  BY <2>1, <2>2, <2>3, <1>4
<1>. QED  BY <1>1, <1>3, <1>4
-----------------------------------------------------------------------------
(* The step of the original.                                               *)

Running ==
    /\ Frozen /\ orig \in Machines /\ OrigOK(orig) /\ Chosen /\ cond \in BOOLEAN /\ jumped \in BOOLEAN

\* What the text says about the instruction at a.
LEMMA OpFacts ==
    ASSUME Frozen, NEW a \in DOMAIN prog
    PROVE  LET i == prog[a]
           IN  /\ IsInsn(i) /\ i.size \in Int /\ i.arg \in Int /\ a \in Int /\ End(a) = a + i.size /\ Target(a, i) = a + i.size + i.arg
               /\ i.op \in {"plain", "unknown", "ret", "mem", "adr", "ldr", "call", "jmp", "jcc", "jrcxz", "loop"}
               /\ i.op \in {"adr", "ldr"} => isa = "aarch64"
               /\ i.op \in {"mem", "jrcxz", "loop"} => isa = "x86_64"
               /\ i.op \in {"jmp", "jcc", "jrcxz", "loop"} => Target(a, i) \in DOMAIN prog \cup {Callee}
               /\ i.op = "call" => Target(a, i) = Callee
               /\ i.op \in {"jmp", "jcc", "adr", "call"} => Target(a, i) \in Addresses
               /\ i.op # "ret" => End(a) \in DOMAIN prog
PROOF
<1>1. isa \in {"x86_64", "aarch64"} /\ IsText(isa, prog)
  BY DEF Frozen, BuildInv
<1>. DEFINE i == prog[a]
<1>2. /\ i.op \in Ops[isa]
      /\ i.op \in Jumps => Target(a, i) \in DOMAIN prog \cup {Callee}
      /\ i.op = "call" => Target(a, i) = Callee
      /\ i.op \in Relative => Target(a, i) \in Addresses
  BY <1>1 DEF IsText
<1>3. i.op \in {"plain", "unknown", "ret", "mem", "adr", "ldr", "call", "jmp", "jcc", "jrcxz", "loop"}
  BY <1>1, <1>2 DEF Ops, Jumps
<1>4. i.op \in {"adr", "ldr"} => isa = "aarch64"
  BY <1>1, <1>2 DEF Ops, Jumps
<1>5. i.op \in {"mem", "jrcxz", "loop"} => isa = "x86_64"
  BY <1>1, <1>2 DEF Ops, Jumps
<1>6. IsInsn(i) /\ a \in Nat /\ (End(a) \in DOMAIN prog \/ i.op = "ret")
  BY <1>1, TextFacts
<1>7. i.size \in Int /\ i.arg \in Int
  BY <1>6 DEF IsInsn
<1>8. End(a) = a + i.size /\ Target(a, i) = a + i.size + i.arg
  BY DEF End, Target, After
<1>. QED  BY <1>2, <1>3, <1>4, <1>5, <1>6, <1>7, <1>8 DEF Jumps, Relative

\* The step of the original, for each kind of instruction.
LEMMA GoalFacts ==
    ASSUME Frozen, NEW c \in BOOLEAN, orig \in Machines
    PROVE  LET i == prog[orig.pc]
               o == orig
               g == Goal(c)
               at(x) == Fields(g, x, o.rd, o.tmp, o.x17, o.lr, o.x15, o.stack)
               to == Target(o.pc, i)
           IN  /\ o.pc = Callee => g = Leave(o)
               /\ o.pc \in DOMAIN prog =>
                    /\ i.op \in {"plain", "unknown"} => Fields(g, End(o.pc), i.arg, o.tmp, o.x17, o.lr, o.x15, o.stack)
                    /\ i.op \in {"mem", "adr", "ldr"} => Fields(g, End(o.pc), to, o.tmp, o.x17, o.lr, o.x15, o.stack)
                    /\ i.op = "jmp" => at(to)
                    /\ i.op \in {"jcc", "jrcxz", "loop"} => at(IF c THEN to ELSE End(o.pc))
                    /\ i.op = "call" => IF isa = "x86_64"
                                        THEN Fields(g, Callee, o.rd, o.tmp, o.x17, o.lr, o.x15, <<End(o.pc)>> \o o.stack)
                                        ELSE Fields(g, Callee, o.rd, o.tmp, o.x17, End(o.pc), o.x15, o.stack)
                    /\ i.op = "ret" => g = Leave(o)
PROOF
<1>. DEFINE i == prog[orig.pc]
            o == orig
            g == Goal(c)
            to == Target(o.pc, i)
<1>1. o.pc = Callee => g = Leave(o)
  BY DEF Goal
<1>. SUFFICES ASSUME o.pc \in DOMAIN prog
     PROVE  /\ i.op \in {"plain", "unknown"} => Fields(g, End(o.pc), i.arg, o.tmp, o.x17, o.lr, o.x15, o.stack)
            /\ i.op \in {"mem", "adr", "ldr"} => Fields(g, End(o.pc), to, o.tmp, o.x17, o.lr, o.x15, o.stack)
            /\ i.op = "jmp" => Fields(g, to, o.rd, o.tmp, o.x17, o.lr, o.x15, o.stack)
            /\ i.op \in {"jcc", "jrcxz", "loop"} =>
                 Fields(g, IF c THEN to ELSE End(o.pc), o.rd, o.tmp, o.x17, o.lr, o.x15, o.stack)
            /\ i.op = "call" => IF isa = "x86_64"
                                THEN Fields(g, Callee, o.rd, o.tmp, o.x17, o.lr, o.x15, <<End(o.pc)>> \o o.stack)
                                ELSE Fields(g, Callee, o.rd, o.tmp, o.x17, End(o.pc), o.x15, o.stack)
            /\ i.op = "ret" => g = Leave(o)
  BY <1>1
<1>2. i.size \in Int /\ i.arg \in Int /\ End(o.pc) = o.pc + i.size /\ to = o.pc + i.size + i.arg
  BY OpFacts
<1>3. g = Exec(o, i, c)
  BY Outside DEF Goal
<1>4. i.op = "call" => to = Callee /\ Callee \in Int
  BY OpFacts, ConstantTypes
<1>. HIDE DEF g, to, i
<1>5. /\ i.op \in {"plain", "unknown"} => Fields(g, End(o.pc), i.arg, o.tmp, o.x17, o.lr, o.x15, o.stack)
      /\ i.op \in {"mem", "adr", "ldr"} => Fields(g, End(o.pc), to, o.tmp, o.x17, o.lr, o.x15, o.stack)
  BY <1>2, <1>3, ExecSet
<1>6. /\ i.op = "jmp" => Fields(g, to, o.rd, o.tmp, o.x17, o.lr, o.x15, o.stack)
      /\ i.op \in {"jcc", "jrcxz", "loop"} =>
            Fields(g, IF c THEN to ELSE End(o.pc), o.rd, o.tmp, o.x17, o.lr, o.x15, o.stack)
  BY <1>2, <1>3, ExecJump
<1>7. i.op = "call" => IF isa = "x86_64"
                       THEN Fields(g, Callee, o.rd, o.tmp, o.x17, o.lr, o.x15, <<End(o.pc)>> \o o.stack)
                       ELSE Fields(g, Callee, o.rd, o.tmp, o.x17, End(o.pc), o.x15, o.stack)
  <2>. SUFFICES ASSUME i.op = "call" PROVE IF isa = "x86_64"
                       THEN Fields(g, to, o.rd, o.tmp, o.x17, o.lr, o.x15, <<End(o.pc)>> \o o.stack)
                       ELSE Fields(g, to, o.rd, o.tmp, o.x17, End(o.pc), o.x15, o.stack)
    BY <1>4
  <2>. QED  BY <1>2, <1>3, <1>4, ExecCall
<1>8. i.op = "ret" => g = Leave(o)
  BY <1>3, ExecRet
<1>. QED  BY <1>5, <1>6, <1>7, <1>8

\* A call returns to an instruction; when that was moved or follows the patch, the call was
\* relocated.
LEMMA ReturnFacts ==
    ASSUME Frozen, NEW r \in Returns
    PROVE  /\ r \in Int /\ r \in DOMAIN prog /\ r # Fn /\ r # Callee /\ r # Caller
           /\ ~Moved(r) => r \notin DOMAIN starts /\ r > Fn + span
           /\ Moved(r) => \E a \in DOMAIN starts : r = End(a) /\ prog[a].op = "call"
PROOF
<1>1. PICK a \in DOMAIN prog : There(a) /\ prog[a].op = "call" /\ r = End(a)
  BY DEF Returns
<1>2. r \in DOMAIN prog /\ r = a + prog[a].size /\ a \in Int
  BY <1>1, OpFacts
<1>3. a \in Nat /\ Fn <= a /\ a < r /\ r \in Nat
  BY <1>1, TextFacts DEF Frozen, BuildInv
<1>4. r # Callee /\ r # Caller
  BY <1>2, Outside
<1>5. ASSUME ~Moved(r) PROVE r \notin DOMAIN starts /\ r > Fn + span
  <2>1. r > Fn + span
    BY <1>3, <1>5, RunFacts, ConstantTypes DEF Moved
  <2>2. ~(r < cursor)
    BY <2>1, <1>3, RunFacts, ConstantTypes
  <2>. QED  BY <2>1, <2>2, RunFacts
<1>6. ASSUME Moved(r) PROVE a \in DOMAIN starts
  <2>1. a < Fn + span
    BY <1>3, <1>6, RunFacts, ConstantTypes DEF Moved
  <2>. QED  BY <2>1, <1>1, <1>3, RunFacts, ConstantTypes DEF There, Under
<1>7. r \in Int /\ r # Fn
  BY <1>3, ConstantTypes
<1>8. Moved(r) => \E b \in DOMAIN starts : r = End(b) /\ prog[b].op = "call"
  BY <1>1, <1>6, Zenon
<1>. QED  BY <1>2, <1>4, <1>5, <1>7, <1>8

\* Where the original goes when it or its callee returns.
LEMMA LeaveGoal ==
    ASSUME Running, orig.pc = Callee \/ (orig.pc \in DOMAIN prog /\ prog[orig.pc].op = "ret")
    PROVE  LET g == Goal(cond)
               o == orig
           IN  /\ g = Leave(o)
               /\ isa = "x86_64" =>
                    \/ /\ o.stack = <<Caller>> /\ Fields(g, Caller, o.rd, o.tmp, o.x17, o.lr, o.x15, <<>>)
                       /\ ~Moved(Head(o.stack))
                    \/ \E r \in Returns : /\ o.pc = Callee /\ o.stack = <<r>> \o <<Caller>> /\ Head(o.stack) = r
                                          /\ Fields(g, r, o.rd, o.tmp, o.x17, o.lr, o.x15, <<Caller>>)
               /\ isa # "x86_64" =>
                    Fields(g, o.lr, o.rd, o.tmp, o.x17, o.lr, o.x15, o.stack) /\ o.lr \in {Caller} \cup Returns
PROOF
<1>1. Frozen /\ orig \in Machines /\ OrigOK(orig) /\ cond \in BOOLEAN /\ Caller \in Int
  BY ConstantTypes, SMT, Z3 DEF Running
<1>2. Goal(cond) = Leave(orig)
  BY <1>1, GoalFacts
<1>3. ASSUME isa = "x86_64", orig.stack = <<Caller>>
      PROVE  Fields(Goal(cond), Caller, orig.rd, orig.tmp, orig.x17, orig.lr, orig.x15, <<>>) /\ ~Moved(Head(orig.stack))
  <2>1. Fields(Goal(cond), Caller, orig.rd, orig.tmp, orig.x17, orig.lr, orig.x15, <<>>)
    BY <1>1, <1>2, <1>3, LeaveFacts
  <2>2. Head(orig.stack) = Caller
    BY <1>1, <1>3, BottomFacts
  <2>3. \A x \in Nat : Moved(x) => Fn <= x /\ x <= TextEnd
    BY <1>1, RunFacts, ConstantTypes DEF Moved
  <2>4. ~Moved(Caller)
    BY <2>3, <1>1, Outside, ConstantTypes
  <2>. QED  BY <2>1, <2>2, <2>4
<1>4. ASSUME isa = "x86_64", NEW r \in Returns, orig.stack = <<r>> \o <<Caller>>
      PROVE  /\ Head(orig.stack) = r
             /\ Fields(Goal(cond), r, orig.rd, orig.tmp, orig.x17, orig.lr, orig.x15, <<Caller>>)
  <2>1. r \in Int /\ <<Caller>> \in Seq(Int)
    BY <1>1, ReturnFacts
  <2>2. Head(orig.stack) = r
    BY <2>1, <1>4, StackFacts
  <2>. QED  BY <2>1, <2>2, <1>1, <1>2, <1>4, LeaveFacts, Zenon
<1>5. ASSUME isa = "x86_64"
      PROVE  orig.stack = <<Caller>> \/ \E r \in Returns : orig.pc = Callee /\ orig.stack = <<r>> \o <<Caller>>
  <2>1. CASE orig.pc = Callee
    BY <2>1, <1>1, <1>5 DEF OrigOK
  <2>2. CASE orig.pc \in DOMAIN prog
    <3>1. There(orig.pc)
      BY <2>2, <1>1, Outside DEF OrigOK
    <3>. QED  BY <3>1, <1>1, <1>5 DEF OrigOK
  <2>. QED  BY <2>1, <2>2, Zenon
<1>6. ASSUME isa # "x86_64"
      PROVE  Fields(Goal(cond), orig.lr, orig.rd, orig.tmp, orig.x17, orig.lr, orig.x15, orig.stack) /\ orig.lr \in {Caller} \cup Returns
  BY <1>1, <1>2, <1>6, LeaveFacts DEF OrigOK
<1>. QED  BY <1>2, <1>3, <1>4, <1>5, <1>6, Zenon

\* The original stays at instructions that the trampoline has or the patch has left alone,
\* and its stack is that of the function or of a callee.
LEMMA OrigStep ==
    ASSUME Running
    PROVE  Goal(cond) \in Machines /\ OrigOK(Goal(cond))
PROOF
<1>. DEFINE g == Goal(cond)
            o == orig
            i == prog[orig.pc]
<1>1. Frozen /\ o \in Machines /\ OrigOK(o) /\ cond \in BOOLEAN /\ o.pc # Caller /\ ~Dropped(g.pc)
  BY DEF Running, Chosen
<1>2. \A a \in DOMAIN prog : ~Dropped(a) => There(a)
  BY DEF Dropped, There
<1>3. \A a \in DOMAIN prog : a # Callee /\ a # Caller
  BY <1>1, Outside
<1>4. o.tmp = 0
  BY <1>1 DEF OrigOK
<1>. HIDE DEF g
<1>5. CASE o.pc = Callee \/ (o.pc \in DOMAIN prog /\ i.op = "ret")
  <2>1. CASE isa = "x86_64"
    <3>1. o.lr = Caller
      BY <2>1, <1>1 DEF OrigOK
    <3>2. CASE Fields(g, Caller, o.rd, o.tmp, o.x17, o.lr, o.x15, <<>>)
      <4>1. g \in Machines /\ g.pc = Caller /\ g.tmp = 0 /\ g.lr = Caller
        BY <3>1, <3>2, <1>4 DEF Fields
      <4>2. ~There(Caller) /\ Caller # Callee
        BY <1>3, ConstantTypes DEF There
      <4>. QED  BY <4>1, <4>2, <2>1 DEF OrigOK, g
    <3>3. CASE \E r \in Returns : Fields(g, r, o.rd, o.tmp, o.x17, o.lr, o.x15, <<Caller>>)
      <4>1. PICK r \in Returns : Fields(g, r, o.rd, o.tmp, o.x17, o.lr, o.x15, <<Caller>>)
        BY <3>3
      <4>2. g \in Machines /\ g.pc = r /\ g.tmp = 0 /\ g.lr = Caller /\ g.stack = <<Caller>>
        BY <3>1, <4>1, <1>4 DEF Fields
      <4>3. r \in DOMAIN prog
        BY <1>1, ReturnFacts
      <4>4. There(g.pc)
        BY <4>2, <4>3, <1>1, <1>2
      <4>. QED  BY <4>2, <4>3, <4>4, <2>1 DEF OrigOK, g
    <3>. QED  BY <3>2, <3>3, <2>1, <1>5, LeaveGoal, Zenon DEF g
  <2>2. CASE isa # "x86_64"
    <3>1. Fields(g, o.lr, o.rd, o.tmp, o.x17, o.lr, o.x15, o.stack) /\ o.lr \in {Caller} \cup Returns
      BY <2>2, <1>5, LeaveGoal DEF g
    <3>2. g \in Machines /\ g.pc = o.lr /\ g.tmp = 0 /\ g.lr = o.lr /\ g.stack = <<Caller>>
      BY <3>1, <2>2, <1>1, <1>4 DEF Fields, OrigOK
    <3>3. There(g.pc) \/ g.pc = Caller
      BY <3>1, <3>2, <1>1, <1>2, ReturnFacts
    <3>. QED  BY <3>1, <3>2, <3>3, <2>2 DEF OrigOK, g
  <2>. QED  BY <2>1, <2>2
<1>6. CASE o.pc \in DOMAIN prog /\ i.op # "ret"
  <2>1. There(o.pc) /\ IF isa = "x86_64" THEN o.lr = Caller /\ o.stack = <<Caller>>
                       ELSE o.stack = <<Caller>> /\ o.lr \in {Caller} \cup Returns
    BY <1>1, <1>3, <1>6 DEF OrigOK
  <2>2. CASE i.op = "call"
    <3>1. End(o.pc) \in Returns
      BY <1>6, <2>1, <2>2 DEF Returns
    <3>2. ~There(Callee)
      BY <1>3 DEF There
    <3>3. CASE isa = "x86_64"
      <4>1. Fields(g, Callee, o.rd, o.tmp, o.x17, o.lr, o.x15, <<End(o.pc)>> \o <<Caller>>)
        BY <3>3, <2>1, <2>2, <1>1, <1>6, GoalFacts DEF g
      <4>. QED  BY <4>1, <3>1, <3>2, <3>3, <2>1, <1>4 DEF OrigOK, Fields, g
    <3>4. CASE isa # "x86_64"
      <4>1. Fields(g, Callee, o.rd, o.tmp, o.x17, End(o.pc), o.x15, <<Caller>>)
        BY <3>4, <2>1, <2>2, <1>1, <1>6, GoalFacts DEF g
      <4>. QED  BY <4>1, <3>1, <3>2, <3>4, <2>1, <1>4 DEF OrigOK, Fields, g
    <3>. QED  BY <3>3, <3>4
  <2>3. CASE i.op # "call"
    <3>1. End(o.pc) \in DOMAIN prog
      BY <1>1, <1>6, OpFacts
    <3>2. i.op \in {"jmp", "jcc", "jrcxz", "loop"} => Target(o.pc, i) \in DOMAIN prog \cup {Callee}
      BY <1>1, <1>6, OpFacts
    <3>3. i.op \in {"plain", "unknown", "mem", "adr", "ldr", "jmp", "jcc", "jrcxz", "loop"}
      BY <2>3, <1>1, <1>6, OpFacts
    <3>4. /\ g \in Machines /\ g.pc \in DOMAIN prog \cup {Callee}
          /\ g.tmp = o.tmp /\ g.lr = o.lr /\ g.stack = o.stack
      <4>1. CASE i.op \in {"plain", "unknown"}
        BY <4>1, <3>1, <1>1, <1>6, GoalFacts DEF g, Fields
      <4>2. CASE i.op \in {"mem", "adr", "ldr"}
        BY <4>2, <3>1, <1>1, <1>6, GoalFacts DEF g, Fields
      <4>3. CASE i.op = "jmp"
        BY <4>3, <3>2, <1>1, <1>6, GoalFacts DEF g, Fields
      <4>4. CASE i.op \in {"jcc", "jrcxz", "loop"}
        BY <4>4, <3>1, <3>2, <1>1, <1>6, GoalFacts, Zenon DEF g, Fields
      <4>. QED  BY <4>1, <4>2, <4>3, <4>4, <3>3
    <3>5. There(g.pc) \/ g.pc = Callee
      BY <3>4, <1>1, <1>2
    <3>. QED  BY <3>4, <3>5, <2>1, <1>4 DEF OrigOK, g
  <2>. QED  BY <2>2, <2>3
<1>7. o.pc \in DOMAIN prog \/ o.pc = Callee
  BY <1>1 DEF OrigOK, There
<1>. QED  BY <1>5, <1>6, <1>7

-----------------------------------------------------------------------------
(* The steps of the patched function.                                      *)

\* It has come to the point that belongs to the next step of the original, or is still
\* on its way.
Progress(m, n) ==
    m \in Machines /\ IF Comparable(m.pc) THEN AtPoint(Goal(cond), m) /\ n = Once ELSE OnTheWay(m, n)

\* What the patched machine executes at an address.
LEMMA StepFacts ==
    ASSUME Frozen, NEW m
    PROVE  /\ m.pc \in DOMAIN code => Step(m) = Exec(m, code[m.pc], cond)
           /\ m.pc \in DOMAIN prog /\ m.pc # Fn => Step(m) = Exec(m, prog[m.pc], cond)
           /\ m.pc \in {EntryStub, Callee} => Step(m) = Leave(m)
           /\ m.pc = Fn => Step(m) = IF isa = "x86_64" THEN X86Jump(m) ELSE A64Jump(m)
PROOF
<1>1. \A x \in DOMAIN code : x \notin {Fn, EntryStub, Callee}
  BY Outside
<1>2. \A x \in DOMAIN prog : x \notin DOMAIN code /\ x \notin {EntryStub, Callee}
  BY Outside
<1>3. Fn \in DOMAIN prog
  BY TextFacts DEF Frozen, BuildInv
<1>. QED  BY <1>1, <1>2, <1>3 DEF Step

\* At the end of a copy.
LEMMA Landed ==
    ASSUME Running, NEW a \in DOMAIN starts, prog[a].op # "ret", Goal(cond).pc = End(a),
           NEW m \in Machines, m.pc = Landing(End(a)), Related(Goal(cond), m)
    PROVE  Progress(m, Once)
PROOF
<1>1. Frozen /\ ~Dropped(End(a))
  BY DEF Running, Chosen
<1>2. CASE Landing(End(a)) = Image(End(a)) /\ Comparable(Landing(End(a)))
  BY <1>2 DEF Progress, AtPoint
<1>3. CASE Landing(End(a)) = suffix /\ End(a) = cursor /\ cursor = Fn + span /\ ~Comparable(suffix)
  <2>1. Leaving(m, Once)
    BY <1>3 DEF Leaving
  <2>. QED  BY <2>1, <1>3 DEF Progress, OnTheWay
<1>. QED  BY <1>1, <1>2, <1>3, Arrive

\* At an address of the function or outside.
LEMMA Direct ==
    ASSUME Running, NEW m \in Machines, m.pc = Goal(cond).pc, Related(Goal(cond), m),
           m.pc \in DOMAIN prog \cup {Callee, Caller}, m.pc \notin DOMAIN starts \/ m.pc = Fn
    PROVE  Progress(m, Once)
PROOF
<1>1. Frozen
  BY DEF Running
<1>2. m.pc \notin DOMAIN code /\ m.pc # EntryStub
  BY <1>1, Outside, ConstantTypes
<1>3. Comparable(m.pc)
  BY <1>2 DEF Comparable
<1>4. Image(Goal(cond).pc) = m.pc
  BY DEF Image
<1>. QED  BY <1>3, <1>4 DEF Progress, AtPoint

\* A return, of the function or of the callee.
LEMMA LeaveStep ==
    ASSUME Running, orig.pc = Callee \/ (orig.pc \in DOMAIN prog /\ prog[orig.pc].op = "ret"),
           NEW m \in Machines, Related(orig, m)
    PROVE  Progress(Leave(m), Once)
PROOF
<1>. DEFINE g == Goal(cond)
            o == orig
            n == Leave(m)
<1>1. Frozen /\ Caller \in Int /\ o \in Machines
  BY ConstantTypes DEF Running
<1>2. m.rd = o.rd
  BY DEF Related
<1>3. Caller \notin DOMAIN starts /\ Caller # Callee
  BY <1>1, RunFacts, Outside, ConstantTypes
<1>. HIDE DEF g, n
<1>4. CASE isa = "x86_64"
  <2>1. CASE o.stack = <<Caller>> /\ Fields(g, Caller, o.rd, o.tmp, o.x17, o.lr, o.x15, <<>>) /\ ~Moved(Head(o.stack))
    <3>1. m.stack = <<Caller>> /\ m.lr = o.lr /\ (jumped \/ m.tmp = 0)
      BY <1>4, <2>1 DEF Related
    <3>2. Fields(n, Caller, m.rd, m.tmp, m.x17, m.lr, m.x15, <<>>)
      BY <3>1, <1>1, <1>4, LeaveFacts DEF n
    <3>3. Related(g, n)
      BY <2>1, <3>1, <3>2, <1>2, <1>3, <1>4 DEF Related, Fields
    <3>4. n \in Machines /\ n.pc = g.pc /\ n.pc = Caller
      BY <2>1, <3>2 DEF Fields
    <3>. QED  BY <3>3, <3>4, <1>3, Direct DEF g, n
  <2>2. CASE \E r \in Returns : /\ o.pc = Callee /\ o.stack = <<r>> \o <<Caller>> /\ Head(o.stack) = r
                                /\ Fields(g, r, o.rd, o.tmp, o.x17, o.lr, o.x15, <<Caller>>)
    <3>1. PICK r \in Returns : /\ o.pc = Callee /\ o.stack = <<r>> \o <<Caller>> /\ Head(o.stack) = r
                               /\ Fields(g, r, o.rd, o.tmp, o.x17, o.lr, o.x15, <<Caller>>)
      BY <2>2
    <3>2. r \in Int /\ r \in DOMAIN prog /\ r # Callee
      BY <1>1, ReturnFacts
    <3>3. CASE Moved(r)
      <4>1. PICK a \in DOMAIN starts : r = End(a) /\ prog[a].op = "call"
        BY <3>3, <1>1, ReturnFacts
      <4>. DEFINE p == Landing(r) - 2
                  w == m.stack[2]
      <4>2. m.stack = <<p>> \o (<<w>> \o <<Caller>>) /\ (jumped \/ w = 0) /\ m.lr = o.lr
        BY <3>1, <3>3, <1>4 DEF Related
      <4>3. /\ starts[a] \in Nat /\ PrefixEnd <= starts[a] /\ Landing(End(a)) \in Nat
            /\ CopyOf(code, prog[a], a, starts[a], Landing(End(a)))
        BY <1>1, CopyFacts
      <4>4. Holds(code, starts[a] + 15, Insn("poptmp", 2, 0)) /\ Landing(End(a)) = starts[a] + 17
        BY <4>1, <4>3, <1>4 DEF CopyOf, X86Copy
      <4>5. p \in Int /\ p = starts[a] + 15 /\ p \in DOMAIN code /\ p \in starts[a] + 1 .. Landing(End(a)) - 1
        BY <4>1, <4>3, <4>4 DEF Holds
      <4>6. ~Comparable(p)
        BY <4>5, <1>1, NotComparable
      <4>7. w \in Int /\ m.stack \in Seq(Int)
        <5>1. m.stack \in Seq(Int)
          BY DEF Machines
        <5>2. 2 \in 1 .. Len(m.stack)
          BY <4>2, <4>5, <5>1
        <5>. QED  BY <5>1, <5>2
      <4>. HIDE DEF p, w
      <4>8. <<w>> \o <<Caller>> \in Seq(Int) /\ Head(<<w>> \o <<Caller>>) = w
        BY <4>7, <1>1, StackFacts
      <4>9. Fields(n, p, m.rd, m.tmp, m.x17, m.lr, m.x15, <<w>> \o <<Caller>>)
        BY <4>2, <4>5, <4>8, <1>1, <1>4, LeaveFacts, Zenon DEF n
      <4>10. o.lr = Caller
        BY <1>4 DEF Running, OrigOK
      <4>11. Returning(n, 0)
        BY <4>2, <4>8, <4>9, <4>10, <3>1, <3>3, <1>2, <1>4 DEF Returning, Fields, p
      <4>12. Once = 0
        BY <3>1, <1>1, Outside, TextFacts DEF Once, Frozen, BuildInv
      <4>. QED  BY <4>6, <4>9, <4>11, <4>12 DEF Progress, OnTheWay, Fields, n
    <3>4. CASE ~Moved(r)
      <4>1. m.stack = o.stack /\ m.lr = o.lr /\ (jumped \/ m.tmp = 0)
        BY <3>1, <3>4, <1>4 DEF Related
      <4>2. Fields(n, r, m.rd, m.tmp, m.x17, m.lr, m.x15, <<Caller>>)
        BY <4>1, <3>1, <3>2, <1>1, <1>4, LeaveFacts, BottomFacts, Zenon DEF n
      <4>3. Related(g, n)
        BY <3>1, <3>2, <4>1, <4>2, <1>2, <1>4 DEF Related, Fields
      <4>4. n \in Machines /\ n.pc = g.pc /\ n.pc = r /\ r \notin DOMAIN starts
        BY <3>1, <3>4, <4>2, <1>1, ReturnFacts DEF Fields
      <4>. QED  BY <4>3, <4>4, <3>2, Direct DEF g, n
    <3>. QED  BY <3>3, <3>4
  <2>. QED  BY <2>1, <2>2, <1>4, LeaveGoal, Zenon DEF g
<1>5. CASE isa # "x86_64"
  <2>1. Fields(g, o.lr, o.rd, o.tmp, o.x17, o.lr, o.x15, o.stack) /\ o.lr \in {Caller} \cup Returns
    BY <1>5, LeaveGoal DEF g
  <2>2. Fields(n, m.lr, m.rd, m.tmp, m.x17, m.lr, m.x15, m.stack)
    BY <1>5, LeaveFacts DEF n
  <2>3. m.stack = o.stack /\ m.lr = IF Moved(o.lr) THEN Landing(o.lr) ELSE o.lr
    BY <1>5 DEF Related
  <2>4. Related(g, n)
    BY <2>1, <2>2, <2>3, <1>2, <1>5 DEF Related, Fields
  <2>5. CASE Moved(o.lr)
    <3>1. ~Moved(Caller)
      <4>1. \A x \in Nat : Moved(x) => Fn <= x /\ x <= TextEnd
        BY <1>1, RunFacts, ConstantTypes, SMT, Z3 DEF Moved
      <4>. QED  BY <4>1, <1>1, Outside, ConstantTypes
    <3>2. PICK a \in DOMAIN starts : o.lr = End(a) /\ prog[a].op = "call"
      BY <2>1, <2>5, <3>1, <1>1, ReturnFacts
    <3>3. n \in Machines /\ n.pc = Landing(End(a)) /\ g.pc = End(a)
      BY <2>1, <2>2, <2>3, <2>5, <3>2 DEF Fields
    <3>. QED  BY <2>4, <3>2, <3>3, Landed DEF g, n
  <2>6. CASE ~Moved(o.lr)
    <3>1. n \in Machines /\ n.pc = g.pc /\ n.pc = o.lr
      BY <2>1, <2>2, <2>3, <2>6 DEF Fields
    <3>2. o.lr \in DOMAIN prog \cup {Caller} /\ o.lr \notin DOMAIN starts
      BY <2>1, <2>6, <1>1, <1>3, ReturnFacts
    <3>. QED  BY <2>4, <3>1, <3>2, Direct DEF g, n
  <2>. QED  BY <2>5, <2>6
<1>. QED  BY <1>4, <1>5

\* The registers of the patched function while the original is at an instruction.
LinkReg == IF Moved(orig.lr) THEN Landing(orig.lr) ELSE orig.lr
TextRegs(m) ==
    /\ m.stack = <<Caller>>
    /\ IF isa = "x86_64" THEN m.lr = Caller /\ (jumped \/ m.tmp = 0) ELSE m.lr = LinkReg

\* Related, when the original is in the text.
LEMMA TextRelated ==
    ASSUME Running, orig.pc \in DOMAIN prog
    PROVE  /\ \A m : Related(orig, m) <=> m.rd = orig.rd /\ TextRegs(m)
           /\ orig.stack = <<Caller>> /\ (isa = "x86_64" => orig.lr = Caller)
PROOF
<1>1. Frozen /\ OrigOK(orig)
  BY DEF Running
<1>2. orig.pc # Callee /\ orig.pc # Caller
  BY <1>1, Outside
<1>3. orig.stack = <<Caller>> /\ (isa = "x86_64" => orig.lr = Caller)
  BY <1>1, <1>2 DEF OrigOK
<1>. QED  BY <1>2, <1>3 DEF Related, TextRegs, LinkReg

\* An instruction other than a call or a return leaves the stack and the link register.
LEMMA Mirror ==
    ASSUME Running, orig.pc \in DOMAIN prog, prog[orig.pc].op \notin {"call", "ret"}
    PROVE  /\ Goal(cond).rd = (IF prog[orig.pc].op \in {"plain", "unknown"} THEN prog[orig.pc].arg
                               ELSE IF prog[orig.pc].op \in {"mem", "adr", "ldr"} THEN Target(orig.pc, prog[orig.pc]) ELSE orig.rd)
           /\ Goal(cond).pc = IF Jumping THEN Target(orig.pc, prog[orig.pc]) ELSE End(orig.pc)
           /\ \A n : n.rd = Goal(cond).rd /\ TextRegs(n) => Related(Goal(cond), n)
PROOF
<1>. DEFINE g == Goal(cond)
            o == orig
            i == prog[orig.pc]
<1>1. Frozen /\ OrigOK(orig) /\ orig \in Machines /\ cond \in BOOLEAN /\ Chosen
  BY DEF Running
<1>2. Op = i.op
  BY <1>1, Outside DEF Op
<1>3. i.op \in {"plain", "unknown", "mem", "adr", "ldr", "jmp", "jcc", "jrcxz", "loop"}
  BY <1>1, OpFacts
<1>4. i.op = "jmp" => cond
  BY <1>1, <1>2 DEF Chosen
<1>. HIDE DEF g
<1>5. /\ g.rd = (IF i.op \in {"plain", "unknown"} THEN i.arg
                 ELSE IF i.op \in {"mem", "adr", "ldr"} THEN Target(o.pc, i) ELSE o.rd)
      /\ g.pc = (IF Jumping THEN Target(o.pc, i) ELSE End(o.pc))
      /\ g.lr = o.lr /\ g.stack = o.stack
  <2>1. CASE i.op \in {"plain", "unknown"}
    <3>1. Fields(g, End(o.pc), i.arg, o.tmp, o.x17, o.lr, o.x15, o.stack)
      BY <2>1, <1>1, GoalFacts DEF g
    <3>. QED  BY <3>1, <2>1, <1>2 DEF Fields, Jumping, Jumps
  <2>2. CASE i.op \in {"mem", "adr", "ldr"}
    <3>1. Fields(g, End(o.pc), Target(o.pc, i), o.tmp, o.x17, o.lr, o.x15, o.stack)
      BY <2>2, <1>1, GoalFacts DEF g
    <3>. QED  BY <3>1, <2>2, <1>2 DEF Fields, Jumping, Jumps
  <2>3. CASE i.op = "jmp"
    <3>1. Fields(g, Target(o.pc, i), o.rd, o.tmp, o.x17, o.lr, o.x15, o.stack)
      BY <2>3, <1>1, GoalFacts DEF g
    <3>. QED  BY <3>1, <2>3, <1>2, <1>4 DEF Fields, Jumping, Jumps
  <2>4. CASE i.op \in {"jcc", "jrcxz", "loop"}
    <3>1. Fields(g, IF cond THEN Target(o.pc, i) ELSE End(o.pc), o.rd, o.tmp, o.x17, o.lr, o.x15, o.stack)
      BY <2>4, <1>1, GoalFacts, Zenon DEF g
    <3>. QED  BY <3>1, <2>4, <1>2 DEF Fields, Jumping, Jumps
  <2>. QED  BY <2>1, <2>2, <2>3, <2>4, <1>3
<1>6. o.stack = <<Caller>> /\ (isa = "x86_64" => o.lr = Caller)
  BY TextRelated
<1>7. Head(<<Caller>>) = Caller
  BY ConstantTypes, BottomFacts
<1>8. ~Moved(Caller)
  <2>1. \A x \in Nat : Moved(x) => Fn <= x /\ x <= TextEnd
    BY <1>1, RunFacts, ConstantTypes, SMT, Z3 DEF Moved
  <2>. QED  BY <2>1, <1>1, Outside, ConstantTypes
<1>9. ASSUME NEW n, n.rd = g.rd, TextRegs(n) PROVE Related(g, n)
  BY <1>5, <1>6, <1>7, <1>8, <1>9 DEF Related, TextRegs, LinkReg
<1>. QED  BY <1>5, <1>9 DEF g

\* A jump leads to an address that was left alone, or to the first instruction.
LEMMA JumpLands ==
    ASSUME Running, Jumping, orig.pc \in DOMAIN prog,
           NEW m \in Machines, m.pc = Target(orig.pc, prog[orig.pc]), m.rd = orig.rd, TextRegs(m)
    PROVE  Progress(m, Once)
PROOF
<1>1. Frozen /\ Chosen
  BY DEF Running
<1>2. prog[orig.pc].op \in Jumps
  BY <1>1, Outside DEF Jumping, Op
<1>3. m.pc \in DOMAIN prog \cup {Callee}
  BY <1>1, <1>2, OpFacts DEF Jumps
<1>4. Goal(cond).rd = orig.rd /\ Goal(cond).pc = m.pc /\ Related(Goal(cond), m)
  <2>1. Goal(cond).rd = orig.rd /\ Goal(cond).pc = m.pc
    BY <1>2, Mirror DEF Jumps
  <2>. QED  BY <2>1, <1>2, Mirror DEF Jumps
<1>5. m.pc \notin DOMAIN starts \/ m.pc = Fn
  <2>1. ~Under(m.pc) \/ m.pc = Fn
    BY <1>1, <1>4 DEF Chosen
  <2>2. \A a \in DOMAIN starts : Under(a)
    <3>1. ASSUME NEW a \in DOMAIN starts PROVE Under(a)
      BY <1>1, CopyFacts, RunFacts, SMT, Z3 DEF Under
    <3>. QED  BY <3>1
  <2>. QED  BY <2>1, <2>2
<1>. QED  BY <1>3, <1>4, <1>5, Direct

\* An instruction that the patch has left alone.
LEMMA TextStep ==
    ASSUME Running, orig.pc \in DOMAIN prog, orig.pc \notin DOMAIN starts, NEW m \in Machines, AtPoint(orig, m)
    PROVE  Progress(Step(m), 0)
PROOF
<1>. DEFINE o == orig
            i == prog[orig.pc]
            n == Step(m)
            g == Goal(cond)
<1>1. Frozen /\ OrigOK(o) /\ o \in Machines /\ cond \in BOOLEAN /\ Chosen
  BY DEF Running
<1>2. Fn \in DOMAIN starts /\ Fn \in Nat
  BY <1>1, RunFacts, ConstantTypes
<1>3. Once = 0 /\ o.pc # Fn
  BY <1>2 DEF Once
<1>4. m.pc = o.pc /\ Related(o, m) /\ m.rd = o.rd /\ TextRegs(m)
  BY TextRelated DEF AtPoint, Image
<1>5. n = Exec(m, i, cond)
  BY <1>1, <1>3, <1>4, StepFacts
<1>6. i.size \in Int /\ i.arg \in Int /\ End(o.pc) = o.pc + i.size /\ Target(o.pc, i) = o.pc + i.size + i.arg
  BY <1>1, OpFacts
<1>7. o.pc \in Nat /\ End(o.pc) \in Nat /\ End(o.pc) > o.pc /\ Fn <= o.pc
  BY <1>1, TextFacts, Zenon DEF Frozen, BuildInv
<1>8. ~Under(o.pc)
  BY <1>1, Outside DEF OrigOK, There
<1>9. End(o.pc) > Fn + span /\ o.pc >= Fn + span
  BY <1>1, <1>2, <1>7, <1>8, RunFacts DEF Under
<1>10. End(o.pc) \notin DOMAIN starts /\ ~Moved(End(o.pc))
  <2>1. ~Moved(End(o.pc))
    BY <1>2, <1>7, <1>9, <1>1, RunFacts DEF Moved
  <2>2. ~(End(o.pc) < cursor)
    BY <1>2, <1>7, <1>9, <1>1, RunFacts
  <2>. QED  BY <2>1, <2>2, <1>1, RunFacts
<1>. HIDE DEF n, g
<1>11. CASE i.op = "ret"
  <2>1. n = Leave(m)
    BY <1>5, <1>11, ExecRet
  <2>2. Progress(Leave(m), Once)
    BY <1>4, <1>11, LeaveStep
  <2>. QED  BY <2>1, <2>2, <1>3 DEF n
<1>12. CASE i.op = "call"
  <2>1. Target(o.pc, i) = Callee /\ Callee \in Int /\ Callee = m.pc + i.size + i.arg
    BY <1>1, <1>4, <1>12, OpFacts, SMT, Z3
  <2>2. CASE isa = "x86_64"
    <3>1. Fields(n, Callee, m.rd, m.tmp, m.x17, m.lr, m.x15, <<End(o.pc)>> \o <<Caller>>)
      BY <2>1, <2>2, <1>4, <1>5, <1>6, <1>12, ExecCall, Zenon DEF TextRegs
    <3>2. Fields(g, Callee, o.rd, o.tmp, o.x17, o.lr, o.x15, <<End(o.pc)>> \o <<Caller>>)
      BY <2>2, <1>1, <1>12, GoalFacts, TextRelated, Zenon DEF g
    <3>3. Head(<<End(o.pc)>> \o <<Caller>>) = End(o.pc)
      BY SMT, Z3
    <3>4. o.lr = Caller
      BY <2>2, TextRelated, Zenon
    <3>. HIDE DEF i
    <3>5. Related(g, n)
      BY <3>1, <3>2, <3>3, <3>4, <2>2, <1>4, <1>10 DEF Related, Fields, TextRegs
    <3>6. n \in Machines /\ n.pc = g.pc /\ n.pc = Callee
      BY <3>1, <3>2 DEF Fields
    <3>. QED  BY <3>5, <3>6, <1>3, <1>1, Direct, RunFacts, Outside DEF g, n
  <2>3. CASE isa # "x86_64"
    <3>1. Fields(n, Callee, m.rd, m.tmp, m.x17, End(o.pc), m.x15, <<Caller>>)
      BY <2>1, <2>3, <1>4, <1>5, <1>6, <1>12, ExecCall, Zenon DEF TextRegs
    <3>2. Fields(g, Callee, o.rd, o.tmp, o.x17, End(o.pc), o.x15, <<Caller>>)
      BY <2>3, <1>1, <1>12, GoalFacts, TextRelated, Zenon DEF g
    <3>. HIDE DEF i
    <3>3. Related(g, n)
      BY <3>1, <3>2, <2>3, <1>4, <1>10 DEF Related, Fields
    <3>4. n \in Machines /\ n.pc = g.pc /\ n.pc = Callee
      BY <3>1, <3>2 DEF Fields
    <3>. QED  BY <3>3, <3>4, <1>3, <1>1, Direct, RunFacts, Outside DEF g, n
  <2>. QED  BY <2>2, <2>3
<1>13. CASE i.op \notin {"call", "ret"}
  <2>1. i.op \in {"plain", "unknown", "mem", "adr", "ldr", "jmp", "jcc", "jrcxz", "loop"} /\ Op = i.op
    BY <1>1, <1>13, OpFacts, Outside DEF Op
  <2>2. i.op = "jmp" => cond
    BY <1>1, <2>1 DEF Chosen
  <2>3. /\ n \in Machines /\ n.pc = (IF Jumping THEN Target(o.pc, i) ELSE End(o.pc))
        /\ n.rd = (IF i.op \in {"plain", "unknown"} THEN i.arg
                   ELSE IF i.op \in {"mem", "adr", "ldr"} THEN Target(o.pc, i) ELSE o.rd)
        /\ n.tmp = m.tmp /\ n.lr = m.lr /\ n.stack = m.stack
    <3>1. CASE i.op \in {"plain", "unknown"}
      <4>1. Fields(n, m.pc + i.size, i.arg, m.tmp, m.x17, m.lr, m.x15, m.stack)
        BY <3>1, <1>5, <1>6, ExecSet, Zenon
      <4>. QED  BY <4>1, <3>1, <2>1, <1>4, <1>6 DEF Fields, Jumping, Jumps
    <3>2. CASE i.op \in {"mem", "adr", "ldr"}
      <4>1. Fields(n, m.pc + i.size, m.pc + i.size + i.arg, m.tmp, m.x17, m.lr, m.x15, m.stack)
        BY <3>2, <1>5, <1>6, ExecSet, Zenon
      <4>. QED  BY <4>1, <3>2, <2>1, <1>4, <1>6 DEF Fields, Jumping, Jumps
    <3>3. CASE i.op = "jmp"
      <4>1. Fields(n, m.pc + i.size + i.arg, m.rd, m.tmp, m.x17, m.lr, m.x15, m.stack)
        BY <3>3, <1>1, <1>5, <1>6, ExecJump, Zenon
      <4>. QED  BY <4>1, <3>3, <2>1, <2>2, <1>4, <1>6, Zenon DEF Fields, Jumping, Jumps
    <3>4. CASE i.op \in {"jcc", "jrcxz", "loop"}
      <4>1. Fields(n, IF cond THEN m.pc + i.size + i.arg ELSE m.pc + i.size, m.rd, m.tmp, m.x17, m.lr, m.x15, m.stack)
        BY <3>4, <1>1, <1>5, <1>6, ExecJump, Zenon
      <4>. QED  BY <4>1, <3>4, <2>1, <1>4, <1>6, Zenon DEF Fields, Jumping, Jumps
    <3>. QED  BY <3>1, <3>2, <3>3, <3>4, <2>1, Zenon
  <2>4. TextRegs(n)
    BY <2>3, <1>4, Zenon DEF TextRegs
  <2>5. CASE Jumping
    <3>1. n.rd = o.rd /\ n.pc = Target(o.pc, i)
      BY <2>1, <2>3, <2>5, Zenon DEF Jumping, Jumps
    <3>2. Progress(n, Once)
      BY <2>3, <2>4, <2>5, <3>1, JumpLands
    <3>. QED  BY <3>2, <1>3, Zenon DEF n
  <2>6. CASE ~Jumping
    <3>1. n.pc = End(o.pc) /\ g.pc = End(o.pc) /\ n.rd = g.rd
      BY <2>3, <2>6, <1>13, Mirror DEF g
    <3>2. Related(g, n)
      BY <3>1, <2>4, <1>13, Mirror, Zenon DEF g
    <3>3. n.pc \in DOMAIN prog
      BY <3>1, <1>1, <1>13, OpFacts
    <3>4. Progress(n, Once)
      BY <3>1, <3>2, <3>3, <2>3, <1>10, Direct, Zenon DEF g
    <3>. QED  BY <3>4, <1>3 DEF n
  <2>. QED  BY <2>5, <2>6, Zenon
<1>. QED  BY <1>11, <1>12, <1>13

\* Each copy begins with an instruction.
LEMMA CopyStart ==
    ASSUME Frozen, NEW a \in DOMAIN starts
    PROVE  starts[a] \in DOMAIN code
PROOF
<1>1. CopyOf(code, prog[a], a, starts[a], Landing(End(a)))
  BY CopyFacts
<1>2. CASE isa = "x86_64"
  BY <1>1, <1>2 DEF CopyOf, X86Copy, Holds
<1>3. CASE isa # "x86_64"
  BY <1>1, <1>3 DEF CopyOf, A64Copy, Movs, Holds
<1>. QED  BY <1>2, <1>3

\* Behind the prefix: the copy of the first instruction.
LEMMA AtFirst ==
    ASSUME Running, orig.pc = Fn, NEW m \in Machines, m.pc = PrefixEnd, Related(orig, m)
    PROVE  Progress(m, 1)
PROOF
<1>1. Frozen /\ Fn \in DOMAIN starts /\ starts[Fn] = PrefixEnd /\ Once = 1
  BY RunFacts DEF Running, Once
<1>2. PrefixEnd \in DOMAIN code /\ PrefixEnd \in Nat
  BY <1>1, CopyStart, PrefixAddresses
<1>3. ~Comparable(PrefixEnd)
  BY <1>1, <1>2, NotComparable, SMT, Z3
<1>4. Inside(m, 1)
  BY <1>1 DEF Inside
<1>. QED  BY <1>3, <1>4 DEF Progress, OnTheWay

\* The jump at the beginning of the function.
LEMMA EnterStep ==
    ASSUME Running, orig.pc = Fn, NEW m \in Machines, AtPoint(orig, m)
    PROVE  Progress(Step(m), 0)
PROOF
<1>. DEFINE n == Step(m)
<1>1. Frozen /\ orig.pc \in DOMAIN prog
  BY TextFacts DEF Running, Frozen, BuildInv
<1>2. m.pc = Fn /\ m.rd = orig.rd /\ TextRegs(m) /\ Tr \in Int
  BY <1>1, TextRelated, ConstantTypes DEF AtPoint, Image
<1>3. Tr \in DOMAIN code /\ Tr <= PrefixEnd
  <2>1. Tr \in DOMAIN code
    BY <1>1, RunFacts DEF PrefixAt, X86PrefixAt, A64PrefixAt, Holds
  <2>. QED  BY <2>1, PrefixAddresses, ConstantTypes, SMT, Z3
<1>4. ~Comparable(Tr)
  BY <1>1, <1>3, NotComparable
<1>5. n = IF isa = "x86_64" THEN X86Jump(m) ELSE A64Jump(m)
  BY <1>1, <1>2, StepFacts
<1>6. n \in Machines /\ n.pc = Tr /\ n.rd = m.rd /\ n.lr = m.lr /\ n.stack = m.stack /\ (isa = "x86_64" => n.tmp = m.tmp)
  BY <1>2, <1>5, Zenon DEF X86Jump, A64Jump, Goto, Machines
<1>. HIDE DEF n
<1>7. Entering(n, 0)
  BY <1>2, <1>6 DEF Entering, X86Entering, A64Entering, TextRegs, LinkReg
<1>. QED  BY <1>4, <1>6, <1>7 DEF Progress, OnTheWay, n

\* The prefix on x86_64.
LEMMA X86EnterStep ==
    ASSUME Running, isa = "x86_64", orig.pc = Fn, NEW m \in Machines, NEW k, X86Entering(m, k)
    PROVE  Progress(Step(m), k + (IF m.pc = EntryStub THEN 1 ELSE 0))
PROOF
<1>. DEFINE n == Step(m)
<1>1. Frozen /\ Tr \in Int /\ Caller \in Int /\ ProbeId \in Int /\ EntryStub \in Int /\ orig.pc \in DOMAIN prog /\ PrefixEnd = Tr + 16
  BY ConstantTypes, TextFacts DEF Running, Frozen, BuildInv, PrefixEnd
<1>2. X86PrefixAt(code) /\ X86SuffixAt(code) /\ suffix \in Int
  BY <1>1, RunFacts DEF PrefixAt, SuffixAt
<1>3. \A x \in DOMAIN code : x # EntryStub
  BY <1>1, Outside
<1>4. m.rd = orig.rd /\ m.lr = Caller /\ (jumped \/ m.tmp = 0)
  BY DEF X86Entering
<1>5. <<Caller>> \in Seq(Int) /\ <<ProbeId>> \o <<Caller>> \in Seq(Int)
  BY <1>1, BottomFacts, StackFacts
<1>. HIDE DEF n
<1>6. ASSUME NEW x, n \in Machines, n.rd = m.rd, n.lr = m.lr, n.tmp = m.tmp, ~Comparable(n.pc),
             \/ n.pc = Tr + 5 /\ n.stack = <<ProbeId>> \o <<Caller>> /\ x = 0
             \/ n.pc = EntryStub /\ n.stack = <<Tr + 11>> \o (<<ProbeId>> \o <<Caller>>) /\ x = 0
             \/ n.pc = Tr + 11 /\ n.stack = <<ProbeId>> \o <<Caller>> /\ x = 1
      PROVE  Progress(n, x)
  <2>1. Entering(n, x)
    BY <1>4, <1>6, Zenon DEF Entering, X86Entering
  <2>. QED  BY <2>1, <1>6 DEF Progress, OnTheWay
<1>7. CASE m.pc = Tr /\ m.stack = <<Caller>> /\ k = 0
  <2>1. m.pc \in DOMAIN code /\ code[m.pc] = Insn("pushid", 5, ProbeId)
    BY <1>2, <1>7 DEF X86PrefixAt, Holds
  <2>2. Fields(n, Tr + 5, m.rd, m.tmp, m.x17, m.lr, m.x15, <<ProbeId>> \o <<Caller>>)
    <3>1. n = Exec(m, code[m.pc], cond)
      BY <2>1, <1>1, StepFacts DEF n
    <3>2. code[m.pc].op = "pushid" /\ code[m.pc].size = 5 /\ code[m.pc].arg = ProbeId
      BY <2>1, InsnFields, SMT, Z3
    <3>. DEFINE i == code[m.pc]
    <3>. HIDE DEF i
    <3>3. n = Exec(m, i, cond) /\ i.op = "pushid" /\ i.size \in Int /\ i.arg \in Int
      BY <3>1, <3>2, <1>1 DEF i
    <3>4. Fields(n, m.pc + i.size, m.rd, m.tmp, m.x17, m.lr, m.x15, <<i.arg>> \o m.stack)
      BY <3>3, ExecStack, Zenon
    <3>. QED  BY <3>2, <3>4, <1>7 DEF i
  <2>3. ~Comparable(Tr + 5)
    <3>1. Tr + 5 \in DOMAIN code /\ Tr + 5 <= PrefixEnd
      BY <1>1, <1>2 DEF X86PrefixAt
    <3>. QED  BY <3>1, <1>1, NotComparable
  <2>4. Progress(n, 0)
    BY <2>2, <2>3, <1>6 DEF Fields
  <2>. QED  BY <2>1, <2>4, <1>3, <1>7 DEF n
<1>8. CASE m.pc = Tr + 5 /\ m.stack = <<ProbeId>> \o <<Caller>> /\ k = 0
  <2>. DEFINE i == code[m.pc]
  <2>1. m.pc \in DOMAIN code /\ i = Insn("calli", 6, i.arg) /\ i.arg = suffix + 6 - (Tr + 11)
    BY <1>2, <1>8 DEF X86PrefixAt, X86SuffixAt
  <2>2. i.op = "calli" /\ i.size = 6
    BY <2>1, InsnFields, SMT, Z3
  <2>3. m.pc + i.size = Tr + 11 /\ m.pc + i.size + i.arg = suffix + 6 /\ i.arg \in Int
    BY <2>1, <2>2, <1>1, <1>2, <1>8
  <2>4. code[suffix + 6].arg = EntryStub
    <3>1. code[suffix + 6] = Insn("quad", 8, EntryStub)
      BY <1>2 DEF X86SuffixAt, Holds
    <3>. QED  BY <3>1, InsnFields
  <2>5. n = Exec(m, i, cond)
    BY <2>1, <1>1, StepFacts DEF n
  <2>. HIDE DEF i
  <2>6. Fields(n, EntryStub, m.rd, m.tmp, m.x17, m.lr, m.x15, <<Tr + 11>> \o (<<ProbeId>> \o <<Caller>>))
    <3>1. EntryStub = code[m.pc + i.size + i.arg].arg
      BY <2>3, <2>4
    <3>2. Fields(n, EntryStub, m.rd, m.tmp, m.x17, m.lr, m.x15, <<m.pc + i.size>> \o m.stack)
      BY <3>1, <2>2, <2>3, <2>5, <1>1, ExecCall
    <3>. QED  BY <3>2, <2>3, <1>8
  <2>7. ~Comparable(EntryStub)
    BY DEF Comparable
  <2>8. Progress(n, 0)
    BY <2>6, <2>7, <1>6 DEF Fields
  <2>. QED  BY <2>1, <2>8, <1>3, <1>8, SMT, Z3 DEF n
<1>9. CASE m.pc = EntryStub /\ m.stack = <<Tr + 11>> \o (<<ProbeId>> \o <<Caller>>) /\ k = 0
  <2>1. n = Leave(m) /\ Tr + 11 \in Int
    BY <1>9, <1>1, StepFacts DEF n
  <2>2. Fields(n, Tr + 11, m.rd, m.tmp, m.x17, m.lr, m.x15, <<ProbeId>> \o <<Caller>>)
    BY <2>1, <1>5, <1>9, LeaveFacts, Zenon
  <2>3. ~Comparable(Tr + 11)
    <3>1. Tr + 11 \in DOMAIN code /\ Tr + 11 <= PrefixEnd
      BY <1>1, <1>2 DEF X86PrefixAt, Holds
    <3>. QED  BY <3>1, <1>1, NotComparable
  <2>4. Progress(n, 1)
    BY <2>2, <2>3, <1>6 DEF Fields
  <2>. QED  BY <2>4, <1>9, SMT, Z3 DEF n
<1>10. CASE m.pc = Tr + 11 /\ m.stack = <<ProbeId>> \o <<Caller>> /\ k = 1
  <2>1. m.pc \in DOMAIN code /\ code[m.pc] = Insn("drop", 5, 0)
    BY <1>2, <1>10 DEF X86PrefixAt, Holds
  <2>2. Fields(n, Tr + 16, m.rd, m.tmp, m.x17, m.lr, m.x15, <<Caller>>)
    <3>1. n = Exec(m, code[m.pc], cond)
      BY <2>1, <1>1, StepFacts DEF n
    <3>2. code[m.pc].op = "drop" /\ code[m.pc].size = 5 /\ code[m.pc].arg = 0
      BY <2>1, InsnFields
    <3>. DEFINE i == code[m.pc]
                s == <<Caller>>
    <3>. HIDE DEF i, s
    <3>3. n = Exec(m, i, cond) /\ i.op = "drop" /\ i.size \in Int /\ i.arg \in Int
      BY <3>1, <3>2 DEF i
    <3>4. m.stack = <<ProbeId>> \o s /\ s \in Seq(Int)
      BY <1>5, <1>10 DEF s
    <3>5. Fields(n, m.pc + i.size, m.rd, m.tmp, m.x17, m.lr, m.x15, s)
      BY <3>3, <3>4, <1>1, ExecStack, Zenon
    <3>6. m.pc + i.size = Tr + 16
      BY <3>2, <1>1, <1>10, SMT, Z3 DEF i
    <3>. QED  BY <3>5, <3>6 DEF s
  <2>3. Related(orig, n)
    BY <2>2, <1>1, <1>4, TextRelated DEF TextRegs, Fields
  <2>4. Progress(n, 1)
    BY <2>2, <2>3, <1>1, AtFirst DEF Fields
  <2>. QED  BY <2>1, <2>4, <1>3, <1>10 DEF n
<1>. QED  BY <1>7, <1>8, <1>9, <1>10, Zenon DEF X86Entering
=============================================================================
