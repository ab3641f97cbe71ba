-------------------------- MODULE RelocationProofs --------------------------
(***************************************************************************)
(* Proofs about Relocation, part 3: the builder keeps BuildInv; the        *)
(* theorems, for every text, every address and every size of the slot.     *)
(***************************************************************************)
EXTENDS RelocationStepProofs

-----------------------------------------------------------------------------
(* Emitting.                                                               *)

\* What was emitted up to address lo on stays.
Kept(t, u, lo) == \A x \in DOMAIN t : x >= lo => Holds(u, x, t[x])

\* The buffer c is b after some emitting.
Emitted(b, c) == BufOK(c) /\ (c.ok => b.ok /\ b.end <= c.end /\ Kept(b.text, c.text, Tr))

\* Emitting twice is emitting.
LEMMA EmittedTrans ==
    ASSUME NEW b, NEW c, NEW d, BufOK(b), Emitted(b, c), Emitted(c, d)
    PROVE  Emitted(b, d)
PROOF
<1>1. b.end \in Int /\ c.end \in Int /\ d.end \in Int
  BY ConstantTypes DEF BufOK, Emitted
<1>2. ASSUME d.ok PROVE b.ok /\ b.end <= d.end
  BY <1>1, <1>2 DEF Emitted
<1>3. ASSUME d.ok, NEW x \in DOMAIN b.text, x >= Tr PROVE Holds(d.text, x, b.text[x])
  BY <1>3 DEF Emitted, Kept, Holds
<1>. QED  BY <1>2, <1>3 DEF Emitted, Kept

\* Emitting nothing, and refusing, is emitting.
LEMMA EmittedSelf ==
    ASSUME NEW b, BufOK(b)
    PROVE  Emitted(b, b) /\ Emitted(b, Refuse(b)) /\ ~ Refuse(b).ok
PROOF
<1>1. b.end \in Int
  BY ConstantTypes DEF BufOK
<1>2. Emitted(b, b)
  BY <1>1 DEF Emitted, Kept, Holds
<1>3. Refuse(b) = [ok |-> FALSE, end |-> b.end, text |-> b.text]
  BY DEF Refuse
<1>4. BufOK(Refuse(b)) /\ ~ Refuse(b).ok
  BY <1>3 DEF BufOK
<1>. QED  BY <1>2, <1>4 DEF Emitted

\* zt_emit_bytes
LEMMA EmitOne ==
    ASSUME NEW b, BufOK(b), NEW i, i.size \in Nat \ {0}, NEW c, c = b ++ i
    PROVE  Emitted(b, c) /\ (c.ok => c.end = b.end + i.size /\ Holds(c.text, b.end, i))
PROOF
<1>1. b.end \in Int /\ Tr \in Nat /\ TrampolineSize \in Nat /\ b.end \in Tr .. Tr + TrampolineSize /\ b.ok \in BOOLEAN
  BY ConstantTypes DEF BufOK
<1>2. CASE b.ok /\ b.end + i.size <= Tr + TrampolineSize
  <2>. DEFINE t == Write(b.text, b.end, i)
  <2>1. c = [ok |-> TRUE, end |-> b.end + i.size, text |-> t]
    BY <1>2 DEF ++, Emit
  <2>2. DOMAIN t = DOMAIN b.text \cup {b.end} /\ t = [x \in DOMAIN t |-> t[x]]
    BY DEF Write
  <2>3. t[b.end] = i /\ \A x \in DOMAIN b.text : x # b.end /\ x \in Int /\ x >= Tr /\ t[x] = b.text[x]
    BY <1>1 DEF BufOK, Write
  <2>. HIDE DEF t
  <2>4. \A x \in DOMAIN t : x \in Tr .. b.end + i.size - 1 /\ t[x].size \in Nat /\ x + t[x].size <= b.end + i.size
    <3>. SUFFICES ASSUME NEW x \in DOMAIN t
                  PROVE  x \in Tr .. b.end + i.size - 1 /\ t[x].size \in Nat /\ x + t[x].size <= b.end + i.size
      OBVIOUS
    <3>1. CASE x = b.end
      BY <3>1, <2>3, <1>1
    <3>2. CASE x \in DOMAIN b.text
      <4>1. x \in Tr .. b.end - 1 /\ b.text[x].size \in Nat /\ x + b.text[x].size <= b.end /\ t[x] = b.text[x]
        BY <3>2, <2>3 DEF BufOK
      <4>. QED  BY <4>1, <1>1
    <3>. QED  BY <3>1, <3>2, <2>2
  <2>5. BufOK(c)
    <3>1. c.end \in Tr .. Tr + TrampolineSize /\ c.ok \in BOOLEAN
      BY <2>1, <1>1, <1>2
    <3>. QED  BY <3>1, <2>1, <2>2, <2>4 DEF BufOK
  <2>6. Kept(b.text, c.text, Tr)
    BY <2>1, <2>2, <2>3 DEF Kept, Holds
  <2>. QED  BY <2>1, <2>2, <2>3, <2>5, <2>6, <1>1, <1>2, SMT, Z3 DEF Emitted, Holds
<1>3. CASE ~ (b.ok /\ b.end + i.size <= Tr + TrampolineSize)
  <2>1. c = Refuse(b)
    BY <1>3 DEF ++, Emit
  <2>. QED  BY <2>1, EmittedSelf
<1>. QED  BY <1>2, <1>3

\* An instruction of a given size, as EmitOne says it.
LEMMA EmitInsn ==
    ASSUME NEW b, BufOK(b), NEW op, NEW size \in Nat \ {0}, NEW arg, NEW c, c = b ++ Insn(op, size, arg)
    PROVE  BufOK(c) /\ Emitted(b, c) /\ (c.ok => c.end = b.end + size /\ Holds(c.text, b.end, Insn(op, size, arg)))
PROOF
<1>1. Insn(op, size, arg).size = size
  BY InsnFields
<1>2. Emitted(b, c) /\ (c.ok => c.end = b.end + Insn(op, size, arg).size /\ Holds(c.text, b.end, Insn(op, size, arg)))
  BY <1>1, EmitOne
<1>. QED  BY <1>1, <1>2 DEF Emitted

\* An instruction in the buffer stays there.
LEMMA HoldsKept ==
    ASSUME NEW b, NEW c, BufOK(b), Emitted(b, c), c.ok, NEW x, NEW i, Holds(b.text, x, i)
    PROVE  Holds(c.text, x, i) /\ x >= Tr /\ x \in Int
  BY ConstantTypes DEF Emitted, Kept, Holds, BufOK
-----------------------------------------------------------------------------
(* What the emitters emit.                                                 *)

\* What zt_rewrite_rel_jmp emits.
LEMMA X86AbsJmpFacts ==
    ASSUME NEW b, BufOK(b), NEW to, NEW d, d = X86AbsJmp(b, to)
    PROVE  /\ BufOK(d) /\ Emitted(b, d)
           /\ d.ok => /\ Holds(d.text, b.end, Insn("movabs", 10, to)) /\ Holds(d.text, b.end + 10, Insn("jmptmp", 3, 0))
                      /\ d.end = b.end + 13
PROOF
<1>. DEFINE c == b ++ Insn("movabs", 10, to)
<1>1. BufOK(c) /\ Emitted(b, c) /\ (c.ok => c.end = b.end + 10 /\ Holds(c.text, b.end, Insn("movabs", 10, to)))
  BY EmitInsn
<1>. HIDE DEF c
<1>2. d = c ++ Insn("jmptmp", 3, 0)
  BY DEF X86AbsJmp, c
<1>3. BufOK(d) /\ Emitted(c, d) /\ (d.ok => d.end = c.end + 3 /\ Holds(d.text, c.end, Insn("jmptmp", 3, 0)))
  BY <1>1, <1>2, EmitInsn
<1>4. Emitted(b, d)
  BY <1>1, <1>3, EmittedTrans
<1>5. d.ok => c.ok
  BY <1>3 DEF Emitted
<1>6. d.ok => Holds(d.text, b.end, Insn("movabs", 10, to))
  BY <1>1, <1>3, <1>5, HoldsKept
<1>7. b.end \in Int
  BY ConstantTypes DEF BufOK
<1>8. d.ok => d.end = b.end + 13
  BY <1>1, <1>3, <1>5, <1>7
<1>. QED  BY <1>1, <1>3, <1>4, <1>5, <1>6, <1>8

\* What zt_rewrite_rel_call emits.
LEMMA X86AbsCallFacts ==
    ASSUME NEW b, BufOK(b), NEW to, NEW f, f = X86AbsCall(b, to)
    PROVE  /\ BufOK(f) /\ Emitted(b, f)
           /\ f.ok => /\ Holds(f.text, b.end, Insn("pushtmp", 2, 0)) /\ Holds(f.text, b.end + 2, Insn("movabs", 10, to))
                      /\ Holds(f.text, b.end + 12, Insn("calltmp", 3, 0)) /\ Holds(f.text, b.end + 15, Insn("poptmp", 2, 0))
                      /\ f.end = b.end + 17
PROOF
<1>. DEFINE c == b ++ Insn("pushtmp", 2, 0)
            d == c ++ Insn("movabs", 10, to)
            e == d ++ Insn("calltmp", 3, 0)
<1>1. BufOK(c) /\ Emitted(b, c) /\ (c.ok => c.end = b.end + 2 /\ Holds(c.text, b.end, Insn("pushtmp", 2, 0)))
  BY EmitInsn
<1>. HIDE DEF c
<1>2. BufOK(d) /\ Emitted(c, d) /\ (d.ok => d.end = c.end + 10 /\ Holds(d.text, c.end, Insn("movabs", 10, to)))
  BY <1>1, EmitInsn
<1>. HIDE DEF d
<1>3. BufOK(e) /\ Emitted(d, e) /\ (e.ok => e.end = d.end + 3 /\ Holds(e.text, d.end, Insn("calltmp", 3, 0)))
  BY <1>2, EmitInsn
<1>. HIDE DEF e
<1>4. f = e ++ Insn("poptmp", 2, 0)
  BY DEF X86AbsCall, c, d, e
<1>5. BufOK(f) /\ Emitted(e, f) /\ (f.ok => f.end = e.end + 2 /\ Holds(f.text, e.end, Insn("poptmp", 2, 0)))
  BY <1>3, <1>4, EmitInsn
<1>6. Emitted(d, f)
  BY <1>2, <1>3, <1>5, EmittedTrans
<1>7. Emitted(c, f)
  BY <1>1, <1>2, <1>6, EmittedTrans
<1>8. Emitted(b, f)
  BY <1>1, <1>7, EmittedTrans
<1>9. f.ok => e.ok /\ d.ok /\ c.ok
  BY <1>5, <1>6, <1>7 DEF Emitted
<1>10. f.ok => /\ Holds(f.text, b.end, Insn("pushtmp", 2, 0)) /\ Holds(f.text, c.end, Insn("movabs", 10, to))
               /\ Holds(f.text, d.end, Insn("calltmp", 3, 0))
  BY <1>1, <1>2, <1>3, <1>5, <1>6, <1>7, <1>9, HoldsKept
<1>11. b.end \in Int
  BY ConstantTypes DEF BufOK
<1>12. f.ok => c.end = b.end + 2 /\ d.end = b.end + 12 /\ e.end = b.end + 15 /\ f.end = b.end + 17
  BY <1>1, <1>2, <1>3, <1>5, <1>9, <1>11, SMT, Z3
<1>. QED  BY <1>5, <1>8, <1>10, <1>12

\* What zt_emit_relocated_orig_code emits for an instruction, on x86_64.
LEMMA X86InsnFacts ==
    ASSUME NEW b, BufOK(b), NEW a \in Nat, NEW i, IsInsn(i), NEW c, c = X86Insn(b, a, i)
    PROVE  /\ BufOK(c) /\ Emitted(b, c)
           /\ c.ok => X86Copy(c.text, i, a, b.end, c.end) /\ b.end < c.end
PROOF
<1>. DEFINE to == Target(a, i)
<1>1. b.end \in Int /\ i.size \in Nat \ {0}
  BY ConstantTypes DEF BufOK, IsInsn
<1>2. CASE i.op = "call"
  <2>1. c = X86AbsCall(b, to)
    BY <1>2 DEF X86Insn, X86Conditional
  <2>2. /\ BufOK(c) /\ Emitted(b, c)
        /\ c.ok => /\ Holds(c.text, b.end, Insn("pushtmp", 2, 0)) /\ Holds(c.text, b.end + 2, Insn("movabs", 10, to))
                   /\ Holds(c.text, b.end + 12, Insn("calltmp", 3, 0)) /\ Holds(c.text, b.end + 15, Insn("poptmp", 2, 0))
                   /\ c.end = b.end + 17
    BY <2>1, X86AbsCallFacts
  <2>. QED  BY <2>2, <1>1, <1>2 DEF X86Copy
<1>3. CASE i.op = "jmp"
  <2>1. c = X86AbsJmp(b, to)
    BY <1>3 DEF X86Insn, X86Conditional
  <2>2. /\ BufOK(c) /\ Emitted(b, c)
        /\ c.ok => /\ Holds(c.text, b.end, Insn("movabs", 10, to)) /\ Holds(c.text, b.end + 10, Insn("jmptmp", 3, 0))
                   /\ c.end = b.end + 13
    BY <2>1, X86AbsJmpFacts
  <2>. QED  BY <2>2, <1>1, <1>3 DEF X86Copy
<1>4. CASE i.op = "jcc"
  <2>. DEFINE d == b ++ Insn("jncc", 2, 13)
  <2>1. BufOK(d) /\ Emitted(b, d) /\ (d.ok => d.end = b.end + 2 /\ Holds(d.text, b.end, Insn("jncc", 2, 13)))
    BY EmitInsn
  <2>2. c = X86AbsJmp(d, to)
    BY <1>4 DEF X86Insn, X86Conditional, X86CondJmp, X86HasInverse
  <2>. HIDE DEF d
  <2>3. /\ BufOK(c) /\ Emitted(d, c)
        /\ c.ok => /\ Holds(c.text, d.end, Insn("movabs", 10, to)) /\ Holds(c.text, d.end + 10, Insn("jmptmp", 3, 0))
                   /\ c.end = d.end + 13
    BY <2>1, <2>2, X86AbsJmpFacts
  <2>4. Emitted(b, c)
    BY <2>1, <2>3, EmittedTrans
  <2>5. c.ok => d.ok
    BY <2>3 DEF Emitted
  <2>6. c.ok => Holds(c.text, b.end, Insn("jncc", 2, 13))
    BY <2>1, <2>3, <2>5, HoldsKept
  <2>7. c.ok => d.end = b.end + 2 /\ d.end + 10 = b.end + 12 /\ c.end = b.end + 15
    BY <2>1, <2>3, <2>5, <1>1
  <2>. QED  BY <2>3, <2>4, <2>6, <2>7, <1>1, <1>4 DEF X86Copy
<1>5. CASE i.op = "jrcxz"
  <2>1. c = Refuse(b)
    BY <1>5 DEF X86Insn, X86Conditional, X86CondJmp, X86HasInverse
  <2>. QED  BY <2>1, EmittedSelf DEF Emitted
<1>6. CASE i.op = "mem"
  <2>. DEFINE disp == to - (b.end + i.size)
  <2>1. c = IF FitsDisp32(disp) THEN b ++ Insn("mem", i.size, disp) ELSE Refuse(b)
    BY <1>6 DEF X86Insn, X86Conditional, X86Rebase
  <2>. HIDE DEF disp
  <2>2. CASE FitsDisp32(disp)
    <3>1. BufOK(c) /\ Emitted(b, c) /\ (c.ok => c.end = b.end + i.size /\ Holds(c.text, b.end, Insn("mem", i.size, disp)))
      BY <2>1, <2>2, <1>1, EmitInsn
    <3>. QED  BY <3>1, <1>1, <1>6 DEF X86Copy, disp
  <2>3. CASE ~ FitsDisp32(disp)
    BY <2>1, <2>3, EmittedSelf DEF Emitted
  <2>. QED  BY <2>2, <2>3
<1>7. CASE i.op \notin {"call", "jmp", "jcc", "jrcxz", "mem"}
  <2>1. c = b ++ i
    BY <1>7 DEF X86Insn, X86Conditional
  <2>2. Emitted(b, c) /\ (c.ok => c.end = b.end + i.size /\ Holds(c.text, b.end, i))
    BY <2>1, <1>1, EmitOne
  <2>. QED  BY <2>2, <1>1, <1>7 DEF X86Copy, Emitted
<1>. QED  BY <1>2, <1>3, <1>4, <1>5, <1>6, <1>7

\* What MovAbs emitted is still there when more was emitted.
LEMMA MovsKept ==
    ASSUME NEW t, NEW u, NEW s \in Int, NEW lo \in Int, lo <= s, NEW reg, NEW v, Movs(t, s, reg, v), Kept(t, u, lo)
    PROVE  Movs(u, s, reg, v)
PROOF
<1>1. Holds(u, s, Move("movz", reg, 0, Halfword(v, 0)))
  BY DEF Movs, Kept, Holds
<1>2. ASSUME NEW h \in 1 .. 3, Halfword(v, h) # 0
      PROVE  Holds(u, MovAt(s, v, h), Move("movk", reg, h, Halfword(v, h)))
  <2>1. MovAt(s, v, h) \in Int /\ MovAt(s, v, h) >= s + 4
    BY MovAtFacts
  <2>2. Holds(t, MovAt(s, v, h), Move("movk", reg, h, Halfword(v, h)))
    BY <1>2 DEF Movs
  <2>. QED  BY <2>1, <2>2 DEF Kept, Holds
<1>. QED  BY <1>1, <1>2 DEF Movs

\* One round of the loop in zt_emit_mov_abs.
LEMMA MovkEmitted ==
    ASSUME NEW b, BufOK(b), NEW reg, NEW v, NEW h \in 1 .. 3, NEW c,
           c = IF Halfword(v, h) = 0 THEN b ELSE b ++ Move("movk", reg, h, Halfword(v, h))
    PROVE  /\ BufOK(c) /\ Emitted(b, c)
           /\ c.ok => /\ c.end = b.end + Skip(v, h)
                      /\ Halfword(v, h) # 0 => Holds(c.text, b.end, Move("movk", reg, h, Halfword(v, h)))
PROOF
<1>1. CASE Halfword(v, h) = 0
  <2>1. b.end \in Int
    BY ConstantTypes DEF BufOK
  <2>. QED  BY <1>1, <2>1, EmittedSelf DEF Skip
<1>2. CASE Halfword(v, h) # 0
  <2>. DEFINE i == Move("movk", reg, h, Halfword(v, h))
  <2>1. i.size = 4
    BY MoveFields
  <2>2. c = b ++ i
    BY <1>2
  <2>. HIDE DEF i
  <2>3. Emitted(b, c) /\ (c.ok => c.end = b.end + i.size /\ Holds(c.text, b.end, i))
    BY <2>1, <2>2, EmitOne
  <2>. QED  BY <2>1, <2>3, <1>2 DEF i, Skip, Emitted
<1>. QED  BY <1>1, <1>2

\* zt_emit_mov_abs and zt_mov_abs_size agree.
LEMMA MovAbsFacts ==
    ASSUME NEW b, BufOK(b), NEW reg, NEW v, NEW f, f = MovAbs(b, reg, v)
    PROVE  /\ BufOK(f) /\ Emitted(b, f)
           /\ f.ok => Movs(f.text, b.end, reg, v) /\ f.end = MovAt(b.end, v, 4) /\ b.end < f.end
PROOF
<1>. DEFINE movk(x, h) == IF Halfword(v, h) = 0 THEN x ELSE x ++ Move("movk", reg, h, Halfword(v, h))
            i == Move("movz", reg, 0, Halfword(v, 0))
            c == b ++ i
            d == movk(c, 1)
            e == movk(d, 2)
<1>0. f = movk(e, 3)
  BY DEF MovAbs
<1>1. b.end \in Int /\ i.size = 4
  BY MoveFields, SMT, Z3 DEF BufOK
<1>. HIDE DEF i
<1>2. Emitted(b, c) /\ (c.ok => c.end = b.end + i.size /\ Holds(c.text, b.end, i))
  BY <1>1, EmitOne
<1>3. BufOK(c)
  BY <1>2 DEF Emitted
<1>. HIDE DEF c
<1>4. /\ BufOK(d) /\ Emitted(c, d)
      /\ d.ok => /\ d.end = c.end + Skip(v, 1)
                 /\ Halfword(v, 1) # 0 => Holds(d.text, c.end, Move("movk", reg, 1, Halfword(v, 1)))
  BY <1>3, MovkEmitted
<1>. HIDE DEF d
<1>5. /\ BufOK(e) /\ Emitted(d, e)
      /\ e.ok => /\ e.end = d.end + Skip(v, 2)
                 /\ Halfword(v, 2) # 0 => Holds(e.text, d.end, Move("movk", reg, 2, Halfword(v, 2)))
  BY <1>4, MovkEmitted
<1>. HIDE DEF e
<1>6. /\ BufOK(f) /\ Emitted(e, f)
      /\ f.ok => /\ f.end = e.end + Skip(v, 3)
                 /\ Halfword(v, 3) # 0 => Holds(f.text, e.end, Move("movk", reg, 3, Halfword(v, 3)))
  BY <1>0, <1>5, MovkEmitted, SMT, Z3
<1>. HIDE DEF movk
<1>7. Emitted(d, f)
  BY <1>4, <1>5, <1>6, EmittedTrans
<1>8. Emitted(c, f)
  BY <1>3, <1>4, <1>7, EmittedTrans
<1>9. Emitted(b, f)
  BY <1>2, <1>8, EmittedTrans
<1>10. SUFFICES ASSUME f.ok
                PROVE  Movs(f.text, b.end, reg, v) /\ f.end = MovAt(b.end, v, 4) /\ b.end < f.end
  BY <1>6, <1>9
<1>11. c.ok /\ d.ok /\ e.ok
  BY <1>6, <1>7, <1>8, <1>10 DEF Emitted
<1>12. Skip(v, 1) \in {0, 4} /\ Skip(v, 2) \in {0, 4} /\ Skip(v, 3) \in {0, 4}
  BY DEF Skip
<1>13. c.end = MovAt(b.end, v, 1) /\ d.end = MovAt(b.end, v, 2) /\ e.end = MovAt(b.end, v, 3) /\ f.end = MovAt(b.end, v, 4)
  <2>1. c.end = b.end + 4
    BY <1>1, <1>2, <1>11
  <2>2. d.end = b.end + 4 + Skip(v, 1)
    BY <2>1, <1>4, <1>11
  <2>3. e.end = b.end + 4 + Skip(v, 1) + Skip(v, 2)
    BY <2>2, <1>5, <1>11
  <2>4. f.end = b.end + 4 + Skip(v, 1) + Skip(v, 2) + Skip(v, 3)
    BY <2>3, <1>6, <1>10
  <2>. QED  BY <2>1, <2>2, <2>3, <2>4 DEF MovAt
<1>14. Holds(f.text, b.end, i)
  BY <1>2, <1>3, <1>8, <1>10, <1>11, HoldsKept
<1>15. Halfword(v, 1) # 0 => Holds(f.text, MovAt(b.end, v, 1), Move("movk", reg, 1, Halfword(v, 1)))
  BY <1>4, <1>7, <1>10, <1>11, <1>13, HoldsKept
<1>16. Halfword(v, 2) # 0 => Holds(f.text, MovAt(b.end, v, 2), Move("movk", reg, 2, Halfword(v, 2)))
  BY <1>5, <1>6, <1>10, <1>11, <1>13, HoldsKept, SMT, Z3
<1>17. Halfword(v, 3) # 0 => Holds(f.text, MovAt(b.end, v, 3), Move("movk", reg, 3, Halfword(v, 3)))
  BY <1>6, <1>10, <1>13
<1>18. \A h \in 1 .. 3 : Halfword(v, h) # 0 => Holds(f.text, MovAt(b.end, v, h), Move("movk", reg, h, Halfword(v, h)))
  <2>1. \A h \in 1 .. 3 : h = 1 \/ h = 2 \/ h = 3
    OBVIOUS
  <2>. QED  BY <2>1, <1>15, <1>16, <1>17, Zenon
<1>19. Movs(f.text, b.end, reg, v)
  BY <1>14, <1>18 DEF Movs, i
<1>20. b.end < MovAt(b.end, v, 4)
  BY <1>1, MovAtFacts
<1>. QED  BY <1>13, <1>19, <1>20

\* MovAbs and then an instruction through the register: zt_emit_abs_branch and
\* zt_emit_abs_call.
LEMMA A64AbsFacts ==
    ASSUME NEW b, BufOK(b), NEW reg, NEW v, NEW op, NEW d, d = MovAbs(b, reg, v) ++ Insn(op, 4, 0)
    PROVE  /\ BufOK(d) /\ Emitted(b, d)
           /\ d.ok => /\ Movs(d.text, b.end, reg, v) /\ Holds(d.text, MovAt(b.end, v, 4), Insn(op, 4, 0))
                      /\ d.end = MovAt(b.end, v, 4) + 4 /\ b.end < d.end
PROOF
<1>. DEFINE c == MovAbs(b, reg, v)
<1>1. /\ BufOK(c) /\ Emitted(b, c)
      /\ c.ok => Movs(c.text, b.end, reg, v) /\ c.end = MovAt(b.end, v, 4) /\ b.end < c.end
  BY MovAbsFacts
<1>. HIDE DEF c
<1>2. d = c ++ Insn(op, 4, 0)
  BY DEF c
<1>3. BufOK(d) /\ Emitted(c, d) /\ (d.ok => d.end = c.end + 4 /\ Holds(d.text, c.end, Insn(op, 4, 0)))
  BY <1>1, <1>2, EmitInsn
<1>4. Emitted(b, d)
  BY <1>1, <1>3, EmittedTrans
<1>5. SUFFICES ASSUME d.ok
               PROVE  /\ Movs(d.text, b.end, reg, v) /\ Holds(d.text, MovAt(b.end, v, 4), Insn(op, 4, 0))
                      /\ d.end = MovAt(b.end, v, 4) + 4 /\ b.end < d.end
  BY <1>3, <1>4
<1>6. c.ok /\ Kept(c.text, d.text, Tr)
  BY <1>3, <1>5 DEF Emitted
<1>7. b.end \in Int /\ Tr \in Int /\ Tr <= b.end /\ c.end \in Int
  BY <1>1, ConstantTypes, SMT, Z3 DEF BufOK
<1>8. Movs(d.text, b.end, reg, v)
  BY <1>1, <1>6, <1>7, MovsKept
<1>. QED  BY <1>1, <1>3, <1>5, <1>6, <1>7, <1>8, SMT, Z3

\* What zt_emit_relocated_insn emits for an instruction, on aarch64.
LEMMA A64InsnFacts ==
    ASSUME NEW b, BufOK(b), NEW a \in Nat, NEW i, IsInsn(i), NEW c, c = A64Insn(b, a, i)
    PROVE  /\ BufOK(c) /\ Emitted(b, c)
           /\ c.ok => A64Copy(c.text, i, a, b.end, c.end) /\ b.end < c.end
PROOF
<1>. DEFINE v == Target(a, i)
<1>1. b.end \in Int /\ Tr \in Int /\ Tr <= b.end /\ i.size \in Nat \ {0}
  BY ConstantTypes DEF BufOK, IsInsn
<1>2. CASE i.op = "adr"
  <2>1. c = MovAbs(b, "rd", v)
    BY <1>2 DEF A64Insn
  <2>2. /\ BufOK(c) /\ Emitted(b, c)
        /\ c.ok => Movs(c.text, b.end, "rd", v) /\ c.end = MovAt(b.end, v, 4) /\ b.end < c.end
    BY <2>1, MovAbsFacts
  <2>. QED  BY <2>2, <1>2 DEF A64Copy
<1>3. CASE i.op = "call"
  <2>1. c = MovAbs(b, "tmp", v) ++ Insn("calltmp", 4, 0)
    BY <1>3 DEF A64Insn, A64AbsCall
  <2>2. /\ BufOK(c) /\ Emitted(b, c)
        /\ c.ok => /\ Movs(c.text, b.end, "tmp", v) /\ Holds(c.text, MovAt(b.end, v, 4), Insn("calltmp", 4, 0))
                   /\ c.end = MovAt(b.end, v, 4) + 4 /\ b.end < c.end
    BY <2>1, A64AbsFacts
  <2>. QED  BY <2>2, <1>3 DEF A64Copy
<1>4. CASE i.op = "jmp"
  <2>1. c = MovAbs(b, "tmp", v) ++ Insn("jmptmp", 4, 0)
    BY <1>4 DEF A64Insn, A64AbsBranch
  <2>2. /\ BufOK(c) /\ Emitted(b, c)
        /\ c.ok => /\ Movs(c.text, b.end, "tmp", v) /\ Holds(c.text, MovAt(b.end, v, 4), Insn("jmptmp", 4, 0))
                   /\ c.end = MovAt(b.end, v, 4) + 4 /\ b.end < c.end
    BY <2>1, A64AbsFacts
  <2>. QED  BY <2>2, <1>4 DEF A64Copy
<1>5. CASE i.op = "jcc"
  <2>. DEFINE skip == 4 + MovAbsSize(v) + 4
              d == b ++ Insn("jncc", 4, skip - 4)
  <2>1. c = MovAbs(d, "tmp", v) ++ Insn("jmptmp", 4, 0)
    BY <1>5 DEF A64Insn, A64CondBranch, A64AbsBranch
  <2>2. BufOK(d) /\ Emitted(b, d) /\ (d.ok => d.end = b.end + 4 /\ Holds(d.text, b.end, Insn("jncc", 4, skip - 4)))
    BY EmitInsn, SMT, Z3
  <2>. HIDE DEF d, skip
  <2>3. /\ BufOK(c) /\ Emitted(d, c)
        /\ c.ok => /\ Movs(c.text, d.end, "tmp", v) /\ Holds(c.text, MovAt(d.end, v, 4), Insn("jmptmp", 4, 0))
                   /\ c.end = MovAt(d.end, v, 4) + 4 /\ d.end < c.end
    BY <2>1, <2>2, A64AbsFacts
  <2>4. Emitted(b, c)
    BY <2>2, <2>3, EmittedTrans
  <2>5. c.ok => d.ok
    BY <2>3 DEF Emitted
  <2>6. c.ok => Holds(c.text, b.end, Insn("jncc", 4, skip - 4)) /\ d.end = b.end + 4
    BY <2>2, <2>3, <2>5, HoldsKept
  <2>7. b.end + 4 \in Int /\ MovAbsSize(v) \in Int /\ MovAt(b.end + 4, v, 4) = b.end + 4 + MovAbsSize(v)
    <3>1. b.end + 4 \in Int
      BY <1>1
    <3>2. MovAt(b.end + 4, v, 4) = b.end + 4 + MovAbsSize(v)
      BY <3>1, MovAtFacts
    <3>3. MovAbsSize(v) \in Int
      BY DEF MovAbsSize
    <3>. QED  BY <3>1, <3>2, <3>3
  <2>8. c.ok => c.end - (b.end + 4) = skip - 4 /\ b.end < c.end
    BY <2>3, <2>6, <2>7, <1>1 DEF skip
  <2>. QED  BY <2>3, <2>4, <2>6, <2>8, <1>5 DEF A64Copy
<1>6. CASE i.op = "ldr"
  <2>1. c = Refuse(b)
    BY <1>6 DEF A64Insn
  <2>. QED  BY <2>1, EmittedSelf DEF Emitted
<1>7. CASE i.op \notin {"adr", "call", "jmp", "jcc", "ldr"}
  <2>1. c = b ++ i
    BY <1>7 DEF A64Insn
  <2>2. Emitted(b, c) /\ (c.ok => c.end = b.end + i.size /\ Holds(c.text, b.end, i))
    BY <2>1, <1>1, EmitOne
  <2>. QED  BY <2>2, <1>1, <1>7 DEF A64Copy, Emitted
<1>. QED  BY <1>2, <1>3, <1>4, <1>5, <1>6, <1>7

\* A copy stays when what lies from its start on stays.
LEMMA CopyKept ==
    ASSUME NEW t, NEW u, NEW i, NEW a, NEW s \in Int, NEW e, Kept(t, u, s), CopyOf(t, i, a, s, e)
    PROVE  CopyOf(u, i, a, s, e)
PROOF
<1>1. CASE isa = "x86_64"
  <2>1. \A x \in Int : \A j : x >= s /\ Holds(t, x, j) => Holds(u, x, j)
    BY DEF Kept, Holds
  <2>2. s >= s /\ s + 2 >= s /\ s + 10 >= s /\ s + 12 >= s /\ s + 15 >= s
    OBVIOUS
  <2>3. X86Copy(t, i, a, s, e)
    BY <1>1 DEF CopyOf
  <2>4. X86Copy(u, i, a, s, e)
    <3>1. CASE i.op = "call"
      BY <3>1, <2>1, <2>2, <2>3 DEF X86Copy
    <3>2. CASE i.op = "jmp"
      BY <3>2, <2>1, <2>2, <2>3 DEF X86Copy
    <3>3. CASE i.op = "jcc"
      BY <3>3, <2>1, <2>2, <2>3 DEF X86Copy
    <3>4. CASE i.op = "mem"
      BY <3>4, <2>1, <2>2, <2>3 DEF X86Copy
    <3>5. CASE i.op \notin {"call", "jmp", "jcc", "mem"}
      BY <3>5, <2>1, <2>2, <2>3 DEF X86Copy
    <3>. QED  BY <3>1, <3>2, <3>3, <3>4, <3>5
  <2>. QED  BY <2>4, <1>1 DEF CopyOf
<1>2. CASE isa # "x86_64"
  <2>. DEFINE v == Target(a, i)
  <2>1. \A x \in Int : \A j : x >= s /\ Holds(t, x, j) => Holds(u, x, j)
    BY DEF Kept, Holds
  <2>2. /\ MovAt(s, v, 4) \in Int /\ MovAt(s, v, 4) >= s
        /\ MovAt(s + 4, v, 4) \in Int /\ MovAt(s + 4, v, 4) >= s
    <3>1. s + 4 \in Int
      OBVIOUS
    <3>2. MovAt(s, v, 4) \in Int /\ MovAt(s, v, 4) >= s + 4
      BY MovAtFacts
    <3>3. MovAt(s + 4, v, 4) \in Int /\ MovAt(s + 4, v, 4) >= s + 4 + 4
      BY <3>1, MovAtFacts
    <3>. QED  BY <3>1, <3>2, <3>3
  <2>3. \A reg : Movs(t, s, reg, v) => Movs(u, s, reg, v)
    BY MovsKept
  <2>4. \A reg : Movs(t, s + 4, reg, v) => Movs(u, s + 4, reg, v)
    BY MovsKept
  <2>5. A64Copy(t, i, a, s, e)
    BY <1>2 DEF CopyOf
  <2>6. A64Copy(u, i, a, s, e)
    <3>1. CASE i.op = "adr"
      BY <3>1, <2>3, <2>5 DEF A64Copy
    <3>2. CASE i.op = "call"
      BY <3>2, <2>1, <2>2, <2>3, <2>5 DEF A64Copy
    <3>3. CASE i.op = "jmp"
      BY <3>3, <2>1, <2>2, <2>3, <2>5 DEF A64Copy
    <3>4. CASE i.op = "jcc"
      BY <3>4, <2>1, <2>2, <2>4, <2>5, SMT, Z3 DEF A64Copy
    <3>5. CASE i.op \notin {"adr", "call", "jmp", "jcc"}
      BY <3>5, <2>1, <2>5 DEF A64Copy
    <3>. QED  BY <3>1, <3>2, <3>3, <3>4, <3>5
  <2>. QED  BY <2>6, <1>2 DEF CopyOf
<1>. QED  BY <1>1, <1>2

\* The prefix.
LEMMA EmptyOK == BufOK(Empty) /\ Empty.end = Tr
PROOF
<1>1. Empty = [ok |-> TRUE, end |-> Tr, text |-> [a \in {} |-> 0]]
  BY DEF Empty
<1>2. DOMAIN Empty.text = {} /\ Empty.text = [x \in DOMAIN Empty.text |-> Empty.text[x]]
  BY <1>1
<1>3. Tr \in Tr .. Tr + TrampolineSize
  BY ConstantTypes
<1>. QED  BY <1>1, <1>2, <1>3 DEF BufOK

\* The prefix on x86_64.
LEMMA X86PrefixFacts ==
    ASSUME NEW e, e = X86Prefix
    PROVE  BufOK(e) /\ (e.ok => X86PrefixAt(e.text) /\ e.end = Tr + 16)
PROOF
<1>. DEFINE c == Empty ++ Insn("pushid", 5, ProbeId)
            d == c ++ Insn("calli", 6, 0)
<1>1. BufOK(c) /\ (c.ok => c.end = Tr + 5 /\ Holds(c.text, Tr, Insn("pushid", 5, ProbeId)))
  BY EmptyOK, EmitInsn
<1>. HIDE DEF c
<1>2. BufOK(d) /\ Emitted(c, d) /\ (d.ok => d.end = c.end + 6 /\ Holds(d.text, c.end, Insn("calli", 6, 0)))
  BY <1>1, EmitInsn
<1>. HIDE DEF d
<1>3. e = d ++ Insn("drop", 5, 0)
  BY DEF X86Prefix, c, d
<1>4. BufOK(e) /\ Emitted(d, e) /\ (e.ok => e.end = d.end + 5 /\ Holds(e.text, d.end, Insn("drop", 5, 0)))
  BY <1>2, <1>3, EmitInsn
<1>5. Emitted(c, e)
  BY <1>1, <1>2, <1>4, EmittedTrans
<1>6. SUFFICES ASSUME e.ok PROVE X86PrefixAt(e.text) /\ e.end = Tr + 16
  BY <1>4
<1>7. c.ok /\ d.ok
  BY <1>4, <1>5, <1>6 DEF Emitted
<1>8. c.end = Tr + 5 /\ d.end = Tr + 11 /\ e.end = Tr + 16
  BY <1>1, <1>2, <1>4, <1>6, <1>7, ConstantTypes, SMT, Z3
<1>9. Holds(e.text, Tr, Insn("pushid", 5, ProbeId)) /\ Holds(e.text, Tr + 5, Insn("calli", 6, 0))
  BY <1>1, <1>2, <1>4, <1>6, <1>7, HoldsKept, SMT, Z3
<1>10. Holds(e.text, Tr + 11, Insn("drop", 5, 0))
  BY <1>4, <1>6, <1>8
<1>11. Insn("calli", 6, 0).arg = 0
  BY InsnFields
<1>. QED  BY <1>8, <1>9, <1>10, <1>11 DEF X86PrefixAt, Holds

\* The prefix on aarch64.
LEMMA A64PrefixFacts ==
    ASSUME NEW f, f = A64Prefix
    PROVE  BufOK(f) /\ (f.ok => A64PrefixAt(f.text) /\ f.end = CallAt + 8)
PROOF
<1>. DEFINE b == Empty ++ Insn("savelr", 4, 0)
            c == MovAbs(b, "x17", ProbeId)
            d == MovAbs(c, "tmp", EntryStub) ++ Insn("calltmp", 4, 0)
<1>1. BufOK(b) /\ (b.ok => b.end = IdAt /\ Holds(b.text, Tr, Insn("savelr", 4, 0)))
  BY EmptyOK, EmitInsn, SMT, Z3 DEF IdAt
<1>. HIDE DEF b
<1>2. /\ BufOK(c) /\ Emitted(b, c)
      /\ c.ok => Movs(c.text, b.end, "x17", ProbeId) /\ c.end = MovAt(b.end, ProbeId, 4) /\ b.end < c.end
  BY <1>1, MovAbsFacts
<1>. HIDE DEF c
<1>3. /\ BufOK(d) /\ Emitted(c, d)
      /\ d.ok => /\ Movs(d.text, c.end, "tmp", EntryStub) /\ Holds(d.text, MovAt(c.end, EntryStub, 4), Insn("calltmp", 4, 0))
                 /\ d.end = MovAt(c.end, EntryStub, 4) + 4 /\ c.end < d.end
  BY <1>2, A64AbsFacts
<1>. HIDE DEF d
<1>4. f = d ++ Insn("restorelr", 4, 0)
  BY DEF A64Prefix, A64AbsCall, b, c, d
<1>5. BufOK(f) /\ Emitted(d, f) /\ (f.ok => f.end = d.end + 4 /\ Holds(f.text, d.end, Insn("restorelr", 4, 0)))
  BY <1>3, <1>4, EmitInsn
<1>6. Emitted(c, f)
  BY <1>2, <1>3, <1>5, EmittedTrans
<1>7. Emitted(b, f)
  BY <1>1, <1>2, <1>6, EmittedTrans
<1>8. SUFFICES ASSUME f.ok PROVE A64PrefixAt(f.text) /\ f.end = CallAt + 8
  BY <1>5
<1>9. b.ok /\ c.ok /\ d.ok /\ Kept(c.text, f.text, Tr) /\ Kept(d.text, f.text, Tr)
  BY <1>5, <1>6, <1>7, <1>8 DEF Emitted
<1>10. b.end = IdAt /\ c.end = StubAt /\ d.end = CallAt + 4
  BY <1>1, <1>2, <1>3, <1>9 DEF StubAt, CallAt
<1>11. Tr \in Int /\ IdAt \in Int /\ Tr <= IdAt /\ StubAt \in Int /\ Tr <= StubAt /\ CallAt \in Int
  <2>1. Tr \in Int /\ IdAt \in Int /\ Tr <= IdAt
    BY ConstantTypes DEF IdAt
  <2>2. StubAt \in Int /\ StubAt >= IdAt + 4
    BY <2>1, MovAtFacts DEF StubAt
  <2>3. CallAt \in Int
    BY <2>2, MovAtFacts DEF CallAt
  <2>. QED  BY <2>1, <2>2, <2>3
<1>12. Movs(f.text, IdAt, "x17", ProbeId)
  BY <1>2, <1>9, <1>10, <1>11, MovsKept
<1>13. Movs(f.text, StubAt, "tmp", EntryStub)
  BY <1>3, <1>9, <1>10, <1>11, MovsKept
<1>14. Holds(f.text, Tr, Insn("savelr", 4, 0)) /\ Holds(f.text, CallAt, Insn("calltmp", 4, 0))
  BY <1>1, <1>3, <1>5, <1>7, <1>8, <1>9, <1>10, HoldsKept DEF CallAt
<1>15. Holds(f.text, CallAt + 4, Insn("restorelr", 4, 0)) /\ f.end = CallAt + 8
  BY <1>5, <1>8, <1>10, <1>11, SMT, Z3
<1>. QED  BY <1>12, <1>13, <1>14, <1>15 DEF A64PrefixAt
-----------------------------------------------------------------------------
(* The builder.                                                            *)

\* One round of the loop leads from an instruction to the end of the next one.
LEMMA LoopStep ==
    ASSUME IsText(isa, prog), isa \in {"x86_64", "aarch64"}, SpanOK, NEW t, NEW c, NEW st, NEW su, Laid(t, c, st, su), c < Fn + span
    PROVE  /\ c \in DOMAIN prog /\ End(c) \in Fn .. Fn + span
           /\ isa = "aarch64" => (End(c) - Fn) % 4 = 0
           /\ End(c) \in DOMAIN prog \/ \A b \in DOMAIN prog : End(b) <= End(c)
           /\ {a \in DOMAIN prog : a < End(c)} = {a \in DOMAIN prog : a < c} \cup {c}
PROOF
<1>1. c \in Int /\ span \in Int /\ Fn \in Int /\ Fn <= c
  BY ConstantTypes DEF Laid, SpanOK
<1>2. PICK z \in DOMAIN prog : Fn + span <= End(z) /\ (isa = "x86_64" => Fn + span = End(z))
  BY ConstantTypes, SMT, Z3 DEF SpanOK
<1>3. z \in Nat /\ End(z) \in Nat
  BY TextFacts
<1>4. c \in DOMAIN prog
  <2>1. ~ \A b \in DOMAIN prog : End(b) <= c
    BY <1>1, <1>2, <1>3
  <2>. QED  BY <2>1 DEF Laid
<1>5. /\ End(c) \in Nat /\ c < End(c) /\ (isa = "aarch64" => End(c) = c + 4)
      /\ End(c) \in DOMAIN prog \/ \A b \in DOMAIN prog : b <= c
  BY <1>4, TextFacts
<1>6. End(c) <= Fn + span
  <2>1. CASE isa = "x86_64"
    <3>1. z < c => End(z) <= c
      BY <1>4, TextFacts
    <3>2. c < z => End(c) <= z
      BY <1>4, TextFacts
    <3>3. z < End(z)
      BY TextFacts
    <3>. QED  BY <2>1, <3>1, <3>2, <3>3, <1>1, <1>2, <1>3, <1>5, SMT, Z3
  <2>2. CASE isa = "aarch64"
    <3>1. (c - Fn) % 4 = 0 /\ span % 4 = 0
      BY <2>2 DEF Laid, SpanOK
    <3>. QED  BY <3>1, <2>2, <1>1, <1>5
  <2>. QED  BY <2>1, <2>2
<1>7. isa = "aarch64" => (End(c) - Fn) % 4 = 0
  <2>1. isa = "aarch64" => (c - Fn) % 4 = 0
    BY DEF Laid
  <2>. QED  BY <2>1, <1>1, <1>5
<1>8. End(c) \in DOMAIN prog \/ \A b \in DOMAIN prog : End(b) <= End(c)
  <2>. SUFFICES ASSUME \A b \in DOMAIN prog : b <= c, NEW b \in DOMAIN prog PROVE End(b) <= End(c)
    BY <1>5
  <2>1. b \in Nat /\ End(b) \in Nat /\ (b < c => End(b) <= c)
    BY <1>4, TextFacts
  <2>. QED  BY <2>1, <1>1, <1>5
<1>9. ASSUME NEW a \in DOMAIN prog PROVE a < End(c) <=> a < c \/ a = c
  <2>1. a \in Nat /\ (c < a => End(c) <= a)
    BY <1>4, TextFacts, Zenon
  <2>. QED  BY <2>1, <1>1, <1>5
<1>. QED  BY <1>1, <1>4, <1>5, <1>6, <1>7, <1>8, <1>9, SMT, Z3

\* The loop keeps the copies in order.
LEMMA LaidStep ==
    ASSUME IsText(isa, prog), isa \in {"x86_64", "aarch64"}, SpanOK, NEW b, BufOK(b), NEW c, NEW st,
           Laid(b.text, c, st, b.end), c < Fn + span,
           NEW d, d = (IF isa = "x86_64" THEN X86Insn(b, c, prog[c]) ELSE A64Insn(b, c, prog[c])), d.ok
    PROVE  Laid(d.text, End(c), Write(st, c, b.end), d.end)
PROOF
<1>. DEFINE su == b.end
            f == Write(st, c, su)
            e(a) == LandingIn(c, st, su, End(a))
<1>1. /\ c \in DOMAIN prog /\ End(c) \in Fn .. Fn + span /\ (isa = "aarch64" => (End(c) - Fn) % 4 = 0)
      /\ End(c) \in DOMAIN prog \/ \A x \in DOMAIN prog : End(x) <= End(c)
      /\ {a \in DOMAIN prog : a < End(c)} = {a \in DOMAIN prog : a < c} \cup {c}
  BY LoopStep
<1>2. c \in Nat /\ End(c) \in Nat /\ c < End(c) /\ IsInsn(prog[c]) /\ Fn <= c /\ Fn \in Nat
  BY <1>1, TextFacts, ConstantTypes
<1>3. BufOK(d) /\ Emitted(b, d) /\ CopyOf(d.text, prog[c], c, su, d.end) /\ su < d.end
  <2>1. CASE isa = "x86_64"
    <3>1. BufOK(d) /\ Emitted(b, d) /\ (d.ok => X86Copy(d.text, prog[c], c, b.end, d.end) /\ b.end < d.end)
      BY <2>1, <1>2, X86InsnFacts
    <3>. QED  BY <3>1, <2>1 DEF CopyOf
  <2>2. CASE isa # "x86_64"
    <3>1. BufOK(d) /\ Emitted(b, d) /\ (d.ok => A64Copy(d.text, prog[c], c, b.end, d.end) /\ b.end < d.end)
      BY <2>2, <1>2, A64InsnFacts
    <3>. QED  BY <3>1, <2>2 DEF CopyOf
  <2>. QED  BY <2>1, <2>2
<1>4. su \in Nat /\ d.end \in Nat /\ Tr <= su /\ Tr \in Nat /\ Kept(b.text, d.text, Tr)
  BY <1>3, ConstantTypes, SMT, Z3 DEF BufOK, Emitted
<1>5. DOMAIN st = {a \in DOMAIN prog : a < c}
  BY DEF Laid
<1>6. DOMAIN f = {a \in DOMAIN prog : a < End(c)} /\ f = [a \in DOMAIN f |-> f[a]]
  BY <1>1, <1>5 DEF Write
<1>7. f[c] = su /\ \A a \in DOMAIN st : a # c /\ f[a] = st[a]
  BY <1>2, <1>5 DEF Write
<1>8. LandingIn(End(c), f, d.end, End(c)) = d.end
  BY DEF LandingIn
<1>. HIDE DEF f
<1>9. ASSUME NEW a \in DOMAIN st PROVE LandingIn(End(c), f, d.end, End(a)) = e(a)
  <2>1. a \in DOMAIN prog /\ a \in Nat /\ End(a) \in Nat /\ End(a) <= c
    BY <1>1, <1>5, TextFacts
  <2>2. End(a) # End(c)
    BY <2>1, <1>2, SMT, Z3
  <2>3. CASE End(a) = c
    BY <2>2, <2>3, <1>7 DEF LandingIn
  <2>4. CASE End(a) # c
    <3>1. End(a) \in DOMAIN prog
      <4>1. ~ (c <= a)
        BY <2>1, <1>2, <1>5
      <4>. QED  BY <4>1, <2>1, <1>1, TextFacts
    <3>2. End(a) \in DOMAIN st
      BY <3>1, <2>1, <2>4, <1>2, <1>5, SMT, Z3
    <3>. QED  BY <2>2, <2>4, <3>2, <1>7 DEF LandingIn
  <2>. QED  BY <2>3, <2>4
<1>10. ASSUME NEW a \in DOMAIN st
       PROVE  /\ st[a] \in Nat /\ e(a) \in Nat /\ PrefixEnd <= st[a] /\ st[a] < e(a) /\ e(a) <= su
              /\ CopyOf(b.text, prog[a], a, st[a], e(a))
  BY DEF Laid
<1>11. PrefixEnd <= su /\ PrefixAt(b.text) /\ LandingIn(c, st, su, Fn) = PrefixEnd
  BY DEF Laid
<1>12. PrefixEnd \in Nat /\ Tr <= PrefixEnd
  BY PrefixAddresses, <1>4
<1>13. LandingIn(End(c), f, d.end, Fn) = PrefixEnd /\ PrefixEnd <= d.end
  <2>1. Fn # End(c)
    BY <1>2
  <2>2. CASE Fn = c
    BY <2>1, <2>2, <1>3, <1>4, <1>7, <1>11, SMT, Z3 DEF LandingIn
  <2>3. CASE Fn # c
    <3>1. Fn \in DOMAIN st
      BY <2>3, <1>2, <1>5, TextFacts, SMT, Z3
    <3>. QED  BY <3>1, <2>1, <1>3, <1>4, <1>7, <1>11, <1>12, SMT, Z3 DEF LandingIn
  <2>. QED  BY <2>2, <2>3
<1>14. PrefixAt(d.text)
  <2>1. \A x, i : Holds(b.text, x, i) => Holds(d.text, x, i) /\ x >= Tr /\ x \in Int
    BY <1>3, HoldsKept
  <2>2. CASE isa = "x86_64"
    BY <2>1, <2>2, <1>11 DEF PrefixAt, X86PrefixAt, Holds
  <2>3. CASE isa # "x86_64"
    <3>1. IdAt \in Int /\ StubAt \in Int /\ Tr <= IdAt /\ Tr <= StubAt
      BY PrefixAddresses, <1>4
    <3>2. A64PrefixAt(b.text)
      BY <2>3, <1>11 DEF PrefixAt
    <3>3. Movs(d.text, IdAt, "x17", ProbeId) /\ Movs(d.text, StubAt, "tmp", EntryStub)
      BY <3>1, <3>2, <1>4, MovsKept, SMT, Z3 DEF A64PrefixAt
    <3>. QED  BY <3>2, <3>3, <2>1, <2>3 DEF PrefixAt, A64PrefixAt
  <2>. QED  BY <2>2, <2>3
<1>15. ASSUME NEW a \in DOMAIN f
       PROVE  LET x == LandingIn(End(c), f, d.end, End(a))
              IN  /\ f[a] \in Nat /\ x \in Nat /\ PrefixEnd <= f[a] /\ f[a] < x /\ x <= d.end
                  /\ CopyOf(d.text, prog[a], a, f[a], x)
  <2>1. CASE a = c
    BY <2>1, <1>3, <1>4, <1>7, <1>8, <1>11, SMT, Z3
  <2>2. CASE a \in DOMAIN st
    <3>1. Kept(b.text, d.text, st[a])
      BY <1>4, SMT, Z3 DEF Kept, BufOK
    <3>2. CopyOf(d.text, prog[a], a, st[a], e(a))
      <4>1. st[a] \in Int /\ CopyOf(b.text, prog[a], a, st[a], e(a))
        BY <2>2, <1>10, SMT, Z3
      <4>. HIDE DEF e
      <4>. QED  BY <4>1, <3>1, CopyKept
    <3>3. f[a] = st[a] /\ LandingIn(End(c), f, d.end, End(a)) = e(a)
      BY <2>2, <1>7, <1>9
    <3>4. st[a] \in Nat /\ e(a) \in Nat /\ PrefixEnd <= st[a] /\ st[a] < e(a) /\ e(a) <= su
      BY <2>2, <1>10
    <3>. HIDE DEF e
    <3>. QED  BY <3>2, <3>3, <3>4, <1>3, <1>4, SMT, Z3
  <2>. QED  BY <2>1, <2>2, <1>1, <1>5, <1>6
<1>16. ASSUME NEW a \in DOMAIN f, NEW x \in DOMAIN f, a < x
       PROVE  LandingIn(End(c), f, d.end, End(a)) <= f[x]
  <2>1. a \in DOMAIN prog /\ x \in DOMAIN prog /\ a \in Nat /\ x \in Nat /\ (a \in DOMAIN st \/ a = c) /\ (x \in DOMAIN st \/ x = c)
    BY <1>1, <1>5, <1>6, TextFacts
  <2>2. a \in DOMAIN st
    BY <2>1, <1>5, <1>16, SMT, Z3
  <2>3. CASE x = c
    BY <2>2, <2>3, <1>7, <1>9, <1>10
  <2>4. CASE x \in DOMAIN st
    <3>1. e(a) <= st[x]
      BY <2>2, <2>4, <1>16 DEF Laid
    <3>. QED  BY <3>1, <2>2, <2>4, <1>7, <1>9
  <2>. QED  BY <2>1, <2>3, <2>4
<1>. HIDE DEF e, su
<1>. QED  BY <1>1, <1>4, <1>6, <1>13, <1>14, <1>15, <1>16 DEF Laid, f, su

\* BuildInv holds of the empty buffer.
LEMMA BuildInit == Init => BuildInv
PROOF
<1>. SUFFICES ASSUME Init PROVE BuildInv
  OBVIOUS
<1>1. isa \in {"x86_64", "aarch64"} /\ IsText(isa, prog)
  BY RelocationAssumption DEF Init
<1>2. BufOK(buf) /\ Nothing /\ phase = "capture"
  BY EmptyOK DEF Init, Nothing
<1>. QED  BY <1>1, <1>2 DEF BuildInv

\* Where the loop begins.
LEMMA LaidFirst ==
    ASSUME IsText(isa, prog), isa \in {"x86_64", "aarch64"}, SpanOK,
           NEW b, b = (IF isa = "x86_64" THEN X86Prefix ELSE A64Prefix)
    PROVE  BufOK(b) /\ (b.ok => Laid(b.text, Fn, [a \in {} |-> 0], b.end))
PROOF
<1>. DEFINE st == [a \in {} |-> 0]
<1>1. BufOK(b) /\ (b.ok => PrefixAt(b.text) /\ b.end = PrefixEnd)
  <2>1. CASE isa = "x86_64"
    BY <2>1, X86PrefixFacts DEF PrefixAt, PrefixEnd
  <2>2. CASE isa # "x86_64"
    BY <2>2, A64PrefixFacts DEF PrefixAt, PrefixEnd
  <2>. QED  BY <2>1, <2>2
<1>2. SUFFICES ASSUME b.ok PROVE Laid(b.text, Fn, st, b.end)
  BY <1>1
<1>3. Fn \in Fn .. Fn + span /\ (Fn - Fn) % 4 = 0 /\ Fn \in DOMAIN prog
  BY ConstantTypes, TextFacts DEF SpanOK
<1>4. DOMAIN st = {a \in DOMAIN prog : a < Fn} /\ st = [a \in DOMAIN st |-> st[a]]
  <2>1. \A a \in DOMAIN prog : a \in Nat /\ Fn <= a
    BY TextFacts
  <2>2. {a \in DOMAIN prog : a < Fn} = {}
    BY <2>1, ConstantTypes
  <2>. QED  BY <2>2
<1>5. DOMAIN st = {}
  OBVIOUS
<1>6. b.end \in Nat /\ PrefixEnd <= b.end
  BY <1>1, <1>2, PrefixAddresses
<1>7. LandingIn(Fn, st, b.end, Fn) = PrefixEnd
  BY <1>1, <1>2 DEF LandingIn
<1>. HIDE DEF st
<1>. QED  BY <1>1, <1>2, <1>3, <1>4, <1>5, <1>6, <1>7 DEF Laid

\* zt_enable_probe emits nothing.
LEMMA CaptureBuild == BuildInv /\ Capture => BuildInv'
PROOF
<1>. SUFFICES ASSUME BuildInv, Capture PROVE BuildInv'
  OBVIOUS
<1>1. phase = "capture" /\ Nothing /\ isa' = isa /\ prog' = prog /\ UNCHANGED <<buf, cursor, starts, suffix>>
  BY DEF BuildInv, Capture
<1>2. isa \in {"x86_64", "aarch64"} /\ IsText(isa, prog) /\ BufOK(buf)
  BY DEF BuildInv
<1>3. Nothing'
  BY <1>1 DEF Nothing
<1>4. CASE phase' = "refused"
  BY <1>1, <1>2, <1>4 DEF BuildInv
<1>5. CASE phase' = "build" /\ span' \in (IF isa = "x86_64" THEN X86Spans ELSE A64Spans)
  <2>3. SpanOK'
    <3>1. CASE isa = "x86_64"
      <4>1. PICK a \in DOMAIN prog : span' = End(a) - Fn /\ span' >= X86PatchLen
        BY <1>5, <3>1 DEF X86Spans, End
      <4>2. End(a) \in Nat /\ Fn \in Nat /\ X86PatchLen \in Nat \ {0}
        BY <1>2, TextFacts, ConstantTypes
      <4>3. span' \in Nat \ {0} /\ Fn + span' = End(a)
        BY <4>1, <4>2
      <4>. QED  BY <4>3, <3>1, <1>1 DEF SpanOK, End
    <3>2. CASE isa # "x86_64"
      <4>1. span' = ((A64PatchLen + 3) \div 4) * 4 /\ \E a \in DOMAIN prog : Fn + span' <= End(a)
        BY <1>5, <3>2 DEF A64Spans, End
      <4>2. span' \in Nat \ {0} /\ span' % 4 = 0
        BY <4>1, ConstantTypes
      <4>. QED  BY <4>1, <4>2, <3>2, <1>1 DEF SpanOK, End
    <3>. QED  BY <3>1, <3>2
  <2>. QED  BY <2>3, <1>1, <1>2, <1>3, <1>5 DEF BuildInv
<1>. QED  BY <1>4, <1>5 DEF Capture

\* The prefix keeps BuildInv.
LEMMA PrefixBuild == BuildInv /\ BuildPrefix => BuildInv'
PROOF
<1>. SUFFICES ASSUME BuildInv, BuildPrefix PROVE BuildInv'
  OBVIOUS
<1>1. /\ phase = "build" /\ Nothing /\ SpanOK /\ isa' = isa /\ prog' = prog /\ UNCHANGED <<span, cursor, starts>>
      /\ buf' = (IF isa = "x86_64" THEN X86Prefix ELSE A64Prefix) /\ suffix' = buf'.end
      /\ phase' = (IF buf'.ok /\ prog[Fn].op # "unknown" THEN "relocate" ELSE "refused")
  BY DEF BuildInv, BuildPrefix
<1>2. isa \in {"x86_64", "aarch64"} /\ IsText(isa, prog)
  BY DEF BuildInv
<1>3. BufOK(buf') /\ (buf'.ok => Laid(buf'.text, Fn, [a \in {} |-> 0], buf'.end))
  BY <1>1, <1>2, LaidFirst
<1>4. CASE phase' = "refused"
  BY <1>1, <1>2, <1>3, <1>4 DEF BuildInv
<1>5. CASE phase' = "relocate"
  <2>1. buf'.ok /\ prog[Fn].op # "unknown" /\ cursor = Fn /\ starts = [a \in {} |-> 0]
    BY <1>1, <1>5 DEF Nothing
  <2>2. Laid(buf'.text, cursor', starts', suffix')
    BY <2>1, <1>1, <1>3
  <2>3. Laid(code, cursor, starts, suffix)'
    BY <2>2, <1>1 DEF Laid, code, PrefixAt, PrefixEnd, CopyOf, End
  <2>4. SpanOK'
    BY <1>1 DEF SpanOK, End
  <2>. QED  BY <2>1, <2>3, <2>4, <1>1, <1>2, <1>3, <1>5, Zenon DEF BuildInv, Placed
<1>. QED  BY <1>1, <1>4, <1>5

\* A round of the relocation loop keeps BuildInv: it adds one copy.
LEMMA RelocateBuild == BuildInv /\ Relocate => BuildInv'
PROOF
<1>. SUFFICES ASSUME BuildInv, Relocate PROVE BuildInv'
  OBVIOUS
<1>. DEFINE d == IF isa = "x86_64" THEN X86Insn(buf, cursor, prog[cursor]) ELSE A64Insn(buf, cursor, prog[cursor])
<1>1. /\ phase = "relocate" /\ More /\ Placed /\ buf.ok /\ buf.end = suffix
      /\ isa' = isa /\ prog' = prog /\ span' = span
      /\ buf' = d /\ suffix' = d.end /\ phase' = (IF d.ok THEN phase ELSE "refused")
      /\ cursor' = End(cursor) /\ starts' = Write(starts, cursor, buf.end)
  BY DEF BuildInv, Relocate, End
<1>2. isa \in {"x86_64", "aarch64"} /\ IsText(isa, prog) /\ BufOK(buf) /\ cursor < Fn + span
  BY <1>1 DEF BuildInv, More
<1>3. Laid(buf.text, cursor, starts, buf.end) /\ SpanOK /\ prog[Fn].op # "unknown"
  BY <1>1 DEF Placed, code
<1>4. BufOK(d)
  <2>1. cursor \in DOMAIN prog
    BY <1>2, <1>3, LoopStep
  <2>2. cursor \in Nat /\ IsInsn(prog[cursor])
    BY <2>1, <1>2, TextFacts
  <2>3. CASE isa = "x86_64"
    BY <2>2, <2>3, <1>2, X86InsnFacts
  <2>4. CASE isa # "x86_64"
    BY <2>2, <2>4, <1>2, A64InsnFacts
  <2>. QED  BY <2>3, <2>4
<1>5. d.ok => Laid(d.text, End(cursor), Write(starts, cursor, buf.end), d.end)
  BY <1>2, <1>3, LaidStep
<1>. HIDE DEF d
<1>6. CASE ~ d.ok
  BY <1>1, <1>2, <1>4, <1>6 DEF BuildInv
<1>7. CASE d.ok
  <2>1. Laid(buf'.text, cursor', starts', suffix')
    BY <1>1, <1>5, <1>7
  <2>2. Laid(code, cursor, starts, suffix)'
    BY <2>1, <1>1 DEF Laid, code, PrefixAt, PrefixEnd, CopyOf, End
  <2>3. SpanOK'
    BY <1>1, <1>3, Zenon DEF SpanOK, End
  <2>. QED  BY <2>2, <2>3, <1>1, <1>2, <1>3, <1>4, <1>7 DEF BuildInv, Placed
<1>. QED  BY <1>6, <1>7

\* The suffix.
LEMMA SuffixFacts ==
    ASSUME BufOK(buf), suffix = buf.end,
           NEW d, d = (IF isa = "x86_64" THEN X86Suffix ELSE A64AbsBranch(buf, Fn + span))
    PROVE  /\ BufOK(d) /\ Emitted(buf, d)
           /\ d.ok => IF isa = "x86_64"
                      THEN /\ Holds(d.text, suffix, Insn("jmpi", 6, 8)) /\ Holds(d.text, suffix + 6, Insn("quad", 8, EntryStub))
                           /\ Holds(d.text, suffix + 14, Insn("quad", 8, Fn + span))
                      ELSE A64SuffixAt(d.text)
PROOF
<1>1. CASE isa = "x86_64"
  <2>. DEFINE b == buf ++ Insn("jmpi", 6, 8)
              c == b ++ Insn("quad", 8, EntryStub)
  <2>1. BufOK(b) /\ Emitted(buf, b) /\ (b.ok => b.end = buf.end + 6 /\ Holds(b.text, buf.end, Insn("jmpi", 6, 8)))
    BY EmitInsn, SMT, Z3
  <2>. HIDE DEF b
  <2>2. BufOK(c) /\ Emitted(b, c) /\ (c.ok => c.end = b.end + 8 /\ Holds(c.text, b.end, Insn("quad", 8, EntryStub)))
    BY <2>1, EmitInsn
  <2>. HIDE DEF c
  <2>3. d = c ++ Insn("quad", 8, Fn + span)
    BY <1>1 DEF X86Suffix, b, c
  <2>4. BufOK(d) /\ Emitted(c, d) /\ (d.ok => Holds(d.text, c.end, Insn("quad", 8, Fn + span)))
    BY <2>2, <2>3, EmitInsn
  <2>5. Emitted(b, d)
    BY <2>1, <2>2, <2>4, EmittedTrans
  <2>6. Emitted(buf, d)
    BY <2>1, <2>5, EmittedTrans
  <2>7. d.ok => b.ok /\ c.ok
    BY <2>4, <2>5 DEF Emitted
  <2>8. buf.end \in Int
    BY ConstantTypes DEF BufOK
  <2>9. d.ok => b.end = suffix + 6 /\ c.end = suffix + 14
    BY <2>1, <2>2, <2>7, <2>8, SMT, Z3
  <2>10. d.ok => Holds(d.text, suffix, Insn("jmpi", 6, 8)) /\ Holds(d.text, suffix + 6, Insn("quad", 8, EntryStub))
    BY <2>1, <2>2, <2>4, <2>7, HoldsKept, SMT, Z3
  <2>. QED  BY <2>4, <2>6, <2>9, <2>10, <1>1
<1>2. CASE isa # "x86_64"
  <2>1. d = MovAbs(buf, "tmp", Fn + span) ++ Insn("jmptmp", 4, 0)
    BY <1>2 DEF A64AbsBranch
  <2>2. /\ BufOK(d) /\ Emitted(buf, d)
        /\ d.ok => /\ Movs(d.text, buf.end, "tmp", Fn + span)
                   /\ Holds(d.text, MovAt(buf.end, Fn + span, 4), Insn("jmptmp", 4, 0))
                   /\ d.end = MovAt(buf.end, Fn + span, 4) + 4 /\ buf.end < d.end
    BY <2>1, A64AbsFacts
  <2>. QED  BY <2>2, <1>2 DEF A64SuffixAt
<1>. QED  BY <1>1, <1>2

\* A layout stays when the copies and the prefix stay.
LEMMA LaidKept ==
    ASSUME NEW t, NEW u, NEW c, NEW st, NEW su, Laid(t, c, st, su), DOMAIN t \subseteq Int, PrefixAt(u), Kept(t, u, Tr + 16)
    PROVE  Laid(u, c, st, su)
PROOF
<1>1. PrefixEnd \in Nat /\ Tr + 16 <= PrefixEnd /\ Tr + 16 \in Int
  BY PrefixAddresses, ConstantTypes, SMT, Z3
<1>2. ASSUME NEW a \in DOMAIN st PROVE CopyOf(u, prog[a], a, st[a], LandingIn(c, st, su, End(a)))
  <2>1. st[a] \in Nat /\ PrefixEnd <= st[a] /\ CopyOf(t, prog[a], a, st[a], LandingIn(c, st, su, End(a)))
    BY DEF Laid
  <2>3. Kept(t, u, st[a])
    BY <2>1, <1>1, SMT, Z3 DEF Kept
  <2>. QED  BY <2>1, <2>3, CopyKept, SMT, Z3
<1>. QED  BY <1>2 DEF Laid

\* Filling in the displacement of the call changes one instruction of the prefix.
LEMMA LinkFacts ==
    ASSUME NEW d, BufOK(d), d.ok, X86PrefixAt(d.text), NEW f, f = X86Linked(d), suffix \in Nat
    PROVE  /\ BufOK(f) /\ X86PrefixAt(f.text) /\ f.text[Tr + 5].arg = suffix + 6 - (Tr + 11)
           /\ \A x, i : x # Tr + 5 /\ Holds(d.text, x, i) => Holds(f.text, x, i)
PROOF
<1>. DEFINE i == Insn("calli", 6, suffix + 6 - (Tr + 11))
            t == Write(d.text, Tr + 5, i)
<1>1. f = [ok |-> TRUE, end |-> d.end, text |-> t]
  BY DEF X86Linked
<1>2. i.size = 6 /\ i.arg = suffix + 6 - (Tr + 11) /\ i = Insn("calli", 6, i.arg)
  BY InsnFields, SMT, Z3
<1>3. Tr + 5 \in DOMAIN d.text /\ d.text[Tr + 5].size = 6
  BY InsnFields, SMT, Z3 DEF X86PrefixAt
<1>4. DOMAIN t = DOMAIN d.text /\ t[Tr + 5] = i /\ t = [x \in DOMAIN t |-> t[x]]
  BY <1>3 DEF Write
<1>5. \A x \in DOMAIN d.text : x # Tr + 5 => t[x] = d.text[x]
  BY DEF Write
<1>. HIDE DEF t, i
<1>6. \A x \in DOMAIN t : t[x].size = d.text[x].size
  BY <1>2, <1>3, <1>4, <1>5
<1>7. BufOK(f)
  BY <1>1, <1>4, <1>6 DEF BufOK
<1>8. \A x, j : x # Tr + 5 /\ Holds(d.text, x, j) => Holds(f.text, x, j)
  BY <1>1, <1>4, <1>5 DEF Holds
<1>9. Tr # Tr + 5 /\ Tr + 11 # Tr + 5
  BY ConstantTypes, SMT, Z3
<1>10. X86PrefixAt(f.text)
  BY <1>1, <1>2, <1>4, <1>8, <1>9, SMT, Z3 DEF X86PrefixAt
<1>. QED  BY <1>1, <1>2, <1>4, <1>7, <1>8, <1>10, SMT, Z3

\* The suffix, and linking it with the prefix, keeps BuildInv.
LEMMA FinishBuild == BuildInv /\ Finish => BuildInv'
PROOF
<1>. SUFFICES ASSUME BuildInv, Finish PROVE BuildInv'
  OBVIOUS
<1>. DEFINE d == IF isa = "x86_64" THEN X86Suffix ELSE A64AbsBranch(buf, Fn + span)
<1>1. /\ phase = "relocate" /\ ~ More /\ Placed /\ buf.ok /\ buf.end = suffix
      /\ isa' = isa /\ prog' = prog /\ span' = span /\ cursor' = cursor /\ starts' = starts /\ suffix' = suffix
      /\ phase' = (IF d.ok THEN "run" ELSE "refused") /\ buf' = (IF d.ok /\ isa = "x86_64" THEN X86Linked(d) ELSE d)
  BY DEF BuildInv, Finish
<1>2. isa \in {"x86_64", "aarch64"} /\ IsText(isa, prog) /\ BufOK(buf)
  BY DEF BuildInv
<1>3. /\ BufOK(d) /\ Emitted(buf, d)
      /\ d.ok => IF isa = "x86_64"
                 THEN /\ Holds(d.text, suffix, Insn("jmpi", 6, 8)) /\ Holds(d.text, suffix + 6, Insn("quad", 8, EntryStub))
                      /\ Holds(d.text, suffix + 14, Insn("quad", 8, Fn + span))
                 ELSE A64SuffixAt(d.text)
  BY <1>1, <1>2, SuffixFacts
<1>. HIDE DEF d
<1>4. CASE ~ d.ok
  BY <1>1, <1>2, <1>3, <1>4 DEF BuildInv
<1>5. CASE d.ok
  <2>1. Laid(buf.text, cursor, starts, suffix) /\ SpanOK /\ prog[Fn].op # "unknown" /\ PrefixAt(buf.text) /\ PrefixEnd <= suffix /\ suffix \in Nat
    BY <1>1 DEF Placed, code, Laid
  <2>2. Tr \in Nat /\ Tr + 16 <= PrefixEnd /\ PrefixEnd \in Nat /\ DOMAIN buf.text \subseteq Int /\ \A x \in DOMAIN buf.text : x >= Tr
    BY <1>2, ConstantTypes, PrefixAddresses, SMT, Z3 DEF BufOK
  <2>3. \A x, i : Holds(buf.text, x, i) => Holds(d.text, x, i)
    BY <1>2, <1>3, <1>5, HoldsKept
  <2>4. BufOK(buf') /\ PrefixAt(buf'.text) /\ Kept(buf.text, buf'.text, Tr + 16)
    <3>1. CASE isa = "x86_64"
      <4>1. X86PrefixAt(d.text)
        BY <3>1, <2>1, <2>3, Zenon DEF PrefixAt, X86PrefixAt, Holds
      <4>2. buf' = X86Linked(d)
        BY <1>1, <1>5, <3>1
      <4>3. /\ BufOK(buf') /\ X86PrefixAt(buf'.text)
            /\ \A x, i : x # Tr + 5 /\ Holds(d.text, x, i) => Holds(buf'.text, x, i)
        BY <4>1, <4>2, <2>1, <1>3, <1>5, LinkFacts
      <4>4. Kept(buf.text, buf'.text, Tr + 16)
        BY <4>3, <2>2, <2>3 DEF Kept, Holds
      <4>. QED  BY <4>3, <4>4, <3>1, Zenon DEF PrefixAt
    <3>2. CASE isa # "x86_64"
      <4>1. buf' = d
        BY <1>1, <3>2
      <4>2. Kept(buf.text, d.text, Tr) /\ Kept(buf.text, d.text, Tr + 16)
        BY <2>2, <2>3 DEF Kept, Holds
      <4>3. IdAt \in Int /\ StubAt \in Int /\ Tr <= IdAt /\ Tr <= StubAt /\ Tr \in Int
        BY PrefixAddresses, <2>2, SMT, Z3
      <4>4. A64PrefixAt(buf.text)
        BY <2>1, <3>2 DEF PrefixAt
      <4>5. Movs(d.text, IdAt, "x17", ProbeId) /\ Movs(d.text, StubAt, "tmp", EntryStub)
        BY <4>2, <4>3, <4>4, MovsKept DEF A64PrefixAt
      <4>6. A64PrefixAt(d.text)
        BY <4>4, <4>5, <2>3 DEF A64PrefixAt
      <4>. QED  BY <4>1, <4>2, <4>6, <3>2, <1>3 DEF PrefixAt
    <3>. QED  BY <3>1, <3>2
  <2>5. Laid(buf'.text, cursor, starts, suffix)
    BY <2>1, <2>2, <2>4, LaidKept
  <2>6. Laid(code, cursor, starts, suffix)'
    BY <2>5, <1>1 DEF Laid, code, PrefixAt, PrefixEnd, CopyOf, End
  <2>7. SuffixAt(code)'
    <3>1. CASE isa = "x86_64"
      <4>1. X86PrefixAt(d.text)
        BY <3>1, <2>1, <2>3 DEF PrefixAt, X86PrefixAt, Holds
      <4>2. buf' = X86Linked(d)
        BY <1>1, <1>5, <3>1
      <4>3. /\ buf'.text[Tr + 5].arg = suffix + 6 - (Tr + 11)
            /\ \A x, i : x # Tr + 5 /\ Holds(d.text, x, i) => Holds(buf'.text, x, i)
        BY <4>1, <4>2, <2>1, <1>3, <1>5, LinkFacts, Zenon
      <4>4. suffix # Tr + 5 /\ suffix + 6 # Tr + 5 /\ suffix + 14 # Tr + 5
        BY <2>1, <2>2, SMT, Z3
      <4>5. /\ Holds(buf'.text, suffix, Insn("jmpi", 6, 8)) /\ Holds(buf'.text, suffix + 6, Insn("quad", 8, EntryStub))
            /\ Holds(buf'.text, suffix + 14, Insn("quad", 8, Fn + span))
        BY <4>3, <4>4, <3>1, <1>3, <1>5
      <4>. QED  BY <4>3, <4>5, <3>1, <1>1, Zenon DEF SuffixAt, X86SuffixAt, code
    <3>2. CASE isa # "x86_64"
      <4>1. buf' = d /\ A64SuffixAt(d.text)
        BY <1>1, <1>3, <1>5, <3>2
      <4>. QED  BY <4>1, <3>2, <1>1 DEF SuffixAt, A64SuffixAt, code
    <3>. QED  BY <3>1, <3>2
  <2>8. SpanOK' /\ ~ More'
    BY <2>1, <1>1 DEF SpanOK, End, More
  <2>9. phase' = "run" /\ prog'[Fn].op # "unknown"
    BY <2>1, <1>1, <1>5
  <2>. QED  BY <2>4, <2>6, <2>7, <2>8, <2>9, <1>1, <1>2, Zenon DEF BuildInv, Placed
<1>. QED  BY <1>4, <1>5

\* Steps of the machines keep BuildInv.
LEMMA BuildKept == BuildInv /\ UNCHANGED build => BuildInv'
PROOF
<1>. SUFFICES ASSUME BuildInv, UNCHANGED build PROVE BuildInv'
  OBVIOUS
<1>1. /\ isa' = isa /\ prog' = prog /\ phase' = phase /\ span' = span /\ buf' = buf
      /\ cursor' = cursor /\ starts' = starts /\ suffix' = suffix
  BY DEF build
<1>2. (Nothing <=> Nothing') /\ (SpanOK <=> SpanOK') /\ (More <=> More')
  BY <1>1 DEF Nothing, SpanOK, End, More
<1>3. Laid(code, cursor, starts, suffix) => Laid(code, cursor, starts, suffix)'
  BY <1>1 DEF Laid, code, PrefixAt, PrefixEnd, CopyOf, End
<1>4. SuffixAt(code) => SuffixAt(code)'
  BY <1>1, Zenon DEF SuffixAt, X86SuffixAt, A64SuffixAt, code
<1>. QED  BY <1>1, <1>2, <1>3, <1>4, Zenon DEF BuildInv, Placed
-----------------------------------------------------------------------------
(* The theorems.                                                           *)

\* When zt_build_trampoline succeeds, the slot holds the prefix, a copy of each decoded
\* instruction under the jump, in order and one behind the other, and the suffix.
THEOREM TrampolineBuilt == RelocSpec => []BuildInv
PROOF
<1>1. BuildInv /\ [RelocNext]_relocVars => BuildInv'
  <2>. SUFFICES ASSUME BuildInv, [RelocNext]_relocVars PROVE BuildInv'
    OBVIOUS
  <2>1. Round \/ PatchedStep \/ UNCHANGED relocVars => UNCHANGED build
    BY Zenon DEF Round, PatchedStep, relocVars
  <2>. QED  BY <2>1, CaptureBuild, PrefixBuild, RelocateBuild, FinishBuild, BuildKept DEF RelocNext
<1>. QED  BY <1>1, BuildInit, PTL DEF RelocSpec

\* A trampoline stays in its slot of the pool: zt_emit_bytes looks at the room that is
\* left, and the call displacement is filled in over an instruction that is there.
THEOREM TrampolineInsideSlot == RelocSpec => []InsideSlot
PROOF
<1>1. BuildInv => InsideSlot
  <2>. SUFFICES ASSUME BuildInv, NEW a \in DOMAIN code PROVE After(a, code[a]) <= Tr + TrampolineSize
    BY DEF InsideSlot
  <2>1. BufOK(buf)
    BY DEF BuildInv
  <2>2. a \in Tr .. buf.end - 1 /\ code[a].size \in Nat /\ a + code[a].size <= buf.end /\ buf.end \in Tr .. Tr + TrampolineSize
    BY <2>1 DEF BufOK, code
  <2>. QED  BY <2>2, ConstantTypes DEF After
<1>. QED  BY <1>1, TrampolineBuilt, PTL

\* The two machines stay together.
THEOREM MachinesTogether == RelocSpec => []MachInv
PROOF
<1>1. BuildInv /\ MachInv /\ [RelocNext]_relocVars => MachInv'
  BY MachBuild, MachFinish, MachRound, MachPatched, MachStutter DEF RelocNext
<1>. QED  BY <1>1, MachInit, TrampolineBuilt, PTL DEF RelocSpec

\* The relocated instructions keep their meaning: for every text and every path that does
\* not jump to an instruction under the patch, take a loop instruction or come to one that
\* the disassembler does not know, the patched function goes where the original goes, with
\* the same values and stack, over instructions only.
THEOREM MeaningKept == RelocSpec => []SameMeaning
PROOF
<1>1. BuildInv /\ MachInv => SameMeaning
  <2>. SUFFICES ASSUME BuildInv, MachInv PROVE SameMeaning
    OBVIOUS
  <2>1. BuildInv /\ MachInv
    OBVIOUS
  <2>2. ASSUME Follow, turn = "patched" PROVE Executable(patched.pc)
    BY <2>1, <2>2, InRound, WayRuns
  <2>3. ASSUME Compared
        PROVE  /\ patched.pc = Image(orig.pc) /\ patched.rd = orig.rd
               /\ orig.lr = Caller => patched.lr = Caller
               /\ IF isa = "x86_64" /\ InRelocatedCall THEN Tail(Tail(patched.stack)) = Tail(orig.stack)
                  ELSE patched.stack = orig.stack
    <3>1. Frozen /\ orig \in Machines /\ patched \in Machines /\ OrigOK(orig) /\ AtPoint(orig, patched) /\ Caller \in Int
      BY <2>3, ConstantTypes, SMT, Z3 DEF MachInv, Compared, Frozen, Follow
    <3>2. patched.pc = Image(orig.pc) /\ patched.rd = orig.rd
      BY <3>1 DEF AtPoint, Related
    <3>3. ~Moved(Caller)
      <4>1. \A x \in Nat : Moved(x) => Fn <= x /\ x <= TextEnd
        BY <3>1, RunFacts, ConstantTypes DEF Moved
      <4>. QED  BY <4>1, <3>1, Outside, ConstantTypes
    <3>4. orig.lr = Caller => patched.lr = Caller
      BY <3>1, <3>3 DEF AtPoint, Related
    <3>5. CASE isa = "x86_64" /\ InRelocatedCall
      <4>1. orig.pc = Callee /\ Moved(Head(orig.stack))
        BY <3>5 DEF InRelocatedCall, Moved
      <4>2. PICK r \in Returns : orig.stack = <<r>> \o <<Caller>>
        BY <4>1, <3>1, <3>3, <3>5, BottomFacts, Zenon DEF OrigOK
      <4>. DEFINE p == Landing(Head(orig.stack)) - 2
                  w == patched.stack[2]
      <4>3. r \in Int /\ Tail(orig.stack) = <<Caller>> /\ Head(orig.stack) = r
        <5>1. r \in Int /\ <<Caller>> \in Seq(Int)
          BY <3>1, ReturnFacts, BottomFacts
        <5>. QED  BY <5>1, <4>2, StackFacts, Zenon
      <4>4. p \in Int
        <5>1. PICK a \in DOMAIN starts : r = End(a)
          BY <4>1, <4>3, <3>1, ReturnFacts
        <5>2. Landing(r) \in Nat
          BY <5>1, <3>1, CopyFacts
        <5>. QED  BY <5>2, <4>3
      <4>5. patched.stack = <<p>> \o (<<w>> \o <<Caller>>)
        BY <4>1, <3>1, <3>5 DEF AtPoint, Related
      <4>6. w \in Int
        <5>1. patched.stack \in Seq(Int)
          BY <3>1 DEF Machines
        <5>2. 2 \in 1 .. Len(patched.stack)
          BY <4>4, <4>5, <5>1, <3>1
        <5>. QED  BY <5>1, <5>2
      <4>. HIDE DEF p, w
      <4>7. <<w>> \o <<Caller>> \in Seq(Int) /\ Tail(<<w>> \o <<Caller>>) = <<Caller>>
        BY <4>6, <3>1, StackFacts, BottomFacts, Zenon
      <4>8. Tail(Tail(patched.stack)) = <<Caller>>
        BY <4>4, <4>5, <4>7, StackFacts, Zenon
      <4>. QED  BY <4>3, <4>8, <3>2, <3>4, <3>5, Zenon
    <3>6. CASE ~(isa = "x86_64" /\ InRelocatedCall)
      <4>1. patched.stack = orig.stack
        BY <3>1, <3>6 DEF AtPoint, Related, InRelocatedCall, Moved
      <4>. QED  BY <4>1, <3>2, <3>4, <3>6
    <3>. QED  BY <3>5, <3>6
  <2>. QED  BY <2>2, <2>3 DEF SameMeaning
<1>. QED  BY <1>1, TrampolineBuilt, MachinesTogether, PTL

\* r11 survives a relocated call, on every path without a relocated jump.
THEOREM CallsKeepScratch == RelocSpec => []ScratchKept
PROOF
<1>1. BuildInv /\ MachInv => ScratchKept
  <2>. SUFFICES ASSUME BuildInv, MachInv, Compared, isa = "x86_64", ~jumped, orig.pc # Callee PROVE patched.tmp = orig.tmp
    BY DEF ScratchKept
  <2>1. OrigOK(orig) /\ AtPoint(orig, patched)
    BY DEF MachInv, Compared
  <2>. QED  BY <2>1 DEF OrigOK, AtPoint, Related
<1>. QED  BY <1>1, TrampolineBuilt, MachinesTogether, PTL

\* What entry_stub finds when the prefix calls it.
LEMMA StubFinds ==
    ASSUME Running, NEW m \in Machines, NEW k, OnTheWay(m, k), m.pc = EntryStub
    PROVE  IF isa = "x86_64" THEN m.stack[2] = ProbeId /\ m.stack[3] = Caller ELSE m.x17 = ProbeId
PROOF
<1>1. Frozen /\ OrigOK(orig) /\ orig.pc # Caller /\ Tr \in Int /\ ProbeId \in Int /\ Caller \in Int
  BY ConstantTypes DEF Running, Chosen
<1>2. m.pc \notin DOMAIN code
  BY <1>1, Outside
<1>3. CASE Entering(m, k) /\ isa = "x86_64"
  <2>1. Tr \in DOMAIN code /\ Tr + 5 \in DOMAIN code /\ Tr + 11 \in DOMAIN code
    BY <1>1, <1>3, RunFacts DEF PrefixAt, X86PrefixAt, Holds
  <2>2. m.stack = <<Tr + 11>> \o (<<ProbeId>> \o <<Caller>>)
    BY <2>1, <1>2, <1>3 DEF Entering, X86Entering
  <2>3. (<<Tr + 11>> \o (<<ProbeId>> \o <<Caller>>))[2] = ProbeId /\ (<<Tr + 11>> \o (<<ProbeId>> \o <<Caller>>))[3] = Caller
    BY SMT, Z3
  <2>. QED  BY <2>2, <2>3, <1>3
<1>4. CASE Entering(m, k) /\ isa # "x86_64"
  <2>1. PrefixAt(code) /\ IdAt \in Int /\ StubAt \in Int /\ ProbeId \in Addresses
    BY <1>1, RunFacts, PrefixAddresses, Loaded, SMT, Z3
  <2>2. Tr \in DOMAIN code /\ IdAt \in DOMAIN code /\ StubAt \in DOMAIN code /\ CallAt + 4 \in DOMAIN code /\ Movs(code, IdAt, "x17", ProbeId)
    BY <2>1, <1>4, Zenon DEF PrefixAt, A64PrefixAt, Holds, Movs
  <2>3. ~InMovs(m, IdAt, "x17", ProbeId)
    BY <2>1, <2>2, <1>2, MovsIn DEF StubAt
  <2>. QED  BY <2>2, <2>3, <1>2, <1>4, Zenon DEF Entering, A64Entering
<1>5. CASE AtPoint(orig, m)
  <2>1. CASE orig.pc \in DOMAIN starts /\ orig.pc # Fn
    BY <2>1, <1>1, <1>2, <1>5, CopyStart DEF AtPoint, Image
  <2>2. CASE ~(orig.pc \in DOMAIN starts /\ orig.pc # Fn)
    <3>1. m.pc = orig.pc /\ (orig.pc \in DOMAIN prog \/ orig.pc = Callee)
      BY <2>2, <1>1, <1>5 DEF AtPoint, Image, OrigOK, There
    <3>. QED  BY <3>1, <1>1, Outside, ConstantTypes
  <2>. QED  BY <2>1, <2>2
<1>6. CASE Inside(m, k)
  <2>1. orig.pc \in DOMAIN starts /\ starts[orig.pc] \in DOMAIN code /\ starts[orig.pc] \in Nat /\ Landing(End(orig.pc)) \in Nat
    BY <1>1, <1>6, CopyStart, CopyFacts DEF Inside
  <2>2. CASE isa = "x86_64" /\ X86Inside(m, prog[orig.pc], starts[orig.pc])
    BY <2>1, <2>2, <1>2, X86InsideStep, Zenon
  <2>3. CASE /\ isa # "x86_64" /\ A64Inside(m, prog[orig.pc], starts[orig.pc])
             /\ m.pc \in starts[orig.pc] + 1 .. Landing(End(orig.pc)) - 1
    <3>1. m.pc < Landing(End(orig.pc))
      BY <2>1, <2>3, SMT, Z3
    <3>. QED  BY <2>1, <2>3, <3>1, <1>2, A64InsideStep
  <2>. QED  BY <2>1, <2>2, <2>3, <1>2, <1>6, Zenon DEF Inside
<1>7. CASE Returning(m, k)
  BY <1>2, <1>7, ReturningStep
<1>8. CASE Leaving(m, k)
  BY <1>2, <1>8, LeavingStep
<1>. QED  BY <1>3, <1>4, <1>5, <1>6, <1>7, <1>8 DEF OnTheWay

\* The prefix calls entry_stub once each time the function is entered from its beginning,
\* with the id of the probe, and nothing else calls it.
THEOREM EntryReported == RelocSpec => ReportsEntry
PROOF
<1>. DEFINE A == /\ turn = "patched" /\ turn' = "orig" => reports' = (IF orig.pc = Fn THEN 1 ELSE 0)
                 /\ patched'.pc = EntryStub =>
                      IF isa = "x86_64" THEN patched'.stack[2] = ProbeId /\ patched'.stack[3] = Caller
                      ELSE patched'.x17 = ProbeId
<1>1. BuildInv /\ MachInv /\ [RelocNext]_relocVars => [A]_relocVars
  <2>. SUFFICES ASSUME BuildInv, MachInv, RelocNext PROVE A
    OBVIOUS
  <2>1. BuildInv /\ MachInv
    OBVIOUS
  <2>2. CASE PatchedStep
    <3>1. /\ Follow /\ turn = "patched" /\ patched' = Step(patched)
          /\ reports' = reports + (IF patched.pc = EntryStub THEN 1 ELSE 0)
          /\ Comparable(patched'.pc) \/ UNCHANGED turn
      BY <2>2 DEF PatchedStep
    <3>2. Running /\ patched \in Machines /\ OnTheWay(patched, reports)
      BY <2>1, <3>1, InRound
    <3>3. Progress(patched', reports')
      BY <3>1, <3>2, WayStep
    <3>4. turn' = "orig" => reports' = Once
      BY <3>1, <3>3 DEF Progress
    <3>5. ASSUME patched'.pc = EntryStub
          PROVE  IF isa = "x86_64" THEN patched'.stack[2] = ProbeId /\ patched'.stack[3] = Caller ELSE patched'.x17 = ProbeId
      <4>1. ~Comparable(patched'.pc)
        BY <3>5 DEF Comparable
      <4>2. patched' \in Machines /\ OnTheWay(patched', reports')
        BY <4>1, <3>3 DEF Progress
      <4>. QED  BY <4>2, <3>2, <3>5, StubFinds
    <3>. QED  BY <3>4, <3>5 DEF Once
  <2>3. CASE Round
    <3>1. Follow /\ turn = "orig" /\ patched' = patched /\ orig.pc # Caller
      BY <2>3 DEF Round
    <3>2. Frozen /\ OrigOK(orig) /\ patched.pc = Image(orig.pc)
      BY <2>1, <3>1 DEF MachInv, AtPoint, Frozen, Follow
    <3>3. patched.pc # EntryStub
      <4>1. CASE orig.pc \in DOMAIN starts /\ orig.pc # Fn
        BY <4>1, <3>2, CopyStart, Outside DEF Image
      <4>2. CASE ~(orig.pc \in DOMAIN starts /\ orig.pc # Fn)
        <5>1. patched.pc = orig.pc /\ (orig.pc \in DOMAIN prog \/ orig.pc = Callee)
          BY <4>2, <3>1, <3>2 DEF Image, OrigOK, There
        <5>. QED  BY <5>1, <3>2, Outside, ConstantTypes
      <4>. QED  BY <4>1, <4>2
    <3>. QED  BY <3>1, <3>3
  <2>4. CASE Capture \/ BuildPrefix \/ Relocate \/ Finish
    <3>1. phase \in {"capture", "build", "relocate"} /\ patched' = patched
      BY <2>4 DEF Capture, BuildPrefix, Relocate, Finish, machines
    <3>2. PICK pc \in Entries(prog) : patched = Machine(pc) /\ turn = "orig"
      BY <2>1, <3>1 DEF MachInv
    <3>3. patched.pc = pc
      BY <3>2 DEF Machine
    <3>4. pc # EntryStub
      <4>1. IsText(isa, prog)
        BY <2>1 DEF BuildInv
      <4>2. pc \in DOMAIN prog
        BY <4>1, TextFacts DEF Entries
      <4>3. pc \in Text
        BY <4>1, <4>2 DEF IsText
      <4>. QED  BY <4>3, RelocationAssumption
    <3>. QED  BY <3>1, <3>2, <3>3, <3>4
  <2>. QED  BY <2>2, <2>3, <2>4 DEF RelocNext
<1>. QED  BY <1>1, TrampolineBuilt, MachinesTogether, PTL DEF RelocSpec, ReportsEntry
=============================================================================
