------------------------ MODULE RelocationStepProofs ------------------------
(***************************************************************************)
(* Proofs about Relocation, part 2: every step keeps MachInv.  The patched *)
(* function is followed through the prefix of aarch64, the copies of both  *)
(* architectures, into and out of the callee, and through the suffix back  *)
(* into the text.                                                          *)
(***************************************************************************)
EXTENDS RelocationMachineProofs

\* Inside of a copy.
LEMMA StillInside ==
    ASSUME Running, orig.pc \in DOMAIN starts, NEW m \in Machines, m.pc \in DOMAIN code,
           m.pc \in starts[orig.pc] + 1 .. Landing(End(orig.pc)) - 1,
           IF isa = "x86_64" THEN X86Inside(m, prog[orig.pc], starts[orig.pc]) ELSE A64Inside(m, prog[orig.pc], starts[orig.pc])
    PROVE  Progress(m, Once)
PROOF
<1>1. ~Comparable(m.pc)
  BY NotComparable DEF Running
<1>2. Inside(m, Once)
  BY DEF Inside
<1>. QED  BY <1>1, <1>2 DEF Progress, OnTheWay

\* An instruction that was copied as it is, or with a new displacement.
LEMMA PlainCopy ==
    ASSUME Running, orig.pc \in DOMAIN starts, NEW m \in Machines, m.pc = starts[orig.pc], Related(orig, m),
           NEW i, i.op \in {"plain", "unknown", "ret", "mem", "loop"}, Holds(code, m.pc, i), i.op = prog[orig.pc].op,
           i.op \in {"plain", "unknown"} => i.arg = prog[orig.pc].arg,
           i.op = "mem" => m.pc + i.size + i.arg = Target(orig.pc, prog[orig.pc]),
           i.size \in Int, i.arg \in Int, Landing(End(orig.pc)) = m.pc + i.size
    PROVE  Progress(Step(m), Once)
PROOF
<1>. DEFINE n == Step(m)
            o == orig
            g == Goal(cond)
<1>1. Frozen /\ Chosen /\ cond \in BOOLEAN
  BY DEF Running
<1>2. o.pc \in DOMAIN prog /\ Under(o.pc)
  BY <1>1, CopyFacts, RunFacts, ConstantTypes DEF Under
<1>3. m.rd = o.rd /\ TextRegs(m)
  BY <1>2, TextRelated
<1>4. n = Exec(m, i, cond)
  BY <1>1, StepFacts DEF Holds
<1>5. Op = i.op
  BY <1>1, <1>2, Outside DEF Op
<1>6. i.op = "loop" => ~cond
  BY <1>1, <1>2, <1>5 DEF Chosen, Jumping, Jumps
<1>. HIDE DEF n, g
<1>7. CASE i.op = "ret"
  <2>1. n = Leave(m)
    BY <1>4, <1>7, ExecRet
  <2>2. Progress(Leave(m), Once)
    BY <1>2, <1>7, LeaveStep
  <2>. QED  BY <2>1, <2>2 DEF n
<1>8. CASE i.op # "ret"
  <2>1. ~Jumping /\ i.op \notin {"call", "ret"}
    BY <1>5, <1>6, <1>8 DEF Jumping, Jumps
  <2>2. g.pc = End(o.pc) /\ g.rd = (IF i.op \in {"plain", "unknown"} THEN i.arg
                                    ELSE IF i.op = "mem" THEN m.pc + i.size + i.arg ELSE o.rd)
    BY <2>1, <1>2, Mirror DEF g
  <2>3. n \in Machines /\ n.pc = m.pc + i.size /\ n.rd = g.rd /\ n.tmp = m.tmp /\ n.lr = m.lr /\ n.stack = m.stack
    <3>1. CASE i.op \in {"plain", "unknown"}
      <4>1. Fields(n, m.pc + i.size, i.arg, m.tmp, m.x17, m.lr, m.x15, m.stack)
        BY <3>1, <1>4, ExecSet
      <4>. QED  BY <4>1, <3>1, <2>2 DEF Fields
    <3>2. CASE i.op = "mem"
      <4>1. Fields(n, m.pc + i.size, m.pc + i.size + i.arg, m.tmp, m.x17, m.lr, m.x15, m.stack)
        BY <3>2, <1>4, ExecSet
      <4>. QED  BY <4>1, <3>2, <2>2 DEF Fields
    <3>3. CASE i.op = "loop"
      <4>1. Fields(n, m.pc + i.size, m.rd, m.tmp, m.x17, m.lr, m.x15, m.stack)
        BY <3>3, <1>1, <1>4, <1>6, ExecJump
      <4>. QED  BY <4>1, <3>3, <2>2, <1>3 DEF Fields
    <3>. QED  BY <3>1, <3>2, <3>3, <1>8
  <2>4. TextRegs(n)
    BY <2>3, <1>3 DEF TextRegs
  <2>5. Related(g, n)
    BY <2>1, <2>3, <2>4, <1>2, Mirror DEF g
  <2>. QED  BY <2>1, <2>2, <2>3, <2>5, Landed DEF g, n
<1>. QED  BY <1>7, <1>8

\* The condition does not hold: the inverse jump leads behind the copy.
LEMMA NotTaken ==
    ASSUME Running, orig.pc \in DOMAIN starts, prog[orig.pc].op = "jcc", ~cond,
           NEW m \in Machines, m.pc = Landing(End(orig.pc)), m.rd = orig.rd, TextRegs(m)
    PROVE  Progress(m, Once)
PROOF
<1>1. orig.pc \in DOMAIN prog
  BY CopyFacts DEF Running
<1>2. Goal(cond).pc = End(orig.pc) /\ Goal(cond).rd = orig.rd
  BY <1>1, Mirror DEF Jumping
<1>3. Related(Goal(cond), m)
  BY <1>1, <1>2, Mirror
<1>. QED  BY <1>2, <1>3, Landed

\* The first instruction of a copy on x86_64.
LEMMA X86FirstStep ==
    ASSUME Running, isa = "x86_64", orig.pc \in DOMAIN starts, NEW m \in Machines, m.pc = starts[orig.pc], Related(orig, m)
    PROVE  Progress(Step(m), Once)
PROOF
<1>. DEFINE n == Step(m)
            o == orig
            i == prog[orig.pc]
            s == starts[orig.pc]
            e == Landing(End(orig.pc))
            to == Target(orig.pc, i)
            j == code[m.pc]
<1>1. Frozen /\ Chosen /\ cond \in BOOLEAN /\ Caller \in Int
  BY ConstantTypes DEF Running
<1>2. o.pc \in DOMAIN prog /\ Under(o.pc) /\ s \in Nat /\ e \in Nat /\ X86Copy(code, i, o.pc, s, e)
  BY <1>1, CopyFacts, RunFacts, ConstantTypes DEF Under, CopyOf
<1>3. m.rd = o.rd /\ TextRegs(m)
  BY <1>2, TextRelated
<1>4. /\ i.op \in {"plain", "unknown", "ret", "mem", "call", "jmp", "jcc", "jrcxz", "loop"}
      /\ IsInsn(i) /\ i.size \in Int /\ i.arg \in Int /\ to \in Int
  BY <1>1, <1>2, OpFacts
<1>5. m.pc \in DOMAIN code
  BY <1>1, CopyStart
<1>6. n = Exec(m, j, cond)
  BY <1>1, <1>5, StepFacts
<1>7. Op = i.op
  BY <1>1, <1>2, Outside DEF Op
<1>. HIDE DEF n, i, s, e, to, j
<1>8. CASE i.op = "call"
  <2>1. j = Insn("pushtmp", 2, 0) /\ s + 2 \in DOMAIN code /\ e = s + 17
    BY <1>2, <1>8 DEF X86Copy, Holds, j, s
  <2>2. j.op = "pushtmp" /\ j.size = 2 /\ j.arg = 0
    BY <2>1, InsnFields
  <2>3. m.pc + j.size = s + 2
    BY <2>2 DEF s
  <2>4. Fields(n, s + 2, m.rd, m.tmp, m.x17, m.lr, m.x15, <<m.tmp>> \o <<Caller>>)
    <3>1. Fields(n, m.pc + j.size, m.rd, m.tmp, m.x17, m.lr, m.x15, <<m.tmp>> \o m.stack)
      <4>1. j.op = "pushtmp" /\ j.size \in Int /\ j.arg \in Int
        BY <2>2
      <4>. QED  BY <4>1, <1>6, ExecStack, Zenon
    <3>. QED  BY <3>1, <2>3, <1>3 DEF TextRegs
  <2>5. Head(<<m.tmp>> \o <<Caller>>) = m.tmp
    BY <1>1, StackFacts, BottomFacts DEF Machines
  <2>6. X86Inside(n, i, s)
    BY <2>4, <2>5, <1>3, <1>8 DEF X86Inside, Fields, TextRegs
  <2>7. s + 2 \in s + 1 .. e - 1
    BY <2>1, <1>2
  <2>. QED  BY <2>1, <2>4, <2>6, <2>7, StillInside DEF n, i, s, e, Fields
<1>9. CASE i.op = "jmp"
  <2>1. j = Insn("movabs", 10, to) /\ s + 10 \in DOMAIN code /\ e = s + 13
    BY <1>2, <1>9 DEF X86Copy, Holds, j, s, to
  <2>2. j.op = "movabs" /\ j.size = 10 /\ j.arg = to
    BY <2>1, InsnFields
  <2>3. m.pc + j.size = s + 10
    BY <2>2 DEF s
  <2>4. Fields(n, s + 10, m.rd, to, m.x17, m.lr, m.x15, m.stack)
    <3>1. Fields(n, m.pc + j.size, m.rd, j.arg, m.x17, m.lr, m.x15, m.stack)
      BY <2>2, <1>4, <1>6, ExecSet
    <3>. QED  BY <3>1, <2>2, <2>3
  <2>5. cond /\ jumped
    BY <1>1, <1>2, <1>7, <1>9 DEF Chosen, Jumping, Jumps
  <2>6. X86Inside(n, i, s)
    BY <2>4, <2>5, <1>3, <1>9 DEF X86Inside, Fields, TextRegs, to
  <2>7. s + 10 \in s + 1 .. e - 1
    BY <2>1, <1>2
  <2>. QED  BY <2>1, <2>4, <2>6, <2>7, StillInside DEF n, i, s, e, Fields
<1>10. CASE i.op = "jcc"
  <2>1. j = Insn("jncc", 2, 13) /\ s + 2 \in DOMAIN code /\ e = s + 15
    BY <1>2, <1>10 DEF X86Copy, Holds, j, s
  <2>2. j.op = "jncc" /\ j.size = 2 /\ j.arg = 13
    BY <2>1, InsnFields
  <2>3. m.pc + j.size = s + 2 /\ m.pc + j.size + j.arg = e
    BY <2>1, <2>2, <1>2 DEF s
  <2>4. Fields(n, IF cond THEN s + 2 ELSE e, m.rd, m.tmp, m.x17, m.lr, m.x15, m.stack)
    <3>1. Fields(n, IF cond THEN m.pc + j.size ELSE m.pc + j.size + j.arg, m.rd, m.tmp, m.x17, m.lr, m.x15, m.stack)
      BY <2>2, <1>1, <1>6, ExecJump
    <3>. QED  BY <3>1, <2>3
  <2>5. CASE cond
    <3>1. jumped
      BY <1>1, <1>2, <1>7, <1>10, <2>5 DEF Chosen, Jumping, Jumps
    <3>2. X86Inside(n, i, s)
      BY <2>4, <2>5, <3>1, <1>3, <1>10 DEF X86Inside, Fields, TextRegs
    <3>3. s + 2 \in s + 1 .. e - 1
      BY <2>1, <1>2
    <3>. QED  BY <2>1, <2>4, <2>5, <3>2, <3>3, StillInside DEF n, i, s, e, Fields
  <2>6. CASE ~cond
    <3>1. n \in Machines /\ n.pc = e /\ n.rd = o.rd /\ TextRegs(n)
      BY <2>4, <2>6, <1>3 DEF Fields, TextRegs
    <3>. QED  BY <3>1, <2>6, <1>10, NotTaken DEF n, i, e
  <2>. QED  BY <2>5, <2>6
<1>11. CASE i.op = "mem"
  <2>. DEFINE d == Insn("mem", i.size, to - (s + i.size))
  <2>1. Holds(code, s, d) /\ e = s + i.size
    BY <1>2, <1>11 DEF X86Copy, to
  <2>2. d.op = "mem" /\ d.size = i.size /\ d.arg = to - (s + i.size)
    BY InsnFields
  <2>. HIDE DEF d
  <2>3. d.arg \in Int /\ s + d.size + d.arg = to
    BY <2>2, <1>2, <1>4
  <2>. QED  BY <2>1, <2>2, <2>3, <1>4, <1>11, PlainCopy DEF n, i, s, e, to
<1>12. CASE i.op \in {"plain", "unknown", "ret", "loop", "jrcxz"}
  <2>1. Holds(code, s, i) /\ e = s + i.size /\ i.op # "jrcxz"
    BY <1>2, <1>12 DEF X86Copy
  <2>. QED  BY <2>1, <1>4, <1>12, PlainCopy DEF n, i, s, e
<1>. QED  BY <1>4, <1>8, <1>9, <1>10, <1>11, <1>12

\* The call in the copy of a call on x86_64.
LEMMA X86CallStep ==
    ASSUME Running, isa = "x86_64", orig.pc \in DOMAIN starts, prog[orig.pc].op = "call", NEW s \in Nat,
           Landing(End(orig.pc)) = s + 17, NEW m \in Machines, m.pc = s + 12, m.tmp = Callee, m.rd = orig.rd, m.lr = Caller,
           NEW w \in Int, m.stack = <<w>> \o <<Caller>>, jumped \/ w = 0,
           NEW j, j = Insn("calltmp", 3, 0)
    PROVE  Progress(Exec(m, j, cond), Once)
PROOF
<1>. DEFINE n == Exec(m, j, cond)
            o == orig
            g == Goal(cond)
            r == End(orig.pc)
            p == s + 15
<1>1. Frozen /\ cond \in BOOLEAN /\ Caller \in Int /\ Callee \in Int /\ o \in Machines
  BY ConstantTypes DEF Running
<1>2. o.pc \in DOMAIN prog /\ r \in Nat /\ Moved(r)
  BY <1>1, CopyFacts, RunFacts, ConstantTypes DEF Moved
<1>3. j.op = "calltmp" /\ j.size = 3 /\ j.arg = 0
  BY InsnFields
<1>. HIDE DEF n, g, r, p
<1>4. Fields(n, Callee, m.rd, m.tmp, m.x17, m.lr, m.x15, <<p>> \o (<<w>> \o <<Caller>>))
  <2>1. Fields(n, Callee, m.rd, m.tmp, m.x17, m.lr, m.x15, <<m.pc + j.size>> \o m.stack)
    <3>1. j.op = "calltmp" /\ Callee = m.tmp /\ j.size \in Int /\ j.arg \in Int
      BY <1>3
    <3>. QED  BY <3>1, <1>1, ExecCall, Zenon DEF n
  <2>2. m.pc + j.size = p
    BY <1>3 DEF p
  <2>. QED  BY <2>1, <2>2
<1>5. Fields(g, Callee, o.rd, o.tmp, o.x17, o.lr, o.x15, <<r>> \o <<Caller>>) /\ o.lr = Caller
  BY <1>1, <1>2, GoalFacts, TextRelated DEF g, r
<1>6. Head(<<r>> \o <<Caller>>) = r /\ Landing(r) - 2 = p
  BY <1>1, <1>2, StackFacts, BottomFacts DEF r, p
<1>7. (<<p>> \o (<<w>> \o <<Caller>>))[2] = w
  BY <1>1 DEF p
<1>8. Related(g, n)
  <2>1. g.pc = Callee /\ Head(g.stack) = r /\ n.stack[2] = w /\ n.stack = <<p>> \o (<<w>> \o <<Caller>>)
    BY <1>4, <1>5, <1>6, <1>7 DEF Fields
  <2>2. n.rd = g.rd /\ n.lr = g.lr
    BY <1>4, <1>5 DEF Fields
  <2>. QED  BY <2>1, <2>2, <1>2, <1>6 DEF Related
<1>9. n \in Machines /\ n.pc = g.pc /\ n.pc = Callee
  BY <1>4, <1>5 DEF Fields
<1>10. Callee \notin DOMAIN starts
  BY <1>1, RunFacts, Outside
<1>. QED  BY <1>8, <1>9, <1>10, Direct DEF g, n

\* Inside of a copy on x86_64.
LEMMA X86InsideStep ==
    ASSUME Running, isa = "x86_64", orig.pc \in DOMAIN starts, NEW m \in Machines,
           X86Inside(m, prog[orig.pc], starts[orig.pc])
    PROVE  Progress(Step(m), Once) /\ m.pc \in DOMAIN code
PROOF
<1>. DEFINE n == Step(m)
            o == orig
            i == prog[orig.pc]
            s == starts[orig.pc]
            e == Landing(End(orig.pc))
            to == Target(orig.pc, i)
            j == code[m.pc]
<1>1. Frozen /\ Chosen /\ cond \in BOOLEAN /\ Caller \in Int
  BY ConstantTypes DEF Running
<1>2. o.pc \in DOMAIN prog /\ Under(o.pc) /\ s \in Nat /\ e \in Nat /\ X86Copy(code, i, o.pc, s, e)
  BY <1>1, CopyFacts, RunFacts, SMT, Z3 DEF Under, CopyOf
<1>3. to \in Int /\ (i.op = "call" => to = Callee)
  BY <1>1, <1>2, OpFacts, SMT, Z3
<1>4. m.rd = o.rd /\ m.lr = Caller
  BY DEF X86Inside
<1>5. Op = i.op
  BY <1>1, <1>2, Outside DEF Op
<1>6. m.pc \in DOMAIN code => n = Exec(m, j, cond)
  BY <1>1, StepFacts
<1>. HIDE DEF n, i, s, e, to, j
<1>7. CASE i.op = "call" /\ m.stack = <<Head(m.stack)>> \o <<Caller>> /\ (jumped \/ Head(m.stack) = 0) /\ m.pc = s + 2
  <2>1. m.pc \in DOMAIN code /\ j = Insn("movabs", 10, to) /\ s + 12 \in DOMAIN code /\ e = s + 17
    BY <1>2, <1>7 DEF X86Copy, Holds, j, to
  <2>2. j.op = "movabs" /\ j.size = 10 /\ j.arg = to /\ m.pc + j.size = s + 12
    <3>1. j.op = "movabs" /\ j.size = 10 /\ j.arg = to
      BY <2>1, InsnFields
    <3>. QED  BY <3>1, <1>2, <1>7
  <2>3. Fields(n, s + 12, m.rd, to, m.x17, m.lr, m.x15, m.stack)
    <3>1. Fields(n, m.pc + j.size, m.rd, j.arg, m.x17, m.lr, m.x15, m.stack)
      BY <2>1, <2>2, <1>3, <1>6, ExecSet, SMT, Z3
    <3>. QED  BY <3>1, <2>2
  <2>4. X86Inside(n, i, s)
    BY <2>3, <1>4, <1>7 DEF X86Inside, Fields, to
  <2>5. s + 12 \in s + 1 .. e - 1
    BY <2>1, <1>2
  <2>. QED  BY <2>1, <2>3, <2>4, <2>5, StillInside DEF n, i, s, e, Fields
<1>8. CASE i.op = "call" /\ m.stack = <<Head(m.stack)>> \o <<Caller>> /\ (jumped \/ Head(m.stack) = 0) /\ m.pc = s + 12 /\ m.tmp = to
  <2>1. m.pc \in DOMAIN code /\ j = Insn("calltmp", 3, 0) /\ e = s + 17
    BY <1>2, <1>8 DEF X86Copy, Holds, j
  <2>2. Head(m.stack) \in Int
    <3>1. m.stack \in Seq(Int)
      BY DEF Machines
    <3>2. m.stack # <<>>
      BY <1>8, SMT, Z3
    <3>. QED  BY <3>1, <3>2
  <2>3. Progress(Exec(m, j, cond), Once)
    BY <2>1, <2>2, <1>2, <1>3, <1>4, <1>8, X86CallStep DEF i, e
  <2>. QED  BY <2>1, <2>3, <1>6 DEF n
<1>9. CASE i.op = "jcc" /\ m.stack = <<Caller>> /\ jumped /\ cond /\ m.pc = s + 2
  <2>1. m.pc \in DOMAIN code /\ j = Insn("movabs", 10, to) /\ s + 12 \in DOMAIN code /\ e = s + 15
    BY <1>2, <1>9 DEF X86Copy, Holds, j, to
  <2>2. j.op = "movabs" /\ j.size = 10 /\ j.arg = to /\ m.pc + j.size = s + 12
    <3>1. j.op = "movabs" /\ j.size = 10 /\ j.arg = to
      BY <2>1, InsnFields, SMT, Z3
    <3>. QED  BY <3>1, <1>2, <1>9
  <2>3. Fields(n, s + 12, m.rd, to, m.x17, m.lr, m.x15, m.stack)
    <3>1. Fields(n, m.pc + j.size, m.rd, j.arg, m.x17, m.lr, m.x15, m.stack)
      BY <2>1, <2>2, <1>3, <1>6, ExecSet, SMT, Z3
    <3>. QED  BY <3>1, <2>2
  <2>4. X86Inside(n, i, s)
    BY <2>3, <1>4, <1>9 DEF X86Inside, Fields, to
  <2>5. s + 12 \in s + 1 .. e - 1
    BY <2>1, <1>2, SMT, Z3
  <2>. QED  BY <2>1, <2>3, <2>4, <2>5, StillInside DEF n, i, s, e, Fields
<1>10. CASE /\ m.stack = <<Caller>> /\ jumped /\ cond /\ m.tmp = to
            /\ (i.op = "jmp" /\ m.pc = s + 10) \/ (i.op = "jcc" /\ m.pc = s + 12)
  <2>1. m.pc \in DOMAIN code /\ j = Insn("jmptmp", 3, 0)
    BY <1>2, <1>10 DEF X86Copy, Holds, j
  <2>2. j.op = "jmptmp" /\ j.size \in Int /\ j.arg \in Int
    BY <2>1, InsnFields
  <2>3. Fields(n, to, m.rd, m.tmp, m.x17, m.lr, m.x15, m.stack)
    BY <2>1, <2>2, <1>1, <1>6, <1>10, ExecJump, Zenon
  <2>4. Jumping
    BY <1>5, <1>10 DEF Jumping, Jumps
  <2>5. n \in Machines /\ n.pc = to /\ n.rd = o.rd /\ TextRegs(n)
    BY <2>3, <1>4, <1>10 DEF Fields, TextRegs
  <2>. QED  BY <2>1, <2>4, <2>5, <1>2, JumpLands DEF n, to, i
<1>. QED  BY <1>7, <1>8, <1>9, <1>10 DEF X86Inside, i, s, to

\* Back from the callee of a relocated call.
LEMMA ReturningStep ==
    ASSUME Running, NEW m \in Machines, NEW k, Returning(m, k)
    PROVE  Progress(Step(m), 0) /\ m.pc \in DOMAIN code /\ k = 0
PROOF
<1>. DEFINE n == Step(m)
            o == orig
            g == Goal(cond)
            h == Head(m.stack)
            j == code[m.pc]
<1>1. Frozen /\ Caller \in Int /\ OrigOK(o)
  BY ConstantTypes DEF Running
<1>2. /\ isa = "x86_64" /\ o.pc = Callee /\ Moved(Head(o.stack)) /\ k = 0 /\ m.pc = Landing(Head(o.stack)) - 2
      /\ m.rd = o.rd /\ m.lr = Caller /\ m.stack = <<h>> \o <<Caller>> /\ (jumped \/ h = 0)
  BY DEF Returning
<1>3. PICK r \in Returns : /\ Head(o.stack) = r /\ Fields(g, r, o.rd, o.tmp, o.x17, o.lr, o.x15, <<Caller>>)
  BY <1>2, LeaveGoal, Zenon
<1>4. PICK a \in DOMAIN starts : r = End(a) /\ prog[a].op = "call"
  BY <1>1, <1>2, <1>3, ReturnFacts
<1>5. starts[a] \in Nat /\ Landing(r) \in Nat /\ CopyOf(code, prog[a], a, starts[a], Landing(r)) /\ a \in DOMAIN prog /\ r # Callee
  BY <1>1, <1>4, CopyFacts, ReturnFacts
<1>6. Holds(code, starts[a] + 15, Insn("poptmp", 2, 0)) /\ Landing(r) = starts[a] + 17
  BY <1>2, <1>4, <1>5 DEF CopyOf, X86Copy
<1>7. m.pc = starts[a] + 15 /\ m.pc \in DOMAIN code /\ j = Insn("poptmp", 2, 0)
  BY <1>2, <1>3, <1>5, <1>6, SMT, Z3 DEF Holds
<1>8. j.op = "poptmp" /\ j.size = 2 /\ j.arg = 0
  BY <1>7, InsnFields, SMT, Z3
<1>9. n = Exec(m, j, cond)
  BY <1>1, <1>7, StepFacts
<1>10. h \in Int
  <2>1. m.stack \in Seq(Int)
    BY DEF Machines
  <2>2. m.stack # <<>>
    BY <1>1, <1>2, <2>1
  <2>. QED  BY <2>1, <2>2
<1>11. o.lr = Caller
  BY <1>1, <1>2 DEF OrigOK
<1>. HIDE DEF n, g, h, j
<1>12. Fields(n, Landing(r), m.rd, h, m.x17, m.lr, m.x15, <<Caller>>)
  <2>. DEFINE st == <<Caller>>
  <2>. HIDE DEF st
  <2>1. m.stack = <<h>> \o st /\ st \in Seq(Int)
    BY <1>1, <1>2, BottomFacts DEF st
  <2>2. j.size \in Int /\ j.arg \in Int
    BY <1>8
  <2>3. Fields(n, m.pc + j.size, m.rd, h, m.x17, m.lr, m.x15, st)
    BY <2>1, <2>2, <1>8, <1>9, <1>10, ExecStack, Zenon
  <2>4. m.pc + j.size = Landing(r)
    BY <1>5, <1>6, <1>7, <1>8
  <2>. QED  BY <2>3, <2>4 DEF st
<1>13. Related(g, n)
  BY <1>2, <1>3, <1>5, <1>11, <1>12 DEF Related, Fields
<1>14. Once = 0
  BY <1>1, <1>2, Outside, TextFacts DEF Once, Frozen, BuildInv
<1>15. n \in Machines /\ n.pc = Landing(End(a)) /\ g.pc = End(a)
  BY <1>3, <1>4, <1>12 DEF Fields
<1>16. Progress(n, Once)
  BY <1>4, <1>13, <1>15, Landed DEF g
<1>. QED  BY <1>2, <1>7, <1>14, <1>16 DEF n

\* Inside of a sequence of moves there are instructions.
LEMMA MovsIn ==
    ASSUME NEW t, NEW m, NEW s \in Int, NEW reg, NEW v \in Addresses, Movs(t, s, reg, v), InMovs(m, s, reg, v)
    PROVE  m.pc \in DOMAIN t \/ m.pc = MovAt(s, v, 4)
PROOF
<1>1. CASE m.pc = MovAt(s, v, 4)
  BY <1>1
<1>2. CASE \E h \in 1 .. 3 : Halfword(v, h) # 0 /\ m.pc = MovAt(s, v, h) /\ m[reg] = Low(v, h)
  BY <1>2 DEF Movs, Holds
<1>. QED  BY <1>1, <1>2, MovsStates

\* Behind MovAbs the register holds the value.
LEMMA MovsDone ==
    ASSUME NEW m, NEW s \in Int, NEW reg, NEW v \in Addresses, InMovs(m, s, reg, v), m.pc = MovAt(s, v, 4)
    PROVE  m[reg] = v
PROOF
<1>1. CASE \E h \in 1 .. 3 : Halfword(v, h) # 0 /\ m.pc = MovAt(s, v, h) /\ m[reg] = Low(v, h)
  <2>1. PICK h \in 1 .. 3 : Halfword(v, h) # 0 /\ m.pc = MovAt(s, v, h)
    BY <1>1
  <2>2. MovAt(s, v, h) < MovAt(s, v, 4) /\ MovAt(s, v, h) \in Int /\ MovAt(s, v, 4) \in Int
    BY <2>1, MovAtFacts
  <2>. QED  BY <2>1, <2>2
<1>. QED  BY <1>1, MovsStates

\* The constants that the builder of aarch64 loads are addresses.
LEMMA Loaded ==
    ASSUME Frozen
    PROVE  ProbeId \in Addresses /\ EntryStub \in Addresses /\ Fn + span \in Addresses
PROOF
<1>1. Fn + span \in Int /\ Fn <= Fn + span /\ Fn + span <= TextEnd
  BY RunFacts, ConstantTypes
<1>. QED  BY <1>1, ConstantTypes, RelocationAssumption

\* The jump to the rest of the function.
LEMMA LeavingStep ==
    ASSUME Running, NEW m \in Machines, NEW k, Leaving(m, k)
    PROVE  Progress(Step(m), Once) /\ k = Once /\ m.pc \in DOMAIN code
PROOF
<1>. DEFINE n == Step(m)
            g == Goal(cond)
            v == Fn + span
            j == code[m.pc]
<1>1. Frozen /\ cond \in BOOLEAN /\ v \in Addresses /\ v \in Int /\ suffix \in Int /\ suffix \in Nat /\ isa \in {"x86_64", "aarch64"}
  BY Loaded, RunFacts, ConstantTypes DEF Running
<1>2. /\ Related(g, m) /\ g.pc = v /\ cursor = v /\ k = Once
      /\ m.pc = suffix \/ (isa = "aarch64" /\ InMovs(m, suffix, "tmp", v))
  BY DEF Leaving
<1>3. v \in DOMAIN prog \cup {Callee, Caller} /\ v \notin DOMAIN starts
  <2>1. OrigOK(g)
    BY OrigStep
  <2>. QED  BY <2>1, <1>1, <1>2, RunFacts DEF OrigOK, There
<1>4. SuffixAt(code)
  BY <1>1, RunFacts
<1>5. m.pc \in DOMAIN code => n = Exec(m, j, cond)
  BY <1>1, StepFacts
<1>. HIDE DEF n, g, v, j
<1>6. ASSUME Fields(n, v, m.rd, m.tmp, m.x17, m.lr, m.x15, m.stack) PROVE Progress(n, Once)
  <2>1. n \in Machines /\ n.pc = g.pc /\ n.pc = v
    BY <1>2, <1>6 DEF Fields
  <2>2. Related(g, n)
    BY <1>2, <1>6 DEF Related, Fields
  <2>. QED  BY <2>1, <2>2, <1>3, Direct, Zenon DEF g
<1>7. CASE isa = "x86_64"
  <2>1. /\ m.pc = suffix /\ m.pc \in DOMAIN code /\ j = Insn("jmpi", 6, 8)
        /\ code[suffix + 14] = Insn("quad", 8, v)
    BY <1>2, <1>4, <1>7 DEF SuffixAt, X86SuffixAt, Holds, j, v
  <2>2. j.op = "jmpi" /\ j.size = 6 /\ j.arg = 8 /\ code[suffix + 14].arg = v
    BY <2>1, InsnFields
  <2>3. m.pc + j.size + j.arg = suffix + 14 /\ j.size \in Int /\ j.arg \in Int
    BY <2>1, <2>2, <1>1
  <2>4. code[m.pc + j.size + j.arg].arg = v
    BY <2>2, <2>3
  <2>5. Fields(n, v, m.rd, m.tmp, m.x17, m.lr, m.x15, m.stack)
    BY <2>1, <2>2, <2>3, <2>4, <1>1, <1>5, ExecJump
  <2>. QED  BY <2>1, <2>5, <1>2, <1>6 DEF n
<1>8. CASE isa = "aarch64"
  <2>1. Movs(code, suffix, "tmp", v) /\ Holds(code, MovAt(suffix, v, 4), Insn("jmptmp", 4, 0))
    BY <1>4, <1>8 DEF SuffixAt, A64SuffixAt, v
  <2>2. CASE m.pc = MovAt(suffix, v, 4) /\ m.pc # suffix
    <3>1. m["tmp"] = v
      BY <2>2, <1>1, <1>2, MovsDone
    <3>2. m.pc \in DOMAIN code /\ j = Insn("jmptmp", 4, 0)
      BY <2>1, <2>2 DEF Holds, j
    <3>3. j.op = "jmptmp" /\ j.size \in Int /\ j.arg \in Int
      BY <3>2, InsnFields, SMT, Z3
    <3>4. Fields(n, v, m.rd, m.tmp, m.x17, m.lr, m.x15, m.stack)
      BY <3>1, <3>2, <3>3, <1>1, <1>5, ExecJump
    <3>. QED  BY <3>2, <3>4, <1>2, <1>6 DEF n
  <2>3. CASE m.pc # MovAt(suffix, v, 4) \/ m.pc = suffix
    <3>1. m.pc = suffix \/ (InMovs(m, suffix, "tmp", v) /\ m.pc # MovAt(suffix, v, 4))
      BY <2>3, <1>2
    <3>2. /\ m.pc \in DOMAIN code
          /\ LET x == Exec(m, code[m.pc], cond)
             IN  InMovs(x, suffix, "tmp", v) /\ Sets(x, m, x.pc, "tmp", x["tmp"]) /\ x.pc > suffix
      BY <3>1, <2>1, <1>1, MovsStep, Zenon
    <3>3. InMovs(n, suffix, "tmp", v) /\ Sets(n, m, n.pc, "tmp", n["tmp"]) /\ n.pc > suffix
      BY <3>2, <1>5 DEF j
    <3>4. n \in Machines /\ n.pc \in Int /\ n.rd = m.rd /\ n.lr = m.lr /\ n.stack = m.stack
      BY <3>3 DEF Sets, Machines
    <3>5. n.pc \in DOMAIN code
      BY <3>3, <2>1, <1>1, MovsIn DEF Holds
    <3>6. ~Comparable(n.pc)
      BY <3>3, <3>4, <3>5, <1>1, NotComparable, SMT, Z3
    <3>7. Related(g, n)
      BY <3>4, <1>2, <1>8 DEF Related
    <3>8. Leaving(n, Once)
      BY <3>3, <3>7, <1>2, <1>8 DEF Leaving, g, v
    <3>. QED  BY <3>2, <3>4, <3>6, <3>8, <1>2 DEF Progress, OnTheWay, n
  <2>. QED  BY <2>2, <2>3
<1>. QED  BY <1>1, <1>7, <1>8

\* The prefix on aarch64.
LEMMA A64EnterStep ==
    ASSUME Running, isa # "x86_64", orig.pc = Fn, NEW m \in Machines, NEW k, A64Entering(m, k)
    PROVE  Progress(Step(m), k + (IF m.pc = EntryStub THEN 1 ELSE 0))
PROOF
<1>. DEFINE n == Step(m)
            j == code[m.pc]
            lr == LinkReg
            id == ProbeId
            stub == EntryStub
<1>1. Frozen /\ Tr \in Int /\ orig.pc \in DOMAIN prog /\ id \in Addresses /\ stub \in Addresses /\ stub \in Int /\ cond \in BOOLEAN
  BY ConstantTypes, TextFacts, Loaded DEF Running, Frozen, BuildInv
<1>2. /\ IdAt \in Int /\ StubAt \in Int /\ CallAt \in Int /\ Tr < IdAt /\ IdAt < StubAt /\ StubAt < CallAt
      /\ PrefixEnd = CallAt + 8 /\ IdAt = Tr + 4 /\ StubAt = MovAt(IdAt, id, 4) /\ CallAt = MovAt(StubAt, stub, 4)
  BY PrefixAddresses DEF IdAt, StubAt, CallAt
<1>3. /\ Holds(code, Tr, Insn("savelr", 4, 0)) /\ Movs(code, IdAt, "x17", id) /\ Movs(code, StubAt, "tmp", stub)
      /\ Holds(code, CallAt, Insn("calltmp", 4, 0)) /\ Holds(code, CallAt + 4, Insn("restorelr", 4, 0))
  BY <1>1, RunFacts DEF PrefixAt, A64PrefixAt
<1>4. \A x \in DOMAIN code : x # EntryStub
  BY <1>1, Outside
<1>5. m.rd = orig.rd /\ m.stack = <<Caller>>
  BY DEF A64Entering
<1>6. m.pc \in DOMAIN code => n = Exec(m, j, cond)
  BY <1>1, StepFacts
<1>7. IdAt \in DOMAIN code /\ StubAt \in DOMAIN code
  BY <1>3 DEF Movs, Holds
<1>. HIDE DEF n, j, lr, id, stub
<1>8. ASSUME NEW x, n \in Machines, n.rd = m.rd, n.stack = m.stack,
             n.pc = EntryStub \/ (n.pc \in DOMAIN code /\ n.pc <= PrefixEnd),
             \/ n.pc = IdAt /\ n.x15 = lr /\ x = 0
             \/ InMovs(n, IdAt, "x17", id) /\ n.x15 = lr /\ x = 0
             \/ InMovs(n, StubAt, "tmp", stub) /\ n.x17 = id /\ n.x15 = lr /\ x = 0
             \/ n.pc = EntryStub /\ n.lr = CallAt + 4 /\ n.x17 = id /\ n.x15 = lr /\ x = 0
             \/ n.pc = CallAt + 4 /\ n.x15 = lr /\ x = 1
      PROVE  Progress(n, x)
  <2>1. Entering(n, x)
    BY <1>5, <1>8 DEF Entering, A64Entering, lr, id, stub, LinkReg
  <2>2. ~Comparable(n.pc)
    <3>1. CASE n.pc = EntryStub
      BY <3>1 DEF Comparable
    <3>2. CASE n.pc \in DOMAIN code /\ n.pc <= PrefixEnd
      BY <3>2, <1>1, NotComparable
    <3>. QED  BY <1>8, <3>1, <3>2
  <2>. QED  BY <2>1, <2>2, <1>8 DEF Progress, OnTheWay
<1>9. CASE m.pc = Tr /\ m.lr = lr /\ k = 0
  <2>1. m.pc \in DOMAIN code /\ j = Insn("savelr", 4, 0)
    BY <1>3, <1>9 DEF Holds, j
  <2>2. j.op = "savelr" /\ j.size = 4
    BY <2>1, InsnFields
  <2>3. m.pc + j.size = IdAt /\ j.size \in Int
    BY <2>2, <1>2, <1>9
  <2>4. Fields(n, IdAt, m.rd, m.tmp, m.x17, m.lr, m.lr, m.stack)
    <3>1. Fields(n, m.pc + j.size, m.rd, m.tmp, m.x17, m.lr, m.lr, m.stack)
      BY <2>1, <2>2, <2>3, <1>6, ExecLr
    <3>. QED  BY <3>1, <2>3
  <2>5. Progress(n, 0)
    BY <2>4, <1>2, <1>7, <1>8, <1>9 DEF Fields
  <2>. QED  BY <2>1, <2>5, <1>4, <1>9 DEF n
<1>10. CASE (m.pc = IdAt \/ (InMovs(m, IdAt, "x17", id) /\ m.pc # StubAt)) /\ m.x15 = lr /\ k = 0
  <2>1. m.pc = IdAt \/ (InMovs(m, IdAt, "x17", id) /\ m.pc # MovAt(IdAt, id, 4))
    BY <1>2, <1>10
  <2>2. /\ m.pc \in DOMAIN code
        /\ LET x == Exec(m, code[m.pc], cond)
           IN  InMovs(x, IdAt, "x17", id) /\ Sets(x, m, x.pc, "x17", x["x17"]) /\ x.pc <= MovAt(IdAt, id, 4)
    BY <2>1, <1>1, <1>2, <1>3, MovsStep, Zenon
  <2>3. InMovs(n, IdAt, "x17", id) /\ Sets(n, m, n.pc, "x17", n["x17"]) /\ n.pc <= StubAt
    BY <2>2, <1>2, <1>6 DEF j
  <2>4. n \in Machines /\ n.pc \in Int /\ n.rd = m.rd /\ n.stack = m.stack /\ n.x15 = m.x15
    BY <2>3 DEF Sets, Machines
  <2>5. n.pc \in DOMAIN code
    BY <2>3, <1>1, <1>2, <1>3, <1>7, MovsIn, Zenon
  <2>6. n.pc <= PrefixEnd
    BY <2>3, <2>4, <1>2
  <2>7. Progress(n, 0)
    BY <2>3, <2>4, <2>5, <2>6, <1>8, <1>10
  <2>. QED  BY <2>2, <2>7, <1>4, <1>10 DEF n
<1>11. CASE \/ InMovs(m, IdAt, "x17", id) /\ m.pc = StubAt /\ m.x15 = lr /\ k = 0
            \/ InMovs(m, StubAt, "tmp", stub) /\ m.pc # CallAt /\ m.x17 = id /\ m.x15 = lr /\ k = 0
  <2>1. m.pc = StubAt \/ (InMovs(m, StubAt, "tmp", stub) /\ m.pc # MovAt(StubAt, stub, 4))
    BY <1>2, <1>11
  <2>2. m.x17 = id
    <3>1. CASE InMovs(m, IdAt, "x17", id) /\ m.pc = StubAt
      <4>1. m["x17"] = id
        BY <3>1, <1>1, <1>2, MovsDone
      <4>. QED  BY <4>1
    <3>. QED  BY <3>1, <1>11
  <2>3. /\ m.pc \in DOMAIN code
        /\ LET x == Exec(m, code[m.pc], cond)
           IN  InMovs(x, StubAt, "tmp", stub) /\ Sets(x, m, x.pc, "tmp", x["tmp"]) /\ x.pc <= MovAt(StubAt, stub, 4)
    BY <2>1, <1>1, <1>2, <1>3, MovsStep, Zenon
  <2>4. InMovs(n, StubAt, "tmp", stub) /\ Sets(n, m, n.pc, "tmp", n["tmp"]) /\ n.pc <= CallAt
    BY <2>3, <1>2, <1>6 DEF j
  <2>5. n \in Machines /\ n.pc \in Int /\ n.rd = m.rd /\ n.stack = m.stack /\ n.x15 = m.x15 /\ n.x17 = m.x17
    BY <2>4 DEF Sets, Machines
  <2>6. n.pc \in DOMAIN code
    BY <2>4, <1>1, <1>2, <1>3, MovsIn DEF Holds
  <2>7. n.pc <= PrefixEnd
    BY <2>4, <2>5, <1>2
  <2>8. Progress(n, 0)
    BY <2>2, <2>4, <2>5, <2>6, <2>7, <1>8, <1>11
  <2>. QED  BY <2>3, <2>8, <1>4, <1>11 DEF n
<1>12. CASE InMovs(m, StubAt, "tmp", stub) /\ m.pc = CallAt /\ m.x17 = id /\ m.x15 = lr /\ k = 0
  <2>1. m["tmp"] = stub
    BY <1>1, <1>2, <1>12, MovsDone
  <2>2. m.pc \in DOMAIN code /\ j = Insn("calltmp", 4, 0)
    BY <1>3, <1>12 DEF Holds, j
  <2>3. j.op = "calltmp" /\ j.size = 4 /\ j.arg = 0
    BY <2>2, InsnFields
  <2>4. j.size \in Int /\ j.arg \in Int /\ stub = m.tmp
    BY <2>1, <2>3
  <2>5. Fields(n, stub, m.rd, m.tmp, m.x17, CallAt + 4, m.x15, m.stack)
    <3>1. Fields(n, stub, m.rd, m.tmp, m.x17, m.pc + j.size, m.x15, m.stack)
      BY <2>2, <2>3, <2>4, <1>1, <1>6, ExecCall
    <3>. QED  BY <3>1, <2>3, <1>12
  <2>6. Progress(n, 0)
    BY <2>5, <1>8, <1>12 DEF Fields, stub
  <2>. QED  BY <2>2, <2>6, <1>4, <1>12, SMT, Z3 DEF n
<1>13. CASE m.pc = EntryStub /\ m.lr = CallAt + 4 /\ m.x17 = id /\ m.x15 = lr /\ k = 0
  <2>1. n = Leave(m)
    BY <1>1, <1>13, StepFacts DEF n
  <2>2. Fields(n, CallAt + 4, m.rd, m.tmp, m.x17, m.lr, m.x15, m.stack)
    BY <2>1, <1>13, LeaveFacts
  <2>3. CallAt + 4 \in DOMAIN code /\ CallAt + 4 <= PrefixEnd
    BY <1>2, <1>3 DEF Holds
  <2>4. Progress(n, 1)
    BY <2>2, <2>3, <1>8, <1>13 DEF Fields
  <2>. QED  BY <2>4, <1>13, SMT, Z3 DEF n
<1>14. CASE m.pc = CallAt + 4 /\ m.x15 = lr /\ k = 1
  <2>1. m.pc \in DOMAIN code /\ j = Insn("restorelr", 4, 0)
    BY <1>3, <1>14 DEF Holds, j
  <2>2. j.op = "restorelr" /\ j.size = 4
    BY <2>1, InsnFields
  <2>3. m.pc + j.size = PrefixEnd /\ j.size \in Int
    BY <2>2, <1>2, <1>14, SMT, Z3
  <2>4. Fields(n, m.pc + j.size, m.rd, m.tmp, m.x17, m.x15, m.x15, m.stack)
    BY <2>1, <2>2, <2>3, <1>6, ExecLr
  <2>5. n \in Machines /\ n.pc = PrefixEnd /\ n.rd = m.rd /\ n.lr = lr /\ n.stack = m.stack
    BY <2>3, <2>4, <1>14 DEF Fields
  <2>6. TextRegs(n)
    BY <2>5, <1>5 DEF TextRegs, lr
  <2>7. Related(orig, n)
    BY <2>5, <2>6, <1>1, <1>5, TextRelated
  <2>8. Progress(n, 1)
    BY <2>5, <2>7, AtFirst
  <2>. QED  BY <2>1, <2>8, <1>4, <1>14 DEF n
<1>15. \/ m.pc = Tr /\ m.lr = lr /\ k = 0
       \/ m.pc = IdAt /\ m.x15 = lr /\ k = 0
       \/ InMovs(m, IdAt, "x17", id) /\ m.x15 = lr /\ k = 0
       \/ InMovs(m, StubAt, "tmp", stub) /\ m.x17 = id /\ m.x15 = lr /\ k = 0
       \/ m.pc = EntryStub /\ m.lr = CallAt + 4 /\ m.x17 = id /\ m.x15 = lr /\ k = 0
       \/ m.pc = CallAt + 4 /\ m.x15 = lr /\ k = 1
  BY DEF A64Entering, lr, LinkReg, id, stub
<1>. QED  BY <1>9, <1>10, <1>11, <1>12, <1>13, <1>14, <1>15, Zenon

\* Among the instructions of MovAbs in the copy of an instruction on aarch64.
LEMMA A64MovStep ==
    ASSUME Running, isa # "x86_64", orig.pc \in DOMAIN starts, NEW b \in Int, NEW reg \in {"rd", "tmp"}, NEW m \in Machines,
           Movs(code, b, reg, Target(orig.pc, prog[orig.pc])),
           m.pc = b \/ (InMovs(m, b, reg, Target(orig.pc, prog[orig.pc])) /\ m.pc # MovAt(b, Target(orig.pc, prog[orig.pc]), 4)),
           TextRegs(m), reg = "tmp" => m.rd = orig.rd,
           \/ prog[orig.pc].op = "adr" /\ reg = "rd" /\ b = starts[orig.pc]
           \/ prog[orig.pc].op \in {"call", "jmp"} /\ reg = "tmp" /\ b = starts[orig.pc]
           \/ prog[orig.pc].op = "jcc" /\ reg = "tmp" /\ b = starts[orig.pc] + 4 /\ cond
    PROVE  Progress(Step(m), Once) /\ m.pc \in DOMAIN code
PROOF
<1>. DEFINE n == Step(m)
            g == Goal(cond)
            i == prog[orig.pc]
            v == Target(orig.pc, i)
            s == starts[orig.pc]
            e == Landing(End(orig.pc))
            q == MovAt(b, v, 4)
<1>1. Frozen /\ orig.pc \in DOMAIN prog /\ s \in Nat /\ e \in Nat /\ A64Copy(code, i, orig.pc, s, e)
  BY CopyFacts, Zenon DEF Running, CopyOf
<1>2. v \in Addresses
  BY <1>1, OpFacts, Zenon
<1>3. q \in Int
  BY MovAtFacts
<1>4. /\ m.pc \in DOMAIN code
      /\ LET x == Exec(m, code[m.pc], cond)
         IN  InMovs(x, b, reg, v) /\ Sets(x, m, x.pc, reg, x[reg]) /\ x.pc > b /\ x.pc <= MovAt(b, v, 4)
  BY <1>2, MovsStep, Zenon
<1>5. n = Exec(m, code[m.pc], cond)
  BY <1>1, <1>4, StepFacts, Zenon
<1>. HIDE DEF n, g, i, v, s, e, q
<1>6. InMovs(n, b, reg, v) /\ Sets(n, m, n.pc, reg, n[reg]) /\ n.pc > b /\ n.pc <= q
  BY <1>4, <1>5, Zenon DEF q
<1>7. n \in Machines /\ n.pc \in Int /\ n.lr = m.lr /\ n.stack = m.stack /\ (reg = "tmp" => n.rd = m.rd)
  BY <1>6 DEF Sets, Machines
<1>8. TextRegs(n)
  BY <1>7 DEF TextRegs
<1>9. ASSUME n.pc \in DOMAIN code, n.pc \in s + 1 .. e - 1 PROVE Progress(n, Once)
  <2>1. A64Inside(n, i, s)
    BY <1>6, <1>7, <1>8 DEF A64Inside, TextRegs, LinkReg, v, i, s
  <2>. QED  BY <2>1, <1>7, <1>9, StillInside, Zenon DEF i, s, e
<1>10. n.pc \in DOMAIN code \/ n.pc = q
  BY <1>2, <1>6, MovsIn DEF v, q, i
<1>11. m.pc \in DOMAIN code
  BY <1>4
<1>12. CASE i.op = "adr"
  <2>1. e = q /\ reg = "rd" /\ b = s
    BY <1>1, <1>12 DEF A64Copy, q, v, i, s
  <2>2. CASE n.pc = q
    <3>1. n["rd"] = v
      BY <2>1, <2>2, <1>2, <1>6, MovsDone DEF q
    <3>2. ~Jumping
      BY <1>1, <1>12, Outside DEF Jumping, Op, Jumps, i
    <3>3. g.pc = End(orig.pc) /\ g.rd = v
      BY <3>2, <1>1, <1>12, Mirror, Zenon DEF g, i, v
    <3>4. Related(g, n)
      BY <3>1, <3>3, <1>1, <1>8, <1>12, Mirror DEF g, i
    <3>5. Progress(n, Once)
      BY <2>1, <2>2, <3>3, <3>4, <1>7, <1>12, Landed DEF g, i, e
    <3>. QED  BY <3>5, <1>11 DEF n
  <2>3. CASE n.pc # q
    <3>1. n.pc \in s + 1 .. e - 1
      BY <2>1, <2>3, <1>3, <1>6, <1>7, SMT, Z3
    <3>2. Progress(n, Once)
      BY <2>3, <3>1, <1>9, <1>10
    <3>. QED  BY <3>2, <1>11 DEF n
  <2>. QED  BY <2>2, <2>3, Zenon
<1>13. CASE i.op \in {"call", "jmp", "jcc"}
  <2>1. e = q + 4 /\ q \in DOMAIN code /\ b >= s
    <3>1. CASE i.op \in {"call", "jmp"}
      BY <3>1, <1>1 DEF A64Copy, Holds, q, v, i, s
    <3>2. CASE i.op = "jcc"
      BY <3>2, <1>1, SMT, Z3 DEF A64Copy, Holds, q, v, i, s
    <3>. QED  BY <3>1, <3>2, <1>13
  <2>2. n.pc \in s + 1 .. e - 1
    BY <2>1, <1>1, <1>3, <1>6, <1>7, SMT, Z3
  <2>3. Progress(n, Once)
    BY <2>1, <2>2, <1>9, <1>10, Zenon
  <2>. QED  BY <2>3, <1>11 DEF n
<1>. QED  BY <1>12, <1>13 DEF i

\* The first instruction of a copy on aarch64.
LEMMA A64FirstStep ==
    ASSUME Running, isa # "x86_64", orig.pc \in DOMAIN starts, NEW m \in Machines, m.pc = starts[orig.pc], Related(orig, m)
    PROVE  Progress(Step(m), Once)
PROOF
<1>. DEFINE n == Step(m)
            i == prog[orig.pc]
            s == starts[orig.pc]
            e == Landing(End(orig.pc))
            v == Target(orig.pc, i)
            j == code[m.pc]
<1>1. Frozen /\ cond \in BOOLEAN
  BY DEF Running
<1>2. orig.pc \in DOMAIN prog /\ s \in Nat /\ e \in Nat /\ A64Copy(code, i, orig.pc, s, e) /\ s < e
  BY <1>1, CopyFacts DEF CopyOf
<1>3. m.rd = orig.rd /\ TextRegs(m)
  BY <1>2, TextRelated
<1>4. /\ i.op \in {"plain", "unknown", "ret", "adr", "ldr", "call", "jmp", "jcc"}
      /\ i.size \in Int /\ i.arg \in Int
  BY <1>1, <1>2, OpFacts, RunFacts, Zenon
<1>5. m.pc \in DOMAIN code
  BY <1>1, CopyStart
<1>6. n = Exec(m, j, cond)
  BY <1>1, <1>5, StepFacts
<1>. HIDE DEF n, i, s, e, v, j
<1>7. CASE i.op \in {"plain", "unknown", "ret", "ldr"}
  <2>1. Holds(code, s, i) /\ e = s + i.size /\ i.op # "ldr"
    BY <1>2, <1>7 DEF A64Copy
  <2>. QED  BY <2>1, <1>4, <1>7, PlainCopy DEF n, i, s, e
<1>8. CASE i.op = "adr"
  <2>1. Movs(code, s, "rd", v)
    BY <1>2, <1>8 DEF A64Copy, v
  <2>. QED  BY <2>1, <1>2, <1>3, <1>8, A64MovStep, SMT, Z3 DEF i, s, v
<1>9. CASE i.op \in {"call", "jmp"}
  <2>1. Movs(code, s, "tmp", v)
    BY <1>2, <1>9 DEF A64Copy, v
  <2>. QED  BY <2>1, <1>2, <1>3, <1>9, A64MovStep, SMT, Z3 DEF i, s, v
<1>10. CASE i.op = "jcc"
  <2>1. j = Insn("jncc", 4, e - (s + 4)) /\ s + 4 \in DOMAIN code /\ e = MovAt(s + 4, v, 4) + 4
    BY <1>2, <1>10 DEF A64Copy, Holds, Movs, j, s, v
  <2>2. j.op = "jncc" /\ j.size = 4 /\ j.arg = e - (s + 4)
    BY <2>1, InsnFields
  <2>3. m.pc + j.size = s + 4 /\ m.pc + j.size + j.arg = e /\ j.size \in Int /\ j.arg \in Int
    <3>1. m.pc = s
      BY DEF s
    <3>. QED  BY <3>1, <2>2, <1>2
  <2>4. Fields(n, IF cond THEN s + 4 ELSE e, m.rd, m.tmp, m.x17, m.lr, m.x15, m.stack)
    <3>1. Fields(n, IF cond THEN m.pc + j.size ELSE m.pc + j.size + j.arg, m.rd, m.tmp, m.x17, m.lr, m.x15, m.stack)
      BY <2>2, <2>3, <1>1, <1>6, ExecJump
    <3>. QED  BY <3>1, <2>3
  <2>5. n \in Machines /\ n.rd = orig.rd /\ TextRegs(n)
    BY <2>4, <1>3 DEF Fields, TextRegs
  <2>6. CASE cond
    <3>1. n.pc = s + 4
      BY <2>4, <2>6 DEF Fields
    <3>2. MovAt(s + 4, v, 4) \in Int /\ MovAt(s + 4, v, 4) >= s + 4 + 4
      BY <1>2, MovAtFacts, SMT, Z3
    <3>3. s + 4 \in s + 1 .. e - 1
      BY <3>2, <2>1, <1>2, SMT, Z3
    <3>4. A64Inside(n, i, s)
      BY <3>1, <2>5, <2>6, <1>10 DEF A64Inside, TextRegs, LinkReg
    <3>. QED  BY <3>1, <3>3, <3>4, <2>1, <2>5, StillInside DEF n, i, s, e
  <2>7. CASE ~cond
    <3>1. n.pc = e
      BY <2>4, <2>7 DEF Fields
    <3>. QED  BY <3>1, <2>5, <2>7, <1>10, NotTaken DEF n, i, e
  <2>. QED  BY <2>6, <2>7
<1>. QED  BY <1>4, <1>7, <1>8, <1>9, <1>10

\* Inside of a copy on aarch64.
LEMMA A64InsideStep ==
    ASSUME Running, isa # "x86_64", orig.pc \in DOMAIN starts, NEW m \in Machines,
           A64Inside(m, prog[orig.pc], starts[orig.pc]), m.pc < Landing(End(orig.pc))
    PROVE  Progress(Step(m), Once) /\ m.pc \in DOMAIN code
PROOF
<1>. DEFINE n == Step(m)
            i == prog[orig.pc]
            s == starts[orig.pc]
            e == Landing(End(orig.pc))
            v == Target(orig.pc, i)
            j == code[m.pc]
            g == Goal(cond)
<1>1. Frozen /\ cond \in BOOLEAN /\ orig \in Machines /\ m.pc \in Int
  BY DEF Running, Machines
<1>2. orig.pc \in DOMAIN prog /\ s \in Nat /\ s \in Int /\ s + 4 \in Int /\ e \in Nat /\ A64Copy(code, i, orig.pc, s, e)
  BY <1>1, CopyFacts, SMT, Z3 DEF CopyOf
<1>3. TextRegs(m)
  BY DEF A64Inside, TextRegs, LinkReg
<1>4. Op = i.op
  BY <1>1, <1>2, Outside DEF Op
<1>5. m.pc \in DOMAIN code => n = Exec(m, j, cond)
  BY <1>1, StepFacts
<1>6. i.op \in {"jmp", "jcc", "adr", "call"} => v \in Addresses /\ v \in Int
  <2>1. /\ i.size \in Int /\ i.arg \in Int /\ orig.pc \in Int /\ v = orig.pc + i.size + i.arg
        /\ i.op \in {"jmp", "jcc", "adr", "call"} => v \in Addresses
    BY <1>1, <1>2, OpFacts, Zenon
  <2>. HIDE DEF i, v
  <2>. QED  BY <2>1
<1>7. i.op = "jmp" => cond
  BY <1>4, Zenon DEF Running, Chosen
<1>. HIDE DEF n, i, s, e, v, j, g
<1>8. CASE i.op = "adr" /\ InMovs(m, s, "rd", v)
  <2>1. Movs(code, s, "rd", v) /\ e = MovAt(s, v, 4)
    BY <1>2, <1>8 DEF A64Copy, v
  <2>2. m.pc # MovAt(s, v, 4)
    BY <2>1, <1>2, SMT, Z3 DEF e
  <2>. QED  BY <2>1, <2>2, <1>2, <1>3, <1>8, A64MovStep, Zenon DEF n, i, s, v
<1>9. CASE i.op \in {"call", "jmp"} /\ InMovs(m, s, "tmp", v) /\ m.rd = orig.rd /\ m.pc # MovAt(s, v, 4)
  <2>1. Movs(code, s, "tmp", v)
    BY <1>2, <1>9 DEF A64Copy, v
  <2>. QED  BY <2>1, <1>2, <1>3, <1>9, A64MovStep, Zenon DEF n, i, s, v
<1>10. CASE /\ i.op = "jcc" /\ cond /\ m.rd = orig.rd
            /\ m.pc = s + 4 \/ (InMovs(m, s + 4, "tmp", v) /\ m.pc # MovAt(s + 4, v, 4))
  <2>1. Movs(code, s + 4, "tmp", v)
    BY <1>2, <1>10 DEF A64Copy, v
  <2>. QED  BY <2>1, <1>2, <1>3, <1>10, A64MovStep, Zenon DEF n, i, s, v
<1>11. CASE i.op = "call" /\ InMovs(m, s, "tmp", v) /\ m.rd = orig.rd /\ m.pc = MovAt(s, v, 4)
  <2>1. m["tmp"] = v
    BY <1>2, <1>6, <1>11, MovsDone
  <2>2. v = Callee /\ Callee \in Int
    BY <1>1, <1>2, <1>11, OpFacts, SMT, Z3 DEF i, v
  <2>3. m.pc \in DOMAIN code /\ j = Insn("calltmp", 4, 0) /\ e = m.pc + 4
    BY <1>2, <1>11 DEF A64Copy, Holds, j, v
  <2>4. j.op = "calltmp" /\ j.size = 4 /\ j.arg = 0
    BY <2>3, InsnFields
  <2>5. j.size \in Int /\ j.arg \in Int /\ Callee = m.tmp
    BY <2>1, <2>2, <2>4
  <2>6. Fields(n, Callee, m.rd, m.tmp, m.x17, e, m.x15, m.stack)
    <3>1. Fields(n, Callee, m.rd, m.tmp, m.x17, m.pc + j.size, m.x15, m.stack)
      BY <2>2, <2>3, <2>4, <2>5, <1>5, ExecCall
    <3>. QED  BY <3>1, <2>3, <2>4
  <2>7. Fields(g, Callee, orig.rd, orig.tmp, orig.x17, End(orig.pc), orig.x15, <<Caller>>)
    BY <1>1, <1>2, <1>11, GoalFacts, TextRelated, Zenon DEF g, i
  <2>8. Moved(End(orig.pc))
    BY <1>1, CopyFacts, RunFacts, SMT, Z3 DEF Moved
  <2>9. Related(g, n)
    BY <2>6, <2>7, <2>8, <1>3, <1>11 DEF Related, Fields, TextRegs, e
  <2>10. n \in Machines /\ n.pc = g.pc /\ n.pc = Callee
    BY <2>6, <2>7 DEF Fields
  <2>11. Callee \notin DOMAIN starts
    BY <1>1, RunFacts, Outside
  <2>. QED  BY <2>3, <2>9, <2>10, <2>11, Direct DEF g, n
<1>12. CASE /\ cond /\ m.rd = orig.rd
            /\ \/ i.op = "jmp" /\ InMovs(m, s, "tmp", v) /\ m.pc = MovAt(s, v, 4)
               \/ i.op = "jcc" /\ InMovs(m, s + 4, "tmp", v) /\ m.pc = MovAt(s + 4, v, 4)
  <2>1. m["tmp"] = v
    BY <1>2, <1>6, <1>12, MovsDone
  <2>2. m.pc \in DOMAIN code /\ j = Insn("jmptmp", 4, 0)
    BY <1>2, <1>12 DEF A64Copy, Holds, j, v
  <2>3. j.op = "jmptmp" /\ j.size \in Int /\ j.arg \in Int /\ m.tmp = v
    <3>1. j.op = "jmptmp" /\ j.size = 4 /\ j.arg = 0
      BY <2>2, InsnFields, SMT, Z3
    <3>. QED  BY <3>1, <2>1
  <2>4. Fields(n, v, m.rd, m.tmp, m.x17, m.lr, m.x15, m.stack)
    BY <2>2, <2>3, <1>1, <1>5, ExecJump
  <2>5. Jumping
    BY <1>4, <1>12 DEF Jumping, Jumps
  <2>6. n \in Machines /\ n.pc = v /\ n.rd = orig.rd /\ TextRegs(n)
    BY <2>4, <1>3, <1>12 DEF Fields, TextRegs
  <2>. QED  BY <2>2, <2>5, <2>6, <1>2, JumpLands DEF n, v, i
<1>13. \/ i.op = "adr" /\ InMovs(m, s, "rd", v)
       \/ /\ m.rd = orig.rd
          /\ \/ i.op \in {"call", "jmp"} /\ InMovs(m, s, "tmp", v)
             \/ i.op = "jcc" /\ cond /\ (m.pc = s + 4 \/ InMovs(m, s + 4, "tmp", v))
  BY DEF A64Inside, i, s, v
<1>. QED  BY <1>7, <1>8, <1>9, <1>10, <1>11, <1>12, <1>13, Zenon DEF n

\* What was emitted can be executed, except for the two addresses behind the jump.
LEMMA EmittedRuns ==
    ASSUME NEW x
    PROVE  /\ \A op, size, arg : Holds(code, x, Insn(op, size, arg)) /\ op # "quad" => Executable(x)
           /\ \A op, reg, h, arg : Holds(code, x, Move(op, reg, h, arg)) /\ op # "quad" => Executable(x)
PROOF
<1>1. ASSUME NEW op, NEW size, NEW arg, Holds(code, x, Insn(op, size, arg)), op # "quad" PROVE Executable(x)
  <2>1. x \in DOMAIN code /\ code[x].op = op
    BY <1>1, InsnFields DEF Holds
  <2>. QED  BY <2>1, <1>1 DEF Executable
<1>2. ASSUME NEW op, NEW reg, NEW h, NEW arg, Holds(code, x, Move(op, reg, h, arg)), op # "quad" PROVE Executable(x)
  <2>1. x \in DOMAIN code /\ code[x].op = op
    BY <1>2, MoveFields DEF Holds
  <2>. QED  BY <2>1, <1>2 DEF Executable
<1>. QED  BY <1>1, <1>2

\* Each instruction of a sequence of moves is executable.
LEMMA MovsRun ==
    ASSUME NEW s \in Int, NEW reg, NEW v \in Addresses, Movs(code, s, reg, v)
    PROVE  Executable(s) /\ \A m : InMovs(m, s, reg, v) => Executable(m.pc) \/ m.pc = MovAt(s, v, 4)
PROOF
<1>1. Holds(code, s, Move("movz", reg, 0, Halfword(v, 0)))
  BY DEF Movs
<1>2. Executable(s)
  BY <1>1, EmittedRuns
<1>3. ASSUME NEW m, InMovs(m, s, reg, v), m.pc # MovAt(s, v, 4) PROVE Executable(m.pc)
  <2>1. PICK h \in 1 .. 3 : Halfword(v, h) # 0 /\ m.pc = MovAt(s, v, h)
    BY <1>3, MovsStates
  <2>2. Holds(code, m.pc, Move("movk", reg, h, Halfword(v, h)))
    BY <2>1 DEF Movs
  <2>. QED  BY <2>2, EmittedRuns
<1>. QED  BY <1>2, <1>3

\* Each copy can be executed from its beginning.
LEMMA CopyRuns ==
    ASSUME Frozen, NEW a \in DOMAIN starts
    PROVE  Executable(starts[a])
PROOF
<1>. DEFINE s == starts[a]
            i == prog[a]
            e == Landing(End(a))
            v == Target(a, i)
<1>1. CopyOf(code, i, a, s, e) /\ s \in Int /\ a \in DOMAIN prog
  BY CopyFacts, SMT, Z3
<1>2. /\ i.op \in {"plain", "unknown", "ret", "mem", "adr", "ldr", "call", "jmp", "jcc", "jrcxz", "loop"}
      /\ i.op \in {"jmp", "jcc", "adr", "call"} => v \in Addresses
  BY <1>1, OpFacts
<1>3. Holds(code, s, i) /\ i.op # "quad" => Executable(s)
  BY DEF Executable, Holds
<1>. HIDE DEF s, i, e, v
<1>4. CASE isa = "x86_64"
  <2>1. X86Copy(code, i, a, s, e)
    BY <1>1, <1>4 DEF CopyOf
  <2>2. CASE i.op = "call"
    BY <2>1, <2>2, EmittedRuns DEF X86Copy, s
  <2>3. CASE i.op = "jmp"
    BY <2>1, <2>3, EmittedRuns DEF X86Copy, s
  <2>4. CASE i.op = "jcc"
    BY <2>1, <2>4, EmittedRuns DEF X86Copy, s
  <2>5. CASE i.op = "mem"
    BY <2>1, <2>5, EmittedRuns DEF X86Copy, s
  <2>6. CASE i.op \notin {"call", "jmp", "jcc", "mem"}
    BY <2>1, <2>6, <1>2, <1>3 DEF X86Copy, s
  <2>. QED  BY <2>2, <2>3, <2>4, <2>5, <2>6
<1>5. CASE isa # "x86_64"
  <2>1. A64Copy(code, i, a, s, e)
    BY <1>1, <1>5 DEF CopyOf
  <2>2. CASE i.op = "adr"
    BY <2>1, <2>2, <1>1, <1>2, MovsRun DEF A64Copy, s, v
  <2>3. CASE i.op \in {"call", "jmp"}
    BY <2>1, <2>3, <1>1, <1>2, MovsRun DEF A64Copy, s, v
  <2>4. CASE i.op = "jcc"
    BY <2>1, <2>4, EmittedRuns DEF A64Copy, s
  <2>5. CASE i.op \notin {"call", "jmp", "jcc", "adr"}
    BY <2>1, <2>5, <1>2, <1>3 DEF A64Copy, s
  <2>. QED  BY <2>2, <2>3, <2>4, <2>5
<1>. QED  BY <1>4, <1>5

\* On its way the patched function comes to no address without an instruction.
LEMMA WayRuns ==
    ASSUME Running, NEW m \in Machines, NEW k, OnTheWay(m, k)
    PROVE  Executable(m.pc)
PROOF
<1>. DEFINE i == prog[orig.pc]
            s == starts[orig.pc]
            e == Landing(End(orig.pc))
            v == Target(orig.pc, i)
<1>1. Frozen /\ OrigOK(orig) /\ orig.pc # Caller /\ m.pc \in Int
  BY DEF Running, Chosen, Machines
<1>2. PrefixAt(code) /\ SuffixAt(code) /\ suffix \in Int
  BY <1>1, RunFacts
<1>3. CASE AtPoint(orig, m)
  <2>1. CASE orig.pc \in DOMAIN starts /\ orig.pc # Fn
    BY <2>1, <1>1, <1>3, CopyRuns DEF AtPoint, Image
  <2>2. CASE ~(orig.pc \in DOMAIN starts /\ orig.pc # Fn)
    BY <2>2, <1>1, <1>3 DEF AtPoint, Image, OrigOK, There, Executable
  <2>. QED  BY <2>1, <2>2
<1>4. CASE Entering(m, k) /\ isa = "x86_64"
  <2>1. Executable(EntryStub)
    BY DEF Executable
  <2>2. Executable(Tr) /\ Executable(Tr + 5) /\ Executable(Tr + 11)
    <3>1. /\ Holds(code, Tr, Insn("pushid", 5, ProbeId)) /\ Holds(code, Tr + 11, Insn("drop", 5, 0))
          /\ Holds(code, Tr + 5, Insn("calli", 6, code[Tr + 5].arg))
      BY <1>2, <1>4 DEF PrefixAt, X86PrefixAt, Holds
    <3>. QED  BY <3>1, EmittedRuns
  <2>. QED  BY <2>1, <2>2, <1>4 DEF Entering, X86Entering
<1>5. CASE Entering(m, k) /\ isa # "x86_64"
  <2>1. Executable(EntryStub)
    BY DEF Executable
  <2>2. /\ Holds(code, Tr, Insn("savelr", 4, 0)) /\ Movs(code, IdAt, "x17", ProbeId) /\ Movs(code, StubAt, "tmp", EntryStub)
        /\ Holds(code, CallAt, Insn("calltmp", 4, 0)) /\ Holds(code, CallAt + 4, Insn("restorelr", 4, 0))
    BY <1>2, <1>5 DEF PrefixAt, A64PrefixAt
  <2>3. Executable(Tr) /\ Executable(CallAt) /\ Executable(CallAt + 4)
    BY <2>2, EmittedRuns
  <2>4. IdAt \in Int /\ StubAt \in Int /\ ProbeId \in Addresses /\ EntryStub \in Addresses
    BY <1>1, PrefixAddresses, Loaded
  <2>5. Executable(IdAt) /\ (InMovs(m, IdAt, "x17", ProbeId) => Executable(m.pc) \/ m.pc = StubAt)
    BY <2>2, <2>4, MovsRun DEF StubAt
  <2>6. Executable(StubAt) /\ (InMovs(m, StubAt, "tmp", EntryStub) => Executable(m.pc) \/ m.pc = CallAt)
    BY <2>2, <2>4, MovsRun DEF CallAt
  <2>. QED  BY <2>1, <2>3, <2>5, <2>6, <1>5 DEF Entering, A64Entering
<1>6. CASE Inside(m, k)
  <2>1. orig.pc \in DOMAIN starts
    BY <1>6 DEF Inside
  <2>2. orig.pc \in DOMAIN prog /\ s \in Int /\ s + 4 \in Int /\ e \in Int /\ CopyOf(code, i, orig.pc, s, e)
    BY <2>1, <1>1, CopyFacts, SMT, Z3
  <2>3. CASE m.pc = s
    BY <2>1, <2>3, <1>1, CopyRuns
  <2>4. i.op \in {"jmp", "jcc", "adr", "call"} => v \in Addresses
    BY <2>2, <1>1, OpFacts, Zenon
  <2>5. CASE isa = "x86_64" /\ X86Inside(m, i, s)
    <3>1. X86Copy(code, i, orig.pc, s, e)
      BY <2>2, <2>5 DEF CopyOf
    <3>. HIDE DEF i, s, e, v
    <3>2. CASE i.op = "call"
      <4>1. Executable(s + 2) /\ Executable(s + 12)
        BY <3>1, <3>2, EmittedRuns DEF X86Copy
      <4>. QED  BY <4>1, <2>5, <3>2 DEF X86Inside
    <3>3. CASE i.op = "jmp"
      <4>1. Executable(s + 10)
        BY <3>1, <3>3, EmittedRuns DEF X86Copy
      <4>. QED  BY <4>1, <2>5, <3>3 DEF X86Inside
    <3>4. CASE i.op = "jcc"
      <4>1. Executable(s + 2) /\ Executable(s + 12)
        BY <3>1, <3>4, EmittedRuns DEF X86Copy
      <4>. QED  BY <4>1, <2>5, <3>4 DEF X86Inside
    <3>. QED  BY <3>2, <3>3, <3>4, <2>5 DEF X86Inside
  <2>6. CASE isa # "x86_64" /\ A64Inside(m, i, s) /\ m.pc < e
    <3>1. A64Copy(code, i, orig.pc, s, e)
      BY <2>2, <2>6 DEF CopyOf
    <3>2. \/ i.op = "adr" /\ InMovs(m, s, "rd", v)
          \/ i.op \in {"call", "jmp"} /\ InMovs(m, s, "tmp", v)
          \/ i.op = "jcc" /\ (m.pc = s + 4 \/ InMovs(m, s + 4, "tmp", v))
      BY <2>6, Zenon DEF A64Inside
    <3>3. m.pc # e
      BY <2>2, <2>6, <1>1
    <3>4. v = Target(orig.pc, i)
      OBVIOUS
    <3>. HIDE DEF i, s, e, v
    <3>5. CASE i.op = "adr"
      <4>1. Movs(code, s, "rd", v) /\ e = MovAt(s, v, 4)
        BY <3>1, <3>4, <3>5 DEF A64Copy
      <4>. QED  BY <4>1, <3>2, <3>3, <3>5, <2>2, <2>4, MovsRun, Zenon
    <3>6. CASE i.op \in {"call", "jmp"}
      <4>1. Movs(code, s, "tmp", v) /\ Executable(MovAt(s, v, 4))
        BY <3>1, <3>4, <3>6, EmittedRuns DEF A64Copy
      <4>. QED  BY <4>1, <3>2, <3>6, <2>2, <2>4, MovsRun
    <3>7. CASE i.op = "jcc"
      <4>1. Movs(code, s + 4, "tmp", v) /\ Executable(MovAt(s + 4, v, 4))
        BY <3>1, <3>4, <3>7, EmittedRuns DEF A64Copy
      <4>. QED  BY <4>1, <3>2, <3>7, <2>2, <2>4, MovsRun
    <3>. QED  BY <3>2, <3>5, <3>6, <3>7
  <2>7. m.pc \in s + 1 .. e - 1 => m.pc < e
    BY <2>2
  <2>. QED  BY <2>3, <2>5, <2>6, <2>7, <1>6 DEF Inside
<1>7. CASE Returning(m, k)
  <2>1. isa = "x86_64" /\ orig.pc = Callee /\ Moved(Head(orig.stack)) /\ m.pc = Landing(Head(orig.stack)) - 2
    BY <1>7 DEF Returning
  <2>2. PICK r \in Returns : Head(orig.stack) = r
    BY <2>1, LeaveGoal, Zenon
  <2>3. PICK a \in DOMAIN starts : r = End(a) /\ prog[a].op = "call"
    BY <2>1, <2>2, <1>1, ReturnFacts
  <2>4. starts[a] \in Nat /\ CopyOf(code, prog[a], a, starts[a], Landing(r))
    BY <2>3, <1>1, CopyFacts
  <2>5. Holds(code, starts[a] + 15, Insn("poptmp", 2, 0)) /\ Landing(r) = starts[a] + 17
    BY <2>1, <2>3, <2>4 DEF CopyOf, X86Copy
  <2>6. m.pc = starts[a] + 15
    BY <2>1, <2>2, <2>4, <2>5
  <2>. QED  BY <2>5, <2>6, EmittedRuns
<1>8. CASE Leaving(m, k)
  <2>1. m.pc = suffix \/ (isa = "aarch64" /\ InMovs(m, suffix, "tmp", Fn + span))
    BY <1>8 DEF Leaving
  <2>2. CASE isa = "x86_64"
    <3>1. Holds(code, suffix, Insn("jmpi", 6, 8))
      BY <2>2, <1>2 DEF SuffixAt, X86SuffixAt
    <3>. QED  BY <2>1, <2>2, <3>1, EmittedRuns
  <2>3. CASE isa # "x86_64"
    <3>1. Movs(code, suffix, "tmp", Fn + span) /\ Executable(MovAt(suffix, Fn + span, 4))
      BY <2>3, <1>2, EmittedRuns DEF SuffixAt, A64SuffixAt
    <3>2. Fn + span \in Addresses
      BY <1>1, Loaded
    <3>. QED  BY <2>1, <3>1, <3>2, <1>2, MovsRun
  <2>. QED  BY <2>2, <2>3
<1>. QED  BY <1>3, <1>4, <1>5, <1>6, <1>7, <1>8 DEF OnTheWay

\* A step of the patched function.
LEMMA WayStep ==
    ASSUME Running, NEW m \in Machines, NEW k, OnTheWay(m, k)
    PROVE  Progress(Step(m), k + (IF m.pc = EntryStub THEN 1 ELSE 0))
PROOF
<1>1. Frozen /\ OrigOK(orig) /\ orig.pc # Caller
  BY DEF Running, Chosen
<1>2. \A x \in DOMAIN code : x # EntryStub
  BY <1>1, Outside
<1>3. Once \in Nat
  BY DEF Once
<1>4. CASE Inside(m, k)
  <2>1. orig.pc \in DOMAIN starts /\ k = Once
    BY <1>4 DEF Inside
  <2>2. Progress(Step(m), Once) /\ m.pc \in DOMAIN code
    <3>1. CASE m.pc = starts[orig.pc] /\ Related(orig, m)
      <4>1. m.pc \in DOMAIN code
        BY <2>1, <3>1, <1>1, CopyStart
      <4>2. CASE isa = "x86_64"
        BY <2>1, <3>1, <4>1, <4>2, X86FirstStep
      <4>3. CASE isa # "x86_64"
        BY <2>1, <3>1, <4>1, <4>3, A64FirstStep
      <4>. QED  BY <4>2, <4>3
    <3>2. CASE isa = "x86_64" /\ X86Inside(m, prog[orig.pc], starts[orig.pc])
      BY <2>1, <3>2, X86InsideStep
    <3>3. CASE /\ isa # "x86_64" /\ A64Inside(m, prog[orig.pc], starts[orig.pc])
               /\ m.pc \in starts[orig.pc] + 1 .. Landing(End(orig.pc)) - 1
      <4>1. starts[orig.pc] \in Nat /\ Landing(End(orig.pc)) \in Nat
        BY <2>1, <1>1, CopyFacts
      <4>2. m.pc < Landing(End(orig.pc))
        BY <3>3, <4>1, SMT, Z3
      <4>. QED  BY <2>1, <3>3, <4>2, A64InsideStep
    <3>. QED  BY <3>1, <3>2, <3>3, <1>4, Zenon DEF Inside
  <2>3. k + (IF m.pc = EntryStub THEN 1 ELSE 0) = Once
    BY <2>1, <2>2, <1>2, <1>3, SMT, Z3
  <2>. QED  BY <2>2, <2>3
<1>5. CASE AtPoint(orig, m) /\ k = 0
  <2>1. CASE orig.pc \in DOMAIN starts /\ orig.pc # Fn
    <3>1. Inside(m, 0)
      BY <2>1, <1>5 DEF Inside, AtPoint, Image, Once
    <3>. QED  BY <3>1, <1>4, <1>5
  <2>2. CASE orig.pc \notin DOMAIN starts \/ orig.pc = Fn
    <3>1. m.pc = orig.pc /\ Related(orig, m)
      BY <2>2, <1>5 DEF AtPoint, Image
    <3>2. orig.pc \in DOMAIN prog \/ orig.pc = Callee
      BY <1>1 DEF OrigOK, There
    <3>3. m.pc # EntryStub
      BY <3>1, <3>2, <1>1, Outside, ConstantTypes
    <3>4. Progress(Step(m), 0)
      <4>1. CASE orig.pc = Fn
        BY <4>1, <1>5, EnterStep
      <4>2. CASE orig.pc \in DOMAIN prog /\ orig.pc # Fn
        BY <2>2, <4>2, <1>5, TextStep
      <4>3. CASE orig.pc = Callee
        <5>1. Once = 0
          BY <4>3, <1>1, Outside, TextFacts DEF Once, Frozen, BuildInv
        <5>2. Step(m) = Leave(m)
          BY <4>3, <3>1, <1>1, StepFacts
        <5>. QED  BY <5>1, <5>2, <4>3, <3>1, LeaveStep
      <4>. QED  BY <4>1, <4>2, <4>3, <3>2
    <3>5. k + (IF m.pc = EntryStub THEN 1 ELSE 0) = 0
      BY <3>3, <1>5
    <3>. QED  BY <3>4, <3>5
  <2>. QED  BY <2>1, <2>2
<1>6. CASE Entering(m, k)
  BY <1>6, X86EnterStep, A64EnterStep DEF Entering
<1>7. CASE Returning(m, k)
  <2>1. Progress(Step(m), 0) /\ m.pc \in DOMAIN code /\ k = 0
    BY <1>7, ReturningStep
  <2>2. k + (IF m.pc = EntryStub THEN 1 ELSE 0) = 0
    BY <2>1, <1>2
  <2>. QED  BY <2>1, <2>2
<1>8. CASE Leaving(m, k)
  <2>1. Progress(Step(m), Once) /\ k = Once /\ m.pc \in DOMAIN code
    BY <1>8, LeavingStep
  <2>2. k + (IF m.pc = EntryStub THEN 1 ELSE 0) = Once
    BY <2>1, <1>2, <1>3
  <2>. QED  BY <2>1, <2>2
<1>. QED  BY <1>4, <1>5, <1>6, <1>7, <1>8 DEF OnTheWay
-----------------------------------------------------------------------------
(* The invariant is kept.                                                  *)

\* While the trampoline stays as it is, so does what was said about a machine.
LEMMA ExecKept ==
    ASSUME NEW m, NEW i, NEW c, UNCHANGED build
    PROVE  Exec(m, i, c)' = Exec(m, i, c) /\ Leave(m)' = Leave(m)
  BY DEF Exec, Leave, Link, Push, Goto, code, build

\* Steps of the machines leave the places in the trampoline as they are.
LEMMA PlacesKept ==
    ASSUME NEW a, UNCHANGED build
    PROVE  /\ Under(a)' = Under(a) /\ Dropped(a)' = Dropped(a) /\ There(a)' = There(a) /\ Moved(a)' = Moved(a)
           /\ End(a)' = End(a) /\ Landing(a)' = Landing(a) /\ Image(a)' = Image(a) /\ Comparable(a)' = Comparable(a)
           /\ Returns' = Returns
PROOF
<1>1. /\ Under(a)' = Under(a) /\ Dropped(a)' = Dropped(a) /\ There(a)' = There(a) /\ Moved(a)' = Moved(a)
      /\ End(a)' = End(a) /\ Landing(a)' = Landing(a) /\ Image(a)' = Image(a)
  BY DEF Under, Dropped, There, Moved, End, After, Landing, LandingIn, Image, build
<1>2. Comparable(a)' = Comparable(a)
  BY DEF Comparable, Image, code, build
<1>3. Returns' = Returns
  BY DEF Returns, There, Under, End, After, build
<1>. QED  BY <1>1, <1>2, <1>3

\* A jump that was taken only weakens what is said about the scratch register.
LEMMA RelatedKept ==
    ASSUME NEW m, NEW o, UNCHANGED build, jumped => jumped'
    PROVE  /\ Related(o, m) => Related(o, m)'
           /\ AtPoint(o, m) => AtPoint(o, m)'
           /\ OrigOK(o) => OrigOK(o)'
PROOF
<1>1. Related(o, m) => Related(o, m)'
  BY DEF Related, Landing, LandingIn, Moved, build
<1>2. AtPoint(o, m) => AtPoint(o, m)'
  BY <1>1, PlacesKept DEF AtPoint
<1>3. OrigOK(o) => OrigOK(o)'
  <2>1. isa' = isa
    BY DEF build
  <2>. QED  BY <2>1, PlacesKept, Zenon DEF OrigOK
<1>. QED  BY <1>1, <1>2, <1>3

\* The goal of a round stays until the original takes its step.
LEMMA GoalKept ==
    ASSUME NEW c, UNCHANGED <<build, orig>>
    PROVE  Goal(c)' = Goal(c) /\ Op' = Op
PROOF
<1>1. Goal(c)' = Goal(c)
  BY ExecKept DEF Goal, build
<1>2. Op' = Op
  BY DEF Op, build
<1>. QED  BY <1>1, <1>2

\* So does the way of the patched machine.
LEMMA WayKept ==
    ASSUME NEW m, NEW k, UNCHANGED <<build, orig, cond, jumped>>, OnTheWay(m, k)
    PROVE  OnTheWay(m, k)'
PROOF
<1>1. isa' = isa /\ prog' = prog /\ span' = span /\ cursor' = cursor /\ starts' = starts /\ suffix' = suffix
  BY DEF build
<1>2. Once' = Once /\ IdAt' = IdAt /\ StubAt' = StubAt /\ CallAt' = CallAt
  BY DEF Once, IdAt, StubAt, CallAt
<1>3. AtPoint(orig, m) => AtPoint(orig, m)'
  BY <1>1 DEF AtPoint, Image, Related, Landing, LandingIn, Moved
<1>4. Entering(m, k) => Entering(m, k)'
  <2>1. X86Entering(m, k) => X86Entering(m, k)'
    BY Zenon DEF X86Entering
  <2>2. A64Entering(m, k) => A64Entering(m, k)'
    BY <1>1, <1>2 DEF A64Entering, Landing, LandingIn, Moved
  <2>. QED  BY <2>1, <2>2, <1>1 DEF Entering
<1>5. Inside(m, k) => Inside(m, k)'
  <2>1. Related(orig, m) => Related(orig, m)'
    BY <1>1, Zenon DEF Related, Landing, LandingIn, Moved
  <2>2. ASSUME NEW i, NEW s PROVE X86Inside(m, i, s) => X86Inside(m, i, s)'
    BY DEF X86Inside
  <2>3. ASSUME NEW i, NEW s PROVE A64Inside(m, i, s) => A64Inside(m, i, s)'
    BY <1>1 DEF A64Inside, Landing, LandingIn, Moved
  <2>4. Landing(End(orig.pc))' = Landing(End(orig.pc))
    BY <1>1 DEF Landing, LandingIn, End
  <2>. QED  BY <2>1, <2>2, <2>3, <2>4, <1>1, <1>2, Zenon DEF Inside
<1>6. Returning(m, k) => Returning(m, k)'
  BY <1>1 DEF Returning, Landing, LandingIn, Moved
<1>7. Leaving(m, k) => Leaving(m, k)'
  <2>1. Goal(cond)' = Goal(cond)
    BY GoalKept
  <2>2. ASSUME NEW g PROVE Related(g, m) => Related(g, m)'
    BY <1>1 DEF Related, Landing, LandingIn, Moved
  <2>. QED  BY <2>1, <2>2, <1>1, <1>2 DEF Leaving
<1>. QED  BY <1>3, <1>4, <1>5, <1>6, <1>7 DEF OnTheWay

\* MachInv holds before anything is built.
LEMMA MachInit == Init => MachInv
PROOF
<1>. SUFFICES ASSUME Init PROVE MachInv
  OBVIOUS
<1>. QED  BY Zenon DEF Init, MachInv, Follow

\* Before the jump is installed the machines stand at the beginning of a function.
LEMMA MachBuild == BuildInv /\ MachInv /\ (Capture \/ BuildPrefix \/ Relocate) => MachInv'
PROOF
<1>. SUFFICES ASSUME BuildInv, MachInv, Capture \/ BuildPrefix \/ Relocate PROVE MachInv'
  OBVIOUS
<1>1. /\ phase \in {"capture", "build", "relocate"} /\ phase' \in {"build", "relocate", "refused"}
      /\ UNCHANGED <<prog, orig, patched, turn, cond, strayed, jumped>>
  <2>1. CASE Capture
    BY <2>1 DEF Capture, machines, history
  <2>2. CASE BuildPrefix
    BY <2>2 DEF BuildPrefix, machines, history
  <2>3. CASE Relocate
    BY <2>3 DEF Relocate, machines, history
  <2>. QED  BY <2>1, <2>2, <2>3
<1>2. Entries(prog)' = Entries(prog) /\ ~Follow'
  BY <1>1 DEF Entries, Follow
<1>. QED  BY <1>1, <1>2 DEF MachInv

\* zt_install_probe_patch finds both machines at the same instruction.
LEMMA MachFinish == BuildInv /\ MachInv /\ Finish => MachInv'
PROOF
<1>. SUFFICES ASSUME BuildInv, MachInv, Finish PROVE MachInv'
  OBVIOUS
<1>1. /\ phase = "relocate" /\ ~More /\ phase' \in {"run", "refused"}
      /\ entered' = (orig.pc \in Fn + 1 .. Fn + span - 1)
      /\ UNCHANGED <<isa, prog, span, cursor, starts, suffix, orig, patched, turn, cond, strayed, jumped>>
  BY DEF Finish, machines
<1>2. turn \in {"orig", "patched"} /\ cond \in BOOLEAN /\ jumped \in BOOLEAN /\ turn = "orig"
  BY <1>1 DEF MachInv
<1>3. PICK pc \in Entries(prog) : orig = Machine(pc) /\ patched = Machine(pc)
  BY <1>1 DEF MachInv
<1>4. isa \in {"x86_64", "aarch64"} /\ IsText(isa, prog) /\ Placed
  BY <1>1 DEF BuildInv
<1>5. pc \in DOMAIN prog /\ pc \in Nat /\ Fn <= pc /\ Fn \in DOMAIN prog
  <2>1. Fn \in DOMAIN prog
    BY <1>4, TextFacts
  <2>2. pc \in DOMAIN prog
    BY <2>1 DEF Entries
  <2>. QED  BY <2>1, <2>2, <1>4, TextFacts
<1>6. /\ cursor \in Fn .. Fn + span /\ DOMAIN starts = {a \in DOMAIN prog : a < cursor} /\ span \in Nat /\ span > 0
      /\ prog[Fn].op # "unknown"
  BY <1>4, SMT, Z3 DEF Placed, Laid, SpanOK
<1>7. Fn < cursor /\ cursor <= Fn + span /\ cursor \in Nat
  BY <1>1, <1>6, ConstantTypes DEF More
<1>8. SUFFICES ASSUME Follow'
               PROVE  orig' \in Machines /\ patched' \in Machines /\ OrigOK(orig)' /\ AtPoint(orig, patched)'
  BY <1>1, <1>2 DEF MachInv, Follow
<1>9. pc = Fn \/ pc >= Fn + span
  <2>1. orig.pc = pc
    BY <1>3 DEF Machine
  <2>2. pc \notin Fn + 1 .. Fn + span - 1
    BY <2>1, <1>1, <1>8, Zenon DEF Follow
  <2>. QED  BY <2>2, <1>5, <1>6, ConstantTypes
<1>10. /\ Machine(pc).pc = pc /\ Machine(pc).rd = 0 /\ Machine(pc).tmp = 0 /\ Machine(pc).lr = Caller
       /\ Machine(pc).stack = <<Caller>> /\ Machine(pc) \in Machines
  BY <1>5, ConstantTypes, SMT, Z3 DEF Machine, Machines
<1>11. /\ orig'.pc = pc /\ orig'.rd = 0 /\ orig'.tmp = 0 /\ orig'.lr = Caller /\ orig'.stack = <<Caller>>
       /\ patched'.pc = pc /\ patched'.rd = 0 /\ patched'.tmp = 0 /\ patched'.lr = Caller /\ patched'.stack = <<Caller>>
       /\ orig' \in Machines /\ patched' \in Machines
  BY <1>1, <1>3, <1>10
<1>12. pc # Callee /\ pc # Caller
  <2>1. pc \in Text
    BY <1>4, <1>5 DEF IsText
  <2>. QED  BY <2>1, RelocationAssumption
<1>13. There(pc)'
  BY <1>1, <1>5, <1>6, <1>7, <1>9, ConstantTypes, SMT, Z3 DEF There, Under
<1>14. OrigOK(orig)'
  BY <1>11, <1>12, <1>13 DEF OrigOK
<1>15. Image(pc)' = pc
  BY <1>1, <1>6, <1>5, <1>9, ConstantTypes, SMT, Z3 DEF Image
<1>16. ~(Moved(Caller)')
  <2>1. PICK a \in DOMAIN prog : Fn + span <= End(a)
    <3>1. \A a \in DOMAIN prog : End(a) \in Nat
      BY <1>4, TextFacts
    <3>. QED  BY <3>1, <1>4, SMT, Z3 DEF Placed, SpanOK
  <2>2. End(a) \in Nat /\ End(a) <= TextEnd
    BY <2>1, <1>4, TextFacts
  <2>3. \A x \in Nat : Moved(x)' => x \in Text
    BY <2>1, <2>2, <1>1, <1>6, ConstantTypes, SMT, Z3 DEF Moved, Text
  <2>. QED  BY <2>3, ConstantTypes, RelocationAssumption
<1>17. Related(orig, patched)'
  BY <1>11, <1>12, <1>16 DEF Related
<1>18. AtPoint(orig, patched)'
  BY <1>11, <1>15, <1>17 DEF AtPoint
<1>. QED  BY <1>11, <1>14, <1>18

\* The beginning of a round keeps MachInv.
LEMMA MachRound == BuildInv /\ MachInv /\ Round => MachInv'
PROOF
<1>. SUFFICES ASSUME BuildInv, MachInv, Round PROVE MachInv'
  OBVIOUS
<1>1. /\ Follow /\ turn = "orig" /\ orig.pc # Caller /\ turn' = "patched" /\ reports' = 0
      /\ UNCHANGED <<build, orig, patched>>
      /\ cond' \in (IF Op \in Jumps \ {"jmp"} THEN BOOLEAN ELSE {TRUE})
      /\ entered' = ((Op \in Jumps /\ cond') /\ Under(Goal(cond').pc) /\ Goal(cond').pc # Fn)
      /\ jumped' = (jumped \/ ((Op \in Jumps /\ cond') /\ Under(orig.pc)))
      /\ strayed' = (Dropped(Goal(cond').pc) \/ ((Op \in Jumps /\ cond') /\ Under(orig.pc) /\ Op = "loop"))
  BY Zenon DEF Round, Op
<1>2. cond' \in BOOLEAN /\ jumped \in BOOLEAN /\ jumped' \in BOOLEAN
  BY <1>1, Zenon DEF MachInv
<1>3. orig \in Machines /\ patched \in Machines /\ OrigOK(orig) /\ AtPoint(orig, patched)
  BY <1>1 DEF MachInv
<1>4. phase = "run" /\ phase' = "run"
  BY <1>1 DEF Follow, build
<1>5. SUFFICES ASSUME Follow'
               PROVE  /\ orig' \in Machines /\ patched' \in Machines /\ OrigOK(orig)' /\ Chosen' /\ OnTheWay(patched, reports)'
  BY <1>1, <1>2, <1>4 DEF MachInv
<1>6. OrigOK(orig)' /\ AtPoint(orig, patched)'
  <2>1. OrigOK(orig') /\ AtPoint(orig', patched')
    BY <1>1, <1>3
  <2>. QED  BY <2>1, <1>1, RelatedKept, Zenon
<1>7. OnTheWay(patched, reports)'
  BY <1>1, <1>6 DEF OnTheWay
<1>8. Chosen'
  <2>1. ~entered' /\ ~strayed'
    BY <1>5 DEF Follow
  <2>2. Goal(cond)' = Goal(cond') /\ Op' = Op
    BY <1>1, GoalKept
  <2>3. \A a : Under(a)' = Under(a) /\ Dropped(a)' = Dropped(a)
    BY <1>1, PlacesKept
  <2>4. orig'.pc # Caller /\ ~Dropped(Goal(cond).pc)'
    BY <2>1, <2>2, <2>3, <1>1, Zenon
  <2>5. Jumping' => ~(Under(Goal(cond).pc)') \/ Goal(cond)'.pc = Fn
    BY <2>1, <2>2, <2>3, <1>1, Zenon DEF Jumping
  <2>6. Jumping' /\ Under(orig.pc)' => jumped' /\ Op' # "loop"
    BY <2>1, <2>2, <2>3, <1>1, Zenon DEF Jumping
  <2>7. cond' \/ Op' \in Jumps \ {"jmp"}
    BY <2>2, <1>1, Zenon
  <2>. QED  BY <2>4, <2>5, <2>6, <2>7 DEF Chosen
<1>. QED  BY <1>1, <1>3, <1>6, <1>7, <1>8

\* The state of a round.
LEMMA InRound ==
    ASSUME BuildInv, MachInv, Follow, turn = "patched"
    PROVE  Running /\ patched \in Machines /\ OnTheWay(patched, reports)
  BY DEF MachInv, Running, Frozen, Follow

\* An instruction of the patched function keeps MachInv.
LEMMA MachPatched == BuildInv /\ MachInv /\ PatchedStep => MachInv'
PROOF
<1>. SUFFICES ASSUME BuildInv, MachInv, PatchedStep PROVE MachInv'
  OBVIOUS
<1>1. /\ Follow /\ turn = "patched" /\ patched' = Step(patched)
      /\ reports' = reports + (IF patched.pc = EntryStub THEN 1 ELSE 0)
      /\ IF Comparable(patched'.pc) THEN turn' = "orig" /\ orig' = Goal(cond) ELSE UNCHANGED <<turn, orig>>
      /\ UNCHANGED <<build, cond, entered, strayed, jumped>>
  BY DEF PatchedStep
<1>2. Running /\ patched \in Machines /\ OnTheWay(patched, reports)
  BY <1>1, InRound
<1>3. Progress(patched', reports')
  BY <1>1, <1>2, WayStep
<1>4. /\ turn' \in {"orig", "patched"} /\ cond' \in BOOLEAN /\ jumped' \in BOOLEAN /\ Follow' /\ phase' = "run"
  BY <1>1 DEF MachInv, Follow, build
<1>5. CASE Comparable(patched'.pc)
  <2>1. patched' \in Machines /\ AtPoint(orig', patched')
    BY <1>1, <1>3, <1>5 DEF Progress
  <2>2. orig' \in Machines /\ OrigOK(orig')
    BY <1>1, <1>2, <1>5, OrigStep
  <2>3. OrigOK(orig)' /\ AtPoint(orig, patched)'
    BY <2>1, <2>2, <1>1, RelatedKept
  <2>. QED  BY <2>1, <2>2, <2>3, <1>1, <1>4, <1>5 DEF MachInv
<1>6. CASE ~Comparable(patched'.pc)
  <2>1. patched' \in Machines /\ OnTheWay(patched', reports')
    BY <1>3, <1>6 DEF Progress
  <2>2. UNCHANGED <<orig, turn>>
    BY <1>1, <1>6
  <2>3. OnTheWay(patched, reports)'
    BY <2>1, <2>2, <1>1, WayKept
  <2>4. orig' \in Machines /\ OrigOK(orig') /\ Chosen
    BY <1>2, <2>2 DEF Running
  <2>5. OrigOK(orig)'
    BY <2>4, <1>1, RelatedKept
  <2>6. Chosen'
    <3>1. Goal(cond)' = Goal(cond) /\ Op' = Op
      BY <2>2, <1>1, GoalKept
    <3>2. \A a : Under(a)' = Under(a) /\ Dropped(a)' = Dropped(a)
      BY <1>1, PlacesKept
    <3>. QED  BY <3>1, <3>2, <2>2, <2>4, <1>1 DEF Chosen, Jumping
  <2>. QED  BY <2>1, <2>2, <2>3, <2>4, <2>5, <2>6, <1>1, <1>4 DEF MachInv
<1>. QED  BY <1>5, <1>6

\* MachInv depends on the variables only.
LEMMA MachStutter == BuildInv /\ MachInv /\ UNCHANGED relocVars => MachInv'
PROOF
<1>. SUFFICES ASSUME BuildInv, MachInv, UNCHANGED relocVars PROVE MachInv'
  OBVIOUS
<1>1. /\ UNCHANGED build /\ UNCHANGED <<phase, prog>>
      /\ UNCHANGED <<orig, patched, turn, cond, reports, entered, strayed, jumped>>
  BY DEF relocVars, build, machines, history
<1>2. Entries(prog)' = Entries(prog) /\ Follow' = Follow
  BY <1>1 DEF Entries, Follow
<1>3. OrigOK(orig) => OrigOK(orig)'
  <2>1. OrigOK(orig) => OrigOK(orig')
    BY <1>1
  <2>. QED  BY <2>1, <1>1, RelatedKept
<1>4. AtPoint(orig, patched) => AtPoint(orig, patched)'
  <2>1. AtPoint(orig, patched) => AtPoint(orig', patched')
    BY <1>1
  <2>. QED  BY <2>1, <1>1, RelatedKept
<1>5. OnTheWay(patched, reports) => OnTheWay(patched, reports)'
  <2>1. OnTheWay(patched, reports) => OnTheWay(patched', reports')
    BY <1>1
  <2>. QED  BY <2>1, <1>1, WayKept
<1>6. Chosen => Chosen'
  <2>1. Goal(cond)' = Goal(cond) /\ Op' = Op
    BY <1>1, GoalKept
  <2>2. \A a : Under(a)' = Under(a) /\ Dropped(a)' = Dropped(a)
    BY <1>1, PlacesKept
  <2>. QED  BY <2>1, <2>2, <1>1, Zenon DEF Chosen, Jumping
<1>7. Follow' => orig' \in Machines /\ patched' \in Machines /\ OrigOK(orig)'
  BY <1>1, <1>2, <1>3 DEF MachInv
<1>8. Follow' /\ turn' = "orig" => AtPoint(orig, patched)'
  BY <1>1, <1>2, <1>4 DEF MachInv
<1>9. Follow' /\ turn' = "patched" => Chosen' /\ OnTheWay(patched, reports)'
  BY <1>1, <1>2, <1>5, <1>6 DEF MachInv
<1>10. /\ turn' \in {"orig", "patched"} /\ cond' \in BOOLEAN /\ jumped' \in BOOLEAN
       /\ phase' \in {"capture", "build", "relocate"} =>
            /\ \E pc \in Entries(prog)' : orig' = Machine(pc) /\ patched' = Machine(pc)
            /\ turn' = "orig" /\ ~strayed'
  BY <1>1, <1>2 DEF MachInv
<1>. QED  BY <1>7, <1>8, <1>9, <1>10 DEF MachInv
=============================================================================
