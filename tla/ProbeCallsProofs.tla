-------------------------- MODULE ProbeCallsProofs --------------------------
(***************************************************************************)
(* exit_stub resumes the right caller, its events carry the right call_id, *)
(* and the shadow stack is balanced, for any number of threads and probes  *)
(* and any depth of calls, tail calls, call actions and signal handlers.   *)
(*                                                                         *)
(* The invariant relates one thread's machine stack s to its shadow stack  *)
(* m (saved_frames) and index idx (call_stack_idx).                        *)
(***************************************************************************)
EXTENDS ProbeCalls, TLAPS

\* What a shadow-stack entry holds.
Saved == [ret_addr : Nat, probe_id : Nat, call_id : Nat]

\* The types of the state, the history included.
CallTypes ==
    /\ stack \in [Threads -> Seq(Frame)]
    /\ calls \in [Threads -> Nat]
    /\ saved_frames \in [Threads -> [0 .. MaxSaved - 1 -> Saved]]
    /\ call_stack_idx \in [Threads -> Nat]
    /\ last_call_id \in [Threads -> Nat]
    /\ in_call_action \in [Threads -> BOOLEAN]
    /\ g_call_id_seq \in Nat
    /\ astray \subseteq Threads

\* An activation that hit no probe has nothing to return through, and exit_stub runs only
\* for one whose return address was replaced.
WellFormed(f) ==
    /\ f.probe = 0 => f.ids = <<>> /\ f.pc = "body"
    /\ f.pc \in {"exit", "pop", "popped"} => Len(f.ids) > 0

\* What holds of a machine stack whether it is in step with the shadow stack or not; the
\* last two conjuncts are about in_call_action.
Formed(s, inAction) ==
    /\ Len(s) >= 1 /\ s[1].probe = 0 /\ s[1].base = 0
    /\ \A d \in 1 .. Len(s) : WellFormed(s[d])
    /\ \A d \in 1 .. Len(s) : s[d].pc = "action" => inAction
    /\ \A d, e \in 1 .. Len(s) : s[d].pc = "action" /\ s[e].pc = "action" => d = e

\* The entries of saved_frames below call_stack_idx that an activation owns, and the first
\* index behind them.
Owned(f) == IF f.pc = "popped" THEN Len(f.ids) - 1 ELSE Len(f.ids)
Ceiling(f) == f.base + Owned(f)

\* The activations own consecutive pieces of saved_frames.  The second conjunct looks past
\* activations that own nothing, which is what a longjmp over unprobed functions needs.
Layout(s, idx) ==
    /\ idx = Ceiling(s[Len(s)])
    /\ \A d, e \in 1 .. Len(s) :
          d < e /\ (\A i \in d + 1 .. e - 1 : Owned(s[i]) = 0) => s[e].base = Ceiling(s[d])
    /\ \A d, e \in 1 .. Len(s) : d < e => Ceiling(s[d]) <= s[e].base

\* The entry at index i belongs to the call id and returns to addr; rec is recursed.
Entry(m, rec, i, addr, id) ==
    /\ i \in 0 .. MaxSaved - 1
    /\ m[i].ret_addr = addr
    /\ id \in rec \/ m[i].call_id = id

\* Each owned entry is that of its call; also the one that is written and not counted
\* yet, and the one that is not counted any more and not read yet.
Backed(f, m, last, rec) ==
    /\ \A i \in 1 .. Len(f.ids) : Entry(m, rec, f.base + i - 1, IF i = 1 THEN f.ret ELSE ExitStub, f.ids[i])
    /\ f.pc = "saved" => Entry(m, rec, f.base + Len(f.ids), ReturnSlot(f), f.mine)
    /\ f.pc \in {"action", "save"} => f.mine \in rec \/ last = f.mine

\* Every frame of a stack is backed by its shadow entries.
Entries(s, m, last, rec) == \A d \in 1 .. Len(s) : Backed(s[d], m, last, rec)

\* The activation will account for the entry event c.
Accounts(f, c) ==
    \/ \E i \in 1 .. Len(f.ids) : f.ids[i] = c
    \/ f.pc \in {"action", "save", "saved"} /\ f.mine = c

\* The entry events in ent have their return event, in done, or an activation that will
\* log it.
Accounted(s, ent, done) ==
    /\ \A c \in ent : c \in done \/ \E d \in 1 .. Len(s) : Accounts(s[d], c)
    /\ \A d \in 1 .. Len(s) : s[d].pc \in {"pop", "popped"} => s[d].ids[Len(s[d].ids)] \in done

\* The calls of t that were recorded on entry, and on return.
EnteredBy(t) == {c \in Nat : <<t, c>> \in entered}
ReturnedBy(t) == {c \in Nat : \E r \in returned : r[1] = t /\ r[2] = c}

\* What holds of one thread: its stack and its shadow stack belong together.
ShadowInv(t) ==
    /\ t \notin astray
    /\ Layout(stack[t], call_stack_idx[t])
    /\ Entries(stack[t], saved_frames[t], last_call_id[t], recursed)
    /\ Accounted(stack[t], EnteredBy(t), ReturnedBy(t))

\* The inductive invariant.
CallInv ==
    /\ CallTypes
    /\ \A t \in Threads : Formed(stack[t], in_call_action[t])
    /\ \A t \in Threads : InStep(t) => ShadowInv(t)
    /\ ReturnPaired
-----------------------------------------------------------------------------
(* Stacks.                                                                 *)

\* A stack without its last frames.
LEMMA CutBack ==
    ASSUME NEW s \in Seq(Frame), NEW k \in 0 .. Len(s)
    PROVE  /\ SubSeq(s, 1, k) \in Seq(Frame) /\ Len(SubSeq(s, 1, k)) = k
           /\ \A d \in 1 .. k : SubSeq(s, 1, k)[d] = s[d]
OBVIOUS

\* The top of a stack replaced by g.
Replace(s, g) == Append(SubSeq(s, 1, Len(s) - 1), g)

\* A stack whose top frame is replaced.
LEMMA Replaced ==
    ASSUME NEW s \in Seq(Frame), Len(s) >= 1, NEW g \in Frame
    PROVE  /\ Replace(s, g) \in Seq(Frame) /\ Len(Replace(s, g)) = Len(s) /\ Replace(s, g)[Len(s)] = g
           /\ \A d \in 1 .. Len(s) - 1 : Replace(s, g)[d] = s[d]
<1> DEFINE b == SubSeq(s, 1, Len(s) - 1)
<1>1. b \in Seq(Frame) /\ Len(b) = Len(s) - 1 /\ \A d \in 1 .. Len(s) - 1 : b[d] = s[d]
  <2>1. Len(s) - 1 \in 0 .. Len(s)
    OBVIOUS
  <2> QED
    BY <2>1, CutBack, Zenon
<1> HIDE DEF b
<1>2. Append(b, g) \in Seq(Frame) /\ Len(Append(b, g)) = Len(s) /\ Append(b, g)[Len(s)] = g
      /\ \A d \in 1 .. Len(s) - 1 : Append(b, g)[d] = b[d]
  BY <1>1
<1> QED
  BY <1>1, <1>2 DEF Replace, b

\* A stack with one frame more.
LEMMA Pushed ==
    ASSUME NEW s \in Seq(Frame), NEW g \in Frame
    PROVE  /\ Append(s, g) \in Seq(Frame) /\ Len(Append(s, g)) = Len(s) + 1 /\ Append(s, g)[Len(s) + 1] = g
           /\ \A d \in 1 .. Len(s) : Append(s, g)[d] = s[d]
OBVIOUS

\* Changing the top frame, then calling from it.
LEMMA ReplacePush ==
    ASSUME NEW s \in Seq(Frame), Len(s) >= 1, NEW f \in Frame, NEW g \in Frame
    PROVE  SubSeq(s, 1, Len(s) - 1) \o <<f, g>> = Append(Replace(s, f), g)
<1> DEFINE b == SubSeq(s, 1, Len(s) - 1)
<1>1. b \in Seq(Frame)
  OBVIOUS
<1> HIDE DEF b
<1>2. b \o <<f, g>> = Append(Append(b, f), g)
  BY <1>1
<1> QED
  BY <1>2 DEF Replace, b

\* The types of a frame's fields.
LEMMA FrameFacts ==
    ASSUME NEW f \in Frame
    PROVE  /\ f.base \in Nat /\ f.ret \in Nat /\ f.probe \in Nat /\ f.mine \in Nat /\ f.ids \in Seq(Nat)
           /\ Len(f.ids) \in Nat /\ Owned(f) \in Int /\ Ceiling(f) \in Int
           /\ (WellFormed(f) => Owned(f) \in Nat /\ Ceiling(f) \in Nat)
BY DEF Frame, Owned, Ceiling, WellFormed
-----------------------------------------------------------------------------
(* The machine stack.                                                      *)

\* Well-formed stacks stay so when the top is replaced, a frame is pushed, frames are cut.
LEMMA FormedReplace ==
    ASSUME NEW s \in Seq(Frame), NEW a, NEW b \in BOOLEAN, NEW g \in Frame, Formed(s, a), WellFormed(g),
           Len(s) = 1 => g.probe = 0 /\ g.base = 0,
           g.pc = "action" => b /\ (a => s[Len(s)].pc = "action"),
           a => b \/ s[Len(s)].pc = "action"
    PROVE  Formed(Replace(s, g), b)
<1> DEFINE r == Replace(s, g)
<1>1. /\ r \in Seq(Frame) /\ Len(r) = Len(s) /\ r[Len(s)] = g /\ Len(s) \in Nat /\ Len(s) >= 1
      /\ \A d \in 1 .. Len(s) - 1 : r[d] = s[d]
  BY Replaced DEF Formed
<1> HIDE DEF r
<1>2. \A d \in 1 .. Len(s) : WellFormed(r[d])
  BY <1>1 DEF Formed
<1>3. \A d \in 1 .. Len(s) : r[d].pc = "action" => b
  BY <1>1 DEF Formed
<1>4. \A d, e \in 1 .. Len(s) : r[d].pc = "action" /\ r[e].pc = "action" => d = e
  BY <1>1 DEF Formed
<1>5. r[1].probe = 0 /\ r[1].base = 0
  BY <1>1 DEF Formed
<1> QED
  BY <1>1, <1>2, <1>3, <1>4, <1>5 DEF Formed, r

\* A call leaves the frames below it as they are.
LEMMA FormedPush ==
    ASSUME NEW s \in Seq(Frame), NEW a, NEW g \in Frame, Formed(s, a), WellFormed(g), g.pc # "action"
    PROVE  Formed(Append(s, g), a)
BY Pushed DEF Formed

\* Leaving frames keeps the others well-formed.
LEMMA FormedCut ==
    ASSUME NEW s \in Seq(Frame), NEW a, NEW k \in 1 .. Len(s), Formed(s, a)
    PROVE  Formed(SubSeq(s, 1, k), a)
BY CutBack DEF Formed
-----------------------------------------------------------------------------
(* Who owns what of the shadow stack.                                      *)

\* So do stacks whose frames lie one below the other in the shadow stack.
LEMMA LayoutReplace ==
    ASSUME NEW s \in Seq(Frame), Len(s) >= 1, NEW idx, NEW g \in Frame, Layout(s, idx), g.base = s[Len(s)].base
    PROVE  Layout(Replace(s, g), Ceiling(g))
<1> DEFINE r == Replace(s, g)
<1>1. /\ r \in Seq(Frame) /\ Len(r) = Len(s) /\ r[Len(s)] = g /\ Len(s) \in Nat
      /\ \A d \in 1 .. Len(s) - 1 : r[d] = s[d]
  <2>1. Len(s) \in Nat
    OBVIOUS
  <2> QED
    BY <2>1, Replaced, Zenon
<1> HIDE DEF r
<1>2. \A d \in 1 .. Len(s) : r[d].base = s[d].base
  BY <1>1
<1>3. ASSUME NEW d \in 1 .. Len(s), NEW e \in 1 .. Len(s), d < e
      PROVE  /\ (\A i \in d + 1 .. e - 1 : Owned(r[i]) = 0) => r[e].base = Ceiling(r[d])
             /\ Ceiling(r[d]) <= r[e].base
  <2>1. d \in 1 .. Len(s) - 1 /\ r[d] = s[d] /\ r[e].base = s[e].base
    BY <1>1, <1>2, <1>3
  <2>2. \A i \in d + 1 .. e - 1 : r[i] = s[i]
    BY <1>1, <1>3
  <2> QED
    BY <1>3, <2>1, <2>2, Zenon DEF Layout
<1> QED
  BY <1>1, <1>3 DEF Layout, r

\* A frame that owns nothing yet begins where the shadow stack ends.
LEMMA LayoutPush ==
    ASSUME NEW s \in Seq(Frame), Len(s) >= 1, NEW idx \in Nat, NEW g \in Frame, Layout(s, idx),
           \A d \in 1 .. Len(s) : WellFormed(s[d]),
           Owned(g) = 0, g.base = idx
    PROVE  Layout(Append(s, g), idx)
<1> DEFINE r == Append(s, g)
<1>1. /\ r \in Seq(Frame) /\ Len(r) = Len(s) + 1 /\ r[Len(s) + 1] = g /\ Len(s) \in Nat
      /\ \A d \in 1 .. Len(s) : r[d] = s[d]
  BY Pushed
<1> HIDE DEF r
<1>2. \A d \in 1 .. Len(s) : s[d] \in Frame /\ s[d].base \in Nat /\ Owned(s[d]) \in Nat /\ Ceiling(s[d]) \in Nat
                             /\ Ceiling(s[d]) = s[d].base + Owned(s[d])
  BY FrameFacts DEF Ceiling
<1>3. \A d \in 1 .. Len(s) : Ceiling(s[d]) <= idx
  <2>1. ASSUME NEW d \in 1 .. Len(s), d < Len(s) PROVE Ceiling(s[d]) <= idx
    <3>1. Len(s) \in 1 .. Len(s)
      BY <1>1
    <3>2. Ceiling(s[d]) <= s[Len(s)].base /\ idx = Ceiling(s[Len(s)])
      BY <2>1, <3>1 DEF Layout
    <3> QED
      BY <1>2, <3>1, <3>2
  <2>2. \A d \in 1 .. Len(s) : d = Len(s) \/ d < Len(s)
    BY <1>1
  <2>3. Len(s) \in 1 .. Len(s) => Ceiling(s[Len(s)]) <= idx
    BY <1>2 DEF Layout
  <2> QED
    BY <2>1, <2>2, <2>3
<1>4. ASSUME NEW d \in 1 .. Len(s), \A i \in d + 1 .. Len(s) : Owned(s[i]) = 0
      PROVE  idx = Ceiling(s[d])
  <2>1. CASE d = Len(s)
    BY <2>1 DEF Layout
  <2>2. CASE d < Len(s)
    <3>1. s[Len(s)].base = Ceiling(s[d])
      BY <1>4, <2>2 DEF Layout
    <3>2. Owned(s[Len(s)]) = 0
      BY <1>4, <2>2
    <3> QED
      BY <3>1, <3>2, <1>2 DEF Layout
  <2> QED
    BY <2>1, <2>2
<1>5. ASSUME NEW d \in 1 .. Len(r), NEW e \in 1 .. Len(r), d < e
      PROVE  /\ (\A i \in d + 1 .. e - 1 : Owned(r[i]) = 0) => r[e].base = Ceiling(r[d])
             /\ Ceiling(r[d]) <= r[e].base
  <2>1. d \in 1 .. Len(s) /\ r[d] = s[d] /\ \A i \in d + 1 .. e - 1 : r[i] = s[i]
    BY <1>1, <1>5
  <2>2. CASE e = Len(s) + 1
    BY <1>1, <1>3, <1>4, <2>1, <2>2
  <2>3. CASE e \in 1 .. Len(s)
    BY <1>1, <1>5, <2>1, <2>3 DEF Layout
  <2> QED
    BY <1>1, <2>2, <2>3
<1>6. Ceiling(g) = idx
  BY DEF Ceiling
<1> QED
  BY <1>1, <1>5, <1>6 DEF Layout, r

\* Leaving frames that own nothing keeps the layout.
LEMMA LayoutCut ==
    ASSUME NEW s \in Seq(Frame), NEW idx \in Nat, NEW k \in 1 .. Len(s) - 1, Layout(s, idx),
           \A i \in k + 1 .. Len(s) : Owned(s[i]) = 0
    PROVE  Layout(SubSeq(s, 1, k), idx)
<1> DEFINE r == SubSeq(s, 1, k)
<1>1. r \in Seq(Frame) /\ Len(r) = k /\ Len(s) \in Nat /\ \A d \in 1 .. k : r[d] = s[d]
  BY CutBack
<1> HIDE DEF r
<1>2. idx = Ceiling(s[k])
  <2>1. s[Len(s)].base = Ceiling(s[k])
    BY SMT, Z3 DEF Layout
  <2>2. s[Len(s)] \in Frame /\ Owned(s[Len(s)]) = 0
    OBVIOUS
  <2> QED
    BY <2>1, <2>2, FrameFacts, SMT, Z3 DEF Layout, Ceiling
<1>3. ASSUME NEW d \in 1 .. k, NEW e \in 1 .. k, d < e
      PROVE  /\ (\A i \in d + 1 .. e - 1 : Owned(r[i]) = 0) => r[e].base = Ceiling(r[d])
             /\ Ceiling(r[d]) <= r[e].base
  <2>1. r[d] = s[d] /\ r[e] = s[e] /\ \A i \in d + 1 .. e - 1 : r[i] = s[i]
    BY <1>1, <1>3
  <2>2. d \in 1 .. Len(s) /\ e \in 1 .. Len(s)
    BY <1>1
  <2>3. /\ (\A i \in d + 1 .. e - 1 : Owned(s[i]) = 0) => s[e].base = Ceiling(s[d])
        /\ Ceiling(s[d]) <= s[e].base
    BY <1>3, <2>2 DEF Layout
  <2> QED
    BY <2>1, <2>3
<1> QED
  BY <1>2, <1>3, SMT, Z3 DEF Layout, r
-----------------------------------------------------------------------------
(* The entries of the shadow stack.                                        *)

\* So do stacks whose frames are backed by their shadow entries.
LEMMA EntriesReplace ==
    ASSUME NEW s \in Seq(Frame), Len(s) >= 1, NEW g \in Frame, NEW m, NEW last, NEW rec,
           Entries(s, m, last, rec), Backed(g, m, last, rec)
    PROVE  Entries(Replace(s, g), m, last, rec)
<1>1. Len(s) \in Nat /\ Len(Replace(s, g)) = Len(s)
  BY Replaced
<1>2. ASSUME NEW d \in 1 .. Len(s) PROVE Backed(Replace(s, g)[d], m, last, rec)
  <2>1. CASE d = Len(s)
    BY <2>1, Replaced, Zenon
  <2>2. CASE d \in 1 .. Len(s) - 1
    <3>1. Replace(s, g)[d] = s[d]
      BY <2>2, Replaced
    <3> QED
      BY <3>1 DEF Entries
  <2> QED
    BY <1>1, <2>1, <2>2
<1> QED
  BY <1>1, <1>2 DEF Entries

\* A call without an id yet leaves the recorded entries as they are.
LEMMA EntriesPush ==
    ASSUME NEW s \in Seq(Frame), NEW g \in Frame, NEW m, NEW last, NEW rec,
           Entries(s, m, last, rec), g.ids = <<>>, g.pc \in {"body", "entry"}
    PROVE  Entries(Append(s, g), m, last, rec)
<1>1. Len(s) \in Nat /\ Len(Append(s, g)) = Len(s) + 1
  BY Pushed
<1>2. Backed(g, m, last, rec)
  BY DEF Backed
<1>3. ASSUME NEW d \in 1 .. Len(s) + 1 PROVE Backed(Append(s, g)[d], m, last, rec)
  <2>1. CASE d = Len(s) + 1
    <3>1. Append(s, g)[d] = g
      BY <2>1, Pushed
    <3> QED
      BY <3>1, <1>2
  <2>2. CASE d \in 1 .. Len(s)
    <3>1. Append(s, g)[d] = s[d]
      BY <2>2, Pushed
    <3> QED
      BY <2>2, <3>1 DEF Entries
  <2> QED
    BY <1>1, <2>1, <2>2
<1> QED
  BY <1>1, <1>3 DEF Entries

\* Leaving frames keeps the recorded entries of the others.
LEMMA EntriesCut ==
    ASSUME NEW s \in Seq(Frame), NEW k \in 1 .. Len(s), NEW m, NEW last, NEW rec, Entries(s, m, last, rec)
    PROVE  Entries(SubSeq(s, 1, k), m, last, rec)
<1>1. Len(SubSeq(s, 1, k)) = k /\ Len(s) \in Nat /\ \A d \in 1 .. k : SubSeq(s, 1, k)[d] = s[d]
  BY CutBack
<1>2. ASSUME NEW d \in 1 .. k PROVE Backed(SubSeq(s, 1, k)[d], m, last, rec)
  <2>1. SubSeq(s, 1, k)[d] = s[d] /\ d \in 1 .. Len(s)
    BY <1>1
  <2> QED
    BY <2>1 DEF Entries
<1> QED
  BY <1>1, <1>2 DEF Entries

\* A probe hit of another activation: what it overtakes is in recursed.
LEMMA EntriesOvertaken ==
    ASSUME NEW s \in Seq(Frame), NEW m, NEW last, NEW last2, NEW rec, NEW rec2, Entries(s, m, last, rec),
           rec \subseteq rec2,
           \A d \in 1 .. Len(s) : s[d].pc \in {"action", "save"} => s[d].mine \in rec2
    PROVE  Entries(s, m, last2, rec2)
BY DEF Entries, Backed, Entry

\* save_probe_frame_c writes behind everything that is owned.
LEMMA EntriesWrite ==
    ASSUME NEW s \in Seq(Frame), Len(s) >= 1, NEW idx \in 0 .. MaxSaved - 1, NEW last, NEW rec,
           NEW m \in [0 .. MaxSaved - 1 -> Saved], NEW x \in Saved,
           Entries(s, m, last, rec), Layout(s, idx), \A d \in 1 .. Len(s) : WellFormed(s[d]),
           \A d \in 1 .. Len(s) : s[d].pc \notin {"saved", "popped"}
    PROVE  Entries(s, [m EXCEPT ![idx] = x], last, rec)
<1> DEFINE m2 == [m EXCEPT ![idx] = x]
<1>1. \A j \in 0 .. MaxSaved - 1 : j # idx => m2[j] = m[j]
  OBVIOUS
<1> HIDE DEF m2
<1>2. ASSUME NEW d \in 1 .. Len(s) PROVE Backed(s[d], m2, last, rec)
  <2> DEFINE f == s[d]
  <2>1. f \in Frame /\ f.pc \notin {"saved", "popped"} /\ Backed(f, m, last, rec) /\ s[Len(s)] \in Frame /\ WellFormed(s[Len(s)])
    BY DEF Entries
  <2>2. Ceiling(f) = f.base + Len(f.ids) /\ f.base \in Nat /\ Len(f.ids) \in Nat
    BY <2>1, FrameFacts DEF Ceiling, Owned
  <2>3. Ceiling(f) <= idx
    <3>1. CASE d = Len(s)
      BY <3>1, <2>2 DEF Layout
    <3>2. CASE d < Len(s)
      <4>1. Ceiling(f) <= s[Len(s)].base
        BY <3>2 DEF Layout
      <4>2. idx = s[Len(s)].base + Owned(s[Len(s)]) /\ Owned(s[Len(s)]) \in Nat /\ s[Len(s)].base \in Nat
        BY <2>1, FrameFacts DEF Layout, Ceiling
      <4> QED
        BY <4>1, <4>2, <2>2
    <3> QED
      BY <3>1, <3>2
  <2> HIDE DEF f
  <2>4. ASSUME NEW i \in 1 .. Len(f.ids)
        PROVE  Entry(m2, rec, f.base + i - 1, IF i = 1 THEN f.ret ELSE ExitStub, f.ids[i])
    <3>1. Entry(m, rec, f.base + i - 1, IF i = 1 THEN f.ret ELSE ExitStub, f.ids[i])
      BY <2>1 DEF Backed
    <3>2. f.base + i - 1 \in 0 .. MaxSaved - 1 /\ f.base + i - 1 # idx
      BY <2>2, <2>3, <3>1 DEF Entry
    <3>3. m2[f.base + i - 1] = m[f.base + i - 1]
      BY <1>1, <3>2
    <3> QED
      BY <3>1, <3>3 DEF Entry
  <2> QED
    BY <2>1, <2>4, Zenon DEF Backed, f
<1> QED
  BY <1>2, Zenon DEF Entries, m2
-----------------------------------------------------------------------------
(* The events.                                                             *)

\* So does the account of the calls entered, returned and still to return.
LEMMA AccountedReplace ==
    ASSUME NEW s \in Seq(Frame), Len(s) >= 1, NEW g \in Frame, NEW ent, NEW done, NEW ent2, NEW done2,
           Accounted(s, ent, done), done \subseteq done2,
           \A c \in ent2 : c \in ent \/ Accounts(g, c),
           \A c \in ent : Accounts(s[Len(s)], c) => c \in done2 \/ Accounts(g, c),
           g.pc \in {"pop", "popped"} => g.ids[Len(g.ids)] \in done2
    PROVE  Accounted(Replace(s, g), ent2, done2)
<1> DEFINE r == Replace(s, g)
<1>1. /\ r \in Seq(Frame) /\ Len(r) = Len(s) /\ r[Len(s)] = g /\ Len(s) \in Nat
      /\ \A d \in 1 .. Len(s) - 1 : r[d] = s[d]
  BY Replaced
<1> HIDE DEF r
<1>2. ASSUME NEW c \in ent2 PROVE c \in done2 \/ \E d \in 1 .. Len(r) : Accounts(r[d], c)
  <2>1. CASE Accounts(g, c)
    BY <1>1, <2>1
  <2>2. CASE c \in ent /\ c \in done
    BY <2>2
  <2>3. CASE c \in ent /\ \E d \in 1 .. Len(s) : Accounts(s[d], c)
    <3>1. PICK d \in 1 .. Len(s) : Accounts(s[d], c)
      BY <2>3
    <3>2. CASE d = Len(s)
      BY <2>1, <2>3, <3>1, <3>2
    <3>3. CASE d \in 1 .. Len(s) - 1
      BY <1>1, <3>1, <3>3
    <3> QED
      BY <1>1, <3>2, <3>3
  <2> QED
    BY <2>1, <2>2, <2>3 DEF Accounted
<1>3. ASSUME NEW d \in 1 .. Len(r), r[d].pc \in {"pop", "popped"} PROVE r[d].ids[Len(r[d].ids)] \in done2
  <2>1. CASE d = Len(s)
    BY <1>1, <1>3, <2>1
  <2>2. CASE d \in 1 .. Len(s) - 1
    <3>1. r[d] = s[d] /\ d \in 1 .. Len(s)
      BY <1>1, <2>2
    <3> QED
      BY <1>3, <3>1 DEF Accounted
  <2> QED
    BY <1>1, <2>1, <2>2
<1> QED
  BY <1>2, <1>3 DEF Accounted, r

\* A call leaves each entry event accounted for.
LEMMA AccountedPush ==
    ASSUME NEW s \in Seq(Frame), NEW g \in Frame, NEW ent, NEW done, Accounted(s, ent, done), g.pc \in {"body", "entry"}
    PROVE  Accounted(Append(s, g), ent, done)
<1> DEFINE r == Append(s, g)
<1>1. r \in Seq(Frame) /\ Len(r) = Len(s) + 1 /\ r[Len(s) + 1] = g /\ Len(s) \in Nat /\ \A d \in 1 .. Len(s) : r[d] = s[d]
  BY Pushed
<1> HIDE DEF r
<1>2. \A d \in 1 .. Len(s) : d \in 1 .. Len(r)
  BY <1>1
<1>3. \A c \in ent : c \in done \/ \E d \in 1 .. Len(r) : Accounts(r[d], c)
  BY <1>1, <1>2 DEF Accounted
<1>4. ASSUME NEW d \in 1 .. Len(r), r[d].pc \in {"pop", "popped"} PROVE r[d].ids[Len(r[d].ids)] \in done
  <2>1. d \in 1 .. Len(s) /\ r[d] = s[d]
    BY <1>1, <1>4
  <2> QED
    BY <1>4, <2>1 DEF Accounted
<1> QED
  BY <1>3, <1>4 DEF Accounted, r

\* Leaving frames keeps each entry event accounted for that has not had its return.
LEMMA AccountedCut ==
    ASSUME NEW s \in Seq(Frame), NEW k \in 1 .. Len(s), NEW ent, NEW done, Accounted(s, ent, done),
           \A d \in k + 1 .. Len(s) : \A c \in ent : Accounts(s[d], c) => c \in done
    PROVE  Accounted(SubSeq(s, 1, k), ent, done)
<1> DEFINE r == SubSeq(s, 1, k)
<1>1. Len(r) = k /\ Len(s) \in Nat /\ \A d \in 1 .. k : r[d] = s[d]
  BY CutBack
<1> HIDE DEF r
<1>2. ASSUME NEW c \in ent PROVE c \in done \/ \E d \in 1 .. k : Accounts(r[d], c)
  <2>1. CASE \E d \in 1 .. Len(s) : Accounts(s[d], c)
    <3>1. PICK d \in 1 .. Len(s) : Accounts(s[d], c)
      BY <2>1
    <3>2. CASE d \in 1 .. k
      BY <1>1, <3>1, <3>2
    <3>3. CASE d \in k + 1 .. Len(s)
      BY <3>1, <3>3
    <3> QED
      BY <1>1, <3>2, <3>3
  <2> QED
    BY <2>1 DEF Accounted
<1>3. \A d \in 1 .. k : r[d].pc \in {"pop", "popped"} => r[d].ids[Len(r[d].ids)] \in done
  BY <1>1 DEF Accounted
<1> QED
  BY <1>1, <1>2, <1>3 DEF Accounted, r
-----------------------------------------------------------------------------
(* A step of one thread.                                                   *)

\* What t's step leaves alone, and what it may add.
Own(t) ==
    /\ \A u \in Threads \ {t} :
          /\ stack'[u] = stack[u] /\ saved_frames'[u] = saved_frames[u] /\ call_stack_idx'[u] = call_stack_idx[u]
          /\ last_call_id'[u] = last_call_id[u] /\ in_call_action'[u] = in_call_action[u]
    /\ recursed \subseteq recursed' /\ entered \subseteq entered' /\ returned \subseteq returned'
    /\ broken \subseteq broken' /\ astray' \subseteq astray \cup {t}
    /\ \A u \in Threads \ {t} : /\ \A c \in Nat : <<u, c>> \in entered' => <<u, c>> \in entered
                                /\ \A b \in broken' \ broken : b[1] # u

\* A step of one thread leaves what holds of the others alone.
LEMMA OthersKeep ==
    ASSUME CallInv, NEW t \in Threads, Own(t), NEW u \in Threads \ {t}
    PROVE  /\ Formed(stack[u], in_call_action[u])'
           /\ (InStep(u) => ShadowInv(u))'
<1>1. Formed(stack[u], in_call_action[u])'
  BY DEF CallInv, Own
<1>2. ASSUME InStep(u)' PROVE ShadowInv(u)'
  <2>1. ShadowInv(u)
    BY <1>2 DEF CallInv, InStep, Own
  <2>2. u \notin astray'
    BY <2>1 DEF ShadowInv, Own
  <2>3. Layout(stack'[u], call_stack_idx'[u])
    BY <2>1 DEF ShadowInv, Own
  <2>4. Entries(stack'[u], saved_frames'[u], last_call_id'[u], recursed')
    <3>1. Entries(stack[u], saved_frames[u], last_call_id[u], recursed')
      <4>1. recursed \subseteq recursed' /\ Entries(stack[u], saved_frames[u], last_call_id[u], recursed)
        BY <2>1 DEF ShadowInv, Own
      <4> QED
        BY <4>1 DEF Entries, Backed, Entry
    <3> QED
      BY <3>1 DEF Own
  <2>5. EnteredBy(u)' = EnteredBy(u) /\ ReturnedBy(u) \subseteq ReturnedBy(u)'
    BY DEF Own, EnteredBy, ReturnedBy
  <2>6. Accounted(stack[u], EnteredBy(u), ReturnedBy(u)')
    BY <2>1, <2>5 DEF ShadowInv, Accounted
  <2>7. Accounted(stack'[u], EnteredBy(u)', ReturnedBy(u)')
    BY <2>5, <2>6 DEF Own
  <2> QED
    BY <2>2, <2>3, <2>4, <2>7 DEF ShadowInv
<1> QED
  BY <1>1, <1>2

\* The thread that takes a step.
LEMMA Here ==
    ASSUME CallInv, NEW t \in Threads
    PROVE  /\ stack[t] \in Seq(Frame) /\ Len(stack[t]) \in Nat /\ Len(stack[t]) >= 1
           /\ Top(t) = stack[t][Len(stack[t])] /\ Top(t) \in Frame /\ WellFormed(Top(t))
           /\ Formed(stack[t], in_call_action[t])
           /\ calls[t] \in Nat /\ call_stack_idx[t] \in Nat /\ last_call_id[t] \in Nat /\ in_call_action[t] \in BOOLEAN
           /\ saved_frames[t] \in [0 .. MaxSaved - 1 -> Saved]
           /\ \A g : Continue(t, g) <=> stack' = [stack EXCEPT ![t] = Replace(stack[t], g)]
           /\ InStep(t) => ShadowInv(t)
           /\ InStep(t) => Layout(stack[t], call_stack_idx[t])
           /\ InStep(t) => Entries(stack[t], saved_frames[t], last_call_id[t], recursed)
           /\ InStep(t) => Accounted(stack[t], EnteredBy(t), ReturnedBy(t))
           /\ InStep(t) => t \notin astray
           /\ InStep(t) => call_stack_idx[t] = Ceiling(Top(t)) /\ Backed(Top(t), saved_frames[t], last_call_id[t], recursed)
<1>1. stack[t] \in Seq(Frame) /\ Len(stack[t]) \in Nat /\ Len(stack[t]) >= 1 /\ Formed(stack[t], in_call_action[t])
  BY DEF CallInv, CallTypes, Formed
<1>2. Top(t) = stack[t][Len(stack[t])] /\ Top(t) \in Frame /\ WellFormed(Top(t))
  BY <1>1 DEF Top, Depth, Formed
<1>3. \A g : Continue(t, g) <=> stack' = [stack EXCEPT ![t] = Replace(stack[t], g)]
  BY DEF Continue, Below, Depth, Replace
<1>4. calls[t] \in Nat /\ call_stack_idx[t] \in Nat /\ last_call_id[t] \in Nat /\ in_call_action[t] \in BOOLEAN
      /\ saved_frames[t] \in [0 .. MaxSaved - 1 -> Saved]
  BY DEF CallInv, CallTypes
<1>5. InStep(t) => ShadowInv(t)
  BY DEF CallInv
<1>6. InStep(t) => call_stack_idx[t] = Ceiling(Top(t)) /\ Backed(Top(t), saved_frames[t], last_call_id[t], recursed)
  BY <1>1, <1>2, <1>5 DEF ShadowInv, Layout, Entries
<1> QED
  BY <1>1, <1>2, <1>3, <1>4, <1>5, <1>6 DEF ShadowInv

\* The invariant of t after its step; the step may only grow broken.
Keeps(t) ==
    /\ CallTypes' /\ ReturnPaired' /\ Own(t)
    /\ Formed(stack'[t], in_call_action'[t])
    /\ InStep(t)' => ShadowInv(t)'

\* The stack of t becomes r, and nothing else of the thread changes but what is said.
LEMMA StackChange ==
    ASSUME CallInv, NEW t \in Threads, NEW r \in Seq(Frame), stack' = [stack EXCEPT ![t] = r]
    PROVE  stack' \in [Threads -> Seq(Frame)] /\ stack'[t] = r /\ \A u \in Threads \ {t} : stack'[u] = stack[u]
BY DEF CallInv, CallTypes

\* ReturnPaired survives whenever no return event is logged.
LEMMA NoReturnEvent ==
    ASSUME CallInv, returned' = returned, recursed \subseteq recursed', broken \subseteq broken'
    PROVE  ReturnPaired'
BY DEF CallInv, ReturnPaired, InStep

\* A call starts with an empty frame that owns nothing in the shadow stack.
LEMMA NewFrameOK ==
    ASSUME CallInv, NEW t \in Threads, NEW probe \in Probes \cup {0}
    PROVE  /\ NewFrame(t, probe) \in Frame /\ WellFormed(NewFrame(t, probe)) /\ NewFrame(t, probe).pc \in {"body", "entry"}
           /\ NewFrame(t, probe).ids = <<>> /\ Owned(NewFrame(t, probe)) = 0 /\ NewFrame(t, probe).base = call_stack_idx[t]
<1>1. probe \in Nat /\ calls[t] + 1 \in Nat /\ call_stack_idx[t] \in Nat /\ <<>> \in Seq(Nat) /\ Len(<<>>) = 0
  BY Here, ProbesAssumption
<1> QED
  BY <1>1 DEF NewFrame, Frame, WellFormed, Owned

\* Steps that push an unhandled activation: a call and the start of a signal handler.
LEMMA CallKeeps ==
    ASSUME CallInv, NEW t \in Threads, NEW probe \in Probes \cup {0}, Call(t, probe) \/ (Signal(t) /\ probe = 0)
    PROVE  Keeps(t)
<1> DEFINE g == NewFrame(t, probe)
<1> DEFINE r == Append(stack[t], g)
<1>1. /\ stack' = [stack EXCEPT ![t] = r] /\ calls' = [calls EXCEPT ![t] = @ + 1]
      /\ UNCHANGED <<saved_frames, call_stack_idx, last_call_id, in_call_action, g_call_id_seq, entered, returned, recursed, broken, astray>>
  BY DEF Call, Signal, tls, callHistory
<1>2. r \in Seq(Frame) /\ Formed(r, in_call_action[t])
  BY Here, NewFrameOK, Pushed, FormedPush
<1>3. stack' \in [Threads -> Seq(Frame)] /\ stack'[t] = r /\ \A u \in Threads \ {t} : stack'[u] = stack[u]
  BY <1>1, <1>2, StackChange, Zenon
<1>4. CallTypes'
  BY <1>1, <1>3 DEF CallInv, CallTypes
<1>5. Own(t) /\ ReturnPaired'
  BY <1>1, <1>3, NoReturnEvent DEF Own
<1>6. ASSUME InStep(t) PROVE Layout(r, call_stack_idx[t]) /\ Entries(r, saved_frames[t], last_call_id[t], recursed)
                             /\ Accounted(r, EnteredBy(t), ReturnedBy(t)) /\ t \notin astray
  <2>1. \A d \in 1 .. Len(stack[t]) : WellFormed(stack[t][d])
    BY Here DEF Formed
  <2> QED
    BY <1>6, <2>1, Here, NewFrameOK, LayoutPush, EntriesPush, AccountedPush, Zenon
<1> HIDE DEF r
<1>7. InStep(t)' => ShadowInv(t)'
  BY <1>1, <1>3, <1>6 DEF InStep, ShadowInv, EnteredBy, ReturnedBy
<1> QED
  BY <1>1, <1>2, <1>3, <1>4, <1>5, <1>7 DEF Keeps

\* Steps that change the running activation to g, and nothing that an event records.
LEMMA TopChange ==
    ASSUME CallInv, NEW t \in Threads, NEW g \in Frame, stack' = [stack EXCEPT ![t] = Replace(stack[t], g)],
           UNCHANGED <<saved_frames, last_call_id, g_call_id_seq, entered, returned, recursed, broken, astray>>,
           calls' \in [Threads -> Nat],
           call_stack_idx' \in [Threads -> Nat], \A u \in Threads \ {t} : call_stack_idx'[u] = call_stack_idx[u],
           in_call_action' \in [Threads -> BOOLEAN], \A u \in Threads \ {t} : in_call_action'[u] = in_call_action[u],
           WellFormed(g), g.base = Top(t).base, Len(stack[t]) = 1 => g.probe = 0,
           g.pc # "action",
           in_call_action[t] => in_call_action'[t] \/ Top(t).pc = "action",
           InStep(t) => /\ call_stack_idx'[t] = Ceiling(g)
                        /\ Backed(g, saved_frames[t], last_call_id[t], recursed)
                        /\ \A c \in EnteredBy(t) : Accounts(Top(t), c) => c \in ReturnedBy(t) \/ Accounts(g, c)
                        /\ g.pc \in {"pop", "popped"} => g.ids[Len(g.ids)] \in ReturnedBy(t)
    PROVE  Keeps(t)
<1> DEFINE r == Replace(stack[t], g)
<1>1. Len(stack[t]) = 1 => g.base = 0
  BY Here, Zenon DEF Formed
<1>2. r \in Seq(Frame)
  BY Here, Replaced
<1>3. Formed(r, in_call_action'[t])
  <2>1. in_call_action'[t] \in BOOLEAN
    OBVIOUS
  <2>2. in_call_action[t] => in_call_action'[t] \/ stack[t][Len(stack[t])].pc = "action"
    BY Here, Zenon
  <2>3. stack[t] \in Seq(Frame) /\ Formed(stack[t], in_call_action[t])
    BY Here
  <2> QED
    BY <1>1, <2>1, <2>2, <2>3, FormedReplace
<1>4. stack' \in [Threads -> Seq(Frame)] /\ stack'[t] = r /\ \A u \in Threads \ {t} : stack'[u] = stack[u]
  BY <1>2, StackChange, Zenon
<1>5. CallTypes'
  BY <1>4 DEF CallInv, CallTypes
<1>6. Own(t) /\ ReturnPaired'
  BY <1>4, NoReturnEvent DEF Own
<1>7. ASSUME InStep(t) PROVE Layout(r, call_stack_idx'[t]) /\ Entries(r, saved_frames[t], last_call_id[t], recursed)
                             /\ Accounted(r, EnteredBy(t), ReturnedBy(t)) /\ t \notin astray
  <2>1. Layout(r, Ceiling(g))
    BY <1>7, Here, LayoutReplace
  <2>2. Entries(r, saved_frames[t], last_call_id[t], recursed)
    BY <1>7, Here, EntriesReplace
  <2>3. Accounted(r, EnteredBy(t), ReturnedBy(t))
    BY <1>7, Here, AccountedReplace, Zenon
  <2> QED
    BY <1>7, <2>1, <2>2, <2>3, Here, Zenon
<1> HIDE DEF r
<1>8. InStep(t)' => ShadowInv(t)'
  BY <1>4, <1>7 DEF InStep, ShadowInv, EnteredBy, ReturnedBy
<1> QED
  BY <1>3, <1>4, <1>5, <1>6, <1>8 DEF Keeps

\* Steps that drop activations, of which none owns anything in a thread that is in step.
LEMMA StackCut ==
    ASSUME CallInv, NEW t \in Threads, NEW k \in 1 .. Len(stack[t]) - 1, stack' = [stack EXCEPT ![t] = SubSeq(stack[t], 1, k)],
           UNCHANGED <<saved_frames, call_stack_idx, last_call_id, in_call_action, g_call_id_seq, entered, returned, recursed, astray, calls>>,
           broken \subseteq broken', \A u \in Threads \ {t} : \A b \in broken' \ broken : b[1] # u,
           InStep(t)' => \A d \in k + 1 .. Len(stack[t]) :
               /\ Owned(stack[t][d]) = 0
               /\ \A c \in EnteredBy(t) : Accounts(stack[t][d], c) => c \in ReturnedBy(t)
    PROVE  Keeps(t)
<1> DEFINE r == SubSeq(stack[t], 1, k)
<1>1. k \in 1 .. Len(stack[t]) /\ k \in 0 .. Len(stack[t])
  <2>1. Len(stack[t]) \in Nat
    BY Here, Zenon
  <2> QED
    BY <2>1
<1>2. r \in Seq(Frame)
  BY <1>1, Here, CutBack
<1>3. Formed(r, in_call_action[t])
  BY <1>1, Here, FormedCut, Zenon
<1>4. stack' \in [Threads -> Seq(Frame)] /\ stack'[t] = r /\ \A u \in Threads \ {t} : stack'[u] = stack[u]
  BY <1>2, StackChange, Zenon
<1>5. CallTypes'
  BY <1>4 DEF CallInv, CallTypes
<1>6. Own(t) /\ ReturnPaired'
  BY <1>4, NoReturnEvent DEF Own
<1>7. InStep(t)' => InStep(t)
  BY DEF InStep
<1>8. ASSUME InStep(t)' PROVE Layout(r, call_stack_idx[t]) /\ Entries(r, saved_frames[t], last_call_id[t], recursed)
                              /\ Accounted(r, EnteredBy(t), ReturnedBy(t)) /\ t \notin astray
  <2>1. Layout(r, call_stack_idx[t])
    BY <1>7, <1>8, Here, LayoutCut, Zenon
  <2>2. Entries(r, saved_frames[t], last_call_id[t], recursed)
    BY <1>1, <1>7, <1>8, Here, EntriesCut, Zenon
  <2>3. Accounted(r, EnteredBy(t), ReturnedBy(t))
    BY <1>1, <1>7, <1>8, Here, AccountedCut, Zenon
  <2> QED
    BY <1>7, <1>8, <2>1, <2>2, <2>3, Here, Zenon
<1> HIDE DEF r
<1>9. InStep(t)' => ShadowInv(t)'
  BY <1>4, <1>8, Zenon DEF ShadowInv, EnteredBy, ReturnedBy
<1> QED
  BY <1>3, <1>4, <1>5, <1>6, <1>9, Zenon DEF Keeps
-----------------------------------------------------------------------------
(* The steps of the target and of the stubs.                               *)

\* A tail call reuses the frame: the entries of the callers before it stay with it.
LEMMA TailCallKeeps ==
    ASSUME CallInv, NEW t \in Threads, NEW probe \in Probes, TailCall(t, probe)
    PROVE  Keeps(t)
<1> DEFINE f == Top(t)
<1> DEFINE g == [f EXCEPT !.pc = "entry", !.probe = probe]
<1>1. f \in Frame /\ f.pc = "body" /\ probe \in Nat \ {0} /\ Len(stack[t]) # 1
  BY Here, ProbesAssumption DEF TailCall, At, Depth
<1>2. g \in Frame /\ g.pc = "entry" /\ g.probe = probe /\ g.base = f.base /\ g.ids = f.ids /\ g.ret = f.ret
  BY <1>1, Zenon DEF Frame
<1>3. /\ stack' = [stack EXCEPT ![t] = Replace(stack[t], g)] /\ calls' = [calls EXCEPT ![t] = @ + 1]
      /\ UNCHANGED <<saved_frames, call_stack_idx, last_call_id, in_call_action, g_call_id_seq, entered, returned, recursed, broken, astray>>
  BY Here DEF TailCall, tls, callHistory
<1>4. calls' \in [Threads -> Nat]
  BY <1>3 DEF CallInv, CallTypes
<1> HIDE DEF f, g
<1>5. WellFormed(g) /\ Ceiling(g) = Ceiling(f) /\ \A c : Accounts(f, c) => Accounts(g, c)
  BY <1>1, <1>2 DEF WellFormed, Ceiling, Owned, Accounts
<1>6. InStep(t) => Backed(g, saved_frames[t], last_call_id[t], recursed) /\ call_stack_idx'[t] = Ceiling(g)
  <2>1. InStep(t) => Backed(f, saved_frames[t], last_call_id[t], recursed) /\ call_stack_idx[t] = Ceiling(f)
    BY Here DEF f
  <2> QED
    BY <1>1, <1>2, <1>3, <1>5, <2>1, Zenon DEF Backed
<1>7. call_stack_idx' \in [Threads -> Nat] /\ in_call_action' \in [Threads -> BOOLEAN]
  BY <1>3 DEF CallInv, CallTypes
<1> QED
  BY <1>1, <1>2, <1>3, <1>4, <1>5, <1>6, <1>7, TopChange, Zenon DEF f

\* The end of a call action.
LEMMA EndActionKeeps ==
    ASSUME CallInv, NEW t \in Threads, EndAction(t)
    PROVE  Keeps(t)
<1> DEFINE f == Top(t)
<1> DEFINE g == [f EXCEPT !.pc = "save"]
<1>1. f \in Frame /\ f.pc = "action" /\ WellFormed(f)
  BY Here DEF EndAction, At
<1>2. g \in Frame /\ g.pc = "save" /\ g.probe = f.probe /\ g.base = f.base /\ g.ids = f.ids /\ g.ret = f.ret /\ g.mine = f.mine
  BY <1>1 DEF Frame
<1>3. /\ stack' = [stack EXCEPT ![t] = Replace(stack[t], g)] /\ in_call_action' = [in_call_action EXCEPT ![t] = FALSE]
      /\ UNCHANGED <<calls, saved_frames, call_stack_idx, last_call_id, g_call_id_seq, entered, returned, recursed, broken, astray>>
  BY Here DEF EndAction, callHistory
<1>4. /\ calls' \in [Threads -> Nat] /\ call_stack_idx' \in [Threads -> Nat]
      /\ in_call_action' \in [Threads -> BOOLEAN] /\ \A u \in Threads \ {t} : in_call_action'[u] = in_call_action[u]
  BY <1>3 DEF CallInv, CallTypes
<1>5. Len(stack[t]) # 1
  BY <1>1, Here, Zenon DEF Formed, WellFormed
<1> HIDE DEF f, g
<1>6. WellFormed(g) /\ Ceiling(g) = Ceiling(f) /\ \A c : Accounts(f, c) => Accounts(g, c)
  BY <1>1, <1>2 DEF WellFormed, Ceiling, Owned, Accounts
<1>7. InStep(t) => Backed(g, saved_frames[t], last_call_id[t], recursed) /\ call_stack_idx'[t] = Ceiling(g)
  <2>1. InStep(t) => Backed(f, saved_frames[t], last_call_id[t], recursed) /\ call_stack_idx[t] = Ceiling(f)
    BY Here DEF f
  <2> QED
    BY <1>1, <1>2, <1>3, <1>6, <2>1 DEF Backed
<1> QED
  BY <1>1, <1>2, <1>3, <1>4, <1>5, <1>6, <1>7, TopChange, Zenon DEF f

\* A frame whose return address entry_stub replaced.
LEMMA HijackOK ==
    ASSUME NEW f \in Frame
    PROVE  /\ Hijack(f) \in Frame /\ Hijack(f).pc = "body" /\ Hijack(f).probe = f.probe /\ Hijack(f).base = f.base
           /\ Hijack(f).ids = Append(f.ids, f.mine) /\ Hijack(f).ret = f.ret
<1>1. Append(f.ids, f.mine) \in Seq(Nat)
  BY FrameFacts
<1>2. Hijack(f) = [f EXCEPT !.pc = "body", !.ids = Append(f.ids, f.mine)]
  BY DEF Hijack, Frame
<1> QED
  BY <1>1, <1>2, Zenon DEF Frame

\* The second half of save_probe_frame_c: ++call_stack_idx.
LEMMA SavePushKeeps ==
    ASSUME CallInv, NEW t \in Threads, SavePush(t)
    PROVE  Keeps(t)
<1> DEFINE f == Top(t)
<1> DEFINE g == Hijack(f)
<1>1. f \in Frame /\ f.pc = "saved" /\ WellFormed(f) /\ f.ids \in Seq(Nat) /\ f.mine \in Nat /\ f.base \in Nat /\ Len(f.ids) \in Nat
  BY Here, FrameFacts, Zenon DEF SavePush, At
<1>2. g \in Frame /\ g.pc = "body" /\ g.probe = f.probe /\ g.base = f.base /\ g.ids = Append(f.ids, f.mine) /\ g.ret = f.ret
  BY <1>1, HijackOK
<1>3. /\ stack' = [stack EXCEPT ![t] = Replace(stack[t], g)] /\ call_stack_idx' = [call_stack_idx EXCEPT ![t] = @ + 1]
      /\ UNCHANGED <<calls, saved_frames, last_call_id, in_call_action, g_call_id_seq, entered, returned, recursed, broken, astray>>
  BY Here, Zenon DEF SavePush, callHistory
<1>4. /\ calls' \in [Threads -> Nat] /\ call_stack_idx' \in [Threads -> Nat] /\ in_call_action' \in [Threads -> BOOLEAN]
      /\ \A u \in Threads \ {t} : call_stack_idx'[u] = call_stack_idx[u]
      /\ call_stack_idx'[t] = call_stack_idx[t] + 1
  BY <1>3, SMT, Z3 DEF CallInv, CallTypes
<1>5. Len(stack[t]) # 1 /\ f.probe # 0
  BY <1>1, Here, Zenon DEF Formed, WellFormed
<1> HIDE DEF f, g
<1>6. /\ Len(g.ids) = Len(f.ids) + 1 /\ g.ids[Len(f.ids) + 1] = f.mine
      /\ \A i \in 1 .. Len(f.ids) : g.ids[i] = f.ids[i]
  BY <1>1, <1>2
<1>7. WellFormed(g) /\ Ceiling(g) = Ceiling(f) + 1
  BY <1>1, <1>2, <1>5, <1>6 DEF WellFormed, Ceiling, Owned
<1>8. \A c : Accounts(f, c) => Accounts(g, c)
  <2> SUFFICES ASSUME NEW c, Accounts(f, c) PROVE \E i \in 1 .. Len(g.ids) : g.ids[i] = c
    BY Zenon DEF Accounts
  <2>1. CASE f.mine = c
    BY <1>1, <1>6, <2>1
  <2>2. CASE \E i \in 1 .. Len(f.ids) : f.ids[i] = c
    BY <1>6, <2>2, SMT, Z3
  <2> QED
    BY <2>1, <2>2 DEF Accounts
<1>9. ASSUME InStep(t) PROVE Backed(g, saved_frames[t], last_call_id[t], recursed) /\ call_stack_idx'[t] = Ceiling(g)
  <2>1. Backed(f, saved_frames[t], last_call_id[t], recursed) /\ call_stack_idx[t] = Ceiling(f)
    BY <1>9, Here DEF f
  <2>2. ASSUME NEW i \in 1 .. Len(g.ids)
        PROVE  Entry(saved_frames[t], recursed, g.base + i - 1, IF i = 1 THEN g.ret ELSE ExitStub, g.ids[i])
    <3>1. CASE i \in 1 .. Len(f.ids)
      BY <1>2, <1>6, <2>1, <3>1 DEF Backed
    <3>2. CASE i = Len(f.ids) + 1
      <4>1. Entry(saved_frames[t], recursed, f.base + Len(f.ids), ReturnSlot(f), f.mine)
        BY <1>1, <2>1 DEF Backed
      <4>2. ReturnSlot(f) = (IF i = 1 THEN g.ret ELSE ExitStub)
        BY <1>1, <1>2, <3>2 DEF ReturnSlot
      <4>3. g.base + i - 1 = f.base + Len(f.ids) /\ g.ids[i] = f.mine
        BY <1>1, <1>2, <1>6, <3>2
      <4> QED
        BY <4>1, <4>2, <4>3
    <3> QED
      BY <1>6, <3>1, <3>2, SMT, Z3
  <2> QED
    BY <1>2, <1>4, <1>7, <2>1, <2>2 DEF Backed
<1> QED
  BY <1>1, <1>2, <1>3, <1>4, <1>5, <1>7, <1>8, <1>9, TopChange, Zenon DEF f

\* A function returns.
LEMMA ReturnKeeps ==
    ASSUME CallInv, NEW t \in Threads, Return(t)
    PROVE  Keeps(t)
<1> DEFINE f == Top(t)
<1> DEFINE g == [f EXCEPT !.pc = "exit"]
<1>1. f \in Frame /\ f.pc = "body" /\ WellFormed(f) /\ f = stack[t][Len(stack[t])] /\ Len(stack[t]) > 1 /\ Len(stack[t]) \in Nat
  BY Here DEF Return, At, Depth
<1>2. UNCHANGED <<calls, saved_frames, call_stack_idx, last_call_id, in_call_action, g_call_id_seq, entered, returned, recursed, broken, astray>>
  BY DEF Return, tls, callHistory
<1>3. CASE f.ids = <<>>
  <2>1. stack' = [stack EXCEPT ![t] = SubSeq(stack[t], 1, Len(stack[t]) - 1)]
    BY <1>3 DEF Return, Below, Depth
  <2>2. Owned(f) = 0 /\ \A c : ~Accounts(f, c)
    BY <1>1, <1>3 DEF Owned, Accounts
  <2> DEFINE k == Len(stack[t]) - 1
  <2>3. k \in 1 .. Len(stack[t]) - 1 /\ \A d \in k + 1 .. Len(stack[t]) : stack[t][d] = f
    BY <1>1
  <2>4. broken \subseteq broken' /\ \A u \in Threads \ {t} : \A b \in broken' \ broken : b[1] # u
    BY <1>2
  <2> HIDE DEF f
  <2>5. \A d \in k + 1 .. Len(stack[t]) :
            /\ Owned(stack[t][d]) = 0
            /\ \A c \in EnteredBy(t) : Accounts(stack[t][d], c) => c \in ReturnedBy(t)
    BY <2>2, <2>3
  <2>6. stack' = [stack EXCEPT ![t] = SubSeq(stack[t], 1, k)]
    BY <2>1
  <2> HIDE DEF k
  <2> QED
    BY <1>2, <2>3, <2>4, <2>5, <2>6, StackCut, Zenon
<1>4. CASE f.ids # <<>>
  <2>1. g \in Frame /\ g.pc = "exit" /\ g.probe = f.probe /\ g.base = f.base /\ g.ids = f.ids /\ g.ret = f.ret
    BY <1>1 DEF Frame
  <2>2. stack' = [stack EXCEPT ![t] = Replace(stack[t], g)]
    BY <1>4, Here DEF Return
  <2>3. calls' \in [Threads -> Nat] /\ call_stack_idx' \in [Threads -> Nat] /\ in_call_action' \in [Threads -> BOOLEAN]
    BY <1>2 DEF CallInv, CallTypes
  <2>4. f.ids \in Seq(Nat) /\ Len(f.ids) > 0
    BY <1>1, <1>4, FrameFacts
  <2>5. InStep(t) => Backed(f, saved_frames[t], last_call_id[t], recursed) /\ call_stack_idx[t] = Ceiling(f)
    BY Here
  <2> HIDE DEF f, g
  <2>6. WellFormed(g) /\ Ceiling(g) = Ceiling(f) /\ \A c : Accounts(f, c) => Accounts(g, c)
    BY <1>1, <2>1, <2>4, SMT, Z3 DEF WellFormed, Ceiling, Owned, Accounts
  <2>7. InStep(t) => Backed(g, saved_frames[t], last_call_id[t], recursed) /\ call_stack_idx'[t] = Ceiling(g)
    BY <1>1, <1>2, <2>1, <2>5, <2>6 DEF Backed
  <2>8. Len(stack[t]) # 1
    BY <1>1
  <2> QED
    BY <1>2, <2>1, <2>2, <2>3, <2>6, <2>7, <2>8, TopChange, Zenon DEF f
<1> QED
  BY <1>3, <1>4

\* get_ret_addr_c lowers call_stack_idx, or finds nothing saved.
LEMMA PopDecKeeps ==
    ASSUME CallInv, NEW t \in Threads, PopDec(t)
    PROVE  Keeps(t)
<1> DEFINE f == Top(t)
<1> DEFINE g == [f EXCEPT !.pc = "popped"]
<1>1. /\ f \in Frame /\ f.pc = "pop" /\ WellFormed(f) /\ f = stack[t][Len(stack[t])] /\ Len(stack[t]) \in Nat /\ Len(stack[t]) >= 1
      /\ f.ids \in Seq(Nat) /\ Len(f.ids) \in Nat /\ Len(f.ids) > 0 /\ f.base \in Nat /\ call_stack_idx[t] \in Nat
  BY Here, FrameFacts DEF PopDec, At, WellFormed
<1>2. UNCHANGED <<calls, saved_frames, last_call_id, in_call_action, g_call_id_seq, entered, returned, recursed, broken>>
  BY DEF PopDec
<1>3. InStep(t) => /\ call_stack_idx[t] = f.base + Len(f.ids)
                   /\ Backed(f, saved_frames[t], last_call_id[t], recursed)
                   /\ f.ids[Len(f.ids)] \in ReturnedBy(t)
  <2>1. InStep(t) => call_stack_idx[t] = Ceiling(f) /\ Backed(f, saved_frames[t], last_call_id[t], recursed)
    BY Here, Zenon
  <2>2. InStep(t) => f.ids[Len(f.ids)] \in ReturnedBy(t)
    <3>1. InStep(t) => Accounted(stack[t], EnteredBy(t), ReturnedBy(t))
      BY Here
    <3>2. Len(stack[t]) \in 1 .. Len(stack[t])
      BY <1>1, SMT, Z3
    <3> QED
      BY <1>1, <3>1, <3>2 DEF Accounted
  <2> QED
    BY <1>1, <2>1, <2>2 DEF Ceiling, Owned
<1>4. CASE call_stack_idx[t] > 0
  <2>1. /\ stack' = [stack EXCEPT ![t] = Replace(stack[t], g)] /\ call_stack_idx' = [call_stack_idx EXCEPT ![t] = @ - 1]
        /\ astray' = astray
    BY <1>4, Here DEF PopDec
  <2>2. /\ calls' \in [Threads -> Nat] /\ call_stack_idx' \in [Threads -> Nat] /\ in_call_action' \in [Threads -> BOOLEAN]
        /\ \A u \in Threads \ {t} : call_stack_idx'[u] = call_stack_idx[u]
        /\ call_stack_idx'[t] = call_stack_idx[t] - 1
    BY <1>1, <1>2, <1>4, <2>1 DEF CallInv, CallTypes
  <2>3. g \in Frame /\ g.pc = "popped" /\ g.probe = f.probe /\ g.base = f.base /\ g.ids = f.ids /\ g.ret = f.ret
    BY <1>1 DEF Frame
  <2>4. Len(stack[t]) # 1
    BY <1>1, Here, Zenon DEF Formed, WellFormed
  <2> HIDE DEF f, g
  <2>5. WellFormed(g) /\ Ceiling(g) = f.base + Len(f.ids) - 1 /\ \A c : Accounts(f, c) => Accounts(g, c)
    BY <1>1, <2>3 DEF WellFormed, Ceiling, Owned, Accounts
  <2>6. InStep(t) => Backed(g, saved_frames[t], last_call_id[t], recursed) /\ call_stack_idx'[t] = Ceiling(g)
    <3>1. f.pc = "pop" /\ (InStep(t) => Backed(f, saved_frames[t], last_call_id[t], recursed))
      BY <1>1, <1>3
    <3>2. InStep(t) => call_stack_idx'[t] = Ceiling(g)
      <4>1. InStep(t) => call_stack_idx'[t] = f.base + Len(f.ids) - 1
        <5>1. call_stack_idx'[t] = call_stack_idx[t] - 1
          BY <2>2
        <5>2. f.base \in Nat /\ Len(f.ids) \in Nat
          BY <1>1
        <5>3. InStep(t) => call_stack_idx[t] = f.base + Len(f.ids)
          BY <1>3
        <5> QED
          BY <5>1, <5>2, <5>3
      <4> QED
        BY <2>5, <4>1
    <3>3. InStep(t) => Backed(g, saved_frames[t], last_call_id[t], recursed)
      BY <2>3, <3>1 DEF Backed
    <3> QED
      BY <3>2, <3>3
  <2>7. InStep(t) => g.ids[Len(g.ids)] \in ReturnedBy(t)
    BY <1>3, <2>3
  <2> QED
    BY <1>1, <1>2, <2>1, <2>2, <2>3, <2>4, <2>5, <2>6, <2>7, TopChange, Zenon DEF f
<1>5. CASE ~(call_stack_idx[t] > 0)
  <2>1. ~InStep(t)
    BY <1>1, <1>3, <1>5
  <2>2. UNCHANGED <<stack, call_stack_idx>> /\ astray' = astray \cup {t}
    BY <1>5 DEF PopDec
  <2>3. CallTypes' /\ Own(t) /\ ReturnPaired'
    BY <1>2, <2>2, NoReturnEvent DEF CallInv, CallTypes, Own
  <2>4. ~InStep(t)' /\ Formed(stack'[t], in_call_action'[t])
    BY <1>2, <2>1, <2>2, Here, Zenon DEF InStep
  <2> QED
    BY <2>3, <2>4 DEF Keeps
<1> QED
  BY <1>4, <1>5

\* zt_handle_return records the return.
LEMMA HandleReturnKeeps ==
    ASSUME CallInv, NEW t \in Threads, HandleReturn(t)
    PROVE  Keeps(t)
<1> DEFINE f == Top(t)
<1> DEFINE g == [f EXCEPT !.pc = "pop"]
<1> DEFINE n == Len(f.ids)
<1> DEFINE r == Replace(stack[t], g)
<1>1. /\ f \in Frame /\ f.pc = "exit" /\ WellFormed(f) /\ f = stack[t][Len(stack[t])] /\ Len(stack[t]) \in Nat /\ Len(stack[t]) >= 1
      /\ f.ids \in Seq(Nat) /\ n \in Nat /\ n > 0 /\ f.base \in Nat /\ call_stack_idx[t] \in Nat
  BY Here, FrameFacts DEF HandleReturn, At, WellFormed
<1>2. /\ UNCHANGED <<calls, saved_frames, call_stack_idx, last_call_id, in_call_action, g_call_id_seq, entered, recursed, broken, astray>>
      /\ stack' = [stack EXCEPT ![t] = r]
      /\ returned' = IF call_stack_idx[t] > 0
                     THEN returned \cup {<<t, f.ids[n], saved_frames[t][call_stack_idx[t] - 1].call_id>>}
                     ELSE returned
  BY Here DEF HandleReturn, tls
<1>3. g \in Frame /\ g.pc = "pop" /\ g.probe = f.probe /\ g.base = f.base /\ g.ids = f.ids /\ g.ret = f.ret
  BY <1>1 DEF Frame
<1>4. Len(stack[t]) # 1
  BY <1>1, Here, Zenon DEF Formed, WellFormed
<1>0. n \in Nat /\ n > 0 /\ f.base \in Nat /\ call_stack_idx[t] \in Nat
  BY <1>1
<1>5. f.ids[n] \in Nat
  BY <1>1, SMT, Z3
<1>6. InStep(t) => /\ call_stack_idx[t] = f.base + n
                   /\ f.ids[n] \in recursed \/ saved_frames[t][f.base + n - 1].call_id = f.ids[n]
  <2>1. InStep(t) => call_stack_idx[t] = Ceiling(f) /\ Backed(f, saved_frames[t], last_call_id[t], recursed)
    BY Here, Zenon
  <2>2. n \in 1 .. n
    BY <1>1
  <2> QED
    BY <1>1, <2>1, <2>2, Zenon DEF Ceiling, Owned, Backed, Entry
<1> HIDE DEF f, g, n
<1>7. WellFormed(g) /\ Ceiling(g) = Ceiling(f) /\ \A c : Accounts(f, c) => Accounts(g, c)
  BY <1>1, <1>3 DEF WellFormed, Ceiling, Owned, Accounts, n
<1>8. ReturnPaired'
  <2>1. ASSUME NEW x \in returned', InStep(x[1])', x[2] \notin recursed' PROVE x[2] = x[3]
    <3>1. CASE x \in returned
      BY <1>2, <2>1, <3>1 DEF CallInv, ReturnPaired, InStep
    <3>2. CASE x \notin returned
      <4>1. x = <<t, f.ids[n], saved_frames[t][call_stack_idx[t] - 1].call_id>>
        BY <1>2, <3>2
      <4>2. InStep(t)
        BY <1>2, <2>1, <4>1 DEF InStep
      <4>3. x[2] = f.ids[n] /\ x[3] = saved_frames[t][call_stack_idx[t] - 1].call_id
        BY <4>1
      <4>4. call_stack_idx[t] - 1 = f.base + n - 1
        BY <1>0, <1>6, <4>2, SMT, Z3
      <4> QED
        BY <1>2, <1>6, <2>1, <4>2, <4>3, <4>4
    <3> QED
      BY <3>1, <3>2
  <2> QED
    BY <2>1 DEF ReturnPaired
<1>9. r \in Seq(Frame)
  BY <1>3, Here, Replaced, Zenon
<1>10. stack' \in [Threads -> Seq(Frame)] /\ stack'[t] = r /\ \A u \in Threads \ {t} : stack'[u] = stack[u]
  BY <1>2, <1>9, StackChange, Zenon
<1>11. CallTypes'
  BY <1>2, <1>10 DEF CallInv, CallTypes
<1>12. Own(t)
  BY <1>2, <1>10 DEF Own
<1>13. Formed(r, in_call_action[t])
  <2>1. stack[t] \in Seq(Frame) /\ Formed(stack[t], in_call_action[t]) /\ in_call_action[t] \in BOOLEAN
    BY Here, Zenon
  <2> QED
    BY <1>3, <1>4, <1>7, <2>1, FormedReplace
<1>14. ASSUME InStep(t) PROVE Layout(r, call_stack_idx[t]) /\ Entries(r, saved_frames[t], last_call_id[t], recursed)
                              /\ Accounted(r, EnteredBy(t), ReturnedBy(t)') /\ t \notin astray
  <2>1. Backed(f, saved_frames[t], last_call_id[t], recursed) /\ call_stack_idx[t] = Ceiling(f)
    BY <1>14, Here DEF f
  <2>2. Backed(g, saved_frames[t], last_call_id[t], recursed)
    BY <1>1, <1>3, <2>1 DEF Backed
  <2>3. Layout(r, call_stack_idx[t])
    <3>1. stack[t] \in Seq(Frame) /\ Formed(stack[t], in_call_action[t]) /\ Layout(stack[t], call_stack_idx[t])
      BY <1>14, Here, Zenon
    <3> QED
      BY <1>1, <1>3, <1>7, <2>1, <3>1, LayoutReplace
  <2>4. Entries(r, saved_frames[t], last_call_id[t], recursed)
    BY <1>3, <1>14, <2>2, Here, EntriesReplace, Zenon
  <2>5. f.ids[n] \in ReturnedBy(t)' /\ ReturnedBy(t) \subseteq ReturnedBy(t)'
    <3>1. <<t, f.ids[n], saved_frames[t][call_stack_idx[t] - 1].call_id>> \in returned' /\ returned \subseteq returned'
      <4>1. call_stack_idx[t] > 0
        BY <1>0, <1>6, <1>14
      <4> QED
        BY <1>2, <4>1
    <3> QED
      BY <1>5, <3>1 DEF ReturnedBy
  <2>6. g.ids[Len(g.ids)] \in ReturnedBy(t)'
    BY <1>3, <2>5 DEF n
  <2>7. stack[t] \in Seq(Frame) /\ Len(stack[t]) >= 1 /\ Accounted(stack[t], EnteredBy(t), ReturnedBy(t)) /\ stack[t][Len(stack[t])] = f
    BY <1>1, <1>14, Here, Zenon
  <2>8. Accounted(r, EnteredBy(t), ReturnedBy(t)')
    BY <1>3, <1>7, <2>5, <2>6, <2>7, AccountedReplace
  <2> QED
    BY <1>14, <2>3, <2>4, <2>8, Here, Zenon
<1> HIDE DEF r
<1>15. InStep(t)' => ShadowInv(t)'
  <2>1. InStep(t)' => InStep(t)
    BY <1>2 DEF InStep
  <2>2. EnteredBy(t)' = EnteredBy(t)
    BY <1>2 DEF EnteredBy
  <2> QED
    BY <1>2, <1>10, <1>14, <2>1, <2>2 DEF ShadowInv
<1> QED
  BY <1>2, <1>8, <1>10, <1>11, <1>12, <1>13, <1>15 DEF Keeps

\* Frames are left without returning: their entries stay on the shadow stack.
LEMMA LongjmpKeeps ==
    ASSUME CallInv, NEW t \in Threads, NEW k \in 1 .. Depth(t) - 1, Longjmp(t, k)
    PROVE  Keeps(t)
<1>1. /\ k \in 1 .. Len(stack[t]) - 1 /\ stack' = [stack EXCEPT ![t] = SubSeq(stack[t], 1, k)]
      /\ UNCHANGED <<saved_frames, call_stack_idx, last_call_id, in_call_action, g_call_id_seq, entered, returned, recursed, astray, calls>>
      /\ broken' = IF \E e \in k + 1 .. Len(stack[t]) : stack[t][e].probe # 0
                   THEN broken \cup {<<t, "unwound">>} ELSE broken
  BY Zenon DEF Longjmp, Depth, tls
<1>2. broken \subseteq broken' /\ \A u \in Threads \ {t} : \A b \in broken' \ broken : b[1] # u
  BY <1>1
<1>3. ASSUME InStep(t)', NEW d \in k + 1 .. Len(stack[t])
      PROVE  Owned(stack[t][d]) = 0 /\ \A c \in EnteredBy(t) : Accounts(stack[t][d], c) => c \in ReturnedBy(t)
  <2>1. stack[t][d].probe = 0
    <3> SUFFICES ASSUME stack[t][d].probe # 0 PROVE FALSE
      OBVIOUS
    <3>1. <<t, "unwound">> \in broken'
      BY <1>1, <1>3
    <3> QED
      BY <1>3, <3>1 DEF InStep
  <2>2. WellFormed(stack[t][d])
    <3>1. Len(stack[t]) \in Nat /\ Formed(stack[t], in_call_action[t])
      BY Here, Zenon
    <3>2. d \in 1 .. Len(stack[t])
      BY <3>1
    <3> QED
      BY <3>1, <3>2 DEF Formed
  <2> QED
    BY <2>1, <2>2 DEF WellFormed, Owned, Accounts
<1> QED
  BY <1>1, <1>2, <1>3, StackCut, Zenon

\* get_ret_addr_c loads the address, and exit_stub jumps to it.
LEMMA PopReadKeeps ==
    ASSUME CallInv, NEW t \in Threads, PopRead(t)
    PROVE  Keeps(t)
<1> DEFINE f == Top(t)
<1> DEFINE n == Len(f.ids)
<1> DEFINE addr == saved_frames[t][call_stack_idx[t]].ret_addr
<1>1. /\ f \in Frame /\ f.pc = "popped" /\ WellFormed(f) /\ f = stack[t][Len(stack[t])] /\ Len(stack[t]) \in Nat /\ Len(stack[t]) >= 1
      /\ f.ids \in Seq(Nat) /\ n \in Nat /\ n > 0 /\ f.base \in Nat /\ call_stack_idx[t] \in Nat
  BY Here, FrameFacts, Zenon DEF PopRead, At, WellFormed
<1>2. UNCHANGED <<calls, saved_frames, call_stack_idx, last_call_id, in_call_action, g_call_id_seq, entered, returned, recursed, broken>>
  BY DEF PopRead, tls
<1>3. Len(stack[t]) # 1
  BY <1>1, Here, Zenon DEF Formed, WellFormed
<1>0. n \in Nat /\ n > 0 /\ f.base \in Nat /\ call_stack_idx[t] \in Nat
  BY <1>1
<1>4. InStep(t) => Backed(f, saved_frames[t], last_call_id[t], recursed) /\ call_stack_idx[t] = f.base + n - 1 /\ call_stack_idx[t] = Ceiling(f)
  <2>1. InStep(t) => call_stack_idx[t] = Ceiling(f) /\ Backed(f, saved_frames[t], last_call_id[t], recursed)
    BY Here, Zenon
  <2> QED
    BY <1>1, <2>1 DEF Ceiling, Owned
<1>5. InStep(t) => addr = WantedAddress(f)
  <2> HIDE DEF f
  <2>1. n \in 1 .. n
    BY <1>1
  <2>2. InStep(t) => saved_frames[t][f.base + n - 1].ret_addr = IF n = 1 THEN f.ret ELSE ExitStub
    BY <1>4, <2>1, Zenon DEF Backed, Entry
  <2>3. WantedAddress(f) = IF n = 1 THEN f.ret ELSE ExitStub
    <3>1. WantedAddress(f) = IF n > 1 THEN ExitStub ELSE f.ret
      BY DEF WantedAddress
    <3> HIDE DEF n
    <3>2. n = 1 <=> ~(n > 1)
      BY <1>0
    <3> QED
      BY <3>1, <3>2
  <2> HIDE DEF n
  <2> QED
    BY <1>4, <2>2, <2>3
<1>6. InStep(t) => f.ids[n] \in ReturnedBy(t)
  <2>1. InStep(t) => Accounted(stack[t], EnteredBy(t), ReturnedBy(t))
    BY Here
  <2>2. Len(stack[t]) \in 1 .. Len(stack[t])
    BY <1>1
  <2> QED
    BY <1>1, <2>1, <2>2 DEF Accounted
<1>7. CASE addr # WantedAddress(f)
  <2>1. UNCHANGED stack /\ astray' = astray \cup {t}
    BY <1>7 DEF PopRead, ResumeAt
  <2>2. CallTypes' /\ Own(t) /\ ReturnPaired'
    BY <1>2, <2>1, NoReturnEvent DEF CallInv, CallTypes, Own
  <2>3. ~InStep(t)' /\ Formed(stack'[t], in_call_action'[t])
    BY <1>2, <1>5, <1>7, <2>1, Here, Zenon DEF InStep
  <2> QED
    BY <2>2, <2>3 DEF Keeps
<1>8. CASE addr = WantedAddress(f) /\ n > 1
  <2> DEFINE ids == SubSeq(f.ids, 1, n - 1)
  <2> DEFINE g == [f EXCEPT !.pc = "exit", !.ids = ids]
  <2>1. stack' = [stack EXCEPT ![t] = Replace(stack[t], g)] /\ astray' = astray
    BY <1>1, <1>8 DEF PopRead, ResumeAt, Replace, Below, Depth, Frame
  <2>2. ids \in Seq(Nat) /\ Len(ids) = n - 1 /\ \A i \in 1 .. n - 1 : ids[i] = f.ids[i]
    <3> HIDE DEF f
    <3>1. n \in Nat /\ n > 0 /\ f.ids \in Seq(Nat) /\ n = Len(f.ids)
      BY <1>1
    <3>2. n - 1 \in 0 .. n
      BY <3>1
    <3> QED
      BY <3>1, SMT, Z3
  <2> HIDE DEF ids
  <2>3. g \in Frame /\ g.pc = "exit" /\ g.probe = f.probe /\ g.base = f.base /\ g.ids = ids /\ g.ret = f.ret
    BY <1>1, <2>2, Zenon DEF Frame
  <2>4. calls' \in [Threads -> Nat] /\ call_stack_idx' \in [Threads -> Nat] /\ in_call_action' \in [Threads -> BOOLEAN]
    BY <1>2 DEF CallInv, CallTypes
  <2> HIDE DEF f, g
  <2> HIDE DEF n
  <2>9. n - 1 > 0 /\ f.probe # 0 /\ Len(g.ids) = n - 1
    BY <1>0, <1>1, <1>8, <2>2, <2>3 DEF WellFormed
  <2>5. WellFormed(g) /\ Ceiling(g) = f.base + n - 1
    <3>1. Owned(g) = n - 1
      BY <2>3, <2>9 DEF Owned
    <3>2. WellFormed(g)
      BY <2>3, <2>9 DEF WellFormed
    <3> QED
      BY <1>0, <2>3, <3>1, <3>2 DEF Ceiling
  <2>6. InStep(t) => Backed(g, saved_frames[t], last_call_id[t], recursed) /\ call_stack_idx'[t] = Ceiling(g)
    <3>1. InStep(t) => \A i \in 1 .. n - 1 : Entry(saved_frames[t], recursed, f.base + i - 1, IF i = 1 THEN f.ret ELSE ExitStub, f.ids[i])
      <4>1. \A i \in 1 .. n - 1 : i \in 1 .. Len(f.ids)
        BY <1>0 DEF n
      <4> QED
        BY <1>4, <4>1 DEF Backed
    <3> QED
      BY <1>2, <1>4, <2>2, <2>3, <2>5, <3>1 DEF Backed
  <2>7. InStep(t) => \A c \in EnteredBy(t) : Accounts(f, c) => c \in ReturnedBy(t) \/ Accounts(g, c)
    <3> SUFFICES ASSUME InStep(t), NEW c \in EnteredBy(t), Accounts(f, c) PROVE c \in ReturnedBy(t) \/ Accounts(g, c)
      OBVIOUS
    <3>1. PICK i \in 1 .. n : f.ids[i] = c
      BY <1>1 DEF Accounts, n
    <3>2. CASE i = n
      BY <1>6, <3>1, <3>2
    <3>3. CASE i \in 1 .. n - 1
      BY <2>2, <2>3, <3>1, <3>3 DEF Accounts
    <3> QED
      BY <1>0, <3>2, <3>3
  <2> QED
    BY <1>2, <1>3, <2>1, <2>3, <2>4, <2>5, <2>6, <2>7, TopChange, Zenon DEF f
<1>9. CASE addr = WantedAddress(f) /\ n = 1
  <2> DEFINE k == Len(stack[t]) - 1
  <2>1. stack' = [stack EXCEPT ![t] = SubSeq(stack[t], 1, k)] /\ astray' = astray
    BY <1>9 DEF PopRead, ResumeAt, Below, Depth
  <2>2. Owned(f) = 0 /\ (InStep(t) => \A c : Accounts(f, c) => c \in ReturnedBy(t))
    <3> HIDE DEF f
    <3> QED
      BY <1>1, <1>6, <1>9 DEF Owned, Accounts
  <2>3. k \in 1 .. Len(stack[t]) - 1 /\ \A d \in k + 1 .. Len(stack[t]) : stack[t][d] = f
    <3> HIDE DEF f, n
    <3>2. Len(stack[t]) \in Nat /\ Len(stack[t]) >= 1 /\ stack[t][Len(stack[t])] = f
      BY <1>1, Zenon
    <3>3. \A l \in Nat : l >= 1 /\ l # 1 => l - 1 \in 1 .. l - 1 /\ \A d \in l - 1 + 1 .. l : d = l
      OBVIOUS
    <3>4. Len(stack[t]) \in Nat /\ Len(stack[t]) >= 1 /\ Len(stack[t]) # 1
      BY <1>3, <3>2, Zenon
    <3>5. k \in 1 .. Len(stack[t]) - 1 /\ \A d \in k + 1 .. Len(stack[t]) : d = Len(stack[t])
      BY <3>3, <3>4, Zenon
    <3> QED
      BY <3>2, <3>5, Zenon
  <2>4. broken \subseteq broken' /\ \A u \in Threads \ {t} : \A b \in broken' \ broken : b[1] # u
    BY <1>2
  <2>5. InStep(t)' => InStep(t)
    BY <1>2 DEF InStep
  <2> HIDE DEF f
  <2>6. InStep(t)' => \A d \in k + 1 .. Len(stack[t]) :
            /\ Owned(stack[t][d]) = 0
            /\ \A c \in EnteredBy(t) : Accounts(stack[t][d], c) => c \in ReturnedBy(t)
    BY <2>2, <2>3, <2>5
  <2> HIDE DEF k
  <2> QED
    BY <1>2, <2>1, <2>3, <2>4, <2>6, StackCut, Zenon
<1> HIDE DEF n, f, addr
<1> QED
  BY <1>0, <1>7, <1>8, <1>9, SMT, Z3

\* The stores of save_probe_frame_c, or the failure entry_stub ignores.
LEMMA SaveStoreKeeps ==
    ASSUME CallInv, NEW t \in Threads, SaveStore(t)
    PROVE  Keeps(t)
<1> DEFINE f == Top(t)
<1> DEFINE idx == call_stack_idx[t]
<1>1. /\ f \in Frame /\ f.pc = "save" /\ WellFormed(f) /\ f = stack[t][Len(stack[t])] /\ Len(stack[t]) \in Nat /\ Len(stack[t]) >= 1
      /\ f.ids \in Seq(Nat) /\ Len(f.ids) \in Nat /\ f.base \in Nat /\ f.ret \in Nat /\ f.probe \in Nat /\ idx \in Nat /\ last_call_id[t] \in Nat
  BY Here, FrameFacts DEF SaveStore, At
<1>2. UNCHANGED <<calls, call_stack_idx, last_call_id, in_call_action, g_call_id_seq, entered, returned, recursed, astray>>
  BY DEF SaveStore
<1>3. Len(stack[t]) # 1 /\ f.probe # 0
  BY <1>1, Here, Zenon DEF Formed, WellFormed
<1>4. broken \subseteq broken' /\ \A u \in Threads \ {t} : \A b \in broken' \ broken : b[1] # u
  BY DEF SaveStore
<1>5. ReturnPaired'
  BY <1>2, <1>4, NoReturnEvent
<1>6. stack[t] \in Seq(Frame) /\ Formed(stack[t], in_call_action[t]) /\ in_call_action[t] \in BOOLEAN
  BY Here, Zenon
<1>7. CASE idx >= MaxSaved
  <2> DEFINE g == Hijack(f)
  <2> DEFINE r == Replace(stack[t], g)
  <2>1. stack' = [stack EXCEPT ![t] = r] /\ broken' = broken \cup {<<t, "overflow">>} /\ saved_frames' = saved_frames
    BY <1>7, Here DEF SaveStore
  <2>2. g \in Frame /\ g.pc = "body" /\ g.probe = f.probe /\ g.base = f.base
    BY <1>1, HijackOK
  <2> HIDE DEF f, g
  <2>3. WellFormed(g)
    BY <1>3, <2>2 DEF WellFormed
  <2>4. r \in Seq(Frame)
    BY <1>1, <1>6, <2>2, Replaced
  <2>5. stack' \in [Threads -> Seq(Frame)] /\ stack'[t] = r /\ \A u \in Threads \ {t} : stack'[u] = stack[u]
    BY <2>1, <2>4, StackChange, Zenon
  <2>6. Formed(r, in_call_action[t])
    BY <1>3, <1>6, <2>2, <2>3, FormedReplace
  <2>7. CallTypes' /\ Own(t)
    BY <1>2, <1>4, <2>1, <2>5, Zenon DEF CallInv, CallTypes, Own
  <2>8. ~InStep(t)'
    <3>1. <<t, "overflow">> \in broken'
      BY <2>1
    <3> QED
      BY <3>1 DEF InStep
  <2> QED
    BY <1>2, <1>5, <2>5, <2>6, <2>7, <2>8 DEF Keeps
<1>8. CASE ~(idx >= MaxSaved)
  <2> DEFINE g == [f EXCEPT !.pc = "saved"]
  <2> DEFINE r == Replace(stack[t], g)
  <2> DEFINE x == [ret_addr |-> ReturnSlot(f), probe_id |-> f.probe, call_id |-> last_call_id[t]]
  <2> DEFINE m == saved_frames[t]
  <2> DEFINE m2 == [m EXCEPT ![idx] = x]
  <2>1. /\ stack' = [stack EXCEPT ![t] = r] /\ saved_frames' = [saved_frames EXCEPT ![t][idx] = x]
        /\ broken' = IF Suspended(t, {"saved", "popped"}) # {} THEN broken \cup {<<t, "clobbered">>} ELSE broken
    BY <1>8, Here DEF SaveStore
  <2>2. g \in Frame /\ g.pc = "saved" /\ g.probe = f.probe /\ g.base = f.base /\ g.ids = f.ids /\ g.ret = f.ret /\ g.mine = f.mine
    BY <1>1 DEF Frame
  <2>3. idx \in 0 .. MaxSaved - 1 /\ m \in [0 .. MaxSaved - 1 -> Saved]
    <3>1. m \in [0 .. MaxSaved - 1 -> Saved] /\ idx \in Nat
      BY Here, Zenon
    <3> HIDE DEF idx
    <3>2. idx \in 0 .. MaxSaved - 1
      BY <1>8, <3>1, MaxSavedAssumption, SMT, Z3
    <3> QED
      BY <3>1, <3>2
  <2>4. ReturnSlot(f) \in Nat
    BY <1>1 DEF ReturnSlot, ExitStub
  <2>5. x \in Saved /\ x.ret_addr = ReturnSlot(f) /\ x.call_id = last_call_id[t]
    BY <1>1, <2>4 DEF Saved
  <2> HIDE DEF f, g, x
  <2>6. /\ m2 \in [0 .. MaxSaved - 1 -> Saved] /\ m2[idx] = x /\ saved_frames' \in [Threads -> [0 .. MaxSaved - 1 -> Saved]]
        /\ saved_frames'[t] = m2 /\ \A u \in Threads \ {t} : saved_frames'[u] = saved_frames[u]
    <3>1. m2 \in [0 .. MaxSaved - 1 -> Saved] /\ m2[idx] = x
      BY <2>3, <2>5, Zenon
    <3>2. saved_frames' = [saved_frames EXCEPT ![t] = m2]
      BY <2>1
    <3> HIDE DEF m2
    <3> QED
      BY <3>1, <3>2 DEF CallInv, CallTypes
  <2> HIDE DEF m, m2
  <2>7. WellFormed(g) /\ Ceiling(g) = Ceiling(f) /\ \A c : Accounts(f, c) => Accounts(g, c)
    BY <1>1, <1>3, <2>2 DEF WellFormed, Ceiling, Owned, Accounts
  <2>8. r \in Seq(Frame)
    BY <1>1, <1>6, <2>2, Replaced
  <2>9. stack' \in [Threads -> Seq(Frame)] /\ stack'[t] = r /\ \A u \in Threads \ {t} : stack'[u] = stack[u]
    BY <2>1, <2>8, StackChange, Zenon
  <2>10. Formed(r, in_call_action[t])
    BY <1>3, <1>6, <2>2, <2>7, FormedReplace
  <2>11. CallTypes' /\ Own(t)
    BY <1>2, <1>4, <2>6, <2>9 DEF CallInv, CallTypes, Own
  <2>12. ASSUME InStep(t)' PROVE Layout(r, idx) /\ Entries(r, m2, last_call_id[t], recursed)
                                 /\ Accounted(r, EnteredBy(t), ReturnedBy(t)) /\ t \notin astray
    <3>1. InStep(t)
      BY <1>4, <2>12 DEF InStep
    <3>2. /\ Layout(stack[t], idx) /\ Entries(stack[t], m, last_call_id[t], recursed) /\ t \notin astray
          /\ Accounted(stack[t], EnteredBy(t), ReturnedBy(t)) /\ idx = Ceiling(f) /\ Backed(f, m, last_call_id[t], recursed)
      BY <3>1, Here, Zenon DEF f, m
    <3>3. \A d \in 1 .. Len(stack[t]) : WellFormed(stack[t][d])
      BY <1>6 DEF Formed
    <3>4. \A d \in 1 .. Len(stack[t]) : stack[t][d].pc \notin {"saved", "popped"}
      <4> SUFFICES ASSUME NEW d \in 1 .. Len(stack[t]) - 1, stack[t][d].pc \in {"saved", "popped"} PROVE FALSE
        BY <1>1
      <4>1. Len(Below(t)) = Len(stack[t]) - 1 /\ Below(t) \in Seq(Frame) /\ Below(t)[d] = stack[t][d]
        <5>1. Len(stack[t]) - 1 \in 0 .. Len(stack[t])
          BY <1>1
        <5> QED
          BY <1>6, <5>1, CutBack DEF Below, Depth
      <4>2. stack[t][d] \in Suspended(t, {"saved", "popped"})
        BY <4>1 DEF Suspended, Range
      <4>3. <<t, "clobbered">> \in broken'
        BY <2>1, <4>2
      <4> QED
        BY <2>12, <4>3 DEF InStep
    <3>5. Entries(stack[t], m2, last_call_id[t], recursed)
      BY <1>1, <1>6, <2>3, <2>5, <3>2, <3>3, <3>4, EntriesWrite, Zenon DEF m2
    <3>6. Backed(f, m2, last_call_id[t], recursed)
      BY <1>1, <3>5, SMT, Z3 DEF Entries
    <3>7. f.base + Len(f.ids) = idx /\ ReturnSlot(g) = ReturnSlot(f)
      BY <1>1, <2>2, <3>2, Zenon DEF Ceiling, Owned, ReturnSlot
    <3>8. f.mine \in recursed \/ last_call_id[t] = f.mine
      BY <1>1, <3>2 DEF Backed
    <3>9. Entry(m2, recursed, idx, ReturnSlot(g), f.mine)
      BY <2>3, <2>5, <2>6, <3>7, <3>8 DEF Entry
    <3>10. Backed(g, m2, last_call_id[t], recursed)
      BY <2>2, <3>6, <3>7, <3>9, Zenon DEF Backed
    <3>11. Layout(r, Ceiling(g))
      BY <1>1, <1>6, <2>2, <3>2, LayoutReplace, Zenon
    <3>12. Entries(r, m2, last_call_id[t], recursed)
      BY <1>1, <1>6, <2>2, <3>5, <3>10, EntriesReplace
    <3>13. Accounted(r, EnteredBy(t), ReturnedBy(t))
      BY <1>1, <1>6, <2>2, <2>7, <3>2, AccountedReplace, Zenon
    <3> QED
      BY <2>7, <3>2, <3>11, <3>12, <3>13, Zenon
  <2> HIDE DEF r
  <2>13. InStep(t)' => ShadowInv(t)'
    BY <1>2, <2>6, <2>9, <2>12, Zenon DEF ShadowInv, EnteredBy, ReturnedBy
  <2> QED
    BY <1>2, <1>5, <2>9, <2>10, <2>11, <2>13 DEF Keeps
<1> QED
  BY <1>7, <1>8

\* zt_handle_entry, up to the call of its action.
LEMMA HandleEntryKeeps ==
    ASSUME CallInv, NEW t \in Threads, NEW callee \in Probes \cup {0}, HandleEntry(t, callee)
    PROVE  Keeps(t)
<1> DEFINE f == Top(t)
<1> DEFINE id == g_call_id_seq + 1
<1> DEFINE g == [f EXCEPT !.mine = id, !.pc = IF RunsAction(t) THEN "action" ELSE "save"]
<1> DEFINE s == stack[t]
<1> DEFINE r == Replace(s, g)
<1> DEFINE h == NewFrame(t, callee)
<1> DEFINE q == IF RunsAction(t) THEN Append(r, h) ELSE r
<1> DEFINE m == saved_frames[t]
<1>1. f \in Frame /\ f.pc = "entry" /\ WellFormed(f) /\ f = s[Len(s)] /\ id \in Nat
  BY Here, SMT, Z3 DEF HandleEntry, At, CallInv, CallTypes
<1>2. s \in Seq(Frame) /\ Len(s) \in Nat /\ Len(s) >= 1 /\ Formed(s, in_call_action[t]) /\ in_call_action[t] \in BOOLEAN
  BY Here, Zenon
<1>3. Len(s) # 1 /\ f.probe # 0
  BY <1>1, <1>2 DEF Formed, WellFormed
<1>4. g \in Frame /\ g.probe = f.probe /\ g.base = f.base /\ g.ids = f.ids /\ g.ret = f.ret /\ g.mine = id
      /\ g.pc = IF RunsAction(t) THEN "action" ELSE "save"
  BY <1>1, Zenon DEF Frame
<1>5. h \in Frame /\ WellFormed(h) /\ h.pc \in {"body", "entry"} /\ h.ids = <<>> /\ Owned(h) = 0 /\ h.base = call_stack_idx[t]
  BY NewFrameOK
<1>6. stack' = [stack EXCEPT ![t] = q]
  <2>1. CASE RunsAction(t)
    <3>1. stack' = [stack EXCEPT ![t] = SubSeq(s, 1, Len(s) - 1) \o <<g, h>>]
      BY <2>1 DEF HandleEntry, Below, Depth
    <3> HIDE DEF g, h
    <3>2. SubSeq(s, 1, Len(s) - 1) \o <<g, h>> = Append(r, h)
      BY <1>2, <1>4, <1>5, ReplacePush, Zenon
    <3> QED
      BY <2>1, <3>1, <3>2, Zenon
  <2>2. CASE ~RunsAction(t)
    BY <2>2, Here DEF HandleEntry
  <2> QED
    BY <2>1, <2>2
<1>7. /\ g_call_id_seq' = id /\ last_call_id' = [last_call_id EXCEPT ![t] = id]
      /\ entered' = entered \cup {<<t, id>>}
      /\ recursed' = recursed \cup {e.mine : e \in Suspended(t, {"action", "save"})}
      /\ UNCHANGED <<saved_frames, call_stack_idx, returned, broken, astray>>
  BY DEF HandleEntry
<1>8. /\ calls' \in [Threads -> Nat] /\ in_call_action' \in [Threads -> BOOLEAN]
      /\ \A u \in Threads \ {t} : in_call_action'[u] = in_call_action[u]
      /\ in_call_action'[t] = IF RunsAction(t) THEN TRUE ELSE in_call_action[t]
  <2>1. calls \in [Threads -> Nat] /\ in_call_action \in [Threads -> BOOLEAN]
    BY DEF CallInv, CallTypes
  <2>2. CASE RunsAction(t)
    <3>1. calls' = [calls EXCEPT ![t] = @ + 1] /\ in_call_action' = [in_call_action EXCEPT ![t] = TRUE]
      BY <2>2 DEF HandleEntry
    <3> QED
      BY <2>1, <2>2, <3>1
  <2>3. CASE ~RunsAction(t)
    <3>1. UNCHANGED <<calls, in_call_action>>
      BY <2>3 DEF HandleEntry
    <3> QED
      BY <2>1, <2>3, <3>1
  <2> QED
    BY <2>2, <2>3, Zenon
<1>9. RunsAction(t) => ~in_call_action[t]
  BY DEF RunsAction
<1> HIDE DEF f, id, g, s, h, m
<1>10. WellFormed(g) /\ Ceiling(g) = Ceiling(f) /\ Accounts(g, id) /\ \A c : Accounts(f, c) => Accounts(g, c)
  BY <1>1, <1>3, <1>4 DEF WellFormed, Ceiling, Owned, Accounts
<1>11. r \in Seq(Frame) /\ Len(r) = Len(s) /\ r[Len(s)] = g /\ \A d \in 1 .. Len(s) - 1 : r[d] = s[d]
  BY <1>2, <1>4, Replaced
<1>12. Formed(r, in_call_action'[t])
  <2>1. in_call_action'[t] \in BOOLEAN /\ (g.pc = "action" => in_call_action'[t] /\ ~in_call_action[t])
    BY <1>4, <1>8, <1>9, Zenon
  <2>2. in_call_action[t] => in_call_action'[t]
    BY <1>8
  <2> QED
    BY <1>2, <1>3, <1>4, <1>10, <2>1, <2>2, FormedReplace
<1> HIDE DEF r
<1>13. q \in Seq(Frame) /\ Formed(q, in_call_action'[t])
  <2>1. CASE RunsAction(t)
    BY <1>5, <1>11, <1>12, <2>1, Pushed, FormedPush
  <2>2. CASE ~RunsAction(t)
    BY <1>11, <1>12, <2>2
  <2> QED
    BY <2>1, <2>2
<1>14. stack' \in [Threads -> Seq(Frame)] /\ stack'[t] = q /\ \A u \in Threads \ {t} : stack'[u] = stack[u]
  BY <1>6, <1>13, StackChange, Zenon
<1>15. last_call_id' \in [Threads -> Nat] /\ last_call_id'[t] = id /\ \A u \in Threads \ {t} : last_call_id'[u] = last_call_id[u]
  BY <1>1, <1>7 DEF CallInv, CallTypes
<1>16. CallTypes'
  BY <1>1, <1>7, <1>8, <1>14, <1>15, Zenon DEF CallInv, CallTypes
<1>17. Own(t) /\ ReturnPaired'
  BY <1>7, <1>8, <1>14, <1>15, NoReturnEvent DEF Own
<1>18. ASSUME InStep(t) PROVE Layout(q, call_stack_idx[t]) /\ Entries(q, m, id, recursed')
                              /\ Accounted(q, EnteredBy(t)', ReturnedBy(t)) /\ t \notin astray
  <2>1. /\ Layout(s, call_stack_idx[t]) /\ Entries(s, m, last_call_id[t], recursed) /\ t \notin astray
        /\ Accounted(s, EnteredBy(t), ReturnedBy(t)) /\ call_stack_idx[t] = Ceiling(f) /\ call_stack_idx[t] \in Nat
    BY <1>18, Here, Zenon DEF f, s, m
  <2>2. \A d \in 1 .. Len(s) : s[d].pc \in {"action", "save"} => s[d].mine \in recursed'
    <3>0. Len(s) \in Nat /\ s[Len(s)].pc = "entry"
      BY <1>1, <1>2
    <3> SUFFICES ASSUME NEW d \in 1 .. Len(s) - 1, s[d].pc \in {"action", "save"} PROVE s[d].mine \in recursed'
      BY <3>0
    <3>1. Len(Below(t)) = Len(s) - 1 /\ Below(t) \in Seq(Frame) /\ Below(t)[d] = s[d]
      <4>1. Len(s) - 1 \in 0 .. Len(s)
        BY <1>2
      <4> QED
        BY <1>2, <4>1, CutBack DEF Below, Depth, s
    <3>2. s[d] \in Suspended(t, {"action", "save"})
      BY <3>1, SMT, Z3 DEF Suspended, Range
    <3> QED
      BY <1>7, <3>2
  <2>3. Entries(s, m, id, recursed')
    <3>1. recursed \subseteq recursed'
      BY <1>7
    <3> QED
      BY <1>2, <2>1, <2>2, <3>1, EntriesOvertaken
  <2>4. Backed(g, m, id, recursed')
    <3>1. Backed(f, m, id, recursed')
      BY <1>1, <1>2, <2>3, SMT, Z3 DEF Entries
    <3> QED
      BY <1>4, <3>1 DEF Backed
  <2>5. Layout(r, call_stack_idx[t])
    BY <1>1, <1>2, <1>4, <1>10, <2>1, LayoutReplace, Zenon DEF r
  <2>6. Entries(r, m, id, recursed')
    BY <1>2, <1>4, <2>3, <2>4, EntriesReplace, Zenon DEF r
  <2>7. \A c \in EnteredBy(t)' : c \in EnteredBy(t) \/ Accounts(g, c)
    BY <1>7, <1>10, Zenon DEF EnteredBy
  <2>8. g.pc \notin {"pop", "popped"}
    BY <1>4
  <2>9. Accounted(r, EnteredBy(t)', ReturnedBy(t))
    BY <1>1, <1>2, <1>4, <1>10, <2>1, <2>7, <2>8, AccountedReplace, Zenon DEF r
  <2>10. CASE RunsAction(t)
    <3>1. \A d \in 1 .. Len(r) : WellFormed(r[d])
      BY <1>12 DEF Formed
    <3>2. Len(r) >= 1
      BY <1>2, <1>11
    <3>3. Layout(Append(r, h), call_stack_idx[t])
      BY <1>5, <1>11, <2>1, <2>5, <3>1, <3>2, LayoutPush, Zenon
    <3>4. Entries(Append(r, h), m, id, recursed')
      BY <1>5, <1>11, <2>6, EntriesPush
    <3>5. Accounted(Append(r, h), EnteredBy(t)', ReturnedBy(t))
      BY <1>5, <1>11, <2>9, AccountedPush
    <3> QED
      BY <2>1, <2>10, <3>3, <3>4, <3>5
  <2>11. CASE ~RunsAction(t)
    BY <2>1, <2>5, <2>6, <2>9, <2>11
  <2> QED
    BY <2>10, <2>11
<1> HIDE DEF q
<1>19. InStep(t)' => ShadowInv(t)'
  <2>1. (InStep(t)' => InStep(t)) /\ ReturnedBy(t)' = ReturnedBy(t)
    BY <1>7 DEF InStep, ReturnedBy
  <2> QED
    BY <1>7, <1>14, <1>15, <1>18, <2>1, Zenon DEF ShadowInv, m
<1> QED
  BY <1>13, <1>14, <1>16, <1>17, <1>19 DEF Keeps
-----------------------------------------------------------------------------
(* The invariant and what follows from it.                                 *)

\* Every thread starts in its outermost function with an empty shadow stack.
LEMMA CallInitial == CallInit => CallInv
<1> SUFFICES ASSUME CallInit PROVE CallInv
  OBVIOUS
<1> DEFINE z == [pc |-> "body", ret |-> ExitStub, probe |-> 0, mine |-> 0, ids |-> <<>>, base |-> 0]
<1>1. <<>> \in Seq(Nat) /\ Len(<<>>) = 0 /\ ExitStub \in Nat
  BY DEF ExitStub
<1>2. z \in Frame /\ z.pc = "body" /\ z.probe = 0 /\ z.base = 0 /\ z.ids = <<>>
  BY <1>1 DEF Frame
<1>3. \A t \in Threads : stack[t] = <<z>>
  BY DEF CallInit
<1>4. stack \in [Threads -> Seq(Frame)]
  <2>1. <<z>> \in Seq(Frame)
    BY <1>2
  <2> HIDE DEF z
  <2>2. stack = [t \in Threads |-> <<z>>]
    BY DEF CallInit, z
  <2> QED
    BY <2>1, <2>2
<1>5. CallTypes
  BY <1>4 DEF CallInit, CallTypes, Saved
<1> HIDE DEF z
<1>6. Len(<<z>>) = 1 /\ <<z>>[1] = z /\ \A d \in 1 .. Len(<<z>>) : d = 1
  OBVIOUS
<1>7. WellFormed(z) /\ Ceiling(z) = 0
  BY <1>1, <1>2 DEF WellFormed, Ceiling, Owned
<1>8. ASSUME NEW t \in Threads PROVE Formed(stack[t], in_call_action[t])
  <2>1. Formed(<<z>>, in_call_action[t])
    BY <1>2, <1>7, SMT, Z3 DEF Formed
  <2> QED
    BY <1>3, <2>1
<1>9. ASSUME NEW t \in Threads PROVE ShadowInv(t)
  <2>1. t \notin astray /\ call_stack_idx[t] = 0 /\ EnteredBy(t) = {}
    BY DEF CallInit, EnteredBy
  <2>2. Layout(<<z>>, 0)
    BY <1>6, <1>7 DEF Layout
  <2>3. Backed(z, saved_frames[t], last_call_id[t], recursed)
    BY <1>1, <1>2 DEF Backed
  <2>4. Entries(<<z>>, saved_frames[t], last_call_id[t], recursed)
    BY <1>6, <2>3 DEF Entries
  <2>5. Accounted(<<z>>, {}, ReturnedBy(t))
    BY <1>2, <1>6 DEF Accounted
  <2> QED
    BY <1>3, <2>1, <2>2, <2>4, <2>5 DEF ShadowInv
<1>10. ReturnPaired
  BY DEF CallInit, ReturnPaired
<1> QED
  BY <1>5, <1>8, <1>9, <1>10 DEF CallInv

\* Every step keeps the invariant.
LEMMA CallStep == CallInv /\ [CallNext]_callVars => CallInv'
<1>1. ASSUME CallInv, NEW t \in Threads, Step(t) PROVE Keeps(t)
  BY <1>1, CallKeeps, TailCallKeeps, LongjmpKeeps, ReturnKeeps, HandleEntryKeeps, EndActionKeeps, SaveStoreKeeps,
     SavePushKeeps, HandleReturnKeeps, PopDecKeeps, PopReadKeeps DEF Step, Stub
<1>2. ASSUME CallInv, NEW t \in Threads, Keeps(t) PROVE CallInv'
  <2>1. \A u \in Threads \ {t} : Formed(stack[u], in_call_action[u])' /\ (InStep(u) => ShadowInv(u))'
    BY <1>2, OthersKeep DEF Keeps
  <2>2. Formed(stack[t], in_call_action[t])' /\ (InStep(t) => ShadowInv(t))' /\ CallTypes' /\ ReturnPaired'
    BY <1>2 DEF Keeps
  <2> QED
    BY <2>1, <2>2 DEF CallInv
<1>3. ASSUME CallInv, UNCHANGED callVars PROVE CallInv'
  BY <1>3, Zenon DEF callVars, tls, callHistory, CallInv, CallTypes, InStep, ShadowInv, EnteredBy, ReturnedBy, ReturnPaired
<1> QED
  BY <1>1, <1>2, <1>3 DEF CallNext

\* It holds throughout.
LEMMA CallInvariant == CallSpec => []CallInv
BY CallInitial, CallStep, PTL DEF CallSpec

\* It contains the four properties.
LEMMA CallInvSuffices == CallInv => StrayExplained /\ ReturnPaired /\ Balanced /\ NoNestedAction
<1> SUFFICES ASSUME CallInv PROVE StrayExplained /\ ReturnPaired /\ Balanced /\ NoNestedAction
  OBVIOUS
<1>1. astray \subseteq Threads => StrayExplained
  BY Zenon DEF CallInv, StrayExplained, ShadowInv
<1>2. ReturnPaired
  BY DEF CallInv
<1>3. NoNestedAction
  BY DEF CallInv, NoNestedAction, Formed, Depth
<1>4. ASSUME NEW t \in Threads, InStep(t), Depth(t) = 1
      PROVE  /\ call_stack_idx[t] = 0
             /\ \A c \in 1 .. g_call_id_seq : <<t, c>> \in entered => \E r \in returned : r[1] = t /\ r[2] = c
  <2> DEFINE f == stack[t][1]
  <2>1. Len(stack[t]) = 1 /\ f \in Frame /\ f.probe = 0 /\ f.base = 0 /\ WellFormed(f) /\ f = stack[t][Len(stack[t])]
    <3>1. Len(stack[t]) = 1
      BY <1>4 DEF Depth
    <3>2. stack[t] \in Seq(Frame) /\ Formed(stack[t], in_call_action[t])
      BY Here, Zenon
    <3>3. f \in Frame
      BY <3>1, <3>2, SMT, Z3
    <3> QED
      BY <3>1, <3>2, <3>3 DEF Formed
  <2>2. Layout(stack[t], call_stack_idx[t]) /\ Accounted(stack[t], EnteredBy(t), ReturnedBy(t))
    BY <1>4, Here, Zenon
  <2> HIDE DEF f
  <2>3. f.ids = <<>> /\ f.pc = "body" /\ Ceiling(f) = 0 /\ \A c : ~Accounts(f, c)
    BY <2>1, SMT, Z3 DEF WellFormed, Ceiling, Owned, Accounts
  <2>4. call_stack_idx[t] = 0
    BY <2>1, <2>2, <2>3 DEF Layout
  <2>5. \A c \in EnteredBy(t) : c \in ReturnedBy(t)
    <3>1. \A d \in 1 .. Len(stack[t]) : stack[t][d] = f
      BY <2>1
    <3> QED
      BY <2>2, <2>3, <3>1 DEF Accounted
  <2> QED
    BY <2>4, <2>5 DEF EnteredBy, ReturnedBy
<1>5. Balanced
  BY <1>4 DEF Balanced
<1>6. astray \subseteq Threads
  BY DEF CallInv, CallTypes
<1> QED
  BY <1>1, <1>2, <1>3, <1>5, <1>6

(* The theorems hold for every number of threads, probes, saved frames and *)
(* calls, with nested, recursive and tail calls, call actions, signal      *)
(* handlers and longjmp.                                                   *)

\* exit_stub resumes the caller that the machine stack is waiting for, unless saved_frames
\* was full, a handler hit a probe between a frame and the index, or longjmp skipped frames.
THEOREM CallsTransparent == CallSpec => []StrayExplained
BY CallInvariant, CallInvSuffices, PTL

\* The return event that zt_handle_return emits carries the call_id that zt_handle_entry
\* gave the same call, unless another probe hit came between the two halves of entry_stub.
THEOREM ReturnsCarryTheirCall == CallSpec => []ReturnPaired
BY CallInvariant, CallInvSuffices, PTL

\* When a thread is back in its outermost function, get_ret_addr_c has taken every frame
\* that save_probe_frame_c had pushed, and each entry event has had its return event.
THEOREM ShadowStackBalanced == CallSpec => []Balanced
BY CallInvariant, CallInvSuffices, PTL

\* in_call_action keeps zt_handle_entry from running an action inside an action, also when
\* the action's callee is probed or a signal handler hits a probe while it runs.
THEOREM ActionsNeverNest == CallSpec => []NoNestedAction
BY CallInvariant, CallInvSuffices, PTL
=============================================================================
