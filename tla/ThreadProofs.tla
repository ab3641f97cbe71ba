---------------------------- MODULE ThreadProofs ----------------------------
(***************************************************************************)
(* Proofs about ThreadGroup, for any set of threads, and about RemoteExec, *)
(* which runs a stub on one thread of it.                                  *)
(***************************************************************************)
EXTENDS RemoteExec, FiniteSetTheorems, TLAPS

-----------------------------------------------------------------------------
(* ThreadGroup.                                                            *)

\* The conjuncts of the type invariant, by the kind of variable.
KernelType ==
    /\ task \in [Tids -> {"unborn", "running", "trapped", "zombie", "gone"}]
    /\ trap \in [Tids -> {"none", "signal", "SIGTRAP", "event", "stub"}]
    /\ traced \subseteq Tids /\ unwaited \subseteq traced /\ interrupt \subseteq traced
\* The types of the session, the pending operation and the history.
SessionType ==
    /\ threads \subseteq Tids /\ stopped \subseteq threads /\ resume_signal \subseteq stopped
    /\ attached \in BOOLEAN /\ threads_stopped \in BOOLEAN /\ target_exited \in BOOLEAN /\ runtime \in {"INACTIVE", "STOPPED", "RUNNING"}
ProgressType ==
    /\ goal \in {"none", "attach", "stop", "continue", "detach", "poll"}
    /\ pc \in {"idle", "readdir", "seize", "wait", "continue", "reap", "window", "detach", "stub"}
    /\ pass \in Int /\ pos \in Nat /\ todo \subseteq Tids
Ways == {"SIGTRAP", "stub", "interrupt", "detach", "resume"}
HistoryType ==
    /\ signals \in 0 .. MaxSignals /\ owed \in [Tids -> Int] /\ lost \subseteq Ways
    /\ vanished \in BOOLEAN /\ failed \in BOOLEAN /\ strays \subseteq Tids /\ stale \in BOOLEAN
    /\ phantom \in BOOLEAN
\* The thread table is never overfull.
Room == Cardinality(threads) <= Capacity

\* Only a stopped or dead thread has something to wait for, only a traced thread stops,
\* and a traced thread is there until it is reaped.
KernelInv ==
    /\ \A t \in unwaited : task[t] \in {"trapped", "zombie"}
    /\ \A t \in Tids : task[t] = "trapped" => t \in traced
    /\ \A t \in traced : task[t] \in {"running", "trapped", "zombie"}
    /\ \A t \in threads : t \in traced \/ task[t] \in {"zombie", "gone"}
    /\ \A t \in interrupt : task[t] \in {"running", "trapped"}
    /\ pc = "stub" => Leader \in traced

\* The leader runs a remote call.
InStub(t) == t = Leader /\ pc = "stub"

\* A thread that the tracer holds is recorded, or it is a stray.
Recorded(t) == IF t \in threads THEN t \in stopped ELSE t \in strays

\* Where the tracer finds every traced thread again.
MarkInv ==
    /\ \A t \in traced : t \in threads \cup strays \/ task[t] = "zombie"
    /\ MarkedStopped
    /\ \A t \in Tids : task[t] = "trapped" /\ ~InStub(t) /\ t \notin unwaited => Recorded(t)
    /\ \A t \in unwaited : task[t] = "trapped" => t \in threads \cup strays
    /\ pc = "stub" => Recorded(Leader)

\* The first read of a refresh returns all threads: those that are traced but not in the
\* table are still to be seized until the refresh ends, and if all of the table is
\* stopped and no entry vanished, nothing runs.  The state of a trace says that it runs only
\* if the target does, except while zt_injector_attach or zt_injector_detach holds it.
RefreshInv ==
    /\ todo \cap threads = {}
    /\ pc # "seize" => todo = {}
    /\ pc \in {"readdir", "seize"} /\ pos > 0 => traced \subseteq threads \cup todo
    /\ pc = "readdir" /\ pos > 0 /\ ~vanished /\ threads \subseteq stopped => Running = {}
    /\ pc = "seize" => pos > 0
    /\ pc = "reap" => goal = "poll"
    /\ goal = "poll" \/ pc = "window" => ~threads_stopped
    /\ pc \in {"idle", "stub", "window"} => goal = "none"
    /\ runtime = "RUNNING" /\ threads_stopped => goal \in {"attach", "detach"}
    /\ MissedExplained

\* A session that is marked stopped, and a detach that did not fail, have all traced
\* threads in the table and stopped.
StopInv ==
    /\ ~attached => pc = "idle" /\ ~threads_stopped
    /\ pc \in {"idle", "stub", "detach"} /\ ~stale /\ (IF pc = "detach" THEN ~failed ELSE threads_stopped)
           => traced \subseteq threads /\ threads \subseteq stopped
    /\ DetachFrees

\* The signal that a thread is owed: the one of the stop that is not waited for yet, or
\* the one that its mark remembers; in a stub the main thread may be owed both.
Kept(t) == IF t \in resume_signal THEN 1 ELSE 0
Pending(t) == IF trap[t] \in {"signal", "SIGTRAP"} THEN 1 ELSE 0

Account(t) ==
    /\ task[t] = "running" => owed[t] = IF InStub(t) THEN Kept(t) ELSE 0
    /\ task[t] = "trapped" /\ InStub(t) => owed[t] = Kept(t) + Pending(t)
    /\ task[t] = "trapped" /\ ~InStub(t) /\ t \in unwaited => owed[t] = Pending(t)
    /\ task[t] = "trapped" /\ ~InStub(t) /\ t \in stopped
           => owed[t] = Kept(t) /\ (t \in resume_signal /\ trap[t] = "event" => t = Leader /\ phantom)

Untraced(t) == t \notin traced /\ task[t] \in {"unborn", "running"} => owed[t] = 0

SignalInv ==
    /\ \A t \in Tids : Untraced(t)
    /\ \A t \in threads : Account(t)
    /\ "resume" \notin lost

\* Nothing happens to t.
Same(t) ==
    /\ task'[t] = task[t] /\ trap'[t] = trap[t] /\ owed'[t] = owed[t]
    /\ t \in traced' <=> t \in traced
    /\ t \in unwaited' <=> t \in unwaited
    /\ t \in threads' <=> t \in threads
    /\ t \in stopped' <=> t \in stopped
    /\ t \in resume_signal' <=> t \in resume_signal
    /\ InStub(t)' <=> InStub(t)

\* A poll has the main thread in the table, or it is dead.
ExitInv ==
    /\ ExitTrue /\ task[Leader] # "unborn"
    /\ pc \in {"readdir", "seize"} /\ pos > 0 => Leader \in threads \cup todo \/ ProcessExited
    /\ pc = "reap" => Leader \in threads \/ ProcessExited

\* The inductive invariant.
ThreadInv == ThreadTypeOK /\ KernelInv /\ MarkInv /\ RefreshInv /\ StopInv /\ SignalInv /\ ExitInv
-----------------------------------------------------------------------------
(* Proofs.                                                                 *)

\* There are finitely many threads.
LEMMA TidsFinite == /\ Leader \in Tids /\ Tids \subseteq Nat
                    /\ \A S \in SUBSET Tids : IsFiniteSet(S) /\ Cardinality(S) \in Nat /\ (Cardinality(S) = 0 <=> S = {})
<1>1. IsFiniteSet(Tids)
  BY ThreadAssumption, FS_Interval DEF Tids
<1>2. \A S \in SUBSET Tids : IsFiniteSet(S)
  BY <1>1, FS_Subset
<1>3. \A S \in SUBSET Tids : Cardinality(S) \in Nat /\ (Cardinality(S) = 0 <=> S = {})
  BY <1>2, FS_CardinalityType, FS_EmptySet
<1>4. Leader \in Tids /\ Tids \subseteq Nat
  BY ThreadAssumption DEF Tids, Leader
<1> QED
  BY <1>2, <1>3, <1>4

\* The type invariant in parts, now and after a step.
LEMMA TypeParts == ThreadTypeOK <=> KernelType /\ SessionType /\ ProgressType /\ HistoryType /\ Room
BY DEF ThreadTypeOK, KernelType, SessionType, ProgressType, HistoryType, Ways, Room

\* The same after a step.
LEMMA TypePartsPrime == ThreadTypeOK' <=> KernelType' /\ SessionType' /\ ProgressType' /\ HistoryType' /\ Room'
BY DEF ThreadTypeOK, KernelType, SessionType, ProgressType, HistoryType, Ways, Room

\* What zt_injector_continue_all and zt_injector_poll_events do to the thread, apart from
\* the account of its signals.
LEMMA ContinueParts ==
    ASSUME NEW t \in Tids, Continue(t)
    PROVE  /\ pc = "continue" /\ t \in stopped
           /\ \/ task[t] = "trapped" /\ t \in traced /\ Cont(t) /\ MarkRunning(t)
              \/ ~(task[t] = "trapped" /\ t \in traced) /\ Drop(t) /\ UNCHANGED <<task, trap, owed, lost>>
           /\ UNCHANGED <<traced, unwaited, interrupt, attached, threads_stopped, target_exited, runtime, progress>>
           /\ UNCHANGED <<signals, vanished, failed, strays, stale, phantom>>
BY Zenon DEF Continue, IsFirst, Deliver

LEMMA PollStopParts ==
    ASSUME NEW t \in Tids, PollStop(t)
    PROVE  /\ pc = "reap" /\ t \in unwaited /\ task[t] = "trapped" /\ unwaited' = unwaited \ {t}
           /\ \/ t \in threads /\ MarkRunning(t) /\ Cont(t)
              \/ t \notin threads /\ UNCHANGED <<task, trap, owed, lost, threads, stopped, resume_signal>>
           /\ UNCHANGED <<traced, interrupt, attached, threads_stopped, target_exited, runtime, progress>>
           /\ UNCHANGED <<signals, vanished, failed, strays, stale, phantom>>
BY Zenon DEF PollStop, Waitable, Deliver

\* A step keeps the kernel's variables in their types.
LEMMA KernelTypeStep ==
    ASSUME KernelType, SessionType, KernelInv, ThreadNext
    PROVE  KernelType'
<1>1. Leader \in Tids
  BY TidsFinite
<1> USE DEF kernel, session, progress, history
<1>2. CASE ExitGroup
  BY <1>2, <1>1 DEF ExitGroup, Listed, KernelType, SessionType, KernelInv
<1>3. CASE ParentReaps
  BY <1>3, <1>1 DEF ParentReaps, Listed, KernelType, SessionType, KernelInv
<1>4. CASE StubTrap
  BY <1>4, <1>1 DEF StubTrap, Trapped, KernelType, SessionType, KernelInv
<1>5. CASE BeginAttach
  BY <1>5, <1>1 DEF BeginAttach, Begin, Restart, KernelType, SessionType, KernelInv
<1>6. CASE BeginStop
  BY <1>6, <1>1 DEF BeginStop, Begin, Restart, KernelType, SessionType, KernelInv
<1>7. CASE BeginPoll
  BY <1>7, <1>1 DEF BeginPoll, Begin, Restart, KernelType, SessionType, KernelInv
<1>8. CASE BeginContinue
  BY <1>8, <1>1 DEF BeginContinue, Begin, Goto, KernelType, SessionType, KernelInv
<1>9. CASE BeginDetach
  BY <1>9, <1>1 DEF BeginDetach, Begin, Goto, Restart, KernelType, SessionType, KernelInv
<1>10. CASE ReadDir
  BY <1>10, <1>1 DEF ReadDir, RefreshFails, GiveUp, Goto, Restart, KernelType, SessionType, KernelInv
<1>11. CASE AttachRefreshed
  BY <1>11, <1>1 DEF AttachRefreshed, Restart, KernelType, SessionType, KernelInv
<1>12. CASE Interrupt
  BY <1>12, <1>1 DEF Interrupt, KernelType, SessionType, KernelInv
<1>13. CASE EndPass
  BY <1>13, <1>1 DEF EndPass, Restart, KernelType, SessionType, KernelInv
<1>14. CASE StopDone
  BY <1>14, <1>1 DEF StopDone, Goto, AllKnownStopped, KernelType, SessionType, KernelInv
<1>15. CASE StopGivesUp
  BY <1>15, <1>1 DEF StopGivesUp, GiveUp, Goto, Restart, KernelType, SessionType, KernelInv
<1>16. CASE ContinueDone
  BY <1>16, <1>1 DEF ContinueDone, KernelType, SessionType, KernelInv
<1>17. CASE PollRefreshed
  BY <1>17, <1>1 DEF PollRefreshed, Goto, KernelType, SessionType, KernelInv
<1>18. CASE PollDone
  BY <1>18, <1>1 DEF PollDone, Goto, NoteExit, KernelType, SessionType, KernelInv
<1>19. CASE DetachAll
  BY <1>19, <1>1 DEF DetachAll, Goto, KernelType, SessionType, KernelInv
<1>20. CASE RemoteCall
  BY <1>20, <1>1 DEF RemoteCall, Cont, KernelType, SessionType, KernelInv
<1>21. CASE RemoteReturn
  BY <1>21, <1>1 DEF RemoteReturn, Forget, Reap, Waitable, KernelType, SessionType, KernelInv
<1>22. ASSUME NEW t \in Tids, Clone(t) PROVE KernelType'
  BY <1>22, <1>1 DEF Clone, Free, IsFirst, KernelType, SessionType, KernelInv
<1>23. ASSUME NEW t \in Tids, Exit(t) PROVE KernelType'
  BY <1>23, <1>1 DEF Exit, Free, KernelType, SessionType, KernelInv
<1>24. ASSUME NEW t \in Tids, Trap(t) PROVE KernelType'
  BY <1>24, <1>1 DEF Trap, Trapped, KernelType, SessionType, KernelInv
<1>25. ASSUME NEW t \in Tids, SignalStop(t) PROVE KernelType'
  BY <1>25, <1>1 DEF SignalStop, Trapped, KernelType, SessionType, KernelInv
<1>26. ASSUME NEW t \in Tids, Seize(t) PROVE KernelType'
  BY <1>26, <1>1 DEF Seize, IsFirst, RefreshFails, GiveUp, Goto, Restart, KernelType, SessionType, KernelInv
<1>27. ASSUME NEW t \in Tids, SeizeGone(t) PROVE KernelType'
  BY <1>27, <1>1 DEF SeizeGone, KernelType, SessionType, KernelInv
<1>28. ASSUME NEW t \in Tids, SeizeFails(t) PROVE KernelType'
  BY <1>28, <1>1 DEF SeizeFails, RefreshFails, GiveUp, Goto, Restart, KernelType, SessionType, KernelInv
<1>29. ASSUME NEW t \in Tids, Wait(t) PROVE KernelType'
  BY <1>29, <1>1 DEF Wait, IsFirst, Waitable, Reap, Drop, MarkStopped, Forget, KernelType, SessionType, KernelInv
<1>30. ASSUME NEW t \in Tids, Continue(t) PROVE KernelType'
  BY <1>30, ContinueParts, <1>1 DEF Cont, MarkRunning, Drop, KernelType, SessionType, KernelInv
<1>31. ASSUME NEW t \in Tids, PollExit(t) PROVE KernelType'
  BY <1>31, <1>1 DEF PollExit, Waitable, Reap, Drop, NoteExit, KernelType, SessionType, KernelInv
<1>32. ASSUME NEW t \in Tids, PollStop(t) PROVE KernelType'
  BY <1>32, PollStopParts, <1>1 DEF Cont, MarkRunning, KernelType, SessionType, KernelInv
<1>w. CASE ExitWindow
  BY <1>w, <1>1 DEF ExitWindow, KernelType, SessionType, KernelInv
<1>r. CASE PollEnded \/ StartTrace \/ StopTrace
  BY <1>r, <1>1 DEF PollEnded, StartTrace, StopTrace, KernelType, SessionType, KernelInv
<1> QED BY <1>2, <1>3, <1>4, <1>5, <1>6, <1>7, <1>8, <1>9, <1>10, <1>11, <1>12, <1>13, <1>14, <1>15, <1>16, <1>17, <1>18, <1>19, <1>20, <1>21, <1>22, <1>23, <1>24, <1>25, <1>26, <1>27, <1>28, <1>29, <1>30, <1>31, <1>32, <1>w, <1>r DEF ThreadNext, Command, Poll, Tracer, Target

\* ... those of the session ...
LEMMA SessionTypeStep ==
    ASSUME SessionType, KernelType, ProgressType, KernelInv, ThreadNext
    PROVE  SessionType'
<1>1. Leader \in Tids
  BY TidsFinite
<1> USE DEF kernel, session, progress, history
<1>2. CASE ExitGroup
  BY <1>2, <1>1 DEF ExitGroup, Listed, SessionType, KernelType, ProgressType
<1>3. CASE ParentReaps
  BY <1>3, <1>1 DEF ParentReaps, Listed, SessionType, KernelType, ProgressType
<1>4. CASE StubTrap
  BY <1>4, <1>1 DEF StubTrap, Trapped, SessionType, KernelType, ProgressType
<1>5. CASE BeginAttach
  BY <1>5, <1>1 DEF BeginAttach, Begin, Restart, SessionType, KernelType, ProgressType
<1>6. CASE BeginStop
  BY <1>6, <1>1 DEF BeginStop, Begin, Restart, SessionType, KernelType, ProgressType
<1>7. CASE BeginPoll
  BY <1>7, <1>1 DEF BeginPoll, Begin, Restart, SessionType, KernelType, ProgressType
<1>8. CASE BeginContinue
  BY <1>8, <1>1 DEF BeginContinue, Begin, Goto, SessionType, KernelType, ProgressType
<1>9. CASE BeginDetach
  BY <1>9, <1>1 DEF BeginDetach, Begin, Goto, Restart, SessionType, KernelType, ProgressType
<1>10. CASE ReadDir
  BY <1>10, <1>1, Zenon DEF ReadDir, RefreshFails, GiveUp, Goto, Restart, SessionType, KernelType, ProgressType
<1>11. CASE AttachRefreshed
  BY <1>11, <1>1 DEF AttachRefreshed, Restart, SessionType, KernelType, ProgressType
<1>12. CASE Interrupt
  BY <1>12, <1>1 DEF Interrupt, SessionType, KernelType, ProgressType
<1>13. CASE EndPass
  BY <1>13, <1>1 DEF EndPass, Restart, SessionType, KernelType, ProgressType
<1>14. CASE StopDone
  BY <1>14, <1>1 DEF StopDone, Goto, AllKnownStopped, SessionType, KernelType, ProgressType
<1>15. CASE StopGivesUp
  BY <1>15, <1>1 DEF StopGivesUp, GiveUp, Goto, Restart, SessionType, KernelType, ProgressType
<1>16. CASE ContinueDone
  BY <1>16, <1>1, Zenon DEF ContinueDone, SessionType, KernelType, ProgressType
<1>17. CASE PollRefreshed
  BY <1>17, <1>1 DEF PollRefreshed, Goto, SessionType, KernelType, ProgressType
<1>18. CASE PollDone
  BY <1>18, <1>1 DEF PollDone, Goto, NoteExit, SessionType, KernelType, ProgressType
<1>19. CASE DetachAll
  BY <1>19, <1>1, Zenon DEF DetachAll, Goto, SessionType, KernelType, ProgressType
<1>20. CASE RemoteCall
  BY <1>20, <1>1 DEF RemoteCall, Cont, SessionType, KernelType, ProgressType
<1>21. CASE RemoteReturn
  BY <1>21, <1>1 DEF RemoteReturn, Forget, Reap, Waitable, SessionType, KernelType, ProgressType
<1>22. ASSUME NEW t \in Tids, Clone(t) PROVE SessionType'
  BY <1>22, <1>1 DEF Clone, Free, IsFirst, SessionType, KernelType, ProgressType
<1>23. ASSUME NEW t \in Tids, Exit(t) PROVE SessionType'
  BY <1>23, <1>1 DEF Exit, Free, SessionType, KernelType, ProgressType
<1>24. ASSUME NEW t \in Tids, Trap(t) PROVE SessionType'
  BY <1>24, <1>1 DEF Trap, Trapped, SessionType, KernelType, ProgressType
<1>25. ASSUME NEW t \in Tids, SignalStop(t) PROVE SessionType'
  BY <1>25, <1>1 DEF SignalStop, Trapped, SessionType, KernelType, ProgressType
<1>26. ASSUME NEW t \in Tids, Seize(t) PROVE SessionType'
  BY <1>26, <1>1, Zenon DEF Seize, IsFirst, RefreshFails, GiveUp, Goto, Restart, SessionType, KernelType, ProgressType
<1>27. ASSUME NEW t \in Tids, SeizeGone(t) PROVE SessionType'
  BY <1>27, <1>1 DEF SeizeGone, SessionType, KernelType, ProgressType
<1>28. ASSUME NEW t \in Tids, SeizeFails(t) PROVE SessionType'
  BY <1>28, <1>1, Zenon DEF SeizeFails, RefreshFails, GiveUp, Goto, Restart, SessionType, KernelType, ProgressType
<1>29. ASSUME NEW t \in Tids, Wait(t) PROVE SessionType'
  BY <1>29, <1>1 DEF Wait, IsFirst, Waitable, Reap, Drop, MarkStopped, Forget, SessionType, KernelType, ProgressType
<1>30. ASSUME NEW t \in Tids, Continue(t) PROVE SessionType'
  BY <1>30, ContinueParts, <1>1 DEF Cont, MarkRunning, Drop, SessionType, KernelType, ProgressType
<1>31. ASSUME NEW t \in Tids, PollExit(t) PROVE SessionType'
  BY <1>31, <1>1 DEF PollExit, Waitable, Reap, Drop, NoteExit, SessionType, KernelType, ProgressType
<1>32. ASSUME NEW t \in Tids, PollStop(t) PROVE SessionType'
  BY <1>32, PollStopParts, <1>1 DEF Cont, MarkRunning, SessionType, KernelType, ProgressType
<1>w. CASE ExitWindow
  BY <1>w, <1>1 DEF ExitWindow, SessionType, KernelType, ProgressType
<1>r. CASE PollEnded \/ StartTrace \/ StopTrace
  BY <1>r, <1>1 DEF PollEnded, StartTrace, StopTrace, SessionType, KernelType, ProgressType
<1> QED BY <1>2, <1>3, <1>4, <1>5, <1>6, <1>7, <1>8, <1>9, <1>10, <1>11, <1>12, <1>13, <1>14, <1>15, <1>16, <1>17, <1>18, <1>19, <1>20, <1>21, <1>22, <1>23, <1>24, <1>25, <1>26, <1>27, <1>28, <1>29, <1>30, <1>31, <1>32, <1>w, <1>r DEF ThreadNext, Command, Poll, Tracer, Target

\* ... those of the command ...
LEMMA ProgressTypeStep ==
    ASSUME ProgressType, KernelType, ThreadNext
    PROVE  ProgressType'
<1>1. Leader \in Tids
  BY TidsFinite
<1>2. \A S \in SUBSET Tids : Cardinality(S) \in Nat
  BY TidsFinite
<1> USE DEF kernel, session, progress, history
<1>3. CASE ExitGroup
  BY <1>3, <1>1 DEF ExitGroup, Listed, ProgressType
<1>4. CASE ParentReaps
  BY <1>4, <1>1 DEF ParentReaps, Listed, ProgressType
<1>5. CASE StubTrap
  BY <1>5, <1>1 DEF StubTrap, Trapped, ProgressType
<1>6. CASE BeginAttach
  BY <1>6, <1>1 DEF BeginAttach, Begin, Restart, ProgressType
<1>7. CASE BeginStop
  BY <1>7, <1>1 DEF BeginStop, Begin, Restart, ProgressType
<1>8. CASE BeginPoll
  BY <1>8, <1>1 DEF BeginPoll, Begin, Restart, ProgressType
<1>9. CASE BeginContinue
  BY <1>9, <1>1 DEF BeginContinue, Begin, Goto, ProgressType
<1>10. CASE BeginDetach
  BY <1>10, <1>1 DEF BeginDetach, Begin, Goto, Restart, ProgressType
<1>11. CASE ReadDir
  <2> DEFINE entries == {u \in Listed : Cardinality({v \in Listed : v < u}) >= pos}
  <2>1. entries \subseteq Tids /\ Cardinality(entries) \in Nat
    <3>1. entries \subseteq Tids
      BY DEF Listed
    <3> QED
      BY <1>2, <3>1, Zenon
  <2>2. CASE Listed = {} /\ pos = 0
    BY <1>11, <2>2 DEF ReadDir, RefreshFails, GiveUp, Goto, Restart, ProgressType
  <2>3. CASE ~(Listed = {} /\ pos = 0)
    <3>1. todo' = entries \ threads /\ pos' = pos + Cardinality(entries) /\ pc' \in {pc, "seize"} /\ UNCHANGED <<goal, pass>>
      BY <1>11, <2>3 DEF ReadDir
    <3> HIDE DEF entries
    <3> QED
      BY <3>1, <2>1 DEF ProgressType
  <2> QED
    BY <2>2, <2>3
<1>12. CASE AttachRefreshed
  BY <1>12, <1>1 DEF AttachRefreshed, Restart, ProgressType
<1>13. CASE Interrupt
  BY <1>13, <1>1 DEF Interrupt, ProgressType
<1>14. CASE EndPass
  BY <1>14, <1>1 DEF EndPass, Restart, ProgressType
<1>15. CASE StopDone
  BY <1>15, <1>1 DEF StopDone, Goto, AllKnownStopped, ProgressType
<1>16. CASE StopGivesUp
  BY <1>16, <1>1 DEF StopGivesUp, GiveUp, Goto, Restart, ProgressType
<1>17. CASE ContinueDone
  BY <1>17, <1>1 DEF ContinueDone, ProgressType
<1>18. CASE PollRefreshed
  BY <1>18, <1>1 DEF PollRefreshed, Goto, ProgressType
<1>19. CASE PollDone
  BY <1>19, <1>1 DEF PollDone, Goto, NoteExit, ProgressType
<1>20. CASE DetachAll
  BY <1>20, <1>1 DEF DetachAll, Goto, ProgressType
<1>21. CASE RemoteCall
  BY <1>21, <1>1 DEF RemoteCall, Cont, ProgressType
<1>22. CASE RemoteReturn
  BY <1>22, <1>1 DEF RemoteReturn, Forget, Reap, Waitable, ProgressType
<1>23. ASSUME NEW t \in Tids, Clone(t) PROVE ProgressType'
  BY <1>23, <1>1 DEF Clone, Free, IsFirst, ProgressType
<1>24. ASSUME NEW t \in Tids, Exit(t) PROVE ProgressType'
  BY <1>24, <1>1 DEF Exit, Free, ProgressType
<1>25. ASSUME NEW t \in Tids, Trap(t) PROVE ProgressType'
  BY <1>25, <1>1 DEF Trap, Trapped, ProgressType
<1>26. ASSUME NEW t \in Tids, SignalStop(t) PROVE ProgressType'
  BY <1>26, <1>1 DEF SignalStop, Trapped, ProgressType
<1>27. ASSUME NEW t \in Tids, Seize(t) PROVE ProgressType'
  BY <1>27, SMT, Z3 DEF Seize, RefreshFails, GiveUp, Goto, Restart, ProgressType
<1>28. ASSUME NEW t \in Tids, SeizeGone(t) PROVE ProgressType'
  BY <1>28, <1>1 DEF SeizeGone, ProgressType
<1>29. ASSUME NEW t \in Tids, SeizeFails(t) PROVE ProgressType'
  BY <1>29, <1>1 DEF SeizeFails, RefreshFails, GiveUp, Goto, Restart, ProgressType
<1>30. ASSUME NEW t \in Tids, Wait(t) PROVE ProgressType'
  BY <1>30, <1>1 DEF Wait, IsFirst, Waitable, Reap, Drop, MarkStopped, Forget, ProgressType
<1>31. ASSUME NEW t \in Tids, Continue(t) PROVE ProgressType'
  BY <1>31, ContinueParts, <1>1 DEF Cont, MarkRunning, Drop, ProgressType
<1>32. ASSUME NEW t \in Tids, PollExit(t) PROVE ProgressType'
  BY <1>32, <1>1 DEF PollExit, Waitable, Reap, Drop, NoteExit, ProgressType
<1>33. ASSUME NEW t \in Tids, PollStop(t) PROVE ProgressType'
  BY <1>33, PollStopParts, <1>1 DEF Cont, MarkRunning, ProgressType
<1>w. CASE ExitWindow
  BY <1>w, <1>1 DEF ExitWindow, ProgressType
<1>r. CASE PollEnded \/ StartTrace \/ StopTrace
  BY <1>r, <1>1 DEF PollEnded, StartTrace, StopTrace, ProgressType
<1> QED BY <1>3, <1>4, <1>5, <1>6, <1>7, <1>8, <1>9, <1>10, <1>11, <1>12, <1>13, <1>14, <1>15, <1>16, <1>17, <1>18, <1>19, <1>20, <1>21, <1>22, <1>23, <1>24, <1>25, <1>26, <1>27, <1>28, <1>29, <1>30, <1>31, <1>32, <1>33, <1>w, <1>r DEF ThreadNext, Command, Poll, Tracer, Target

\* What the account of the signals is after one was forgotten, or was to be delivered.
LEMMA ForgetType ==
    ASSUME HistoryType, NEW t \in Tids, NEW how \in Ways, Forget(t, how)
    PROVE  owed' \in [Tids -> Int] /\ lost' \subseteq Ways
<1>1. owed' = [owed EXCEPT ![t] = @ - 1] /\ lost' = lost \cup {how}
  BY DEF Forget
<1>2. owed' \in [Tids -> Int]
  BY <1>1 DEF HistoryType
<1>3. lost' \subseteq Ways
  BY <1>1 DEF HistoryType
<1> QED BY <1>2, <1>3

LEMMA DeliverType ==
    ASSUME HistoryType, NEW t \in Tids, owed' = [owed EXCEPT ![t] = 0],
           lost' = lost \/ lost' = lost \cup {"interrupt"} \/ lost' = lost \cup {"resume"}
    PROVE  owed' \in [Tids -> Int] /\ lost' \subseteq Ways
<1>1. owed' \in [Tids -> Int]
  BY DEF HistoryType
<1>2. lost' \subseteq Ways
  BY DEF HistoryType, Ways
<1> QED BY <1>1, <1>2

\* ... and the history.
LEMMA HistoryTypeStep ==
    ASSUME HistoryType, SessionType, ProgressType, KernelType, ThreadNext
    PROVE  HistoryType'
<1>1. Leader \in Tids
  BY TidsFinite
<1>2. MaxSignals \in Nat
  BY ThreadAssumption
<1> USE DEF kernel, session, progress, history
<1>3. CASE ExitGroup
  BY <1>3 DEF ExitGroup, HistoryType
<1>4. CASE ParentReaps
  BY <1>4, <1>1, <1>2 DEF ParentReaps, Listed, HistoryType, SessionType
<1>5. CASE StubTrap
  BY <1>5, <1>1, <1>2 DEF StubTrap, Trapped, HistoryType, SessionType
<1>6. CASE BeginAttach
  BY <1>6, <1>1, <1>2, Zenon DEF BeginAttach, Begin, Restart, HistoryType, SessionType
<1>7. CASE BeginStop
  BY <1>7, <1>1, <1>2, Zenon DEF BeginStop, Begin, Restart, HistoryType, SessionType
<1>8. CASE BeginPoll
  BY <1>8, <1>1, <1>2, Zenon DEF BeginPoll, Begin, Restart, HistoryType, SessionType
<1>9. CASE BeginContinue
  BY <1>9, <1>1, <1>2, Zenon DEF BeginContinue, Begin, Goto, HistoryType, SessionType
<1>10. CASE BeginDetach
  BY <1>10, <1>1, <1>2, Zenon DEF BeginDetach, Begin, Goto, Restart, HistoryType, SessionType
<1>11. CASE ReadDir
  BY <1>11, <1>1, <1>2, Zenon DEF ReadDir, RefreshFails, GiveUp, Goto, Restart, HistoryType, SessionType
<1>12. CASE AttachRefreshed
  BY <1>12, <1>1, <1>2, Zenon DEF AttachRefreshed, Restart, HistoryType, SessionType
<1>13. CASE Interrupt
  BY <1>13, <1>1, <1>2 DEF Interrupt, HistoryType, SessionType
<1>14. CASE EndPass
  BY <1>14, <1>1, <1>2, Zenon DEF EndPass, Restart, HistoryType, SessionType
<1>15. CASE StopDone
  BY <1>15, <1>1, <1>2 DEF StopDone, Goto, AllKnownStopped, HistoryType, SessionType
<1>16. CASE StopGivesUp
  BY <1>16, <1>1, <1>2, Zenon DEF StopGivesUp, GiveUp, Goto, Restart, HistoryType, SessionType
<1>17. CASE ContinueDone
  BY <1>17, <1>1, <1>2 DEF ContinueDone, HistoryType, SessionType
<1>18. CASE PollRefreshed
  BY <1>18, <1>1, <1>2 DEF PollRefreshed, Goto, HistoryType, SessionType
<1>19. CASE PollDone
  BY <1>19, <1>1, <1>2 DEF PollDone, Goto, NoteExit, HistoryType, SessionType
<1>20. CASE DetachAll
  <2>1. owed' \in [Tids -> Int] /\ strays' \subseteq Tids
    BY <1>20 DEF DetachAll, HistoryType, SessionType
  <2>2. lost' \subseteq Ways
    <3>1. lost' = lost \/ lost' = lost \cup {"detach"}
      BY <1>20, Zenon DEF DetachAll
    <3> QED BY <3>1 DEF HistoryType, Ways
  <2>3. phantom' = FALSE /\ UNCHANGED <<signals, vanished, failed, stale>>
    BY <1>20, Zenon DEF DetachAll, Goto
  <2> QED BY <2>1, <2>2, <2>3 DEF HistoryType
<1>21. CASE RemoteCall
  BY <1>21, <1>1, <1>2 DEF RemoteCall, Cont, HistoryType, SessionType
<1>22. CASE RemoteReturn
  <2>1. \/ Forget(Leader, "stub")
        \/ UNCHANGED <<owed, lost>>
    BY <1>22, Zenon DEF RemoteReturn
  <2>2. owed' \in [Tids -> Int] /\ lost' \subseteq Ways
    BY <2>1, <1>1, ForgetType DEF HistoryType, Ways
  <2>3. phantom' \in BOOLEAN /\ UNCHANGED <<signals, vanished, failed, strays, stale>>
    BY <1>22, Zenon DEF RemoteReturn
  <2> QED BY <2>2, <2>3 DEF HistoryType
<1>23. ASSUME NEW t \in Tids, Clone(t) PROVE HistoryType'
  BY <1>23, <1>1, <1>2 DEF Clone, Free, IsFirst, HistoryType, SessionType
<1>24. ASSUME NEW t \in Tids, Exit(t) PROVE HistoryType'
  BY <1>24, <1>1, <1>2 DEF Exit, Free, HistoryType, SessionType
<1>25. ASSUME NEW t \in Tids, Trap(t) PROVE HistoryType'
  BY <1>25, <1>1, <1>2 DEF Trap, Trapped, HistoryType, SessionType
<1>26. ASSUME NEW t \in Tids, SignalStop(t) PROVE HistoryType'
  <2>1. owed' = [owed EXCEPT ![t] = @ + 1] /\ signals' = signals + 1 /\ signals < MaxSignals
    BY <1>26 DEF SignalStop
  <2>2. UNCHANGED <<lost, vanished, failed, strays, stale, phantom>>
    BY <1>26, Zenon DEF SignalStop, Trapped
  <2> QED BY <2>1, <2>2, <1>2 DEF HistoryType
<1>27. ASSUME NEW t \in Tids, Seize(t) PROVE HistoryType'
  BY <1>27, <1>1, <1>2, Zenon DEF Seize, IsFirst, RefreshFails, GiveUp, Goto, Restart, HistoryType, SessionType
<1>28. ASSUME NEW t \in Tids, SeizeGone(t) PROVE HistoryType'
  BY <1>28, <1>1, <1>2 DEF SeizeGone, HistoryType, SessionType
<1>29. ASSUME NEW t \in Tids, SeizeFails(t) PROVE HistoryType'
  BY <1>29, <1>1, <1>2, Zenon DEF SeizeFails, RefreshFails, GiveUp, Goto, Restart, HistoryType, SessionType
<1>30. ASSUME NEW t \in Tids, Wait(t) PROVE HistoryType'
  <2>1. \/ Forget(t, "SIGTRAP")
        \/ UNCHANGED <<owed, lost>>
    BY <1>30, Zenon DEF Wait, MarkStopped
  <2>2. owed' \in [Tids -> Int] /\ lost' \subseteq Ways
    BY <2>1, ForgetType DEF HistoryType, Ways
  <2> QED BY <1>30, <2>2 DEF Wait, HistoryType
<1>31. ASSUME NEW t \in Tids, Continue(t) PROVE HistoryType'
  <2>1. \/ /\ owed' = [owed EXCEPT ![t] = 0]
           /\ lost' = lost \/ lost' = lost \cup {"interrupt"} \/ lost' = lost \cup {"resume"}
        \/ UNCHANGED <<owed, lost>>
    BY <1>31, Zenon DEF Continue, Deliver
  <2>2. owed' \in [Tids -> Int] /\ lost' \subseteq Ways
    BY <2>1, DeliverType, Zenon DEF HistoryType
  <2> QED BY <1>31, <2>2, ContinueParts DEF HistoryType
<1>32. ASSUME NEW t \in Tids, PollExit(t) PROVE HistoryType'
  BY <1>32, <1>1, <1>2 DEF PollExit, Waitable, Reap, Drop, NoteExit, HistoryType, SessionType
<1>33. ASSUME NEW t \in Tids, PollStop(t) PROVE HistoryType'
  <2>1. \/ Forget(t, "SIGTRAP")
        \/ /\ owed' = [owed EXCEPT ![t] = 0]
           /\ lost' = lost \/ lost' = lost \cup {"interrupt"} \/ lost' = lost \cup {"resume"}
        \/ UNCHANGED <<owed, lost>>
    BY <1>33, Zenon DEF PollStop, Deliver
  <2>2. "SIGTRAP" \in Ways
    BY DEF Ways
  <2>3. owed' \in [Tids -> Int] /\ lost' \subseteq Ways
    BY <2>1, <2>2, ForgetType, DeliverType, Zenon DEF HistoryType
  <2> QED BY <1>33, <2>3, PollStopParts DEF HistoryType
<1>w. CASE ExitWindow
  BY <1>w, <1>1, <1>2 DEF ExitWindow, HistoryType, SessionType
<1>r. CASE PollEnded \/ StartTrace \/ StopTrace
  BY <1>r, <1>1, <1>2 DEF PollEnded, StartTrace, StopTrace, HistoryType, SessionType
<1> QED BY <1>3, <1>4, <1>5, <1>6, <1>7, <1>8, <1>9, <1>10, <1>11, <1>12, <1>13, <1>14, <1>15, <1>16, <1>17, <1>18, <1>19, <1>20, <1>21, <1>22, <1>23, <1>24, <1>25, <1>26, <1>27, <1>28, <1>29, <1>30, <1>31, <1>32, <1>33, <1>w, <1>r DEF ThreadNext, Command, Poll, Tracer, Target

\* zt_session_add_thread keeps to the table's capacity.
LEMMA RoomStep ==
    ASSUME Room, SessionType, ThreadNext
    PROVE  Room'
<1>1. Capacity \in Nat /\ Cardinality({}) = 0 /\ Cardinality(threads) \in Nat
  BY TidsFinite, ThreadAssumption, FS_EmptySet DEF SessionType
<1>2. \A t \in Tids : Cardinality(threads \ {t}) \in Nat /\ Cardinality(threads \cup {t}) \in Nat
  BY TidsFinite DEF SessionType
<1>3. \A t \in Tids : Cardinality(threads \ {t}) <= Cardinality(threads) /\ Cardinality(threads \cup {t}) <= Cardinality(threads) + 1
  BY TidsFinite, FS_AddElement, FS_RemoveElement DEF SessionType
<1> USE DEF kernel, session, progress, history
<1>d. ASSUME NEW t \in Tids, threads' = threads \/ threads' = threads \ {t} PROVE Room'
  <2>1. CASE threads' = threads \ {t}
    <3>1. Cardinality(threads') = Cardinality(threads \ {t})
      BY <2>1
    <3> QED
      BY <3>1, <1>1, <1>2, <1>3 DEF Room
  <2>2. CASE threads' = threads
    BY <2>2 DEF Room
  <2> QED
    BY <1>d, <2>1, <2>2
<1>4. CASE ExitGroup
  BY <1>4, <1>1, <1>2, <1>3 DEF ExitGroup, Listed, Room
<1>5. CASE ParentReaps
  BY <1>5, <1>1, <1>2, <1>3 DEF ParentReaps, Listed, Room
<1>6. CASE StubTrap
  BY <1>6, <1>1, <1>2, <1>3 DEF StubTrap, Trapped, Room
<1>7. CASE BeginAttach
  BY <1>7, <1>1, <1>2, <1>3 DEF BeginAttach, Begin, Restart, Room
<1>8. CASE BeginStop
  BY <1>8, <1>1, <1>2, <1>3 DEF BeginStop, Begin, Restart, Room
<1>9. CASE BeginPoll
  BY <1>9, <1>1, <1>2, <1>3 DEF BeginPoll, Begin, Restart, Room
<1>10. CASE BeginContinue
  BY <1>10, <1>1, <1>2, <1>3 DEF BeginContinue, Begin, Goto, Room
<1>11. CASE BeginDetach
  BY <1>11, <1>1, <1>2, <1>3 DEF BeginDetach, Begin, Goto, Restart, Room
<1>12. CASE ReadDir
  BY <1>12, <1>1, <1>2, <1>3 DEF ReadDir, RefreshFails, GiveUp, Goto, Restart, Room
<1>13. CASE AttachRefreshed
  BY <1>13, <1>1, <1>2, <1>3 DEF AttachRefreshed, Restart, Room
<1>14. CASE Interrupt
  BY <1>14, <1>1, <1>2, <1>3 DEF Interrupt, Room
<1>15. CASE EndPass
  BY <1>15, <1>1, <1>2, <1>3 DEF EndPass, Restart, Room
<1>16. CASE StopDone
  BY <1>16, <1>1, <1>2, <1>3 DEF StopDone, Goto, AllKnownStopped, Room
<1>17. CASE StopGivesUp
  BY <1>17, <1>1, <1>2, <1>3 DEF StopGivesUp, GiveUp, Goto, Restart, Room
<1>18. CASE ContinueDone
  BY <1>18, <1>1, <1>2, <1>3 DEF ContinueDone, Room
<1>19. CASE PollRefreshed
  BY <1>19, <1>1, <1>2, <1>3 DEF PollRefreshed, Goto, Room
<1>20. CASE PollDone
  BY <1>20, <1>1, <1>2, <1>3 DEF PollDone, Goto, NoteExit, Room
<1>21. CASE DetachAll
  BY <1>21, <1>1, <1>2, <1>3 DEF DetachAll, Goto, Room
<1>22. CASE RemoteCall
  BY <1>22, <1>1, <1>2, <1>3 DEF RemoteCall, Cont, Room
<1>23. CASE RemoteReturn
  BY <1>23, <1>1, <1>2, <1>3 DEF RemoteReturn, Forget, Reap, Waitable, Room
<1>24. ASSUME NEW t \in Tids, Clone(t) PROVE Room'
  BY <1>24, <1>1, <1>2, <1>3 DEF Clone, Free, IsFirst, Room
<1>25. ASSUME NEW t \in Tids, Exit(t) PROVE Room'
  BY <1>25, <1>1, <1>2, <1>3 DEF Exit, Free, Room
<1>26. ASSUME NEW t \in Tids, Trap(t) PROVE Room'
  BY <1>26, <1>1, <1>2, <1>3 DEF Trap, Trapped, Room
<1>27. ASSUME NEW t \in Tids, SignalStop(t) PROVE Room'
  BY <1>27, <1>1, <1>2, <1>3 DEF SignalStop, Trapped, Room
<1>28. ASSUME NEW t \in Tids, Seize(t) PROVE Room'
  <2>1. threads' = threads \/ (Cardinality(threads) < Capacity /\ threads' = threads \cup {t})
    BY <1>28 DEF Seize
  <2>2. CASE Cardinality(threads) < Capacity /\ threads' = threads \cup {t}
    BY <2>2, <1>1, <1>2, <1>3 DEF Room
  <2>3. CASE threads' = threads
    BY <2>3 DEF Room
  <2> QED
    BY <2>1, <2>2, <2>3
<1>29. ASSUME NEW t \in Tids, SeizeGone(t) PROVE Room'
  BY <1>29, <1>1, <1>2, <1>3 DEF SeizeGone, Room
<1>30. ASSUME NEW t \in Tids, SeizeFails(t) PROVE Room'
  BY <1>30, <1>1, <1>2, <1>3 DEF SeizeFails, RefreshFails, GiveUp, Goto, Restart, Room
<1>31. ASSUME NEW t \in Tids, Wait(t) PROVE Room'
  BY <1>31, <1>d, Zenon DEF Wait, Drop
<1>32. ASSUME NEW t \in Tids, Continue(t) PROVE Room'
  BY <1>32, <1>d, ContinueParts, Zenon DEF MarkRunning, Drop
<1>33. ASSUME NEW t \in Tids, PollExit(t) PROVE Room'
  BY <1>33, <1>d, Zenon DEF PollExit, Drop
<1>34. ASSUME NEW t \in Tids, PollStop(t) PROVE Room'
  BY <1>34, PollStopParts, <1>1, <1>2, <1>3 DEF Cont, MarkRunning, Room
<1>w. CASE ExitWindow
  BY <1>w, <1>1, <1>2, <1>3 DEF ExitWindow, Room
<1>r. CASE PollEnded \/ StartTrace \/ StopTrace
  BY <1>r, <1>1, <1>2, <1>3 DEF PollEnded, StartTrace, StopTrace, Room
<1> QED BY <1>4, <1>5, <1>6, <1>7, <1>8, <1>9, <1>10, <1>11, <1>12, <1>13, <1>14, <1>15, <1>16, <1>17, <1>18, <1>19, <1>20, <1>21, <1>22, <1>23, <1>24, <1>25, <1>26, <1>27, <1>28, <1>29, <1>30, <1>31, <1>32, <1>33, <1>34, <1>w, <1>r DEF ThreadNext, Command, Poll, Tracer, Target

\* A step preserves what is known of the kernel's variables.
LEMMA KernelStep ==
    ASSUME KernelInv, KernelType, SessionType, ProgressType, MarkedStopped, ThreadNext
    PROVE  KernelInv'
<1>1. Leader \in Tids
  BY TidsFinite
<1> USE DEF kernel, session, progress, history
<1>2. CASE ExitGroup
  BY <1>2, <1>1 DEF ExitGroup, Listed, KernelInv, KernelType, SessionType, ProgressType, MarkedStopped
<1>3. CASE ParentReaps
  BY <1>3, <1>1 DEF ParentReaps, Listed, KernelInv, KernelType, SessionType, ProgressType, MarkedStopped
<1>4. CASE StubTrap
  BY <1>4, <1>1 DEF StubTrap, Trapped, KernelInv, KernelType, SessionType, ProgressType, MarkedStopped
<1>5. CASE BeginAttach
  BY <1>5, <1>1 DEF BeginAttach, Begin, Restart, KernelInv, KernelType, SessionType, ProgressType, MarkedStopped
<1>6. CASE BeginStop
  BY <1>6, <1>1 DEF BeginStop, Begin, Restart, KernelInv, KernelType, SessionType, ProgressType, MarkedStopped
<1>7. CASE BeginPoll
  BY <1>7, <1>1 DEF BeginPoll, Begin, Restart, KernelInv, KernelType, SessionType, ProgressType, MarkedStopped
<1>8. CASE BeginContinue
  BY <1>8, <1>1 DEF BeginContinue, Begin, Goto, KernelInv, KernelType, SessionType, ProgressType, MarkedStopped
<1>9. CASE BeginDetach
  BY <1>9, <1>1 DEF BeginDetach, Begin, Goto, Restart, KernelInv, KernelType, SessionType, ProgressType, MarkedStopped
<1>10. CASE ReadDir
  BY <1>10, <1>1 DEF ReadDir, RefreshFails, GiveUp, Goto, Restart, KernelInv, KernelType, SessionType, ProgressType, MarkedStopped
<1>11. CASE AttachRefreshed
  BY <1>11, <1>1 DEF AttachRefreshed, Restart, KernelInv, KernelType, SessionType, ProgressType, MarkedStopped
<1>12. CASE Interrupt
  BY <1>12, <1>1 DEF Interrupt, KernelInv, KernelType, SessionType, ProgressType, MarkedStopped
<1>13. CASE EndPass
  BY <1>13, <1>1 DEF EndPass, Restart, KernelInv, KernelType, SessionType, ProgressType, MarkedStopped
<1>14. CASE StopDone
  BY <1>14, <1>1 DEF StopDone, Goto, AllKnownStopped, KernelInv, KernelType, SessionType, ProgressType, MarkedStopped
<1>15. CASE StopGivesUp
  BY <1>15, <1>1 DEF StopGivesUp, GiveUp, Goto, Restart, KernelInv, KernelType, SessionType, ProgressType, MarkedStopped
<1>16. CASE ContinueDone
  BY <1>16, <1>1 DEF ContinueDone, KernelInv, KernelType, SessionType, ProgressType, MarkedStopped
<1>17. CASE PollRefreshed
  BY <1>17, <1>1 DEF PollRefreshed, Goto, KernelInv, KernelType, SessionType, ProgressType, MarkedStopped
<1>18. CASE PollDone
  BY <1>18, <1>1 DEF PollDone, Goto, NoteExit, KernelInv, KernelType, SessionType, ProgressType, MarkedStopped
<1>19. CASE DetachAll
  BY <1>19, <1>1 DEF DetachAll, Goto, KernelInv, KernelType, SessionType, ProgressType, MarkedStopped
<1>20. CASE RemoteCall
  BY <1>20, <1>1 DEF RemoteCall, Cont, KernelInv, KernelType, SessionType, ProgressType, MarkedStopped
<1>21. CASE RemoteReturn
  BY <1>21, <1>1 DEF RemoteReturn, Forget, Reap, Waitable, KernelInv, KernelType, SessionType, ProgressType, MarkedStopped
<1>22. ASSUME NEW t \in Tids, Clone(t) PROVE KernelInv'
  BY <1>22, <1>1 DEF Clone, Free, IsFirst, KernelInv, KernelType, SessionType, ProgressType, MarkedStopped
<1>23. ASSUME NEW t \in Tids, Exit(t) PROVE KernelInv'
  BY <1>23, <1>1 DEF Exit, Free, KernelInv, KernelType, SessionType, ProgressType, MarkedStopped
<1>24. ASSUME NEW t \in Tids, Trap(t) PROVE KernelInv'
  BY <1>24, <1>1 DEF Trap, Trapped, KernelInv, KernelType, SessionType, ProgressType, MarkedStopped
<1>25. ASSUME NEW t \in Tids, SignalStop(t) PROVE KernelInv'
  BY <1>25, <1>1 DEF SignalStop, Trapped, KernelInv, KernelType, SessionType, ProgressType, MarkedStopped
<1>26. ASSUME NEW t \in Tids, Seize(t) PROVE KernelInv'
  BY <1>26, <1>1 DEF Seize, IsFirst, RefreshFails, GiveUp, Goto, Restart, KernelInv, KernelType, SessionType, ProgressType, MarkedStopped
<1>27. ASSUME NEW t \in Tids, SeizeGone(t) PROVE KernelInv'
  BY <1>27, <1>1 DEF SeizeGone, KernelInv, KernelType, SessionType, ProgressType, MarkedStopped
<1>28. ASSUME NEW t \in Tids, SeizeFails(t) PROVE KernelInv'
  BY <1>28, <1>1 DEF SeizeFails, RefreshFails, GiveUp, Goto, Restart, KernelInv, KernelType, SessionType, ProgressType, MarkedStopped
<1>29. ASSUME NEW t \in Tids, Wait(t) PROVE KernelInv'
  BY <1>29, <1>1 DEF Wait, IsFirst, Waitable, Reap, Drop, MarkStopped, Forget, KernelInv, KernelType, SessionType, ProgressType, MarkedStopped
<1>30. ASSUME NEW t \in Tids, Continue(t) PROVE KernelInv'
  BY <1>30, ContinueParts, <1>1 DEF Cont, MarkRunning, Drop, KernelInv, KernelType, SessionType, ProgressType, MarkedStopped
<1>31. ASSUME NEW t \in Tids, PollExit(t) PROVE KernelInv'
  BY <1>31, <1>1 DEF PollExit, Waitable, Reap, Drop, NoteExit, KernelInv, KernelType, SessionType, ProgressType, MarkedStopped
<1>32. ASSUME NEW t \in Tids, PollStop(t) PROVE KernelInv'
  BY <1>32, PollStopParts, <1>1 DEF Cont, MarkRunning, KernelInv, KernelType, SessionType, ProgressType, MarkedStopped
<1>w. CASE ExitWindow
  BY <1>w, <1>1 DEF ExitWindow, KernelInv, KernelType, SessionType, ProgressType, MarkedStopped
<1>r. CASE PollEnded \/ StartTrace \/ StopTrace
  BY <1>r, <1>1 DEF PollEnded, StartTrace, StopTrace, KernelInv, KernelType, SessionType, ProgressType, MarkedStopped
<1> QED BY <1>2, <1>3, <1>4, <1>5, <1>6, <1>7, <1>8, <1>9, <1>10, <1>11, <1>12, <1>13, <1>14, <1>15, <1>16, <1>17, <1>18, <1>19, <1>20, <1>21, <1>22, <1>23, <1>24, <1>25, <1>26, <1>27, <1>28, <1>29, <1>30, <1>31, <1>32, <1>w, <1>r DEF ThreadNext, Command, Poll, Tracer, Target

\* A refresh that ends has read something.
LEMMA EndsRead ==
    ASSUME KernelType, ProgressType, EndOfDir
    PROVE  pc = "readdir" /\ pos > 0
<1>1. Listed \in SUBSET Tids
  BY DEF Listed
<1>2. Cardinality(Listed) \in Nat /\ (Cardinality(Listed) = 0 => Listed = {})
  BY <1>1, TidsFinite
<1> QED
  BY <1>2 DEF EndOfDir, ProgressType

\* A step preserves what the marks of the table say.
LEMMA MarkStep ==
    ASSUME MarkInv, KernelInv, KernelType, SessionType, ProgressType, ThreadNext
    PROVE  MarkInv'
<1>1. Leader \in Tids
  BY TidsFinite
<1>2. EndOfDir => pc = "readdir" /\ pos > 0
  BY EndsRead
<1> USE DEF kernel, session, progress, history
<1>3. CASE ExitGroup
  BY <1>3, <1>1, <1>2 DEF ExitGroup, Listed, MarkInv, MarkedStopped, Recorded, InStub, KernelInv, KernelType, SessionType
<1>4. CASE ParentReaps
  BY <1>4, <1>1, <1>2 DEF ParentReaps, Listed, MarkInv, MarkedStopped, Recorded, InStub, KernelInv, KernelType, SessionType
<1>5. CASE StubTrap
  BY <1>5, <1>1, <1>2 DEF StubTrap, Trapped, MarkInv, MarkedStopped, Recorded, InStub, KernelInv, KernelType, SessionType
<1>6. CASE BeginAttach
  BY <1>6, <1>1, <1>2 DEF BeginAttach, Begin, Restart, MarkInv, MarkedStopped, Recorded, InStub, KernelInv, KernelType, SessionType
<1>7. CASE BeginStop
  BY <1>7, <1>1, <1>2 DEF BeginStop, Begin, Restart, MarkInv, MarkedStopped, Recorded, InStub, KernelInv, KernelType, SessionType
<1>8. CASE BeginPoll
  BY <1>8, <1>1, <1>2 DEF BeginPoll, Begin, Restart, MarkInv, MarkedStopped, Recorded, InStub, KernelInv, KernelType, SessionType
<1>9. CASE BeginContinue
  BY <1>9, <1>1, <1>2 DEF BeginContinue, Begin, Goto, MarkInv, MarkedStopped, Recorded, InStub, KernelInv, KernelType, SessionType
<1>10. CASE BeginDetach
  BY <1>10, <1>1, <1>2 DEF BeginDetach, Begin, Goto, Restart, MarkInv, MarkedStopped, Recorded, InStub, KernelInv, KernelType, SessionType
<1>11. CASE ReadDir
  BY <1>11, <1>1, <1>2 DEF ReadDir, RefreshFails, GiveUp, Goto, Restart, MarkInv, MarkedStopped, Recorded, InStub, KernelInv, KernelType, SessionType
<1>12. CASE AttachRefreshed
  BY <1>12, <1>1, <1>2 DEF AttachRefreshed, Restart, MarkInv, MarkedStopped, Recorded, InStub, KernelInv, KernelType, SessionType
<1>13. CASE Interrupt
  BY <1>13, <1>1, <1>2 DEF Interrupt, MarkInv, MarkedStopped, Recorded, InStub, KernelInv, KernelType, SessionType
<1>14. CASE EndPass
  BY <1>14, <1>1, <1>2 DEF EndPass, Restart, MarkInv, MarkedStopped, Recorded, InStub, KernelInv, KernelType, SessionType
<1>15. CASE StopDone
  BY <1>15, <1>1, <1>2 DEF StopDone, Goto, AllKnownStopped, MarkInv, MarkedStopped, Recorded, InStub, KernelInv, KernelType, SessionType
<1>16. CASE StopGivesUp
  BY <1>16, <1>1, <1>2 DEF StopGivesUp, GiveUp, Goto, Restart, MarkInv, MarkedStopped, Recorded, InStub, KernelInv, KernelType, SessionType
<1>17. CASE ContinueDone
  BY <1>17, <1>1, <1>2 DEF ContinueDone, MarkInv, MarkedStopped, Recorded, InStub, KernelInv, KernelType, SessionType
<1>18. CASE PollRefreshed
  BY <1>18, <1>1, <1>2 DEF PollRefreshed, Goto, MarkInv, MarkedStopped, Recorded, InStub, KernelInv, KernelType, SessionType
<1>19. CASE PollDone
  BY <1>19, <1>1, <1>2 DEF PollDone, Goto, NoteExit, MarkInv, MarkedStopped, Recorded, InStub, KernelInv, KernelType, SessionType
<1>20. CASE DetachAll
  BY <1>20, <1>1, <1>2 DEF DetachAll, Goto, MarkInv, MarkedStopped, Recorded, InStub, KernelInv, KernelType, SessionType
<1>21. CASE RemoteCall
  BY <1>21, <1>1, <1>2 DEF RemoteCall, Cont, MarkInv, MarkedStopped, Recorded, InStub, KernelInv, KernelType, SessionType
<1>22. CASE RemoteReturn
  BY <1>22, <1>1, <1>2 DEF RemoteReturn, Forget, Reap, Waitable, MarkInv, MarkedStopped, Recorded, InStub, KernelInv, KernelType, SessionType
<1>23. ASSUME NEW t \in Tids, Clone(t) PROVE MarkInv'
  BY <1>23, <1>1, <1>2 DEF Clone, Free, IsFirst, MarkInv, MarkedStopped, Recorded, InStub, KernelInv, KernelType, SessionType
<1>24. ASSUME NEW t \in Tids, Exit(t) PROVE MarkInv'
  BY <1>24, <1>1, <1>2 DEF Exit, Free, MarkInv, MarkedStopped, Recorded, InStub, KernelInv, KernelType, SessionType
<1>25. ASSUME NEW t \in Tids, Trap(t) PROVE MarkInv'
  BY <1>25, <1>1, <1>2 DEF Trap, Trapped, MarkInv, MarkedStopped, Recorded, InStub, KernelInv, KernelType, SessionType
<1>26. ASSUME NEW t \in Tids, SignalStop(t) PROVE MarkInv'
  BY <1>26, <1>1, <1>2 DEF SignalStop, Trapped, MarkInv, MarkedStopped, Recorded, InStub, KernelInv, KernelType, SessionType
<1>27. ASSUME NEW t \in Tids, Seize(t) PROVE MarkInv'
  BY <1>27, <1>1, <1>2 DEF Seize, IsFirst, RefreshFails, GiveUp, Goto, Restart, MarkInv, MarkedStopped, Recorded, InStub, KernelInv, KernelType, SessionType
<1>28. ASSUME NEW t \in Tids, SeizeGone(t) PROVE MarkInv'
  BY <1>28, <1>1, <1>2 DEF SeizeGone, MarkInv, MarkedStopped, Recorded, InStub, KernelInv, KernelType, SessionType
<1>29. ASSUME NEW t \in Tids, SeizeFails(t) PROVE MarkInv'
  BY <1>29, <1>1, <1>2 DEF SeizeFails, RefreshFails, GiveUp, Goto, Restart, MarkInv, MarkedStopped, Recorded, InStub, KernelInv, KernelType, SessionType
<1>30. ASSUME NEW t \in Tids, Wait(t) PROVE MarkInv'
  BY <1>30, SMT, Z3 DEF Wait, Waitable, Reap, Drop, MarkStopped, Forget, MarkInv, MarkedStopped, Recorded, InStub, KernelInv,
     KernelType, SessionType
<1>31. ASSUME NEW t \in Tids, Continue(t) PROVE MarkInv'
  BY <1>31, ContinueParts, <1>1, <1>2 DEF Cont, MarkRunning, Drop, MarkInv, MarkedStopped, Recorded, InStub, KernelInv, KernelType, SessionType
<1>32. ASSUME NEW t \in Tids, PollExit(t) PROVE MarkInv'
  BY <1>32, <1>1, <1>2 DEF PollExit, Waitable, Reap, Drop, NoteExit, MarkInv, MarkedStopped, Recorded, InStub, KernelInv, KernelType, SessionType
<1>33. ASSUME NEW t \in Tids, PollStop(t) PROVE MarkInv'
  BY <1>33, PollStopParts, SMT, Z3 DEF Cont, MarkRunning, MarkInv, MarkedStopped, Recorded, InStub, KernelType, SessionType
<1>w. CASE ExitWindow
  BY <1>w, <1>1, <1>2 DEF ExitWindow, MarkInv, MarkedStopped, Recorded, InStub, KernelInv, KernelType, SessionType
<1>r. CASE PollEnded \/ StartTrace \/ StopTrace
  BY <1>r, <1>1, <1>2 DEF PollEnded, StartTrace, StopTrace, MarkInv, MarkedStopped, Recorded, InStub, KernelInv, KernelType, SessionType
<1> QED BY <1>3, <1>4, <1>5, <1>6, <1>7, <1>8, <1>9, <1>10, <1>11, <1>12, <1>13, <1>14, <1>15, <1>16, <1>17, <1>18, <1>19, <1>20, <1>21, <1>22, <1>23, <1>24, <1>25, <1>26, <1>27, <1>28, <1>29, <1>30, <1>31, <1>32, <1>33, <1>w, <1>r DEF ThreadNext, Command, Poll, Tracer, Target

\* A step preserves what a stopped session and a detach rely on.
LEMMA StopStep ==
    ASSUME StopInv, RefreshInv, MarkInv, KernelInv, KernelType, SessionType, ProgressType, HistoryType, ThreadNext
    PROVE  StopInv'
<1>1. Leader \in Tids
  BY TidsFinite
<1>2. EndOfDir => pc = "readdir" /\ pos > 0
  BY EndsRead
<1>3. /\ goal = "poll" \/ pc = "window" => ~threads_stopped
      /\ pc = "reap" => goal = "poll"
      /\ pc = "readdir" /\ pos > 0 => traced \subseteq threads
  BY DEF RefreshInv
<1> USE DEF kernel, session, progress, history
<1>4. CASE ExitGroup
  BY <1>4, <1>1, <1>2, <1>3 DEF ExitGroup, Listed, StopInv, DetachFrees, KernelInv, KernelType, SessionType, ProgressType, HistoryType
<1>5. CASE ParentReaps
  BY <1>5, <1>1, <1>2, <1>3 DEF ParentReaps, Listed, StopInv, DetachFrees, KernelInv, KernelType, SessionType, ProgressType, HistoryType
<1>6. CASE StubTrap
  BY <1>6, <1>1, <1>2, <1>3 DEF StubTrap, Trapped, StopInv, DetachFrees, KernelInv, KernelType, SessionType, ProgressType, HistoryType
<1>7. CASE BeginAttach
  BY <1>7, <1>1, <1>2, <1>3 DEF BeginAttach, Begin, Restart, StopInv, DetachFrees, KernelInv, KernelType, SessionType, ProgressType, HistoryType
<1>8. CASE BeginStop
  BY <1>8, <1>1, <1>2, <1>3 DEF BeginStop, Begin, Restart, StopInv, DetachFrees, KernelInv, KernelType, SessionType, ProgressType, HistoryType
<1>9. CASE BeginPoll
  BY <1>9, <1>1, <1>2, <1>3 DEF BeginPoll, Begin, Restart, StopInv, DetachFrees, KernelInv, KernelType, SessionType, ProgressType, HistoryType
<1>10. CASE BeginContinue
  BY <1>10, <1>1, <1>2, <1>3 DEF BeginContinue, Begin, Goto, StopInv, DetachFrees, KernelInv, KernelType, SessionType, ProgressType, HistoryType
<1>11. CASE BeginDetach
  BY <1>11, <1>1, <1>2, <1>3 DEF BeginDetach, Begin, Goto, Restart, StopInv, DetachFrees, KernelInv, KernelType, SessionType, ProgressType, HistoryType
<1>12. CASE ReadDir
  BY <1>12, <1>1, <1>2, <1>3 DEF ReadDir, RefreshFails, GiveUp, Goto, Restart, StopInv, DetachFrees, KernelInv, KernelType, SessionType, ProgressType, HistoryType
<1>13. CASE AttachRefreshed
  BY <1>13, <1>1, <1>2, <1>3 DEF AttachRefreshed, Restart, StopInv, DetachFrees, KernelInv, KernelType, SessionType, ProgressType, HistoryType
<1>14. CASE Interrupt
  BY <1>14, <1>1, <1>2, <1>3 DEF Interrupt, StopInv, DetachFrees, KernelInv, KernelType, SessionType, ProgressType, HistoryType
<1>15. CASE EndPass
  BY <1>15, <1>1, <1>2, <1>3 DEF EndPass, Restart, StopInv, DetachFrees, KernelInv, KernelType, SessionType, ProgressType, HistoryType
<1>16. CASE StopDone
  BY <1>16, <1>1, <1>2, <1>3 DEF StopDone, Goto, AllKnownStopped, StopInv, DetachFrees, KernelInv, KernelType, SessionType, ProgressType, HistoryType
<1>17. CASE StopGivesUp
  BY <1>17, <1>1, <1>2, <1>3 DEF StopGivesUp, GiveUp, Goto, Restart, StopInv, DetachFrees, KernelInv, KernelType, SessionType, ProgressType, HistoryType
<1>18. CASE ContinueDone
  BY <1>18, <1>1, <1>2, <1>3 DEF ContinueDone, StopInv, DetachFrees, KernelInv, KernelType, SessionType, ProgressType, HistoryType
<1>19. CASE PollRefreshed
  BY <1>19, <1>1, <1>2, <1>3 DEF PollRefreshed, Goto, StopInv, DetachFrees, KernelInv, KernelType, SessionType, ProgressType, HistoryType
<1>20. CASE PollDone
  BY <1>20, <1>1, <1>2, <1>3 DEF PollDone, Goto, NoteExit, StopInv, DetachFrees, KernelInv, KernelType, SessionType, ProgressType, HistoryType
<1>21. CASE DetachAll
  BY <1>21, <1>1 DEF DetachAll, Goto, StopInv, DetachFrees, KernelInv, KernelType, SessionType, ProgressType, HistoryType, MarkInv, MarkedStopped
<1>22. CASE RemoteCall
  BY <1>22, <1>1, <1>2, <1>3 DEF RemoteCall, Cont, StopInv, DetachFrees, KernelInv, KernelType, SessionType, ProgressType, HistoryType
<1>23. CASE RemoteReturn
  BY <1>23, <1>1, <1>2, <1>3 DEF RemoteReturn, Forget, Reap, Waitable, StopInv, DetachFrees, KernelInv, KernelType, SessionType, ProgressType, HistoryType
<1>24. ASSUME NEW t \in Tids, Clone(t) PROVE StopInv'
  BY <1>24, <1>1, <1>2, <1>3 DEF Clone, Free, IsFirst, StopInv, DetachFrees, KernelInv, KernelType, SessionType, ProgressType, HistoryType
<1>25. ASSUME NEW t \in Tids, Exit(t) PROVE StopInv'
  BY <1>25, <1>1, <1>2, <1>3 DEF Exit, Free, StopInv, DetachFrees, KernelInv, KernelType, SessionType, ProgressType, HistoryType
<1>26. ASSUME NEW t \in Tids, Trap(t) PROVE StopInv'
  BY <1>26, <1>1, <1>2, <1>3 DEF Trap, Trapped, StopInv, DetachFrees, KernelInv, KernelType, SessionType, ProgressType, HistoryType
<1>27. ASSUME NEW t \in Tids, SignalStop(t) PROVE StopInv'
  BY <1>27, <1>1, <1>2, <1>3 DEF SignalStop, Trapped, StopInv, DetachFrees, KernelType
<1>28. ASSUME NEW t \in Tids, Seize(t) PROVE StopInv'
  BY <1>28, <1>1, <1>2, <1>3 DEF Seize, IsFirst, RefreshFails, GiveUp, Goto, Restart, StopInv, DetachFrees, KernelInv, KernelType, SessionType, ProgressType, HistoryType
<1>29. ASSUME NEW t \in Tids, SeizeGone(t) PROVE StopInv'
  BY <1>29, <1>1, <1>2, <1>3 DEF SeizeGone, StopInv, DetachFrees, KernelInv, KernelType, SessionType, ProgressType, HistoryType
<1>30. ASSUME NEW t \in Tids, SeizeFails(t) PROVE StopInv'
  BY <1>30, <1>1, <1>2, <1>3 DEF SeizeFails, RefreshFails, GiveUp, Goto, Restart, StopInv, DetachFrees, KernelInv, KernelType, SessionType, ProgressType, HistoryType
<1>31. ASSUME NEW t \in Tids, Wait(t) PROVE StopInv'
  BY <1>31, <1>1, <1>2, <1>3 DEF Wait, IsFirst, Waitable, Reap, Drop, MarkStopped, Forget, StopInv, DetachFrees, KernelInv, KernelType, SessionType, ProgressType, HistoryType
<1>32. ASSUME NEW t \in Tids, Continue(t) PROVE StopInv'
  BY <1>32, ContinueParts, <1>1, <1>2, <1>3 DEF Cont, MarkRunning, Drop, StopInv, DetachFrees, KernelInv, KernelType, SessionType, ProgressType, HistoryType
<1>33. ASSUME NEW t \in Tids, PollExit(t) PROVE StopInv'
  BY <1>33, <1>1, <1>2, <1>3 DEF PollExit, Waitable, Reap, Drop, NoteExit, StopInv, DetachFrees, KernelInv, KernelType, SessionType, ProgressType, HistoryType
<1>34. ASSUME NEW t \in Tids, PollStop(t) PROVE StopInv'
  BY <1>34, PollStopParts, <1>1, <1>2, <1>3 DEF Cont, MarkRunning, StopInv, DetachFrees, KernelInv, KernelType, SessionType, ProgressType, HistoryType
<1>w. CASE ExitWindow
  BY <1>w, <1>1, <1>2, <1>3 DEF ExitWindow, StopInv, DetachFrees
<1>r. CASE PollEnded \/ StartTrace \/ StopTrace
  BY <1>r DEF PollEnded, StartTrace, StopTrace, StopInv, DetachFrees
<1> QED BY <1>4, <1>5, <1>6, <1>7, <1>8, <1>9, <1>10, <1>11, <1>12, <1>13, <1>14, <1>15, <1>16, <1>17, <1>18, <1>19, <1>20, <1>21, <1>22, <1>23, <1>24, <1>25, <1>26, <1>27, <1>28, <1>29, <1>30, <1>31, <1>32, <1>33, <1>34, <1>w, <1>r DEF ThreadNext, Command, Poll, Tracer, Target

\* Where nothing happens but to x, and x is accounted for, all are.
LEMMA OthersSame ==
    ASSUME SignalInv, NEW x \in Tids, \A t \in Tids \ {x} : Same(t),
           phantom' = phantom \/ x = Leader, threads \subseteq Tids, threads' \subseteq Tids,
           Untraced(x)', x \in threads' => Account(x)', "resume" \notin lost'
    PROVE  SignalInv'
<1>1. ASSUME NEW t \in Tids \ {x} PROVE Untraced(t)'
  BY <1>1, Zenon DEF Same, SignalInv, Untraced
<1>2. ASSUME NEW t \in Tids \ {x}, t \in threads' PROVE Account(t)'
  <2>1. t \in threads /\ Account(t) /\ Same(t)
    BY <1>2 DEF Same, SignalInv
  <2>2. Kept(t)' = Kept(t) /\ Pending(t)' = Pending(t)
    BY <2>1, Zenon DEF Same, Kept, Pending
  <2>3. t = Leader /\ phantom => t = Leader /\ phantom'
    BY <1>2
  <2> QED BY <2>1, <2>2, <2>3 DEF Same, Account
<1> QED BY <1>1, <1>2 DEF SignalInv

\* Where nothing happens to the threads, their account is as before.
LEMMA SignalsSame ==
    ASSUME SignalInv, UNCHANGED <<task, trap, traced, unwaited, threads, stopped, resume_signal, owed>>,
           pc' = pc \/ (pc # "stub" /\ pc' # "stub"), phantom' = phantom \/ stopped = {}, lost' = lost \/ lost' = {}
    PROVE  SignalInv'
<1>1. \A t \in Tids : Untraced(t)'
  BY DEF SignalInv, Untraced
<1>2. ASSUME NEW t \in threads PROVE Account(t)'
  <2>1. Account(t) /\ (InStub(t)' <=> InStub(t)) /\ (t \in stopped => phantom' = phantom)
    BY <1>2 DEF SignalInv, InStub
  <2>2. Kept(t)' = Kept(t) /\ Pending(t)' = Pending(t)
    BY Zenon DEF Kept, Pending
  <2> QED BY <2>1, <2>2 DEF Account
<1> QED BY <1>1, <1>2 DEF SignalInv

\* A resumed thread is owed nothing.
LEMMA RunsOn ==
    ASSUME SignalInv, KernelType, SessionType, SessionType', HistoryType, NEW t \in Tids, Cont(t), MarkRunning(t),
           pc \in {"continue", "reap"}, pc' = pc, phantom' = phantom, traced' = traced,
           unwaited' = unwaited \/ unwaited' = unwaited \ {t},
           owed' = [owed EXCEPT ![t] = 0], "resume" \notin lost'
    PROVE  SignalInv'
<1>1. \A u \in Tids \ {t} : Same(u)
  BY DEF Same, InStub, Cont, MarkRunning, KernelType, HistoryType
<1>2. Untraced(t)' /\ Account(t)'
  BY DEF Untraced, Account, InStub, Cont, KernelType, HistoryType
<1> QED BY <1>1, <1>2, OthersSame DEF SessionType

\* A step preserves the account of the signals.
LEMMA SignalStep ==
    ASSUME SignalInv, MarkInv, KernelInv, KernelType, SessionType, SessionType', ProgressType, HistoryType, ThreadNext
    PROVE  SignalInv'
<1>1. Leader \in Tids
  BY TidsFinite
<1>2. EndOfDir => pc = "readdir" /\ pos > 0
  BY EndsRead
<1>s. threads \subseteq Tids /\ threads' \subseteq Tids
  BY DEF SessionType
<1> USE DEF kernel, session, progress, history
<1>3. CASE ExitGroup
  BY <1>3, <1>1, <1>2 DEF ExitGroup, Listed, SignalInv, Account, Untraced, Kept, Pending, InStub, Recorded, MarkInv, MarkedStopped, KernelInv, KernelType, SessionType, ProgressType, HistoryType
<1>4. CASE ParentReaps
  BY <1>4, <1>1, <1>2 DEF ParentReaps, Listed, SignalInv, Account, Untraced, Kept, Pending, InStub, Recorded, MarkInv, MarkedStopped, KernelInv, KernelType, SessionType, ProgressType, HistoryType
<1>5. CASE StubTrap
  <2>1. /\ pc = "stub" /\ task[Leader] = "running" /\ unwaited' = unwaited \cup {Leader}
        /\ task' = [task EXCEPT ![Leader] = "trapped"] /\ trap' = [trap EXCEPT ![Leader] = "stub"]
        /\ UNCHANGED <<traced, threads, stopped, resume_signal, pc, owed, lost, phantom>>
    BY <1>5, Zenon DEF StubTrap, Trapped
  <2>2. \A u \in Tids \ {Leader} : Same(u)
    BY <2>1, <1>1 DEF Same, InStub, KernelType, SessionType, HistoryType
  <2>3. Untraced(Leader)'
    BY <2>1, <1>1 DEF Untraced, SignalInv, KernelType, HistoryType
  <2>4. Leader \in threads' => Account(Leader)'
    BY <2>1, <1>1 DEF Account, Kept, Pending, InStub, SignalInv, KernelType
  <2> QED BY <2>1, <2>2, <2>3, <2>4, <1>1, <1>s, OthersSame DEF SignalInv
<1>6. CASE BeginAttach
  BY <1>6, SignalsSame, Zenon DEF BeginAttach, Begin, Restart
<1>7. CASE BeginStop
  BY <1>7, SignalsSame, Zenon DEF BeginStop, Begin, Restart
<1>8. CASE BeginPoll
  BY <1>8, SignalsSame, Zenon DEF BeginPoll, Begin, Restart
<1>9. CASE BeginContinue
  BY <1>9, SignalsSame, Zenon DEF BeginContinue, Begin, Goto
<1>10. CASE BeginDetach
  BY <1>10, SignalsSame, Zenon DEF BeginDetach, Begin, Goto, Restart
<1>11. CASE ReadDir
  BY <1>11, SignalsSame, Zenon DEF ReadDir, RefreshFails, GiveUp, Goto, Restart
<1>12. CASE AttachRefreshed
  BY <1>12, <1>2, SignalsSame, Zenon DEF AttachRefreshed, Restart
<1>13. CASE Interrupt
  BY <1>13, <1>2, SignalsSame, Zenon DEF Interrupt
<1>14. CASE EndPass
  BY <1>14, SignalsSame, Zenon DEF EndPass, Restart
<1>15. CASE StopDone
  BY <1>15, <1>2, SignalsSame, Zenon DEF StopDone, Goto, AllKnownStopped
<1>16. CASE StopGivesUp
  BY <1>16, <1>2, SignalsSame, Zenon DEF StopGivesUp, GiveUp, Goto, Restart
<1>17. CASE ContinueDone
  BY <1>17, SignalsSame, Zenon DEF ContinueDone
<1>18. CASE PollRefreshed
  BY <1>18, <1>2, SignalsSame, Zenon DEF PollRefreshed, Goto
<1>19. CASE PollDone
  BY <1>19, SignalsSame, Zenon DEF PollDone, Goto, NoteExit
<1>20. CASE DetachAll
  BY <1>20, <1>1, <1>2, Zenon DEF DetachAll, Goto, SignalInv, Account, Untraced, Kept, Pending, InStub, Recorded, MarkInv, MarkedStopped, KernelInv, KernelType, SessionType, ProgressType, HistoryType
<1>21. CASE RemoteCall
  <2>1. /\ pc # "stub" /\ pc' = "stub" /\ task[Leader] = "trapped" /\ Leader \in traced /\ Leader \notin unwaited
        /\ task' = [task EXCEPT ![Leader] = "running"] /\ trap' = [trap EXCEPT ![Leader] = "none"]
        /\ UNCHANGED <<traced, unwaited, threads, stopped, resume_signal, owed, lost>>
    BY <1>21, Zenon DEF RemoteCall, Cont
  <2>2. \A u \in Tids \ {Leader} : Same(u)
    BY <2>1, <1>1 DEF Same, InStub, KernelType, SessionType, HistoryType
  <2>3. Untraced(Leader)'
    BY <2>1, <1>1 DEF Untraced, SignalInv, KernelType, HistoryType
  <2>4. Leader \in threads => Leader \in stopped
    BY <2>1, <1>1 DEF MarkInv, Recorded, InStub
  <2>5. Leader \in threads' => Account(Leader)'
    BY <2>1, <2>4, <1>1 DEF Account, Kept, InStub, SignalInv, KernelType
  <2> QED BY <2>1, <2>2, <2>3, <2>5, <1>1, <1>s, OthersSame DEF SignalInv
<1>22. CASE RemoteReturn
  <2>1. /\ pc = "stub" /\ pc' = "idle" /\ Leader \in unwaited /\ unwaited' = unwaited \ {Leader}
        /\ UNCHANGED <<trap, threads, stopped, resume_signal>>
    BY <1>22, Zenon DEF RemoteReturn, Waitable
  <2>2. CASE task[Leader] = "zombie"
    <3>1. /\ task' = [task EXCEPT ![Leader] = "zombie"] /\ traced' = traced \ {Leader}
          /\ UNCHANGED <<owed, lost>>
      BY <1>22, <2>2, Zenon DEF RemoteReturn, Reap
    <3>2. \A u \in Tids \ {Leader} : Same(u)
      BY <2>1, <3>1, <1>1 DEF Same, InStub, KernelType
    <3>3. Untraced(Leader)' /\ Account(Leader)'
      BY <3>1, <1>1 DEF Untraced, Account, KernelType
    <3> QED BY <3>1, <3>2, <3>3, <1>1, <1>s, OthersSame DEF SignalInv
  <2>3. CASE task[Leader] # "zombie"
    <3>1. UNCHANGED <<task, traced>>
      BY <1>22, <2>3, Zenon DEF RemoteReturn
    <3>2. task[Leader] = "trapped"
      BY <2>1, <2>3 DEF KernelInv
    <3>3. /\ trap[Leader] \in {"signal", "SIGTRAP"} => owed' = [owed EXCEPT ![Leader] = @ - 1] /\ lost' = lost \cup {"stub"}
          /\ trap[Leader] \notin {"signal", "SIGTRAP"} => owed' = owed /\ lost' = lost
          /\ trap[Leader] = "event" => phantom'
      BY <1>22, <3>2, Zenon DEF RemoteReturn, Forget
    <3>4. \A u \in Tids \ {Leader} : Same(u)
      BY <2>1, <3>1, <3>3, <1>1 DEF Same, InStub, HistoryType
    <3>5. Untraced(Leader)'
      BY <3>1, <3>2 DEF Untraced
    <3>6. Leader \in threads => owed'[Leader] = Kept(Leader)
      BY <2>1, <3>2, <3>3, <1>1 DEF SignalInv, Account, Kept, Pending, InStub, HistoryType
    <3>7. Leader \in threads' => Account(Leader)'
      BY <2>1, <3>1, <3>2, <3>3, <3>6 DEF Account, Kept, InStub
    <3>8. "resume" \notin lost'
      BY <3>3 DEF SignalInv
    <3> QED BY <3>4, <3>5, <3>7, <3>8, <1>1, <1>s, OthersSame
  <2> QED BY <2>2, <2>3
<1>23. ASSUME NEW t \in Tids, Clone(t) PROVE SignalInv'
  <2>1. PICK u \in Tids : task[u] = "unborn" /\ task' = [task EXCEPT ![u] = "running"]
    BY <1>23 DEF Clone, IsFirst
  <2>2. UNCHANGED <<traced, trap, unwaited, threads, stopped, resume_signal, pc, owed, lost, phantom>>
    BY <1>23, Zenon DEF Clone
  <2>3. u \notin traced /\ u \notin threads
    BY <2>1 DEF KernelInv
  <2>4. \A v \in Tids \ {u} : Same(v)
    BY <2>1, <2>2 DEF Same, InStub, KernelType
  <2>5. Untraced(u)'
    BY <2>1, <2>2, <2>3 DEF Untraced, SignalInv
  <2> QED BY <2>2, <2>3, <2>4, <2>5, <1>s, OthersSame DEF SignalInv
<1>24. ASSUME NEW t \in Tids, Exit(t) PROVE SignalInv'
  <2>1. /\ task[t] = "running" /\ t # Leader
        /\ task' = [task EXCEPT ![t] = IF t \in traced THEN "zombie" ELSE "gone"]
        /\ unwaited' = IF t \in traced THEN unwaited \cup {t} ELSE unwaited
        /\ UNCHANGED <<traced, trap, threads, stopped, resume_signal, pc, owed, lost, phantom>>
    BY <1>24, Zenon DEF Exit, Free
  <2>2. \A u \in Tids \ {t} : Same(u)
    BY <2>1, <1>1 DEF Same, InStub, KernelType, SessionType, HistoryType
  <2>3. Untraced(t)'
    BY <2>1 DEF Untraced, SignalInv, KernelType, HistoryType
  <2>4. Account(t)'
    BY <2>1 DEF Account, KernelType
  <2> QED BY <2>1, <2>2, <2>3, <2>4, <1>1, <1>s, OthersSame DEF SignalInv
<1>25. ASSUME NEW t \in Tids, Trap(t) PROVE SignalInv'
  <2>1. /\ task[t] = "running" /\ t \in interrupt /\ unwaited' = unwaited \cup {t}
        /\ task' = [task EXCEPT ![t] = "trapped"] /\ trap' = [trap EXCEPT ![t] = "event"]
        /\ UNCHANGED <<traced, threads, stopped, resume_signal, pc, owed, lost, phantom>>
    BY <1>25, Zenon DEF Trap, Trapped
  <2>2. \A u \in Tids \ {t} : Same(u)
    BY <2>1, <1>1 DEF Same, InStub, KernelType, SessionType, HistoryType
  <2>3. Untraced(t)'
    BY <2>1 DEF Untraced, SignalInv, KernelType, HistoryType
  <2>4. ~InStub(t) => t \notin stopped
    BY <2>1 DEF MarkInv, MarkedStopped, InStub
  <2>5. t \in threads' => Account(t)'
    BY <2>1, <2>4 DEF Account, Kept, Pending, InStub, SignalInv, KernelType
  <2> QED BY <2>1, <2>2, <2>3, <2>5, <1>1, <1>s, OthersSame DEF SignalInv
<1>26. ASSUME NEW t \in Tids, SignalStop(t) PROVE SignalInv'
  <2>1. /\ task[t] = "running" /\ t \in traced /\ unwaited' = unwaited \cup {t}
        /\ task' = [task EXCEPT ![t] = "trapped"]
        /\ trap' = [trap EXCEPT ![t] = "signal"] \/ trap' = [trap EXCEPT ![t] = "SIGTRAP"]
        /\ owed' = [owed EXCEPT ![t] = @ + 1]
        /\ UNCHANGED <<traced, threads, stopped, resume_signal, pc, lost, phantom>>
    BY <1>26, Zenon DEF SignalStop, Trapped
  <2>2. \A u \in Tids \ {t} : Same(u)
    BY <2>1, <1>1 DEF Same, InStub, KernelType, SessionType, HistoryType
  <2>3. Untraced(t)'
    BY <2>1 DEF Untraced, SignalInv, KernelType, HistoryType
  <2>4. ~InStub(t) => t \notin stopped
    BY <2>1 DEF MarkInv, MarkedStopped, InStub
  <2>5. t \in threads' => Account(t)'
    BY <2>1, <2>4 DEF Account, Kept, Pending, InStub, SignalInv, KernelType, HistoryType
  <2> QED BY <2>1, <2>2, <2>3, <2>5, <1>1, <1>s, OthersSame DEF SignalInv
<1>27. ASSUME NEW t \in Tids, Seize(t) PROVE SignalInv'
  <2>1. /\ pc = "seize" /\ t \notin traced /\ task[t] \in {"running", "trapped"} /\ traced' = traced \cup {t}
        /\ threads' \in {threads, threads \cup {t}}
        /\ UNCHANGED <<task, trap, unwaited, stopped, resume_signal, owed, lost, phantom>>
    BY <1>27, Zenon DEF Seize
  <2>2. pc' # "stub"
    BY <1>27, <2>1, Zenon DEF Seize, RefreshFails, GiveUp, Goto, Restart
  <2>3. task[t] = "running" /\ owed[t] = 0
    BY <2>1 DEF KernelInv, SignalInv, Untraced
  <2>4. \A u \in Tids \ {t} : Same(u)
    BY <2>1, <2>2 DEF Same, InStub
  <2>5. Untraced(t)' /\ Account(t)'
    BY <2>1, <2>2, <2>3 DEF Untraced, Account, InStub
  <2> QED BY <2>1, <2>4, <2>5, <1>s, OthersSame DEF SignalInv
<1>28. ASSUME NEW t \in Tids, SeizeGone(t) PROVE SignalInv'
  BY <1>28, SignalsSame, Zenon DEF SeizeGone
<1>29. ASSUME NEW t \in Tids, SeizeFails(t) PROVE SignalInv'
  BY <1>29, SignalsSame, Zenon DEF SeizeFails, RefreshFails, GiveUp, Goto, Restart
<1>30. ASSUME NEW t \in Tids, Wait(t) PROVE SignalInv'
  <2>1. /\ pc = "wait" /\ pc' = pc /\ t \in threads /\ t \notin stopped /\ t \in unwaited
        /\ unwaited' = unwaited \ {t} /\ UNCHANGED <<trap, phantom>>
    BY <1>30, Zenon DEF Wait, IsFirst, Waitable
  <2>2. CASE task[t] = "zombie"
    <3>1. /\ task' = [task EXCEPT ![t] = IF t = Leader THEN "zombie" ELSE "gone"] /\ traced' = traced \ {t}
          /\ threads' = threads \ {t} /\ stopped' = stopped \ {t} /\ resume_signal' = resume_signal \ {t}
          /\ UNCHANGED <<owed, lost>>
      BY <1>30, <2>2, Zenon DEF Wait, Reap, Drop
    <3>2. \A u \in Tids \ {t} : Same(u)
      BY <2>1, <3>1 DEF Same, InStub, KernelType
    <3>3. Untraced(t)' /\ t \notin threads'
      BY <3>1 DEF Untraced, KernelType
    <3> QED BY <2>1, <3>1, <3>2, <3>3, <1>s, OthersSame DEF SignalInv
  <2>3. CASE task[t] # "zombie"
    <3>1. /\ stopped' = stopped \cup {t}
          /\ resume_signal' = IF trap[t] = "signal" THEN resume_signal \cup {t} ELSE resume_signal \ {t}
          /\ UNCHANGED <<task, traced, threads>>
      BY <1>30, <2>3, Zenon DEF Wait, MarkStopped
    <3>2. /\ trap[t] = "SIGTRAP" => owed' = [owed EXCEPT ![t] = @ - 1] /\ lost' = lost \cup {"SIGTRAP"}
          /\ trap[t] # "SIGTRAP" => owed' = owed /\ lost' = lost
      BY <1>30, <2>3, Zenon DEF Wait, MarkStopped, Forget
    <3>3. task[t] = "trapped" /\ owed[t] = Pending(t)
      BY <2>1, <2>3 DEF KernelInv, SignalInv, Account, InStub
    <3>4. \A u \in Tids \ {t} : Same(u)
      BY <2>1, <3>1, <3>2 DEF Same, InStub, HistoryType
    <3>5. Untraced(t)'
      BY <3>1, <3>3 DEF Untraced
    <3>6. Account(t)'
      BY <2>1, <3>1, <3>2, <3>3 DEF Account, Kept, Pending, InStub, HistoryType
    <3>7. "resume" \notin lost'
      BY <3>2 DEF SignalInv
    <3> QED BY <2>1, <3>4, <3>5, <3>6, <3>7, <1>s, OthersSame
  <2> QED BY <2>2, <2>3
<1>31. ASSUME NEW t \in Tids, Continue(t) PROVE SignalInv'
  <2>1. CASE task[t] = "trapped" /\ t \in traced
    <3> DEFINE given == IF t \in resume_signal /\ trap[t] # "event" THEN 1 ELSE 0
    <3>1. /\ pc = "continue" /\ pc' = pc /\ t \in stopped /\ Cont(t) /\ MarkRunning(t)
          /\ UNCHANGED <<traced, unwaited, phantom>>
      BY <1>31, <2>1, ContinueParts, Zenon
    <3>2. owed' = [owed EXCEPT ![t] = 0] /\ (owed[t] = given => lost' = lost)
          /\ (t = Leader /\ phantom /\ trap[t] = "event" => lost' = lost \/ lost' = lost \cup {"interrupt"})
      BY <1>31, <2>1, Zenon DEF Continue, Deliver
    <3>3. t \in threads /\ Account(t)
      BY <3>1 DEF SignalInv, SessionType
    <3>4. \/ owed[t] = given
          \/ t = Leader /\ phantom /\ trap[t] = "event"
      BY <2>1, <3>1, <3>3 DEF Account, Kept, InStub
    <3>5. lost' = lost \/ lost' = lost \cup {"interrupt"}
      BY <3>2, <3>4, Zenon
    <3>6. "resume" \notin lost'
      BY <3>5 DEF SignalInv
    <3> QED BY <3>1, <3>2, <3>6, RunsOn
  <2>2. CASE ~(task[t] = "trapped" /\ t \in traced)
    <3>1. Drop(t) /\ UNCHANGED <<task, trap, owed, lost, traced, unwaited, phantom, pc>>
      BY <1>31, <2>2, ContinueParts, Zenon
    <3>2. \A u \in Tids \ {t} : Same(u)
      BY <3>1 DEF Drop, Same, InStub
    <3>3. Untraced(t)' /\ t \notin threads'
      BY <3>1 DEF Drop, Untraced, SignalInv
    <3> QED BY <3>1, <3>2, <3>3, <1>s, OthersSame DEF SignalInv
  <2> QED BY <2>1, <2>2
<1>32. ASSUME NEW t \in Tids, PollExit(t) PROVE SignalInv'
  <2>1. /\ UNCHANGED <<trap, pc, owed, lost, phantom>> /\ unwaited' = unwaited \ {t}
        /\ task' = [task EXCEPT ![t] = IF t = Leader THEN "zombie" ELSE "gone"] /\ traced' = traced \ {t}
        /\ threads' = threads \ {t} /\ stopped' = stopped \ {t} /\ resume_signal' = resume_signal \ {t}
    BY <1>32, Zenon DEF PollExit, Reap, Drop
  <2>2. \A u \in Tids \ {t} : Same(u)
    BY <2>1 DEF Same, InStub, KernelType
  <2>3. Untraced(t)' /\ t \notin threads'
    BY <2>1 DEF Untraced, KernelType
  <2> QED BY <2>1, <2>2, <2>3, <1>s, OthersSame DEF SignalInv
<1>33. ASSUME NEW t \in Tids, PollStop(t) PROVE SignalInv'
  <2>1. /\ pc = "reap" /\ pc' = pc /\ t \in unwaited /\ task[t] = "trapped" /\ unwaited' = unwaited \ {t}
        /\ UNCHANGED <<traced, phantom>>
    BY <1>33, PollStopParts, Zenon
  <2>2. CASE t \in threads
    <3>1. Cont(t) /\ MarkRunning(t)
      BY <1>33, <2>2, PollStopParts, Zenon
    <3>2. owed[t] = Pending(t)
      BY <2>1, <2>2 DEF SignalInv, Account, InStub
    <3>3. CASE trap[t] = "SIGTRAP"
      <4>1. owed' = [owed EXCEPT ![t] = @ - 1] /\ lost' = lost \cup {"SIGTRAP"}
        BY <1>33, <2>2, <3>3, Zenon DEF PollStop, Forget
      <4>2. owed[t] - 1 = 0 /\ "resume" \notin lost'
        BY <3>2, <3>3, <4>1 DEF Pending, SignalInv
      <4>3. owed' = [owed EXCEPT ![t] = 0]
        BY <4>1, <4>2, Zenon
      <4> QED BY <2>1, <3>1, <4>2, <4>3, RunsOn
    <3>4. CASE trap[t] # "SIGTRAP"
      <4> DEFINE given == IF trap[t] = "signal" /\ trap[t] # "event" THEN 1 ELSE 0
      <4>1. owed' = [owed EXCEPT ![t] = 0] /\ (owed[t] = given => lost' = lost)
        BY <1>33, <2>2, <3>4, Zenon DEF PollStop, Deliver
      <4>2. owed[t] = given
        BY <3>2, <3>4 DEF Pending
      <4> QED BY <2>1, <3>1, <4>1, <4>2, RunsOn DEF SignalInv
    <3> QED BY <3>3, <3>4
  <2>3. CASE t \notin threads
    <3>1. UNCHANGED <<task, trap, owed, lost, threads, stopped, resume_signal>>
      BY <1>33, <2>3, PollStopParts, Zenon
    <3>2. \A u \in Tids \ {t} : Same(u)
      BY <2>1, <3>1 DEF Same, InStub
    <3>3. Untraced(t)'
      BY <2>1, <3>1 DEF Untraced, SignalInv
    <3> QED BY <2>1, <2>3, <3>1, <3>2, <3>3, <1>s, OthersSame DEF SignalInv
  <2> QED BY <2>2, <2>3
<1>w. CASE ExitWindow
  BY <1>w, SignalsSame, Zenon DEF ExitWindow
<1>r. CASE PollEnded \/ StartTrace \/ StopTrace
  BY <1>r, SignalsSame, Zenon DEF PollEnded, StartTrace, StopTrace
<1> QED BY <1>3, <1>4, <1>5, <1>6, <1>7, <1>8, <1>9, <1>10, <1>11, <1>12, <1>13, <1>14, <1>15, <1>16, <1>17, <1>18, <1>19, <1>20, <1>21, <1>22, <1>23, <1>24, <1>25, <1>26, <1>27, <1>28, <1>29, <1>30, <1>31, <1>32, <1>33, <1>w, <1>r DEF ThreadNext, Command, Poll, Tracer, Target

\* A step preserves what makes the report of an exit true.
LEMMA ExitStep ==
    ASSUME ExitInv, RefreshInv, KernelInv, KernelType, SessionType, ProgressType, ThreadNext
    PROVE  ExitInv'
<1>1. Leader \in Tids
  BY TidsFinite
<1>2. EndOfDir => pc = "readdir" /\ pos > 0
  BY EndsRead
<1>3. pc # "seize" => todo = {}
  BY DEF RefreshInv
<1> USE DEF kernel, session, progress, history
<1>4. CASE ExitGroup
  BY <1>4, <1>1, <1>2, <1>3 DEF ExitGroup, Listed, ExitInv, ExitTrue, ProcessExited, KernelInv, KernelType, SessionType
<1>5. CASE ParentReaps
  BY <1>5, <1>1, <1>2, <1>3 DEF ParentReaps, Listed, ExitInv, ExitTrue, ProcessExited, KernelInv, KernelType, SessionType
<1>6. CASE StubTrap
  BY <1>6, <1>1, <1>2, <1>3 DEF StubTrap, Trapped, ExitInv, ExitTrue, ProcessExited, KernelInv, KernelType, SessionType
<1>7. CASE BeginAttach
  BY <1>7, <1>1, <1>2, <1>3 DEF BeginAttach, Begin, Restart, ExitInv, ExitTrue, ProcessExited, KernelInv, KernelType, SessionType
<1>8. CASE BeginStop
  BY <1>8, <1>1, <1>2, <1>3 DEF BeginStop, Begin, Restart, ExitInv, ExitTrue, ProcessExited, KernelInv, KernelType, SessionType
<1>9. CASE BeginPoll
  BY <1>9, <1>1, <1>2, <1>3 DEF BeginPoll, Begin, Restart, ExitInv, ExitTrue, ProcessExited, KernelInv, KernelType, SessionType
<1>10. CASE BeginContinue
  BY <1>10, <1>1, <1>2, <1>3 DEF BeginContinue, Begin, Goto, ExitInv, ExitTrue, ProcessExited, KernelInv, KernelType, SessionType
<1>11. CASE BeginDetach
  BY <1>11, <1>1, <1>2, <1>3 DEF BeginDetach, Begin, Goto, Restart, ExitInv, ExitTrue, ProcessExited, KernelInv, KernelType, SessionType
<1>12. CASE ReadDir
  <2> DEFINE entries == {u \in Listed : Cardinality({v \in Listed : v < u}) >= pos}
  <2>1. CASE Listed = {} /\ pos = 0
    BY <1>12, <2>1 DEF ReadDir, RefreshFails, GiveUp, Goto, Restart, ExitInv, ExitTrue, ProcessExited
  <2>2. CASE ~(Listed = {} /\ pos = 0)
    <3>1. /\ pc = "readdir" /\ todo' = entries \ threads /\ pc' \in {"readdir", "seize"}
          /\ UNCHANGED <<task, threads, target_exited>>
      BY <1>12, <2>2 DEF ReadDir
    <3>2. pos = 0 => entries = Listed
      <4>1. \A u \in Listed : {v \in Listed : v < u} \in SUBSET Tids
        BY DEF Listed
      <4>2. \A u \in Listed : Cardinality({v \in Listed : v < u}) >= 0
        BY <4>1, TidsFinite
      <4> QED
        BY <4>2
    <3>3. Leader \in Listed \/ ProcessExited
      BY <1>1 DEF Listed, ProcessExited, ExitInv, KernelType
    <3> HIDE DEF entries
    <3>4. Leader \in threads \cup todo' \/ ProcessExited
      BY <3>1, <3>2, <3>3, <1>3 DEF ExitInv, ProgressType
    <3> QED
      BY <3>1, <3>4 DEF ExitInv, ExitTrue, ProcessExited
  <2> QED
    BY <2>1, <2>2
<1>13. CASE AttachRefreshed
  BY <1>13, <1>1, <1>2, <1>3 DEF AttachRefreshed, Restart, ExitInv, ExitTrue, ProcessExited, KernelInv, KernelType, SessionType
<1>14. CASE Interrupt
  BY <1>14, <1>1, <1>2, <1>3 DEF Interrupt, ExitInv, ExitTrue, ProcessExited, KernelInv, KernelType, SessionType
<1>15. CASE EndPass
  BY <1>15, <1>1, <1>2, <1>3 DEF EndPass, Restart, ExitInv, ExitTrue, ProcessExited, KernelInv, KernelType, SessionType
<1>16. CASE StopDone
  BY <1>16, <1>1, <1>2, <1>3 DEF StopDone, Goto, AllKnownStopped, ExitInv, ExitTrue, ProcessExited, KernelInv, KernelType, SessionType
<1>17. CASE StopGivesUp
  BY <1>17, <1>1, <1>2, <1>3 DEF StopGivesUp, GiveUp, Goto, Restart, ExitInv, ExitTrue, ProcessExited, KernelInv, KernelType, SessionType
<1>18. CASE ContinueDone
  BY <1>18, <1>1, <1>2, <1>3 DEF ContinueDone, ExitInv, ExitTrue, ProcessExited, KernelInv, KernelType, SessionType
<1>19. CASE PollRefreshed
  BY <1>19, <1>1, <1>2, <1>3 DEF PollRefreshed, Goto, ExitInv, ExitTrue, ProcessExited, KernelInv, KernelType, SessionType
<1>20. CASE PollDone
  BY <1>20, <1>1, <1>2, <1>3 DEF PollDone, Goto, NoteExit, ExitInv, ExitTrue, ProcessExited, KernelInv, KernelType, SessionType
<1>21. CASE DetachAll
  BY <1>21, <1>1 DEF DetachAll, Goto, ExitInv, ExitTrue, ProcessExited, KernelInv, KernelType, SessionType
<1>22. CASE RemoteCall
  BY <1>22, <1>1, <1>2, <1>3 DEF RemoteCall, Cont, ExitInv, ExitTrue, ProcessExited, KernelInv, KernelType, SessionType
<1>23. CASE RemoteReturn
  BY <1>23, <1>1, <1>2, <1>3 DEF RemoteReturn, Forget, Reap, Waitable, ExitInv, ExitTrue, ProcessExited, KernelInv, KernelType, SessionType
<1>24. ASSUME NEW t \in Tids, Clone(t) PROVE ExitInv'
  BY <1>24, <1>1, <1>2, <1>3 DEF Clone, Free, IsFirst, ExitInv, ExitTrue, ProcessExited, KernelInv, KernelType, SessionType
<1>25. ASSUME NEW t \in Tids, Exit(t) PROVE ExitInv'
  BY <1>25, <1>1, <1>2, <1>3 DEF Exit, Free, ExitInv, ExitTrue, ProcessExited, KernelInv, KernelType, SessionType
<1>26. ASSUME NEW t \in Tids, Trap(t) PROVE ExitInv'
  BY <1>26, <1>1, <1>2, <1>3 DEF Trap, Trapped, ExitInv, ExitTrue, ProcessExited, KernelInv, KernelType, SessionType
<1>27. ASSUME NEW t \in Tids, SignalStop(t) PROVE ExitInv'
  BY <1>27, <1>1, <1>2, <1>3 DEF SignalStop, Trapped, ExitInv, ExitTrue, ProcessExited, KernelInv, KernelType, SessionType
<1>28. ASSUME NEW t \in Tids, Seize(t) PROVE ExitInv'
  BY <1>28, <1>1, <1>2, <1>3 DEF Seize, IsFirst, RefreshFails, GiveUp, Goto, Restart, ExitInv, ExitTrue, ProcessExited, KernelInv, KernelType, SessionType
<1>29. ASSUME NEW t \in Tids, SeizeGone(t) PROVE ExitInv'
  BY <1>29, <1>1, <1>2, <1>3 DEF SeizeGone, ExitInv, ExitTrue, ProcessExited, KernelInv, KernelType, SessionType
<1>30. ASSUME NEW t \in Tids, SeizeFails(t) PROVE ExitInv'
  BY <1>30, <1>1, <1>2, <1>3 DEF SeizeFails, RefreshFails, GiveUp, Goto, Restart, ExitInv, ExitTrue, ProcessExited, KernelInv, KernelType, SessionType
<1>31. ASSUME NEW t \in Tids, Wait(t) PROVE ExitInv'
  BY <1>31, <1>1, <1>2, <1>3 DEF Wait, IsFirst, Waitable, Reap, Drop, MarkStopped, Forget, ExitInv, ExitTrue, ProcessExited, KernelInv, KernelType, SessionType
<1>32. ASSUME NEW t \in Tids, Continue(t) PROVE ExitInv'
  BY <1>32, ContinueParts, <1>1, <1>2, <1>3 DEF Cont, MarkRunning, Drop, ExitInv, ExitTrue, ProcessExited, KernelInv, KernelType, SessionType
<1>33. ASSUME NEW t \in Tids, PollExit(t) PROVE ExitInv'
  BY <1>33, <1>1, <1>2, <1>3 DEF PollExit, Waitable, Reap, Drop, NoteExit, ExitInv, ExitTrue, ProcessExited, KernelInv, KernelType, SessionType
<1>34. ASSUME NEW t \in Tids, PollStop(t) PROVE ExitInv'
  BY <1>34, PollStopParts, <1>1, <1>2, <1>3 DEF Cont, MarkRunning, ExitInv, ExitTrue, ProcessExited, KernelInv, KernelType, SessionType
<1>w. CASE ExitWindow
  BY <1>w, <1>1, <1>2, <1>3 DEF ExitWindow, ExitInv, ExitTrue, ProcessExited, KernelInv, KernelType, SessionType
<1>r. CASE PollEnded \/ StartTrace \/ StopTrace
  BY <1>r, <1>1, <1>2, <1>3 DEF PollEnded, StartTrace, StopTrace, ExitInv, ExitTrue, ProcessExited, KernelInv, KernelType, SessionType
<1> QED BY <1>4, <1>5, <1>6, <1>7, <1>8, <1>9, <1>10, <1>11, <1>12, <1>13, <1>14, <1>15, <1>16, <1>17, <1>18, <1>19, <1>20, <1>21, <1>22, <1>23, <1>24, <1>25, <1>26, <1>27, <1>28, <1>29, <1>30, <1>31, <1>32, <1>33, <1>34, <1>w, <1>r DEF ThreadNext, Command, Poll, Tracer, Target

\* After a refresh that failed there is nothing to be known about the threads.
LEMMA RefreshGivenUp ==
    ASSUME RefreshInv, SessionType, RefreshFails, runtime' = runtime
    PROVE  RefreshInv'
<1>1. failed' = TRUE /\ todo' = {} /\ pos' = 0 /\ (threads_stopped' => threads_stopped)
  BY DEF RefreshFails, GiveUp, Goto, Restart, SessionType
<1>2. \/ goal = "stop" /\ pc' = "idle" /\ goal' = "none"
      \/ goal = "poll" /\ pc' = "window" /\ goal' = "none"
      \/ goal \in {"attach", "detach"} /\ pc' \in {"readdir", "detach"} /\ goal' = "detach"
  BY DEF RefreshFails, GiveUp, Goto, Restart
<1> QED BY <1>1, <1>2 DEF RefreshInv, MissedExplained, Held

\* A step of the kernel, or of a remote call, that lets no thread run.
LEMMA FewerRun ==
    ASSUME RefreshInv, Running = {} => Running' = {}, traced' \subseteq traced,
           UNCHANGED <<session, goal, pos, todo, vanished, failed>>,
           pc' = pc \/ (pc \in {"idle", "stub"} /\ pc' \in {"idle", "stub"})
    PROVE  RefreshInv'
  BY DEF session, RefreshInv, MissedExplained, Held

\* A step on one thread of the table, when no refresh is under way.
LEMMA Elsewhere ==
    ASSUME RefreshInv, pc \in {"wait", "continue", "reap"}, UNCHANGED <<pc, goal, todo, runtime>>,
           threads_stopped' => threads_stopped
    PROVE  RefreshInv'
  BY DEF RefreshInv, MissedExplained, Held

\* A step preserves what a refresh of the thread table has found.
LEMMA RefreshStep ==
    ASSUME RefreshInv, MarkInv, KernelInv, KernelType, SessionType, ProgressType, HistoryType, ThreadNext
    PROVE  RefreshInv'
<1>1. Leader \in Tids
  BY TidsFinite
<1>2. EndOfDir => pc = "readdir" /\ pos > 0
  BY EndsRead
<1> USE DEF kernel, session, progress, history
<1>3. CASE ExitGroup
  <2>1. Running = {} => Running' = {}
    BY <1>3 DEF ExitGroup, Running, Listed, KernelType
  <2> QED BY <1>3, <2>1, FewerRun DEF ExitGroup
<1>4. CASE ParentReaps
  <2>1. Running = {} => Running' = {}
    BY <1>4 DEF ParentReaps, Running, KernelType
  <2> QED BY <1>4, <2>1, FewerRun DEF ParentReaps
<1>5. CASE StubTrap
  <2>1. Running = {} => Running' = {}
    BY <1>5 DEF StubTrap, Trapped, Running, KernelType
  <2> QED BY <1>5, <2>1, FewerRun DEF StubTrap, Trapped
<1>6. CASE BeginAttach
  BY <1>6, SMT, Z3 DEF BeginAttach, Begin, Restart, RefreshInv, MissedExplained, Held
<1>7. CASE BeginStop
  BY <1>7, SMT, Z3 DEF BeginStop, Begin, Restart, RefreshInv, MissedExplained, Held
<1>8. CASE BeginPoll
  BY <1>8 DEF BeginPoll, Begin, Restart, RefreshInv, MissedExplained, Held
<1>9. CASE BeginContinue
  BY <1>9 DEF BeginContinue, Begin, Goto, RefreshInv, MissedExplained, Held
<1>10. CASE BeginDetach
  BY <1>10, SMT, Z3 DEF BeginDetach, Begin, Goto, Restart, RefreshInv, MissedExplained, Held
<1>11. CASE ReadDir
  <2> DEFINE entries == {u \in Listed : Cardinality({v \in Listed : v < u}) >= pos}
  <2>1. CASE Listed = {} /\ pos = 0
    BY <1>11, <2>1, RefreshGivenUp DEF ReadDir
  <2>2. CASE ~(Listed = {} /\ pos = 0)
    <3>1. /\ entries # {} /\ todo' = entries \ threads /\ pos' = pos + Cardinality(entries)
          /\ pc' = (IF todo' = {} THEN pc ELSE "seize") /\ pc = "readdir"
          /\ UNCHANGED <<task, traced, threads, stopped, threads_stopped, runtime, goal, failed, vanished>>
      BY <1>11, <2>2 DEF ReadDir
    <3>2. entries \subseteq Tids
      BY DEF Listed
    <3>3. pos = 0 => entries = Listed
      <4>1. \A u \in Listed : {v \in Listed : v < u} \in SUBSET Tids
        BY DEF Listed
      <4>2. \A u \in Listed : Cardinality({v \in Listed : v < u}) >= 0
        BY <4>1, TidsFinite
      <4> QED
        BY <4>2
    <3>4. traced \subseteq Listed
      BY DEF Listed, KernelInv, KernelType
    <3> HIDE DEF entries
    <3>5. Cardinality(entries) \in Nat /\ Cardinality(entries) # 0
      BY <3>1, <3>2, TidsFinite, Zenon
    <3>6. pos' > 0
      BY <3>1, <3>5 DEF ProgressType
    <3>7. traced \subseteq threads \cup todo'
      BY <3>1, <3>3, <3>4 DEF RefreshInv, ProgressType
    <3>8. todo' = {} /\ ~vanished /\ threads \subseteq stopped => Running = {}
      <4>1. CASE pos > 0
        BY <3>1, <4>1 DEF RefreshInv
      <4>2. CASE pos = 0
        BY <3>1, <3>3, <4>2 DEF Running, MarkInv, MarkedStopped, Listed, KernelType
      <4> QED
        BY <4>1, <4>2 DEF ProgressType
    <3>9. Running' = Running
      BY <3>1 DEF Running
    <3> QED
      BY <3>1, <3>6, <3>7, <3>8, <3>9 DEF RefreshInv, MissedExplained, Held
  <2> QED
    BY <2>1, <2>2
<1>12. CASE AttachRefreshed
  BY <1>12, SMTT(20), Z3T(20) DEF AttachRefreshed, Restart, RefreshInv, MissedExplained, Held
<1>13. CASE Interrupt
  BY <1>13, <1>1, <1>2 DEF Interrupt, RefreshInv, MissedExplained, Held, Running, MarkInv, MarkedStopped, KernelInv, KernelType, SessionType, ProgressType, HistoryType
<1>14. CASE EndPass
  BY <1>14, SMTT(20), Z3T(20) DEF EndPass, Restart, RefreshInv, MissedExplained, Held
<1>15. CASE StopDone
  BY <1>15, <1>2, SMTT(20), Z3T(20) DEF StopDone, Goto, AllKnownStopped, RefreshInv, MissedExplained, Running
<1>16. CASE StopGivesUp
  <2>1. RefreshFails /\ runtime' = runtime
    BY <1>16 DEF StopGivesUp, RefreshFails
  <2> QED BY <2>1, RefreshGivenUp
<1>17. CASE ContinueDone
  BY <1>17 DEF ContinueDone, RefreshInv, MissedExplained, Held
<1>18. CASE PollRefreshed
  BY <1>18 DEF PollRefreshed, Goto, RefreshInv, MissedExplained, Held
<1>19. CASE PollDone
  BY <1>19 DEF PollDone, Goto, NoteExit, RefreshInv, MissedExplained, Held
<1>20. CASE DetachAll
  BY <1>20 DEF DetachAll, Goto, RefreshInv, MissedExplained, Held
<1>21. CASE RemoteCall
  <2>1. Running = {} => Running' = {}
    BY <1>21, <1>1 DEF RemoteCall, Cont, Running, KernelType
  <2> QED BY <1>21, <2>1, FewerRun DEF RemoteCall
<1>22. CASE RemoteReturn
  <2>1. task'[Leader] # "running" /\ \A u \in Tids \ {Leader} : task'[u] = task[u]
    BY <1>22, <1>1 DEF RemoteReturn, Reap, Waitable, KernelInv, KernelType
  <2>2. Running = {} => Running' = {}
    BY <2>1 DEF Running
  <2>3. traced' \subseteq traced
    BY <1>22 DEF RemoteReturn, Reap
  <2> QED BY <1>22, <2>2, <2>3, FewerRun DEF RemoteReturn
<1>23. ASSUME NEW t \in Tids, Clone(t) PROVE RefreshInv'
  <2>1. Running # {}
    BY <1>23 DEF Clone, Free, Running
  <2> QED BY <1>23, <2>1, FewerRun DEF Clone
<1>24. ASSUME NEW t \in Tids, Exit(t) PROVE RefreshInv'
  <2>1. Running = {} => Running' = {}
    BY <1>24 DEF Exit, Running, KernelType
  <2> QED BY <1>24, <2>1, FewerRun DEF Exit
<1>25. ASSUME NEW t \in Tids, Trap(t) PROVE RefreshInv'
  <2>1. Running = {} => Running' = {}
    BY <1>25 DEF Trap, Trapped, Running, KernelType
  <2> QED BY <1>25, <2>1, FewerRun DEF Trap, Trapped
<1>26. ASSUME NEW t \in Tids, SignalStop(t) PROVE RefreshInv'
  <2>1. Running = {} => Running' = {}
    BY <1>26 DEF SignalStop, Trapped, Running, KernelType
  <2> QED BY <1>26, <2>1, FewerRun DEF SignalStop, Trapped
<1>27. ASSUME NEW t \in Tids, Seize(t) PROVE RefreshInv'
  <2>1. CASE Cardinality(threads) < Capacity
    <3>1. /\ pc = "seize" /\ t \in todo /\ traced' = traced \cup {t} /\ threads' = threads \cup {t} /\ todo' = todo \ {t}
          /\ pc' = (IF todo' = {} THEN "readdir" ELSE pc)
          /\ UNCHANGED <<stopped, goal, pos, threads_stopped, runtime>>
      BY <1>27, <2>1 DEF Seize, IsFirst
    <3>2. t \notin stopped
      BY <3>1 DEF RefreshInv, SessionType
    <3> QED BY <3>1, <3>2, Zenon DEF RefreshInv, MissedExplained, Held
  <2>2. CASE ~(Cardinality(threads) < Capacity)
    BY <1>27, <2>2, RefreshGivenUp DEF Seize
  <2> QED BY <2>1, <2>2
<1>28. ASSUME NEW t \in Tids, SeizeGone(t) PROVE RefreshInv'
  <2>1. t \notin traced
    BY <1>28 DEF SeizeGone, KernelInv
  <2> QED BY <1>28, <2>1 DEF SeizeGone, RefreshInv, MissedExplained, Held
<1>29. ASSUME NEW t \in Tids, SeizeFails(t) PROVE RefreshInv'
  BY <1>29, RefreshGivenUp DEF SeizeFails
<1>30. ASSUME NEW t \in Tids, Wait(t) PROVE RefreshInv'
  BY <1>30, Elsewhere, Zenon DEF Wait
<1>31. ASSUME NEW t \in Tids, Continue(t) PROVE RefreshInv'
  BY <1>31, Elsewhere, Zenon DEF Continue
<1>32. ASSUME NEW t \in Tids, PollExit(t) PROVE RefreshInv'
  <2>1. threads_stopped' => threads_stopped
    BY <1>32, Zenon DEF PollExit, NoteExit, SessionType
  <2> QED BY <1>32, <2>1, Elsewhere, Zenon DEF PollExit
<1>33. ASSUME NEW t \in Tids, PollStop(t) PROVE RefreshInv'
  BY <1>33, Elsewhere, Zenon DEF PollStop
<1>w. CASE ExitWindow
  BY <1>w, <1>1, <1>2 DEF ExitWindow, RefreshInv, MissedExplained, Held, ProgressType
<1>r. CASE PollEnded \/ StartTrace \/ StopTrace
  BY <1>r DEF PollEnded, StartTrace, StopTrace, RefreshInv, MissedExplained, Held, Running
<1> QED BY <1>3, <1>4, <1>5, <1>6, <1>7, <1>8, <1>9, <1>10, <1>11, <1>12, <1>13, <1>14, <1>15, <1>16, <1>17, <1>18, <1>19, <1>20, <1>21, <1>22, <1>23, <1>24, <1>25, <1>26, <1>27, <1>28, <1>29, <1>30, <1>31, <1>32, <1>33, <1>w, <1>r DEF ThreadNext, Command, Poll, Tracer, Target


\* The invariant holds at first.
LEMMA ThreadInitial == ThreadInit => ThreadInv
<1> SUFFICES ASSUME ThreadInit PROVE ThreadInv
  OBVIOUS
<1>1. Leader \in Tids /\ Capacity \in Nat /\ MaxSignals \in Nat /\ Cardinality({}) = 0
  BY TidsFinite, ThreadAssumption, FS_EmptySet
<1>2. ThreadTypeOK
  <2>1. KernelType /\ ProgressType
    BY DEF ThreadInit, KernelType, ProgressType
  <2>2. SessionType /\ threads = {}
    BY Zenon DEF ThreadInit, SessionType
  <2>3. Room
    BY <1>1, <2>2 DEF Room
  <2>4. HistoryType
    <3>1. signals \in 0 .. MaxSignals
      BY <1>1 DEF ThreadInit
    <3>2. owed \in [Tids -> Int]
      BY DEF ThreadInit
    <3> QED
      BY <3>1, <3>2, Zenon DEF ThreadInit, HistoryType
  <2> QED
    BY <2>1, <2>2, <2>3, <2>4, TypeParts
<1>3. KernelInv /\ MarkInv
  BY DEF ThreadInit, KernelInv, MarkInv, MarkedStopped, InStub, Recorded
<1>4. RefreshInv /\ StopInv
  BY DEF ThreadInit, RefreshInv, MissedExplained, Held, StopInv, DetachFrees
<1>5. SignalInv
  BY <1>1 DEF ThreadInit, SignalInv, Account, Untraced, InStub
<1>6. ExitInv
  BY <1>1 DEF ThreadInit, ExitInv, ExitTrue
<1> QED
  BY <1>2, <1>3, <1>4, <1>5, <1>6 DEF ThreadInv

\* Every step keeps it.
LEMMA ThreadStep == ThreadInv /\ [ThreadNext]_threadVars => ThreadInv'
<1> SUFFICES ASSUME ThreadInv, [ThreadNext]_threadVars PROVE ThreadInv'
  OBVIOUS
<1>1. CASE ThreadNext
  <2>1. KernelType /\ SessionType /\ ProgressType /\ HistoryType /\ Room
    BY TypeParts DEF ThreadInv
  <2>2. KernelInv /\ MarkInv /\ RefreshInv /\ StopInv /\ SignalInv /\ ExitInv /\ MarkedStopped
    BY DEF ThreadInv, MarkInv
  <2>3. KernelType' /\ SessionType' /\ ProgressType' /\ HistoryType' /\ Room'
    BY <1>1, <2>1, <2>2, KernelTypeStep, SessionTypeStep, ProgressTypeStep, HistoryTypeStep, RoomStep
  <2>4. KernelInv' /\ MarkInv' /\ RefreshInv' /\ StopInv' /\ SignalInv' /\ ExitInv'
    BY <1>1, <2>1, <2>2, <2>3, KernelStep, MarkStep, RefreshStep, StopStep, SignalStep, ExitStep
  <2> QED
    BY <2>3, <2>4, TypePartsPrime DEF ThreadInv
<1>2. CASE UNCHANGED threadVars
  <2>1. UNCHANGED <<kernel, session, progress, history>>
    BY <1>2 DEF threadVars
  <2>2. ThreadTypeOK'
    BY <2>1 DEF ThreadInv, ThreadTypeOK, kernel, session, progress, history
  <2>3. KernelInv' /\ MarkInv'
    BY <2>1 DEF ThreadInv, KernelInv, MarkInv, MarkedStopped, InStub, Recorded, kernel, session, progress, history
  <2>4. RefreshInv' /\ StopInv'
    BY <2>1 DEF ThreadInv, RefreshInv, MissedExplained, Held, Running, StopInv, DetachFrees, kernel, session, progress, history
  <2>5. SignalInv'
    BY <2>1, Zenon DEF ThreadInv, SignalInv, Account, Untraced, Kept, Pending, InStub, kernel, session, progress, history
  <2>6. ExitInv'
    BY <2>1 DEF ThreadInv, ExitInv, ExitTrue, ProcessExited, kernel, session, progress
  <2> QED
    BY <2>2, <2>3, <2>4, <2>5, <2>6 DEF ThreadInv
<1> QED
  BY <1>1, <1>2

\* It holds throughout.
LEMMA ThreadInvariant == ThreadSpec => []ThreadInv
BY ThreadInitial, ThreadStep, PTL DEF ThreadSpec

\* It implies the properties.
LEMMA ThreadInvSuffices ==
    ThreadInv => ThreadTypeOK /\ MissedExplained /\ MarkedStopped /\ NoneForgotten /\ SignalsKept /\ ExitTrue /\ DetachFrees
<1> SUFFICES ASSUME ThreadInv
             PROVE  ThreadTypeOK /\ MissedExplained /\ MarkedStopped /\ NoneForgotten /\ SignalsKept /\ ExitTrue /\ DetachFrees
  OBVIOUS
<1>1. NoneForgotten
  BY DEF ThreadInv, MarkInv, NoneForgotten, Recorded, InStub
<1>2. SignalsKept
  BY TypeParts DEF ThreadInv, SignalInv, SignalsKept, HistoryType, Ways
<1> QED
  BY <1>1, <1>2 DEF ThreadInv, RefreshInv, MarkInv, StopInv, ExitInv

(* The theorems hold whatever the number of threads, passes and signals    *)
(* and the capacity of session->threads.                                   *)

\* Every variable of the thread group keeps its type, and its safety properties hold.
LEMMA ThreadsSafe ==
    ThreadSpec => [](/\ ThreadTypeOK /\ MissedExplained /\ MarkedStopped
                     /\ NoneForgotten /\ SignalsKept /\ ExitTrue /\ DetachFrees)
BY ThreadInvariant, ThreadInvSuffices, PTL

\* zt_stop_all_threads misses a thread only when an entry of /proc/pid/task vanished
\* during its last refresh.
THEOREM StopsAreComplete == ThreadSpec => []MissedExplained
BY ThreadsSafe, PTL

\* A thread that session->threads marks as stopped is in a stop that was waited for, is
\* dead, or is the main thread running a stub.
THEOREM MarksTrue == ThreadSpec => []MarkedStopped
BY ThreadsSafe, PTL

\* Between commands session->threads knows each thread that is in a ptrace stop, except
\* those beyond ZT_THREADS_CAPACITY or of a detach that could not stop all.
THEOREM StoppedKnown == ThreadSpec => []NoneForgotten
BY ThreadsSafe, PTL

\* A signal that stopped a thread is given to it when the thread is resumed, however stops,
\* interrupts, polls and remote stubs follow each other, unless it is a SIGTRAP, it
\* stopped a stub, a late interrupt stopped a stub meanwhile, or the thread is detached.
THEOREM SignalsDelivered == ThreadSpec => []SignalsKept
BY ThreadsSafe, PTL

\* zt_injector_poll_events reports the end of the target only if the process has ended:
\* a poll has the main thread in its table until it is dead.
THEOREM ExitReportTrue == ThreadSpec => []ExitTrue
BY ThreadsSafe, PTL

\* zt_injector_detach that did not fail leaves no living thread traced, unless it relied on
\* a threads_stopped that a failed stop had made stale.
THEOREM DetachComplete == ThreadSpec => []DetachFrees
BY ThreadsSafe, PTL

-----------------------------------------------------------------------------
(* RemoteExec.                                                             *)

\* The main thread is dead; it never comes back.
Dead == task[Leader] \in {"zombie", "gone"}

\* Where the stub is, while the thread group looks idle or waits for the stub.
StubInv ==
    /\ pc = "stub" <=> step = "running"
    /\ step # "none" => pc \in {"idle", "stub"}
    /\ step \in {"saved", "written", "prepared", "restore", "restore code"} => Obeys \/ Dead
    /\ step = "none" \/ stub \in {"syscall", "call"}
    /\ in_syscall \in BOOLEAN
    /\ step # "none" => stub_pc = SelectStubPc(in_syscall)
    /\ step \in {"none", "saved", "written", "prepared"} => harm = {}

\* What is lent at each step, unless the thread died.
LentInv ==
    /\ step \in {"none", "saved"} => Dead \/ (text = <<>> /\ lent = {})
    /\ step = "written" => Dead \/ (text = BuildStub(stub) /\ lent = {})
    /\ step = "prepared" => Dead \/ (text = BuildStub(stub) /\ lent = PrepareRegs(stub))
    /\ step = "restore code" => Dead \/ lent = {}

\* The inductive invariant.
RemoteInv == ThreadInv /\ isa \in {"x86_64", "aarch64"} /\ StubInv /\ LentInv /\ HarmExplained
-----------------------------------------------------------------------------
(* Proofs.                                                                 *)

\* A step of the remote calls is a step of the thread group, or none.
LEMMA RemoteSimulates == [RemoteNext]_remoteVars => [ThreadNext]_threadVars
<1> SUFFICES ASSUME [RemoteNext]_remoteVars PROVE [ThreadNext]_threadVars
  OBVIOUS
<1>1. CASE StartStub \/ StubStopped
  BY <1>1 DEF StartStub, StubStopped, ThreadNext
<1>2. CASE Command \/ Tracer \/ Target
  BY <1>2 DEF ThreadNext
<1>3. CASE (\E kind \in {"syscall", "call"} : SaveState(kind)) \/ WriteStub \/ SetRegs \/ StartFails \/ RestoreRegs \/ RestoreCode
  BY <1>3 DEF SaveState, WriteStub, SetRegs, StartFails, RestoreRegs, RestoreCode
<1>4. CASE UNCHANGED remoteVars
  BY <1>4 DEF remoteVars
<1> QED
  BY <1>1, <1>2, <1>3, <1>4 DEF RemoteNext, Stub

\* Every behaviour of the stepwise remote execution is one of the thread group, which sees
\* of zt_arch_execute_remote_stub its PTRACE_CONT and its wait.
LEMMA RemoteImplementsThreads == RemoteSpec => ThreadSpec
<1>1. RemoteInit => ThreadInit
  BY DEF RemoteInit
<1> QED
  BY <1>1, RemoteSimulates, PTL DEF RemoteSpec, ThreadSpec

\* What the target does to a stopped main thread is to kill it.
LEMMA MainStopped ==
    ASSUME ThreadInv, Target
    PROVE  /\ pc' = pc
           /\ Dead => Dead'
           /\ Obeys => Obeys' \/ Dead'
<1> USE DEF kernel, session, progress, history
<1>1. Leader \in Tids /\ KernelType
  BY TidsFinite, TypeParts DEF ThreadInv
<1>2. CASE ExitGroup
  BY <1>1, <1>2 DEF ExitGroup, Listed, Dead, Obeys, KernelType
<1>3. CASE ParentReaps
  BY <1>1, <1>3 DEF ParentReaps, Dead, Obeys, KernelType
<1>4. CASE StubTrap
  BY <1>1, <1>4 DEF StubTrap, Trapped, Dead, Obeys, KernelType
<1>5. ASSUME NEW t \in Tids, Clone(t) \/ Exit(t) PROVE pc' = pc /\ (Dead => Dead') /\ (Obeys => Obeys' \/ Dead')
  BY <1>1, <1>5 DEF Clone, Free, IsFirst, Exit, Dead, Obeys, KernelType
<1>6. ASSUME NEW t \in Tids, Trap(t) \/ SignalStop(t) PROVE pc' = pc /\ (Dead => Dead') /\ (Obeys => Obeys' \/ Dead')
  BY <1>1, <1>6 DEF Trap, SignalStop, Trapped, Dead, Obeys, KernelType
<1> QED
  BY <1>2, <1>3, <1>4, <1>5, <1>6 DEF Target

\* Nothing revives it, and no command of the tracer runs a stub.
LEMMA MainDead ==
    ASSUME ThreadInv, Command \/ Tracer
    PROVE  (Dead => Dead') /\ (pc # "stub" => pc' # "stub")
<1> USE DEF kernel, session, progress, history
<1>1. Leader \in Tids /\ KernelType
  BY TidsFinite, TypeParts DEF ThreadInv
<1>2. CASE Command
  BY <1>2, Zenon DEF Command, BeginAttach, BeginStop, BeginPoll, BeginContinue, BeginDetach, Poll, PollEnded, StartTrace, StopTrace, Begin, Restart, Goto, Dead
<1>3. CASE ReadDir
  BY <1>3 DEF ReadDir, RefreshFails, GiveUp, Goto, Restart, Dead
<1>4. CASE AttachRefreshed \/ Interrupt \/ EndPass \/ StopDone \/ StopGivesUp \/ PollRefreshed
  BY <1>4 DEF AttachRefreshed, Interrupt, EndPass, StopDone, StopGivesUp, PollRefreshed, GiveUp, Goto, Restart, Dead
<1>5. CASE ContinueDone \/ PollDone \/ ExitWindow
  BY <1>5 DEF ContinueDone, PollDone, ExitWindow, Goto, Dead
<1>6. CASE DetachAll
  BY <1>1, <1>6 DEF DetachAll, Goto, Dead
<1>7. ASSUME NEW t \in Tids, Seize(t) \/ SeizeGone(t) \/ SeizeFails(t) PROVE (Dead => Dead') /\ (pc # "stub" => pc' # "stub")
  BY <1>7 DEF Seize, SeizeGone, SeizeFails, RefreshFails, GiveUp, Goto, Restart, Dead
<1>8. ASSUME NEW t \in Tids, Wait(t) PROVE (Dead => Dead') /\ (pc # "stub" => pc' # "stub")
  BY <1>1, <1>8 DEF Wait, Reap, Dead, KernelType
<1>9. ASSUME NEW t \in Tids, Continue(t) PROVE (Dead => Dead') /\ (pc # "stub" => pc' # "stub")
  BY <1>1, <1>9 DEF Continue, Deliver, Cont, Dead, KernelType
<1>10. ASSUME NEW t \in Tids, PollExit(t) \/ PollStop(t) PROVE (Dead => Dead') /\ (pc # "stub" => pc' # "stub")
  BY <1>1, <1>10 DEF PollExit, PollStop, Reap, Deliver, Cont, Dead, KernelType
<1> QED
  BY <1>2, <1>3, <1>4, <1>5, <1>6, <1>7, <1>8, <1>9, <1>10 DEF Tracer

\* Steps of the thread group outside the stub.
LEMMA OtherStep ==
    ASSUME RemoteInv, UNCHANGED <<isa, stubVars>>, (step = "none" /\ (Command \/ Tracer)) \/ Target
    PROVE  StubInv' /\ LentInv' /\ HarmExplained'
<1>1. ThreadInv /\ StubInv /\ LentInv /\ HarmExplained
  BY DEF RemoteInv
<1>2. UNCHANGED <<isa, step, stub, in_syscall, stub_pc, text, lent, harm>>
  BY DEF stubVars
<1>3. Dead => Dead'
  BY <1>1, MainStopped, MainDead
<1>4. LentInv'
  BY <1>1, <1>2, <1>3 DEF LentInv, BuildStub, PrepareRegs
<1>5. HarmExplained'
  BY <1>1, <1>2 DEF HarmExplained
<1>6. CASE Target
  <2>1. pc' = pc /\ (Obeys => Obeys' \/ Dead')
    BY <1>1, <1>6, MainStopped
  <2> QED
    BY <1>1, <1>2, <1>3, <1>4, <1>5, <2>1 DEF StubInv, SelectStubPc
<1>7. CASE step = "none" /\ (Command \/ Tracer)
  <2>1. pc # "stub" => pc' # "stub"
    BY <1>1, <1>7, MainDead
  <2> QED
    BY <1>1, <1>2, <1>4, <1>5, <1>7, <2>1 DEF StubInv, SelectStubPc
<1> QED
  BY <1>6, <1>7

\* What a stub that is about to start does to the thread's own computation.
LEMMA HarmStep ==
    ASSUME RemoteInv, StartStub
    PROVE  HarmExplained'
<1>1. step = "prepared" /\ ~Dead /\ isa \in {"x86_64", "aarch64"} /\ stub \in {"syscall", "call"} /\ isa' = isa
  BY Zenon DEF StartStub, RemoteInv, StubInv, Obeys, Dead
<1>2. text = BuildStub(stub) /\ lent = PrepareRegs(stub) /\ stub_pc = SelectStubPc(in_syscall)
  BY <1>1 DEF RemoteInv, StubInv, LentInv
<1>3. Restarts => isa = "x86_64" /\ stub = "call"
  BY <1>1, <1>2 DEF Restarts, SelectStubPc, PrepareRegs, X86SyscallRegs, X86CallRegs, A64SyscallRegs, A64CallRegs
<1>4. RedZone => isa = "x86_64" /\ stub = "call"
  <2>1. CASE stub = "syscall" /\ isa = "x86_64"
    <3>1. text = <<"syscall", "int3">>
      BY <1>2, <2>1 DEF BuildStub, X86SyscallStub
    <3>2. DOMAIN text = {1, 2} /\ text[1] = "syscall" /\ text[2] = "int3"
      BY <3>1
    <3> QED
      BY <3>2 DEF RedZone
  <2> QED
    BY <1>1, <2>1, Zenon DEF RedZone
<1>5. Clobbers => stub = "call"
  <2>1. CASE stub = "syscall"
    <3>1. text = <<"syscall", "int3">> \/ text = <<"svc", "brk">>
      BY <1>1, <1>2, <2>1 DEF BuildStub, X86SyscallStub, A64SyscallStub
    <3>2. DOMAIN text = {1, 2} /\ text[1] \in {"syscall", "svc"} /\ text[2] \in {"int3", "brk"}
      BY <3>1
    <3> QED
      BY <3>2 DEF Clobbers
  <2> QED
    BY <1>1, <2>1
<1>6. harm' = Harms /\ stub' = stub
  BY DEF StartStub
<1>7. \A what \in Harms : stub = "call" /\ (what = "vector registers" \/ isa = "x86_64")
  BY <1>3, <1>4, <1>5 DEF Harms
<1> QED
  BY <1>1, <1>6, <1>7 DEF HarmExplained

\* The stub is started, stops for whatever reason, and is cleared away.
LEMMA StubStep ==
    ASSUME RemoteInv, (\E kind \in {"syscall", "call"} : SaveState(kind)) \/ Stub
    PROVE  StubInv' /\ LentInv' /\ HarmExplained'
<1> DEFINE Goal == StubInv' /\ LentInv' /\ HarmExplained'
<1> USE DEF kernel, session, progress, history, threadVars
<1>1. ASSUME NEW kind \in {"syscall", "call"}, SaveState(kind) PROVE Goal
  <2>1. HarmExplained'
    BY <1>1 DEF SaveState, RemoteInv, StubInv, HarmExplained
  <2>2. StubInv'
    BY <1>1 DEF SaveState, RemoteInv, StubInv, Obeys, Dead, SelectStubPc
  <2>3. LentInv'
    BY <1>1 DEF SaveState, RemoteInv, LentInv, Dead
  <2> QED
    BY <2>1, <2>2, <2>3
<1>2. CASE WriteStub
  <2>1. HarmExplained'
    BY <1>2 DEF WriteStub, Finish, RemoteInv, StubInv, HarmExplained
  <2>2. StubInv'
    BY <1>2, Zenon DEF WriteStub, Finish, RemoteInv, StubInv, Obeys, Dead, SelectStubPc
  <2>3. LentInv'
    BY <1>2, Zenon DEF WriteStub, Finish, RemoteInv, StubInv, LentInv, Obeys, Dead, BuildStub
  <2> QED
    BY <2>1, <2>2, <2>3
<1>3. CASE SetRegs
  <2>1. HarmExplained'
    BY <1>3 DEF SetRegs, Finish, RemoteInv, StubInv, HarmExplained
  <2>2. StubInv'
    BY <1>3, Zenon DEF SetRegs, Finish, RemoteInv, StubInv, Obeys, Dead, SelectStubPc
  <2>3. LentInv'
    BY <1>3, Zenon DEF SetRegs, Finish, RemoteInv, StubInv, LentInv, Obeys, Dead, BuildStub, PrepareRegs
  <2> QED
    BY <2>1, <2>2, <2>3
<1>4. CASE StartStub
  <2>1. StubInv'
    BY <1>4, Zenon DEF StartStub, RemoteCall, RemoteInv, StubInv, SelectStubPc
  <2>2. LentInv'
    BY <1>4, Zenon DEF StartStub, LentInv
  <2> QED
    BY <1>4, <2>1, <2>2, HarmStep
<1>5. CASE StartFails
  BY <1>5 DEF StartFails, RemoteInv, StubInv, LentInv, HarmExplained, Obeys, Dead, SelectStubPc
<1>6. CASE StubStopped
  <2>1. Leader \in Tids /\ KernelType /\ KernelInv
    BY TidsFinite, TypeParts DEF RemoteInv, ThreadInv
  <2>2. Obeys' \/ Dead'
    BY <1>6, <2>1 DEF StubStopped, RemoteReturn, Waitable, Reap, Obeys, Dead, KernelType, KernelInv
  <2>3. StubInv'
    BY <1>6, <2>2 DEF StubStopped, RemoteReturn, RemoteInv, StubInv, SelectStubPc
  <2>4. LentInv' /\ HarmExplained'
    BY <1>6 DEF StubStopped, RemoteInv, LentInv, HarmExplained
  <2> QED
    BY <2>3, <2>4
<1>7. CASE RestoreRegs
  BY <1>7, Zenon DEF RestoreRegs, RemoteInv, StubInv, LentInv, HarmExplained, Obeys, Dead, SelectStubPc
<1>8. CASE RestoreCode
  BY <1>8, Zenon DEF RestoreCode, Finish, RemoteInv, StubInv, LentInv, HarmExplained, Obeys, Dead
<1> QED
  BY <1>1, <1>2, <1>3, <1>4, <1>5, <1>6, <1>7, <1>8 DEF Stub

\* The invariant holds throughout.
LEMMA RemoteInvariant == RemoteSpec => []RemoteInv
<1>1. RemoteInit => RemoteInv
  BY ThreadInitial, IsaAssumption, Zenon DEF RemoteInit, ThreadInit, RemoteInv, StubInv, LentInv, HarmExplained
<1>2. RemoteInv /\ [RemoteNext]_remoteVars => RemoteInv'
  <2> SUFFICES ASSUME RemoteInv, [RemoteNext]_remoteVars PROVE RemoteInv'
    OBVIOUS
  <2>1. ThreadInv'
    BY RemoteSimulates, ThreadStep DEF RemoteInv
  <2>2. isa' = isa
    BY Zenon DEF RemoteNext, remoteVars, SaveState, Stub, WriteStub, SetRegs, StartStub, StartFails, StubStopped, RestoreRegs, RestoreCode
  <2>3. CASE RemoteNext
    <3>1. StubInv' /\ LentInv' /\ HarmExplained'
      BY <2>3, OtherStep, StubStep DEF RemoteNext
    <3> QED
      BY <2>1, <2>2, <3>1 DEF RemoteInv
  <2>4. CASE UNCHANGED remoteVars
    <3>1. UNCHANGED <<task, traced, pc, isa, step, stub, in_syscall, stub_pc, text, lent, harm>>
      BY <2>4 DEF remoteVars, stubVars, threadVars, kernel, progress
    <3> QED
      BY <2>1, <3>1, Zenon DEF RemoteInv, StubInv, LentInv, HarmExplained, Obeys, Dead, SelectStubPc, BuildStub, PrepareRegs
  <2> QED
    BY <2>3, <2>4
<1> QED
  BY <1>1, <1>2, PTL DEF RemoteSpec

\* zt_arch_execute_remote_stub on either architecture: a main thread that lives has its
\* registers and its code back after every call, also after one that a signal, an
\* interrupt or an exit cut short.
THEOREM StubsGivenBack == RemoteSpec => []GivenBack
<1>1. RemoteInv => GivenBack
  BY DEF RemoteInv, LentInv, GivenBack, Dead
<1> QED
  BY <1>1, RemoteInvariant, PTL

\* The computation that a stub borrows the main thread from is disturbed only by function
\* calls: on both architectures they may change the vector registers, and on x86_64 they
\* restart an interrupted system call and use the red zone.
THEOREM StubsHarmless == RemoteSpec => []HarmExplained
<1>1. RemoteInv => HarmExplained
  BY DEF RemoteInv, LentInv
<1> QED
  BY <1>1, RemoteInvariant, PTL

\* What is proved of the thread group holds next to the stubs.
THEOREM RemoteThreadsSafe ==
    RemoteSpec => [](MissedExplained /\ MarkedStopped /\ NoneForgotten /\ SignalsKept /\ ExitTrue /\ DetachFrees)
BY RemoteImplementsThreads, ThreadsSafe, PTL

=============================================================================
