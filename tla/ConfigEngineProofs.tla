------------------------- MODULE ConfigEngineProofs -------------------------
(***************************************************************************)
(* Theorems about ConfigEngine, for every set of sessions, configurations  *)
(* and objects, every retention depth Keep >= 2 and every bound.           *)
(***************************************************************************)
EXTENDS ConfigEngine, TLAPS

-----------------------------------------------------------------------------
(* The revision table *)

\* Appending a revision keeps every stored one and puts the new one on top.
LEMMA AppendFacts ==
  ASSUME TypeOK, NEW c \in Config, AppendRevision(c)
  PROVE  /\ oldest' = oldest /\ latest' = latest + 1
         /\ latest' \in Nat /\ oldest' <= latest'
         /\ revs' \in [oldest'..latest' -> Config]
         /\ revs'[latest'] = c
         /\ \A r \in oldest..latest : revs'[r] = revs[r]
BY DEF AppendRevision, TypeOK

\* Pruning keeps the current revision and the Keep - 1 before it.
LEMMA PruneFacts ==
  ASSUME TypeOK, PruneRevisions
  PROVE  /\ latest' = latest
         /\ oldest' \in Nat \ {0} /\ oldest <= oldest' /\ oldest' <= latest'
         /\ revs' \in [oldest'..latest' -> Config]
         /\ \A r \in oldest'..latest' : revs'[r] = revs[r]
         /\ oldest < latest => oldest' < latest
         /\ oldest' = oldest \/ latest - oldest' + 1 = Keep
<1> USE EngineAssumption DEF PruneRevisions, TypeOK
<1>1. /\ oldest' \in Nat \ {0} /\ oldest <= oldest' /\ oldest' <= latest
      /\ oldest < latest => oldest' < latest
      /\ oldest' = oldest \/ latest - oldest' + 1 = Keep
  OBVIOUS
<1>2. \A r \in oldest'..latest : r \in oldest..latest
  BY <1>1
<1> QED
  BY <1>1, <1>2

-----------------------------------------------------------------------------
(* Type correctness *)

LEMMA InitTypeOK == Init => TypeOK
<1> SUFFICES ASSUME Init PROVE TypeOK
  OBVIOUS
<1> USE DEF Init
<1>1. oldest \in Nat \ {0} /\ latest \in Nat /\ oldest <= latest
  OBVIOUS
<1>2. revs \in [oldest..latest -> Config]
  BY EngineAssumption
<1>3. substrate \in [Obj -> Val]
  BY EngineAssumption DEF Config
<1>4. txn \in [sess : Session \cup {None}, confirmed : BOOLEAN, old : Config, new : Config]
  BY EngineAssumption DEF NoTxn
<1> HIDE DEF Config
<1> QED
  BY <1>1, <1>2, <1>3, <1>4 DEF TypeOK, NoLock, NoPending, NoAudit, Phase, CommitPhase

LEMMA RollbackType ==
  ASSUME TypeOK, NEW next \in {"free", "sweepLock"}, DoConfirmedRollback(next)
  PROVE  /\ oldest' \in Nat \ {0} /\ latest' \in Nat /\ oldest' <= latest'
         /\ revs' \in [oldest'..latest' -> Config]
         /\ pending' \in [base : Nat, expired : BOOLEAN]
         /\ mu' \in {"clear", "free", "sweepLock"} /\ ret' \in {"free", "sweepLock"}
         /\ faults' \in Nat
<1>1. CASE /\ Retained(pending.base) /\ AppendRevision(revs[pending.base])
           /\ mu' = "clear" /\ ret' = next /\ UNCHANGED <<pending, faults>>
  <2>1. revs[pending.base] \in Config
    BY <1>1 DEF Retained, TypeOK
  <2> QED
    BY <1>1, <2>1, AppendFacts DEF TypeOK
<1>2. CASE StoreFails("append") /\ mu' = next /\ UNCHANGED <<revVars, pending, ret>>
  BY <1>2 DEF TypeOK, StoreFails, revVars
<1>3. CASE /\ mu' = next /\ UNCHANGED <<revVars, ret>>
           /\ \/ pending' = NoPending /\ UNCHANGED faults
              \/ StoreFails("clear") /\ UNCHANGED pending
  <2>1. pending' \in {pending, NoPending} /\ faults' \in {faults, faults + 1}
    BY <1>3 DEF StoreFails
  <2>2. NoPending \in [base : Nat, expired : BOOLEAN]
    BY DEF NoPending
  <2>3. pending' \in [base : Nat, expired : BOOLEAN] /\ faults' \in Nat
    BY <2>1, <2>2 DEF TypeOK
  <2> QED
    BY <1>3, <2>3 DEF TypeOK, revVars
<1> QED
  BY <1>1, <1>2, <1>3 DEF DoConfirmedRollback

LEMMA ReleaseType ==
  ASSUME TypeOK, ReleaseLocked
  PROVE  /\ lock' \in [holder : Session \cup {None}, idle : BOOLEAN]
         /\ candidate' = None /\ holder' = None /\ dirty' = FALSE
         /\ faults' \in Nat
<1>1. NoLock \in [holder : Session \cup {None}, idle : BOOLEAN]
  BY DEF NoLock
<1>2. CASE lock' = (IF lock.holder = holder THEN NoLock ELSE lock) /\ UNCHANGED faults
  BY <1>1, <1>2 DEF ReleaseLocked, TypeOK
<1>3. CASE StoreFails("release") /\ UNCHANGED lock
  BY <1>3 DEF ReleaseLocked, StoreFails, TypeOK
<1> QED
  BY <1>2, <1>3 DEF ReleaseLocked

LEMMA ClearType ==
  ASSUME TypeOK, ClearConfirmedLocked
  PROVE  /\ timer' \in {"off", "armed", "due"} /\ exposed' \in BOOLEAN
         /\ pending' \in [base : Nat, expired : BOOLEAN]
         /\ faults' \in Nat
<1>1. NoPending \in [base : Nat, expired : BOOLEAN]
  BY DEF NoPending
<1>2. CASE pending' = NoPending /\ UNCHANGED faults
  BY <1>1, <1>2 DEF ClearConfirmedLocked, TypeOK
<1>3. CASE StoreFails("clear") /\ UNCHANGED pending
  <2>1. timer' = "off" /\ exposed' \in BOOLEAN
    BY DEF ClearConfirmedLocked
  <2> QED
    BY <1>3, <2>1 DEF StoreFails, TypeOK
<1> QED
  BY <1>2, <1>3 DEF ClearConfirmedLocked

LEMMA ClearIfPendingType ==
  ASSUME TypeOK, ClearIfPending
  PROVE  /\ timer' \in {"off", "armed", "due"} /\ exposed' \in BOOLEAN
         /\ pending' \in [base : Nat, expired : BOOLEAN]
         /\ faults' \in Nat
<1>1. CASE IsPending
  BY <1>1, ClearType DEF ClearIfPending
<1>2. CASE ~IsPending
  BY <1>2 DEF ClearIfPending, TypeOK
<1> QED
  BY <1>1, <1>2

LEMMA TypeStep == TypeOK /\ [Next]_vars => TypeOK'
<1> SUFFICES ASSUME TypeOK, [Next]_vars PROVE TypeOK'
  OBVIOUS
<1> USE DEF revVars, memVars, envVars, Phase, CommitPhase
<1>1. CASE SweepConfirmed
  <2>1. CASE Expired
    BY <1>1, <2>1, RollbackType DEF SweepConfirmed, TypeOK
  <2>2. CASE ~Expired
    BY <1>1, <2>2 DEF SweepConfirmed, TypeOK
  <2> QED
    BY <2>1, <2>2
<1>2. CASE SweepLock
  <2>1. CASE lock.holder # None /\ lock.idle
    BY <1>2, <2>1, ReleaseType DEF SweepLock, TypeOK
  <2>2. CASE ~(lock.holder # None /\ lock.idle)
    BY <1>2, <2>2 DEF SweepLock, TypeOK
  <2> QED
    BY <2>1, <2>2
<1>3. CASE ClearAfterRollback
  <2>1. Committed \in Config
    BY DEF Committed, TypeOK
  <2> QED
    BY <1>3, <2>1, ClearType DEF ClearAfterRollback, TypeOK
<1>4. ASSUME NEW s \in Session, Edit(s) PROVE TypeOK'
  <2>1. Committed \in Config
    BY DEF Committed, TypeOK
  <2> QED
    <3>1. CASE lock.holder \notin {None, s}
      BY <1>4, <3>1 DEF Edit, TypeOK
    <3>2. CASE lock.holder \in {None, s}
      <4>1. lock' = [holder |-> s, idle |-> FALSE]
        BY <1>4, <3>2 DEF Edit, RefreshLock
      <4>2. lock' \in [holder : Session \cup {None}, idle : BOOLEAN]
        BY <4>1
      <4>3. \/ UNCHANGED memVars
            \/ candidate' = Committed /\ holder' = s /\ dirty' = FALSE
        BY <1>4, <3>2 DEF Edit
      <4>4. /\ candidate' \in Config \cup {None} /\ holder' \in Session \cup {None}
            /\ dirty' \in BOOLEAN
        BY <2>1, <4>3 DEF TypeOK
      <4>5. /\ mu' = "free"
            /\ UNCHANGED <<revVars, pending, timer, ret, txn, audit, exposed, faults, envVars>>
        BY <1>4 DEF Edit
      <4> QED
        BY <4>2, <4>4, <4>5 DEF TypeOK
    <3> QED
      BY <3>1, <3>2
<1>5. ASSUME NEW s \in Session, Release(s) PROVE TypeOK'
  <2>1. CASE Holds(s)
    BY <1>5, <2>1, ReleaseType DEF Release, TypeOK
  <2>2. CASE ~Holds(s)
    BY <1>5, <2>2 DEF Release, TypeOK
  <2> QED
    BY <2>1, <2>2
<1>6. ASSUME NEW s \in Session, NEW c \in Config, UpdateCandidate(s, c) PROVE TypeOK'
  BY <1>6 DEF UpdateCandidate, RefreshLock, TypeOK
<1>7. ASSUME NEW s \in Session, NEW n \in 1..(Keep - 1), Rollback(s, n) PROVE TypeOK'
  <2>1. Retained(latest - n) => revs[latest - n] \in Config
    BY DEF Retained, TypeOK
  <2> QED
    <3>1. \/ candidate' = revs[latest - n] /\ dirty' = TRUE /\ RefreshLock(s) /\ Retained(latest - n)
          \/ UNCHANGED <<candidate, dirty, lock>>
      BY <1>7 DEF Rollback
    <3>3. /\ mu' = "free" /\ ClearIfPending
          /\ UNCHANGED <<revVars, holder, ret, txn, audit, envVars>>
      BY <1>7 DEF Rollback
    <3>4. candidate' \in Config \cup {None} /\ dirty' \in BOOLEAN
      BY <2>1, <3>1 DEF TypeOK
    <3>5. lock' \in [holder : Session \cup {None}, idle : BOOLEAN]
      <4>1. [holder |-> s, idle |-> FALSE] \in [holder : Session \cup {None}, idle : BOOLEAN]
        OBVIOUS
      <4> QED
        BY <3>1, <4>1 DEF RefreshLock, TypeOK
    <3> QED
      BY <3>3, <3>4, <3>5, ClearIfPendingType DEF TypeOK
<1>8. CASE ReadOnly
  BY <1>8 DEF ReadOnly, TypeOK
<1>9. CASE ConfirmCommit
  BY <1>9, ClearIfPendingType DEF ConfirmCommit, TypeOK
<1>10. ASSUME NEW s \in Session, NEW conf \in BOOLEAN, NEW b \in BOOLEAN, CommitRefused(s, conf, b)
       PROVE  TypeOK'
  BY <1>10, ClearIfPendingType DEF CommitRefused, TypeOK
<1>11. ASSUME NEW s \in Session, NEW conf \in BOOLEAN, NEW b \in BOOLEAN, CommitStart(s, conf, b)
       PROVE  TypeOK'
  <2>1. Committed \in Config /\ candidate \in Config
    BY <1>11, EngineAssumption DEF CommitStart, Acceptable, Committed, TypeOK
  <2> QED
    BY <1>11, <2>1, ClearIfPendingType DEF CommitStart, TypeOK
<1>12. CASE CommitApply
  <2>1. substrate' \in [Obj -> Val]
    BY <1>12 DEF CommitApply, Applied, TypeOK, Config
  <2> QED
    BY <1>12, <2>1 DEF CommitApply, TypeOK
<1>13. NoTxn \in [sess : Session \cup {None}, confirmed : BOOLEAN, old : Config, new : Config]
  BY EngineAssumption DEF NoTxn
<1>14. CASE CommitApplyFails
  BY <1>14, <1>13 DEF CommitApplyFails, TypeOK
<1>15. CASE CommitAppend
  BY <1>15, AppendFacts DEF CommitAppend, TypeOK
<1>16. CASE CommitPrune
  BY <1>16, PruneFacts DEF CommitPrune, TypeOK
<1>17. CASE CommitSetConfirmed
  <2>1. latest - 1 \in Nat
    BY DEF TypeOK
  <2> QED
    BY <1>17, <2>1 DEF CommitSetConfirmed, TypeOK
<1>18. CASE CommitFinish
  <2>1. dirty' \in BOOLEAN
    BY <1>18 DEF CommitFinish
  <2>2. audit' \in [intent : BOOLEAN, results : Nat]
    BY <1>18 DEF CommitFinish, TypeOK
  <2> QED
    BY <1>18, <1>13, <2>1, <2>2 DEF CommitFinish, TypeOK
<1>19. CASE CommitStoreFails
  BY <1>19, <1>13 DEF CommitStoreFails, StoreFails, TypeOK
<1>20. CASE Clock
  <2>1. CASE IdleElapses
    <3>1. lock' \in [holder : Session \cup {None}, idle : BOOLEAN]
      BY <2>1 DEF IdleElapses, TypeOK
    <3> QED
      BY <2>1, <3>1 DEF IdleElapses, TypeOK
  <2>2. CASE DeadlinePasses
    <3>1. pending' \in [base : Nat, expired : BOOLEAN] /\ timer' \in {"off", "armed", "due"}
      BY <2>2 DEF DeadlinePasses, TypeOK
    <3> QED
      BY <2>2, <3>1 DEF DeadlinePasses, TypeOK
  <2>3. CASE TimerBeforeDeadline
    BY <2>3 DEF TimerBeforeDeadline, TypeOK
  <2> QED
    BY <1>20, <2>1, <2>2, <2>3 DEF Clock
<1>21. CASE OnConfirmedTimer
  <2>1. CASE Expired
    BY <1>21, <2>1, RollbackType DEF OnConfirmedTimer, TypeOK
  <2>2. CASE ~Expired
    BY <1>21, <2>2 DEF OnConfirmedTimer, TypeOK
  <2> QED
    BY <2>1, <2>2
<1>22. CASE Crash
  <2>1. dirty' \in BOOLEAN
    BY <1>22 DEF Crash
  <2>2. audit' \in [intent : BOOLEAN, results : Nat]
    BY <1>22 DEF Crash, NoAudit
  <2> QED
    BY <1>22, <1>13, <2>1, <2>2 DEF Crash, TypeOK
<1>23. CASE Restart
  <2>1. CASE Expired
    BY <1>23, <2>1, RollbackType DEF Restart, TypeOK
  <2>2. CASE ~Expired
    BY <1>23, <2>2 DEF Restart, TypeOK
  <2> QED
    BY <2>1, <2>2
<1>24. CASE UNCHANGED vars
  BY <1>24 DEF vars, TypeOK
<1> QED
  BY <1>1, <1>2, <1>3, <1>4, <1>5, <1>6, <1>7, <1>8, <1>9, <1>10, <1>11, <1>12, <1>14, <1>15,
     <1>16, <1>17, <1>18, <1>19, <1>20, <1>21, <1>22, <1>23, <1>24 DEF Next, Serve, CommitStep

\* Every reachable state is well typed: the revision table is a gap-free range
\* of configurations that ends in the committed one, so the arithmetic newRev-1
\* and rev-n of the code names a stored revision or one that was pruned.
THEOREM TypeCorrect == Spec => []TypeOK
<1>1. Init => TypeOK
  BY InitTypeOK
<1>2. TypeOK /\ [Next]_vars => TypeOK'
  BY TypeStep
<1> QED
  BY <1>1, <1>2, PTL DEF Spec

-----------------------------------------------------------------------------
(* The inductive invariant *)

\* A rollback appends its base or leaves the table alone.
LEMMA RollbackFacts ==
  ASSUME TypeOK, NEW next, DoConfirmedRollback(next)
  PROVE  \/ /\ mu' = "clear" /\ Retained(pending.base) /\ UNCHANGED <<pending, faults>>
            /\ AppendRevision(revs[pending.base]) /\ revs[pending.base] \in Config
         \/ /\ mu' = next /\ UNCHANGED revVars
            /\ pending' \in {pending, NoPending}
BY DEF DoConfirmedRollback, Retained, TypeOK

LEMMA LockStep == TypeOK /\ CandidateHoldsLock /\ [Next]_vars => CandidateHoldsLock'
<1> SUFFICES ASSUME TypeOK, CandidateHoldsLock, [Next]_vars PROVE CandidateHoldsLock'
  OBVIOUS
<1> USE DEF memVars, CandidateHoldsLock
<1>1. CASE UNCHANGED <<lock, memVars>>
  BY <1>1
<1>2. CASE candidate' = None
  BY <1>2
<1>3. CASE SweepLock
  BY <1>2, <1>3 DEF SweepLock, ReleaseLocked
<1>4. CASE ClearAfterRollback
  BY <1>4 DEF ClearAfterRollback
<1>5. ASSUME NEW s \in Session, Edit(s) PROVE CandidateHoldsLock'
  <2>1. s # None
    BY EngineAssumption
  <2>2. CASE lock.holder \notin {None, s}
    BY <1>5, <2>2 DEF Edit
  <2>3. CASE lock.holder \in {None, s}
    <3>1. lock'.holder = s
      BY <1>5, <2>3 DEF Edit, RefreshLock
    <3>2. \/ lock.holder # None /\ UNCHANGED memVars
          \/ holder' = s
      BY <1>5, <2>3 DEF Edit
    <3> QED
      BY <2>1, <2>3, <3>1, <3>2
  <2> QED
    BY <2>2, <2>3
<1>6. ASSUME NEW s \in Session, Release(s) PROVE CandidateHoldsLock'
  BY <1>6, <1>1, <1>2 DEF Release, ReleaseLocked
<1>7. ASSUME NEW s \in Session, NEW c \in Config, UpdateCandidate(s, c) PROVE CandidateHoldsLock'
  BY <1>7, EngineAssumption DEF UpdateCandidate, Holds, RefreshLock
<1>8. ASSUME NEW s \in Session, NEW n \in 1..(Keep - 1), Rollback(s, n) PROVE CandidateHoldsLock'
  <2>1. s # None /\ holder = s /\ holder' = s
    BY <1>8, EngineAssumption DEF Rollback, Holds
  <2>2. RefreshLock(s) \/ UNCHANGED <<candidate, lock>>
    BY <1>8 DEF Rollback
  <2> QED
    BY <2>1, <2>2 DEF RefreshLock
<1>9. CASE CommitFinish
  BY <1>9 DEF CommitFinish
<1>10. CASE IdleElapses
  BY <1>10 DEF IdleElapses, TypeOK
<1>11. CASE Crash
  BY <1>2, <1>11 DEF Crash
<1>12. CASE UNCHANGED vars
  BY <1>12 DEF vars
<1>13. ASSUME SweepConfirmed \/ ReadOnly \/ ConfirmCommit PROVE CandidateHoldsLock'
  BY <1>1, <1>13 DEF SweepConfirmed, ReadOnly, ConfirmCommit
<1>14. ASSUME NEW s \in Session, NEW conf \in BOOLEAN, NEW b \in BOOLEAN,
              CommitRefused(s, conf, b) \/ CommitStart(s, conf, b)
       PROVE  CandidateHoldsLock'
  BY <1>1, <1>14 DEF CommitRefused, CommitStart
<1>15. ASSUME \/ CommitApply \/ CommitApplyFails \/ CommitAppend \/ CommitPrune
              \/ CommitSetConfirmed \/ CommitStoreFails
       PROVE  CandidateHoldsLock'
  BY <1>1, <1>15 DEF CommitApply, CommitApplyFails, CommitAppend, CommitPrune,
                     CommitSetConfirmed, CommitStoreFails
<1>16. ASSUME DeadlinePasses \/ TimerBeforeDeadline \/ OnConfirmedTimer \/ Restart
       PROVE  CandidateHoldsLock'
  BY <1>1, <1>16 DEF DeadlinePasses, TimerBeforeDeadline, OnConfirmedTimer, Restart
<1> QED
  BY <1>3, <1>4, <1>5, <1>6, <1>7, <1>8, <1>9, <1>10, <1>11, <1>12, <1>13, <1>14, <1>15, <1>16
  DEF Next, Serve, CommitStep, Clock

LEMMA HistoryStep == TypeOK /\ HistoryRetained /\ [Next]_vars => HistoryRetained'
<1> SUFFICES ASSUME TypeOK, HistoryRetained, [Next]_vars PROVE HistoryRetained'
  OBVIOUS
<1>1. CASE UNCHANGED revVars
  BY <1>1 DEF HistoryRetained, revVars
<1>2. ASSUME NEW c \in Config, AppendRevision(c) PROVE HistoryRetained'
  BY <1>2, EngineAssumption DEF HistoryRetained, AppendRevision, TypeOK
<1>3. CASE PruneRevisions
  BY <1>3, PruneFacts, EngineAssumption DEF HistoryRetained, TypeOK
<1>4. ASSUME NEW next, DoConfirmedRollback(next) PROVE HistoryRetained'
  BY <1>1, <1>2, <1>4, RollbackFacts
<1>5. CASE SweepConfirmed
  BY <1>1, <1>4, <1>5 DEF SweepConfirmed
<1>6. CASE OnConfirmedTimer
  BY <1>1, <1>4, <1>6 DEF OnConfirmedTimer
<1>7. CASE Restart
  BY <1>1, <1>4, <1>7 DEF Restart
<1>8. CASE CommitAppend
  BY <1>2, <1>8 DEF CommitAppend, TypeOK
<1>9. CASE CommitPrune
  BY <1>3, <1>9 DEF CommitPrune
<1>10. CASE Serve
  BY <1>1, <1>10 DEF Serve, Edit, Release, UpdateCandidate, Rollback, ReadOnly, ConfirmCommit,
                     CommitRefused, CommitStart
<1>11. CASE CommitApply \/ CommitApplyFails \/ CommitSetConfirmed \/ CommitFinish \/ CommitStoreFails
  BY <1>1, <1>11 DEF CommitApply, CommitApplyFails, CommitSetConfirmed, CommitFinish, CommitStoreFails
<1>12. CASE SweepLock \/ ClearAfterRollback \/ Clock \/ Crash
  BY <1>1, <1>12 DEF SweepLock, ClearAfterRollback, Clock, IdleElapses, DeadlinePasses,
                     TimerBeforeDeadline, Crash
<1>13. CASE UNCHANGED vars
  BY <1>1, <1>13 DEF vars
<1> QED
  BY <1>5, <1>6, <1>7, <1>8, <1>9, <1>10, <1>11, <1>12, <1>13 DEF Next, CommitStep

\* Outside a commit every step leaves the rows of the last one as they are.
LEMMA OutsideCommit ==
  ASSUME TypeOK, [Next]_vars, ~CommitStep
  PROVE  \/ mu' \notin CommitPhase /\ audit' = NoAudit
         \/ mu' \notin CommitPhase /\ mu \notin CommitPhase /\ UNCHANGED audit
         \/ \E s \in Session, conf, b \in BOOLEAN : CommitStart(s, conf, b)
         \/ UNCHANGED vars
<1> USE DEF CommitPhase
<1>1. ASSUME NEW next \in {"free", "sweepLock"}, DoConfirmedRollback(next)
      PROVE  mu' \notin CommitPhase
  BY <1>1 DEF DoConfirmedRollback
<1>2. CASE SweepConfirmed
  BY <1>1, <1>2 DEF SweepConfirmed
<1>3. CASE OnConfirmedTimer
  BY <1>1, <1>3 DEF OnConfirmedTimer
<1>4. CASE Restart
  BY <1>1, <1>4 DEF Restart
<1>5. CASE SweepLock \/ Crash
  BY <1>5 DEF SweepLock, Crash
<1>6. CASE ClearAfterRollback
  BY <1>6 DEF ClearAfterRollback, TypeOK
<1>7. CASE Clock
  BY <1>7 DEF Clock, Quiet, IdleElapses, DeadlinePasses, TimerBeforeDeadline
<1>8. CASE Serve
  BY <1>8 DEF Serve, Edit, Release, UpdateCandidate, Rollback, ReadOnly, ConfirmCommit, CommitRefused
<1> QED
  BY <1>2, <1>3, <1>4, <1>5, <1>6, <1>7, <1>8 DEF Next

LEMMA IntentStep ==
  TypeOK /\ IntentPaired /\ CommitInv /\ [Next]_vars => IntentPaired'
<1> SUFFICES ASSUME TypeOK, IntentPaired, CommitInv, [Next]_vars PROVE IntentPaired'
  OBVIOUS
<1> USE DEF IntentPaired, CommitPhase
<1>1. CASE ~CommitStep
  BY <1>1, OutsideCommit DEF NoAudit, CommitStart, vars
<1>2. CASE CommitApply \/ CommitAppend \/ CommitPrune \/ CommitSetConfirmed
  BY <1>2 DEF CommitApply, CommitAppend, CommitPrune, CommitSetConfirmed
<1>3. CASE CommitApplyFails \/ CommitFinish
  <2>1. audit.results = 0
    BY <1>3 DEF CommitApplyFails, CommitFinish, CommitInv
  <2>2. audit' = [audit EXCEPT !.results = @ + 1]
    BY <1>3 DEF CommitApplyFails, CommitFinish
  <2> QED
    BY <2>1, <2>2 DEF TypeOK
<1>4. CASE CommitStoreFails
  <2>1. audit.results = 0
    BY <1>4 DEF CommitStoreFails, CommitInv
  <2>2. audit' = IF audit.intent THEN [audit EXCEPT !.results = @ + 1] ELSE audit
    BY <1>4 DEF CommitStoreFails
  <2> QED
    BY <2>1, <2>2 DEF TypeOK
<1> QED
  BY <1>1, <1>2, <1>3, <1>4 DEF CommitStep

LEMMA CommitInvStep == TypeOK /\ CommitInv /\ [Next]_vars => CommitInv'
<1> SUFFICES ASSUME TypeOK, CommitInv, [Next]_vars PROVE CommitInv'
  OBVIOUS
<1>1. CASE mu' \notin CommitPhase
  BY <1>1 DEF CommitInv, CommitPhase
<1>2. ASSUME NEW s \in Session, NEW conf \in BOOLEAN, NEW b \in BOOLEAN, CommitStart(s, conf, b)
      PROVE  CommitInv'
  <2>1. mu' = "apply" /\ txn'.old = Committed /\ txn'.new = candidate /\ audit'.results = 0
    BY <1>2 DEF CommitStart
  <2>2. dirty /\ UNCHANGED <<revVars, memVars>>
    BY <1>2 DEF CommitStart, Acceptable
  <2> QED
    BY <2>1, <2>2 DEF CommitInv, Committed, revVars, memVars
<1>3. CASE CommitApply
  <2>1. mu = "apply" /\ mu' = "append" /\ UNCHANGED <<revVars, memVars, txn, audit>>
    BY <1>3 DEF CommitApply
  <2>2. \A o \in Obj : txn.old.net[o] # txn.new.net[o] => substrate'[o] = txn.new.net[o]
    BY <1>3 DEF CommitApply, Applied
  <2> QED
    BY <2>1, <2>2 DEF CommitInv, CommitPhase, Committed, revVars, memVars
<1>4. CASE CommitAppend
  <2>1. /\ mu = "append" /\ mu' = "prune" /\ AppendRevision(txn.new)
        /\ UNCHANGED <<memVars, txn, audit, substrate>>
    BY <1>4 DEF CommitAppend, envVars
  <2>2. /\ latest' - 1 = latest /\ latest \in oldest'..latest'
        /\ revs'[latest] = revs[latest] /\ revs'[latest'] = txn.new
    BY <2>1, AppendFacts DEF TypeOK
  <2> QED
    BY <2>1, <2>2 DEF CommitInv, CommitPhase, Committed, Retained, memVars
<1>5. CASE CommitPrune
  <2>1. /\ mu = "prune" /\ mu' = (IF txn.confirmed THEN "confirm" ELSE "finish") /\ PruneRevisions
        /\ UNCHANGED <<memVars, txn, audit, substrate>>
    BY <1>5 DEF CommitPrune, envVars
  <2>2. latest - 1 \in oldest..latest /\ revs[latest - 1] = txn.old /\ revs[latest] = txn.new
    BY <2>1 DEF CommitInv, Retained, Committed
  <2>3. latest' = latest /\ latest - 1 \in oldest'..latest'
    BY <2>1, <2>2, PruneFacts DEF TypeOK
  <2>4. revs'[latest - 1] = revs[latest - 1] /\ revs'[latest] = revs[latest]
    BY <2>1, <2>3, PruneFacts DEF TypeOK
  <2> QED
    BY <2>1, <2>2, <2>3, <2>4 DEF CommitInv, CommitPhase, Committed, Retained, memVars
<1>6. CASE CommitSetConfirmed
  BY <1>6 DEF CommitSetConfirmed, CommitInv, CommitPhase, Committed, Retained, revVars, memVars, envVars
<1>7. CASE CommitApplyFails \/ CommitFinish \/ CommitStoreFails
  BY <1>1, <1>7 DEF CommitApplyFails, CommitFinish, CommitStoreFails, CommitPhase
<1>8. CASE ~CommitStep
  <2>1. CASE UNCHANGED vars
    BY <2>1 DEF vars, revVars, memVars, envVars, CommitInv, Committed, Retained
  <2> QED
    BY <1>1, <1>2, <1>8, <2>1, OutsideCommit
<1> QED
  BY <1>3, <1>4, <1>5, <1>6, <1>7, <1>8 DEF CommitStep

LEMMA CleanStep ==
  TypeOK /\ CleanCandidateIsCommitted /\ CommitInv /\ [Next]_vars => CleanCandidateIsCommitted'
<1> SUFFICES ASSUME TypeOK, CleanCandidateIsCommitted, CommitInv, [Next]_vars
             PROVE  CleanCandidateIsCommitted'
  OBVIOUS
<1> USE DEF CleanCandidateIsCommitted
<1>1. CASE UNCHANGED <<revVars, memVars>> /\ mu # "clear"
  BY <1>1 DEF revVars, memVars, Committed
<1>2. CASE mu' = "clear" \/ candidate' = None
  BY <1>2
<1>3. CASE dirty' = TRUE
  BY <1>3
<1>4. ASSUME NEW next, DoConfirmedRollback(next), UNCHANGED memVars, mu # "clear"
      PROVE  CleanCandidateIsCommitted'
  BY <1>1, <1>2, <1>4, RollbackFacts
<1>5. CASE SweepConfirmed
  BY <1>1, <1>4, <1>5 DEF SweepConfirmed
<1>6. CASE OnConfirmedTimer
  BY <1>1, <1>4, <1>6 DEF OnConfirmedTimer
<1>7. CASE Restart
  BY <1>1, <1>4, <1>7 DEF Restart
<1>8. CASE SweepLock
  BY <1>1, <1>2, <1>8 DEF SweepLock, ReleaseLocked
<1>9. CASE ClearAfterRollback
  BY <1>9 DEF ClearAfterRollback
<1>10. ASSUME NEW s \in Session, Edit(s) PROVE CleanCandidateIsCommitted'
  <2>1. UNCHANGED revVars /\ mu = "ready"
    BY <1>10 DEF Edit
  <2>2. UNCHANGED memVars \/ candidate' = Committed
    BY <1>10 DEF Edit
  <2> QED
    BY <1>1, <2>1, <2>2 DEF Committed, revVars
<1>11. ASSUME NEW s \in Session, Release(s) PROVE CleanCandidateIsCommitted'
  BY <1>1, <1>2, <1>11 DEF Release, ReleaseLocked
<1>12. ASSUME NEW s \in Session, NEW c \in Config, UpdateCandidate(s, c)
       PROVE  CleanCandidateIsCommitted'
  BY <1>3, <1>12 DEF UpdateCandidate
<1>13. ASSUME NEW s \in Session, NEW n \in 1..(Keep - 1), Rollback(s, n)
       PROVE  CleanCandidateIsCommitted'
  <2>1. UNCHANGED <<revVars, holder>> /\ mu = "ready"
    BY <1>13 DEF Rollback
  <2>2. dirty' = TRUE \/ UNCHANGED <<candidate, dirty>>
    BY <1>13 DEF Rollback
  <2> QED
    BY <1>1, <1>3, <2>1, <2>2 DEF memVars
<1>14. CASE ReadOnly \/ ConfirmCommit
  BY <1>1, <1>14 DEF ReadOnly, ConfirmCommit
<1>15. ASSUME NEW s \in Session, NEW conf \in BOOLEAN, NEW b \in BOOLEAN,
              CommitRefused(s, conf, b) \/ CommitStart(s, conf, b)
       PROVE  CleanCandidateIsCommitted'
  BY <1>1, <1>15 DEF CommitRefused, CommitStart
<1>16. CASE CommitAppend \/ CommitPrune
  <2>1. dirty /\ UNCHANGED memVars
    BY <1>16 DEF CommitAppend, CommitPrune, CommitInv, CommitPhase
  <2> QED
    BY <1>3, <2>1 DEF memVars
<1>17. CASE CommitFinish
  <2>1. candidate = Committed /\ UNCHANGED <<revVars, candidate>>
    BY <1>17 DEF CommitFinish, CommitInv, CommitPhase
  <2> QED
    BY <2>1 DEF Committed, revVars
<1>18. CASE CommitApply \/ CommitApplyFails \/ CommitSetConfirmed \/ CommitStoreFails
  BY <1>1, <1>18 DEF CommitApply, CommitApplyFails, CommitSetConfirmed, CommitStoreFails
<1>19. CASE Clock
  BY <1>1, <1>19 DEF Clock, Quiet, IdleElapses, DeadlinePasses, TimerBeforeDeadline
<1>20. CASE Crash
  BY <1>2, <1>20 DEF Crash
<1>21. CASE UNCHANGED vars
  BY <1>21 DEF vars, revVars, memVars, Committed
<1> QED
  BY <1>5, <1>6, <1>7, <1>8, <1>9, <1>10, <1>11, <1>12, <1>13, <1>14, <1>15, <1>16, <1>17, <1>18,
     <1>19, <1>20, <1>21 DEF Next, Serve, CommitStep

\* IInv holds initially and is preserved by every step, faults and crashes included.
THEOREM InductiveInvariant == Spec => []IInv
<1>1. Init => IInv
  <2> SUFFICES ASSUME Init PROVE IInv
    OBVIOUS
  <2>1. CandidateHoldsLock /\ CleanCandidateIsCommitted /\ HistoryRetained
    BY DEF Init, CandidateHoldsLock, CleanCandidateIsCommitted, HistoryRetained
  <2>2. IntentPaired /\ CommitInv
    BY DEF Init, IntentPaired, CommitInv, CommitPhase, NoAudit
  <2> QED
    BY <2>1, <2>2, InitTypeOK DEF IInv
<1>2. IInv /\ [Next]_vars => IInv'
  BY TypeStep, LockStep, CleanStep, IntentStep, HistoryStep, CommitInvStep DEF IInv
<1> QED
  BY <1>1, <1>2, PTL DEF Spec

\* Between a candidate in memory and the lock row in SQLite there is never a
\* disagreement on the holder, whatever releases, timeouts and restarts occur.
THEOREM CandidateLocked == Spec => []CandidateHoldsLock
<1>1. IInv => CandidateHoldsLock
  BY DEF IInv
<1> QED
  BY <1>1, InductiveInvariant, PTL

\* A clean candidate is the committed configuration, so refusing to commit it and
\* releasing its lock lose nothing.
THEOREM CleanCandidate == Spec => []CleanCandidateIsCommitted
<1>1. IInv => CleanCandidateIsCommitted
  BY DEF IInv
<1> QED
  BY <1>1, InductiveInvariant, PTL

\* Every high-risk commit that ends leaves one result row beside its intent row,
\* whichever statement fails.
THEOREM IntentHasResult == Spec => []IntentPaired
<1>1. IInv => IntentPaired
  BY DEF IInv
<1> QED
  BY <1>1, InductiveInvariant, PTL

\* Pruning never removes one of the last Keep revisions.
THEOREM HistoryKept == Spec => []HistoryRetained
<1>1. IInv => HistoryRetained
  BY DEF IInv
<1> QED
  BY <1>1, InductiveInvariant, PTL

\* What is stored has been applied: the revision a commit stores differs from the
\* one before it only in settings the substrate has already taken.
THEOREM AppliedFirst == Spec => []AppliedBeforeStored
<1>1. IInv => AppliedBeforeStored
  BY DEF IInv, CommitInv, AppliedBeforeStored
<1> QED
  BY <1>1, InductiveInvariant, PTL

-----------------------------------------------------------------------------
(* Pending confirmations, when ClearConfirmed does not fail *)

\* A request can then be cleared whenever an operation wants to.
LEMMA ClearFacts ==
  ASSUME ClearReliable
  PROVE  /\ ClearConfirmedLocked => pending' = NoPending
         /\ ClearIfPending => pending' = NoPending \/ (~IsPending /\ UNCHANGED pending)
BY DEF ClearReliable, ClearConfirmedLocked, ClearIfPending, StoreFails

\* Steps that touch neither the table nor the request, and do not enter a phase
\* PendingInv speaks of, preserve it.
LEMMA PendingUntouched ==
  ASSUME PendingInv, UNCHANGED revVars, pending'.base = pending.base,
         mu' \in {mu, "down", "free", "sweepLock", "ready", "finish"}
  PROVE  PendingInv'
BY DEF PendingInv, PendingBaseRetained, IsPending, Retained, Committed, CommitPhase, revVars

LEMMA PendingGone ==
  ASSUME UNCHANGED revVars, ~(IsPending'), mu' # "clear"
  PROVE  PendingInv'
BY DEF PendingInv, PendingBaseRetained

LEMMA PendingStep ==
  ASSUME ClearReliable, TypeOK, CommitInv, PendingInv, [Next]_vars
  PROVE  PendingInv'
<1> USE DEF IsPending
<1>1. NoPending.base = 0
  BY DEF NoPending
<1>2. ASSUME NEW next \in {"free", "sweepLock"}, DoConfirmedRollback(next), IsPending
      PROVE  PendingInv'
  <2>1. CASE /\ mu' = "clear" /\ Retained(pending.base) /\ UNCHANGED <<pending, faults>>
             /\ AppendRevision(revs[pending.base]) /\ revs[pending.base] \in Config
    <3>1. /\ oldest' = oldest /\ latest' = latest + 1
          /\ revs'[latest'] = revs[pending.base] /\ revs'[pending.base] = revs[pending.base]
      BY <2>1, AppendFacts DEF Retained
    <3>2. pending.base \in oldest'..latest' /\ pending.base < latest'
      BY <2>1, <3>1 DEF Retained, TypeOK
    <3> QED
      BY <1>2, <2>1, <3>1, <3>2 DEF PendingInv, PendingBaseRetained, Retained, Committed, CommitPhase
  <2>2. CASE mu' = next /\ UNCHANGED revVars /\ pending' \in {pending, NoPending}
    BY <1>1, <2>2, PendingUntouched, PendingGone
  <2> QED
    BY <1>2, <2>1, <2>2, RollbackFacts
<1>3. CASE SweepConfirmed
  <2>1. CASE Expired
    BY <1>2, <1>3, <2>1 DEF SweepConfirmed, Expired
  <2>2. CASE ~Expired
    BY <1>3, <2>2, PendingUntouched DEF SweepConfirmed
  <2> QED
    BY <2>1, <2>2
<1>4. CASE OnConfirmedTimer
  <2>1. CASE Expired
    BY <1>2, <1>4, <2>1 DEF OnConfirmedTimer, Expired
  <2>2. CASE ~Expired
    BY <1>4, <2>2, PendingUntouched DEF OnConfirmedTimer
  <2> QED
    BY <2>1, <2>2
<1>5. CASE Restart
  <2>1. CASE Expired
    BY <1>2, <1>5, <2>1 DEF Restart, Expired
  <2>2. CASE ~Expired
    BY <1>5, <2>2, PendingUntouched DEF Restart
  <2> QED
    BY <2>1, <2>2
<1>6. CASE SweepLock
  BY <1>6, PendingUntouched DEF SweepLock
<1>7. CASE ClearAfterRollback
  BY <1>1, <1>7, ClearFacts, PendingGone DEF ClearAfterRollback, TypeOK
<1>8. ASSUME ClearIfPending, UNCHANGED revVars, mu = "ready", mu' \in {"free", "apply"}
      PROVE  PendingInv'
  <2>1. ~(IsPending')
    BY <1>1, <1>8, ClearFacts
  <2> QED
    BY <1>8, <2>1, PendingGone
<1>9. ASSUME NEW s \in Session, Edit(s) \/ Release(s) PROVE PendingInv'
  BY <1>9, PendingUntouched DEF Edit, Release
<1>10. ASSUME NEW s \in Session, NEW c \in Config, UpdateCandidate(s, c) PROVE PendingInv'
  BY <1>10, PendingUntouched DEF UpdateCandidate
<1>11. ASSUME NEW s \in Session, NEW n \in 1..(Keep - 1), Rollback(s, n) PROVE PendingInv'
  BY <1>8, <1>11 DEF Rollback
<1>12. CASE ReadOnly
  BY <1>12, PendingUntouched DEF ReadOnly
<1>13. CASE ConfirmCommit
  BY <1>8, <1>13 DEF ConfirmCommit
<1>14. ASSUME NEW s \in Session, NEW conf \in BOOLEAN, NEW b \in BOOLEAN,
              CommitRefused(s, conf, b) \/ CommitStart(s, conf, b)
       PROVE  PendingInv'
  BY <1>8, <1>14 DEF CommitRefused, CommitStart
<1>15. CASE CommitApply
  BY <1>15, PendingGone DEF CommitApply, PendingInv, CommitPhase
<1>16. CASE CommitAppend
  BY <1>16 DEF CommitAppend, PendingInv, PendingBaseRetained, CommitPhase
<1>17. CASE CommitPrune
  BY <1>17 DEF CommitPrune, PendingInv, PendingBaseRetained, CommitPhase
<1>18. CASE CommitSetConfirmed
  <2>1. mu = "confirm" /\ mu' = "finish" /\ pending'.base = latest - 1 /\ UNCHANGED revVars
    BY <1>18 DEF CommitSetConfirmed
  <2>2. latest - 1 \in oldest..latest
    BY <2>1 DEF CommitInv, Retained
  <2> QED
    BY <2>1, <2>2 DEF PendingInv, PendingBaseRetained, Retained, CommitPhase, TypeOK, revVars
<1>19. CASE CommitApplyFails \/ CommitFinish \/ CommitStoreFails
  BY <1>19, PendingUntouched DEF CommitApplyFails, CommitFinish, CommitStoreFails
<1>20. CASE IdleElapses \/ TimerBeforeDeadline
  BY <1>20, PendingUntouched DEF IdleElapses, TimerBeforeDeadline
<1>21. CASE DeadlinePasses
  <2>1. pending'.base = pending.base
    BY <1>21 DEF DeadlinePasses, TypeOK
  <2> QED
    BY <1>21, <2>1, PendingUntouched DEF DeadlinePasses
<1>22. CASE Crash
  BY <1>22, PendingUntouched DEF Crash
<1>23. CASE UNCHANGED vars
  BY <1>23, PendingUntouched DEF vars
<1> QED
  BY <1>3, <1>4, <1>5, <1>6, <1>7, <1>9, <1>10, <1>11, <1>12, <1>13, <1>14, <1>15, <1>16, <1>17,
     <1>18, <1>19, <1>20, <1>21, <1>22, <1>23 DEF Next, Serve, CommitStep, Clock

THEOREM PendingInvariant ==
  ASSUME ClearReliable
  PROVE  Spec => []PendingInv
<1>1. Init => PendingInv
  BY DEF Init, PendingInv, PendingBaseRetained, IsPending, NoPending, CommitPhase
<1>2. IInv /\ PendingInv /\ [Next]_vars => PendingInv'
  BY ClearReliable, PendingStep DEF IInv
<1> QED
  BY <1>1, <1>2, InductiveInvariant, PTL DEF Spec

\* What a pending confirmation restores is always still in the table.
THEOREM BaseRetained ==
  ASSUME ClearReliable
  PROVE  Spec => []PendingBaseRetained
<1>1. PendingInv => PendingBaseRetained
  BY DEF PendingInv
<1> QED
  BY <1>1, PendingInvariant, PTL

-----------------------------------------------------------------------------
(* The refinement of ConfirmedCommit *)

\* What is pending can be looked up, and is a configuration.
LEMMA FallbackFacts ==
  ASSUME TypeOK, CommitInv, PendingInv
  PROVE  /\ Committed \in Config /\ None \notin Config
         /\ IsPending => Fallback = revs[pending.base] /\ Fallback \in Config
         /\ mu \in {"apply", "append"} => Fallback = None
         /\ mu \in {"prune", "confirm"} =>
              Fallback = (IF txn.confirmed THEN txn.old ELSE None) /\ txn.old \in Config
         /\ ~IsPending /\ mu \notin {"prune", "confirm"} => Fallback = None
BY EngineAssumption DEF Fallback, Committed, TypeOK, CommitInv, PendingInv, PendingBaseRetained,
   Retained, CommitPhase

\* A step that leaves the table and the request, outside the two phases in which
\* the fallback is a local of Commit, is a stutter.
LEMMA StutterStep ==
  ASSUME UNCHANGED revVars, pending'.base = pending.base,
         mu \notin {"prune", "confirm"}, mu' \notin {"prune", "confirm"}
  PROVE  UNCHANGED CC!vars
BY DEF CC!vars, Fallback, IsPending, Committed, revVars

\* A step after which nothing is awaited settles the commit, or is a stutter.
LEMMA SettleStep ==
  ASSUME UNCHANGED revVars, ~(IsPending'), mu' \notin {"prune", "confirm"}
  PROVE  [CC!Next]_CC!vars
<1>1. Committed' = Committed /\ Fallback' = None
  BY DEF Committed, Fallback, revVars
<1> QED
  BY <1>1 DEF CC!Next, CC!Settle, CC!vars

LEMMA RollbackReverts ==
  ASSUME TypeOK, CommitInv, PendingInv, IsPending, mu \in {"free", "down"},
         NEW next \in {"free", "sweepLock"}, DoConfirmedRollback(next)
  PROVE  [CC!Next]_CC!vars
<1>1. CASE /\ mu' = "clear" /\ Retained(pending.base) /\ UNCHANGED <<pending, faults>>
           /\ AppendRevision(revs[pending.base]) /\ revs[pending.base] \in Config
  <2>1. revs'[latest'] = revs[pending.base] /\ revs'[pending.base] = revs[pending.base]
    BY <1>1, AppendFacts DEF Retained
  <2>2. Fallback = revs[pending.base] /\ Fallback # None
    BY FallbackFacts
  <2>3. Fallback' = Fallback /\ Committed' = Fallback
    BY <1>1, <2>1, <2>2 DEF Fallback, IsPending, Committed
  <2> QED
    BY <2>2, <2>3 DEF CC!Next, CC!Revert
<1>2. CASE mu' = next /\ UNCHANGED revVars /\ pending' = pending
  BY <1>2, StutterStep
<1>3. CASE mu' = next /\ UNCHANGED revVars /\ pending' = NoPending
  BY <1>3, SettleStep DEF NoPending, IsPending
<1> QED
  BY <1>1, <1>2, <1>3, RollbackFacts

LEMMA RefinementStep ==
  ASSUME ClearReliable, TypeOK, CommitInv, PendingInv, [Next]_vars
  PROVE  [CC!Next]_CC!vars
<1>1. CASE SweepConfirmed
  <2>1. CASE Expired
    BY <1>1, <2>1, RollbackReverts DEF SweepConfirmed, Expired
  <2>2. CASE ~Expired
    BY <1>1, <2>2, StutterStep DEF SweepConfirmed
  <2> QED
    BY <2>1, <2>2
<1>2. CASE OnConfirmedTimer
  <2>1. CASE Expired
    BY <1>2, <2>1, RollbackReverts DEF OnConfirmedTimer, Expired
  <2>2. CASE ~Expired
    BY <1>2, <2>2, StutterStep DEF OnConfirmedTimer
  <2> QED
    BY <2>1, <2>2
<1>3. CASE Restart
  <2>1. CASE Expired
    BY <1>3, <2>1, RollbackReverts DEF Restart, Expired
  <2>2. CASE ~Expired
    BY <1>3, <2>2, StutterStep DEF Restart
  <2> QED
    BY <2>1, <2>2
<1>4. CASE SweepLock
  BY <1>4, StutterStep DEF SweepLock
<1>5. CASE ClearAfterRollback
  BY <1>5, ClearFacts, SettleStep DEF ClearAfterRollback, TypeOK, IsPending, NoPending
<1>6. ASSUME ClearIfPending, UNCHANGED revVars, mu = "ready", mu' \in {"free", "apply"}
      PROVE  [CC!Next]_CC!vars
  <2>1. ~(IsPending')
    BY <1>6, ClearFacts DEF IsPending, NoPending
  <2> QED
    BY <1>6, <2>1, SettleStep
<1>7. ASSUME NEW s \in Session, Edit(s) \/ Release(s) PROVE [CC!Next]_CC!vars
  BY <1>7, StutterStep DEF Edit, Release
<1>8. ASSUME NEW s \in Session, NEW c \in Config, UpdateCandidate(s, c) PROVE [CC!Next]_CC!vars
  BY <1>8, StutterStep DEF UpdateCandidate
<1>9. ASSUME NEW s \in Session, NEW n \in 1..(Keep - 1), Rollback(s, n) PROVE [CC!Next]_CC!vars
  BY <1>6, <1>9 DEF Rollback
<1>10. CASE ReadOnly
  BY <1>10, StutterStep DEF ReadOnly
<1>11. CASE ConfirmCommit
  BY <1>6, <1>11 DEF ConfirmCommit
<1>12. ASSUME NEW s \in Session, NEW conf \in BOOLEAN, NEW b \in BOOLEAN,
              CommitRefused(s, conf, b) \/ CommitStart(s, conf, b)
       PROVE  [CC!Next]_CC!vars
  BY <1>6, <1>12 DEF CommitRefused, CommitStart
<1>13. CASE CommitApply \/ CommitApplyFails \/ CommitFinish
  BY <1>13, StutterStep DEF CommitApply, CommitApplyFails, CommitFinish
<1>14. CASE CommitAppend
  <2>1. mu = "append" /\ mu' = "prune" /\ AppendRevision(txn.new) /\ UNCHANGED <<pending, txn>>
    BY <1>14 DEF CommitAppend
  <2>2. txn.new \in Config /\ Fallback = None /\ ~IsPending /\ txn.old = Committed
    BY <2>1, FallbackFacts DEF TypeOK, CommitInv, PendingInv, CommitPhase
  <2>3. Committed' = txn.new
    BY <2>1, <2>2, AppendFacts DEF Committed
  <2>4. Fallback' \in {None, Committed}
    BY <2>1, <2>2 DEF Fallback, IsPending
  <2> QED
    BY <2>2, <2>3, <2>4 DEF CC!Next, CC!Commit
<1>15. CASE CommitPrune
  <2>1. /\ mu = "prune" /\ mu' = (IF txn.confirmed THEN "confirm" ELSE "finish")
        /\ PruneRevisions /\ UNCHANGED <<pending, txn>>
    BY <1>15 DEF CommitPrune
  <2>2. Committed' = Committed
    <3>1. latest' = latest /\ latest' \in oldest'..latest'
      BY <2>1, PruneFacts DEF TypeOK
    <3> QED
      BY <2>1, <3>1, PruneFacts DEF Committed
  <2>3. ~IsPending /\ Fallback = (IF txn.confirmed THEN txn.old ELSE None)
    BY <2>1, FallbackFacts DEF PendingInv, CommitPhase
  <2>4. Fallback' = Fallback
    BY <2>1, <2>3 DEF Fallback, IsPending
  <2> QED
    BY <2>2, <2>4 DEF CC!vars
<1>16. CASE CommitSetConfirmed
  <2>1. /\ mu = "confirm" /\ mu' = "finish" /\ pending'.base = latest - 1
        /\ UNCHANGED <<revVars, txn>>
    BY <1>16 DEF CommitSetConfirmed
  <2>2. txn.confirmed /\ Retained(latest - 1) /\ revs[latest - 1] = txn.old
    BY <2>1 DEF CommitInv
  <2>3. Fallback = txn.old /\ Committed' = Committed
    BY <2>1, <2>2, FallbackFacts DEF Committed, revVars
  <2>4. IsPending' /\ Fallback' = revs[latest - 1]
    BY <2>1, <2>2 DEF Fallback, IsPending, Retained, TypeOK, revVars
  <2> QED
    BY <2>2, <2>3, <2>4 DEF CC!vars
<1>17. CASE CommitStoreFails
  <2>1. UNCHANGED <<revVars, pending>> /\ mu' = "free" /\ mu \in {"append", "prune", "confirm"}
    BY <1>17 DEF CommitStoreFails
  <2>2. ~(IsPending')
    BY <2>1 DEF PendingInv, CommitPhase, IsPending
  <2> QED
    BY <2>1, <2>2, SettleStep
<1>18. CASE IdleElapses \/ TimerBeforeDeadline
  BY <1>18, StutterStep DEF IdleElapses, TimerBeforeDeadline, Quiet
<1>19. CASE DeadlinePasses
  <2>1. pending'.base = pending.base
    BY <1>19 DEF DeadlinePasses, TypeOK
  <2> QED
    BY <1>19, <2>1, StutterStep DEF DeadlinePasses, Quiet
<1>20. CASE Crash
  <2>1. UNCHANGED <<revVars, pending>> /\ mu' = "down"
    BY <1>20 DEF Crash
  <2>2. CASE mu \in {"prune", "confirm"}
    <3>1. ~(IsPending')
      BY <2>1, <2>2 DEF PendingInv, CommitPhase, IsPending
    <3> QED
      BY <2>1, <3>1, SettleStep
  <2>3. CASE mu \notin {"prune", "confirm"}
    BY <2>1, <2>3, StutterStep
  <2> QED
    BY <2>2, <2>3
<1>21. CASE UNCHANGED vars
  BY <1>21 DEF vars, revVars, CC!vars, Fallback, IsPending, Committed
<1> QED
  BY <1>1, <1>2, <1>3, <1>4, <1>5, <1>7, <1>8, <1>9, <1>10, <1>11, <1>12, <1>13, <1>14, <1>15,
     <1>16, <1>17, <1>18, <1>19, <1>20, <1>21 DEF Next, Serve, CommitStep, Clock

\* The engine keeps the promise of "commit confirmed": seen as one committed
\* configuration and one to fall back to, it only ever commits, settles, or
\* returns to exactly the configuration a commit replaced.
THEOREM Refinement ==
  ASSUME ClearReliable
  PROVE  Spec => ImplementsConfirmedCommit
<1>1. Init => CC!Init
  BY DEF Init, CC!Init, Committed, Fallback, IsPending, NoPending
<1>2. IInv /\ PendingInv /\ [Next]_vars => [CC!Next]_CC!vars
  BY ClearReliable, RefinementStep DEF IInv
<1> QED
  BY <1>1, <1>2, InductiveInvariant, PendingInvariant, PTL DEF Spec, ImplementsConfirmedCommit, CC!Spec

-----------------------------------------------------------------------------
(* A late confirmation, when the rollback's append does not fail either *)

LEMMA SweptStep ==
  ASSUME ClearReliable, AppendReliable, TypeOK, PendingInv, SweptInv, [Next]_vars
  PROVE  SweptInv'
<1>1. CASE mu' \notin {"sweepLock", "ready"}
  BY <1>1 DEF SweptInv
<1>2. CASE ~(IsPending')
  BY <1>2 DEF SweptInv, Expired
<1>3. CASE SweepConfirmed
  <2>1. CASE Expired
    <3>1. Retained(pending.base)
      BY <2>1 DEF Expired, PendingInv, PendingBaseRetained
    <3>2. mu' = "clear"
      BY <1>3, <2>1, <3>1, AppendReliable DEF SweepConfirmed, DoConfirmedRollback, StoreFails, AppendReliable
    <3> QED
      BY <1>1, <3>2
  <2>2. CASE ~Expired
    BY <1>3, <2>2 DEF SweepConfirmed, SweptInv, Expired, IsPending
  <2> QED
    BY <2>1, <2>2
<1>4. CASE SweepLock
  BY <1>4 DEF SweepLock, SweptInv, Expired, IsPending
<1>5. CASE ClearAfterRollback
  BY <1>2, <1>5, ClearFacts DEF ClearAfterRollback, TypeOK, IsPending, NoPending
<1>6. ASSUME NEW next, next = "free", DoConfirmedRollback(next) PROVE SweptInv'
  BY <1>1, <1>6 DEF DoConfirmedRollback
<1>7. CASE OnConfirmedTimer
  BY <1>1, <1>6, <1>7 DEF OnConfirmedTimer
<1>8. CASE Restart
  BY <1>1, <1>6, <1>8 DEF Restart
<1>9. CASE Serve
  BY <1>1, <1>9 DEF Serve, Edit, Release, UpdateCandidate, Rollback, ReadOnly, ConfirmCommit,
                    CommitRefused, CommitStart
<1>10. CASE CommitStep
  BY <1>1, <1>10 DEF CommitStep, CommitApply, CommitApplyFails, CommitAppend, CommitPrune,
                     CommitSetConfirmed, CommitFinish, CommitStoreFails
<1>11. CASE Clock
  BY <1>1, <1>11 DEF Clock, Quiet, IdleElapses, DeadlinePasses, TimerBeforeDeadline
<1>12. CASE Crash
  BY <1>1, <1>12 DEF Crash
<1>13. CASE UNCHANGED vars
  BY <1>13 DEF vars, SweptInv, Expired, IsPending
<1> QED
  BY <1>3, <1>4, <1>5, <1>7, <1>8, <1>9, <1>10, <1>11, <1>12, <1>13 DEF Next

\* An overdue request only disappears at the end of the rollback: no confirm,
\* commit or rollback n that arrives after the deadline can still keep the change.
THEOREM LateConfirm ==
  ASSUME ClearReliable, AppendReliable
  PROVE  Spec => LateConfirmRefused
<1>1. Init => SweptInv
  BY DEF Init, SweptInv
<1>2. IInv /\ PendingInv /\ SweptInv /\ [Next]_vars => SweptInv'
  BY ClearReliable, AppendReliable, SweptStep DEF IInv
<1>3. IInv /\ PendingInv /\ SweptInv /\ [Next]_vars =>
        [Expired /\ pending'.base = 0 => mu = "clear"]_vars
  <2> SUFFICES ASSUME IInv, PendingInv, SweptInv, Next, Expired, pending'.base = 0
               PROVE  mu = "clear"
    OBVIOUS
  <2> USE DEF Expired, IsPending
  <2>1. Retained(pending.base)
    BY DEF PendingInv, PendingBaseRetained
  <2>2. mu # "ready"
    BY DEF SweptInv
  <2>3. pending' # pending
    OBVIOUS
  <2>4. ASSUME NEW next, DoConfirmedRollback(next) PROVE FALSE
    BY <2>1, <2>3, <2>4 DEF DoConfirmedRollback
  <2>5. ~SweepConfirmed /\ ~OnConfirmedTimer /\ ~Restart
    BY <2>3, <2>4 DEF SweepConfirmed, OnConfirmedTimer, Restart
  <2>6. ~SweepLock /\ ~Crash
    BY <2>3 DEF SweepLock, Crash
  <2>7. ~Serve
    BY <2>2 DEF Serve, Edit, Release, UpdateCandidate, Rollback, ReadOnly, ConfirmCommit,
                CommitRefused, CommitStart
  <2>8. ~CommitSetConfirmed
    BY DEF CommitSetConfirmed, PendingInv, CommitPhase
  <2>9. ~CommitStep
    BY <2>3, <2>8 DEF CommitStep, CommitApply, CommitApplyFails, CommitAppend, CommitPrune,
                      CommitFinish, CommitStoreFails
  <2>10. ~Clock
    BY <2>3 DEF Clock, IdleElapses, DeadlinePasses, TimerBeforeDeadline
  <2> QED
    BY <2>5, <2>6, <2>7, <2>9, <2>10 DEF Next, ClearAfterRollback
<1> QED
  BY <1>1, <1>2, <1>3, InductiveInvariant, PendingInvariant, PTL DEF Spec, LateConfirmRefused
=============================================================================
