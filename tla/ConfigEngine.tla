---------------------------- MODULE ConfigEngine ----------------------------
(***************************************************************************)
(* The configuration transaction engine of nfvisd (internal/config:        *)
(* engine.go over store_sqlite.go).  Sessions edit one shared candidate    *)
(* under a lock kept in SQLite; a commit validates it, drives the          *)
(* substrate and stores a revision; a "commit confirmed" is rolled back    *)
(* by a timer unless it is confirmed.                                      *)
(*                                                                         *)
(* Every engine operation runs under one mutex.  `mu` is that mutex and    *)
(* the point its owner has reached, so that a crash or a failing store     *)
(* statement can fall between any two durable effects of one operation.    *)
(*                                                                         *)
(* A definition named Slip... is the one after it with a plausible mistake *)
(* in it.  No action uses it: substituted for the original it must make    *)
(* TLC find the violation of the property its comment names.               *)
(***************************************************************************)
EXTENDS Integers

CONSTANTS
  Session,     \* holder names, user@source
  Network,     \* the sessions whose source is not the local console
  Mgmt,        \* management-port settings
  Obj, Val,    \* substrate objects and the values they can be given
  Valid,       \* the configurations that pass validation
  InitCfg,     \* the configuration of an empty store
  Keep,        \* storeKeepRevisions
  None,
  FaultOps,    \* the store statements that may fail ...
  MaxFaults,   \* ... and how often in one behaviour (bound)
  MaxCrashes,  \* how often nfvisd may stop (bound)
  MaxRev,      \* no commit starts beyond this revision (bound)
  ClockSteps   \* whether the wall clock may be set back while a timer runs

Config == [mgmt : Mgmt, net : [Obj -> Val]]

ASSUME EngineAssumption ==
  /\ Network \subseteq Session
  /\ Valid \subseteq Config
  /\ InitCfg \in Config
  /\ Keep \in Nat /\ Keep >= 2
  /\ None \notin Config /\ None \notin Session
  /\ FaultOps \subseteq {"append", "prune", "setConfirmed", "clear", "release"}
  /\ MaxFaults \in Nat /\ MaxCrashes \in Nat /\ MaxRev \in Nat
  /\ ClockSteps \in BOOLEAN

VARIABLES
  revs, oldest, latest, \* table config_revisions: rows oldest..latest
  lock,                 \* table candidate_lock: holder, and idle beyond the TTL
  pending,              \* table confirmed_pending: base revision, deadline passed
  candidate, holder, dirty, \* Engine.candidate, .holder, .dirty
  timer,                \* Engine.confirmStop: "off", "armed", or "due" to run
  mu, ret,              \* mutex owner's progress, and where a rollback returns to
  txn,                  \* locals of the running Commit
  substrate,            \* what the data plane and the hypervisor really hold
  audit,                \* rows of the last high-risk commit in audit_log
  exposed,              \* history: a network session's management change is
                        \* stored and neither confirmed nor rolled back
  faults, crashes       \* how many of each have happened

revVars == <<revs, oldest, latest>>
memVars == <<candidate, holder, dirty>>
envVars == <<substrate, crashes>>
vars == <<revVars, lock, pending, memVars, timer, mu, ret, txn, audit, exposed,
          faults, envVars>>

NoLock    == [holder |-> None, idle |-> FALSE]
NoPending == [base |-> 0, expired |-> FALSE]
NoTxn     == [sess |-> None, confirmed |-> FALSE, old |-> InitCfg, new |-> InitCfg]
NoAudit   == [intent |-> FALSE, results |-> 0]

CommitPhase == {"apply", "append", "prune", "confirm", "finish"}
Phase == {"down", "free", "clear", "sweepLock", "ready"} \cup CommitPhase

TypeOK ==
  /\ oldest \in Nat \ {0} /\ latest \in Nat /\ oldest <= latest
  /\ revs \in [oldest..latest -> Config]
  /\ lock \in [holder : Session \cup {None}, idle : BOOLEAN]
  /\ pending \in [base : Nat, expired : BOOLEAN]
  /\ candidate \in Config \cup {None}
  /\ holder \in Session \cup {None}
  /\ dirty \in BOOLEAN
  /\ timer \in {"off", "armed", "due"}
  /\ mu \in Phase
  /\ ret \in {"free", "sweepLock"}
  /\ txn \in [sess : Session \cup {None}, confirmed : BOOLEAN, old : Config, new : Config]
  /\ substrate \in [Obj -> Val]
  /\ audit \in [intent : BOOLEAN, results : Nat]
  /\ exposed \in BOOLEAN
  /\ faults \in Nat /\ crashes \in Nat

\* An empty store has just been given its first revision.
Init ==
  /\ oldest = 1 /\ latest = 1 /\ revs = [r \in 1..1 |-> InitCfg]
  /\ lock = NoLock /\ pending = NoPending
  /\ candidate = None /\ holder = None /\ dirty = FALSE
  /\ timer = "off" /\ mu = "free" /\ ret = "free" /\ txn = NoTxn
  /\ substrate = InitCfg.net
  /\ audit = NoAudit /\ exposed = FALSE
  /\ faults = 0 /\ crashes = 0

-----------------------------------------------------------------------------
(* The store *)

Committed == revs[latest]
Retained(r) == r \in oldest..latest
IsPending == pending.base # 0
Expired == IsPending /\ pending.expired

\* A store statement of the named kind fails.
StoreFails(op) == op \in FaultOps /\ faults < MaxFaults /\ faults' = faults + 1

AppendRevision(c) ==
  /\ latest' = latest + 1
  /\ revs' = [r \in oldest..(latest + 1) |-> IF r = latest + 1 THEN c ELSE revs[r]]
  /\ UNCHANGED oldest

\* One revision too many is deleted (HistoryRetained).
SlipPruneOneMore ==
  /\ oldest' = IF latest - Keep + 2 > oldest THEN latest - Keep + 2 ELSE oldest
  /\ revs' = [r \in oldest'..latest |-> revs[r]]
  /\ UNCHANGED latest

PruneRevisions ==
  /\ oldest' = IF latest - Keep + 1 > oldest THEN latest - Keep + 1 ELSE oldest
  /\ revs' = [r \in oldest'..latest |-> revs[r]]
  /\ UNCHANGED latest

\* RefreshLock as its callers use it: the holder's row becomes active again.
RefreshLock(s) == lock' = [holder |-> s, idle |-> FALSE]

-----------------------------------------------------------------------------
(* Steps shared by several operations *)

Holds(s) == candidate # None /\ holder = s    \* requireHolderLocked

\* The row is deleted, the memory of the edit is not (CandidateHoldsLock).
SlipReleaseRowOnly == lock' = NoLock /\ UNCHANGED <<memVars, faults>>

\* The row is deleted only if Engine.holder still names its holder; the memory
\* of the edit is dropped in any case.
ReleaseLocked ==
  /\ candidate' = None /\ holder' = None /\ dirty' = FALSE
  /\ \/ lock' = (IF lock.holder = holder THEN NoLock ELSE lock) /\ UNCHANGED faults
     \/ StoreFails("release") /\ UNCHANGED lock

\* The error of ClearConfirmed is ignored; the timer is stopped regardless.
ClearConfirmedLocked ==
  /\ timer' = "off" /\ exposed' = FALSE
  /\ \/ pending' = NoPending /\ UNCHANGED faults
     \/ StoreFails("clear") /\ UNCHANGED pending

\* The implicit confirmation is forgotten (ImplementsConfirmedCommit).
SlipNoImplicitConfirm == UNCHANGED <<pending, timer, exposed, faults>>

ClearIfPending ==
  IF IsPending THEN ClearConfirmedLocked
               ELSE UNCHANGED <<pending, timer, exposed, faults>>

\* The base revision is appended again; ClearAfterRollback completes the
\* rollback unless the daemon stops first.  A missing base only clears the
\* request, a failing append leaves it.
DoConfirmedRollback(next) ==
  \/ /\ Retained(pending.base) /\ AppendRevision(revs[pending.base])
     /\ mu' = "clear" /\ ret' = next
     /\ UNCHANGED <<pending, faults>>
  \/ /\ Retained(pending.base) /\ StoreFails("append")
     /\ mu' = next
     /\ UNCHANGED <<revVars, pending, ret>>
  \/ /\ ~Retained(pending.base)
     /\ mu' = next
     /\ \/ pending' = NoPending /\ UNCHANGED faults
        \/ StoreFails("clear") /\ UNCHANGED pending
     /\ UNCHANGED <<revVars, ret>>

\* The open edit keeps the configuration that was rolled back
\* (CleanCandidateIsCommitted).
SlipStaleCandidate ==
  /\ mu = "clear" /\ mu' = ret /\ ret' = "free"
  /\ ClearConfirmedLocked
  /\ UNCHANGED <<revVars, lock, memVars, txn, audit, envVars>>

\* The rest of doConfirmedRollback: an open edit is moved onto the restored base.
ClearAfterRollback ==
  /\ mu = "clear"
  /\ ClearConfirmedLocked
  /\ candidate' = IF candidate # None THEN Committed ELSE None
  /\ dirty' = (dirty \/ candidate # None)
  /\ mu' = ret /\ ret' = "free"
  /\ UNCHANGED <<revVars, lock, holder, txn, audit, envVars>>

-----------------------------------------------------------------------------
(* Entering an operation: sweepLocked, in its two halves *)

\* Only the timer rolls back, operations do not look (LateConfirmRefused).
SlipNoSweep ==
  /\ mu = "free" /\ mu' = "sweepLock"
  /\ UNCHANGED <<revVars, lock, pending, memVars, timer, ret, txn, audit, exposed, faults, envVars>>

SweepConfirmed ==
  /\ mu = "free"
  /\ IF Expired
     THEN DoConfirmedRollback("sweepLock")
     ELSE mu' = "sweepLock" /\ UNCHANGED <<revVars, pending, ret, faults>>
  /\ UNCHANGED <<lock, memVars, timer, txn, audit, exposed, envVars>>

SweepLock ==
  /\ mu = "sweepLock"
  /\ IF lock.holder # None /\ lock.idle
     THEN ReleaseLocked
     ELSE UNCHANGED <<lock, memVars, faults>>
  /\ mu' = "ready"
  /\ UNCHANGED <<revVars, pending, timer, ret, txn, audit, exposed, envVars>>

-----------------------------------------------------------------------------
(* Operations on the candidate *)

\* Another holder's lock refuses the edit.  A repeated edit keeps the candidate;
\* otherwise the lock is acquired, or taken over by the same holder after a
\* restart, and the candidate starts as a copy of the committed configuration.
Edit(s) ==
  /\ mu = "ready" /\ mu' = "free"
  /\ IF lock.holder \notin {None, s}
     THEN UNCHANGED <<lock, memVars>>
     ELSE /\ RefreshLock(s)
          /\ IF lock.holder # None /\ candidate # None
             THEN UNCHANGED memVars
             ELSE candidate' = Committed /\ holder' = s /\ dirty' = FALSE
  /\ UNCHANGED <<revVars, pending, timer, ret, txn, audit, exposed, faults, envVars>>

\* Release and Discard end the edit; neither touches a pending confirmation.
Release(s) ==
  /\ mu = "ready" /\ mu' = "free"
  /\ IF Holds(s) THEN ReleaseLocked ELSE UNCHANGED <<lock, memVars, faults>>
  /\ UNCHANGED <<revVars, pending, timer, ret, txn, audit, exposed, envVars>>

\* UpdateCandidate replaces the candidate by the client's document and
\* MergeCandidate by the merge of a patch: some configuration c either way.
UpdateCandidate(s, c) ==
  /\ mu = "ready" /\ mu' = "free"
  /\ Holds(s)
  /\ candidate' = c /\ dirty' = TRUE
  /\ RefreshLock(s)
  /\ UNCHANGED <<revVars, pending, holder, timer, ret, txn, audit, exposed, faults, envVars>>

\* Candidate, Sessions, CommitCheck and CompareCandidate only read after the
\* sweep, as does every operation refused with ErrNotEditing.
ReadOnly ==
  /\ mu = "ready" /\ mu' = "free"
  /\ UNCHANGED <<revVars, lock, pending, memVars, timer, ret, txn, audit, exposed,
                 faults, envVars>>

\* Any session may confirm; with nothing pending this is an error reply.
ConfirmCommit ==
  /\ mu = "ready" /\ mu' = "free"
  /\ ClearIfPending
  /\ UNCHANGED <<revVars, lock, memVars, ret, txn, audit, envVars>>

\* The n-th previous revision becomes the candidate.  The pending confirmation
\* is dropped before the revision is looked up.
Rollback(s, n) ==
  /\ mu = "ready" /\ mu' = "free"
  /\ Holds(s)
  /\ ClearIfPending
  /\ IF Retained(latest - n)
     THEN candidate' = revs[latest - n] /\ dirty' = TRUE /\ RefreshLock(s)
     ELSE UNCHANGED <<candidate, dirty, lock>>
  /\ UNCHANGED <<revVars, holder, ret, txn, audit, envVars>>

-----------------------------------------------------------------------------
(* Commit *)

\* FR-CFG-012: a session that arrives over the network must use "commit
\* confirmed" to change the management port.
MustConfirm(s, conf) == candidate.mgmt # Committed.mgmt /\ s \in Network /\ ~conf

Acceptable(s, conf) ==
  Holds(s) /\ dirty /\ candidate \in Valid /\ ~MustConfirm(s, conf)

\* A commit that ends before it touches the substrate: not the holder, nothing
\* to commit, invalid, not confirmed where it must be, or an image missing.  A
\* pending confirmation has been given all the same.
CommitRefused(s, conf, imagesOk) ==
  /\ mu = "ready" /\ mu' = "free"
  /\ ~(Acceptable(s, conf) /\ imagesOk)
  /\ ClearIfPending
  /\ UNCHANGED <<revVars, lock, memVars, ret, txn, audit, envVars>>

\* A commit that passes its checks writes its intent row if it is high-risk.
CommitStart(s, conf, highRisk) ==
  /\ mu = "ready" /\ mu' = "apply"
  /\ Acceptable(s, conf)
  /\ latest < MaxRev
  /\ ClearIfPending
  /\ txn' = [sess |-> s, confirmed |-> conf, old |-> Committed, new |-> candidate]
  /\ audit' = [intent |-> highRisk, results |-> 0]
  /\ UNCHANGED <<revVars, lock, memVars, ret, envVars>>

\* The two configurations are swapped (AppliedBeforeStored).
SlipAppliedBackwards(sub, old, new) ==
  [o \in Obj |-> IF old.net[o] # new.net[o] THEN old.net[o] ELSE sub[o]]

\* The applier executes the difference between the two configurations: objects
\* on which they agree are not touched, whatever the substrate holds.
Applied(sub, old, new) ==
  [o \in Obj |-> IF old.net[o] # new.net[o] THEN new.net[o] ELSE sub[o]]

CommitApply ==
  /\ mu = "apply" /\ mu' = "append"
  /\ substrate' = Applied(substrate, txn.old, txn.new)
  /\ UNCHANGED <<revVars, lock, pending, memVars, timer, ret, txn, audit, exposed,
                 faults, crashes>>

\* The applier fails and has compensated what it did; a failure row is written.
CommitApplyFails ==
  /\ mu = "apply" /\ mu' = "free"
  /\ txn' = NoTxn
  /\ audit' = [audit EXCEPT !.results = @ + 1]
  /\ UNCHANGED <<revVars, lock, pending, memVars, timer, ret, exposed, faults, envVars>>

CommitAppend ==
  /\ mu = "append" /\ mu' = "prune"
  /\ AppendRevision(txn.new)
  /\ exposed' = (exposed \/ (txn.sess \in Network /\ txn.old.mgmt # txn.new.mgmt))
  /\ UNCHANGED <<lock, pending, memVars, timer, ret, txn, audit, faults, envVars>>

CommitPrune ==
  /\ mu = "prune" /\ mu' = IF txn.confirmed THEN "confirm" ELSE "finish"
  /\ PruneRevisions
  /\ UNCHANGED <<lock, pending, memVars, timer, ret, txn, audit, exposed, faults, envVars>>

\* The base is the new revision itself (PendingBaseRetained).
SlipBaseIsNew ==
  /\ mu = "confirm" /\ mu' = "finish"
  /\ pending' = [base |-> latest, expired |-> FALSE]
  /\ timer' = "armed"
  /\ UNCHANGED <<revVars, lock, memVars, ret, txn, audit, exposed, faults, envVars>>

\* The new revision is to be confirmed; newRev-1 is what a rollback restores.
CommitSetConfirmed ==
  /\ mu = "confirm" /\ mu' = "finish"
  /\ pending' = [base |-> latest - 1, expired |-> FALSE]
  /\ timer' = "armed"
  /\ UNCHANGED <<revVars, lock, memVars, ret, txn, audit, exposed, faults, envVars>>

CommitFinish ==
  /\ mu = "finish" /\ mu' = "free"
  /\ dirty' = FALSE
  /\ txn' = NoTxn
  /\ audit' = [audit EXCEPT !.results = @ + 1]
  /\ UNCHANGED <<revVars, lock, pending, candidate, holder, timer, ret, exposed, faults, envVars>>

\* The early returns write no result row (IntentPaired).
SlipNoFailureRow ==
  /\ \/ mu = "append" /\ StoreFails("append")
     \/ mu = "prune" /\ StoreFails("prune")
     \/ mu = "confirm" /\ StoreFails("setConfirmed")
  /\ mu' = "free" /\ txn' = NoTxn
  /\ UNCHANGED <<revVars, lock, pending, memVars, timer, ret, audit, exposed, envVars>>

\* A store statement of the commit fails: it returns the error as it stands, and
\* the deferred handler adds the failure row an intent row calls for.
CommitStoreFails ==
  /\ \/ mu = "append" /\ StoreFails("append")
     \/ mu = "prune" /\ StoreFails("prune")
     \/ mu = "confirm" /\ StoreFails("setConfirmed")
  /\ mu' = "free"
  /\ txn' = NoTxn
  /\ audit' = IF audit.intent THEN [audit EXCEPT !.results = @ + 1] ELSE audit
  /\ UNCHANGED <<revVars, lock, pending, memVars, timer, ret, exposed, envVars>>

-----------------------------------------------------------------------------
(* Time, the timer, and the daemon itself *)

\* Deadlines are minutes away and an operation's view of the time is one
\* reading of the clock, so time passes between operations.
Quiet == mu \in {"free", "down"}

IdleElapses ==
  /\ Quiet /\ lock.holder # None /\ ~lock.idle
  /\ lock' = [lock EXCEPT !.idle = TRUE]
  /\ UNCHANGED <<revVars, pending, memVars, timer, mu, ret, txn, audit, exposed, faults, envVars>>

DeadlinePasses ==
  /\ Quiet /\ IsPending /\ ~pending.expired
  /\ pending' = [pending EXCEPT !.expired = TRUE]
  /\ timer' = IF timer = "armed" THEN "due" ELSE timer
  /\ UNCHANGED <<revVars, lock, memVars, mu, ret, txn, audit, exposed, faults, envVars>>

\* The timer measures elapsed time, the stored deadline is wall-clock time: once
\* the clock has been set back the timer comes first.
TimerBeforeDeadline ==
  /\ ClockSteps
  /\ Quiet /\ timer = "armed"
  /\ timer' = "due"
  /\ UNCHANGED <<revVars, lock, pending, memVars, mu, ret, txn, audit, exposed, faults, envVars>>

\* One shot: whatever the callback decides, the timer does not run again.  (A
\* callback already waiting for the mutex when the timer is stopped re-reads the
\* request and finds nothing to do; it is not modelled.)
OnConfirmedTimer ==
  /\ mu = "free" /\ timer = "due"
  /\ timer' = "off"
  /\ IF Expired
     THEN DoConfirmedRollback("free")
     ELSE UNCHANGED <<revVars, pending, mu, ret, faults>>
  /\ UNCHANGED <<lock, memVars, txn, audit, exposed, envVars>>

\* nfvisd stops, in the middle of an operation or between two: the tables and
\* the substrate stay, everything else is gone.  The rows of an interrupted
\* commit are not followed further: its intent row stays alone in the log.
Crash ==
  /\ mu # "down" /\ mu' = "down"
  /\ crashes < MaxCrashes /\ crashes' = crashes + 1
  /\ candidate' = None /\ holder' = None /\ dirty' = FALSE
  /\ timer' = "off" /\ ret' = "free" /\ txn' = NoTxn /\ audit' = NoAudit
  /\ UNCHANGED <<revVars, lock, pending, exposed, faults, substrate>>

\* A request found overdue at start is neither rolled back nor timed
\* (ExpiredIsRolledBack).
SlipIgnoreOverdue ==
  /\ mu = "down" /\ mu' = "free"
  /\ timer' = IF IsPending /\ ~pending.expired THEN "armed" ELSE "off"
  /\ UNCHANGED <<revVars, lock, pending, memVars, ret, txn, audit, exposed, faults, envVars>>

\* NewEngine: a confirmation overdue at start is rolled back, another is timed
\* again.  The edit is not restored.
Restart ==
  /\ mu = "down"
  /\ IF Expired
     THEN DoConfirmedRollback("free")
     ELSE mu' = "free" /\ UNCHANGED <<revVars, pending, ret, faults>>
  /\ timer' = IF IsPending /\ ~pending.expired THEN "armed" ELSE "off"
  /\ UNCHANGED <<lock, memVars, txn, audit, exposed, envVars>>

-----------------------------------------------------------------------------

Serve ==
  \/ \E s \in Session : Edit(s) \/ Release(s)
  \/ \E s \in Session, c \in Config : UpdateCandidate(s, c)
  \/ \E s \in Session, n \in 1..(Keep - 1) : Rollback(s, n)
  \/ ReadOnly \/ ConfirmCommit
  \/ \E s \in Session, conf, b \in BOOLEAN :
        CommitRefused(s, conf, b) \/ CommitStart(s, conf, b)

CommitStep ==
  \/ CommitApply \/ CommitApplyFails \/ CommitAppend \/ CommitPrune
  \/ CommitSetConfirmed \/ CommitFinish \/ CommitStoreFails

Clock == IdleElapses \/ DeadlinePasses \/ TimerBeforeDeadline

Next ==
  \/ SweepConfirmed \/ SweepLock \/ ClearAfterRollback
  \/ Serve \/ CommitStep
  \/ Clock \/ OnConfirmedTimer
  \/ Crash \/ Restart

Spec == Init /\ [][Next]_vars

\* An operation that has the mutex finishes, the Go runtime runs a due timer,
\* and systemd restarts the daemon.  Nobody is obliged to call the engine.
FairSpec ==
  /\ Spec
  /\ WF_vars(SweepLock) /\ WF_vars(ClearAfterRollback)
  /\ WF_vars(Serve) /\ WF_vars(CommitStep)
  /\ WF_vars(OnConfirmedTimer) /\ WF_vars(Restart)

-----------------------------------------------------------------------------
(* Safety *)

\* The base revision a pending confirmation would restore is still stored and
\* older than the current one: pruning, crashes half-way through a rollback and
\* later commits never remove it (engine.go doConfirmedRollback's "missing base"
\* branch is dead code as long as clearing a request does not fail).
PendingBaseRetained == IsPending => Retained(pending.base) /\ pending.base < latest

\* An open edit in memory is always backed by the lock row of the same holder,
\* through releases, idle timeouts, restarts and take-overs (FR-CFG-009).
CandidateHoldsLock == candidate # None => holder # None /\ lock.holder = holder

\* Between operations, a candidate that is not dirty equals the committed
\* configuration.  Commit (which returns without a new revision) and the API's
\* one-shot clean-up (which releases the lock) both rely on it.
CleanCandidateIsCommitted ==
  mu # "clear" /\ candidate # None /\ ~dirty => candidate = Committed

\* A high-risk commit that is over has exactly one result row next to its intent
\* row, on every error path (engine.go, deferred handler of Commit).
IntentPaired == mu \notin CommitPhase /\ audit.intent => audit.results = 1

\* The last Keep revisions can be rolled back to, unless fewer were ever stored
\* (FR-CFG-005: the 50 before the current one).
HistoryRetained == oldest = 1 \/ latest - oldest + 1 >= Keep

\* A revision is stored only after the substrate has taken every change in it.
AppliedBeforeStored ==
  mu \in {"prune", "confirm", "finish"} =>
    /\ Committed = txn.new
    /\ \A o \in Obj : txn.old.net[o] # txn.new.net[o] => substrate[o] = txn.new.net[o]

\* The engine implements ConfirmedCommit.  A "commit confirmed" awaits its
\* confirmation from the moment its revision is stored; what it falls back to is
\* then still a local of Commit, and losing it (a crash or a store error before
\* SetConfirmed) settles the commit.
Fallback ==
  IF IsPending THEN revs[pending.base]
  ELSE IF mu \in {"prune", "confirm"} /\ txn.confirmed THEN txn.old
  ELSE None

CC == INSTANCE ConfirmedCommit WITH committed <- Committed, fallback <- Fallback

ImplementsConfirmedCommit == CC!Spec

\* A confirmation that is overdue can no longer be given: a late confirm, commit
\* or rollback n that races the timer finds the rollback already done.  (Holds
\* as long as the store accepts the rollback's revision.)
LateConfirmRefused ==
  [][Expired /\ pending'.base = 0 => mu = "clear"]_vars

-----------------------------------------------------------------------------
(* The inductive invariant behind the theorems of ConfigEngineProofs *)

\* What a commit in progress may rely on: it owns a dirty candidate, and the
\* current revision is the one it started from or, later, its own.
CommitInv ==
  /\ mu \in CommitPhase => dirty /\ candidate = txn.new
  /\ mu \in {"apply", "append"} => txn.old = Committed
  /\ mu \in {"prune", "confirm"} => Retained(latest - 1) /\ revs[latest - 1] = txn.old
  /\ mu \in {"prune", "confirm", "finish"} => Committed = txn.new
  /\ mu \in {"append", "prune", "confirm", "finish"} =>
       \A o \in Obj : txn.old.net[o] # txn.new.net[o] => substrate[o] = txn.new.net[o]
  /\ mu \in CommitPhase => audit.results = 0
  /\ mu = "confirm" => txn.confirmed

IInv ==
  /\ TypeOK
  /\ CandidateHoldsLock
  /\ CleanCandidateIsCommitted
  /\ IntentPaired
  /\ HistoryRetained
  /\ CommitInv

\* The part that needs ClearConfirmed to succeed: nothing is pending while a
\* commit prunes, and a half-done rollback has stored the base again.
ClearReliable == "clear" \notin FaultOps

PendingInv ==
  /\ PendingBaseRetained
  /\ mu \in CommitPhase \ {"finish"} => ~IsPending
  /\ mu = "clear" => IsPending /\ Committed = revs[pending.base]

\* The part that also needs the rollback's append to succeed: once the sweep of
\* an operation has run, nothing overdue is left.
AppendReliable == "append" \notin FaultOps

SweptInv == mu \in {"sweepLock", "ready"} => ~Expired

-----------------------------------------------------------------------------
(* Liveness *)

\* Once its deadline has passed, an unconfirmed commit is rolled back, whether or
\* not anybody calls the engine and across restarts (FR-CFG-003).
ExpiredIsRolledBack == Expired ~> ~IsPending

-----------------------------------------------------------------------------
(* What the documents say and the code does not do *)

\* "An idle candidate lock is released automatically" (skeleton design, 3.4): no
\* operation finds an idle lock once the sweep has run.
IdleLockReleased == mu = "ready" => ~(lock.holder # None /\ lock.idle)

\* "Rolls back to the configuration before the change" (FR-CFG-003): between
\* operations the substrate holds the committed configuration.
SubstrateFollowsCommitted == mu = "free" => substrate = Committed.net

\* "During the confirmation period the old configuration can be rolled back to
\* restore connectivity" (FR-CFG-012): a network session's management change that
\* nobody has confirmed is always pending.
MgmtChangeRevertible == mu \in {"free", "ready"} /\ exposed => IsPending

=============================================================================
