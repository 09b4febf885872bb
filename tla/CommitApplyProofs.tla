-------------------------- MODULE CommitApplyProofs --------------------------
(***************************************************************************)
(* Theorems about CommitApply, for every set of objects and settings,      *)
(* every set of configurations and references, and every number of         *)
(* commits and failing calls.                                              *)
(***************************************************************************)
EXTENDS CommitApply, TLAPS

-----------------------------------------------------------------------------
(* The inductive invariant *)

Executed == {executed[n] : n \in DOMAIN executed}
ExecutedObj(o) == \E op \in Executed : op.obj = o

\* The operations of a commit are those of its plan, and run in its order.
PlanInv ==
  /\ phase = "run" => todo \subseteq Plan(committed, target)
  /\ phase # "idle" => Executed \subseteq Plan(committed, target)
  /\ \A m, n \in DOMAIN executed : m < n => Rank(executed[m]) <= Rank(executed[n])
  /\ \A n \in DOMAIN executed : \A p \in todo : Rank(executed[n]) <= Rank(p)

\* What was run has converged.
RunInv ==
  phase = "run" =>
    \A op \in Plan(committed, target) \ todo :
      /\ op \notin alarms
      /\ \/ dp[op.obj] = target[op.obj]
         \/ op.obj \in deferred
         \/ op.obj \in Dpdk /\ Kind[op.obj] = "interface"

\* An object that is not as committed is still to be undone, or known.
UndoInv ==
  \A o \in Obj : Kind[o] # "route" =>
    \/ dp[o] = committed[o] \/ Known(o) \/ ExecutedObj(o)
    \/ o \in Dpdk \/ Unmanaged(o)

\* An object is as the old configuration wants it, as the new one does, half-done or known.
SettingInv ==
  \A o \in Obj : Kind[o] \notin {"route", "interface"} /\ dp[o] # Partial =>
    \/ dp[o] = committed[o] \/ Known(o)
    \/ ExecutedObj(o) /\ dp[o] = target[o]

IInv == TypeOK /\ PlanInv /\ RunInv /\ UndoInv /\ SettingInv /\ RefsLive

-----------------------------------------------------------------------------
(* Ranks *)

LEMMA AddPosition ==
  ASSUME NEW k \in Kinds \ {"route"}
  PROVE  Position(AddOrder, k) \in 1..12
<1>1. DOMAIN AddOrder = 1..12
  BY DEF AddOrder
<1>2. \E i \in DOMAIN AddOrder : AddOrder[i] = k
  BY DEF Kinds
<1> QED
  BY <1>1, <1>2 DEF Position

LEMMA DelPosition ==
  ASSUME NEW k \in Kinds \ (Singleton \cup {"interface"})
  PROVE  Position(DelOrder, k) \in 1..10
<1>1. DOMAIN DelOrder = 1..10
  BY DEF DelOrder
<1>2. k \in {"container", "vm", "bridge-domain", "route", "vrf", "bond", "vnf-if",
             "span", "qos", "acl"}
  <2>1. DOMAIN AddOrder = 1..12
    BY DEF AddOrder
  <2>2. k = "route" \/ \E i \in 1..12 : AddOrder[i] = k
    BY <2>1 DEF Kinds
  <2> QED
    BY <2>2 DEF AddOrder, Singleton
<1>3. \E i \in 1..10 : DelOrder[i] = k
  <2>1. /\ DelOrder[1] = "container" /\ DelOrder[2] = "vm" /\ DelOrder[3] = "bridge-domain"
        /\ DelOrder[4] = "route" /\ DelOrder[5] = "vrf" /\ DelOrder[6] = "bond"
        /\ DelOrder[7] = "vnf-if" /\ DelOrder[8] = "span" /\ DelOrder[9] = "qos"
        /\ DelOrder[10] = "acl"
    BY DEF DelOrder
  <2> HIDE DEF DelOrder
  <2> QED
    BY <1>2, <2>1
<1> QED
  BY <1>1, <1>3 DEF Position

LEMMA PlanFacts ==
  ASSUME NEW old \in Cfg, NEW new \in Cfg, NEW op \in Plan(old, new)
  PROVE  /\ op \in Operation
         /\ op.del => /\ new[op.obj] = Absent /\ old[op.obj] # Absent
                      /\ Kind[op.obj] \notin Singleton \cup {"interface"}
         /\ ~op.del => /\ Kind[op.obj] # "route"
                       /\ new[op.obj] # Absent \/ Kind[op.obj] \in Singleton
BY DEF Plan, Additions, Deletions, Operation

\* Every addition ranks before every deletion.
LEMMA RankFacts ==
  ASSUME NEW old \in Cfg, NEW new \in Cfg, NEW op \in Plan(old, new)
  PROVE  /\ Rank(op) \in Nat
         /\ op.del => Rank(op) = 12 + Position(DelOrder, Kind[op.obj]) /\ Rank(op) > 12
         /\ ~op.del => Rank(op) = Position(AddOrder, Kind[op.obj]) /\ Rank(op) <= 12
<1>1. Len(AddOrder) = 12
  BY DEF AddOrder
<1>2. Kind[op.obj] \in Kinds
  BY PlanFacts, ApplyAssumption DEF Operation
<1>3. CASE op.del
  BY <1>1, <1>2, <1>3, PlanFacts, DelPosition DEF Rank
<1>4. CASE ~op.del
  BY <1>1, <1>2, <1>4, PlanFacts, AddPosition DEF Rank
<1> QED
  BY <1>3, <1>4, PlanFacts DEF Operation

\* What the plan leaves out is unchanged, or an interface no longer declared.
LEMMA Unplanned ==
  ASSUME NEW old \in Cfg, NEW new \in Cfg, NEW o \in Obj, Kind[o] # "route",
         \A op \in Plan(old, new) : op.obj # o
  PROVE  old[o] = new[o] \/ (Kind[o] = "interface" /\ new[o] = Absent)
<1>1. o \notin Additions(old, new) /\ o \notin Deletions(old, new)
  <2>1. o \in Additions(old, new) => [obj |-> o, del |-> FALSE] \in Plan(old, new)
    BY DEF Plan
  <2>2. o \in Deletions(old, new) => [obj |-> o, del |-> TRUE] \in Plan(old, new)
    BY DEF Plan
  <2> QED
    BY <2>1, <2>2
<1> QED
  BY <1>1 DEF Additions, Deletions, Changed

\* One operation per object.
LEMMA OnePerObject ==
  ASSUME NEW old \in Cfg, NEW new \in Cfg,
         NEW p \in Plan(old, new), NEW q \in Plan(old, new), p.obj = q.obj
  PROVE  p = q
<1>1. p \in Operation /\ q \in Operation
  BY PlanFacts
<1>2. p.del => q.del
  BY <1>1, PlanFacts
<1>3. q.del => p.del
  BY <1>1, PlanFacts
<1> QED
  BY <1>1, <1>2, <1>3 DEF Operation

-----------------------------------------------------------------------------
(* Type correctness *)

LEMMA ConfigType == \A c \in Cfg : c \in [Obj -> Val \cup {Absent}]
BY ApplyAssumption DEF WellFormed

LEMMA EffectType ==
  ASSUME TypeOK, NEW o \in Obj, NEW c \in Cfg
  PROVE  /\ Put(o, c) \in [Obj -> Val \cup {Absent, Partial}]
         /\ Remove(o) \in [Obj -> Val \cup {Absent, Partial}]
         /\ HalfDone(o, c) => dp' \in [Obj -> Val \cup {Absent, Partial}]
<1>1. c \in [Obj -> Val \cup {Absent}] /\ dp \in [Obj -> Val \cup {Absent, Partial}]
  BY ConfigType DEF TypeOK
<1>2. Put(o, c) \in [Obj -> Val \cup {Absent, Partial}]
  BY <1>1 DEF Put
<1>3. Remove(o) \in [Obj -> Val \cup {Absent, Partial}]
  BY <1>1 DEF Remove
<1>4. ASSUME HalfDone(o, c) PROVE dp' \in [Obj -> Val \cup {Absent, Partial}]
  BY <1>1, <1>2, <1>4 DEF HalfDone
<1> QED
  BY <1>2, <1>3, <1>4

LEMMA SucceededType ==
  ASSUME TypeOK, NEW op \in todo, Succeeded(op)
  PROVE  /\ todo' \subseteq Operation /\ executed' \in Seq(Operation)
         /\ alarms' \subseteq Operation /\ leaked' \subseteq Obj
         /\ op \in Operation /\ op.obj \in Obj
BY DEF TypeOK, Succeeded, Operation

LEMMA FaultType == TypeOK /\ Fault => faults' \in 0..MaxFaults
BY ApplyAssumption DEF TypeOK, Fault

LEMMA DropType ==
  ASSUME TypeOK, executed # << >>
  PROVE  DropLast \in Seq(Operation) /\ LastExecuted \in Operation /\ LastExecuted.obj \in Obj
<1>1. executed \in Seq(Operation) /\ Len(executed) \in Nat /\ Len(executed) > 0
  BY DEF TypeOK
<1>2. LastExecuted \in Operation
  BY <1>1 DEF LastExecuted
<1>3. DropLast \in Seq(Operation)
  BY <1>1 DEF DropLast
<1> QED
  BY <1>2, <1>3 DEF Operation

LEMMA InitTypeOK == Init => TypeOK
BY ApplyAssumption, ConfigType DEF Init, TypeOK, Operation

LEMMA TypeStep == TypeOK /\ [Next]_vars => TypeOK'
<1> SUFFICES ASSUME TypeOK, [Next]_vars PROVE TypeOK'
  OBVIOUS
<1> USE ApplyAssumption
<1>1. ASSUME NEW new \in Cfg, ApplyNothing(new) PROVE TypeOK'
  BY <1>1 DEF ApplyNothing, TypeOK
<1>2. ASSUME NEW new \in Cfg, Begin(new) PROVE TypeOK'
  <2>1. Plan(committed, new) \subseteq Operation
    BY DEF Plan, Additions, Deletions, Operation
  <2> QED
    BY <1>2, <2>1 DEF Begin, TypeOK
<1>3. ASSUME NEW op \in todo, Run(op) PROVE TypeOK'
  <2>1. Succeeded(op) /\ op.obj \in Obj
    BY <1>3, SucceededType DEF Run
  <2>2. dp' \in [Obj -> Val \cup {Absent, Partial}]
    BY <1>3, <2>1, EffectType DEF Run, TypeOK
  <2>3. deferred' \subseteq Obj
    BY <1>3 DEF Run, TypeOK
  <2> QED
    BY <1>3, <2>1, <2>2, <2>3, SucceededType DEF Run, TypeOK
<1>4. ASSUME NEW op \in todo, RunVrfDeferred(op) PROVE TypeOK'
  <2>1. Succeeded(op) /\ op.obj \in Obj
    BY <1>4, SucceededType DEF RunVrfDeferred
  <2>2. dp' \in [Obj -> Val \cup {Absent, Partial}]
    BY <1>4, <2>1 DEF RunVrfDeferred, TypeOK
  <2> QED
    BY <1>4, <2>1, <2>2, SucceededType, FaultType DEF RunVrfDeferred, TypeOK
<1>5. ASSUME NEW op \in todo, RunIfaceDeferred(op) PROVE TypeOK'
  BY <1>5, SucceededType, FaultType DEF RunIfaceDeferred, TypeOK
<1>6. ASSUME NEW op \in todo, RunFails(op) PROVE TypeOK'
  <2>1. op \in Operation /\ op.obj \in Obj /\ target \in Cfg
    BY DEF TypeOK, Operation
  <2>2. dp' \in [Obj -> Val \cup {Absent, Partial}]
    BY <1>6, <2>1, EffectType DEF RunFails
  <2>3. executed' \in Seq(Operation)
    BY <1>6, <2>1 DEF RunFails, TypeOK
  <2>4. faults' \in 0..MaxFaults
    BY <1>6, FaultType DEF RunFails, TypeOK
  <2> QED
    BY <1>6, <2>1, <2>2, <2>3, <2>4 DEF RunFails, TypeOK
<1>7. CASE Finish
  BY <1>7 DEF Finish, TypeOK
<1>8. CASE Undo
  <2>1. LastExecuted.obj \in Obj /\ DropLast \in Seq(Operation) /\ committed \in Cfg
    BY <1>8, DropType DEF Undo, TypeOK
  <2>2. dp' \in [Obj -> Val \cup {Absent, Partial}]
    BY <1>8, <2>1, EffectType DEF Undo, TypeOK
  <2> QED
    BY <1>8, <2>1, <2>2 DEF Undo, TypeOK
<1>9. CASE UndoFails
  <2>1. /\ LastExecuted \in Operation /\ LastExecuted.obj \in Obj
        /\ DropLast \in Seq(Operation) /\ committed \in Cfg
    BY <1>9, DropType DEF UndoFails, TypeOK
  <2>2. dp' \in [Obj -> Val \cup {Absent, Partial}]
    BY <1>9, <2>1, EffectType DEF UndoFails
  <2>3. faults' \in 0..MaxFaults
    BY <1>9, FaultType DEF UndoFails, TypeOK
  <2> QED
    BY <1>9, <2>1, <2>2, <2>3 DEF UndoFails, TypeOK
<1>10. CASE FinishUndo
  BY <1>10 DEF FinishUndo, TypeOK
<1>11. CASE UNCHANGED vars
  BY <1>11 DEF vars, TypeOK
<1> QED
  BY <1>1, <1>2, <1>3, <1>4, <1>5, <1>6, <1>7, <1>8, <1>9, <1>10, <1>11 DEF Next

\* Every reachable state of a sequence of commits has its type.
THEOREM TypeCorrect == Spec => []TypeOK
BY InitTypeOK, TypeStep, PTL DEF Spec

-----------------------------------------------------------------------------
(* Sequences of executed operations *)

LEMMA AppendExecuted ==
  ASSUME TypeOK, NEW op \in todo, executed' = Append(executed, op)
  PROVE  /\ Executed' = Executed \cup {op}
         /\ DOMAIN executed = 1..Len(executed) /\ Len(executed) \in Nat
         /\ DOMAIN executed' = 1..(Len(executed) + 1)
         /\ \A n \in DOMAIN executed : executed'[n] = executed[n]
         /\ executed'[Len(executed) + 1] = op
<1>1. executed \in Seq(Operation) /\ op \in Operation
  BY DEF TypeOK
<1>2. /\ DOMAIN executed = 1..Len(executed) /\ Len(executed) \in Nat
      /\ DOMAIN executed' = 1..(Len(executed) + 1)
      /\ \A n \in DOMAIN executed : executed'[n] = executed[n]
      /\ executed'[Len(executed) + 1] = op
  BY <1>1
<1>3. Executed' = {executed'[n] : n \in DOMAIN executed'}
  BY DEF Executed
<1>4. Executed' = Executed \cup {op}
  BY <1>2, <1>3 DEF Executed
<1> QED
  BY <1>2, <1>4

LEMMA DropExecuted ==
  ASSUME TypeOK, executed # << >>, executed' = DropLast
  PROVE  /\ DOMAIN executed = 1..Len(executed) /\ Len(executed) \in Nat \ {0}
         /\ DOMAIN executed' = 1..(Len(executed) - 1)
         /\ \A n \in DOMAIN executed' : executed'[n] = executed[n]
         /\ Executed' \subseteq Executed
         /\ Executed = Executed' \cup {LastExecuted}
<1>1. executed \in Seq(Operation)
  BY DEF TypeOK
<1>2. /\ DOMAIN executed = 1..Len(executed) /\ Len(executed) \in Nat \ {0}
      /\ DOMAIN executed' = 1..(Len(executed) - 1)
      /\ \A n \in DOMAIN executed' : executed'[n] = executed[n]
  BY <1>1 DEF DropLast
<1>3. Executed' = {executed[n] : n \in 1..(Len(executed) - 1)}
  BY <1>2 DEF Executed
<1>4. Executed = {executed[n] : n \in 1..Len(executed)}
  BY <1>2 DEF Executed
<1>5. Executed = Executed' \cup {executed[Len(executed)]}
  BY <1>2, <1>3, <1>4
<1> QED
  BY <1>2, <1>5 DEF LastExecuted

-----------------------------------------------------------------------------
(* PlanInv *)

LEMMA AppendPlan ==
  ASSUME TypeOK, PlanInv, phase = "run", NEW op \in todo, Ready(op),
         executed' = Append(executed, op), todo' \subseteq todo \ {op},
         phase' # "idle", UNCHANGED <<committed, target>>
  PROVE  PlanInv'
<1>1. op \in Plan(committed, target) /\ \A p \in todo : Rank(op) <= Rank(p)
  BY DEF PlanInv, Ready
<1>2. todo' \subseteq Plan(committed, target)' /\ Executed' \subseteq Plan(committed, target)'
  <2>1. Plan(committed, target)' = Plan(committed, target)
    BY DEF Plan, Additions, Deletions, Changed
  <2> QED
    BY <1>1, <2>1, AppendExecuted DEF PlanInv
<1>3. \A n \in DOMAIN executed : Rank(executed[n]) <= Rank(op)
  BY DEF PlanInv
<1>4. \A m, n \in DOMAIN executed' : m < n => Rank(executed'[m]) <= Rank(executed'[n])
  <2> SUFFICES ASSUME NEW m \in DOMAIN executed', NEW n \in DOMAIN executed', m < n
               PROVE  Rank(executed'[m]) <= Rank(executed'[n])
    OBVIOUS
  <2>1. m \in DOMAIN executed /\ executed'[m] = executed[m]
    BY AppendExecuted
  <2>2. CASE n \in DOMAIN executed
    BY <2>1, <2>2, AppendExecuted DEF PlanInv
  <2>3. CASE n \notin DOMAIN executed
    <3>1. n = Len(executed) + 1
      BY <2>3, AppendExecuted
    <3> QED
      BY <2>1, <3>1, <1>3, AppendExecuted
  <2> QED
    BY <2>2, <2>3
<1>5. \A n \in DOMAIN executed' : \A p \in todo' : Rank(executed'[n]) <= Rank(p)
  <2> SUFFICES ASSUME NEW n \in DOMAIN executed', NEW p \in todo'
               PROVE  Rank(executed'[n]) <= Rank(p)
    OBVIOUS
  <2>1. CASE n \in DOMAIN executed
    BY <2>1, AppendExecuted DEF PlanInv
  <2>2. CASE n \notin DOMAIN executed
    <3>1. n = Len(executed) + 1
      BY <2>2, AppendExecuted
    <3> QED
      BY <3>1, <1>1, AppendExecuted
  <2> QED
    BY <2>1, <2>2
<1> QED
  BY <1>2, <1>4, <1>5 DEF PlanInv, Rank

LEMMA DropPlan ==
  ASSUME TypeOK, PlanInv, phase = "undo", executed # << >>, executed' = DropLast,
         UNCHANGED <<committed, target, phase, todo>>
  PROVE  PlanInv'
<1>1. Plan(committed, target)' = Plan(committed, target)
  BY DEF Plan, Additions, Deletions, Changed
<1>2. Executed' \subseteq Plan(committed, target)'
  BY <1>1, DropExecuted DEF PlanInv
<1>3. /\ DOMAIN executed' \subseteq DOMAIN executed
      /\ \A n \in DOMAIN executed' : executed'[n] = executed[n]
  BY DropExecuted
<1>4. \A m, n \in DOMAIN executed' : m < n => Rank(executed'[m]) <= Rank(executed'[n])
  BY <1>3 DEF PlanInv
<1>5. \A n \in DOMAIN executed' : \A p \in todo' : Rank(executed'[n]) <= Rank(p)
  BY <1>3 DEF PlanInv
<1> QED
  BY <1>2, <1>4, <1>5 DEF PlanInv, Rank

LEMMA PlanStep == TypeOK /\ PlanInv /\ [Next]_vars => PlanInv'
<1> SUFFICES ASSUME TypeOK, PlanInv, [Next]_vars PROVE PlanInv'
  OBVIOUS
<1>1. ASSUME UNCHANGED <<committed, target, phase, todo, executed>> PROVE PlanInv'
  BY <1>1 DEF PlanInv, Executed, Plan, Additions, Deletions, Changed, Rank
<1>2. ASSUME NEW new \in Cfg, Begin(new) PROVE PlanInv'
  <2>1. todo' = Plan(committed, target)'
    BY <1>2 DEF Begin, Plan, Additions, Deletions, Changed
  <2>2. executed' = << >> /\ Executed' = {}
    BY <1>2 DEF Begin, Executed
  <2> QED
    BY <2>1, <2>2 DEF PlanInv
<1>3. ASSUME NEW op \in todo, Run(op) \/ RunVrfDeferred(op) \/ RunIfaceDeferred(op) PROVE PlanInv'
  BY <1>3, AppendPlan DEF Run, RunVrfDeferred, RunIfaceDeferred, Succeeded
<1>4. ASSUME NEW op \in todo, RunFails(op) PROVE PlanInv'
  <2>1. CASE UndoesItself(op)
    BY <1>4, <2>1, AppendPlan DEF RunFails
  <2>2. CASE ~UndoesItself(op)
    <3>1. /\ phase = "run" /\ todo' = {} /\ executed' = executed /\ Executed' = Executed
          /\ Plan(committed, target)' = Plan(committed, target)
      BY <1>4, <2>2 DEF RunFails, Executed, Plan, Additions, Deletions, Changed
    <3> QED
      BY <3>1 DEF PlanInv, Rank
  <2> QED
    BY <2>1, <2>2
<1>5. CASE Finish
  <2>1. phase' = "idle" /\ executed' = << >> /\ Executed' = {}
    BY <1>5 DEF Finish, Executed
  <2> QED
    BY <2>1 DEF PlanInv
<1>6. CASE Undo \/ UndoFails
  BY <1>6, DropPlan DEF Undo, UndoFails
<1>7. CASE FinishUndo
  BY <1>7 DEF FinishUndo, PlanInv, Executed, Rank
<1> QED
  BY <1>1, <1>2, <1>3, <1>4, <1>5, <1>6, <1>7 DEF Next, ApplyNothing, vars

-----------------------------------------------------------------------------
(* Effects *)

\* An operation on o touches no other object, but for the routes of a VRF.
LEMMA EffectFacts ==
  ASSUME TypeOK, NEW o \in Obj, NEW c \in Cfg
  PROVE  /\ Put(o, c)[o] = c[o] /\ Remove(o)[o] = Absent
         /\ HalfDone(o, c) => dp'[o] \in {dp[o], Partial}
         /\ \A x \in Obj : Kind[x] # "route" /\ x # o =>
              /\ Put(o, c)[x] = dp[x] /\ Remove(o)[x] = dp[x]
              /\ HalfDone(o, c) => dp'[x] = dp[x]
<1>1. dp \in [Obj -> Val \cup {Absent, Partial}] /\ c \in [Obj -> Val \cup {Absent}]
  BY ConfigType DEF TypeOK
<1>2. Put(o, c)[o] = c[o] /\ Remove(o)[o] = Absent
  BY DEF Put, Remove
<1>3. HalfDone(o, c) => dp'[o] \in {dp[o], Partial}
  BY <1>1, EffectType DEF HalfDone
<1>4. ASSUME NEW x \in Obj, Kind[x] # "route", x # o
      PROVE  /\ Put(o, c)[x] = dp[x] /\ Remove(o)[x] = dp[x]
             /\ HalfDone(o, c) => dp'[x] = dp[x]
  <2>1. Put(o, c)[x] = dp[x] /\ Remove(o)[x] = dp[x]
    BY <1>4 DEF Put, Remove, RoutesOf
  <2>2. HalfDone(o, c) => dp'[x] = dp[x]
    BY <1>1, <1>4, <2>1, EffectType DEF HalfDone
  <2> QED
    BY <2>1, <2>2
<1> QED
  BY <1>2, <1>3, <1>4

\* An alarm is lost by the success of an operation on its object only.
LEMMA SucceededKnown ==
  ASSUME NEW op \in todo, Succeeded(op), deferred \ {op.obj} \subseteq deferred'
  PROVE  \A o \in Obj : o # op.obj /\ Known(o) => Known(o)'
BY DEF Succeeded, Known, Alarmed

-----------------------------------------------------------------------------
(* RunInv *)

LEMMA SucceededRun ==
  ASSUME TypeOK, PlanInv, RunInv, phase = "run", NEW op \in todo, Succeeded(op),
         UNCHANGED <<committed, target, phase>>,
         deferred \ {op.obj} \subseteq deferred',
         dp'[op.obj] = target[op.obj] \/ op.obj \in deferred'
           \/ (op.obj \in Dpdk /\ Kind[op.obj] = "interface"),
         \A o \in Obj \ {op.obj} : dp'[o] = dp[o] \/ dp'[o] = target[o]
  PROVE  RunInv'
<1>1. Plan(committed, target)' = Plan(committed, target)
  BY DEF Plan, Additions, Deletions, Changed
<1>2. op \in Plan(committed, target)
  BY DEF PlanInv
<1> SUFFICES ASSUME NEW p \in Plan(committed, target), p \notin todo'
             PROVE  /\ p \notin alarms'
                    /\ \/ dp'[p.obj] = target[p.obj]
                       \/ p.obj \in deferred'
                       \/ p.obj \in Dpdk /\ Kind[p.obj] = "interface"
  BY <1>1 DEF RunInv
<1>3. CASE p = op
  BY <1>3 DEF Succeeded
<1>4. CASE p # op
  <2>1. p \notin todo /\ p.obj # op.obj /\ p.obj \in Obj
    BY <1>2, <1>4, OnePerObject, PlanFacts DEF Succeeded, TypeOK, Operation
  <2>2. /\ p \notin alarms
        /\ \/ dp[p.obj] = target[p.obj]
           \/ p.obj \in deferred
           \/ p.obj \in Dpdk /\ Kind[p.obj] = "interface"
    BY <2>1 DEF RunInv
  <2> QED
    BY <2>1, <2>2 DEF Succeeded
<1> QED
  BY <1>3, <1>4

\* What an operation of the plan does to the routes of its VRF agrees with the target.
LEMMA RunOthers ==
  ASSUME TypeOK, PlanInv, NEW op \in todo, Run(op)
  PROVE  /\ op \in Plan(committed, target) /\ op.obj \in Obj /\ target \in Cfg
         /\ op.del => dp' = Remove(op.obj) /\ target[op.obj] = Absent
         /\ ~op.del => dp' = Put(op.obj, target) /\ CanPut(op.obj, target)
         /\ dp'[op.obj] = target[op.obj]
         /\ \A o \in Obj \ {op.obj} : dp'[o] = dp[o] \/ dp'[o] = target[o]
<1>1. op \in Plan(committed, target) /\ op.obj \in Obj /\ target \in Cfg /\ committed \in Cfg
  BY DEF PlanInv, Run, TypeOK, Operation
<1>2. CASE op.del
  <2>1. dp' = Remove(op.obj) /\ target[op.obj] = Absent
    BY <1>1, <1>2, PlanFacts DEF Run
  <2>2. \A r \in RoutesOf(op.obj) : target[r] = Absent
    BY <1>1, <2>1, ApplyAssumption DEF WellFormed, RoutesOf
  <2>3. \A o \in Obj \ {op.obj} : dp'[o] = dp[o] \/ dp'[o] = target[o]
    BY <2>1, <2>2 DEF Remove
  <2> QED
    BY <1>1, <1>2, <2>1, <2>3, EffectFacts
<1>3. CASE ~op.del
  <2>1. dp' = Put(op.obj, target) /\ CanPut(op.obj, target)
    BY <1>3 DEF Run
  <2>2. \A o \in Obj \ {op.obj} : dp'[o] = dp[o] \/ dp'[o] = target[o]
    BY <2>1 DEF Put
  <2> QED
    BY <1>1, <1>3, <2>1, <2>2, EffectFacts
<1> QED
  BY <1>2, <1>3

LEMMA RunStep == TypeOK /\ PlanInv /\ RunInv /\ [Next]_vars => RunInv'
<1> SUFFICES ASSUME TypeOK, PlanInv, RunInv, [Next]_vars, phase' = "run" PROVE RunInv'
  BY DEF RunInv
<1>1. ASSUME UNCHANGED <<committed, target, phase, todo, dp, alarms, deferred>> PROVE RunInv'
  BY <1>1 DEF RunInv, Plan, Additions, Deletions, Changed
<1>2. ASSUME NEW new \in Cfg, Begin(new) PROVE RunInv'
  BY <1>2 DEF Begin, RunInv, Plan, Additions, Deletions, Changed
<1>3. ASSUME NEW op \in todo, Run(op) PROVE RunInv'
  <2>1. deferred \ {op.obj} \subseteq deferred'
    BY <1>3 DEF Run
  <2> QED
    BY <1>3, <2>1, RunOthers, SucceededRun DEF Run
<1>4. ASSUME NEW op \in todo, RunVrfDeferred(op) PROVE RunInv'
  <2>1. op.obj \in deferred' /\ deferred \subseteq deferred'
    BY <1>4 DEF RunVrfDeferred
  <2>2. \A o \in Obj \ {op.obj} : dp'[o] = dp[o]
    BY <1>4 DEF RunVrfDeferred, TypeOK
  <2> QED
    BY <1>4, <2>1, <2>2, SucceededRun DEF RunVrfDeferred
<1>5. ASSUME NEW op \in todo, RunIfaceDeferred(op) PROVE RunInv'
  BY <1>5, SucceededRun DEF RunIfaceDeferred
<1>6. ASSUME NEW op \in todo, RunFails(op) PROVE RunInv'
  BY <1>6 DEF RunFails
<1> QED
  BY <1>1, <1>2, <1>3, <1>4, <1>5, <1>6
     DEF Next, ApplyNothing, Finish, Undo, UndoFails, FinishUndo, vars

-----------------------------------------------------------------------------
(* UndoInv *)

\* A step of a commit that runs op leaves op to be undone, or converged and known.
LEMMA RanUndo ==
  ASSUME TypeOK, UndoInv, NEW op \in todo, Executed' = Executed \cup {op},
         UNCHANGED committed, \A o \in Obj \ {op.obj} : Known(o) => Known(o)',
         \A o \in Obj \ {op.obj} : Kind[o] # "route" => dp'[o] = dp[o]
  PROVE  UndoInv'
<1> SUFFICES ASSUME NEW o \in Obj, Kind[o] # "route"
             PROVE  \/ dp'[o] = committed[o] \/ Known(o)' \/ ExecutedObj(o)'
                    \/ o \in Dpdk \/ Unmanaged(o)
  BY DEF UndoInv, Unmanaged
<1>1. CASE o = op.obj
  BY <1>1 DEF ExecutedObj
<1>2. CASE o # op.obj
  <2>1. \/ dp[o] = committed[o] \/ Known(o) \/ ExecutedObj(o)
        \/ o \in Dpdk \/ Unmanaged(o)
    BY DEF UndoInv
  <2>2. ExecutedObj(o) => ExecutedObj(o)'
    BY DEF ExecutedObj
  <2> QED
    BY <1>2, <2>1, <2>2
<1> QED
  BY <1>1, <1>2

LEMMA UndoneUndo ==
  ASSUME TypeOK, UndoInv, NEW op, op.obj \in Obj, Executed = Executed' \cup {op},
         UNCHANGED committed, \A o \in Obj : Known(o) => Known(o)',
         \A o \in Obj \ {op.obj} : Kind[o] # "route" => dp'[o] = dp[o],
         \/ dp'[op.obj] = committed[op.obj] \/ Known(op.obj)'
         \/ op.obj \in Dpdk \/ Unmanaged(op.obj)
  PROVE  UndoInv'
<1> SUFFICES ASSUME NEW o \in Obj, Kind[o] # "route"
             PROVE  \/ dp'[o] = committed[o] \/ Known(o)' \/ ExecutedObj(o)'
                    \/ o \in Dpdk \/ Unmanaged(o)
  BY DEF UndoInv, Unmanaged
<1>1. CASE o = op.obj
  BY <1>1
<1>2. CASE o # op.obj
  <2>1. \/ dp[o] = committed[o] \/ Known(o) \/ ExecutedObj(o)
        \/ o \in Dpdk \/ Unmanaged(o)
    BY DEF UndoInv
  <2>2. ExecutedObj(o) => ExecutedObj(o)'
    BY <1>2 DEF ExecutedObj
  <2> QED
    BY <1>2, <2>1, <2>2
<1> QED
  BY <1>1, <1>2

\* What the compensation of an operation does to the object of it.
LEMMA UndoEffect ==
  ASSUME TypeOK, PlanInv, Undo
  PROVE  /\ LastExecuted \in Plan(committed, target) /\ LastExecuted.obj \in Obj
         /\ committed \in Cfg /\ target \in Cfg
         /\ \/ dp'[LastExecuted.obj] = committed[LastExecuted.obj]
            \/ Unmanaged(LastExecuted.obj) /\ dp' = dp
         /\ \A o \in Obj \ {LastExecuted.obj} : Kind[o] # "route" => dp'[o] = dp[o]
<1>1. LastExecuted \in Executed /\ phase = "undo"
  BY DropExecuted DEF Undo
<1>2. /\ LastExecuted \in Plan(committed, target) /\ LastExecuted.obj \in Obj
      /\ committed \in Cfg /\ target \in Cfg
  BY <1>1, DropType DEF PlanInv, Undo, TypeOK
<1>3. CASE NilUndo(LastExecuted) /\ UNCHANGED dp
  BY <1>2, <1>3 DEF NilUndo, Unmanaged
<1>4. CASE UndoDeletes(LastExecuted) /\ dp' = Remove(LastExecuted.obj)
  BY <1>2, <1>4, EffectFacts DEF UndoDeletes
<1>5. CASE dp' = Put(LastExecuted.obj, committed)
  BY <1>2, <1>5, EffectFacts
<1> QED
  BY <1>3, <1>4, <1>5 DEF Undo

\* A commit that ends has the objects it planned as the new configuration wants
\* them, and the others as they were.
LEMMA FinishUndoInv ==
  ASSUME TypeOK, PlanInv, RunInv, UndoInv, Finish
  PROVE  UndoInv'
<1> SUFFICES ASSUME NEW o \in Obj, Kind[o] # "route"
             PROVE  \/ dp[o] = target[o] \/ Known(o) \/ o \in Dpdk
                    \/ (Kind[o] = "interface" /\ target[o] = Absent)
  BY DEF UndoInv, Unmanaged, Finish, Known, Alarmed
<1>1. committed \in Cfg /\ target \in Cfg /\ todo = {} /\ phase = "run"
  BY DEF TypeOK, Finish
<1>2. CASE \E op \in Plan(committed, target) : op.obj = o
  BY <1>1, <1>2 DEF RunInv, Known, Alarmed
<1>3. CASE \A op \in Plan(committed, target) : op.obj # o
  <2>1. ~ExecutedObj(o)
    BY <1>1, <1>3 DEF ExecutedObj, PlanInv
  <2>2. committed[o] = target[o] \/ (Kind[o] = "interface" /\ target[o] = Absent)
    BY <1>1, <1>3, Unplanned
  <2> QED
    BY <2>1, <2>2 DEF UndoInv, Unmanaged
<1> QED
  BY <1>2, <1>3

LEMMA UndoStepInv == TypeOK /\ PlanInv /\ RunInv /\ UndoInv /\ [Next]_vars => UndoInv'
<1> SUFFICES ASSUME TypeOK, PlanInv, RunInv, UndoInv, [Next]_vars PROVE UndoInv'
  OBVIOUS
<1>1. ASSUME UNCHANGED <<committed, executed, dp, alarms, deferred, leaked>> PROVE UndoInv'
  BY <1>1 DEF UndoInv, Executed, ExecutedObj, Known, Alarmed, Unmanaged
<1>2. ASSUME NEW new \in Cfg, Begin(new) PROVE UndoInv'
  <2>1. executed = << >> /\ executed' = << >>
    BY <1>2 DEF Begin, TypeOK
  <2> QED
    BY <1>1, <1>2, <2>1 DEF Begin
<1>3. ASSUME NEW op \in todo, Run(op) PROVE UndoInv'
  <2>1. op.obj \in Obj /\ target \in Cfg /\ (dp' = Remove(op.obj) \/ dp' = Put(op.obj, target))
    BY <1>3, RunOthers
  <2>2. \A o \in Obj \ {op.obj} : Kind[o] # "route" => dp'[o] = dp[o]
    BY <2>1, EffectFacts
  <2> QED
    BY <1>3, <2>1, <2>2, RanUndo, SucceededKnown, AppendExecuted DEF Run, Succeeded
<1>4. ASSUME NEW op \in todo, RunVrfDeferred(op) \/ RunIfaceDeferred(op) PROVE UndoInv'
  <2>1. \A o \in Obj \ {op.obj} : dp'[o] = dp[o]
    BY <1>4 DEF RunVrfDeferred, RunIfaceDeferred, TypeOK
  <2>2. Succeeded(op) /\ UNCHANGED committed /\ deferred \ {op.obj} \subseteq deferred'
    BY <1>4 DEF RunVrfDeferred, RunIfaceDeferred
  <2>3. executed' = Append(executed, op)
    BY <2>2 DEF Succeeded
  <2> QED
    BY <2>1, <2>2, <2>3, RanUndo, SucceededKnown, AppendExecuted
<1>5. ASSUME NEW op \in todo, RunFails(op) PROVE UndoInv'
  <2>1. op.obj \in Obj /\ target \in Cfg /\ HalfDone(op.obj, target)
    BY <1>5 DEF RunFails, TypeOK, Operation
  <2>2. \A o \in Obj \ {op.obj} : Kind[o] # "route" => dp'[o] = dp[o]
    BY <2>1, EffectFacts
  <2>3. UNCHANGED committed /\ \A o \in Obj : Known(o) => Known(o)'
    BY <1>5 DEF RunFails, Known, Alarmed
  <2>4. CASE UndoesItself(op)
    BY <1>5, <2>2, <2>3, <2>4, RanUndo, AppendExecuted DEF RunFails
  <2>5. CASE ~UndoesItself(op)
    <3>1. Executed' = Executed
      BY <1>5, <2>5 DEF RunFails, Executed
    <3>2. dp' = dp \/ Known(op.obj)'
      BY <1>5, <2>5 DEF RunFails, Known
    <3>3. ASSUME NEW o \in Obj, Kind[o] # "route"
          PROVE  \/ dp'[o] = committed[o] \/ Known(o)' \/ ExecutedObj(o)'
                 \/ o \in Dpdk \/ Unmanaged(o)
      <4>1. \/ dp[o] = committed[o] \/ Known(o) \/ ExecutedObj(o)
            \/ o \in Dpdk \/ Unmanaged(o)
        BY <3>3 DEF UndoInv
      <4> QED
        BY <2>2, <2>3, <3>1, <3>2, <3>3, <4>1 DEF ExecutedObj
    <3> QED
      BY <2>3, <3>3 DEF UndoInv, Unmanaged
  <2> QED
    BY <2>4, <2>5
<1>6. CASE Finish
  BY <1>6, FinishUndoInv
<1>7. CASE Undo
  <2>1. PICK op \in Operation : op = LastExecuted
    BY <1>7, DropType DEF Undo
  <2>2. Executed = Executed' \cup {op}
    BY <1>7, <2>1, DropExecuted DEF Undo
  <2>3. UNCHANGED committed /\ \A o \in Obj : Known(o) => Known(o)'
    BY <1>7 DEF Undo, Known, Alarmed
  <2> QED
    BY <1>7, <2>1, <2>2, <2>3, UndoEffect, UndoneUndo
<1>8. CASE UndoFails
  <2>1. PICK op \in Operation : op = LastExecuted
    BY <1>8, DropType DEF UndoFails
  <2>2. Executed = Executed' \cup {op} /\ op.obj \in Obj
    BY <1>8, <2>1, DropExecuted DEF UndoFails, Operation
  <2>3. UNCHANGED committed /\ \A o \in Obj : Known(o) => Known(o)'
    BY <1>8 DEF UndoFails, Known, Alarmed
  <2>4. Known(op.obj)'
    BY <1>8, <2>1 DEF UndoFails, Known, Alarmed
  <2>5. HalfDone(op.obj, committed) /\ committed \in Cfg
    BY <1>8, <2>1 DEF UndoFails, TypeOK
  <2>6. \A o \in Obj \ {op.obj} : Kind[o] # "route" => dp'[o] = dp[o]
    BY <2>2, <2>5, EffectFacts
  <2> QED
    BY <2>2, <2>3, <2>4, <2>6, UndoneUndo
<1>9. CASE FinishUndo
  BY <1>1, <1>9 DEF FinishUndo
<1> QED
  BY <1>1, <1>2, <1>3, <1>4, <1>5, <1>6, <1>7, <1>8, <1>9 DEF Next, ApplyNothing, vars

-----------------------------------------------------------------------------
(* SettingInv *)

LEMMA KeptSetting ==
  ASSUME TypeOK, SettingInv, UNCHANGED <<committed, target>>, NEW o \in Obj,
         Kind[o] \notin {"route", "interface"}, dp'[o] # Partial, dp'[o] = dp[o],
         Executed \subseteq Executed', Known(o) => Known(o)'
  PROVE  dp'[o] = committed'[o] \/ Known(o)' \/ (ExecutedObj(o)' /\ dp'[o] = target'[o])
BY DEF SettingInv, ExecutedObj

LEMMA SettingStep ==
  TypeOK /\ PlanInv /\ RunInv /\ SettingInv /\ [Next]_vars => SettingInv'
<1> SUFFICES ASSUME TypeOK, PlanInv, RunInv, SettingInv, [Next]_vars,
                    NEW o \in Obj, Kind[o] \notin {"route", "interface"}, dp'[o] # Partial
             PROVE  dp'[o] = committed'[o] \/ Known(o)' \/ (ExecutedObj(o)' /\ dp'[o] = target'[o])
  BY DEF SettingInv
<1>1. ASSUME UNCHANGED <<committed, target, executed, dp, alarms, deferred, leaked>>
      PROVE  dp'[o] = committed'[o] \/ Known(o)' \/ (ExecutedObj(o)' /\ dp'[o] = target'[o])
  BY <1>1, KeptSetting DEF Executed, Known, Alarmed
<1>2. ASSUME NEW new \in Cfg, Begin(new)
      PROVE  dp'[o] = committed'[o] \/ Known(o)'
  <2>1. ~ExecutedObj(o) /\ (Known(o) => Known(o)')
    BY <1>2 DEF Begin, TypeOK, ExecutedObj, Executed, Known, Alarmed
  <2> QED
    BY <1>2, <2>1 DEF Begin, SettingInv
<1>3. ASSUME NEW op \in todo, Run(op) \/ RunVrfDeferred(op) \/ RunIfaceDeferred(op)
      PROVE  dp'[o] = committed'[o] \/ Known(o)' \/ (ExecutedObj(o)' /\ dp'[o] = target'[o])
  <2>1. Succeeded(op) /\ UNCHANGED <<committed, target>> /\ op \in Executed'
        /\ Executed \subseteq Executed'
    <3>1. Succeeded(op) /\ UNCHANGED <<committed, target>>
      BY <1>3 DEF Run, RunVrfDeferred, RunIfaceDeferred
    <3> QED
      BY <3>1, AppendExecuted DEF Succeeded
  <2>2. CASE o = op.obj
    <3>1. ASSUME Run(op) PROVE dp'[o] = target[o]
      BY <2>2, <3>1, RunOthers
    <3>2. ~RunVrfDeferred(op)
      BY <2>2, ApplyAssumption DEF RunVrfDeferred, TypeOK
    <3>3. ~RunIfaceDeferred(op)
      BY <2>2 DEF RunIfaceDeferred
    <3> QED
      BY <1>3, <2>1, <2>2, <3>1, <3>2, <3>3 DEF ExecutedObj
  <2>3. CASE o # op.obj
    <3>1. dp'[o] = dp[o]
      <4>1. ASSUME Run(op) PROVE dp'[o] = dp[o]
        BY <2>3, <4>1, RunOthers, EffectFacts
      <4>2. ASSUME RunVrfDeferred(op) \/ RunIfaceDeferred(op) PROVE dp'[o] = dp[o]
        BY <2>3, <4>2 DEF RunVrfDeferred, RunIfaceDeferred, TypeOK
      <4> QED
        BY <1>3, <4>1, <4>2
    <3>2. deferred \ {op.obj} \subseteq deferred'
      BY <1>3 DEF Run, RunVrfDeferred, RunIfaceDeferred
    <3> QED
      BY <2>1, <2>3, <3>1, <3>2, SucceededKnown, KeptSetting
  <2> QED
    BY <2>2, <2>3
<1>4. ASSUME NEW op \in todo, RunFails(op)
      PROVE  dp'[o] = committed'[o] \/ Known(o)' \/ (ExecutedObj(o)' /\ dp'[o] = target'[o])
  <2>1. op.obj \in Obj /\ target \in Cfg /\ HalfDone(op.obj, target)
    BY <1>4 DEF RunFails, TypeOK, Operation
  <2>2. dp'[o] = dp[o]
    BY <2>1, EffectFacts, ApplyAssumption
  <2>3. Known(o) => Known(o)'
    BY <1>4 DEF RunFails, Known, Alarmed
  <2>4. Executed \subseteq Executed' /\ UNCHANGED <<committed, target>>
    <3>1. CASE executed' = executed
      BY <1>4, <3>1 DEF RunFails, Executed
    <3>2. CASE executed' = Append(executed, op)
      BY <1>4, <3>2, AppendExecuted DEF RunFails
    <3> QED
      BY <1>4, <3>1, <3>2 DEF RunFails
  <2> QED
    BY <2>2, <2>3, <2>4, KeptSetting
<1>5. ASSUME Finish PROVE dp'[o] = committed'[o] \/ Known(o)'
  <2>1. /\ committed \in Cfg /\ target \in Cfg /\ todo = {} /\ phase = "run"
        /\ dp' = dp /\ committed' = target /\ (Known(o) => Known(o)')
    BY <1>5 DEF TypeOK, Finish, Known, Alarmed
  <2>2. CASE \E op \in Plan(committed, target) : op.obj = o
    BY <2>1, <2>2 DEF RunInv, Known, Alarmed
  <2>3. CASE \A op \in Plan(committed, target) : op.obj # o
    <3>1. ~ExecutedObj(o)
      BY <2>1, <2>3 DEF ExecutedObj, PlanInv
    <3>2. committed[o] = target[o]
      BY <2>1, <2>3, Unplanned
    <3> QED
      BY <2>1, <3>1, <3>2 DEF SettingInv
  <2> QED
    BY <2>2, <2>3
<1>6. ASSUME Undo \/ UndoFails
      PROVE  dp'[o] = committed'[o] \/ Known(o)' \/ (ExecutedObj(o)' /\ dp'[o] = target'[o])
  <2>1. PICK op \in Operation : op = LastExecuted
    BY <1>6, DropType DEF Undo, UndoFails
  <2>2. /\ Executed = Executed' \cup {op} /\ UNCHANGED <<committed, target>>
        /\ Known(o) => Known(o)'
    BY <1>6, <2>1, DropExecuted DEF Undo, UndoFails, Known, Alarmed
  <2>3. CASE o = op.obj
    <3>1. ASSUME Undo PROVE dp'[o] = committed[o]
      BY <2>1, <2>3, <3>1, UndoEffect DEF Unmanaged
    <3>2. ASSUME UndoFails PROVE Known(o)'
      BY <2>1, <2>3, <3>2 DEF UndoFails, Known, Alarmed
    <3> QED
      BY <1>6, <2>2, <3>1, <3>2
  <2>4. CASE o # op.obj
    <3>1. dp'[o] = dp[o]
      <4>1. ASSUME Undo PROVE dp'[o] = dp[o]
        BY <2>1, <2>4, <4>1, UndoEffect
      <4>2. ASSUME UndoFails PROVE dp'[o] = dp[o]
        <5>1. HalfDone(op.obj, committed) /\ committed \in Cfg /\ op.obj \in Obj
          BY <2>1, <4>2 DEF UndoFails, TypeOK, Operation
        <5> QED
          BY <2>4, <5>1, EffectFacts
      <4> QED
        BY <1>6, <4>1, <4>2
    <3>2. ExecutedObj(o) => ExecutedObj(o)'
      BY <2>2, <2>4 DEF ExecutedObj
    <3> QED
      BY <2>2, <3>1, <3>2 DEF SettingInv
  <2> QED
    BY <2>3, <2>4
<1>7. ASSUME FinishUndo
      PROVE  dp'[o] = committed'[o] \/ Known(o)' \/ (ExecutedObj(o)' /\ dp'[o] = target'[o])
  BY <1>1, <1>7 DEF FinishUndo
<1> QED
  BY <1>1, <1>2, <1>3, <1>4, <1>5, <1>6, <1>7 DEF Next, ApplyNothing, vars

-----------------------------------------------------------------------------
(* RefsLive *)

\* The order of the kinds that references connect: what a setting refers to is
\* applied before it, and deleted after it.
LEMMA AddPositions ==
  /\ Position(AddOrder, "vnf-if") = 1 /\ Position(AddOrder, "acl") = 2
  /\ Position(AddOrder, "bond") = 3 /\ Position(AddOrder, "bridge-domain") = 4
  /\ Position(AddOrder, "vrf") = 5 /\ Position(AddOrder, "nat") = 6
  /\ Position(AddOrder, "vm") = 11 /\ Position(AddOrder, "container") = 12
<1>1. DOMAIN AddOrder = 1..12
  BY DEF AddOrder
<1>2. /\ AddOrder[1] = "vnf-if" /\ AddOrder[2] = "acl" /\ AddOrder[3] = "bond"
      /\ AddOrder[4] = "bridge-domain" /\ AddOrder[5] = "vrf" /\ AddOrder[6] = "nat"
      /\ AddOrder[7] = "span" /\ AddOrder[8] = "qos" /\ AddOrder[9] = "lldp"
      /\ AddOrder[10] = "interface" /\ AddOrder[11] = "vm" /\ AddOrder[12] = "container"
  BY DEF AddOrder
<1>3. ASSUME NEW k, NEW n \in 1..12, AddOrder[n] = k, \A i \in 1..12 : AddOrder[i] = k => i = n
      PROVE  Position(AddOrder, k) = n
  BY <1>1, <1>3 DEF Position
<1> HIDE DEF AddOrder
<1>4. \A i \in 1..12 : \/ i = 1 \/ i = 2 \/ i = 3 \/ i = 4 \/ i = 5 \/ i = 6
                       \/ i = 7 \/ i = 8 \/ i = 9 \/ i = 10 \/ i = 11 \/ i = 12
  OBVIOUS
<1>5. \A i, j \in 1..12 : AddOrder[i] = AddOrder[j] => i = j
  <2> SUFFICES ASSUME NEW i \in 1..12, NEW j \in 1..12, AddOrder[i] = AddOrder[j] PROVE i = j
    OBVIOUS
  <2> QED
    BY <1>2, <1>4
<1> QED
  BY <1>2, <1>3, <1>5

LEMMA DelPositions ==
  /\ Position(DelOrder, "container") = 1 /\ Position(DelOrder, "vm") = 2
  /\ Position(DelOrder, "bridge-domain") = 3 /\ Position(DelOrder, "vrf") = 5
  /\ Position(DelOrder, "bond") = 6 /\ Position(DelOrder, "vnf-if") = 7
  /\ Position(DelOrder, "acl") = 10
<1>1. DOMAIN DelOrder = 1..10
  BY DEF DelOrder
<1>2. /\ DelOrder[1] = "container" /\ DelOrder[2] = "vm" /\ DelOrder[3] = "bridge-domain"
      /\ DelOrder[4] = "route" /\ DelOrder[5] = "vrf" /\ DelOrder[6] = "bond"
      /\ DelOrder[7] = "vnf-if" /\ DelOrder[8] = "span" /\ DelOrder[9] = "qos"
      /\ DelOrder[10] = "acl"
  BY DEF DelOrder
<1>3. ASSUME NEW k, NEW n \in 1..10, DelOrder[n] = k, \A i \in 1..10 : DelOrder[i] = k => i = n
      PROVE  Position(DelOrder, k) = n
  BY <1>1, <1>3 DEF Position
<1> HIDE DEF DelOrder
<1>4. \A i \in 1..10 : \/ i = 1 \/ i = 2 \/ i = 3 \/ i = 4 \/ i = 5
                       \/ i = 6 \/ i = 7 \/ i = 8 \/ i = 9 \/ i = 10
  OBVIOUS
<1>5. \A i, j \in 1..10 : DelOrder[i] = DelOrder[j] => i = j
  <2> SUFFICES ASSUME NEW i \in 1..10, NEW j \in 1..10, DelOrder[i] = DelOrder[j] PROVE i = j
    OBVIOUS
  <2> QED
    BY <1>2, <1>4
<1> QED
  BY <1>2, <1>3, <1>5

\* What a setting refers to.
LEMMA Referred ==
  ASSUME NEW o \in Obj, NEW v \in Val, NEW x \in Refs[o][v]
  PROVE  /\ x \in Obj /\ Kind[x] \notin Singleton \cup {"route"} /\ Kind[o] # "interface"
         /\ Kind[o] = "route" => x = Owner[o] /\ Kind[x] = "vrf"
         /\ Kind[o] \notin {"route", "span"} =>
              Position(AddOrder, Kind[x]) < Position(AddOrder, Kind[o])
         /\ Kind[o] \notin {"route", "span"} \cup Singleton /\ Kind[x] # "interface" =>
              Position(DelOrder, Kind[o]) < Position(DelOrder, Kind[x])
<1>1. x \in Obj /\ <<Kind[o], Kind[x]>> \in Reference /\ (Kind[o] = "route" => x = Owner[o])
  BY ApplyAssumption, ReferenceAssumption
<1> DEFINE k == Kind[o]
           l == Kind[x]
<1>2. \/ k = "bridge-domain" /\ l \in {"vnf-if", "bond", "acl"}
      \/ k = "vrf" /\ l \in {"vnf-if", "bond", "acl"}
      \/ k = "nat" /\ l \in {"vrf", "vnf-if", "bond"}
      \/ k \in {"vm", "container"} /\ l = "vnf-if"
      \/ k = "span" /\ l \in {"vnf-if", "bond"}
      \/ k = "route" /\ l = "vrf"
  BY <1>1 DEF Reference
<1>3. /\ l \notin Singleton \cup {"route"} /\ k # "interface"
      /\ k = "route" => l = "vrf"
  BY <1>2 DEF Singleton
<1>4. k \notin {"route", "span"} => Position(AddOrder, l) < Position(AddOrder, k)
  BY <1>2, AddPositions
<1>5. k \notin {"route", "span"} \cup Singleton => Position(DelOrder, k) < Position(DelOrder, l)
  BY <1>2, DelPositions DEF Singleton
<1> QED
  BY <1>1, <1>3, <1>4, <1>5

LEMMA ConfigRefs ==
  ASSUME NEW c \in Cfg, NEW o \in Obj, c[o] # Absent, NEW x \in Refs[o][c[o]]
  PROVE  c[o] \in Val /\ x \in Obj /\ c[x] # Absent
BY ApplyAssumption DEF WellFormed

\* z refers to x, which is gone.
Dangles(z, x) == dp[z] \in Val /\ x \in Refs[z][dp[z]] /\ dp[x] = Absent

\* What tells of it.
Covered(z, x) ==
  \/ Known(z) \/ Kind[z] = "span"
  \/ <<Kind[z], Kind[x]>> \in Unasked /\ Known(x)

LEMMA UnaskedFacts ==
  ASSUME NEW z \in Obj, NEW x \in Obj, <<Kind[z], Kind[x]>> \in Unasked
  PROVE  /\ z # x /\ Kind[x] \notin Singleton \cup {"route", "interface"}
         /\ Kind[z] \notin {"route", "span"}
BY DEF Unasked, Singleton

\* Applying o takes nothing away, and leaves no reference of o dangling but those its
\* provider did not ask about.
LEMMA PutRefs ==
  ASSUME TypeOK, NEW o \in Obj, NEW c \in Cfg, dp' = Put(o, c), CanPut(o, c),
         c[o] # Absent \/ Kind[o] \in Singleton,
         NEW z \in Obj, NEW x, Dangles(z, x)'
  PROVE  /\ x \in Obj /\ x # o
         /\ \/ z # o /\ Dangles(z, x)
            \/ /\ z = o /\ <<Kind[o], Kind[x]>> \in Unasked /\ dp[x] = Absent
               /\ c[o] \in Val /\ x \in Refs[o][c[o]] /\ c[x] # Absent
<1>1. x \in Refs[z][dp'[z]] /\ dp'[x] = Absent /\ dp'[z] \in Val /\ x \in Obj
  BY Referred DEF Dangles
<1>3. x # o /\ dp'[x] = dp[x] /\ dp[x] = Absent
  <2>1. Kind[x] \notin Singleton \cup {"route"}
    BY <1>1, Referred
  <2>2. dp'[o] = c[o]
    BY EffectFacts
  <2>3. x # o
    BY <1>1, <2>1, <2>2
  <2> QED
    BY <1>1, <2>1, <2>3, EffectFacts
<1>4. CASE z = o
  <2>1. dp'[o] = c[o]
    BY EffectFacts
  <2>2. c[o] \in Val /\ c[o] # Absent /\ x \in Refs[o][c[o]]
    BY <1>1, <1>4, <2>1, ApplyAssumption
  <2>3. <<Kind[o], Kind[x]>> \in Unasked
    BY <1>3, <2>2 DEF CanPut
  <2> QED
    BY <1>1, <1>3, <1>4, <2>2, <2>3, ConfigRefs
<1>5. CASE z # o
  <2>1. CASE Kind[z] # "route"
    <3>1. dp'[z] = dp[z]
      BY <1>5, <2>1, EffectFacts
    <3> QED
      BY <1>1, <1>3, <1>5, <3>1 DEF Dangles
  <2>2. CASE Kind[z] = "route"
    <3>1. x = Owner[z]
      BY <1>1, <2>2, Referred
    <3>2. z \notin RoutesOf(o)
      BY <1>3, <3>1 DEF RoutesOf
    <3>3. dp'[z] = dp[z]
      BY <1>5, <3>2 DEF Put
    <3> QED
      BY <1>1, <1>3, <1>5, <3>3 DEF Dangles
  <2> QED
    BY <2>1, <2>2
<1> QED
  BY <1>4, <1>5

\* Removing o leaves those dangling that refer to o.
LEMMA RemoveRefs ==
  ASSUME TypeOK, NEW o \in Obj, dp' = Remove(o), NEW z \in Obj, NEW x, Dangles(z, x)'
  PROVE  /\ z # o /\ x \in Obj
         /\ \/ x # o /\ Dangles(z, x)
            \/ /\ x = o /\ Kind[z] \notin {"route", "interface"} /\ dp'[z] = dp[z]
               /\ dp[z] \in Val /\ o \in Refs[z][dp[z]]
<1>1. /\ x \in Refs[z][dp'[z]] /\ dp'[x] = Absent
      /\ dp'[z] \in Val /\ x \in Obj /\ Kind[x] # "route" /\ Kind[z] # "interface"
  BY Referred DEF Dangles
<1>3. PICK c \in Cfg : TRUE
  BY ApplyAssumption
<1>4. z # o /\ z \notin RoutesOf(o)
  BY <1>1, ApplyAssumption DEF Remove
<1>5. dp'[z] = dp[z]
  BY <1>4 DEF Remove
<1>6. CASE x = o
  <2>1. Kind[z] # "route"
    BY <1>1, <1>4, <1>6, Referred DEF RoutesOf
  <2> QED
    BY <1>1, <1>4, <1>5, <1>6, <2>1
<1>7. CASE x # o
  <2>1. dp'[x] = dp[x]
    BY <1>1, <1>3, <1>7, EffectFacts
  <2> QED
    BY <1>1, <1>4, <1>5, <1>7, <2>1 DEF Dangles
<1> QED
  BY <1>6, <1>7

LEMMA HalfDoneRefs ==
  ASSUME TypeOK, NEW o \in Obj, NEW c \in Cfg, HalfDone(o, c), NEW z \in Obj, NEW x,
         Dangles(z, x)'
  PROVE  Dangles(z, x)
<1>1. /\ x \in Refs[z][dp'[z]] /\ dp'[x] = Absent
      /\ dp'[z] \in Val /\ x \in Obj /\ Kind[x] # "route"
  BY Referred DEF Dangles
<1>3. CASE dp' = dp
  BY <1>3 DEF Dangles
<1>4. CASE Kind[o] # "route" /\ dp' \in {[d EXCEPT ![o] = Partial] : d \in {dp, Put(o, c)}}
  <2>1. dp'[o] = Partial
    BY <1>4, EffectType DEF TypeOK
  <2>2. z # o /\ x # o
    BY <1>1, <2>1, ApplyAssumption
  <2>3. dp'[x] = dp[x]
    BY <1>1, <2>2, EffectFacts
  <2>4. dp'[z] = dp[z]
    <3>1. CASE Kind[z] # "route"
      BY <2>2, <3>1, EffectFacts
    <3>2. CASE Kind[z] = "route"
      <4>1. x = Owner[z]
        BY <1>1, <3>2, Referred
      <4>2. z \notin RoutesOf(o)
        BY <2>2, <4>1 DEF RoutesOf
      <4>3. Put(o, c)[z] = dp[z]
        BY <2>2, <4>2 DEF Put
      <4> QED
        BY <1>4, <2>2, <4>3, EffectType DEF TypeOK
    <3> QED
      BY <3>1, <3>2
  <2> QED
    BY <1>1, <2>3, <2>4 DEF Dangles
<1> QED
  BY <1>3, <1>4 DEF HalfDone

\* What a deletion of the plan leaves dangling was known before it ran: the objects
\* of the plan that referred to it have gone already, or refer to something else.
LEMMA DeletedRefs ==
  ASSUME TypeOK, PlanInv, RunInv, SettingInv, NEW op \in todo, Run(op), op.del,
         NEW z \in Obj, NEW x, Kind[z] # "span", Dangles(z, x)'
  PROVE  z # op.obj /\ x \in Obj /\ (Known(z) \/ (x # op.obj /\ Dangles(z, x)))
<1>1. /\ op \in Plan(committed, target) /\ op.obj \in Obj /\ dp' = Remove(op.obj)
      /\ target \in Cfg /\ committed \in Cfg /\ phase = "run"
      /\ \A p \in todo : Rank(op) <= Rank(p)
  BY RunOthers DEF TypeOK, Run, Ready
<1>2. /\ target[op.obj] = Absent /\ committed[op.obj] # Absent
      /\ Kind[op.obj] \notin Singleton \cup {"interface"}
  BY <1>1, PlanFacts
<1>3. z # op.obj /\ x \in Obj
  BY <1>1, RemoveRefs
<1>4. ASSUME ~(x # op.obj /\ Dangles(z, x)) PROVE Known(z)
  <2>1. /\ Kind[z] \notin {"route", "interface"} /\ dp'[z] = dp[z]
        /\ dp[z] \in Val /\ op.obj \in Refs[z][dp[z]]
    BY <1>1, <1>4, RemoveRefs
  <2>2. dp[z] # target[z]
    BY <1>1, <1>2, <2>1, ConfigRefs, ApplyAssumption
  <2> SUFFICES ASSUME ~Known(z) PROVE FALSE
    OBVIOUS
  <2>3. dp[z] = committed[z]
    BY <2>1, <2>2, ApplyAssumption DEF SettingInv
  <2>4. PICK p \in Plan(committed, target) : p.obj = z
    BY <1>1, <2>1, <2>2, <2>3, Unplanned
  <2>5. Rank(p) < Rank(op)
    <3>1. CASE p.del
      <4>1. Kind[z] \notin Singleton
        BY <1>1, <2>4, <3>1, PlanFacts
      <4>2. Position(DelOrder, Kind[z]) < Position(DelOrder, Kind[op.obj])
        BY <1>1, <1>2, <2>1, <4>1, Referred
      <4>3. /\ Rank(p) = 12 + Position(DelOrder, Kind[z])
            /\ Rank(op) = 12 + Position(DelOrder, Kind[op.obj])
        BY <1>1, <2>4, <3>1, RankFacts
      <4>4. Kind[z] \in Kinds /\ Kind[op.obj] \in Kinds
        BY <1>1, ApplyAssumption
      <4>5. Position(DelOrder, Kind[z]) \in 1..10 /\ Position(DelOrder, Kind[op.obj]) \in 1..10
        BY <1>2, <2>1, <4>1, <4>4, DelPosition
      <4> QED
        BY <4>2, <4>3, <4>5
    <3>2. CASE ~p.del
      BY <1>1, <2>4, <3>2, RankFacts
    <3> QED
      BY <3>1, <3>2
  <2>6. p \notin todo
    <3>1. Rank(p) \in Nat /\ Rank(op) \in Nat
      BY <1>1, <2>4, RankFacts
    <3> QED
      BY <1>1, <2>5, <3>1
  <2>7. dp[z] = target[z] \/ z \in deferred
    BY <1>1, <2>1, <2>4, <2>6 DEF RunInv
  <2> QED
    BY <2>2, <2>7 DEF Known, Alarmed
<1> QED
  BY <1>3, <1>4

\* The operation to undo next ranks highest among those executed.
LEMMA LastRank ==
  ASSUME TypeOK, PlanInv, executed # << >>, executed' = DropLast,
         NEW q \in Executed, q # LastExecuted
  PROVE  Rank(q) <= Rank(LastExecuted)
<1>1. PICK n \in DOMAIN executed : executed[n] = q
  BY DEF Executed
<1>2. n < Len(executed) /\ Len(executed) \in DOMAIN executed
  <2>1. n # Len(executed)
    BY <1>1 DEF LastExecuted
  <2> QED
    BY <1>1, <2>1, DropExecuted
<1> QED
  BY <1>1, <1>2 DEF PlanInv, LastExecuted

\* What the compensation of an addition leaves dangling was known: whatever was set
\* to refer to the new object was set after it, and has been undone.
LEMMA UndoneRefs ==
  ASSUME TypeOK, PlanInv, SettingInv, phase = "undo", executed # << >>,
         executed' = DropLast, UndoDeletes(LastExecuted), dp' = Remove(LastExecuted.obj),
         NEW z \in Obj, NEW x, Kind[z] # "span", Dangles(z, x)'
  PROVE  Dangles(z, x) \/ Known(z)
<1>1. PICK op \in Operation : op = LastExecuted
  BY DropType
<1>2. /\ op \in Executed /\ op.obj \in Obj /\ ~op.del /\ committed[op.obj] = Absent
      /\ op \in Plan(committed, target) /\ committed \in Cfg /\ target \in Cfg
  BY <1>1, DropExecuted DEF Operation, UndoDeletes, PlanInv, TypeOK
<1> SUFFICES ASSUME ~Dangles(z, x), ~Known(z) PROVE FALSE
  OBVIOUS
<1>3. /\ Kind[z] \notin {"route", "interface"} /\ z # op.obj
      /\ dp[z] \in Val /\ op.obj \in Refs[z][dp[z]]
  BY <1>1, <1>2, RemoveRefs
<1>4. dp[z] # committed[z] /\ dp[z] # Partial
  BY <1>2, <1>3, ConfigRefs, ApplyAssumption
<1>5. PICK q \in Executed : q.obj = z
  BY <1>3, <1>4 DEF SettingInv, ExecutedObj
<1>6. Rank(q) <= Rank(op)
  BY <1>1, <1>3, <1>5, LastRank
<1>7. q \in Plan(committed, target)
  BY <1>5 DEF PlanInv
<1>8. ~q.del
  BY <1>2, <1>6, <1>7, RankFacts
<1>9. Position(AddOrder, Kind[z]) <= Position(AddOrder, Kind[op.obj])
  BY <1>2, <1>5, <1>6, <1>7, <1>8, RankFacts
<1>10. Position(AddOrder, Kind[op.obj]) < Position(AddOrder, Kind[z])
  BY <1>2, <1>3, Referred
<1>11. Kind[z] \in Kinds \ {"route"} /\ Kind[op.obj] \in Kinds \ {"route"}
  BY <1>2, <1>3, ApplyAssumption, PlanFacts
<1> QED
  BY <1>9, <1>10, <1>11, AddPosition

\* What a plan applies on top of something missing, unasked, is known to be missing: it
\* was to be applied before.
LEMMA AppliedUnasked ==
  ASSUME TypeOK, PlanInv, RunInv, SettingInv, NEW op \in todo, Run(op), ~op.del,
         NEW x \in Obj, <<Kind[op.obj], Kind[x]>> \in Unasked, dp[x] = Absent,
         target[op.obj] \in Val, x \in Refs[op.obj][target[op.obj]], target[x] # Absent
  PROVE  Known(x)
<1> SUFFICES ASSUME ~Known(x) PROVE FALSE
  OBVIOUS
<1>1. /\ op \in Plan(committed, target) /\ op.obj \in Obj
      /\ target \in Cfg /\ committed \in Cfg /\ phase = "run"
      /\ \A p \in todo : Rank(op) <= Rank(p)
  BY RunOthers DEF TypeOK, Run, Ready
<1>2. /\ Kind[x] \notin Singleton \cup {"route", "interface"}
      /\ Kind[op.obj] \notin {"route", "span"}
  BY <1>1, UnaskedFacts
<1>3. committed[x] = Absent
  BY <1>2, ApplyAssumption DEF SettingInv
<1>4. PICK p \in Plan(committed, target) : p.obj = x
  BY <1>1, <1>2, <1>3, Unplanned
<1>5. ~p.del
  BY <1>1, <1>4, PlanFacts
<1>6. Rank(p) < Rank(op)
  <2>1. Position(AddOrder, Kind[x]) < Position(AddOrder, Kind[op.obj])
    BY <1>1, <1>2, Referred
  <2> QED
    BY <1>1, <1>4, <1>5, <2>1, RankFacts
<1>7. p \notin todo
  <2>1. Rank(p) \in Nat /\ Rank(op) \in Nat
    BY <1>1, <1>4, RankFacts
  <2> QED
    BY <1>1, <1>6, <2>1
<1>8. dp[x] = target[x] \/ x \in deferred
  BY <1>1, <1>2, <1>4, <1>7 DEF RunInv
<1> QED
  BY <1>8 DEF Known, Alarmed

\* So is what an undo applies on top of: its own deletion, which came later, has been
\* undone before.
LEMMA RestoredUnasked ==
  ASSUME TypeOK, PlanInv, SettingInv, phase = "undo", executed # << >>,
         executed' = DropLast, NEW op \in Operation, op = LastExecuted,
         NEW x \in Obj, <<Kind[op.obj], Kind[x]>> \in Unasked, dp[x] = Absent,
         committed[op.obj] \in Val, x \in Refs[op.obj][committed[op.obj]],
         committed[x] # Absent
  PROVE  Known(x)
<1> SUFFICES ASSUME ~Known(x) PROVE FALSE
  OBVIOUS
<1>1. /\ op \in Executed /\ op.obj \in Obj /\ op \in Plan(committed, target)
      /\ committed \in Cfg /\ target \in Cfg
  BY DropExecuted DEF Operation, PlanInv, TypeOK
<1>2. /\ x # op.obj /\ Kind[x] \notin Singleton \cup {"route", "interface"}
      /\ Kind[op.obj] \notin {"route", "span"}
  BY <1>1, UnaskedFacts
<1>3. ExecutedObj(x) /\ target[x] = Absent
  BY <1>2, ApplyAssumption DEF SettingInv
<1>4. PICK p \in Executed : p.obj = x
  BY <1>3 DEF ExecutedObj
<1>5. p \in Plan(committed, target) /\ p.del
  <2>1. p \in Plan(committed, target)
    BY <1>4 DEF PlanInv
  <2> QED
    BY <1>1, <1>2, <1>3, <1>4, <2>1, PlanFacts
<1>6. Rank(p) <= Rank(op)
  BY <1>2, <1>4, LastRank
<1>7. op.del
  BY <1>1, <1>5, <1>6, RankFacts
<1>8. Kind[op.obj] \notin Singleton \cup {"interface", "route", "span"}
  <2>1. Kind[op.obj] \notin Singleton \cup {"interface"}
    BY <1>1, <1>7, PlanFacts
  <2> QED
    BY <1>2, <2>1
<1>9. Position(DelOrder, Kind[op.obj]) < Position(DelOrder, Kind[x])
  BY <1>1, <1>2, <1>8, Referred
<1>10. /\ Rank(p) = 12 + Position(DelOrder, Kind[x])
       /\ Rank(op) = 12 + Position(DelOrder, Kind[op.obj])
  BY <1>1, <1>4, <1>5, <1>7, RankFacts
<1>11. Position(DelOrder, Kind[x]) \in 1..10 /\ Position(DelOrder, Kind[op.obj]) \in 1..10
  <2>1. Kind[x] \in Kinds /\ Kind[op.obj] \in Kinds
    BY <1>1, ApplyAssumption
  <2> QED
    BY <1>2, <1>8, <2>1, DelPosition
<1> QED
  BY <1>6, <1>9, <1>10, <1>11

LEMMA CoveredRefs == RefsLive <=> \A z \in Obj : \A x : Dangles(z, x) => Covered(z, x)
BY DEF RefsLive, Missing, Dangles, Covered

LEMMA CoveredKept ==
  ASSUME NEW z, NEW x, Covered(z, x), Known(z) => Known(z)', Known(x) => Known(x)'
  PROVE  Covered(z, x)'
BY DEF Covered

\* A success takes the alarm of its own object only, so nothing else loses its cover.
LEMMA SucceededCovered ==
  ASSUME NEW op \in todo, Succeeded(op), deferred \ {op.obj} \subseteq deferred',
         NEW z \in Obj, NEW x \in Obj, z # op.obj, x # op.obj, Covered(z, x)
  PROVE  Covered(z, x)'
BY SucceededKnown, CoveredKept

LEMMA RefsStep ==
  TypeOK /\ PlanInv /\ RunInv /\ SettingInv /\ RefsLive /\ [Next]_vars => RefsLive'
<1> SUFFICES ASSUME TypeOK, PlanInv, RunInv, SettingInv, RefsLive, [Next]_vars,
                    NEW z \in Obj, NEW x, Kind[z] # "span", Dangles(z, x)'
             PROVE  Covered(z, x)'
  <2>1. (\A z \in Obj : \A x : Dangles(z, x)' => Covered(z, x)') => RefsLive'
    BY DEF RefsLive, Missing, Dangles, Covered
  <2> QED
    BY <2>1 DEF Covered
<1>a. Dangles(z, x) => Covered(z, x)
  BY CoveredRefs
<1>b. x \in Obj
  BY Referred DEF Dangles
<1>1. ASSUME UNCHANGED <<dp, alarms, deferred, leaked>> PROVE Covered(z, x)'
  BY <1>1, <1>a DEF Dangles, Covered, Known, Alarmed
<1>2. ASSUME NEW op \in todo, Run(op) PROVE Covered(z, x)'
  <2>0. Succeeded(op) /\ deferred \ {op.obj} \subseteq deferred' /\ op.obj \in Obj
    BY <1>2, RunOthers DEF Run
  <2>1. \A o \in Obj : o # op.obj /\ Known(o) => Known(o)'
    BY <2>0, SucceededKnown
  <2>2. CASE op.del
    <3>1. z # op.obj /\ (Known(z) \/ (x # op.obj /\ Dangles(z, x)))
      BY <1>2, <2>2, DeletedRefs
    <3>2. CASE Known(z)
      BY <2>1, <3>1, <3>2 DEF Covered
    <3>3. CASE x # op.obj /\ Dangles(z, x)
      BY <1>a, <1>b, <2>0, <3>1, <3>3, SucceededCovered
    <3> QED
      BY <3>1, <3>2, <3>3
  <2>3. CASE ~op.del
    <3>1. /\ op \in Plan(committed, target) /\ target \in Cfg /\ committed \in Cfg
          /\ dp' = Put(op.obj, target) /\ CanPut(op.obj, target)
      BY <1>2, <2>3, RunOthers DEF TypeOK
    <3>2. target[op.obj] # Absent \/ Kind[op.obj] \in Singleton
      BY <2>3, <3>1, PlanFacts
    <3>3. /\ x # op.obj
          /\ \/ z # op.obj /\ Dangles(z, x)
             \/ /\ z = op.obj /\ <<Kind[op.obj], Kind[x]>> \in Unasked /\ dp[x] = Absent
                /\ target[op.obj] \in Val /\ x \in Refs[op.obj][target[op.obj]]
                /\ target[x] # Absent
      BY <2>0, <3>1, <3>2, PutRefs
    <3>4. CASE z # op.obj /\ Dangles(z, x)
      BY <1>a, <1>b, <2>0, <3>3, <3>4, SucceededCovered
    <3>5. CASE z = op.obj /\ <<Kind[z], Kind[x]>> \in Unasked /\ dp[x] = Absent
               /\ target[z] \in Val /\ x \in Refs[z][target[z]] /\ target[x] # Absent
      <4>1. Known(x)
        BY <1>2, <1>b, <2>3, <3>5, AppliedUnasked
      <4> QED
        BY <1>b, <2>1, <3>3, <3>5, <4>1 DEF Covered
    <3> QED
      BY <3>3, <3>4, <3>5
  <2> QED
    BY <2>2, <2>3
<1>3. ASSUME NEW op \in todo, RunVrfDeferred(op) PROVE Covered(z, x)'
  <2>1. \A o \in Obj : Known(o) => Known(o)'
    <3>1. \A o \in Obj : o # op.obj /\ Known(o) => Known(o)'
      BY <1>3, SucceededKnown DEF RunVrfDeferred
    <3>2. op.obj \in deferred'
      BY <1>3 DEF RunVrfDeferred
    <3> QED
      BY <3>1, <3>2 DEF Known, Alarmed
  <2>2. /\ op.obj \in Obj /\ dp' = [dp EXCEPT ![op.obj] = Partial]
        /\ dp \in [Obj -> Val \cup {Absent, Partial}]
    BY <1>3 DEF RunVrfDeferred, TypeOK, Operation
  <2>3. Dangles(z, x)
    <3>1. x \in Refs[z][dp'[z]] /\ dp'[x] = Absent /\ dp'[z] \in Val
      BY DEF Dangles
    <3>2. dp'[z] = dp[z]
      BY <2>2, <3>1, ApplyAssumption
    <3>3. dp[x] = Absent
      BY <1>b, <2>2, <3>1, ApplyAssumption
    <3> QED
      BY <3>1, <3>2, <3>3 DEF Dangles
  <2> QED
    BY <1>a, <1>b, <2>1, <2>3, CoveredKept
<1>4. ASSUME NEW op \in todo, RunIfaceDeferred(op) PROVE Covered(z, x)'
  <2>1. Succeeded(op) /\ deferred \ {op.obj} \subseteq deferred' /\ Kind[op.obj] = "interface"
    BY <1>4 DEF RunIfaceDeferred
  <2>2. Dangles(z, x)
    BY <1>4 DEF RunIfaceDeferred, Dangles
  <2>3. z # op.obj /\ x # op.obj
    <3>1. <<Kind[z], Kind[x]>> \in Reference
      BY <2>2, ReferenceAssumption DEF Dangles
    <3>2. Kind[z] # "interface" /\ Kind[x] # "interface"
      BY <3>1 DEF Reference
    <3> QED
      BY <2>1, <3>2
  <2> QED
    BY <1>a, <1>b, <2>1, <2>2, <2>3, SucceededCovered
<1>5. ASSUME NEW op \in todo, RunFails(op) PROVE Covered(z, x)'
  <2>1. op.obj \in Obj /\ target \in Cfg /\ HalfDone(op.obj, target)
    BY <1>5 DEF RunFails, TypeOK, Operation
  <2>2. \A o \in Obj : Known(o) => Known(o)'
    BY <1>5 DEF RunFails, Known, Alarmed
  <2>3. Dangles(z, x)
    BY <2>1, HalfDoneRefs
  <2> QED
    BY <1>a, <1>b, <2>2, <2>3, CoveredKept
<1>6. ASSUME Undo PROVE Covered(z, x)'
  <2>1. \A o \in Obj : Known(o) => Known(o)'
    BY <1>6 DEF Undo, Known, Alarmed
  <2>2. PICK op \in Operation : op = LastExecuted
    BY <1>6, DropType DEF Undo
  <2>3. op.obj \in Obj /\ committed \in Cfg /\ target \in Cfg /\ op \in Plan(committed, target)
    BY <1>6, <2>2, UndoEffect
  <2>4. Covered(z, x)
    <3>1. CASE UNCHANGED dp
      BY <1>a, <3>1 DEF Dangles
    <3>2. CASE UndoDeletes(op) /\ dp' = Remove(op.obj)
      <4>1. Dangles(z, x) \/ Known(z)
        BY <1>6, <2>2, <3>2, UndoneRefs DEF Undo
      <4> QED
        BY <1>a, <4>1 DEF Covered
    <3>3. CASE ~UndoDeletes(op) /\ CanPut(op.obj, committed) /\ dp' = Put(op.obj, committed)
      <4>1. committed[op.obj] # Absent \/ Kind[op.obj] \in Singleton
        BY <2>3, <3>3, PlanFacts DEF UndoDeletes
      <4>2. \/ Dangles(z, x)
            \/ /\ z = op.obj /\ <<Kind[op.obj], Kind[x]>> \in Unasked /\ dp[x] = Absent
               /\ committed[op.obj] \in Val /\ x \in Refs[op.obj][committed[op.obj]]
               /\ committed[x] # Absent
        BY <2>3, <3>3, <4>1, PutRefs
      <4>3. CASE z = op.obj /\ <<Kind[z], Kind[x]>> \in Unasked /\ dp[x] = Absent
                 /\ committed[z] \in Val /\ x \in Refs[z][committed[z]] /\ committed[x] # Absent
        <5>1. Known(x)
          BY <1>6, <1>b, <2>2, <4>3, RestoredUnasked DEF Undo
        <5> QED
          BY <4>3, <5>1 DEF Covered
      <4> QED
        BY <1>a, <4>2, <4>3
    <3> QED
      BY <1>6, <2>2, <3>1, <3>2, <3>3 DEF Undo
  <2> QED
    BY <1>b, <2>1, <2>4, CoveredKept
<1>7. ASSUME UndoFails PROVE Covered(z, x)'
  <2>1. PICK op \in Operation : op = LastExecuted
    BY <1>7, DropType DEF UndoFails
  <2>2. HalfDone(op.obj, committed) /\ committed \in Cfg /\ op.obj \in Obj
    BY <1>7, <2>1 DEF UndoFails, TypeOK, Operation
  <2>3. \A o \in Obj : Known(o) => Known(o)'
    BY <1>7 DEF UndoFails, Known, Alarmed
  <2>4. Dangles(z, x)
    BY <2>2, HalfDoneRefs
  <2> QED
    BY <1>a, <1>b, <2>3, <2>4, CoveredKept
<1> QED
  BY <1>1, <1>2, <1>3, <1>4, <1>5, <1>6, <1>7
     DEF Next, ApplyNothing, Begin, Finish, FinishUndo, vars

-----------------------------------------------------------------------------
(* Theorems *)

LEMMA InitIInv == Init => IInv
<1> SUFFICES ASSUME Init PROVE IInv
  OBVIOUS
<1>1. TypeOK
  BY InitTypeOK
<1>2. executed = << >> /\ Executed = {} /\ todo = {}
  BY DEF Init, Executed
<1>3. PlanInv /\ RunInv
  BY <1>2 DEF Init, PlanInv, RunInv
<1>4. UndoInv /\ SettingInv
  BY DEF Init, UndoInv, SettingInv
<1>5. RefsLive
  <2>1. dp \in Cfg
    BY ApplyAssumption DEF Init
  <2>2. \A o \in Obj : Missing(o) = {}
    BY <2>1, ConfigRefs, ApplyAssumption DEF Missing
  <2> QED
    BY <2>2 DEF RefsLive
<1> QED
  BY <1>1, <1>3, <1>4, <1>5 DEF IInv

\* The plan is run in its order, what has run has converged, and what is not as
\* committed is either still to be undone or known: this holds in every state.
THEOREM InductiveInvariant == Spec => []IInv
<1>1. IInv /\ [Next]_vars => IInv'
  BY TypeStep, PlanStep, RunStep, UndoStepInv, SettingStep, RefsStep DEF IInv
<1> QED
  BY InitIInv, <1>1, PTL DEF Spec

\* Between commits nobody is left with a substrate that silently differs from the
\* configuration, however many commits failed and whichever compensations failed.
THEOREM ResidueIsKnown == Spec => []ResidueKnown
<1>1. IInv => ResidueKnown
  <2> SUFFICES ASSUME IInv, phase = "idle" PROVE ResidueKnown
    BY DEF ResidueKnown
  <2>1. \A o \in Obj : ~ExecutedObj(o)
    BY DEF IInv, TypeOK, ExecutedObj, Executed
  <2> QED
    BY <2>1 DEF IInv, UndoInv, ResidueKnown, Known
<1> QED
  BY InductiveInvariant, <1>1, PTL

\* The order of the plan and of its compensation keeps every reference alive, or an
\* alarm or a reported failure tells of the object that refers or, where its provider
\* does not ask (DefineVM, ApplyContainer, ApplyNAT), of the one that is gone.
THEOREM ReferencesLive == Spec => []RefsLive
<1>1. IInv => RefsLive
  BY DEF IInv
<1> QED
  BY InductiveInvariant, <1>1, PTL

\* A commit that succeeds has converged every object of its plan and has resolved
\* their alarms.
THEOREM Converges == Spec => SuccessConverges
<1>1. ASSUME IInv, [Next]_vars, phase = "run", phase' = "idle",
             NEW op \in Plan(committed, target)
      PROVE  /\ op \notin alarms'
             /\ dp[op.obj] = target[op.obj] \/ op.obj \in deferred \cup Dpdk
  <2>1. Finish
    BY <1>1 DEF Next, ApplyNothing, Begin, Run, RunVrfDeferred, RunIfaceDeferred, RunFails,
                Undo, UndoFails, FinishUndo, vars
  <2> QED
    BY <1>1, <2>1 DEF Finish, IInv, RunInv
<1>2. IInv /\ [Next]_vars =>
        (phase = "run" /\ phase' = "idle" =>
           \A op \in Plan(committed, target) :
             /\ op \notin alarms'
             /\ dp[op.obj] = target[op.obj] \/ op.obj \in deferred \cup Dpdk)
  BY <1>1
<1> QED
  BY InductiveInvariant, <1>2, PTL DEF Spec, SuccessConverges
=============================================================================
