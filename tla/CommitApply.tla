----------------------------- MODULE CommitApply -----------------------------
(***************************************************************************)
(* How a commit drives the substrate (internal/orchestrator/apply.go): the *)
(* difference of two configurations becomes operations in dependency       *)
(* order; when one fails, those already executed are undone in reverse,    *)
(* and an undo that fails itself leaves an alarm.                          *)
(*                                                                         *)
(* The providers behind the operations are external here: an operation     *)
(* takes effect, or fails without effect, or fails half-way.               *)
(***************************************************************************)
EXTENDS Integers, Sequences, FiniteSets

CONSTANTS
  Obj,        \* the objects the configurations speak of
  Kind,       \* Obj -> kind of object
  Owner,      \* Obj -> the VRF of a static route (anything for other kinds)
  Val,        \* the settings an object can have
  Absent, Partial,
  Refs,       \* Obj -> Val -> the objects a setting refers to
  Dpdk,       \* the interfaces declared as DPDK ports
  Cfg,        \* the configurations commits choose from
  Broken,     \* those with a vNIC whose switch is not declared
  Init0,      \* the configuration and substrate at the start
  MaxFaults,  \* how many provider calls fail (bound)
  MaxCommits  \* how many commits are tried (bound)

AddOrder == <<"vnf-if", "acl", "bond", "bridge-domain", "vrf", "nat", "span", "qos", "lldp",
              "interface", "vm", "container">>

\* del-bridge-domain and del-vrf come after the vNIC they refer to (RefsLive).
SlipDelOrder == <<"container", "vm", "vnf-if", "bridge-domain", "route", "vrf", "bond",
                  "span", "qos", "acl">>

DelOrder == <<"container", "vm", "bridge-domain", "route", "vrf", "bond", "vnf-if",
              "span", "qos", "acl">>

Kinds == {AddOrder[i] : i \in DOMAIN AddOrder} \cup {"route"}
Singleton == {"nat", "lldp"}    \* sections that are replaced as a whole

WellFormed(c) ==
  /\ c \in [Obj -> Val \cup {Absent}]
  /\ \A o \in Obj : c[o] # Absent =>
       /\ \A x \in Refs[o][c[o]] : c[x] # Absent
       /\ Kind[o] = "route" => c[Owner[o]] # Absent

ASSUME ApplyAssumption ==
  /\ Kind \in [Obj -> Kinds] /\ Owner \in [Obj -> Obj]
  /\ Refs \in [Obj -> [Val -> SUBSET Obj]]
  /\ Absent \notin Val /\ Partial \notin Val /\ Absent # Partial
  /\ Dpdk \subseteq {o \in Obj : Kind[o] = "interface"} /\ Broken \subseteq Cfg
  /\ Init0 \in Cfg /\ \A c \in Cfg : WellFormed(c)
  /\ MaxFaults \in Nat /\ MaxCommits \in Nat

Position(order, k) == CHOOSE i \in DOMAIN order : order[i] = k

\* The references of the configuration this module follows, from the kind of the
\* object that refers to the kind it refers to (the policies bound to ports are
\* Switching's).  A route belongs to a VRF.
Reference ==
  ({"bridge-domain"} \X {"vnf-if", "bond", "acl"}) \cup ({"vrf"} \X {"vnf-if", "bond", "acl"})
  \cup ({"nat"} \X {"vrf", "vnf-if", "bond"}) \cup ({"vm", "container"} \X {"vnf-if"})
  \cup ({"span"} \X {"vnf-if", "bond"}) \cup {<<"route", "vrf">>}

\* The references a provider takes over without asking the data plane: DefineVM and
\* ApplyContainer derive the socket from the name of the vNIC, ApplyNAT the table from
\* the name of the switch, whose missing members it takes for a registry to be rebuilt.
Unasked == ({"vm", "container"} \X {"vnf-if"}) \cup {<<"nat", "vrf">>}

ASSUME ReferenceAssumption ==
  \A o \in Obj :
    /\ Kind[o] = "route" => Kind[Owner[o]] = "vrf"
    /\ \A v \in Val : \A x \in Refs[o][v] :
         <<Kind[o], Kind[x]>> \in Reference /\ (Kind[o] = "route" => x = Owner[o])

VARIABLES
  committed, target,  \* the arguments old and new of Apply
  phase,              \* "idle", "run" or "undo"
  todo,               \* operations of the plan not yet run
  executed,           \* operations to undo should one fail, in order of execution
  dp,                 \* what the substrate really holds
  alarms,             \* active COMMIT_COMPENSATION_FAILED alarms, by operation
  deferred,           \* active COMMIT_VRF_DELETE_DEFERRED alarms, by VRF
  leaked,             \* history: objects a failing operation left half-done
  faults, commits

vars == <<committed, target, phase, todo, executed, dp, alarms, deferred, leaked, faults, commits>>

Operation == [obj : Obj, del : BOOLEAN]

TypeOK ==
  /\ committed \in Cfg /\ target \in Cfg
  /\ phase \in {"idle", "run", "undo"}
  /\ todo \subseteq Operation /\ (phase # "run" => todo = {})
  /\ executed \in Seq(Operation) /\ (phase = "idle" => executed = << >>)
  /\ dp \in [Obj -> Val \cup {Absent, Partial}]
  /\ alarms \subseteq Operation
  /\ deferred \subseteq Obj /\ leaked \subseteq Obj
  /\ faults \in 0..MaxFaults /\ commits \in 0..MaxCommits

Init ==
  /\ committed = Init0 /\ target = Init0 /\ dp = Init0
  /\ phase = "idle" /\ todo = {} /\ executed = << >>
  /\ alarms = {} /\ deferred = {} /\ leaked = {}
  /\ faults = 0 /\ commits = 0

-----------------------------------------------------------------------------
(* The plan *)

RoutesOf(o) == {r \in Obj : Kind[r] = "route" /\ Owner[r] = o}

\* The routes are part of the VRF's definition.
Changed(o, old, new) ==
  old[o] # new[o] \/ \E r \in RoutesOf(o) : old[r] # new[r]

\* A route has no operation to add it: that is ApplyVRF's work.
Additions(old, new) ==
  {o \in Obj : /\ Changed(o, old, new) /\ Kind[o] # "route"
               /\ new[o] # Absent \/ Kind[o] \in Singleton}

\* Nothing undoes the settings of an interface that is no longer declared.
Deletions(old, new) ==
  {o \in Obj : /\ old[o] # Absent /\ new[o] = Absent
               /\ Kind[o] \notin Singleton \cup {"interface"}}

Plan(old, new) ==
  [obj : Additions(old, new), del : {FALSE}] \cup [obj : Deletions(old, new), del : {TRUE}]

Rank(op) ==
  IF op.del THEN Len(AddOrder) + Position(DelOrder, Kind[op.obj])
            ELSE Position(AddOrder, Kind[op.obj])

\* The next operation to run; the code fixes no order within one kind.
Ready(op) == op \in todo /\ \A p \in todo : Rank(op) <= Rank(p)

\* Composite operations whose own undo is called when they fail (compensateOnFail).
UndoesItself(op) == Kind[op.obj] = "vrf"

-----------------------------------------------------------------------------
(* Effects on the substrate *)

\* Applying o as configuration c has it.  A VRF brings its routes along, and
\* removes none.
Put(o, c) ==
  [x \in Obj |-> IF x = o \/ (x \in RoutesOf(o) /\ c[x] # Absent) THEN c[x] ELSE dp[x]]

\* A table that goes takes its routes along.
Remove(o) == [x \in Obj |-> IF x = o \/ x \in RoutesOf(o) THEN Absent ELSE dp[x]]

\* A provider refuses a setting that names an object it has looked for in vain.
CanPut(o, c) ==
  c[o] # Absent =>
    \A x \in Refs[o][c[o]] : dp[x] # Absent \/ <<Kind[o], Kind[x]>> \in Unasked

\* A failing call has no effect or stops half-way, a VRF before or after its routes.
\* Deleting a route is one call of the data plane.
HalfDone(o, c) ==
  \/ dp' = dp
  \/ Kind[o] # "route" /\ dp' \in {[d EXCEPT ![o] = Partial] : d \in {dp, Put(o, c)}}

Fault == faults < MaxFaults /\ faults' = faults + 1

-----------------------------------------------------------------------------
(* Apply *)

\* Two equal configurations, or a vNIC whose switch is missing: no operation
\* runs.  In the first case Apply succeeds, in the second it fails.
ApplyNothing(new) ==
  /\ phase = "idle" /\ commits < MaxCommits
  /\ new = committed \/ new \in Broken
  /\ commits' = commits + 1
  /\ UNCHANGED <<committed, target, phase, todo, executed, dp, alarms, deferred, leaked, faults>>

Begin(new) ==
  /\ phase = "idle" /\ commits < MaxCommits
  /\ new # committed /\ new \notin Broken
  /\ target' = new /\ todo' = Plan(committed, new)
  /\ phase' = "run" /\ executed' = << >>
  /\ commits' = commits + 1
  /\ UNCHANGED <<committed, dp, alarms, deferred, leaked, faults>>

\* The operation succeeded: its residue alarm of an earlier commit is resolved.
Succeeded(op) ==
  /\ todo' = todo \ {op} /\ executed' = Append(executed, op)
  /\ alarms' = alarms \ {op}
  /\ leaked' = leaked \ {op.obj}

\* The residue alarm of an object is never resolved (SuccessConverges).
SlipRunKeepsAlarm(op) ==
  /\ phase = "run" /\ Ready(op)
  /\ dp' = IF op.del THEN Remove(op.obj) ELSE Put(op.obj, target)
  /\ op.del \/ CanPut(op.obj, target)
  /\ todo' = todo \ {op} /\ executed' = Append(executed, op)
  /\ leaked' = leaked \ {op.obj}
  /\ UNCHANGED <<committed, target, phase, alarms, deferred, faults, commits>>

Run(op) ==
  /\ phase = "run" /\ Ready(op)
  /\ \/ op.del /\ dp' = Remove(op.obj) /\ deferred' = deferred \ {op.obj}
     \/ ~op.del /\ CanPut(op.obj, target) /\ dp' = Put(op.obj, target) /\ UNCHANGED deferred
  /\ Succeeded(op)
  /\ UNCHANGED <<committed, target, phase, faults, commits>>

\* VPP keeps the table of a deleted VRF that NAT has used: the addresses are gone,
\* the table stays, the operation counts as successful and an alarm remembers it.
RunVrfDeferred(op) ==
  /\ phase = "run" /\ Ready(op) /\ op.del /\ Kind[op.obj] = "vrf"
  /\ Fault
  /\ dp' = [dp EXCEPT ![op.obj] = Partial]
  /\ deferred' = deferred \cup {op.obj}
  /\ Succeeded(op)
  /\ UNCHANGED <<committed, target, phase, commits>>

\* A DPDK port that is not in the data plane yet is skipped with a warning; the
\* restart of the data plane brings it in.
RunIfaceDeferred(op) ==
  /\ phase = "run" /\ Ready(op) /\ Kind[op.obj] = "interface" /\ op.obj \in Dpdk
  /\ Fault
  /\ Succeeded(op)
  /\ UNCHANGED <<committed, target, phase, dp, deferred, commits>>

\* The operation fails, for want of an object it refers to or in the provider.
\* What was executed is to be undone, with a composite operation itself first.
RunFails(op) ==
  /\ phase = "run" /\ Ready(op)
  /\ \/ ~op.del /\ ~CanPut(op.obj, target) /\ UNCHANGED faults
     \/ Fault
  /\ HalfDone(op.obj, target)
  /\ phase' = "undo" /\ todo' = {}
  /\ executed' = IF UndoesItself(op) THEN Append(executed, op) ELSE executed
  /\ leaked' = IF UndoesItself(op) \/ dp' = dp THEN leaked ELSE leaked \cup {op.obj}
  /\ UNCHANGED <<committed, target, alarms, deferred, commits>>

Finish ==
  /\ phase = "run" /\ todo = {}
  /\ phase' = "idle" /\ committed' = target /\ executed' = << >>
  /\ UNCHANGED <<target, todo, dp, alarms, deferred, leaked, faults, commits>>

-----------------------------------------------------------------------------
(* Compensation *)

LastExecuted == executed[Len(executed)]
DropLast == SubSeq(executed, 1, Len(executed) - 1)

\* There is nothing to delete for an interface the old configuration lacks.
NilUndo(op) == ~op.del /\ Kind[op.obj] = "interface" /\ committed[op.obj] = Absent

\* An addition is replaced by the old setting or, without one, deleted; a
\* deletion is applied again.
UndoDeletes(op) ==
  ~op.del /\ committed[op.obj] = Absent /\ Kind[op.obj] \notin Singleton

Undo ==
  /\ phase = "undo" /\ executed # << >>
  /\ LET op == LastExecuted IN
       \/ NilUndo(op) /\ UNCHANGED dp
       \/ UndoDeletes(op) /\ ~NilUndo(op) /\ dp' = Remove(op.obj)
       \/ ~UndoDeletes(op) /\ CanPut(op.obj, committed) /\ dp' = Put(op.obj, committed)
  /\ executed' = DropLast
  /\ UNCHANGED <<committed, target, phase, todo, alarms, deferred, leaked, faults, commits>>

\* The failed undo is only reported to the client (ResidueKnown).
SlipUndoFailsSilently ==
  /\ phase = "undo" /\ executed # << >> /\ ~NilUndo(LastExecuted)
  /\ Fault /\ HalfDone(LastExecuted.obj, committed)
  /\ executed' = DropLast
  /\ UNCHANGED <<committed, target, phase, todo, alarms, deferred, leaked, commits>>

\* An undo that fails does not stop the others; the residue is alarmed.
UndoFails ==
  /\ phase = "undo" /\ executed # << >>
  /\ LET op == LastExecuted IN
       /\ ~NilUndo(op)
       /\ \/ Fault
          \/ ~UndoDeletes(op) /\ ~CanPut(op.obj, committed) /\ UNCHANGED faults
       /\ HalfDone(op.obj, committed)
       /\ alarms' = alarms \cup {op}
  /\ executed' = DropLast
  /\ UNCHANGED <<committed, target, phase, todo, deferred, leaked, commits>>

FinishUndo ==
  /\ phase = "undo" /\ executed = << >>
  /\ phase' = "idle"
  /\ UNCHANGED <<committed, target, todo, executed, dp, alarms, deferred, leaked, faults, commits>>

-----------------------------------------------------------------------------

Next ==
  \/ \E new \in Cfg : ApplyNothing(new) \/ Begin(new)
  \/ \E op \in todo : Run(op) \/ RunVrfDeferred(op) \/ RunIfaceDeferred(op) \/ RunFails(op)
  \/ Finish \/ Undo \/ UndoFails \/ FinishUndo

Spec == Init /\ [][Next]_vars

-----------------------------------------------------------------------------
(* Properties *)

Alarmed(o) == o \in deferred \/ \E op \in alarms : op.obj = o
Known(o) == Alarmed(o) \/ o \in leaked

\* What the configuration does not speak of, and no operation removes.
Unmanaged(o) == Kind[o] = "interface" /\ committed[o] = Absent

\* Between commits, an object the substrate holds otherwise than configured is
\* known to somebody: an alarm is active for it, or the operation that failed left
\* it half-done and was reported, or it is a DPDK port still to come.  Alarms are
\* raised and resolved by operation, over several commits, and one resolved too
\* early would hide the residue.  (Static routes: see RoutesRestored.)
ResidueKnown ==
  phase = "idle" =>
    \A o \in Obj : \/ dp[o] = committed[o] \/ Unmanaged(o) \/ Kind[o] = "route"
                   \/ Known(o) \/ o \in Dpdk

Missing(o) == IF dp[o] \in Val THEN {x \in Refs[o][dp[o]] : dp[x] = Absent} ELSE {}

\* "References are created before and deleted after their use": at no moment, in a plan
\* or in its compensation, does an object in the substrate refer to one that is gone,
\* unless an alarm or a reported failure tells of it.  Where the provider does not ask,
\* a failed undo leaves it referring to what is gone without a word about it: what is
\* gone is then known by itself.
RefsLive ==
  \A o \in Obj : \A x \in Missing(o) :
    \/ Known(o) \/ Kind[o] = "span"
    \/ <<Kind[o], Kind[x]>> \in Unasked /\ Known(x)

\* A commit that succeeds has converged every object of its plan, whatever state
\* earlier failures left it in, and has resolved their alarms: later operations of
\* the plan do not undo earlier ones.
SuccessConverges ==
  [][phase = "run" /\ phase' = "idle" =>
       \A op \in Plan(committed, target) :
         /\ op \notin alarms'
         /\ dp[op.obj] = target[op.obj] \/ op.obj \in deferred \cup Dpdk]_vars

-----------------------------------------------------------------------------
(* What the comments say and the code does not do *)

\* "Operations already executed are compensated in reverse, so that the substrate
\* returns to its state before the change" (Applier) holds for static routes too:
\* after a failed commit none is left that the configuration does not have, unless
\* an alarm tells of its VRF.
RoutesRestored ==
  phase = "idle" =>
    \A o \in Obj : Kind[o] = "route" => dp[o] = committed[o] \/ Alarmed(o) \/ Alarmed(Owner[o])

\* "References are created before and deleted after their use" (plan) holds for
\* mirroring sessions too.
SpanRefsLive == \A o \in Obj : Kind[o] = "span" /\ Missing(o) # {} => Alarmed(o)
=============================================================================
