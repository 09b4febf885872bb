------------------------------- MODULE Routing -------------------------------
(***************************************************************************)
(* L3 switches and NAT44 (internal/orchestrator/network: l3.go, nat.go,    *)
(* recovery.go and their binary API adapters): a commit changes them one   *)
(* provider call at a time, while the recovery that follows a new VPP      *)
(* connection, and a patrol, replay the committed configuration through    *)
(* the same providers.                                                     *)
(*                                                                         *)
(* A provider call is a set of outcomes [vpp, reg, ok, fault]: what it     *)
(* leaves in the data plane and in the providers' registries, whether it   *)
(* returned an error, and whether that needs a failing call of VPP.  An    *)
(* interface stands for its name and for its sw_if_index, an address pool  *)
(* for the static mappings too, and a table for its IPv4 and IPv6 half.    *)
(* Routes and the order of compensation are CommitApply's, bridge domains  *)
(* and their gateways Switching's.                                         *)
(***************************************************************************)
EXTENDS Integers, Sequences, FiniteSets

CONSTANTS
  Table,        \* VRFs, by the table their name is hashed to
  Iface,        \* every interface the configurations name
  Sub,          \* those among them that are VLAN sub-interfaces
  Vnic,         \* those that are vhost-user or memif interfaces
  None,         \* no table; as a NAT section: no NAT
  Default,      \* the default table
  Cfg,          \* the configurations commits choose from
  Init0,        \* the configuration at the start
  MaxEvents     \* commits, failing VPP calls and restarts together (bound)

\* vrfs: the declared VRFs; l3: their interfaces; ports: the declared vNICs and
\* home: their VRF; nat: inside VRF, outside interface and whether there is a pool.
Config ==
  [vrfs : SUBSET Table, l3 : [Table -> SUBSET Iface], ports : SUBSET Vnic,
   home : [Vnic -> Table \cup {None}],
   nat : [vs : Table, out : Iface, pool : BOOLEAN] \cup {None}]

Domain == [in : Table \cup {Default}, out : Table \cup {Default}]

ASSUME RoutingAssumption ==
  /\ Sub \subseteq Iface /\ Vnic \subseteq Iface /\ Sub \cap Vnic = {}
  /\ None \notin Table /\ Default \notin Table /\ None # Default /\ None \notin Domain
  /\ Cfg \subseteq Config /\ Init0 \in Cfg
  /\ \A c \in Cfg : \A t, u \in Table : t # u => c.l3[t] \cap c.l3[u] = {}
  /\ \A c \in Cfg : \A t \in Table : c.l3[t] \cap Vnic \subseteq c.ports
  /\ MaxEvents \in Nat

VARIABLES
  vpp,        \* the data plane
  reg,        \* registries of L3Provider and NatProvider, lost with the process
  up,         \* VPP is connected
  committed,
  job,        \* the commit: phase, target, operations to run, operations to undo, and
              \* the interfaces read at the start of a VRF deletion
  rec,        \* the holder of recoveryMu: its configuration and operations to run, and what
              \* a retry of pending deletions has to look at, found clean and deregistered
  waiting,    \* a goroutine of OnConnect waits for recoveryMu
  alarms,     \* recovery alarms and commit residues, by operation; deferred deletions
  overlap, trusted, undone, replayed,     \* history: see History
  faults, commits, restarts

vars == <<vpp, reg, up, committed, job, rec, waiting, alarms, overlap, trusted, undone,
          replayed, faults, commits, restarts>>

\* The bound.
More == faults + commits + restarts < MaxEvents

OpKind == {"vnic", "vrf", "nat", "del-vrf", "del-vnic", "retry", "reset", "register",
           "set-table", "recheck", "leftover"}
Op == [kind : OpKind, obj : Table \cup Vnic \cup {None}]

Feature == {"none", "inside", "outside"}

Vpps ==
  [tables : SUBSET Table, exist : SUBSET Iface, member : [Iface -> Table \cup {Default}],
   addr : SUBSET Iface, plug : Domain \cup {None}, feat : [Iface -> Feature],
   own : SUBSET Iface, pool : Table \cup {Default, None}, pinned : SUBSET Table]
Regs ==
  [ifaces : [Table -> SUBSET Iface], tableOf : [Iface -> Table \cup {None}],
   vnfs : [Vnic -> Table \cup {None}], pending : SUBSET Table, on : BOOLEAN, dom : Domain,
   feat : [Iface -> Feature], own : SUBSET Iface, pool : Table \cup {Default, None}]
Jobs ==
  [phase : {"idle", "run", "read", "kept", "dropped", "undo", "residue"}, new : Cfg,
   todo : SUBSET Op, done : Seq(Op), held : SUBSET Iface]
Recs ==
  [active : BOOLEAN, cfg : Cfg, todo : SUBSET Op, failed : SUBSET Op, retrying : BOOLEAN,
   scan : SUBSET Table, clean : SUBSET Table, cleared : SUBSET Table]
Alarms ==
  [recovery : SUBSET Op, residue : SUBSET Op, deferred : SUBSET Table, leftover : SUBSET Table]

TypeOK ==
  /\ vpp \in Vpps /\ reg \in Regs
  /\ up \in BOOLEAN /\ waiting \in BOOLEAN /\ committed \in Cfg
  /\ job \in Jobs /\ alarms \in Alarms
  /\ rec \in Recs /\ (~rec.active => rec.todo = {})
  /\ ~rec.retrying => rec.scan \cup rec.clean \cup rec.cleared = {}
  /\ overlap \in BOOLEAN /\ trusted \in BOOLEAN
  /\ undone \in BOOLEAN /\ replayed \in BOOLEAN
  /\ faults \in Nat /\ commits \in Nat /\ restarts \in Nat
  /\ faults + commits + restarts <= MaxEvents

-----------------------------------------------------------------------------
(* VPP as the adapters use it *)

NoFeature == [i \in Iface |-> "none"]

EmptyVpp ==
  [tables |-> {}, exist |-> Iface \ (Sub \cup Vnic), member |-> [i \in Iface |-> Default],
   addr |-> {}, plug |-> None, feat |-> NoFeature, own |-> {}, pool |-> None, pinned |-> {}]

\* "Table exists" counts as success.
EnsureTables(v, t) == [v EXCEPT !.tables = @ \cup {t}]

\* VPP answers 0 and keeps a table that interfaces or NAT still refer to.
DropTable(v, t) ==
  IF t \in v.pinned \/ \E i \in v.exist : v.member[i] = t THEN v
  ELSE [v EXCEPT !.tables = @ \ {t}]

MoveIfaces(v, I, t) == [v EXCEPT !.member = [i \in Iface |-> IF i \in I THEN t ELSE @[i]]]

RemoveIface(v, i) ==
  [v EXCEPT !.exist = @ \ {i}, !.member[i] = Default, !.addr = @ \ {i},
            !.feat[i] = "none", !.own = @ \ {i}]

\* Enabling what is enabled, with whatever domain, succeeds and changes nothing;
\* disabling forgets features and addresses.
NATEnable(v, d) ==
  IF v.plug # None THEN v
  ELSE [v EXCEPT !.plug = d, !.pinned = @ \cup ({d.in, d.out} \cap Table)]
NATDisable(v) == [v EXCEPT !.plug = None, !.feat = NoFeature, !.own = {}, !.pool = None]

\* Addresses are unique whatever the VRF, and adding one that exists succeeds.
NATAddressRange(v, old, new) ==
  LET left == IF v.pool = old THEN None ELSE v.pool     \* old removed, if it is there
      cold == old = None /\ new # None                  \* read back, removed if elsewhere
  IN [v EXCEPT !.pool = IF cold \/ left = None THEN new ELSE left]

-----------------------------------------------------------------------------
(* Provider calls *)

Ok(v, r)     == [vpp |-> v, reg |-> r, ok |-> TRUE,  fault |-> FALSE]
Refuse(v, r) == [vpp |-> v, reg |-> r, ok |-> FALSE, fault |-> FALSE]
Broken(v, r) == [vpp |-> v, reg |-> r, ok |-> FALSE, fault |-> TRUE]

EmptyReg(pending) ==
  [ifaces |-> [t \in Table |-> {}], tableOf |-> [i \in Iface |-> None],
   vnfs |-> [i \in Vnic |-> None], pending |-> pending,
   on |-> FALSE, dom |-> [in |-> Default, out |-> Default], feat |-> NoFeature,
   own |-> {}, pool |-> None]

VnicsOf(r, t) == {i \in Vnic : r.vnfs[i] = t}
AttachedIfaces(r, t) == r.ifaces[t] \cup VnicsOf(r, t)

\* Interfaces stay registered with their former table, whose deletion then takes
\* them along (DeletionSpares).
SlipReassign(r, t, I) == r.ifaces

\* An interface that moves into t leaves the registration of every other table.
Reassign(r, t, I) ==
  [u \in Table |-> IF u = t THEN r.ifaces[t] ELSE r.ifaces[u] \ I]

\* Registering interfaces with t next to those it has.
Register(r, t, I) ==
  [r EXCEPT !.ifaces = [Reassign(r, t, I) EXCEPT ![t] = @ \cup I],
            !.tableOf = [i \in Iface |-> IF i \in I THEN t ELSE @[i]]]

\* resolveL3Iface: VPP refuses to create a sub-interface a second time.
Resolvable(v, i) == IF i \in Sub THEN i \notin v.exist ELSE i \in v.exist

\* The interfaces I of t resolved, cleared of addresses, moved and addressed.
Settle(v, t, I) ==
  [MoveIfaces(EnsureTables(v, t), I, t) EXCEPT !.exist = @ \cup (I \cap Sub), !.addr = @ \cup I]

\* The set registered for t is replaced, but for its vNICs.
ApplyVRF(v, r, c, t) ==
  LET I == c.l3[t]
      good == {i \in I : Resolvable(v, i)}
      done == Settle(v, t, I)
      known == [r EXCEPT !.ifaces = [Reassign(r, t, I) EXCEPT ![t] = I \cup VnicsOf(r, t)],
                         !.tableOf = [i \in Iface |-> IF i \in I THEN t ELSE @[i]]]
  IN IF good = I THEN {Ok(done, known)} \cup {Broken(Settle(v, t, J), r) : J \in SUBSET I}
     ELSE {Refuse(Settle(v, t, J), r) : J \in SUBSET good}

\* After the VRFs of a recovery; an interface that is not there is reported.
RegisterL3Interfaces(v, r, c, t) ==
  LET here == c.l3[t] \cap v.exist
  IN IF here = c.l3[t] THEN {Ok(v, Register(r, t, here))} ELSE {Refuse(v, Register(r, t, here))}

\* Already registered with t: nothing to do.  An interface with addresses cannot
\* change its table.
SetVnfTable(v, r, i, t) ==
  LET w == EnsureTables(v, t)
      known == [Register(r, t, {i}) EXCEPT !.vnfs[i] = t]
  IN IF i \notin v.exist THEN {Refuse(v, r)}
     ELSE IF r.vnfs[i] = t THEN {Ok(v, r)}
     ELSE IF v.member[i] # t /\ i \in v.addr THEN {Refuse(w, r)}
     ELSE {Ok(MoveIfaces(w, {i}, t), known), Broken(w, r)}

ApplyVnfInterface(v, r, c, i) ==
  LET w == [v EXCEPT !.exist = @ \cup {i}]
  IN IF c.home[i] = None THEN {Ok(w, r), Broken(v, r)}
     ELSE SetVnfTable(w, r, i, c.home[i]) \cup {Broken(v, r)}

\* NAT forgets the interface only if the L3 side had it as a vNIC of some table.
ForgetVnfIface(r, i) ==
  IF r.vnfs[i] = None THEN [r EXCEPT !.tableOf[i] = None]
  ELSE [r EXCEPT !.vnfs[i] = None, !.tableOf[i] = None,
                 !.ifaces[r.vnfs[i]] = @ \ {i}, !.feat[i] = "none", !.own = @ \ {i}]

DeleteVnfInterface(v, r, i) == {Ok(RemoveIface(v, i), ForgetVnfIface(r, i)), Broken(v, r)}

ForgetTable(r, t) ==
  [r EXCEPT !.ifaces[t] = {}, !.tableOf = [i \in Iface |-> IF @[i] = t THEN None ELSE @[i]],
            !.vnfs = [i \in Vnic |-> IF @[i] = t THEN None ELSE @[i]]]

\* The interfaces that were registered when the deletion began are cleared and
\* moved to the default table, those that are gone skipped; then the table is
\* deleted and read back.  One that stays is left to a restart of VPP.
DeleteVRF(v, r, t, held) ==
  LET here == held \cap v.exist
      bare == [v EXCEPT !.addr = @ \ here]
      free == MoveIfaces(bare, here, Default)
      gone == DropTable(free, t)
      known == ForgetTable(r, t)
  IN {IF t \in gone.tables THEN Ok(gone, [known EXCEPT !.pending = @ \cup {t}])
                           ELSE Ok(gone, known)}
     \cup {Broken(MoveIfaces([v EXCEPT !.addr = @ \ J], J, Default), r) : J \in SUBSET here}
     \cup {Broken(bare, r), Broken(free, known), Broken(gone, known)}

LeftoverTables(v, c) == v.tables \ c.vrfs

-----------------------------------------------------------------------------
(* ApplyNAT *)

\* inside: the members of the VRF; outside: the interface of the rule, whose table
\* is the outside domain.  Without a pool the interface's address is used.
DesiredFeatures(r, n) ==
  [i \in Iface |-> IF i = n.out THEN "outside"
                   ELSE IF i \in AttachedIfaces(r, n.vs) THEN "inside" ELSE "none"]
DomainOf(r, n) ==
  [in |-> n.vs, out |-> IF r.tableOf[n.out] = None THEN Default ELSE r.tableOf[n.out]]

\* The switch may have lost its members to a reset, which is no reason to remove
\* the features of its interfaces.
InsideUnresolved(r, n) == n # None /\ AttachedIfaces(r, n.vs) = {}

\* The plugin is switched by what is declared, not by what was resolved.
SwitchPlugin(v, r, n, d) ==
  IF n = None THEN (IF r.on THEN NATDisable(v) ELSE v)
  ELSE IF r.on /\ r.dom # d THEN NATEnable(NATDisable(v), d)
  ELSE IF r.on THEN v ELSE NATEnable(v, d)

\* What the registry has and the rule does not want is removed, what the rule wants
\* and the registry lacks is added; the registry is written at the end.
Converge(v, r, n, d) ==
  LET want == IF n = None THEN NoFeature ELSE DesiredFeatures(r, n)
      own  == IF n = None \/ n.pool THEN {} ELSE {n.out}
      pool == IF n = None \/ ~n.pool THEN None ELSE d.in
      kept == {i \in Iface : InsideUnresolved(r, n) /\ want[i] = "none" /\ r.feat[i] = "inside"}
      end  == [i \in Iface |-> IF i \in kept THEN "inside" ELSE want[i]]
  IN [vpp |-> [(IF pool = r.pool THEN v ELSE NATAddressRange(v, r.pool, pool)) EXCEPT
                 !.feat = [i \in Iface |-> IF r.feat[i] = end[i] THEN @[i] ELSE end[i]],
                 !.own  = (@ \ (r.own \ own)) \cup (own \ r.own)],
      reg |-> [r EXCEPT !.feat = end, !.own = own, !.pool = pool]]

ApplyNAT(v, r, n) ==
  LET d == IF n = None THEN [in |-> Default, out |-> Default] ELSE DomainOf(r, n)
      w == SwitchPlugin(v, r, n, d)
      s == [r EXCEPT !.on = (n # None), !.dom = d]
      e == Converge(w, s, n, d)
      new == IF n = None THEN {} ELSE {i \in Iface : DesiredFeatures(r, n)[i] # "none"}
  IN IF n # None /\ (n.out \notin v.exist \/ n.out \in AttachedIfaces(r, n.vs))
     THEN {Refuse(v, r)}
     ELSE IF ~(new \subseteq v.exist) THEN {Refuse(w, s)}
     ELSE {Ok(e.vpp, e.reg), Broken(v, r), Broken(w, s), Broken(e.vpp, s)}

-----------------------------------------------------------------------------
(* An operation of a plan, run for configuration c *)

Outcomes(op, c, held) ==
  IF ~up THEN {Refuse(vpp, reg)}
  ELSE CASE op.kind = "vnic"      -> ApplyVnfInterface(vpp, reg, c, op.obj)
         [] op.kind = "vrf"       -> ApplyVRF(vpp, reg, c, op.obj)
         [] op.kind = "nat"       -> ApplyNAT(vpp, reg, c.nat)
         [] op.kind = "del-vrf"   -> DeleteVRF(vpp, reg, op.obj, held)
         [] op.kind = "del-vnic"  -> DeleteVnfInterface(vpp, reg, op.obj)
         [] op.kind = "register"  -> RegisterL3Interfaces(vpp, reg, c, op.obj)
         [] op.kind = "set-table" -> SetVnfTable(vpp, reg, op.obj, c.home[op.obj])

\* One of the outcomes happens; a failing VPP call uses up the bound.
Take(o) ==
  /\ o.fault => More
  /\ faults' = IF o.fault THEN faults + 1 ELSE faults
  /\ vpp' = o.vpp /\ reg' = o.reg

-----------------------------------------------------------------------------
(* Commits (orchestrator/apply.go) *)

\* Only what is new counts: a VRF whose interfaces changed is not applied (Converged).
SlipPlan(old, new) ==
  [kind : {"vnic"}, obj : new.ports \ old.ports] \cup [kind : {"vrf"}, obj : new.vrfs \ old.vrfs]
  \cup [kind : {"nat"}, obj : IF old.nat = new.nat THEN {} ELSE {None}]
  \cup [kind : {"del-vrf"}, obj : old.vrfs \ new.vrfs]
  \cup [kind : {"del-vnic"}, obj : old.ports \ new.ports]

Plan(old, new) ==
  LET changed(t) == new.l3[t] # old.l3[t] \/ t \notin old.vrfs
      moved(i)   == i \notin old.ports \/ old.home[i] # new.home[i]
  IN [kind : {"vnic"}, obj : {i \in new.ports : moved(i)}]
     \cup [kind : {"vrf"}, obj : {t \in new.vrfs : changed(t)}]
     \cup [kind : {"nat"}, obj : IF old.nat = new.nat THEN {} ELSE {None}]
     \cup [kind : {"del-vrf"}, obj : old.vrfs \ new.vrfs]
     \cup [kind : {"del-vnic"}, obj : old.ports \ new.ports]

CommitOrder == <<"vnic", "vrf", "nat", "del-vrf", "del-vnic">>

\* NAT before the interfaces it is about (NatServed).
SlipRecoveryOrder ==
  <<"retry", "reset", "nat", "vnic", "vrf", "register", "set-table", "recheck", "leftover">>

RecoveryOrder ==
  <<"retry", "reset", "vnic", "vrf", "register", "set-table", "nat", "recheck", "leftover">>

\* The kinds of operations that come before each kind.
Before(order) ==
  [k \in OpKind |->
     {order[i] : i \in {i \in DOMAIN order : \E j \in DOMAIN order : i < j /\ order[j] = k}}]
CommitBefore == Before(CommitOrder)
RecoveryBefore == Before(RecoveryOrder)

\* The next operation: none that is left comes before it.  Within one kind the order is
\* that of the configuration, some fixed order.
Due(before, ops, op) ==
  /\ op \in ops /\ \A p \in ops : p.kind \notin before[op.kind]
  /\ op = CHOOSE p \in ops : p.kind = op.kind

Begin(new) ==
  /\ job.phase = "idle" /\ More /\ new # committed
  /\ job' = [phase |-> "run", new |-> new, todo |-> Plan(committed, new), done |-> << >>,
             held |-> {}]
  /\ commits' = commits + 1
  /\ overlap' = (overlap \/ rec.active)
  /\ trusted' = (trusted /\ ~rec.active) /\ replayed' = FALSE
  /\ UNCHANGED <<vpp, reg, up, committed, rec, waiting, alarms, undone, faults, restarts>>

\* DeleteVRF reads the registered interfaces under the lock and uses them after it.
ReadRegistered(op) ==
  /\ job.phase = "run" /\ Due(CommitBefore, job.todo, op) /\ op.kind = "del-vrf" /\ up
  /\ job' = [job EXCEPT !.phase = "read", !.held = reg.ifaces[op.obj]]
  /\ UNCHANGED <<vpp, reg, up, committed, rec, waiting, alarms, overlap, trusted, undone,
                 replayed, faults, commits, restarts>>

\* A deletion that left the table in VPP is registered within the call; any other error
\* starts the compensation, which begins with a failed VRF operation itself.
Deferred(op, o) == op.kind = "del-vrf" /\ op.obj \in o.vpp.tables

RunOp(op) ==
  /\ \/ job.phase = "read" /\ op.kind = "del-vrf"
     \/ job.phase = "run" /\ ~(op.kind = "del-vrf" /\ up)
  /\ Due(CommitBefore, job.todo, op)
  /\ \E o \in Outcomes(op, job.new, job.held) :
       /\ Take(o)
       /\ IF o.ok
          THEN /\ job' = [job EXCEPT !.todo = @ \ {op}, !.done = Append(@, op),
                            !.phase = IF Deferred(op, o) THEN "kept"
                                      ELSE IF op.kind = "del-vrf" THEN "dropped" ELSE "run"]
               /\ alarms' = IF op.kind = "del-vrf" THEN alarms
                            ELSE [alarms EXCEPT !.residue = @ \ {op}]
          ELSE /\ job' = [job EXCEPT !.phase = "undo", !.todo = {},
                            !.done = IF op.kind \in {"vrf", "del-vrf"} THEN Append(@, op) ELSE @]
               /\ UNCHANGED alarms
  /\ UNCHANGED <<up, committed, rec, waiting, overlap, trusted, undone, replayed, commits,
                 restarts>>

Latest == job.done[Len(job.done)]

\* The alarms of a deletion come after the provider has let go of its lock: a patrol may
\* have looked at the registration in between.
TellDeletion ==
  /\ job.phase \in {"kept", "dropped"}
  /\ alarms' = [alarms EXCEPT !.residue = @ \ {Latest},
       !.deferred = IF job.phase = "kept" THEN @ \cup {Latest.obj} ELSE @ \ {Latest.obj}]
  /\ job' = [job EXCEPT !.phase = "run"]
  /\ UNCHANGED <<vpp, reg, up, committed, rec, waiting, overlap, trusted, undone, replayed,
                 faults, commits, restarts>>

\* The old setting is applied again; what the old configuration lacks is deleted.
Inverse(op) ==
  CASE op.kind \in {"vnic", "del-vnic"} ->
         [kind |-> IF op.obj \in committed.ports THEN "vnic" ELSE "del-vnic", obj |-> op.obj]
    [] op.kind \in {"vrf", "del-vrf"} ->
         [kind |-> IF op.obj \in committed.vrfs THEN "vrf" ELSE "del-vrf", obj |-> op.obj]
    [] op.kind = "nat" -> op

\* Here a table that stays is an error.
UndoOp ==
  /\ job.phase = "undo" /\ job.done # << >>
  /\ LET un == Inverse(Latest)
     IN \E o \in Outcomes(un, committed, IF un.kind = "del-vrf" THEN reg.ifaces[un.obj] ELSE {}) :
          /\ Take(o)
          /\ job' = IF o.ok /\ ~Deferred(un, o)
                    THEN [job EXCEPT !.done = SubSeq(@, 1, Len(@) - 1)]
                    ELSE [job EXCEPT !.phase = "residue"]
          /\ undone' = (undone \/ ~o.ok \/ Latest.kind \in {"vrf", "del-vrf"})
  /\ UNCHANGED <<up, committed, rec, waiting, alarms, overlap, trusted, replayed, commits,
                 restarts>>

\* An undo that has failed leaves an alarm.
TellResidue ==
  /\ job.phase = "residue"
  /\ alarms' = [alarms EXCEPT !.residue = @ \cup {Latest}]
  /\ job' = [job EXCEPT !.phase = "undo", !.done = SubSeq(@, 1, Len(@) - 1)]
  /\ UNCHANGED <<vpp, reg, up, committed, rec, waiting, overlap, trusted, undone, replayed,
                 faults, commits, restarts>>

\* The commit has stored the configuration, or given up.
End ==
  /\ \/ job.phase = "run" /\ job.todo = {} /\ committed' = job.new
     \/ job.phase = "undo" /\ job.done = << >> /\ UNCHANGED committed
  /\ job' = [job EXCEPT !.phase = "idle", !.done = << >>, !.held = {}]
  /\ UNCHANGED <<vpp, reg, up, rec, waiting, alarms, overlap, trusted, undone, replayed, faults,
                 commits, restarts>>

-----------------------------------------------------------------------------
(* Restarts, recovery and patrol (cmd/nfvisd/main.go, recovery.go) *)

IdleJob == [phase |-> "idle", new |-> Init0, todo |-> {}, done |-> << >>, held |-> {}]
Holding(c, ops) ==
  [active |-> (ops # {}), cfg |-> c, todo |-> ops, failed |-> {}, retrying |-> FALSE,
   scan |-> {}, clean |-> {}, cleared |-> {}]
IdleRec == Holding(Init0, {})
NoAlarms == [recovery |-> {}, residue |-> {}, deferred |-> {}, leftover |-> {}]

\* To a retry that has begun every table it can no longer read exists.
VppRestart ==
  /\ More /\ restarts' = restarts + 1
  /\ vpp' = EmptyVpp /\ up' = FALSE
  /\ rec' = [rec EXCEPT !.scan = @ \cap rec.cfg.vrfs]
  /\ overlap' = (overlap \/ rec.active) /\ trusted' = FALSE /\ replayed' = FALSE
  /\ UNCHANGED <<reg, committed, job, waiting, alarms, undone, faults, commits>>

\* The process ends, at any moment; alarms and registries go with it.
DaemonRestart ==
  /\ More /\ restarts' = restarts + 1
  /\ reg' = EmptyReg({}) /\ up' = FALSE /\ job' = IdleJob /\ rec' = IdleRec
  /\ waiting' = FALSE /\ alarms' = NoAlarms
  /\ overlap' = FALSE /\ trusted' = FALSE /\ replayed' = FALSE
  /\ UNCHANGED <<vpp, committed, undone, faults, commits>>

\* OnConnect: the registries are emptied before recoveryMu is taken.
Reconnect ==
  /\ ~up /\ up' = TRUE
  /\ reg' = EmptyReg(reg.pending) /\ waiting' = TRUE
  /\ UNCHANGED <<vpp, committed, job, rec, alarms, overlap, trusted, undone, replayed, faults,
                 commits, restarts>>

Single(k) == [kind : {k}, obj : {None}]
Replay(c) ==
  LET homed == {i \in c.ports : c.home[i] # None}
  IN Single("retry") \cup Single("reset") \cup [kind : {"vnic"}, obj : c.ports]
     \cup [kind : {"vrf", "register"}, obj : c.vrfs] \cup [kind : {"set-table"}, obj : homed]
     \cup (IF c.nat = None THEN {} ELSE Single("nat"))
     \cup Single("recheck") \cup Single("leftover")

\* recoveryMu is taken and the committed configuration read; commits go on.
RecoveryBegin ==
  /\ waiting /\ ~rec.active
  /\ rec' = Holding(committed, Replay(committed))
  /\ waiting' = FALSE /\ overlap' = (job.phase # "idle")
  /\ trusted' = (trusted /\ job.phase = "idle")
  /\ UNCHANGED <<vpp, reg, up, committed, job, alarms, undone, replayed, faults, commits,
                 restarts>>

\* Every 15 seconds.
Patrol ==
  /\ ~rec.active /\ reg.pending # {}
  /\ rec' = Holding(committed, Single("retry"))
  /\ trusted' = (trusted /\ job.phase = "idle")
  /\ UNCHANGED <<vpp, reg, up, committed, job, waiting, alarms, overlap, undone, replayed,
                 faults, commits, restarts>>

Done(op) == [rec EXCEPT !.todo = @ \ {op}, !.active = (rec.todo # {op})]

\* Whatever fails is recorded, and the rest goes on.
RecoveryStep(op) ==
  /\ op.kind \in {"vnic", "vrf", "register", "set-table", "nat"}
  /\ Due(RecoveryBefore, rec.todo, op)
  /\ \E o \in Outcomes(op, rec.cfg, {}) :
       /\ Take(o)
       /\ rec' = [Done(op) EXCEPT !.failed = IF o.ok THEN @ ELSE @ \cup {op}]
  /\ UNCHANGED <<up, committed, job, waiting, alarms, overlap, trusted, undone, replayed, commits,
                 restarts>>

RecoveryReset(op) ==
  /\ op.kind = "reset" /\ Due(RecoveryBefore, rec.todo, op)
  /\ reg' = EmptyReg(reg.pending) /\ rec' = Done(op)
  /\ UNCHANGED <<vpp, up, committed, job, waiting, alarms, overlap, trusted, undone, replayed,
                 faults, commits, restarts>>

\* RetryDeferredVRFDeletes: the pending deletions are copied under the lock, and each
\* registration is removed under it again, table by table.
RetryBegin(op) ==
  /\ op.kind \in {"retry", "recheck"} /\ Due(RecoveryBefore, rec.todo, op) /\ ~rec.retrying
  /\ rec' = IF up /\ reg.pending # {}
            THEN [rec EXCEPT !.retrying = TRUE, !.scan = reg.pending]
            ELSE Done(op)
  /\ UNCHANGED <<vpp, reg, up, committed, job, waiting, alarms, overlap, trusted, undone,
                 replayed, faults, commits, restarts>>

\* A table that is gone counts as one that VPP keeps (DeferralEnds).
SlipRetryTable(t) ==
  /\ t \in rec.scan /\ rec.clean = {}
  /\ vpp' = IF t \in rec.cfg.vrfs THEN vpp ELSE DropTable(vpp, t)
  /\ rec' = [rec EXCEPT !.scan = @ \ {t}, !.clean = IF t \in rec.cfg.vrfs THEN {t} ELSE {}]
  /\ UNCHANGED <<reg, up, committed, job, waiting, alarms, overlap, trusted, undone, replayed,
                 faults, commits, restarts>>

\* A table declared again is legitimate; any other is deleted once more, and is clean if
\* it is gone.
RetryTable(t) ==
  /\ t \in rec.scan /\ rec.clean = {}
  /\ vpp' = IF t \in rec.cfg.vrfs THEN vpp ELSE DropTable(vpp, t)
  /\ rec' = [rec EXCEPT !.scan = @ \ {t},
               !.clean = IF t \in rec.cfg.vrfs \/ t \notin DropTable(vpp, t).tables
                         THEN {t} ELSE {}]
  /\ UNCHANGED <<reg, up, committed, job, waiting, alarms, overlap, trusted, undone, replayed,
                 faults, commits, restarts>>

RetryClear ==
  /\ rec.clean # {}
  /\ reg' = [reg EXCEPT !.pending = @ \ rec.clean]
  /\ rec' = [rec EXCEPT !.clean = {}, !.cleared = @ \cup rec.clean]
  /\ UNCHANGED <<vpp, up, committed, job, waiting, alarms, overlap, trusted, undone, replayed,
                 faults, commits, restarts>>

\* Only then do the alarms of the tables found clean end, the residue of their operations
\* included.
RetryResolve(t) ==
  /\ rec.scan = {} /\ rec.clean = {} /\ t \in rec.cleared
  /\ LET about == {p \in alarms.residue : p.kind \in {"vrf", "del-vrf"} /\ p.obj = t}
     IN /\ alarms' = [alarms EXCEPT !.deferred = @ \ {t}, !.residue = @ \ about]
        /\ trusted' = (trusted /\ ~(undone /\ about # {} /\ t \in rec.cfg.vrfs))
  /\ rec' = [rec EXCEPT !.cleared = @ \ {t}]
  /\ UNCHANGED <<vpp, reg, up, committed, job, waiting, overlap, undone, replayed, faults,
                 commits, restarts>>

RetryEnd(op) ==
  /\ op.kind \in {"retry", "recheck"} /\ Due(RecoveryBefore, rec.todo, op) /\ rec.retrying
  /\ rec.scan \cup rec.clean \cup rec.cleared = {}
  /\ rec' = [Done(op) EXCEPT !.retrying = FALSE]
  /\ UNCHANGED <<vpp, reg, up, committed, job, waiting, alarms, overlap, trusted, undone,
                 replayed, faults, commits, restarts>>

\* Only what is registered as pending is looked for (LeftoversKnown).
SlipRecoveryEnd(op) ==
  /\ op.kind = "leftover" /\ Due(RecoveryBefore, rec.todo, op)
  /\ alarms' = [alarms EXCEPT !.recovery = rec.failed, !.leftover = reg.pending]
  /\ rec' = Done(op)
  /\ trusted' = (up /\ ~overlap) /\ undone' = FALSE /\ replayed' = (up /\ ~overlap)
  /\ UNCHANGED <<vpp, reg, up, committed, job, waiting, overlap, faults, commits, restarts>>

\* The alarms of the recovery become exactly what this one could not converge and
\* the tables no configuration declares.
RecoveryEnd(op) ==
  /\ op.kind = "leftover" /\ Due(RecoveryBefore, rec.todo, op)
  /\ alarms' = [alarms EXCEPT !.recovery = rec.failed,
                   !.leftover = IF up THEN LeftoverTables(vpp, rec.cfg) ELSE {}]
  /\ rec' = Done(op)
  /\ trusted' = (up /\ ~overlap) /\ undone' = FALSE /\ replayed' = (up /\ ~overlap)
  /\ UNCHANGED <<vpp, reg, up, committed, job, waiting, overlap, faults, commits, restarts>>

-----------------------------------------------------------------------------

Init ==
  /\ vpp = EmptyVpp /\ reg = EmptyReg({}) /\ up = FALSE
  /\ committed = Init0 /\ job = IdleJob /\ rec = IdleRec /\ waiting = FALSE
  /\ alarms = NoAlarms /\ overlap = FALSE /\ trusted = FALSE
  /\ undone = FALSE /\ replayed = FALSE
  /\ faults = 0 /\ commits = 0 /\ restarts = 0

Recovery ==
  \/ RecoveryBegin
  \/ \E op \in rec.todo : RecoveryStep(op) \/ RecoveryReset(op) \/ RetryBegin(op)
                          \/ RetryEnd(op) \/ RecoveryEnd(op)
  \/ \E t \in Table : RetryTable(t) \/ RetryResolve(t)
  \/ RetryClear

Next ==
  \/ \E new \in Cfg : Begin(new)
  \/ \E op \in job.todo : ReadRegistered(op) \/ RunOp(op)
  \/ TellDeletion \/ UndoOp \/ TellResidue \/ End
  \/ VppRestart \/ DaemonRestart \/ Reconnect
  \/ Recovery \/ Patrol

\* The goroutines of the recovery and of the patrol run whatever commits do.
Fairness == WF_vars(Reconnect) /\ WF_vars(Recovery) /\ WF_vars(Patrol)
Spec == Init /\ [][Next]_vars /\ Fairness

-----------------------------------------------------------------------------
(* Properties *)

Quiet == up /\ job.phase = "idle" /\ ~rec.active /\ ~waiting

\* History: trusted means that since the last recovery that had VPP to itself no
\* commit ran beside a recovery or a patrol, and no patrol has resolved an alarm about
\* what a compensation left of a declared VRF; undone, that since then a compensation
\* has had a VRF to undo, or failed; replayed, that no commit has begun since either.

\* A vNIC that is an interface of a VRF is connected to that VRF's own switch.
Homed(c) == \A t \in Table : \A i \in c.l3[t] \cap Vnic : c.home[i] = t
AllHomed == \A c \in Cfg : Homed(c)

AlarmedVrf(t) ==
  \/ \E k \in {"vrf", "register"} : [kind |-> k, obj |-> t] \in alarms.recovery
  \/ \E k \in {"vrf", "del-vrf"} : [kind |-> k, obj |-> t] \in alarms.residue

\* With data plane w and registries r the VRF t of c is there, with its interfaces in
\* it, addressed and registered.
Placed(w, r, c, t) ==
  /\ t \in w.tables
  /\ \A i \in c.l3[t] : w.member[i] = t /\ i \in w.addr /\ i \in r.ifaces[t]

InPlace ==
  \A t \in committed.vrfs :
    \/ [kind |-> "vrf", obj |-> t] \in alarms.recovery
    \/ Placed(vpp, reg, committed, t)

\* Between commits every declared VRF is in place, or the last recovery has told that
\* it is not: until the next commit whatever the recovery met and however the vNICs are
\* used, and then through any sequence of commits, of which some may be refused or
\* compensated, as long as no VRF had to be undone.
Converged == Quiet /\ (replayed \/ (trusted /\ ~undone /\ AllHomed)) => InPlace

\* After an undisturbed recovery the declared NAT is served: the plugin is on and
\* every interface of the inside domain has its feature, even where the registries
\* had been emptied just before.
NatServed ==
  Quiet /\ replayed /\ committed.nat # None =>
    \/ [kind |-> "nat", obj |-> None] \in alarms.recovery
    \/ /\ vpp.plug # None /\ vpp.feat[committed.nat.out] = "outside"
       /\ \A i \in AttachedIfaces(reg, committed.nat.vs) : vpp.feat[i] = "inside"

Declares(c, t, i) == i \in c.l3[t] \/ (i \in c.ports /\ c.home[i] = t)

\* Deleting a VRF, or completing a deletion, takes no interface out of a VRF that
\* declares it: one goes to the default table only from a VRF that is being changed or
\* deleted, or that an alarm tells of.  A port is safe whatever the compensations did, a
\* vNIC as long as none had a VRF to undo or failed: it is registered twice.  (An
\* interface that a failed change has left in another VRF goes with the one it is
\* registered with.)
DeletionSpares ==
  [][trusted => \A i \in Iface :
       LET t == vpp.member[i]
       IN /\ t \in committed.vrfs /\ Declares(committed, t, i)
          /\ i \in Vnic => ~undone /\ AllHomed
          /\ vpp'.member[i] = Default /\ i \in vpp'.exist /\ up'
          => \/ AlarmedVrf(t)
             \/ \E op \in job.todo \cup {job.done[n] : n \in DOMAIN job.done} :
                  op.kind \in {"vrf", "del-vrf"} /\ op.obj = t]_vars

\* An alarm about a deferred deletion that a retry will resolve stays so, as long as it is
\* there: its registration outlives the emptying of the registries by every recovery, and
\* goes only to a retry that has yet to resolve the alarm.
Backed(t) == t \in reg.pending \cup rec.cleared
DeferralsKept ==
  [][\A t \in alarms.deferred : Backed(t) /\ t \in alarms'.deferred => Backed(t)']_vars

\* A table no configuration declares is known after a recovery, whether a failed
\* compensation, a deferred deletion or a crash between two operations left it.
LeftoversKnown ==
  Quiet /\ replayed => vpp.tables \ committed.vrfs \subseteq alarms.leftover

\* A registered deletion whose table is gone has its alarm resolved without an operator,
\* unless the table is made again or VPP goes.  (The registration is asked for: a patrol
\* that comes between registering a deletion and telling of it removes the registration,
\* since its configuration still declares the VRF, and the alarm told afterwards is
\* nobody's to resolve.)
DeferralEnds ==
  \A t \in Table :
    t \in alarms.deferred \cap reg.pending /\ t \notin vpp.tables
      ~> t \notin alarms.deferred \/ t \in vpp.tables \/ ~up

-----------------------------------------------------------------------------
(* What the comments say and the code does not do *)

\* "If a step fails, the operations done are compensated in reverse order, which
\* brings the substrate back to the state before the change" (apply.go): the VRFs are
\* in place after a failed VPP call too.
CompensationRestores ==
  Quiet /\ trusted =>
    \A t \in committed.vrfs : AlarmedVrf(t) \/ Placed(vpp, reg, committed, t)

\* "An interface can belong to one table only at a time [...] the registration is the only
\* basis" of deletions and of NAT's inside (l3.go): no interface is registered with two
\* VRFs.  A vNIC is registered twice, and applying a VRF takes it from one of the two
\* sets only.
OneDomain ==
  trusted /\ ~undone =>
    \A t, u \in Table : t # u => AttachedIfaces(reg, t) \cap AttachedIfaces(reg, u) = {}

\* "The table is gone or declared again, the residue no longer holds" (provider.go): a VRF
\* is in place when the alarms about it end without a commit.
ResidueResolved ==
  [][trusted /\ job.phase = "idle" =>
       \A t \in committed.vrfs :
         AlarmedVrf(t) /\ ~AlarmedVrf(t)' => Placed(vpp, reg, committed, t)']_vars

\* "The alarm ends by itself when the cleaning is done" (alarm.go): what the alarm of a
\* deferred deletion is about is registered, so that a retry will end it.
DeferralRegistered == job.phase = "idle" => \A t \in alarms.deferred : Backed(t)

\* "The replay only adds, and adding is idempotent, so that it can be repeated
\* safely" (main.go): an undisturbed recovery of what VPP already holds converges
\* every VRF.
ReplayIdempotent ==
  Quiet /\ replayed /\ faults = 0 => \A op \in alarms.recovery : op.kind # "vrf"
=============================================================================
