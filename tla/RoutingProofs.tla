---------------------------- MODULE RoutingProofs ---------------------------
(***************************************************************************)
(* Theorems about Routing, for any tables, interfaces and configurations,  *)
(* and any number of commits, failing calls and restarts.                  *)
(***************************************************************************)
EXTENDS Routing, TLAPS

-----------------------------------------------------------------------------
(* The inductive invariant *)

NatOp == [kind |-> "nat", obj |-> None]
LeftoverOp == [kind |-> "leftover", obj |-> None]

CommitKind == {"vnic", "vrf", "nat", "del-vrf", "del-vnic"}

\* An operation of a commit is about a vNIC, a VRF or NAT; a recovery works on what
\* its configuration asks for, and after NAT only looks for what was left.
CommitOp(op) ==
  /\ op \in Op /\ op.kind \in CommitKind
  /\ op.kind \in {"vnic", "del-vnic"} => op.obj \in Vnic
  /\ op.kind \in {"vrf", "del-vrf"} => op.obj \in Table

ShapeInv ==
  /\ \A op \in job.todo : CommitOp(op)
  /\ \A n \in DOMAIN job.done : CommitOp(job.done[n])
  /\ rec.todo \subseteq Replay(rec.cfg)
  /\ LeftoverOp \in rec.todo /\ rec.cfg.nat # None /\ NatOp \notin rec.todo =>
       \A op \in rec.todo : op.kind \in {"recheck", "leftover"}

\* A recovery that has VPP to itself runs beside no commit and has read what is
\* committed; what is left of a recovery that ends is nothing, and a patrol has one
\* operation.
AloneInv ==
  /\ LeftoverOp \in rec.todo /\ ~overlap => job.phase = "idle" /\ rec.cfg = committed
  /\ LeftoverOp \in rec.todo \/ rec.todo \subseteq Single("retry")
  /\ replayed => up /\ job.phase = "idle"

\* A data plane serves a NAT rule: with these registries.
ServedIn(w, r, n) ==
  /\ w.plug # None /\ w.feat[n.out] = "outside"
  /\ \A i \in AttachedIfaces(r, n.vs) : w.feat[i] = "inside"
Served(n) == ServedIn(vpp, reg, n)

\* NAT starts from empty registries, and what it has set up stays until the end.
NatInv ==
  /\ LeftoverOp \in rec.todo /\ ~overlap /\ rec.cfg.nat # None =>
       IF NatOp \in rec.todo
       THEN Single("reset") \cap rec.todo = {} => reg.feat = NoFeature /\ ~reg.on
       ELSE NatOp \in rec.failed \/ (up /\ Served(rec.cfg.nat))
  /\ replayed /\ LeftoverOp \notin rec.todo /\ committed.nat # None =>
       NatOp \in alarms.recovery \/ Served(committed.nat)

LeftoverInv ==
  replayed /\ LeftoverOp \notin rec.todo => vpp.tables \ committed.vrfs \subseteq alarms.leftover

\* What is to be told of is what the commit has done last.
TellInv ==
  /\ job.phase \in {"kept", "dropped", "residue"} => job.done # << >>
  /\ job.phase \in {"kept", "dropped"} => Latest.kind = "del-vrf"

\* A retry is an operation of the recovery, which waits for its end.
RetryingInv ==
  rec.retrying =>
    \E op \in rec.todo : op.kind \in {"retry", "recheck"} /\ Due(RecoveryBefore, rec.todo, op)

IInv == TypeOK /\ ShapeInv /\ AloneInv /\ NatInv /\ LeftoverInv /\ TellInv /\ RetryingInv

\* A step of DeferralsKept.
Keeps == \A t \in alarms.deferred : Backed(t) /\ t \in alarms'.deferred => Backed(t)'

-----------------------------------------------------------------------------
(* What the calls of VPP leave *)

\* A data plane that keeps its tables, and interfaces outside I where they are.
Stays(w, v, I) ==
  /\ w.tables \subseteq v.tables
  /\ \A i \in Iface \ I : v.member[i] = w.member[i] /\ (i \in w.addr => i \in v.addr)

\* VPP after its start and emptied registries have their types.
LEMMA StartTyped ==
  /\ EmptyVpp \in Vpps
  /\ \A pending \in SUBSET Table : EmptyReg(pending) \in Regs
BY RoutingAssumption DEF EmptyVpp, Vpps, EmptyReg, Regs, NoFeature, Feature, Domain

\* Calls on tables keep the types and touch neither features nor the plugin; a deletion
\* adds no table.
LEMMA TableCalls ==
  ASSUME NEW w \in Vpps, NEW t \in Table
  PROVE  /\ EnsureTables(w, t) \in Vpps /\ DropTable(w, t) \in Vpps
         /\ EnsureTables(w, t).feat = w.feat /\ EnsureTables(w, t).plug = w.plug
         /\ DropTable(w, t).tables \subseteq w.tables
         /\ DropTable(w, t).feat = w.feat /\ DropTable(w, t).plug = w.plug
BY DEF EnsureTables, DropTable, Vpps

\* Moving interfaces keeps the types and the tables.
LEMMA IfaceCalls ==
  ASSUME NEW w \in Vpps, NEW I \in SUBSET Iface, NEW t \in Table \cup {Default}
  PROVE  MoveIfaces(w, I, t) \in Vpps /\ MoveIfaces(w, I, t).tables = w.tables
BY DEF MoveIfaces, Vpps

\* Removing a vNIC keeps the types.
LEMMA RemovedIface ==
  ASSUME NEW w \in Vpps, NEW i \in Iface
  PROVE  RemoveIface(w, i) \in Vpps
BY DEF RemoveIface, Vpps, Feature

\* The calls of the NAT plugin keep the types, and interfaces where they are; enabling
\* leaves it on.
LEMMA NatCalls ==
  ASSUME NEW w \in Vpps, NEW d \in Domain,
         NEW p \in Table \cup {Default, None}, NEW q \in Table \cup {Default, None}
  PROVE  /\ NATEnable(w, d) \in Vpps /\ NATEnable(w, d).plug # None
         /\ Stays(w, NATEnable(w, d), {})
         /\ NATDisable(w) \in Vpps /\ Stays(w, NATDisable(w), {})
         /\ NATAddressRange(w, p, q) \in Vpps
         /\ NATAddressRange(w, p, q).plug = w.plug
         /\ Stays(w, NATAddressRange(w, p, q), {})
<1>1. NATEnable(w, d) \in Vpps /\ NATEnable(w, d).plug # None
  BY RoutingAssumption DEF NATEnable, Vpps
<1>2. NATDisable(w) \in Vpps
  BY DEF NATDisable, Vpps, NoFeature, Feature
<1>3. NATAddressRange(w, p, q) \in Vpps /\ NATAddressRange(w, p, q).plug = w.plug
  BY DEF NATAddressRange, Vpps
<1>4. Stays(w, NATEnable(w, d), {}) /\ Stays(w, NATDisable(w), {})
  BY DEF NATEnable, NATDisable, Stays, Vpps
<1>5. Stays(w, NATAddressRange(w, p, q), {})
  BY DEF NATAddressRange, Stays, Vpps
<1> QED BY <1>1, <1>2, <1>3, <1>4, <1>5

-----------------------------------------------------------------------------
(* What the registries keep *)

\* Registering interfaces with a table keeps the types and the other records.
LEMMA RegisterTyped ==
  ASSUME NEW r \in Regs, NEW t \in Table, NEW I \in SUBSET Iface
  PROVE  /\ Register(r, t, I) \in Regs
         /\ Reassign(r, t, I) \in [Table -> SUBSET Iface]
         /\ Register(r, t, I).pending = r.pending /\ Register(r, t, I).on = r.on
         /\ Register(r, t, I).feat = r.feat
<1>1. Reassign(r, t, I) \in [Table -> SUBSET Iface]
  BY DEF Reassign, Regs
<1> DEFINE R == Reassign(r, t, I)
           f == [R EXCEPT ![t] = @ \cup I]
           g == [i \in Iface |-> IF i \in I THEN t ELSE r.tableOf[i]]
<1>2. f \in [Table -> SUBSET Iface]
  BY <1>1
<1>3. g \in [Iface -> Table \cup {None}]
  BY DEF Regs
<1>4. Register(r, t, I) = [r EXCEPT !.ifaces = f, !.tableOf = g]
  BY DEF Register, Regs
<1> HIDE DEF f, g, R
<1> QED BY <1>1, <1>2, <1>3, <1>4 DEF Regs

\* Forgetting a table keeps the types and the pending deletions.
LEMMA ForgetTableTyped ==
  ASSUME NEW r \in Regs, NEW t \in Table
  PROVE  /\ ForgetTable(r, t) \in Regs
         /\ ForgetTable(r, t).pending = r.pending
BY DEF ForgetTable, Regs

\* Forgetting a vNIC keeps the types and the pending deletions.
LEMMA ForgetVnfTyped ==
  ASSUME NEW r \in Regs, NEW i \in Vnic
  PROVE  /\ ForgetVnfIface(r, i) \in Regs
         /\ ForgetVnfIface(r, i).pending = r.pending
<1>1. i \in Iface
  BY RoutingAssumption
<1>2. CASE r.vnfs[i] = None
  BY <1>1, <1>2 DEF ForgetVnfIface, Regs
<1>3. CASE r.vnfs[i] # None
  BY <1>1, <1>3 DEF ForgetVnfIface, Regs, Feature
<1> QED BY <1>2, <1>3

-----------------------------------------------------------------------------
(* What the provider calls leave *)

Answer == [vpp : Vpps, reg : Regs, ok : BOOLEAN, fault : BOOLEAN]

\* The calls on interfaces and tables leave the records of NAT and of the pending
\* deletions alone.
Apart(o, r) == o.reg.pending = r.pending /\ o.reg.on = r.on /\ o.reg.feat = r.feat

\* What an outcome is made of.
LEMMA Answers ==
  ASSUME NEW w, NEW r
  PROVE  /\ w \in Vpps /\ r \in Regs =>
              Ok(w, r) \in Answer /\ Refuse(w, r) \in Answer /\ Broken(w, r) \in Answer
         /\ Ok(w, r).vpp = w /\ Refuse(w, r).vpp = w /\ Broken(w, r).vpp = w
         /\ Ok(w, r).reg = r /\ Refuse(w, r).reg = r /\ Broken(w, r).reg = r
         /\ Ok(w, r).ok /\ ~Refuse(w, r).ok /\ ~Broken(w, r).ok
BY DEF Ok, Refuse, Broken, Answer

\* The interfaces of a VRF moved and addressed, all or some of them.
LEMMA Settled ==
  ASSUME NEW w \in Vpps, NEW t \in Table, NEW I \in SUBSET Iface
  PROVE  Settle(w, t, I) \in Vpps
<1> DEFINE m == MoveIfaces(EnsureTables(w, t), I, t)
<1>1. m \in Vpps
  BY TableCalls, IfaceCalls
<1>2. Settle(w, t, I) = [m EXCEPT !.exist = @ \cup (I \cap Sub), !.addr = @ \cup I]
  BY DEF Settle
<1>3. m.exist \cup (I \cap Sub) \in SUBSET Iface /\ m.addr \cup I \in SUBSET Iface
  <2> HIDE DEF m
  <2> QED BY <1>1 DEF Vpps
<1> HIDE DEF m
<1> QED BY <1>1, <1>2, <1>3 DEF Vpps

\* Applying a VRF, whatever its outcome.
LEMMA VrfApplied ==
  ASSUME NEW w \in Vpps, NEW r \in Regs, NEW c \in Config, NEW t \in Table,
         NEW o \in ApplyVRF(w, r, c, t)
  PROVE  o \in Answer /\ Apart(o, r)
<1> DEFINE I == c.l3[t]
           R == Reassign(r, t, I)
           f == [R EXCEPT ![t] = I \cup VnicsOf(r, t)]
           g == [i \in Iface |-> IF i \in I THEN t ELSE r.tableOf[i]]
           known == [r EXCEPT !.ifaces = f, !.tableOf = g]
<1>1. I \in SUBSET Iface
  BY DEF Config
<1>2. R \in [Table -> SUBSET Iface] /\ VnicsOf(r, t) \in SUBSET Iface
  BY <1>1, RegisterTyped, RoutingAssumption DEF VnicsOf
<1>3. f \in [Table -> SUBSET Iface] /\ g \in [Iface -> Table \cup {None}]
  BY <1>1, <1>2 DEF Regs
<1>4. known \in Regs /\ known.pending = r.pending /\ known.on = r.on /\ known.feat = r.feat
  <2> HIDE DEF f, g
  <2> QED BY <1>3 DEF Regs
<1>5. \/ o = Ok(Settle(w, t, I), known)
      \/ \E J \in SUBSET I : o = Broken(Settle(w, t, J), r) \/ o = Refuse(Settle(w, t, J), r)
  BY DEF ApplyVRF
<1>6. CASE o = Ok(Settle(w, t, I), known)
  <2> HIDE DEF known, I
  <2> QED BY <1>1, <1>4, <1>6, Settled, Answers DEF Apart
<1>7. CASE \E J \in SUBSET I : o = Broken(Settle(w, t, J), r) \/ o = Refuse(Settle(w, t, J), r)
  <2> HIDE DEF known, I
  <2> QED BY <1>1, <1>7, Settled, Answers DEF Apart
<1> QED BY <1>5, <1>6, <1>7

\* Registering the interfaces of a VRF, whether all of them are there or not.
LEMMA IfacesRegistered ==
  ASSUME NEW w \in Vpps, NEW r \in Regs, NEW c \in Config, NEW t \in Table,
         NEW o \in RegisterL3Interfaces(w, r, c, t)
  PROVE  o \in Answer /\ Apart(o, r)
<1> DEFINE here == c.l3[t] \cap w.exist
<1>1. here \in SUBSET Iface
  BY DEF Config
<1>2. o = Ok(w, Register(r, t, here)) \/ o = Refuse(w, Register(r, t, here))
  BY DEF RegisterL3Interfaces
<1> HIDE DEF here
<1> QED BY <1>1, <1>2, RegisterTyped, Answers DEF Apart

\* Giving a vNIC its table, whatever the outcome.
LEMMA TableSet ==
  ASSUME NEW w \in Vpps, NEW r \in Regs, NEW i \in Vnic, NEW t \in Table,
         NEW o \in SetVnfTable(w, r, i, t)
  PROVE  o \in Answer /\ Apart(o, r)
<1> DEFINE e == EnsureTables(w, t)
           g == Register(r, t, {i})
           known == [g EXCEPT !.vnfs[i] = t]
<1>1. {i} \in SUBSET Iface
  BY RoutingAssumption
<1>2. e \in Vpps /\ MoveIfaces(e, {i}, t) \in Vpps
  BY <1>1, TableCalls, IfaceCalls
<1>3. g \in Regs /\ g.pending = r.pending /\ g.on = r.on /\ g.feat = r.feat
  BY <1>1, RegisterTyped
<1>4. known \in Regs /\ known.pending = r.pending /\ known.on = r.on /\ known.feat = r.feat
  <2> HIDE DEF g
  <2> QED BY <1>3 DEF Regs
<1>5. \/ o = Refuse(w, r) \/ o = Ok(w, r) \/ o = Refuse(e, r)
      \/ o = Ok(MoveIfaces(e, {i}, t), known) \/ o = Broken(e, r)
  BY DEF SetVnfTable
<1> HIDE DEF e, known
<1> QED BY <1>2, <1>4, <1>5, Answers DEF Apart

\* Creating a vNIC, whatever the outcome.
LEMMA VnfApplied ==
  ASSUME NEW w \in Vpps, NEW r \in Regs, NEW c \in Config, NEW i \in Vnic,
         NEW o \in ApplyVnfInterface(w, r, c, i)
  PROVE  o \in Answer /\ Apart(o, r)
<1> DEFINE e == [w EXCEPT !.exist = @ \cup {i}]
<1>1. e \in Vpps
  BY RoutingAssumption DEF Vpps
<1>2. c.home[i] \in Table \cup {None}
  BY DEF Config
<1>3. \/ o = Ok(e, r) \/ o = Broken(w, r)
      \/ c.home[i] \in Table /\ o \in SetVnfTable(e, r, i, c.home[i])
  BY <1>2 DEF ApplyVnfInterface
<1> HIDE DEF e
<1>4. CASE o = Ok(e, r) \/ o = Broken(w, r)
  BY <1>1, <1>4, Answers DEF Apart
<1>5. CASE c.home[i] \in Table /\ o \in SetVnfTable(e, r, i, c.home[i])
  BY <1>1, <1>5, TableSet
<1> QED BY <1>3, <1>4, <1>5

\* Deleting a vNIC, whatever the outcome.
LEMMA VnfDeleted ==
  ASSUME NEW w \in Vpps, NEW r \in Regs, NEW i \in Vnic,
         NEW o \in DeleteVnfInterface(w, r, i)
  PROVE  o \in Answer /\ o.reg.pending = r.pending
<1>1. RemoveIface(w, i) \in Vpps
  BY RemovedIface, RoutingAssumption
<1>2. ForgetVnfIface(r, i) \in Regs /\ ForgetVnfIface(r, i).pending = r.pending
  BY ForgetVnfTyped
<1> QED BY <1>1, <1>2, Answers DEF DeleteVnfInterface

\* A table that is still there after its deletion is registered as pending.
LEMMA VrfDeleted ==
  ASSUME NEW w \in Vpps, NEW r \in Regs, NEW t \in Table, NEW held \in SUBSET Iface,
         NEW o \in DeleteVRF(w, r, t, held)
  PROVE  /\ o \in Answer /\ r.pending \subseteq o.reg.pending
         /\ o.ok /\ t \in o.vpp.tables => t \in o.reg.pending
<1> DEFINE here == held \cap w.exist
           bare == [w EXCEPT !.addr = @ \ here]
           free == MoveIfaces(bare, here, Default)
           gone == DropTable(free, t)
           known == ForgetTable(r, t)
           kept == [known EXCEPT !.pending = @ \cup {t}]
           part(J) == [w EXCEPT !.addr = @ \ J]
<1>1. here \in SUBSET Iface
  OBVIOUS
<1>2. \A J \in SUBSET here : part(J) \in Vpps
  BY DEF Vpps
<1>3. bare \in Vpps
  BY DEF Vpps
<1>4. free \in Vpps
  <2> HIDE DEF bare
  <2> QED BY <1>1, <1>3, IfaceCalls
<1>5. gone \in Vpps
  <2> HIDE DEF free
  <2> QED BY <1>4, TableCalls
<1>6. known \in Regs /\ known.pending = r.pending
  BY ForgetTableTyped
<1>7. kept \in Regs /\ kept.pending = r.pending \cup {t}
  <2> HIDE DEF known
  <2> QED BY <1>6 DEF Regs
<1>8. \/ t \in gone.tables /\ o = Ok(gone, kept)
      \/ t \notin gone.tables /\ o = Ok(gone, known)
      \/ \E J \in SUBSET here : o = Broken(MoveIfaces(part(J), J, Default), r)
      \/ o = Broken(bare, r) \/ o = Broken(free, known) \/ o = Broken(gone, known)
  BY DEF DeleteVRF
<1>9. CASE \E J \in SUBSET here : o = Broken(MoveIfaces(part(J), J, Default), r)
  <2> PICK J \in SUBSET here : o = Broken(MoveIfaces(part(J), J, Default), r)
    BY <1>9
  <2>1. part(J) \in Vpps /\ J \in SUBSET Iface
    BY <1>1, <1>2
  <2>2. MoveIfaces(part(J), J, Default) \in Vpps
    <3> HIDE DEF part
    <3> QED BY <2>1, IfaceCalls
  <2> HIDE DEF part
  <2> QED BY <2>2, Answers
<1> HIDE DEF bare, free, gone, known, kept, part, here
<1>10. CASE t \in gone.tables /\ o = Ok(gone, kept)
  BY <1>5, <1>7, <1>10, Answers
<1>11. CASE t \notin gone.tables /\ o = Ok(gone, known)
  BY <1>5, <1>6, <1>11, Answers
<1>12. CASE o = Broken(bare, r) \/ o = Broken(free, known) \/ o = Broken(gone, known)
  BY <1>3, <1>4, <1>5, <1>6, <1>12, Answers
<1> QED BY <1>8, <1>9, <1>10, <1>11, <1>12

NatRules == [vs : Table, out : Iface, pool : BOOLEAN] \cup {None}

\* Switching the plugin keeps the types, and one that was off is on for a rule.
LEMMA PluginSwitched ==
  ASSUME NEW w \in Vpps, NEW r \in Regs, NEW n \in NatRules, NEW d \in Domain
  PROVE  /\ SwitchPlugin(w, r, n, d) \in Vpps /\ Stays(w, SwitchPlugin(w, r, n, d), {})
         /\ n # None /\ ~r.on => SwitchPlugin(w, r, n, d).plug # None
<1>1. /\ NATDisable(w) \in Vpps /\ Stays(w, NATDisable(w), {})
      /\ None \in Table \cup {Default, None}
  BY NatCalls
<1>2. \A x \in Vpps : /\ NATEnable(x, d) \in Vpps /\ NATEnable(x, d).plug # None
                     /\ Stays(x, NATEnable(x, d), {})
  BY <1>1, NatCalls
<1> QED BY <1>1, <1>2 DEF SwitchPlugin, Stays

\* What a rule wants has its types.
LEMMA FeaturesTyped ==
  ASSUME NEW r \in Regs, NEW n \in NatRules, n # None
  PROVE  /\ n.vs \in Table /\ n.out \in Iface /\ n.pool \in BOOLEAN
         /\ AttachedIfaces(r, n.vs) \in SUBSET Iface
         /\ DesiredFeatures(r, n) \in [Iface -> Feature]
         /\ DomainOf(r, n) \in Domain
<1>1. n.vs \in Table /\ n.out \in Iface /\ n.pool \in BOOLEAN
  BY DEF NatRules
<1>2. AttachedIfaces(r, n.vs) \in SUBSET Iface
  BY <1>1, RoutingAssumption DEF AttachedIfaces, VnicsOf, Regs
<1>3. DesiredFeatures(r, n) \in [Iface -> Feature]
  BY DEF DesiredFeatures, Feature
<1>4. DomainOf(r, n) \in Domain
  BY <1>1 DEF DomainOf, Domain, Regs
<1> QED BY <1>1, <1>2, <1>3, <1>4

\* What the rule wants and the registry lacks is in the data plane afterwards.
LEMMA Converges ==
  ASSUME NEW w \in Vpps, NEW r \in Regs, NEW n \in NatRules, NEW d \in Domain
  PROVE  LET e == Converge(w, r, n, d)
         IN /\ e.vpp \in Vpps /\ e.reg \in Regs /\ e.reg.pending = r.pending
            /\ e.vpp.plug = w.plug /\ Stays(w, e.vpp, {})
            /\ e.reg.ifaces = r.ifaces /\ e.reg.vnfs = r.vnfs
            /\ n # None /\ r.feat = NoFeature =>
                 \A i \in Iface : DesiredFeatures(r, n)[i] # "none" =>
                   e.vpp.feat[i] = DesiredFeatures(r, n)[i]
<1> DEFINE want == IF n = None THEN NoFeature ELSE DesiredFeatures(r, n)
           own  == IF n = None \/ n.pool THEN {} ELSE {n.out}
           pool == IF n = None \/ ~n.pool THEN None ELSE d.in
           kept == {i \in Iface :
                      InsideUnresolved(r, n) /\ want[i] = "none" /\ r.feat[i] = "inside"}
           end  == [i \in Iface |-> IF i \in kept THEN "inside" ELSE want[i]]
           v    == IF pool = r.pool THEN w ELSE NATAddressRange(w, r.pool, pool)
           feat == [i \in Iface |-> IF r.feat[i] = end[i] THEN v.feat[i] ELSE end[i]]
           owns == (v.own \ (r.own \ own)) \cup (own \ r.own)
           e    == Converge(w, r, n, d)
<1>1. want \in [Iface -> Feature]
  BY FeaturesTyped DEF NoFeature, Feature
<1>2. own \in SUBSET Iface
  BY FeaturesTyped
<1>3. pool \in Table \cup {Default, None}
  BY DEF Domain
<1>4. end \in [Iface -> Feature]
  BY <1>1 DEF Feature
<1>5. v \in Vpps /\ v.plug = w.plug /\ Stays(w, v, {})
  <2> HIDE DEF pool
  <2>1. r.pool \in Table \cup {Default, None}
    BY DEF Regs
  <2> QED BY <1>3, <2>1, NatCalls DEF Stays
<1>6. e = [vpp |-> [v EXCEPT !.feat = feat, !.own = owns],
           reg |-> [r EXCEPT !.feat = end, !.own = own, !.pool = pool]]
  <2>1. v \in Vpps
    BY <1>5
  <2> QED BY <2>1 DEF Converge, Vpps
<1>7. feat \in [Iface -> Feature] /\ owns \in SUBSET Iface
  <2> HIDE DEF v, end, own
  <2> QED BY <1>2, <1>4, <1>5 DEF Vpps
<1>8. /\ e.vpp \in Vpps /\ e.reg \in Regs /\ e.reg.pending = r.pending
      /\ e.vpp.plug = w.plug /\ e.vpp.feat = feat /\ Stays(w, e.vpp, {})
      /\ e.reg.ifaces = r.ifaces /\ e.reg.vnfs = r.vnfs
  <2> HIDE DEF v, feat, owns, end, own, pool, e
  <2> QED BY <1>2, <1>3, <1>4, <1>5, <1>6, <1>7 DEF Vpps, Regs, Stays
<1>9. ASSUME n # None, r.feat = NoFeature, NEW i \in Iface, DesiredFeatures(r, n)[i] # "none"
      PROVE  feat[i] = DesiredFeatures(r, n)[i]
  <2>1. want[i] = DesiredFeatures(r, n)[i] /\ r.feat[i] = "none"
    BY <1>9 DEF NoFeature
  <2>2. i \notin kept
    BY <1>9, <2>1
  <2>3. end[i] = want[i]
    BY <2>2
  <2> HIDE DEF want, end, kept
  <2> QED BY <1>9, <2>1, <2>3
<1> HIDE DEF want, own, pool, kept, end, v, feat, owns
<1> QED BY <1>8, <1>9

\* NAT that starts from empty records is served when it has succeeded; interfaces stay
\* where they are and whose they are.
LEMMA NatApplied ==
  ASSUME NEW w \in Vpps, NEW r \in Regs, NEW n \in NatRules, NEW o \in ApplyNAT(w, r, n)
  PROVE  /\ o \in Answer /\ o.reg.pending = r.pending
         /\ Stays(w, o.vpp, {}) /\ o.reg.ifaces = r.ifaces /\ o.reg.vnfs = r.vnfs
         /\ o.ok /\ n # None /\ r.feat = NoFeature /\ ~r.on =>
              ServedIn(o.vpp, o.reg, n)
<1> DEFINE d == IF n = None THEN [in |-> Default, out |-> Default] ELSE DomainOf(r, n)
           x == SwitchPlugin(w, r, n, d)
           s == [r EXCEPT !.on = (n # None), !.dom = d]
           e == Converge(x, s, n, d)
<1>1. d \in Domain
  BY FeaturesTyped DEF Domain
<1>2. x \in Vpps /\ Stays(w, x, {}) /\ (n # None /\ ~r.on => x.plug # None)
  <2> HIDE DEF d
  <2> QED BY <1>1, PluginSwitched
<1>3. /\ s \in Regs /\ s.pending = r.pending /\ s.feat = r.feat
      /\ s.ifaces = r.ifaces /\ s.vnfs = r.vnfs
  <2> HIDE DEF d
  <2> QED BY <1>1 DEF Regs
<1>4. /\ e.vpp \in Vpps /\ e.reg \in Regs /\ e.reg.pending = s.pending
      /\ e.vpp.plug = x.plug /\ Stays(x, e.vpp, {})
      /\ e.reg.ifaces = s.ifaces /\ e.reg.vnfs = s.vnfs
      /\ n # None /\ s.feat = NoFeature =>
           \A i \in Iface : DesiredFeatures(s, n)[i] # "none" =>
             e.vpp.feat[i] = DesiredFeatures(s, n)[i]
  <2> HIDE DEF d, x, s
  <2> QED BY <1>1, <1>2, <1>3, Converges
<1>5. \/ o = Refuse(w, r) \/ o = Refuse(x, s)
      \/ o \in {Broken(w, r), Broken(x, s), Broken(e.vpp, s)}
      \/ /\ o = Ok(e.vpp, e.reg)
         /\ ~(n # None /\ (n.out \notin w.exist \/ n.out \in AttachedIfaces(r, n.vs)))
  BY DEF ApplyNAT
<1> HIDE DEF d, x, s, e
<1>6. CASE \/ o = Refuse(w, r) \/ o = Refuse(x, s)
           \/ o \in {Broken(w, r), Broken(x, s), Broken(e.vpp, s)}
  BY <1>2, <1>3, <1>4, <1>6, Answers DEF Stays
<1>7. CASE /\ o = Ok(e.vpp, e.reg)
           /\ ~(n # None /\ (n.out \notin w.exist \/ n.out \in AttachedIfaces(r, n.vs)))
  <2>1. o \in Answer /\ o.vpp = e.vpp /\ o.reg = e.reg
    BY <1>4, <1>7, Answers
  <2>2. ASSUME n # None, r.feat = NoFeature, ~r.on
        PROVE  ServedIn(e.vpp, e.reg, n)
    <3>1. e.vpp.plug # None
      BY <1>2, <1>4, <2>2
    <3>2. \A t : /\ AttachedIfaces(e.reg, t) = AttachedIfaces(r, t)
                 /\ AttachedIfaces(s, t) = AttachedIfaces(r, t)
      BY <1>3, <1>4 DEF AttachedIfaces, VnicsOf
    <3>3. n.out \in Iface /\ AttachedIfaces(r, n.vs) \subseteq Iface
      BY <2>2, FeaturesTyped
    <3>4. /\ DesiredFeatures(s, n)[n.out] = "outside"
          /\ \A i \in AttachedIfaces(r, n.vs) : DesiredFeatures(s, n)[i] = "inside"
      BY <1>7, <2>2, <3>2, <3>3 DEF DesiredFeatures
    <3> QED BY <1>3, <1>4, <2>2, <3>1, <3>2, <3>3, <3>4 DEF ServedIn
  <2> QED BY <1>2, <1>3, <1>4, <2>1, <2>2 DEF Stays
<1> QED BY <1>5, <1>6, <1>7

\* The operations a commit and a recovery have.
Sound(op, c) ==
  \/ CommitOp(op)
  \/ op.kind = "register" /\ op.obj \in Table
  \/ op.kind = "set-table" /\ op.obj \in Vnic /\ c.home[op.obj] \in Table

\* What any operation leaves: the types, the pending deletions and a deferred one among
\* them, the records of NAT unless it is about NAT, and NAT served when that has succeeded.
LEMMA OutcomesTyped ==
  ASSUME vpp \in Vpps, reg \in Regs, NEW c \in Config, NEW held \in SUBSET Iface,
         NEW op, Sound(op, c), NEW o \in Outcomes(op, c, held)
  PROVE  /\ o \in Answer /\ reg.pending \subseteq o.reg.pending
         /\ o.ok => up
         /\ o.ok /\ Deferred(op, o) => op.obj \in o.reg.pending
         /\ op.kind \in {"vnic", "vrf", "register", "set-table"} => Apart(o, reg)
         /\ o.ok /\ op.kind = "nat" /\ c.nat # None /\ reg.feat = NoFeature /\ ~reg.on =>
              ServedIn(o.vpp, o.reg, c.nat)
<1>1. CASE ~up
  <2>1. o = Refuse(vpp, reg)
    BY <1>1 DEF Outcomes
  <2> QED BY <2>1, Answers DEF Apart
<1>2. CASE up /\ op.kind = "vnic"
  <2>1. o \in ApplyVnfInterface(vpp, reg, c, op.obj) /\ op.obj \in Vnic
    BY <1>2 DEF Outcomes, Sound, CommitOp
  <2> QED BY <1>2, <2>1, VnfApplied DEF Apart, Deferred
<1>3. CASE up /\ op.kind = "vrf"
  <2>1. o \in ApplyVRF(vpp, reg, c, op.obj) /\ op.obj \in Table
    BY <1>3 DEF Outcomes, Sound, CommitOp
  <2> QED BY <1>3, <2>1, VrfApplied DEF Apart, Deferred
<1>4. CASE up /\ op.kind = "nat"
  <2>1. o \in ApplyNAT(vpp, reg, c.nat) /\ c.nat \in NatRules
    BY <1>4 DEF Outcomes, Config, NatRules
  <2> QED BY <1>4, <2>1, NatApplied DEF Deferred
<1>5. CASE up /\ op.kind = "del-vrf"
  <2>1. o \in DeleteVRF(vpp, reg, op.obj, held) /\ op.obj \in Table
    BY <1>5 DEF Outcomes, Sound, CommitOp
  <2> QED BY <1>5, <2>1, VrfDeleted DEF Deferred
<1>6. CASE up /\ op.kind = "del-vnic"
  <2>1. o \in DeleteVnfInterface(vpp, reg, op.obj) /\ op.obj \in Vnic
    BY <1>6 DEF Outcomes, Sound, CommitOp
  <2> QED BY <1>6, <2>1, VnfDeleted DEF Deferred
<1>7. CASE up /\ op.kind = "register"
  <2>1. o \in RegisterL3Interfaces(vpp, reg, c, op.obj) /\ op.obj \in Table
    BY <1>7 DEF Outcomes, Sound, CommitOp, CommitKind
  <2> QED BY <1>7, <2>1, IfacesRegistered DEF Apart, Deferred
<1>8. CASE up /\ op.kind = "set-table"
  <2>1. /\ o \in SetVnfTable(vpp, reg, op.obj, c.home[op.obj])
        /\ op.obj \in Vnic /\ c.home[op.obj] \in Table
    BY <1>8 DEF Outcomes, Sound, CommitOp, CommitKind
  <2> QED BY <1>8, <2>1, TableSet DEF Apart, Deferred
<1> QED BY <1>1, <1>2, <1>3, <1>4, <1>5, <1>6, <1>7, <1>8 DEF Sound, CommitOp, CommitKind

-----------------------------------------------------------------------------
(* Operations and their order *)

\* A commit only has operations of its own kinds.
LEMMA PlanSound ==
  ASSUME NEW old \in Config, NEW new \in Config, NEW op \in Plan(old, new)
  PROVE  CommitOp(op)
<1> DEFINE changed(t) == new.l3[t] # old.l3[t] \/ t \notin old.vrfs
           moved(i)   == i \notin old.ports \/ old.home[i] # new.home[i]
<1>1. /\ old.vrfs \subseteq Table /\ new.vrfs \subseteq Table
      /\ old.ports \subseteq Vnic /\ new.ports \subseteq Vnic
  BY DEF Config
<1>2. \/ op \in [kind : {"vnic"}, obj : {i \in new.ports : moved(i)}]
      \/ op \in [kind : {"vrf"}, obj : {t \in new.vrfs : changed(t)}]
      \/ op \in [kind : {"nat"}, obj : IF old.nat = new.nat THEN {} ELSE {None}]
      \/ op \in [kind : {"del-vrf"}, obj : old.vrfs \ new.vrfs]
      \/ op \in [kind : {"del-vnic"}, obj : old.ports \ new.ports]
  BY DEF Plan
<1> HIDE DEF changed, moved
<1> QED BY <1>1, <1>2 DEF CommitOp, CommitKind, Op, OpKind

\* So has its undo.
LEMMA InverseSound ==
  ASSUME NEW op, CommitOp(op)
  PROVE  CommitOp(Inverse(op))
<1>1. CASE op.kind \in {"vnic", "del-vnic"}
  <2>1. Inverse(op) = [kind |-> IF op.obj \in committed.ports THEN "vnic" ELSE "del-vnic",
                       obj |-> op.obj]
    BY <1>1 DEF Inverse
  <2> QED BY <1>1, <2>1 DEF CommitOp, CommitKind, Op, OpKind
<1>2. CASE op.kind \in {"vrf", "del-vrf"}
  <2>1. Inverse(op) = [kind |-> IF op.obj \in committed.vrfs THEN "vrf" ELSE "del-vrf",
                       obj |-> op.obj]
    BY <1>2 DEF Inverse
  <2> QED BY <1>2, <2>1 DEF CommitOp, CommitKind, Op, OpKind
<1>3. CASE op.kind = "nat"
  <2>1. Inverse(op) = op
    BY <1>3 DEF Inverse
  <2> QED BY <2>1
<1> QED BY <1>1, <1>2, <1>3 DEF CommitOp, CommitKind

\* The operations of a recovery can be asked of the providers.
LEMMA ReplaySound ==
  ASSUME NEW c \in Config, NEW op \in Replay(c)
  PROVE  /\ op \in Op
         /\ op.kind \in {"retry", "reset", "vnic", "vrf", "register", "set-table", "nat",
                         "recheck", "leftover"}
         /\ op.kind \in {"vnic", "vrf", "register", "set-table", "nat"} => Sound(op, c)
         /\ op.kind = "nat" => op = NatOp
         /\ op.kind = "leftover" => op = LeftoverOp
<1> DEFINE homed == {i \in c.ports : c.home[i] # None}
<1>1. /\ c.vrfs \subseteq Table /\ c.ports \subseteq Vnic
      /\ \A i \in homed : i \in Vnic /\ c.home[i] \in Table
  BY DEF Config
<1>2. \/ op \in [kind : {"retry", "reset", "recheck", "leftover"}, obj : {None}]
      \/ op \in [kind : {"nat"}, obj : {None}]
      \/ op \in [kind : {"vnic"}, obj : c.ports]
      \/ op \in [kind : {"vrf", "register"}, obj : c.vrfs]
      \/ op \in [kind : {"set-table"}, obj : homed]
  BY DEF Replay, Single
<1> HIDE DEF homed
<1>3. CASE op \in [kind : {"retry", "reset", "recheck", "leftover"}, obj : {None}]
  BY <1>3 DEF Op, OpKind, LeftoverOp
<1>4. CASE op \in [kind : {"nat"}, obj : {None}]
  BY <1>4 DEF Op, OpKind, NatOp, Sound, CommitOp, CommitKind
<1>5. CASE op \in [kind : {"vnic"}, obj : c.ports]
  BY <1>1, <1>5 DEF Op, OpKind, Sound, CommitOp, CommitKind
<1>6. CASE op \in [kind : {"vrf", "register"}, obj : c.vrfs]
  BY <1>1, <1>6 DEF Op, OpKind, Sound, CommitOp, CommitKind
<1>7. CASE op \in [kind : {"set-table"}, obj : homed]
  BY <1>1, <1>7 DEF Op, OpKind, Sound
<1> QED BY <1>2, <1>3, <1>4, <1>5, <1>6, <1>7

\* A recovery always has a reset and a search for leftovers, and NAT if it is declared.
LEMMA ReplayHas ==
  ASSUME NEW c \in Config
  PROVE  /\ LeftoverOp \in Replay(c)
         /\ c.nat # None => NatOp \in Replay(c)
         /\ Single("reset") \subseteq Replay(c) /\ Single("reset") # {}
         /\ Single("retry") \subseteq Replay(c) /\ LeftoverOp \notin Single("retry")
<1>1. LeftoverOp \in Single("leftover") /\ NatOp \in Single("nat")
  BY DEF Single, LeftoverOp, NatOp
<1>2. [kind |-> "reset", obj |-> None] \in Single("reset") /\ LeftoverOp \notin Single("retry")
  BY DEF Single, LeftoverOp
<1>3. /\ Single("leftover") \subseteq Replay(c) /\ Single("reset") \subseteq Replay(c)
      /\ Single("retry") \subseteq Replay(c)
      /\ c.nat # None => Single("nat") \subseteq Replay(c)
  BY DEF Replay
<1> QED BY <1>1, <1>2, <1>3

\* Everything comes before the search for leftovers, and all but that and the recheck
\* before NAT.
LEMMA RecoveryOrdered ==
  /\ RecoveryBefore["leftover"] =
       {"retry", "reset", "vnic", "vrf", "register", "set-table", "nat", "recheck"}
  /\ RecoveryBefore["nat"] = {"retry", "reset", "vnic", "vrf", "register", "set-table"}
<1>1. "leftover" \in OpKind /\ "nat" \in OpKind
  BY DEF OpKind
<1>2. \A k \in OpKind : RecoveryBefore[k] =
        {RecoveryOrder[i] : i \in {i \in 1..9 : \E j \in 1..9 : i < j /\ RecoveryOrder[j] = k}}
  BY DEF RecoveryBefore, Before, RecoveryOrder
<1>3. {i \in 1..9 : \E j \in 1..9 : i < j /\ RecoveryOrder[j] = "leftover"} = 1..8
  BY DEF RecoveryOrder
<1>4. {i \in 1..9 : \E j \in 1..9 : i < j /\ RecoveryOrder[j] = "nat"} = 1..6
  BY DEF RecoveryOrder
<1>5. {RecoveryOrder[i] : i \in 1..8} =
       {"retry", "reset", "vnic", "vrf", "register", "set-table", "nat", "recheck"}
  BY DEF RecoveryOrder
<1>6. {RecoveryOrder[i] : i \in 1..6} =
       {"retry", "reset", "vnic", "vrf", "register", "set-table"}
  BY DEF RecoveryOrder
<1> QED BY <1>1, <1>2, <1>3, <1>4, <1>5, <1>6

-----------------------------------------------------------------------------
(* The invariant *)

\* The invariant holds at the start.
LEMMA InitInv == Init => IInv
<1> SUFFICES ASSUME Init
             PROVE  IInv
  OBVIOUS
<1>1. IdleJob \in Jobs
  BY RoutingAssumption DEF IdleJob, Jobs
<1>2. /\ IdleRec \in Recs
      /\ IdleRec.todo = {} /\ IdleRec.scan \cup IdleRec.clean \cup IdleRec.cleared = {}
  BY RoutingAssumption DEF IdleRec, Holding, Recs
<1>3. NoAlarms \in Alarms
  BY DEF NoAlarms, Alarms
<1>4. TypeOK
  <2>1. vpp \in Vpps /\ reg \in Regs
    BY StartTyped DEF Init
  <2>2. /\ faults \in Nat /\ commits \in Nat /\ restarts \in Nat
        /\ faults + commits + restarts <= MaxEvents
    BY RoutingAssumption DEF Init
  <2>3. committed \in Cfg
    BY RoutingAssumption DEF Init
  <2> QED BY <1>1, <1>2, <1>3, <2>1, <2>2, <2>3 DEF Init, TypeOK
<1>5. ShapeInv
  BY DEF Init, ShapeInv, IdleJob, IdleRec, Holding
<1>6. AloneInv /\ NatInv /\ LeftoverInv
  BY <1>2 DEF Init, AloneInv, NatInv, LeftoverInv
<1>7. TellInv /\ RetryingInv
  BY DEF Init, TellInv, RetryingInv, IdleJob, IdleRec, Holding
<1> QED BY <1>4, <1>5, <1>6, <1>7 DEF IInv

\* What a call leaves has its types, and a failing one is within the bound.
LEMMA TakeTyped ==
  ASSUME TypeOK, NEW o \in Answer, Take(o), UNCHANGED <<commits, restarts>>
  PROVE  /\ vpp' = o.vpp /\ reg' = o.reg /\ vpp' \in Vpps /\ reg' \in Regs
         /\ faults' \in Nat /\ commits' \in Nat /\ restarts' \in Nat
         /\ faults' + commits' + restarts' <= MaxEvents
<1>1. vpp' = o.vpp /\ reg' = o.reg /\ vpp' \in Vpps /\ reg' \in Regs
  BY DEF Take, Answer
<1>2. /\ faults' \in Nat /\ commits' \in Nat /\ restarts' \in Nat
      /\ faults' + commits' + restarts' <= MaxEvents
  BY RoutingAssumption DEF Take, TypeOK, More
<1> QED BY <1>1, <1>2

\* Whoever works on a configuration works on a declared one.
LEMMA ConfigsTyped ==
  ASSUME TypeOK
  PROVE  committed \in Config /\ job.new \in Config /\ rec.cfg \in Config
BY RoutingAssumption DEF TypeOK, Jobs, Recs

\* A commit that begins keeps the invariant.
LEMMA BeginInv ==
  ASSUME IInv, NEW new \in Cfg, Begin(new)
  PROVE  IInv' /\ Keeps
<1> USE DEF IInv
<1>1. TypeOK'
  <2>1. committed \in Config /\ new \in Config
    BY RoutingAssumption DEF TypeOK
  <2>2. Plan(committed, new) \subseteq Op
    BY <2>1, PlanSound DEF CommitOp
  <2>3. job' \in Jobs
    BY <2>2 DEF Begin, Jobs
  <2>4. /\ commits' \in Nat /\ faults' \in Nat /\ restarts' \in Nat
        /\ faults' + commits' + restarts' <= MaxEvents
    BY RoutingAssumption DEF Begin, TypeOK, More
  <2>5. /\ overlap' \in BOOLEAN /\ trusted' \in BOOLEAN
        /\ undone' \in BOOLEAN /\ replayed' \in BOOLEAN
    BY DEF Begin, TypeOK
  <2> QED BY <2>3, <2>4, <2>5 DEF Begin, TypeOK, Jobs
<1>2. ShapeInv'
  <2>1. committed \in Config /\ new \in Config
    BY RoutingAssumption DEF TypeOK
  <2>2. \A op \in job'.todo : CommitOp(op)
    BY <2>1, PlanSound DEF Begin
  <2>3. DOMAIN job'.done = {}
    BY DEF Begin
  <2> QED BY <2>2, <2>3 DEF Begin, ShapeInv
<1>3. LeftoverOp \in rec'.todo => overlap'
  BY DEF Begin, TypeOK
<1>4. AloneInv' /\ NatInv' /\ LeftoverInv'
  BY <1>3 DEF Begin, AloneInv, NatInv, LeftoverInv
<1>5. TellInv' /\ RetryingInv' /\ Keeps
  BY DEF Begin, TellInv, RetryingInv, Keeps, Backed
<1> QED BY <1>1, <1>2, <1>4, <1>5

\* So does the reading of the registered interfaces before a deletion,
LEMMA ReadRegisteredInv ==
  ASSUME IInv, NEW op \in job.todo, ReadRegistered(op)
  PROVE  IInv' /\ Keeps
<1> USE DEF IInv
<1>1. op.obj \in Table
  BY DEF ReadRegistered, ShapeInv, CommitOp
<1>2. reg.ifaces[op.obj] \in SUBSET Iface
  BY <1>1 DEF TypeOK, Regs
<1>3. job' = [job EXCEPT !.phase = "read", !.held = reg.ifaces[op.obj]]
  BY DEF ReadRegistered
<1>4. TypeOK'
  BY <1>2, <1>3 DEF ReadRegistered, TypeOK, Jobs
<1>5. ShapeInv'
  BY <1>3 DEF ReadRegistered, ShapeInv, TypeOK
<1>6. job.phase # "idle" /\ ~replayed
  BY DEF ReadRegistered, AloneInv
<1>7. AloneInv' /\ NatInv' /\ LeftoverInv'
  BY <1>6 DEF ReadRegistered, AloneInv, NatInv, LeftoverInv, Served, ServedIn, AttachedIfaces,
              VnicsOf
<1>8. TellInv' /\ RetryingInv' /\ Keeps
  BY <1>3 DEF ReadRegistered, TellInv, RetryingInv, TypeOK, Jobs, Keeps, Backed
<1> QED BY <1>4, <1>5, <1>7, <1>8

\* an operation of a commit, successful or not,
LEMMA RunOpInv ==
  ASSUME IInv, NEW op \in job.todo, RunOp(op)
  PROVE  IInv' /\ Keeps
<1> USE DEF IInv
<1> DEFINE good(ph) == [job EXCEPT !.todo = @ \ {op}, !.done = Append(@, op), !.phase = ph]
           bad == [job EXCEPT !.phase = "undo", !.todo = {},
                     !.done = IF op.kind \in {"vrf", "del-vrf"} THEN Append(@, op) ELSE @]
<1>1. PICK o \in Outcomes(op, job.new, job.held) :
        /\ Take(o)
        /\ \/ o.ok /\ op.kind = "del-vrf" /\ job' = good("kept")
           \/ o.ok /\ op.kind = "del-vrf" /\ job' = good("dropped")
           \/ o.ok /\ op.kind # "del-vrf" /\ job' = good("run")
           \/ ~o.ok /\ job' = bad
        /\ \/ alarms' = alarms
           \/ alarms' = [alarms EXCEPT !.residue = @ \ {op}]
  BY DEF RunOp, Deferred
<1>2. UNCHANGED <<up, committed, rec, waiting, overlap, trusted, undone, replayed, commits,
                  restarts>>
  BY DEF RunOp
<1>3. CommitOp(op) /\ Sound(op, job.new) /\ job.new \in Config /\ job.held \in SUBSET Iface
  BY ConfigsTyped DEF ShapeInv, Sound, TypeOK, Jobs
<1>4. o \in Answer /\ reg.pending \subseteq o.reg.pending
  <2>1. vpp \in Vpps /\ reg \in Regs
    BY DEF TypeOK
  <2> QED BY <1>1, <1>3, <2>1, OutcomesTyped
<1>5. /\ vpp' = o.vpp /\ reg' = o.reg /\ vpp' \in Vpps /\ reg' \in Regs
      /\ faults' \in Nat /\ commits' \in Nat /\ restarts' \in Nat
      /\ faults' + commits' + restarts' <= MaxEvents
  BY <1>1, <1>2, <1>4, TakeTyped
<1>6. job.phase # "idle" /\ ~replayed
  BY DEF RunOp, AloneInv
<1>7. op \in Op /\ job.done \in Seq(Op) /\ Append(job.done, op) \in Seq(Op)
  BY DEF TypeOK, Jobs
<1>8. /\ job' \in Jobs
      /\ job'.todo \subseteq job.todo /\ job'.phase # "idle"
      /\ job'.done = Append(job.done, op) \/ job'.done = job.done
      /\ \/ job'.phase \in {"run", "undo"}
         \/ job'.done = Append(job.done, op) /\ op.kind = "del-vrf" /\ job'.phase # "residue"
  <2>1. job \in Jobs
    BY DEF TypeOK
  <2>2. \A ph \in {"kept", "dropped", "run"} :
          /\ good(ph) \in Jobs /\ good(ph).todo \subseteq job.todo /\ good(ph).phase = ph
          /\ good(ph).done = Append(job.done, op)
    BY <1>7, <2>1 DEF Jobs
  <2>3. /\ bad \in Jobs /\ bad.todo \subseteq job.todo /\ bad.phase = "undo"
        /\ bad.done = Append(job.done, op) \/ bad.done = job.done
    BY <1>7, <2>1 DEF Jobs
  <2> HIDE DEF good, bad
  <2> QED BY <1>1, <2>2, <2>3
<1>9. alarms' \in Alarms /\ alarms'.deferred = alarms.deferred
  BY <1>1 DEF TypeOK, Alarms
<1> HIDE DEF good, bad
<1>10. TypeOK'
  BY <1>2, <1>5, <1>8, <1>9 DEF TypeOK
<1>11. ShapeInv'
  <2>1. \A n \in DOMAIN job'.done : CommitOp(job'.done[n])
    BY <1>3, <1>7, <1>8 DEF ShapeInv
  <2> QED BY <1>2, <1>8, <2>1 DEF ShapeInv
<1>12. AloneInv' /\ NatInv' /\ LeftoverInv'
  BY <1>2, <1>6, <1>8 DEF AloneInv, NatInv, LeftoverInv
<1>13. TellInv'
  <2>1. CASE job'.phase \in {"run", "undo"}
    BY <2>1 DEF TellInv
  <2>2. CASE job'.done = Append(job.done, op) /\ op.kind = "del-vrf" /\ job'.phase # "residue"
    <3>1. job'.done # << >> /\ job'.done[Len(job'.done)] = op
      BY <1>7, <2>2
    <3> QED BY <2>2, <3>1 DEF TellInv, Latest
  <2> QED BY <1>8, <2>1, <2>2
<1>14. RetryingInv' /\ Keeps
  BY <1>2, <1>4, <1>5, <1>9 DEF RetryingInv, Keeps, Backed
<1> QED BY <1>10, <1>11, <1>12, <1>13, <1>14

\* what is told of a deletion,
LEMMA TellDeletionInv ==
  ASSUME IInv, TellDeletion
  PROVE  IInv' /\ Keeps
<1> USE DEF IInv
<1>1. /\ job.phase \in {"kept", "dropped"} /\ job' = [job EXCEPT !.phase = "run"]
      /\ UNCHANGED <<vpp, reg, up, committed, rec, waiting, overlap, trusted, undone, replayed,
                     faults, commits, restarts>>
  BY DEF TellDeletion
<1>2. job.done \in Seq(Op) /\ job.done # << >> /\ Latest.kind = "del-vrf"
  BY <1>1 DEF TellInv, TypeOK, Jobs
<1>3. Latest.obj \in Table
  BY <1>2 DEF ShapeInv, CommitOp, Latest
<1>4. alarms' \in Alarms
  BY <1>3 DEF TellDeletion, TypeOK, Alarms
<1>5. TypeOK'
  BY <1>1, <1>4 DEF TypeOK, Jobs
<1>6. ShapeInv'
  BY <1>1 DEF ShapeInv, TypeOK, Jobs
<1>7. job.phase # "idle" /\ ~replayed
  BY <1>1 DEF AloneInv
<1>8. AloneInv' /\ NatInv' /\ LeftoverInv'
  BY <1>1, <1>7 DEF AloneInv, NatInv, LeftoverInv, Served, ServedIn, AttachedIfaces, VnicsOf,
                    TellDeletion
<1>9. TellInv' /\ RetryingInv' /\ Keeps
  BY <1>1 DEF TellInv, RetryingInv, TypeOK, Jobs, Keeps, Backed
<1> QED BY <1>5, <1>6, <1>8, <1>9

\* the undo of an operation, what is told of one that has failed,
LEMMA UndoOpInv ==
  ASSUME IInv, UndoOp
  PROVE  IInv' /\ Keeps
<1> USE DEF IInv
<1> DEFINE un == Inverse(Latest)
           held == IF un.kind = "del-vrf" THEN reg.ifaces[un.obj] ELSE {}
<1>1. PICK o \in Outcomes(un, committed, held) :
        /\ Take(o)
        /\ \/ job' = [job EXCEPT !.done = SubSeq(@, 1, Len(@) - 1)]
           \/ job' = [job EXCEPT !.phase = "residue"]
        /\ undone' \in BOOLEAN
  BY DEF UndoOp
<1>2. /\ job.phase = "undo" /\ job.done # << >>
      /\ UNCHANGED <<up, committed, rec, waiting, alarms, overlap, trusted, replayed, commits,
                     restarts>>
  BY DEF UndoOp
<1>3. /\ job.done \in Seq(Op) /\ Len(job.done) \in DOMAIN job.done
      /\ Len(job.done) - 1 \in 0..Len(job.done)
  BY <1>2 DEF TypeOK, Jobs
<1>4. CommitOp(Latest) /\ CommitOp(un)
  BY <1>3, InverseSound DEF ShapeInv, CommitOp, Latest
<1>5. held \in SUBSET Iface
  BY <1>4 DEF TypeOK, Regs, CommitOp
<1> HIDE DEF held, un
<1>6. o \in Answer /\ reg.pending \subseteq o.reg.pending
  <2>1. vpp \in Vpps /\ reg \in Regs /\ committed \in Config /\ Sound(un, committed)
    BY <1>4, ConfigsTyped DEF TypeOK, Sound
  <2> QED BY <1>1, <1>5, <2>1, OutcomesTyped
<1>7. /\ vpp' = o.vpp /\ reg' = o.reg /\ vpp' \in Vpps /\ reg' \in Regs
      /\ faults' \in Nat /\ commits' \in Nat /\ restarts' \in Nat
      /\ faults' + commits' + restarts' <= MaxEvents
  BY <1>1, <1>2, <1>6, TakeTyped
<1>8. /\ SubSeq(job.done, 1, Len(job.done) - 1) \in Seq(Op)
      /\ \A n \in DOMAIN SubSeq(job.done, 1, Len(job.done) - 1) :
           n \in DOMAIN job.done /\ SubSeq(job.done, 1, Len(job.done) - 1)[n] = job.done[n]
  BY <1>3
<1>9. TypeOK'
  <2>1. job' \in Jobs
    BY <1>1, <1>8 DEF TypeOK, Jobs
  <2> QED BY <1>1, <1>2, <1>7, <2>1 DEF TypeOK
<1>10. ShapeInv'
  BY <1>1, <1>2, <1>8 DEF ShapeInv, TypeOK, Jobs
<1>11. job.phase # "idle" /\ ~replayed /\ job'.phase # "idle"
  BY <1>1, <1>2 DEF AloneInv, TypeOK, Jobs
<1>12. AloneInv' /\ NatInv' /\ LeftoverInv'
  BY <1>2, <1>11 DEF AloneInv, NatInv, LeftoverInv
<1>13. TellInv'
  BY <1>1, <1>2 DEF TellInv, TypeOK, Jobs
<1>14. RetryingInv' /\ Keeps
  BY <1>2, <1>6, <1>7 DEF RetryingInv, Keeps, Backed
<1> QED BY <1>9, <1>10, <1>12, <1>13, <1>14

LEMMA TellResidueInv ==
  ASSUME IInv, TellResidue
  PROVE  IInv' /\ Keeps
<1> USE DEF IInv
<1>1. /\ job.phase = "residue"
      /\ job' = [job EXCEPT !.phase = "undo", !.done = SubSeq(@, 1, Len(@) - 1)]
      /\ alarms' = [alarms EXCEPT !.residue = @ \cup {Latest}]
      /\ UNCHANGED <<vpp, reg, up, committed, rec, waiting, overlap, trusted, undone, replayed,
                     faults, commits, restarts>>
  BY DEF TellResidue
<1>2. /\ job.done \in Seq(Op) /\ Len(job.done) \in DOMAIN job.done
      /\ Len(job.done) - 1 \in 0..Len(job.done)
  BY <1>1 DEF TellInv, TypeOK, Jobs
<1>3. /\ SubSeq(job.done, 1, Len(job.done) - 1) \in Seq(Op)
      /\ \A n \in DOMAIN SubSeq(job.done, 1, Len(job.done) - 1) :
           n \in DOMAIN job.done /\ SubSeq(job.done, 1, Len(job.done) - 1)[n] = job.done[n]
  BY <1>2
<1>4. Latest \in Op
  BY <1>2 DEF Latest
<1>5. alarms' \in Alarms /\ alarms'.deferred = alarms.deferred
  BY <1>1, <1>4 DEF TypeOK, Alarms
<1>6. job' \in Jobs /\ job'.phase = "undo"
  BY <1>1, <1>3 DEF TypeOK, Jobs
<1>7. TypeOK'
  BY <1>1, <1>5, <1>6 DEF TypeOK
<1>8. ShapeInv'
  BY <1>1, <1>3 DEF ShapeInv, TypeOK, Jobs
<1>9. job.phase # "idle" /\ ~replayed
  BY <1>1 DEF AloneInv
<1>10. AloneInv' /\ NatInv' /\ LeftoverInv'
  BY <1>1, <1>6, <1>9 DEF AloneInv, NatInv, LeftoverInv, Served, ServedIn, AttachedIfaces,
                          VnicsOf
<1>11. TellInv' /\ RetryingInv' /\ Keeps
  BY <1>1, <1>5, <1>6 DEF TellInv, RetryingInv, Keeps, Backed
<1> QED BY <1>7, <1>8, <1>10, <1>11

\* the end of a commit,
LEMMA EndInv ==
  ASSUME IInv, End
  PROVE  IInv' /\ Keeps
<1> USE DEF IInv
<1>1. /\ job.phase # "idle" /\ ~replayed
      /\ committed' = job.new \/ committed' = committed
      /\ job' = [job EXCEPT !.phase = "idle", !.done = << >>, !.held = {}]
      /\ UNCHANGED <<vpp, reg, up, rec, waiting, alarms, overlap, trusted, undone, replayed,
                     faults, commits, restarts>>
  BY DEF End, AloneInv
<1>2. TypeOK'
  <2>1. job' \in Jobs
    <3>1. job \in Jobs /\ << >> \in Seq(Op)
      BY DEF TypeOK
    <3> QED BY <1>1, <3>1 DEF Jobs
  <2>2. committed' \in Cfg
    BY <1>1 DEF TypeOK, Jobs
  <2> QED BY <1>1, <2>1, <2>2 DEF TypeOK, Jobs
<1>3. ShapeInv'
  BY <1>1 DEF ShapeInv, TypeOK
<1>4. AloneInv' /\ NatInv' /\ LeftoverInv'
  BY <1>1 DEF AloneInv, NatInv, LeftoverInv
<1>5. TellInv' /\ RetryingInv' /\ Keeps
  BY <1>1 DEF TellInv, RetryingInv, TypeOK, Jobs, Keeps, Backed
<1> QED BY <1>2, <1>3, <1>4, <1>5

\* a restart of VPP or of the daemon, and a new connection,
LEMMA RestartsInv ==
  ASSUME IInv, VppRestart \/ DaemonRestart \/ Reconnect
  PROVE  IInv' /\ Keeps
<1> USE DEF IInv
<1>1. CASE VppRestart
  <2>1. /\ restarts' \in Nat /\ faults' \in Nat /\ commits' \in Nat
        /\ faults' + commits' + restarts' <= MaxEvents
    BY <1>1, RoutingAssumption DEF VppRestart, TypeOK, More
  <2>2. overlap' \in BOOLEAN /\ (LeftoverOp \in rec.todo => overlap')
    BY <1>1 DEF VppRestart, TypeOK, Recs
  <2>3. /\ rec' \in Recs /\ rec'.active = rec.active /\ rec'.cfg = rec.cfg
        /\ rec'.todo = rec.todo /\ rec'.failed = rec.failed /\ rec'.retrying = rec.retrying
        /\ rec'.scan \subseteq rec.scan /\ rec'.clean = rec.clean /\ rec'.cleared = rec.cleared
    BY <1>1 DEF VppRestart, TypeOK, Recs
  <2>4. TypeOK'
    BY <1>1, <2>1, <2>2, <2>3, StartTyped DEF VppRestart, TypeOK
  <2>5. ShapeInv' /\ AloneInv' /\ NatInv' /\ LeftoverInv'
    BY <1>1, <2>2, <2>3 DEF VppRestart, ShapeInv, AloneInv, NatInv, LeftoverInv
  <2>6. TellInv' /\ RetryingInv' /\ Keeps
    BY <1>1, <2>3 DEF VppRestart, TellInv, RetryingInv, Latest, Keeps, Backed
  <2> QED BY <2>4, <2>5, <2>6
<1>2. CASE DaemonRestart
  <2>1. /\ restarts' \in Nat /\ faults' \in Nat /\ commits' \in Nat
        /\ faults' + commits' + restarts' <= MaxEvents
    BY <1>2, RoutingAssumption DEF DaemonRestart, TypeOK, More
  <2>2. /\ job' \in Jobs /\ alarms' \in Alarms /\ rec' \in Recs /\ rec'.todo = {}
        /\ rec'.scan \cup rec'.clean \cup rec'.cleared = {}
    BY <1>2, RoutingAssumption DEF DaemonRestart, IdleJob, Jobs, NoAlarms, Alarms, IdleRec,
                                   Holding, Recs
  <2>3. TypeOK'
    BY <1>2, <2>1, <2>2, StartTyped DEF DaemonRestart, TypeOK
  <2>4. ShapeInv'
    BY <1>2 DEF DaemonRestart, ShapeInv, IdleJob, IdleRec, Holding
  <2>5. AloneInv' /\ NatInv' /\ LeftoverInv'
    BY <1>2, <2>2 DEF DaemonRestart, AloneInv, NatInv, LeftoverInv
  <2>6. TellInv' /\ RetryingInv' /\ Keeps
    BY <1>2 DEF DaemonRestart, TellInv, RetryingInv, IdleJob, IdleRec, Holding, NoAlarms, Keeps
  <2> QED BY <2>3, <2>4, <2>5, <2>6
<1>3. CASE Reconnect
  <2>1. /\ EmptyReg(reg.pending) \in Regs /\ EmptyReg(reg.pending).pending = reg.pending
        /\ EmptyReg(reg.pending).feat = NoFeature /\ ~EmptyReg(reg.pending).on
    BY StartTyped DEF TypeOK, Regs, EmptyReg
  <2>2. ~up /\ up' /\ ~replayed
    BY <1>3 DEF Reconnect, AloneInv
  <2>3. TypeOK'
    BY <1>3, <2>1 DEF Reconnect, TypeOK
  <2>4. ShapeInv' /\ AloneInv' /\ LeftoverInv'
    BY <1>3, <2>1, <2>2 DEF Reconnect, ShapeInv, AloneInv, LeftoverInv
  <2>5. NatInv'
    BY <1>3, <2>1, <2>2 DEF Reconnect, NatInv
  <2>6. TellInv' /\ RetryingInv' /\ Keeps
    BY <1>3, <2>1 DEF Reconnect, TellInv, RetryingInv, Latest, Keeps, Backed
  <2> QED BY <2>3, <2>4, <2>5, <2>6
<1> QED BY <1>1, <1>2, <1>3

\* and a recovery or a patrol that starts.
LEMMA StartsInv ==
  ASSUME IInv, RecoveryBegin \/ Patrol
  PROVE  IInv' /\ Keeps
<1> USE DEF IInv
<1>1. committed \in Config /\ committed \in Cfg
  BY ConfigsTyped DEF TypeOK
<1>2. Replay(committed) \subseteq Op
  BY <1>1, ReplaySound
<1>3. rec.todo = {} /\ ~rec.active
  BY DEF RecoveryBegin, Patrol, TypeOK
<1>6. rec.cleared = {}
  BY <1>3 DEF TypeOK, RetryingInv
<1>4. CASE RecoveryBegin
  <2>1. rec' \in Recs /\ rec'.active /\ rec'.scan \cup rec'.clean \cup rec'.cleared = {}
    BY <1>1, <1>2, <1>4, ReplayHas DEF RecoveryBegin, Holding, Recs
  <2>2. TypeOK'
    BY <1>4, <2>1 DEF RecoveryBegin, TypeOK
  <2>3. LeftoverOp \in rec'.todo /\ (rec'.cfg.nat # None => NatOp \in rec'.todo)
    BY <1>1, <1>4, ReplayHas DEF RecoveryBegin, Holding
  <2>4. Single("reset") \cap rec'.todo # {}
    BY <1>1, <1>4, ReplayHas DEF RecoveryBegin, Holding
  <2>5. ShapeInv'
    BY <1>4, <2>3 DEF RecoveryBegin, Holding, ShapeInv
  <2>6. AloneInv' /\ LeftoverInv'
    BY <1>4, <2>3 DEF RecoveryBegin, Holding, AloneInv, LeftoverInv
  <2>7. NatInv'
    BY <2>3, <2>4 DEF NatInv
  <2>8. TellInv' /\ RetryingInv' /\ Keeps
    BY <1>4, <1>6 DEF RecoveryBegin, Holding, TellInv, RetryingInv, Latest, Keeps, Backed
  <2> QED BY <2>2, <2>5, <2>6, <2>7, <2>8
<1>5. CASE Patrol
  <2>1. Single("retry") \subseteq Op /\ LeftoverOp \notin Single("retry")
    BY <1>1, <1>2, ReplayHas
  <2>2. /\ rec' \in Recs /\ rec'.active /\ rec'.todo = Single("retry") /\ rec'.cfg = committed
        /\ rec'.scan \cup rec'.clean \cup rec'.cleared = {}
    <3>1. [kind |-> "retry", obj |-> None] \in Single("retry")
      BY DEF Single
    <3> QED BY <1>1, <1>5, <2>1, <3>1 DEF Patrol, Holding, Recs
  <2>3. trusted' \in BOOLEAN
    BY <1>5 DEF Patrol, TypeOK
  <2>4. TypeOK'
    BY <1>5, <2>2, <2>3 DEF Patrol, TypeOK
  <2>5. ShapeInv'
    BY <1>1, <1>5, <2>1, <2>2, ReplayHas DEF Patrol, ShapeInv
  <2>6. AloneInv'
    BY <1>5, <2>1, <2>2 DEF Patrol, AloneInv
  <2>7. NatInv' /\ LeftoverInv'
    BY <1>3, <1>5, <2>1, <2>2 DEF Patrol, NatInv, LeftoverInv, Served, ServedIn,
                                        AttachedIfaces, VnicsOf
  <2>8. TellInv' /\ RetryingInv' /\ Keeps
    BY <1>5, <1>6 DEF Patrol, Holding, TellInv, RetryingInv, Latest, Keeps, Backed
  <2> QED BY <2>4, <2>5, <2>6, <2>7, <2>8
<1> QED BY <1>4, <1>5

\* An operation is done.
LEMMA DoneTyped ==
  ASSUME TypeOK, NEW op \in rec.todo, NEW f \in SUBSET Op,
         rec' = [Done(op) EXCEPT !.failed = f]
  PROVE  /\ rec' \in Recs /\ (~rec'.active => rec'.todo = {})
         /\ rec'.todo = rec.todo \ {op} /\ rec'.cfg = rec.cfg /\ rec'.failed = f
         /\ rec'.retrying = rec.retrying /\ rec'.scan = rec.scan
         /\ rec'.clean = rec.clean /\ rec'.cleared = rec.cleared
BY DEF Done, TypeOK, Recs

\* What remains of a recovery has its shape.
LEMMA StepShape ==
  ASSUME IInv, NEW op \in rec.todo, Due(RecoveryBefore, rec.todo, op),
         rec'.todo = rec.todo \ {op}, rec'.cfg = rec.cfg, UNCHANGED job
  PROVE  ShapeInv'
<1> USE DEF IInv
<1>1. rec.cfg \in Config /\ rec.todo \subseteq Replay(rec.cfg)
  BY ConfigsTyped DEF ShapeInv
<1>2. ASSUME LeftoverOp \in rec'.todo, rec'.cfg.nat # None, NatOp \notin rec'.todo,
             NEW p \in rec'.todo
      PROVE  p.kind \in {"recheck", "leftover"}
  <2>1. CASE NatOp \notin rec.todo
    BY <1>2, <2>1 DEF ShapeInv
  <2>2. CASE NatOp \in rec.todo
    <3>1. op = NatOp /\ p.kind \notin RecoveryBefore["nat"]
      BY <1>2, <2>2 DEF Due, NatOp
    <3>2. p \in Replay(rec.cfg) /\ p # NatOp
      BY <1>1, <1>2
    <3> QED BY <1>1, <3>1, <3>2, RecoveryOrdered, ReplaySound
  <2> QED BY <2>1, <2>2
<1> QED BY <1>1, <1>2 DEF ShapeInv

\* The other operations than the search for leftovers leave the recovery what it was.
LEMMA StepAlone ==
  ASSUME IInv, NEW op \in rec.todo, op.kind # "leftover",
         rec'.todo = rec.todo \ {op}, rec'.cfg = rec.cfg,
         UNCHANGED <<job, committed, overlap, replayed, up>>
  PROVE  AloneInv' /\ (LeftoverOp \in rec'.todo <=> LeftoverOp \in rec.todo)
BY DEF IInv, AloneInv, LeftoverOp

\* Nothing else is due while the pending deletions are tried again.
LEMMA NotRetrying ==
  ASSUME RetryingInv, NEW op \in rec.todo, Due(RecoveryBefore, rec.todo, op),
         op.kind \in {"reset", "vnic", "vrf", "register", "set-table", "nat", "leftover"}
  PROVE  ~rec.retrying
<1> SUFFICES ASSUME rec.retrying
             PROVE  FALSE
  OBVIOUS
<1>1. PICK p \in rec.todo : p.kind \in {"retry", "recheck"} /\ Due(RecoveryBefore, rec.todo, p)
  BY DEF RetryingInv
<1>2. p.kind \notin RecoveryBefore[op.kind] /\ op.kind \notin RecoveryBefore[p.kind]
  BY <1>1 DEF Due
<1>3. \A k \in OpKind : RecoveryBefore[k] =
        {RecoveryOrder[i] : i \in {i \in 1..9 : \E j \in 1..9 : i < j /\ RecoveryOrder[j] = k}}
  BY DEF RecoveryBefore, Before, RecoveryOrder
<1>4. CASE p.kind = "retry" \/ op.kind = "leftover"
  <2>1. PICK i, j \in 1..9 : i < j /\ RecoveryOrder[i] = p.kind /\ RecoveryOrder[j] = op.kind
    <3>1. /\ 1 \in 1..9 /\ 8 \in 1..9 /\ RecoveryOrder[1] = "retry" /\ RecoveryOrder[8] = "recheck"
          /\ \E j \in 2..9 : RecoveryOrder[j] = op.kind
          /\ 9 \in 1..9 /\ RecoveryOrder[9] = "leftover"
      BY DEF RecoveryOrder
    <3>2. CASE p.kind = "retry"
      <4>1. PICK j \in 2..9 : RecoveryOrder[j] = op.kind
        BY <3>1
      <4>2. j \in 1..9 /\ 1 < j
        OBVIOUS
      <4> QED BY <3>1, <3>2, <4>1, <4>2
    <3>3. CASE p.kind = "recheck" /\ op.kind = "leftover"
      <4>1. 8 < 9
        OBVIOUS
      <4> QED BY <3>1, <3>3, <4>1
    <3> QED BY <1>1, <1>4, <3>2, <3>3
  <2>2. op.kind \in OpKind
    BY DEF OpKind
  <2>3. p.kind \in RecoveryBefore[op.kind]
    BY <1>3, <2>1, <2>2
  <2> QED BY <1>2, <2>3
<1>5. CASE p.kind = "recheck" /\ op.kind # "leftover"
  <2>1. /\ 8 \in 1..9 /\ RecoveryOrder[8] = "recheck"
        /\ \E i \in 2..7 : RecoveryOrder[i] = op.kind
    BY <1>5 DEF RecoveryOrder
  <2>2. PICK i \in 2..7 : RecoveryOrder[i] = op.kind
    BY <2>1
  <2>3. i \in 1..9 /\ i < 8
    OBVIOUS
  <2>4. p.kind \in OpKind
    BY <1>5 DEF OpKind
  <2>5. op.kind \in RecoveryBefore[p.kind]
    BY <1>3, <1>5, <2>1, <2>2, <2>3, <2>4
  <2> QED BY <1>2, <2>5
<1> QED BY <1>1, <1>4, <1>5

\* A provider call of a recovery keeps the invariant,
LEMMA RecoveryStepInv ==
  ASSUME IInv, NEW op \in rec.todo, RecoveryStep(op)
  PROVE  IInv' /\ Keeps
<1> USE DEF IInv
<1>1. /\ op.kind \in {"vnic", "vrf", "register", "set-table", "nat"}
      /\ Due(RecoveryBefore, rec.todo, op)
      /\ UNCHANGED <<up, committed, job, waiting, alarms, overlap, trusted, undone, replayed,
                     commits, restarts>>
  BY DEF RecoveryStep
<1>2. PICK o \in Outcomes(op, rec.cfg, {}) :
        /\ Take(o)
        /\ rec' = [Done(op) EXCEPT !.failed = IF o.ok THEN @ ELSE @ \cup {op}]
  BY DEF RecoveryStep
<1>3. rec.cfg \in Config /\ op \in Replay(rec.cfg)
  BY ConfigsTyped DEF ShapeInv
<1>4. op \in Op /\ Sound(op, rec.cfg) /\ (op.kind = "nat" => op = NatOp)
  BY <1>1, <1>3, ReplaySound
<1>5. vpp \in Vpps /\ reg \in Regs
  BY DEF TypeOK
<1>6. /\ o \in Answer /\ reg.pending \subseteq o.reg.pending
      /\ o.ok => up
      /\ op.kind \in {"vnic", "vrf", "register", "set-table"} => Apart(o, reg)
      /\ o.ok /\ op.kind = "nat" /\ rec.cfg.nat # None /\ reg.feat = NoFeature /\ ~reg.on =>
           ServedIn(o.vpp, o.reg, rec.cfg.nat)
  <2>1. {} \in SUBSET Iface
    OBVIOUS
  <2> QED BY <1>2, <1>3, <1>4, <1>5, <2>1, OutcomesTyped
<1>7. /\ vpp' = o.vpp /\ reg' = o.reg /\ vpp' \in Vpps /\ reg' \in Regs
      /\ faults' \in Nat /\ commits' \in Nat /\ restarts' \in Nat
      /\ faults' + commits' + restarts' <= MaxEvents
  BY <1>1, <1>2, <1>6, TakeTyped
<1>8. PICK f \in SUBSET Op : /\ rec' = [Done(op) EXCEPT !.failed = f]
                             /\ ~o.ok => op \in f
  <2>1. Done(op).failed = rec.failed /\ rec.failed \in SUBSET Op
    BY DEF Done, TypeOK, Recs
  <2>2. (IF o.ok THEN rec.failed ELSE rec.failed \cup {op}) \in SUBSET Op
    BY <1>4, <2>1
  <2> QED BY <1>2, <2>1, <2>2 DEF Done
<1>9. /\ rec' \in Recs /\ (~rec'.active => rec'.todo = {})
      /\ rec'.todo = rec.todo \ {op} /\ rec'.cfg = rec.cfg /\ rec'.failed = f
      /\ rec'.retrying = rec.retrying /\ rec'.scan = rec.scan
      /\ rec'.clean = rec.clean /\ rec'.cleared = rec.cleared
  BY <1>8, DoneTyped
<1>10. TypeOK'
  BY <1>1, <1>7, <1>9 DEF TypeOK
<1>11. ShapeInv'
  BY <1>1, <1>9, StepShape
<1>12. AloneInv' /\ (LeftoverOp \in rec'.todo <=> LeftoverOp \in rec.todo)
  BY <1>1, <1>9, StepAlone
<1>13. LeftoverOp \in rec.todo
  BY <1>1 DEF AloneInv, Single
<1>14. NatInv'
  <2> SUFFICES ASSUME ~overlap, rec.cfg.nat # None
               PROVE  IF NatOp \in rec'.todo
                      THEN Single("reset") \cap rec'.todo = {} => reg'.feat = NoFeature /\ ~reg'.on
                      ELSE NatOp \in rec'.failed \/ (up' /\ Served(rec.cfg.nat)')
    BY <1>1, <1>9, <1>12, <1>13 DEF NatInv
  <2>1. CASE op.kind = "nat"
    <3>1. op = NatOp /\ NatOp \notin rec'.todo
      BY <1>4, <1>9, <2>1
    <3>2. \A p \in rec.todo : p.kind # "reset"
      BY <1>1, <2>1, RecoveryOrdered DEF Due
    <3>3. Single("reset") \cap rec.todo = {}
      BY <3>2 DEF Single
    <3>4. reg.feat = NoFeature /\ ~reg.on
      BY <1>13, <3>1, <3>3 DEF NatInv
    <3>5. CASE o.ok
      <4>1. Served(rec.cfg.nat)'
        BY <1>6, <1>7, <1>9, <2>1, <3>4, <3>5 DEF Served, ServedIn, AttachedIfaces, VnicsOf
      <4> QED BY <1>1, <1>6, <3>1, <3>5, <4>1
    <3>6. CASE ~o.ok
      BY <1>8, <1>9, <3>1, <3>6
    <3> QED BY <3>5, <3>6
  <2>2. CASE op.kind # "nat"
    <3>1. NatOp \in rec.todo
      BY <1>1, <1>13 DEF ShapeInv
    <3>2. NatOp \in rec'.todo
      BY <1>9, <2>2, <3>1 DEF NatOp
    <3>3. Single("reset") \cap rec'.todo = Single("reset") \cap rec.todo
      BY <1>1, <1>9 DEF Single
    <3>4. reg'.feat = reg.feat /\ reg'.on = reg.on
      BY <1>1, <1>6, <1>7, <2>2 DEF Apart
    <3> QED BY <1>13, <3>1, <3>2, <3>3, <3>4 DEF NatInv
  <2> QED BY <2>1, <2>2
<1>15. LeftoverInv'
  BY <1>12, <1>13 DEF LeftoverInv
<1>16. TellInv' /\ Keeps
  BY <1>1, <1>6, <1>7, <1>9 DEF TellInv, Latest, Keeps, Backed
<1>17. RetryingInv'
  BY <1>1, <1>9, NotRetrying DEF RetryingInv
<1> QED BY <1>10, <1>11, <1>12, <1>14, <1>15, <1>16, <1>17

\* so does the emptying of the registries,
LEMMA RecoveryResetInv ==
  ASSUME IInv, NEW op \in rec.todo, RecoveryReset(op)
  PROVE  IInv' /\ Keeps
<1> USE DEF IInv
<1>1. /\ op.kind = "reset" /\ Due(RecoveryBefore, rec.todo, op)
      /\ reg' = EmptyReg(reg.pending) /\ rec' = Done(op)
      /\ UNCHANGED <<vpp, up, committed, job, waiting, alarms, overlap, trusted, undone,
                     replayed, faults, commits, restarts>>
  BY DEF RecoveryReset
<1>2. /\ reg' \in Regs /\ reg'.pending = reg.pending
      /\ reg'.feat = NoFeature /\ ~reg'.on
  BY <1>1, StartTyped DEF TypeOK, Regs, EmptyReg
<1>3. /\ rec' \in Recs /\ (~rec'.active => rec'.todo = {})
      /\ rec'.todo = rec.todo \ {op} /\ rec'.cfg = rec.cfg
      /\ rec'.retrying = rec.retrying /\ rec'.scan = rec.scan
      /\ rec'.clean = rec.clean /\ rec'.cleared = rec.cleared
  BY <1>1 DEF Done, TypeOK, Recs
<1>4. TypeOK'
  BY <1>1, <1>2, <1>3 DEF TypeOK
<1>5. ShapeInv'
  BY <1>1, <1>3, StepShape
<1>6. AloneInv' /\ (LeftoverOp \in rec'.todo <=> LeftoverOp \in rec.todo)
  BY <1>1, <1>3, StepAlone
<1>7. LeftoverOp \in rec.todo
  BY <1>1 DEF AloneInv, Single
<1>8. rec.cfg.nat # None => NatOp \in rec'.todo
  BY <1>1, <1>3, <1>7 DEF ShapeInv, NatOp
<1>9. NatInv' /\ LeftoverInv'
  BY <1>2, <1>3, <1>6, <1>7, <1>8 DEF NatInv, LeftoverInv
<1>10. TellInv' /\ Keeps
  BY <1>1, <1>2, <1>3 DEF TellInv, Latest, Keeps, Backed
<1>11. RetryingInv'
  BY <1>1, <1>3, NotRetrying DEF RetryingInv
<1> QED BY <1>4, <1>5, <1>6, <1>9, <1>10, <1>11

\* the beginning and the end of another attempt at the pending deletions,
LEMMA RetryEndsInv ==
  ASSUME IInv, NEW op \in rec.todo, RetryBegin(op) \/ RetryEnd(op)
  PROVE  IInv' /\ Keeps
<1> USE DEF IInv
<1>1. /\ op.kind \in {"retry", "recheck"} /\ Due(RecoveryBefore, rec.todo, op)
      /\ UNCHANGED <<vpp, reg, up, committed, job, waiting, alarms, overlap, trusted, undone,
                     replayed, faults, commits, restarts>>
  BY DEF RetryBegin, RetryEnd
<1>2. \A n : Served(n)' <=> Served(n)
  BY <1>1 DEF Served, ServedIn, AttachedIfaces, VnicsOf
<1>3. TellInv'
  BY <1>1 DEF TellInv, Latest
<1>4. CASE rec' = [rec EXCEPT !.retrying = TRUE, !.scan = reg.pending]
  <2>1. /\ rec' \in Recs /\ rec'.active = rec.active /\ rec'.todo = rec.todo
        /\ rec'.cfg = rec.cfg /\ rec'.failed = rec.failed /\ rec'.cleared = rec.cleared
        /\ rec'.retrying
    BY <1>4 DEF TypeOK, Recs, Regs
  <2>5. RetryingInv'
    BY <1>1, <2>1 DEF RetryingInv
  <2>2. TypeOK'
    BY <1>1, <2>1 DEF TypeOK
  <2>3. ShapeInv' /\ AloneInv' /\ NatInv' /\ LeftoverInv'
    BY <1>1, <1>2, <2>1 DEF ShapeInv, AloneInv, NatInv, LeftoverInv
  <2>4. Keeps
    BY <1>1, <2>1 DEF Keeps, Backed
  <2> QED BY <1>3, <2>2, <2>3, <2>4, <2>5
<1>5. CASE \/ ~rec.retrying /\ rec' = Done(op)
           \/ RetryEnd(op) /\ rec' = [Done(op) EXCEPT !.retrying = FALSE]
  <2>1. /\ rec' \in Recs /\ (~rec'.active => rec'.todo = {})
        /\ rec'.todo = rec.todo \ {op} /\ rec'.cfg = rec.cfg /\ rec'.failed = rec.failed
        /\ rec'.scan = rec.scan /\ rec'.clean = rec.clean /\ rec'.cleared = rec.cleared
        /\ ~rec'.retrying /\ rec.scan \cup rec.clean \cup rec.cleared = {}
    BY <1>5 DEF Done, RetryEnd, TypeOK, Recs
  <2>2. TypeOK'
    BY <1>1, <2>1 DEF TypeOK
  <2>3. ShapeInv'
    BY <1>1, <2>1, StepShape
  <2>4. AloneInv' /\ (LeftoverOp \in rec'.todo <=> LeftoverOp \in rec.todo)
    BY <1>1, <2>1, StepAlone
  <2>5. /\ NatOp \in rec'.todo <=> NatOp \in rec.todo
        /\ Single("reset") \cap rec'.todo = Single("reset") \cap rec.todo
    BY <1>1, <2>1 DEF NatOp, Single
  <2>6. NatInv'
    BY <1>1, <1>2, <2>1, <2>4, <2>5 DEF NatInv
  <2>7. LeftoverInv'
    BY <1>1, <2>4 DEF LeftoverInv
  <2>8. Keeps
    BY <1>1, <2>1 DEF Keeps, Backed
  <2>9. RetryingInv'
    BY <2>1 DEF RetryingInv
  <2> QED BY <1>3, <2>2, <2>3, <2>4, <2>6, <2>7, <2>8, <2>9
<1> HIDE DEF IInv
<1>6. \/ rec' = [rec EXCEPT !.retrying = TRUE, !.scan = reg.pending]
      \/ ~rec.retrying /\ rec' = Done(op)
      \/ RetryEnd(op) /\ rec' = [Done(op) EXCEPT !.retrying = FALSE]
  <2>1. CASE RetryBegin(op)
    BY <2>1 DEF RetryBegin
  <2>2. CASE RetryEnd(op)
    BY <2>2 DEF RetryEnd
  <2> QED BY <2>1, <2>2
<1> QED BY <1>4, <1>5, <1>6

\* and what it does for the tables in between,
LEMMA RetryInv ==
  ASSUME IInv, (\E t \in Table : RetryTable(t) \/ RetryResolve(t)) \/ RetryClear
  PROVE  IInv' /\ Keeps
<1> USE DEF IInv
<1> DEFINE same == /\ rec' \in Recs /\ rec'.active = rec.active /\ rec'.todo = rec.todo
                   /\ rec'.cfg = rec.cfg /\ rec'.failed = rec.failed
                   /\ rec'.retrying = rec.retrying /\ rec.retrying
<1>1. \A t \in Table : t \in rec.scan \cup rec.clean \cup rec.cleared => rec.retrying
  BY DEF TypeOK
<1>2. UNCHANGED <<up, committed, job, waiting, overlap, undone, replayed, faults, commits,
                  restarts>>
  BY DEF RetryTable, RetryResolve, RetryClear
<1>3. ASSUME NEW t \in Table, RetryTable(t)
      PROVE  /\ same /\ vpp' \in Vpps /\ vpp'.plug = vpp.plug /\ vpp'.feat = vpp.feat
             /\ vpp'.tables \subseteq vpp.tables /\ reg' = reg /\ alarms' = alarms
             /\ trusted' = trusted /\ Keeps
  <2>1. /\ t \in rec.scan /\ rec.clean = {} /\ reg' = reg /\ alarms' = alarms
        /\ trusted' = trusted /\ vpp' \in {vpp, DropTable(vpp, t)}
    BY <1>3 DEF RetryTable
  <2>2. \E c \in SUBSET Table : rec' = [rec EXCEPT !.scan = @ \ {t}, !.clean = c]
    BY <1>3 DEF RetryTable
  <2>3. same /\ rec'.cleared = rec.cleared
    BY <1>1, <2>1, <2>2 DEF TypeOK, Recs
  <2>4. vpp' \in Vpps /\ vpp'.plug = vpp.plug /\ vpp'.feat = vpp.feat
        /\ vpp'.tables \subseteq vpp.tables
    BY <2>1 DEF TypeOK, Vpps, DropTable
  <2>5. Keeps
    BY <2>1, <2>3 DEF Keeps, Backed
  <2> QED BY <2>1, <2>3, <2>4, <2>5
<1>4. ASSUME RetryClear
      PROVE  /\ same /\ reg' \in Regs /\ reg'.feat = reg.feat /\ reg'.on = reg.on
             /\ reg'.ifaces = reg.ifaces /\ reg'.vnfs = reg.vnfs
             /\ vpp' = vpp /\ alarms' = alarms /\ trusted' = trusted /\ Keeps
  <2>1. /\ rec.clean # {} /\ reg' = [reg EXCEPT !.pending = @ \ rec.clean]
        /\ rec' = [rec EXCEPT !.clean = {}, !.cleared = @ \cup rec.clean]
        /\ vpp' = vpp /\ alarms' = alarms /\ trusted' = trusted
    BY <1>4 DEF RetryClear
  <2>2. same /\ rec'.cleared = rec.cleared \cup rec.clean
    BY <1>1, <2>1 DEF TypeOK, Recs
  <2>3. /\ reg' \in Regs /\ reg'.pending = reg.pending \ rec.clean
        /\ reg'.feat = reg.feat /\ reg'.on = reg.on
        /\ reg'.ifaces = reg.ifaces /\ reg'.vnfs = reg.vnfs
    BY <2>1 DEF TypeOK, Regs
  <2>4. Keeps
    BY <2>1, <2>2, <2>3 DEF Keeps, Backed
  <2> QED BY <2>1, <2>2, <2>3, <2>4
<1>5. ASSUME NEW t \in Table, RetryResolve(t)
      PROVE  /\ same /\ reg' = reg /\ vpp' = vpp /\ trusted' \in BOOLEAN
             /\ alarms' \in Alarms /\ alarms'.recovery = alarms.recovery
             /\ alarms'.leftover = alarms.leftover /\ Keeps
  <2>1. /\ t \in rec.cleared /\ rec' = [rec EXCEPT !.cleared = @ \ {t}]
        /\ reg' = reg /\ vpp' = vpp /\ trusted' \in BOOLEAN
        /\ \E res \in SUBSET Op :
             alarms' = [alarms EXCEPT !.deferred = @ \ {t}, !.residue = @ \ res]
    BY <1>5 DEF RetryResolve, TypeOK, Alarms
  <2>2. same /\ rec'.cleared = rec.cleared \ {t}
    BY <1>1, <2>1 DEF TypeOK, Recs
  <2>3. /\ alarms' \in Alarms /\ alarms'.recovery = alarms.recovery
        /\ alarms'.leftover = alarms.leftover /\ alarms'.deferred = alarms.deferred \ {t}
    BY <2>1 DEF TypeOK, Alarms
  <2>4. Keeps
    BY <2>1, <2>2, <2>3 DEF Keeps, Backed
  <2> QED BY <2>1, <2>2, <2>3, <2>4
<1>6. /\ same /\ Keeps /\ trusted' \in BOOLEAN
      /\ vpp' \in Vpps /\ vpp'.plug = vpp.plug /\ vpp'.feat = vpp.feat
      /\ vpp'.tables \subseteq vpp.tables
      /\ reg' \in Regs /\ reg'.feat = reg.feat /\ reg'.on = reg.on
      /\ reg'.ifaces = reg.ifaces /\ reg'.vnfs = reg.vnfs
      /\ alarms' \in Alarms /\ alarms'.recovery = alarms.recovery
      /\ alarms'.leftover = alarms.leftover
  <2>1. vpp \in Vpps /\ reg \in Regs /\ alarms \in Alarms /\ trusted \in BOOLEAN
    BY DEF TypeOK
  <2>2. CASE \E t \in Table : RetryTable(t)
    BY <1>3, <2>1, <2>2
  <2>3. CASE RetryClear
    BY <1>4, <2>1, <2>3
  <2>4. CASE \E t \in Table : RetryResolve(t)
    BY <1>5, <2>1, <2>4
  <2> QED BY <2>2, <2>3, <2>4
<1>7. TypeOK'
  BY <1>2, <1>6 DEF TypeOK
<1>8. ShapeInv' /\ AloneInv'
  BY <1>2, <1>6 DEF ShapeInv, AloneInv
<1>9. \A n : Served(n)' <=> Served(n)
  BY <1>6 DEF Served, ServedIn, AttachedIfaces, VnicsOf
<1>10. NatInv' /\ LeftoverInv'
  BY <1>2, <1>6, <1>9 DEF NatInv, LeftoverInv
<1>11. TellInv' /\ RetryingInv'
  BY <1>2, <1>6 DEF TellInv, RetryingInv, Latest
<1> QED BY <1>6, <1>7, <1>8, <1>10, <1>11

\* and the end of a recovery.
LEMMA RecoveryEndInv ==
  ASSUME IInv, NEW op \in rec.todo, RecoveryEnd(op)
  PROVE  IInv' /\ Keeps
<1> USE DEF IInv
<1>1. /\ op.kind = "leftover" /\ Due(RecoveryBefore, rec.todo, op) /\ rec' = Done(op)
      /\ alarms' = [alarms EXCEPT !.recovery = rec.failed,
                       !.leftover = IF up THEN LeftoverTables(vpp, rec.cfg) ELSE {}]
      /\ trusted' = (up /\ ~overlap) /\ undone' = FALSE /\ replayed' = (up /\ ~overlap)
      /\ UNCHANGED <<vpp, reg, up, committed, job, waiting, overlap, faults, commits, restarts>>
  BY DEF RecoveryEnd
<1>2. rec.cfg \in Config /\ rec.todo \subseteq Replay(rec.cfg)
  BY ConfigsTyped DEF ShapeInv
<1>3. op = LeftoverOp
  BY <1>1, <1>2, ReplaySound
<1>4. \A p \in rec.todo : p = op
  <2> TAKE p \in rec.todo
  <2>1. p.kind \notin RecoveryBefore["leftover"]
    BY <1>1 DEF Due
  <2>2. p.kind = "leftover"
    BY <1>2, <2>1, RecoveryOrdered, ReplaySound
  <2> QED BY <1>2, <1>3, <2>2, ReplaySound
<1>5. /\ rec' \in Recs /\ rec'.todo = {} /\ rec'.cfg = rec.cfg
      /\ rec'.retrying = rec.retrying /\ rec'.scan = rec.scan
      /\ rec'.clean = rec.clean /\ rec'.cleared = rec.cleared
  BY <1>1, <1>4 DEF Done, TypeOK, Recs
<1>6. /\ alarms' \in Alarms /\ alarms'.recovery = rec.failed
      /\ alarms'.deferred = alarms.deferred
      /\ up => alarms'.leftover = vpp.tables \ rec.cfg.vrfs
  BY <1>1 DEF TypeOK, Alarms, Vpps, Recs, LeftoverTables
<1>7. TypeOK'
  BY <1>1, <1>5, <1>6 DEF TypeOK
<1>8. ShapeInv'
  BY <1>1, <1>5 DEF ShapeInv
<1>9. ~overlap => job.phase = "idle" /\ rec.cfg = committed
  BY <1>3 DEF AloneInv
<1>10. AloneInv'
  BY <1>1, <1>5, <1>9 DEF AloneInv
<1>11. NatOp \notin rec.todo
  BY <1>3, <1>4 DEF NatOp, LeftoverOp
<1>12. NatInv'
  <2>1. \A n : Served(n)' <=> Served(n)
    BY <1>1 DEF Served, ServedIn, AttachedIfaces, VnicsOf
  <2>2. replayed' /\ committed.nat # None =>
          NatOp \in rec.failed \/ Served(committed.nat)
    BY <1>1, <1>3, <1>9, <1>11 DEF NatInv
  <2> QED BY <1>1, <1>5, <1>6, <2>1, <2>2 DEF NatInv
<1>13. LeftoverInv'
  BY <1>1, <1>6, <1>9 DEF LeftoverInv
<1>14. TellInv' /\ Keeps
  BY <1>1, <1>5, <1>6 DEF TellInv, Latest, Keeps, Backed
<1>15. RetryingInv'
  BY <1>1, <1>5, NotRetrying DEF RetryingInv
<1> QED BY <1>7, <1>8, <1>10, <1>12, <1>13, <1>14, <1>15

\* Every step keeps the invariant.
LEMMA NextInv == IInv /\ [Next]_vars => IInv' /\ Keeps
<1> SUFFICES ASSUME IInv, [Next]_vars
             PROVE  IInv' /\ Keeps
  OBVIOUS
<1>1. CASE \E new \in Cfg : Begin(new)
  BY <1>1, BeginInv
<1>2. CASE \E op \in job.todo : ReadRegistered(op) \/ RunOp(op)
  BY <1>2, ReadRegisteredInv, RunOpInv
<1>3. CASE TellDeletion \/ UndoOp \/ TellResidue \/ End
  BY <1>3, TellDeletionInv, UndoOpInv, TellResidueInv, EndInv
<1>4. CASE VppRestart \/ DaemonRestart \/ Reconnect
  BY <1>4, RestartsInv
<1>5. CASE RecoveryBegin \/ Patrol
  BY <1>5, StartsInv
<1>6. CASE \E op \in rec.todo : RecoveryStep(op) \/ RecoveryReset(op) \/ RetryBegin(op)
                                \/ RetryEnd(op) \/ RecoveryEnd(op)
  BY <1>6, RecoveryStepInv, RecoveryResetInv, RetryEndsInv, RecoveryEndInv
<1>7. CASE (\E t \in Table : RetryTable(t) \/ RetryResolve(t)) \/ RetryClear
  BY <1>7, RetryInv
<1>8. CASE UNCHANGED vars
  BY <1>8 DEF vars, IInv, TypeOK, ShapeInv, AloneInv, NatInv, LeftoverInv, TellInv, RetryingInv, Latest,
              Served, ServedIn, AttachedIfaces, VnicsOf, Keeps, Backed
<1> QED BY <1>1, <1>2, <1>3, <1>4, <1>5, <1>6, <1>7, <1>8 DEF Next, Recovery

-----------------------------------------------------------------------------
(* What holds of every instance *)

\* IInv is an invariant: whatever the tables, interfaces and configurations, and
\* however many commits, failing calls and restarts.
THEOREM InductiveInvariant == Spec => []IInv
<1>1. Init => IInv
  BY InitInv
<1>2. IInv /\ [Next]_vars => IInv'
  BY NextInv
<1> QED BY <1>1, <1>2, PTL DEF Spec

\* Every state has its types: what a commit, an undo or a recovery asks of a provider
\* is about a table or a vNIC that a configuration names, and the cases of Outcomes and
\* Inverse cover it.
THEOREM TypeCorrect == Spec => []TypeOK
<1>1. IInv => TypeOK
  BY DEF IInv
<1> QED BY <1>1, InductiveInvariant, PTL

\* After a recovery that nothing disturbed the declared NAT is served, or the recovery
\* has an alarm about NAT (EnsureConsistent, ApplyNAT).
THEOREM NatIsServed == Spec => []NatServed
<1>1. IInv => NatServed
  <2> SUFFICES ASSUME IInv, Quiet, replayed, committed.nat # None
               PROVE  NatOp \in alarms.recovery \/ Served(committed.nat)
    BY DEF NatServed, NatOp, Served, ServedIn
  <2>1. rec.todo = {}
    BY DEF Quiet, IInv, TypeOK, Recs
  <2> QED BY <2>1 DEF IInv, NatInv
<1> QED BY <1>1, InductiveInvariant, PTL

\* After a recovery that nothing disturbed every table that no configuration declares
\* has been reported as left over (LeftoverTables).
THEOREM LeftoversAreKnown == Spec => []LeftoversKnown
<1>1. IInv => LeftoversKnown
  <2> SUFFICES ASSUME IInv, Quiet, replayed
               PROVE  vpp.tables \ committed.vrfs \subseteq alarms.leftover
    BY DEF LeftoversKnown
  <2>1. rec.todo = {}
    BY DEF Quiet, IInv, TypeOK, Recs
  <2> QED BY <2>1 DEF IInv, LeftoverInv
<1> QED BY <1>1, InductiveInvariant, PTL

\* No step takes the registration from behind an alarm about a deferred deletion and
\* leaves the alarm, unless a retry is about to resolve it: neither the emptying of the
\* registries, nor a restart of VPP, nor a commit or a recovery beside the retry
\* (resetProviders, clearPending).
THEOREM DeferralsAreKept == Spec => DeferralsKept
<1> DEFINE A == \A t \in alarms.deferred : Backed(t) /\ t \in alarms'.deferred => Backed(t)'
<1>1. IInv /\ [Next]_vars => [A]_vars
  BY NextInv DEF Keeps
<1>2. [][A]_vars <=> DeferralsKept
  BY DEF DeferralsKept
<1> HIDE DEF A
<1>3. IInv /\ [Next]_vars => IInv'
  BY NextInv
<1>4. Spec => []IInv /\ [][Next]_vars
  BY InductiveInvariant, PTL DEF Spec
<1> QED BY <1>1, <1>2, <1>3, <1>4, PTL

-----------------------------------------------------------------------------
(* The VRFs: the invariant *)

VrfOp(t) == [kind |-> "vrf", obj |-> t]
DelVrfOp(t) == [kind |-> "del-vrf", obj |-> t]
VnicOp(i) == [kind |-> "vnic", obj |-> i]

\* The commit has run, or half run, an operation.
Did(op) == \E n \in DOMAIN job.done : job.done[n] = op
DidVrf(t) == Did(VrfOp(t)) \/ Did(DelVrfOp(t))

Running == job.phase \in {"run", "read", "kept", "dropped"}
ResetDone == \A op \in rec.todo : op.kind # "reset"

\* What history says of the present: VPP is connected, and whoever else works works
\* alone and on what is committed.
TrustInv ==
  /\ trusted => up
  /\ (trusted \/ replayed) /\ rec.active => job.phase = "idle" /\ rec.cfg = committed
  /\ job.phase = "idle" => job.done = << >>
  /\ trusted /\ job.phase = "residue" => undone

\* A commit has its plan, and nothing else, before it and behind it, and a deletion has read what is
\* registered.
CommitInv ==
  /\ Running => /\ job.todo \subseteq Plan(committed, job.new)
                /\ \A op : Did(op) => op \in Plan(committed, job.new)
                /\ \A op \in Plan(committed, job.new) : op \in job.todo \/ Did(op)
  /\ trusted /\ job.phase = "read" =>
       \A op \in job.todo : Due(CommitBefore, job.todo, op) /\ op.kind = "del-vrf" =>
         job.held \subseteq reg.ifaces[op.obj]

\* Only a vNIC can be registered with two VRFs.
OnePort(r) ==
  \A i \in Iface \ Vnic : \A t, u \in Table : i \in r.ifaces[t] /\ i \in r.ifaces[u] => t = u

\* The registries hold nothing that a compensation or a disturbed recovery has left.
Sure == IF LeftoverOp \in rec.todo THEN ~overlap /\ ResetDone ELSE trusted /\ ~undone

\* A vNIC is registered with no other switch than the one c connects it to.
AtHome(r, c, i) ==
  i \in c.ports /\ c.home[i] # None =>
    /\ r.vnfs[i] \in {None, c.home[i]}
    /\ \A u \in Table : i \in r.ifaces[u] => u = c.home[i]

\* Whichever that is, it is registered with one only, and in both registries.
Exclusive(r) ==
  \A i \in Vnic : \A t \in Table : i \in r.ifaces[t] =>
    /\ r.vnfs[i] \in {None, t}
    /\ \A u \in Table : i \in r.ifaces[u] => t = u

DomainInv ==
  AllHomed /\ Sure =>
    /\ Exclusive(reg)
    /\ \A i \in Vnic : \/ AtHome(reg, committed, i)
                       \/ Did(VnicOp(i)) /\ vpp.member[i] # committed.home[i]
    /\ Running => \A i \in Vnic : VnicOp(i) \notin job.todo => AtHome(reg, job.new, i)

\* What a recovery that has VPP to itself has restored.
RestoredInv ==
  LeftoverOp \in rec.todo /\ ~overlap =>
    \A t \in rec.cfg.vrfs :
      \/ VrfOp(t) \in rec.todo
      \/ ResetDone /\ (VrfOp(t) \in rec.failed \/ (up /\ Placed(vpp, reg, rec.cfg, t)))

\* A VRF is in place, or the last recovery has told.
Kept(c, t) == VrfOp(t) \in alarms.recovery \/ Placed(vpp, reg, c, t)

PlacedInv ==
  /\ replayed /\ LeftoverOp \notin rec.todo => \A t \in committed.vrfs : Kept(committed, t)
  /\ trusted /\ ~undone /\ LeftoverOp \notin rec.todo /\ AllHomed =>
       /\ (\A t \in Table : ~DidVrf(t)) => \A t \in committed.vrfs : Kept(committed, t)
       /\ Running => \A t \in job.new.vrfs : VrfOp(t) \notin job.todo => Kept(job.new, t)

\* A port that is where c has it is registered with no other VRF, or an alarm has told.
Told(t) ==
  \/ VrfOp(t) \in alarms.recovery
  \/ undone /\ (VrfOp(t) \in alarms.residue \/ DelVrfOp(t) \in alarms.residue)
SoleIn(w, r, i, t) == w.member[i] = t => \A u \in Table : i \in r.ifaces[u] => u = t
Sole(c, t) == \A i \in c.l3[t] \ Vnic : SoleIn(vpp, reg, i, t)

SoleInv ==
  trusted /\ LeftoverOp \notin rec.todo =>
    /\ \A t \in committed.vrfs : DidVrf(t) \/ Told(t) \/ Sole(committed, t)
    /\ Running => \A t \in job.new.vrfs :
                    VrfOp(t) \in job.todo \/ Told(t) \/ Sole(job.new, t)

\* The invariant of the VRFs, on top of IInv.
VInv ==
  /\ TrustInv /\ CommitInv /\ OnePort(reg)
  /\ DomainInv /\ RestoredInv /\ PlacedInv /\ SoleInv

-----------------------------------------------------------------------------
(* What a provider call does to the interfaces *)

\* A registry that holds no more than another.
Shrunk(r, q) ==
  /\ \A t \in Table : q.ifaces[t] \subseteq r.ifaces[t]
  /\ \A i \in Vnic : q.vnfs[i] \in {r.vnfs[i], None}

\* Interfaces I that join the table u leave all others.
Joined(r, q, u, I) ==
  /\ I \subseteq q.ifaces[u] /\ q.ifaces[u] \subseteq r.ifaces[u] \cup I \cup VnicsOf(r, u)
  /\ \A t \in Table : t # u => q.ifaces[t] = r.ifaces[t] \ I
  /\ \A i \in Vnic : i \notin I => q.vnfs[i] = r.vnfs[i]

\* The vNIC i is given the table x: it joins it, unless it is there already or has an
\* address in another table.
MovesVnic(w, r, i, x, o) ==
  /\ Stays(w, o.vpp, {i}) /\ (i \in w.addr => i \in o.vpp.addr)
  /\ \/ /\ o.reg = r /\ o.vpp.member[i] = w.member[i]
        /\ o.ok => x = None \/ r.vnfs[i] = x
     \/ /\ o.ok /\ x \in Table /\ r.vnfs[i] # x /\ (w.member[i] = x \/ i \notin w.addr)
        /\ o.vpp.member[i] = x
        /\ Joined(r, o.reg, x, {i}) /\ r.ifaces[x] \subseteq o.reg.ifaces[x]
        /\ o.reg.vnfs[i] = x

\* The interfaces I of the VRF u join it.
MovesVrf(w, r, u, I, o) ==
  /\ Stays(w, o.vpp, I)
  /\ \A i \in I : o.vpp.member[i] \in {w.member[i], u}
  /\ IF o.ok
     THEN /\ u \in o.vpp.tables /\ \A i \in I : o.vpp.member[i] = u /\ i \in o.vpp.addr
          /\ Joined(r, o.reg, u, I) /\ o.reg.vnfs = r.vnfs
          /\ o.reg.ifaces[u] = I \cup VnicsOf(r, u)
     ELSE o.reg = r

\* Those of them that exist are registered with it.
RegistersVrf(w, r, u, I, o) ==
  /\ o.vpp = w
  /\ \/ o.reg = r
     \/ /\ Joined(r, o.reg, u, I \cap w.exist) /\ o.reg.vnfs = r.vnfs
        /\ r.ifaces[u] \subseteq o.reg.ifaces[u]

\* The vNIC i goes.
DropsVnic(w, r, i, o) ==
  /\ Stays(w, o.vpp, {i}) /\ Shrunk(r, o.reg)
  /\ i \in o.vpp.exist => o.vpp.member[i] = w.member[i]
  /\ o.vpp.member[i] \in {w.member[i], Default}
  /\ \A t \in Table : r.ifaces[t] \ {i} \subseteq o.reg.ifaces[t]

\* The table u goes, and the interfaces in held leave theirs.
DropsVrf(w, r, u, held, o) ==
  /\ w.tables \ {u} \subseteq o.vpp.tables
  /\ \A i \in Iface : \/ o.vpp.member[i] = w.member[i] /\ (i \in w.addr => i \in o.vpp.addr)
                      \/ i \in held /\ o.vpp.member[i] \in {w.member[i], Default}
  /\ Shrunk(r, o.reg) /\ \A t \in Table : t # u => o.reg.ifaces[t] = r.ifaces[t]

Effects(w, r, op, c, held, o) ==
  /\ op.kind \in {"vnic", "set-table"} => MovesVnic(w, r, op.obj, c.home[op.obj], o)
  /\ op.kind = "vrf" => MovesVrf(w, r, op.obj, c.l3[op.obj], o)
  /\ op.kind = "register" => RegistersVrf(w, r, op.obj, c.l3[op.obj], o)
  /\ op.kind = "nat" => /\ Stays(w, o.vpp, {})
                        /\ o.reg.ifaces = r.ifaces /\ o.reg.vnfs = r.vnfs
  /\ op.kind = "del-vnic" => DropsVnic(w, r, op.obj, o)
  /\ op.kind = "del-vrf" => DropsVrf(w, r, op.obj, held, o)

\* Registering interfaces with a table makes them join it.
LEMMA RegisterJoins ==
  ASSUME NEW r \in Regs, NEW t \in Table, NEW I \in SUBSET Iface
  PROVE  /\ Joined(r, Register(r, t, I), t, I) /\ Register(r, t, I).vnfs = r.vnfs
         /\ r.ifaces[t] \subseteq Register(r, t, I).ifaces[t]
<1> DEFINE R == Reassign(r, t, I)
           f == [R EXCEPT ![t] = @ \cup I]
           g == [i \in Iface |-> IF i \in I THEN t ELSE r.tableOf[i]]
<1>1. R \in [Table -> SUBSET Iface] /\ R[t] = r.ifaces[t]
      /\ \A u \in Table : u # t => R[u] = r.ifaces[u] \ I
  BY RegisterTyped DEF Reassign
<1>2. f[t] = r.ifaces[t] \cup I /\ \A u \in Table : u # t => f[u] = r.ifaces[u] \ I
  <2> HIDE DEF R
  <2> QED BY <1>1
<1>3. Register(r, t, I) = [r EXCEPT !.ifaces = f, !.tableOf = g]
  BY DEF Register, Regs
<1> HIDE DEF f, g, R
<1>4. Register(r, t, I).ifaces = f /\ Register(r, t, I).vnfs = r.vnfs
  BY <1>3 DEF Regs
<1> QED BY <1>2, <1>4 DEF Joined

\* What a call on tables and interfaces keeps.
LEMMA CallsStay ==
  ASSUME NEW w \in Vpps, NEW t \in Table, NEW J \in SUBSET Iface
  PROVE  /\ Stays(w, w, J) /\ Stays(w, EnsureTables(w, t), J)
         /\ t \in EnsureTables(w, t).tables
         /\ EnsureTables(w, t).member = w.member /\ EnsureTables(w, t).addr = w.addr
         /\ Stays(w, MoveIfaces(EnsureTables(w, t), J, t), J)
         /\ MoveIfaces(EnsureTables(w, t), J, t).addr = w.addr
         /\ \A i \in Iface : MoveIfaces(EnsureTables(w, t), J, t).member[i] =
                               IF i \in J THEN t ELSE w.member[i]
         /\ t \in MoveIfaces(EnsureTables(w, t), J, t).tables
BY DEF EnsureTables, MoveIfaces, Stays, Vpps

\* So do those that settle the interfaces of a VRF.
LEMMA SettleStays ==
  ASSUME NEW w \in Vpps, NEW t \in Table, NEW J \in SUBSET Iface
  PROVE  /\ Stays(w, Settle(w, t, J), J) /\ t \in Settle(w, t, J).tables
         /\ \A i \in Iface : Settle(w, t, J).member[i] = IF i \in J THEN t ELSE w.member[i]
         /\ J \subseteq Settle(w, t, J).addr
<1> DEFINE m == MoveIfaces(EnsureTables(w, t), J, t)
<1>1. /\ m \in Vpps /\ Stays(w, m, J) /\ t \in m.tables
      /\ \A i \in Iface : m.member[i] = IF i \in J THEN t ELSE w.member[i]
  <2>1. EnsureTables(w, t) \in Vpps
    BY TableCalls
  <2>2. m \in Vpps
    BY <2>1, IfaceCalls
  <2>3. /\ Stays(w, MoveIfaces(EnsureTables(w, t), J, t), J)
        /\ t \in MoveIfaces(EnsureTables(w, t), J, t).tables
        /\ \A i \in Iface : MoveIfaces(EnsureTables(w, t), J, t).member[i] =
                              IF i \in J THEN t ELSE w.member[i]
    BY CallsStay
  <2> QED BY <2>2, <2>3
<1>2. Settle(w, t, J) = [m EXCEPT !.exist = @ \cup (J \cap Sub), !.addr = @ \cup J]
  BY DEF Settle
<1> HIDE DEF m
<1> QED BY <1>1, <1>2 DEF Stays, Vpps

\* The effect of applying a VRF,
LEMMA VrfEffect ==
  ASSUME NEW w \in Vpps, NEW r \in Regs, NEW c \in Config, NEW t \in Table,
         NEW o \in ApplyVRF(w, r, c, t)
  PROVE  MovesVrf(w, r, t, c.l3[t], o)
<1> DEFINE I == c.l3[t]
           R == Reassign(r, t, I)
           f == [R EXCEPT ![t] = I \cup VnicsOf(r, t)]
           g == [i \in Iface |-> IF i \in I THEN t ELSE r.tableOf[i]]
           known == [r EXCEPT !.ifaces = f, !.tableOf = g]
<1>1. I \in SUBSET Iface
  BY DEF Config
<1>2. R \in [Table -> SUBSET Iface] /\ \A u \in Table : u # t => R[u] = r.ifaces[u] \ I
  BY <1>1, RegisterTyped DEF Reassign
<1>3. f[t] = I \cup VnicsOf(r, t) /\ \A u \in Table : u # t => f[u] = r.ifaces[u] \ I
  <2> HIDE DEF R, I
  <2> QED BY <1>2
<1>4. known.ifaces = f /\ known.vnfs = r.vnfs
  <2> HIDE DEF f, g
  <2> QED BY DEF Regs
<1>5. Joined(r, known, t, I) /\ known.ifaces[t] = I \cup VnicsOf(r, t)
  <2> HIDE DEF f, known, I
  <2> QED BY <1>3, <1>4 DEF Joined
<1>6. \/ o = Ok(Settle(w, t, I), known)
      \/ \E J \in SUBSET I : o = Broken(Settle(w, t, J), r) \/ o = Refuse(Settle(w, t, J), r)
  BY DEF ApplyVRF
<1> HIDE DEF known, I
<1>7. CASE o = Ok(Settle(w, t, I), known)
  <2>1. o.vpp = Settle(w, t, I) /\ o.reg = known /\ o.ok
    BY <1>7, Answers
  <2>2. /\ Stays(w, o.vpp, I) /\ t \in o.vpp.tables
        /\ \A i \in Iface : o.vpp.member[i] = IF i \in I THEN t ELSE w.member[i]
        /\ I \subseteq o.vpp.addr
    BY <1>1, <2>1, SettleStays
  <2>3. MovesVrf(w, r, t, I, o)
    BY <1>1, <1>4, <1>5, <2>1, <2>2 DEF MovesVrf
  <2> QED BY <2>3 DEF I
<1>8. CASE \E J \in SUBSET I : o = Broken(Settle(w, t, J), r) \/ o = Refuse(Settle(w, t, J), r)
  <2> PICK J \in SUBSET I : o = Broken(Settle(w, t, J), r) \/ o = Refuse(Settle(w, t, J), r)
    BY <1>8
  <2>1. o.vpp = Settle(w, t, J) /\ o.reg = r /\ ~o.ok
    BY Answers
  <2>2. J \in SUBSET Iface
    BY <1>1
  <2>3. /\ Stays(w, o.vpp, J)
        /\ \A i \in Iface : o.vpp.member[i] = IF i \in J THEN t ELSE w.member[i]
    BY <2>1, <2>2, SettleStays
  <2>4. MovesVrf(w, r, t, I, o)
    BY <1>1, <2>1, <2>3 DEF MovesVrf, Stays
  <2> QED BY <2>4 DEF I
<1> QED BY <1>6, <1>7, <1>8

\* of registering its interfaces,
LEMMA RegisterEffect ==
  ASSUME NEW w \in Vpps, NEW r \in Regs, NEW c \in Config, NEW t \in Table,
         NEW o \in RegisterL3Interfaces(w, r, c, t)
  PROVE  RegistersVrf(w, r, t, c.l3[t], o)
<1> DEFINE here == c.l3[t] \cap w.exist
<1>1. here \in SUBSET Iface
  BY DEF Config
<1>2. o = Ok(w, Register(r, t, here)) \/ o = Refuse(w, Register(r, t, here))
  BY DEF RegisterL3Interfaces
<1> HIDE DEF here
<1>3. o.vpp = w /\ o.reg = Register(r, t, here)
  BY <1>2, Answers
<1> QED BY <1>1, <1>3, RegisterJoins DEF RegistersVrf, here

\* of giving a vNIC its table,
LEMMA TableEffect ==
  ASSUME NEW w \in Vpps, NEW r \in Regs, NEW i \in Vnic, NEW t \in Table,
         NEW o \in SetVnfTable(w, r, i, t)
  PROVE  MovesVnic(w, r, i, t, o)
<1> DEFINE e == EnsureTables(w, t)
           g == Register(r, t, {i})
           known == [g EXCEPT !.vnfs[i] = t]
<1>1. {i} \in SUBSET Iface /\ i \in Iface
  BY RoutingAssumption
<1>2. \/ o = Refuse(w, r) \/ o = Refuse(e, r) \/ o = Broken(e, r)
      \/ o = Ok(w, r) /\ r.vnfs[i] = t
      \/ /\ o = Ok(MoveIfaces(e, {i}, t), known)
         /\ r.vnfs[i] # t /\ (w.member[i] = t \/ i \notin w.addr)
  BY DEF SetVnfTable
<1>3. CASE \/ o = Refuse(w, r) \/ o = Refuse(e, r) \/ o = Broken(e, r)
           \/ o = Ok(w, r) /\ r.vnfs[i] = t
  <2>1. /\ o.vpp = w \/ o.vpp = e
        /\ o.reg = r /\ (o.ok => r.vnfs[i] = t)
    BY <1>3, Answers
  <2> QED BY <1>1, <2>1, CallsStay DEF MovesVnic
<1>4. CASE /\ o = Ok(MoveIfaces(e, {i}, t), known)
           /\ r.vnfs[i] # t /\ (w.member[i] = t \/ i \notin w.addr)
  <2>1. o.vpp = MoveIfaces(e, {i}, t) /\ o.reg = known /\ o.ok
    BY <1>4, Answers
  <2>2. g \in Regs /\ Joined(r, g, t, {i}) /\ g.vnfs = r.vnfs /\ r.ifaces[t] \subseteq g.ifaces[t]
    BY <1>1, RegisterTyped, RegisterJoins
  <2>3. /\ known.ifaces = g.ifaces /\ known.vnfs[i] = t
        /\ \A j \in Vnic : j # i => known.vnfs[j] = r.vnfs[j]
    <3> HIDE DEF g
    <3> QED BY <2>2 DEF Regs
  <2>4. Joined(r, known, t, {i})
    <3> HIDE DEF g, known
    <3> QED BY <2>2, <2>3 DEF Joined
  <2>5. /\ Stays(w, o.vpp, {i}) /\ o.vpp.addr = w.addr /\ o.vpp.member[i] = t
    <3>1. {i} \in SUBSET {i} /\ i \in {i}
      OBVIOUS
    <3> QED BY <1>1, <2>1, <3>1, CallsStay
  <2> HIDE DEF g, known
  <2> QED BY <1>4, <2>1, <2>2, <2>3, <2>4, <2>5 DEF MovesVnic
<1> QED BY <1>2, <1>3, <1>4

\* of creating a vNIC,
LEMMA VnfEffect ==
  ASSUME NEW w \in Vpps, NEW r \in Regs, NEW c \in Config, NEW i \in Vnic,
         NEW o \in ApplyVnfInterface(w, r, c, i)
  PROVE  MovesVnic(w, r, i, c.home[i], o)
<1> DEFINE e == [w EXCEPT !.exist = @ \cup {i}]
<1>1. e \in Vpps /\ e.tables = w.tables /\ e.member = w.member /\ e.addr = w.addr
  BY RoutingAssumption DEF Vpps
<1>2. c.home[i] \in Table \cup {None} /\ i \in Iface
  BY RoutingAssumption DEF Config
<1>3. \/ c.home[i] = None /\ o = Ok(e, r)
      \/ o = Broken(w, r)
      \/ c.home[i] \in Table /\ o \in SetVnfTable(e, r, i, c.home[i])
  BY <1>2 DEF ApplyVnfInterface
<1> HIDE DEF e
<1>4. CASE c.home[i] = None /\ o = Ok(e, r)
  <2>1. o.vpp = e /\ o.reg = r
    BY <1>4, Answers
  <2> QED BY <1>1, <1>2, <1>4, <2>1 DEF MovesVnic, Stays
<1>5. CASE o = Broken(w, r)
  <2>1. o.vpp = w /\ o.reg = r /\ ~o.ok
    BY <1>5, Answers
  <2> QED BY <1>2, <2>1 DEF MovesVnic, Stays
<1>6. CASE c.home[i] \in Table /\ o \in SetVnfTable(e, r, i, c.home[i])
  <2>1. MovesVnic(e, r, i, c.home[i], o)
    BY <1>1, <1>6, TableEffect
  <2> QED BY <1>1, <2>1 DEF MovesVnic, Stays
<1> QED BY <1>3, <1>4, <1>5, <1>6

\* of deleting a vNIC,
LEMMA VnfDropped ==
  ASSUME NEW w \in Vpps, NEW r \in Regs, NEW i \in Vnic,
         NEW o \in DeleteVnfInterface(w, r, i)
  PROVE  DropsVnic(w, r, i, o)
<1> DEFINE v == RemoveIface(w, i)
           q == ForgetVnfIface(r, i)
<1>1. i \in Iface
  BY RoutingAssumption
<1>2. /\ v.tables = w.tables /\ v.exist = w.exist \ {i}
      /\ v.member = [w.member EXCEPT ![i] = Default] /\ v.addr = w.addr \ {i}
  BY DEF RemoveIface, Vpps
<1>3. /\ q.vnfs = [r.vnfs EXCEPT ![i] = None]
      /\ \A t \in Table : q.ifaces[t] \subseteq r.ifaces[t] /\ r.ifaces[t] \ {i} \subseteq q.ifaces[t]
  <2>1. CASE r.vnfs[i] = None
    BY <2>1 DEF ForgetVnfIface, Regs
  <2>2. CASE r.vnfs[i] # None
    BY <2>2 DEF ForgetVnfIface, Regs
  <2> QED BY <2>1, <2>2
<1>4. o = Ok(v, q) \/ o = Broken(w, r)
  BY DEF DeleteVnfInterface
<1> HIDE DEF v, q
<1>5. CASE o = Ok(v, q)
  <2>1. o.vpp = v /\ o.reg = q
    BY <1>5, Answers
  <2>2. Stays(w, v, {i}) /\ v.member[i] = Default /\ i \notin v.exist
    BY <1>1, <1>2 DEF Stays, Vpps
  <2>3. Shrunk(r, q)
    BY <1>3 DEF Shrunk, Regs
  <2> QED BY <1>3, <2>1, <2>2, <2>3 DEF DropsVnic
<1>6. CASE o = Broken(w, r)
  <2>1. o.vpp = w /\ o.reg = r
    BY <1>6, Answers
  <2> QED BY <2>1 DEF DropsVnic, Stays, Shrunk
<1> QED BY <1>4, <1>5, <1>6

\* and of deleting a VRF.
LEMMA VrfDropped ==
  ASSUME NEW w \in Vpps, NEW r \in Regs, NEW u \in Table, NEW held \in SUBSET Iface,
         NEW o \in DeleteVRF(w, r, u, held)
  PROVE  DropsVrf(w, r, u, held, o)
<1> DEFINE here == held \cap w.exist
           bare == [w EXCEPT !.addr = @ \ here]
           free == MoveIfaces(bare, here, Default)
           gone == DropTable(free, u)
           known == ForgetTable(r, u)
           kept == [known EXCEPT !.pending = @ \cup {u}]
           part(J) == [w EXCEPT !.addr = @ \ J]
           moved(v) == /\ w.tables \ {u} \subseteq v.tables
                       /\ \A i \in Iface :
                            \/ v.member[i] = w.member[i] /\ (i \in w.addr => i \in v.addr)
                            \/ i \in held /\ v.member[i] \in {w.member[i], Default}
           less(q) == Shrunk(r, q) /\ \A t \in Table : t # u => q.ifaces[t] = r.ifaces[t]
<1>1. bare \in Vpps /\ bare.tables = w.tables /\ bare.member = w.member /\ bare.addr = w.addr \ here
  BY DEF Vpps
<1>2. /\ free.tables = w.tables /\ free.addr = w.addr \ here
      /\ \A i \in Iface : free.member[i] = IF i \in here THEN Default ELSE w.member[i]
  <2> HIDE DEF bare, here
  <2> QED BY <1>1 DEF MoveIfaces, Vpps
<1>3. /\ w.tables \ {u} \subseteq gone.tables /\ gone.member = free.member /\ gone.addr = free.addr
  <2>1. free \in Vpps
    <3>1. here \in SUBSET Iface
      OBVIOUS
    <3> HIDE DEF bare, here
    <3> QED BY <1>1, <3>1, IfaceCalls
  <2> HIDE DEF free
  <2> QED BY <1>2, <2>1 DEF DropTable, Vpps
<1>4. moved(bare) /\ moved(free) /\ moved(gone)
  <2> HIDE DEF bare, free, gone
  <2> QED BY <1>1, <1>2, <1>3
<1>5. \A J \in SUBSET here : moved(MoveIfaces(part(J), J, Default))
  <2> TAKE J \in SUBSET here
  <2>1. part(J) \in Vpps /\ part(J).tables = w.tables /\ part(J).member = w.member
        /\ part(J).addr = w.addr \ J
    BY DEF Vpps
  <2>2. /\ MoveIfaces(part(J), J, Default).tables = w.tables
        /\ MoveIfaces(part(J), J, Default).addr = w.addr \ J
        /\ \A i \in Iface : MoveIfaces(part(J), J, Default).member[i] =
                              IF i \in J THEN Default ELSE w.member[i]
    <3> HIDE DEF part
    <3> QED BY <2>1 DEF MoveIfaces, Vpps
  <2> QED BY <2>2
<1>6. less(r) /\ less(known) /\ less(kept)
  BY DEF Shrunk, ForgetTable, Regs
<1>7. \/ o = Ok(gone, kept) \/ o = Ok(gone, known)
      \/ \E J \in SUBSET here : o = Broken(MoveIfaces(part(J), J, Default), r)
      \/ o = Broken(bare, r) \/ o = Broken(free, known) \/ o = Broken(gone, known)
  BY DEF DeleteVRF
<1>8. moved(o.vpp) /\ less(o.reg)
  <2> HIDE DEF bare, free, gone, known, kept, part, moved, less, here
  <2>1. CASE \E J \in SUBSET here : o = Broken(MoveIfaces(part(J), J, Default), r)
    BY <1>5, <1>6, <2>1, Answers
  <2> QED BY <1>4, <1>6, <1>7, <2>1, Answers
<1> QED BY <1>8 DEF DropsVrf

\* What an operation does to the interfaces, whatever its outcome.
LEMMA OutcomesEffect ==
  ASSUME vpp \in Vpps, reg \in Regs, NEW c \in Config, NEW held \in SUBSET Iface,
         NEW op, Sound(op, c), NEW o \in Outcomes(op, c, held)
  PROVE  Effects(vpp, reg, op, c, held, o)
<1>1. CASE ~up
  <2>1. o = Refuse(vpp, reg)
    BY <1>1 DEF Outcomes
  <2>2. o.vpp = vpp /\ o.reg = reg /\ ~o.ok
    BY <2>1, Answers
  <2> QED BY <2>2 DEF Effects, Stays, MovesVnic, MovesVrf, RegistersVrf, DropsVnic, DropsVrf,
                      Shrunk
<1>2. CASE up /\ op.kind = "vnic"
  <2>1. o \in ApplyVnfInterface(vpp, reg, c, op.obj) /\ op.obj \in Vnic
    BY <1>2 DEF Outcomes, Sound, CommitOp
  <2> QED BY <1>2, <2>1, VnfEffect DEF Effects
<1>3. CASE up /\ op.kind = "vrf"
  <2>1. o \in ApplyVRF(vpp, reg, c, op.obj) /\ op.obj \in Table
    BY <1>3 DEF Outcomes, Sound, CommitOp
  <2> QED BY <1>3, <2>1, VrfEffect DEF Effects
<1>4. CASE up /\ op.kind = "nat"
  <2>1. o \in ApplyNAT(vpp, reg, c.nat) /\ c.nat \in NatRules
    BY <1>4 DEF Outcomes, Config, NatRules
  <2> QED BY <1>4, <2>1, NatApplied DEF Effects
<1>5. CASE up /\ op.kind = "del-vrf"
  <2>1. o \in DeleteVRF(vpp, reg, op.obj, held) /\ op.obj \in Table
    BY <1>5 DEF Outcomes, Sound, CommitOp
  <2> QED BY <1>5, <2>1, VrfDropped DEF Effects
<1>6. CASE up /\ op.kind = "del-vnic"
  <2>1. o \in DeleteVnfInterface(vpp, reg, op.obj) /\ op.obj \in Vnic
    BY <1>6 DEF Outcomes, Sound, CommitOp
  <2> QED BY <1>6, <2>1, VnfDropped DEF Effects
<1>7. CASE up /\ op.kind = "register"
  <2>1. o \in RegisterL3Interfaces(vpp, reg, c, op.obj) /\ op.obj \in Table
    BY <1>7 DEF Outcomes, Sound, CommitOp, CommitKind
  <2> QED BY <1>7, <2>1, RegisterEffect DEF Effects
<1>8. CASE up /\ op.kind = "set-table"
  <2>1. /\ o \in SetVnfTable(vpp, reg, op.obj, c.home[op.obj])
        /\ op.obj \in Vnic /\ c.home[op.obj] \in Table
    BY <1>8 DEF Outcomes, Sound, CommitOp, CommitKind
  <2> QED BY <1>8, <2>1, TableEffect DEF Effects
<1> QED BY <1>1, <1>2, <1>3, <1>4, <1>5, <1>6, <1>7, <1>8 DEF Sound, CommitOp, CommitKind

\* A VRF in place stays in place if the operation is not about it and has no business
\* with its interfaces.
Spares(op, c, held, d, t) ==
  /\ op.kind = "vrf" => op.obj # t /\ c.l3[op.obj] \cap d.l3[t] = {}
  /\ op.kind = "register" => op.obj = t \/ c.l3[op.obj] \cap d.l3[t] = {}
  /\ op.kind = "del-vnic" => op.obj \notin d.l3[t]
  /\ op.kind = "del-vrf" => op.obj # t /\ held \cap d.l3[t] = {}

LEMMA PlacedKept ==
  ASSUME NEW w \in Vpps, NEW r \in Regs, NEW c \in Config, NEW d \in Config, NEW t \in Table,
         NEW held \in SUBSET Iface, NEW op, Sound(op, c), NEW o \in Answer,
         Effects(w, r, op, c, held, o), Spares(op, c, held, d, t), Placed(w, r, d, t)
  PROVE  Placed(o.vpp, o.reg, d, t)
<1>1. d.l3[t] \in SUBSET Iface
  BY DEF Config
<1>2. t \in w.tables /\ \A i \in d.l3[t] : w.member[i] = t /\ i \in w.addr /\ i \in r.ifaces[t]
  BY DEF Placed
<1>3. CASE op.kind \in {"vnic", "set-table"}
  <2>1. MovesVnic(w, r, op.obj, c.home[op.obj], o)
    BY <1>3 DEF Effects
  <2> QED BY <1>1, <1>2, <2>1 DEF MovesVnic, Stays, Joined, Placed
<1>4. CASE op.kind = "vrf"
  <2>1. MovesVrf(w, r, op.obj, c.l3[op.obj], o) /\ op.obj # t /\ c.l3[op.obj] \cap d.l3[t] = {}
    BY <1>4 DEF Effects, Spares
  <2> QED BY <1>1, <1>2, <2>1 DEF MovesVrf, Stays, Joined, Placed
<1>5. CASE op.kind = "register"
  <2>1. /\ RegistersVrf(w, r, op.obj, c.l3[op.obj], o)
        /\ op.obj = t \/ c.l3[op.obj] \cap d.l3[t] = {}
    BY <1>5 DEF Effects, Spares
  <2> QED BY <1>1, <1>2, <2>1 DEF RegistersVrf, Joined, Placed
<1>6. CASE op.kind = "nat"
  BY <1>1, <1>2, <1>6 DEF Effects, Stays, Placed
<1>7. CASE op.kind = "del-vnic"
  <2>1. DropsVnic(w, r, op.obj, o) /\ op.obj \notin d.l3[t]
    BY <1>7 DEF Effects, Spares
  <2> QED BY <1>1, <1>2, <2>1 DEF DropsVnic, Stays, Placed
<1>8. CASE op.kind = "del-vrf"
  <2>1. DropsVrf(w, r, op.obj, held, o) /\ op.obj # t /\ held \cap d.l3[t] = {}
    BY <1>8 DEF Effects, Spares
  <2> QED BY <1>1, <1>2, <2>1 DEF DropsVrf, Placed
<1> QED BY <1>3, <1>4, <1>5, <1>6, <1>7, <1>8 DEF Sound, CommitOp, CommitKind

\* Applying a VRF puts it in place.
LEMMA PlacedMade ==
  ASSUME NEW w, NEW r, NEW c, NEW held, NEW op, op.kind = "vrf", NEW o,
         Effects(w, r, op, c, held, o), o.ok
  PROVE  Placed(o.vpp, o.reg, c, op.obj)
BY DEF Effects, MovesVrf, Joined, Placed

\* No port becomes registered with a second VRF.
LEMMA PortsKept ==
  ASSUME NEW w, NEW r, NEW c, NEW held, NEW op, Sound(op, c), NEW o,
         Effects(w, r, op, c, held, o), OnePort(r)
  PROVE  OnePort(o.reg)
<1>1. CASE op.kind \in {"vnic", "set-table"}
  BY <1>1 DEF Effects, MovesVnic, Joined, OnePort, VnicsOf
<1>2. CASE op.kind = "vrf"
  BY <1>2 DEF Effects, MovesVrf, Joined, OnePort, VnicsOf
<1>3. CASE op.kind = "register"
  BY <1>3 DEF Effects, RegistersVrf, Joined, OnePort, VnicsOf
<1>4. CASE op.kind = "nat"
  BY <1>4 DEF Effects, OnePort
<1>5. CASE op.kind \in {"del-vnic", "del-vrf"}
  BY <1>5 DEF Effects, DropsVnic, DropsVrf, Shrunk, OnePort
<1> QED BY <1>1, <1>2, <1>3, <1>4, <1>5 DEF Sound, CommitOp, CommitKind

\* A port that is registered where it is and nowhere else stays so, or goes.
LEMMA SoleKept ==
  ASSUME NEW w \in Vpps, NEW r, NEW c, NEW held, NEW op, Sound(op, c), NEW o,
         Effects(w, r, op, c, held, o), op.kind # "register",
         NEW i \in Iface \ Vnic, NEW t \in Table, op.kind = "vrf" => op.obj # t,
         SoleIn(w, r, i, t)
  PROVE  SoleIn(o.vpp, o.reg, i, t)
<1>1. CASE op.kind \in {"vnic", "set-table"}
  <2>1. op.obj \in Vnic
    BY <1>1 DEF Sound, CommitOp, CommitKind
  <2> QED BY <1>1, <2>1 DEF Effects, MovesVnic, Stays, Joined, SoleIn, VnicsOf
<1>2. CASE op.kind = "vrf"
  BY <1>2 DEF Effects, MovesVrf, Stays, Joined, SoleIn, VnicsOf, Sound, CommitOp
<1>3. CASE op.kind = "nat"
  BY <1>3 DEF Effects, Stays, SoleIn
<1>4. CASE op.kind = "del-vnic"
  <2>1. op.obj \in Vnic
    BY <1>4 DEF Sound, CommitOp
  <2> QED BY <1>4, <2>1 DEF Effects, DropsVnic, Stays, Shrunk, SoleIn
<1>5. CASE op.kind = "del-vrf"
  BY <1>5, RoutingAssumption DEF Effects, DropsVrf, Shrunk, SoleIn
<1> QED BY <1>1, <1>2, <1>3, <1>4, <1>5 DEF Sound, CommitOp, CommitKind

\* A vNIC stays registered with one switch, and not with another than it is connected to.
LEMMA ExclusiveKept ==
  ASSUME NEW w, NEW r, NEW c, NEW held, NEW op, Sound(op, c), NEW o,
         Effects(w, r, op, c, held, o), Exclusive(r),
         op.kind \in {"vrf", "register"} =>
           \A i \in c.l3[op.obj] \cap Vnic : r.vnfs[i] \in {None, op.obj}
  PROVE  Exclusive(o.reg)
<1>1. CASE op.kind \in {"vnic", "set-table"}
  BY <1>1, RoutingAssumption DEF Effects, MovesVnic, Joined, Exclusive, VnicsOf
<1>2. CASE op.kind = "vrf"
  <2>1. op.obj \in Table
    BY <1>2 DEF Sound, CommitOp
  <2> QED BY <1>2, <2>1, RoutingAssumption DEF Effects, MovesVrf, Joined, Exclusive, VnicsOf
<1>3. CASE op.kind = "register"
  <2>1. op.obj \in Table
    BY <1>3 DEF Sound, CommitOp, CommitKind
  <2> QED BY <1>3, <2>1, RoutingAssumption DEF Effects, RegistersVrf, Joined, Exclusive, VnicsOf
<1>4. CASE op.kind = "nat"
  BY <1>4 DEF Effects, Exclusive
<1>5. CASE op.kind \in {"del-vnic", "del-vrf"}
  BY <1>5 DEF Effects, DropsVnic, DropsVrf, Shrunk, Exclusive
<1> QED BY <1>1, <1>2, <1>3, <1>4, <1>5 DEF Sound, CommitOp, CommitKind

LEMMA HomeKept ==
  ASSUME NEW w, NEW r, NEW c, NEW held, NEW op, Sound(op, c), NEW o,
         Effects(w, r, op, c, held, o), NEW d, NEW i \in Vnic, AtHome(r, d, i),
         op.kind \in {"vnic", "set-table"} => op.obj # i,
         op.kind \in {"vrf", "register"} /\ i \in c.l3[op.obj] => d.home[i] = op.obj
  PROVE  AtHome(o.reg, d, i)
<1>1. CASE op.kind \in {"vnic", "set-table"}
  BY <1>1, RoutingAssumption DEF Effects, MovesVnic, Joined, AtHome, VnicsOf
<1>2. CASE op.kind = "vrf"
  <2>1. op.obj \in Table
    BY <1>2 DEF Sound, CommitOp
  <2> QED BY <1>2, <2>1, RoutingAssumption DEF Effects, MovesVrf, Joined, AtHome, VnicsOf
<1>3. CASE op.kind = "register"
  <2>1. op.obj \in Table
    BY <1>3 DEF Sound, CommitOp, CommitKind
  <2> QED BY <1>3, <2>1, RoutingAssumption DEF Effects, RegistersVrf, Joined, AtHome, VnicsOf
<1>4. CASE op.kind = "nat"
  BY <1>4 DEF Effects, AtHome
<1>5. CASE op.kind \in {"del-vnic", "del-vrf"}
  BY <1>5 DEF Effects, DropsVnic, DropsVrf, Shrunk, AtHome
<1> QED BY <1>1, <1>2, <1>3, <1>4, <1>5 DEF Sound, CommitOp, CommitKind

\* A vNIC that has been given its table is registered with no other, and one that fails
\* is registered as before.
LEMMA HomeMade ==
  ASSUME NEW w, NEW r, NEW c \in Config, NEW i \in Vnic, NEW o,
         MovesVnic(w, r, i, c.home[i], o), Exclusive(r)
  PROVE  /\ o.ok => AtHome(o.reg, c, i)
         /\ AtHome(r, c, i) => AtHome(o.reg, c, i)
<1>1. AtHome(r, c, i) => AtHome(o.reg, c, i)
  BY DEF MovesVnic, Joined, AtHome
<1>2. o.ok => AtHome(o.reg, c, i)
  BY RoutingAssumption DEF MovesVnic, Joined, AtHome, Exclusive, Config
<1> QED BY <1>1, <1>2

-----------------------------------------------------------------------------
(* What the steps do *)

\* What has been done after one more operation, and before the last one.
LEMMA DoneMore ==
  ASSUME job.done \in Seq(Op), NEW op \in Op, job'.done = Append(job.done, op)
  PROVE  \A p : Did(p)' <=> Did(p) \/ p = op
<1>1. /\ DOMAIN job'.done = 1..(Len(job.done) + 1) /\ DOMAIN job.done = 1..Len(job.done)
      /\ \A n \in DOMAIN job.done : job'.done[n] = job.done[n]
      /\ job'.done[Len(job.done) + 1] = op /\ Len(job.done) \in Nat
  OBVIOUS
<1> QED BY <1>1 DEF Did

LEMMA DoneLess ==
  ASSUME job.done \in Seq(Op), job.done # << >>,
         job'.done = SubSeq(job.done, 1, Len(job.done) - 1)
  PROVE  \A p : Did(p) <=> Did(p)' \/ p = job.done[Len(job.done)]
<1>1. /\ DOMAIN job'.done = 1..(Len(job.done) - 1) /\ DOMAIN job.done = 1..Len(job.done)
      /\ \A n \in DOMAIN job'.done : job'.done[n] = job.done[n]
      /\ Len(job.done) \in Nat /\ Len(job.done) > 0
  OBVIOUS
<1> QED BY <1>1 DEF Did

\* An operation of a commit.
RunDoes(op, o) ==
  /\ Effects(vpp, reg, op, job.new, job.held, o) /\ vpp' = o.vpp /\ reg' = o.reg
  /\ job'.phase \in (IF o.ok THEN {"run", "kept", "dropped"} ELSE {"undo"})
  /\ job'.todo = (IF o.ok THEN job.todo \ {op} ELSE {})
  /\ \A p : Did(p)' <=> Did(p) \/ (p = op /\ (o.ok \/ op.kind \in {"vrf", "del-vrf"}))
  /\ alarms.residue \ (IF o.ok THEN {op} ELSE {}) \subseteq alarms'.residue
  /\ alarms'.recovery = alarms.recovery /\ job'.new = job.new
  /\ UNCHANGED <<up, committed, rec, overlap, trusted, undone, replayed>>

LEMMA RunOpDoes ==
  ASSUME IInv, NEW op \in job.todo, RunOp(op)
  PROVE  /\ Running /\ Due(CommitBefore, job.todo, op) /\ CommitOp(op)
         /\ op.kind = "del-vrf" /\ up => job.phase = "read"
         /\ \E o \in Answer : RunDoes(op, o)
<1> USE DEF IInv
<1>1. PICK o \in Outcomes(op, job.new, job.held) :
        /\ Take(o)
        /\ \/ /\ o.ok
              /\ \E ph \in {"run", "kept", "dropped"} :
                   job' = [job EXCEPT !.todo = @ \ {op}, !.done = Append(@, op), !.phase = ph]
              /\ alarms' = alarms \/ alarms' = [alarms EXCEPT !.residue = @ \ {op}]
           \/ /\ ~o.ok
              /\ job' = [job EXCEPT !.phase = "undo", !.todo = {},
                           !.done = IF op.kind \in {"vrf", "del-vrf"} THEN Append(@, op) ELSE @]
              /\ UNCHANGED alarms
  BY DEF RunOp
<1>2. /\ Running /\ Due(CommitBefore, job.todo, op)
      /\ op.kind = "del-vrf" /\ up => job.phase = "read"
      /\ UNCHANGED <<up, committed, rec, overlap, trusted, undone, replayed>>
  BY DEF RunOp, Running
<1>3. CommitOp(op) /\ Sound(op, job.new) /\ job.new \in Config /\ job.held \in SUBSET Iface
  BY ConfigsTyped DEF ShapeInv, Sound, TypeOK, Jobs
<1>4. vpp \in Vpps /\ reg \in Regs /\ job \in Jobs /\ alarms \in Alarms
  BY DEF TypeOK
<1>5. o \in Answer /\ Effects(vpp, reg, op, job.new, job.held, o)
  BY <1>1, <1>3, <1>4, OutcomesTyped, OutcomesEffect
<1>6. vpp' = o.vpp /\ reg' = o.reg
  BY <1>1 DEF Take
<1>7. job.done \in Seq(Op) /\ op \in Op
  BY <1>4 DEF Jobs
<1>8. CASE o.ok
  <2>1. /\ job'.phase \in {"run", "kept", "dropped"}
        /\ job'.todo = job.todo \ {op} /\ job'.new = job.new
        /\ job'.done = Append(job.done, op)
    BY <1>1, <1>4, <1>8 DEF Jobs
  <2>2. alarms.residue \ {op} \subseteq alarms'.residue /\ alarms'.recovery = alarms.recovery
    BY <1>1, <1>4, <1>8 DEF Alarms
  <2>3. \A p : Did(p)' <=> Did(p) \/ p = op
    BY <1>7, <2>1, DoneMore
  <2>4. RunDoes(op, o)
    BY <1>2, <1>5, <1>6, <1>8, <2>1, <2>2, <2>3 DEF RunDoes
  <2> QED BY <1>2, <1>3, <1>5, <2>4
<1>9. CASE ~o.ok
  <2>1. /\ job'.phase = "undo" /\ job'.todo = {} /\ job'.new = job.new
        /\ job'.done = (IF op.kind \in {"vrf", "del-vrf"} THEN Append(job.done, op) ELSE job.done)
        /\ alarms' = alarms
    BY <1>1, <1>4, <1>9 DEF Jobs
  <2>2. \A p : Did(p)' <=> Did(p) \/ (p = op /\ op.kind \in {"vrf", "del-vrf"})
    <3>1. CASE op.kind \in {"vrf", "del-vrf"}
      BY <1>7, <2>1, <3>1, DoneMore
    <3>2. CASE op.kind \notin {"vrf", "del-vrf"}
      BY <2>1, <3>2 DEF Did
    <3> QED BY <3>1, <3>2
  <2>3. RunDoes(op, o)
    BY <1>2, <1>5, <1>6, <1>9, <2>1, <2>2 DEF RunDoes
  <2> QED BY <1>2, <1>3, <1>5, <2>3
<1> QED BY <1>8, <1>9

\* The undo of one.
UndoDoes(op, un, held, o) ==
  /\ un = Inverse(op)
  /\ un.kind = "del-vrf" => held = reg.ifaces[un.obj]
  /\ Effects(vpp, reg, un, committed, held, o) /\ vpp' = o.vpp /\ reg' = o.reg
  /\ job.phase = "undo" /\ job'.phase \in {"undo", "residue"}
  /\ job'.phase = "residue" => undone'
  /\ \A p : Did(p) <=> Did(p)' \/ p = op
  /\ o.ok \/ \A p : Did(p) => Did(p)'
  /\ undone' = (undone \/ ~o.ok \/ op.kind \in {"vrf", "del-vrf"})
  /\ UNCHANGED <<alarms, up, committed, rec, overlap, trusted, replayed>>

LEMMA UndoOpDoes ==
  ASSUME IInv, UndoOp
  PROVE  \E op, un \in Op : \E held \in SUBSET Iface : \E o \in Answer :
           CommitOp(op) /\ CommitOp(un) /\ UndoDoes(op, un, held, o)
<1> USE DEF IInv
<1> DEFINE un == Inverse(Latest)
           held == IF un.kind = "del-vrf" THEN reg.ifaces[un.obj] ELSE {}
<1>1. PICK o \in Outcomes(un, committed, held) :
        /\ Take(o)
        /\ \/ o.ok /\ job' = [job EXCEPT !.done = SubSeq(@, 1, Len(@) - 1)]
           \/ /\ ~o.ok \/ un.kind = "del-vrf"
              /\ job' = [job EXCEPT !.phase = "residue"]
        /\ undone' = (undone \/ ~o.ok \/ Latest.kind \in {"vrf", "del-vrf"})
  BY DEF UndoOp, Deferred
<1>2. /\ job.phase = "undo" /\ job.done # << >>
      /\ UNCHANGED <<alarms, up, committed, rec, overlap, trusted, replayed>>
  BY DEF UndoOp
<1>3. job.done \in Seq(Op) /\ Len(job.done) \in DOMAIN job.done
  BY <1>2 DEF TypeOK, Jobs
<1>4. CommitOp(Latest) /\ CommitOp(un) /\ Did(Latest)
  BY <1>3, InverseSound DEF ShapeInv, Latest, Did
<1>5. held \in SUBSET Iface
  BY <1>4 DEF TypeOK, Regs, CommitOp
<1>6. un.kind = "del-vrf" => held = reg.ifaces[un.obj]
  OBVIOUS
<1>7. un.kind = "del-vrf" => Latest.kind \in {"vrf", "del-vrf"}
  BY <1>4 DEF Inverse, CommitOp, CommitKind
<1>8. un = Inverse(Latest)
  OBVIOUS
<1> HIDE DEF held, un
<1>9. o \in Answer /\ Effects(vpp, reg, un, committed, held, o)
  <2>1. vpp \in Vpps /\ reg \in Regs /\ committed \in Config /\ Sound(un, committed)
    BY <1>4, ConfigsTyped DEF TypeOK, Sound
  <2> QED BY <1>1, <1>5, <2>1, OutcomesTyped, OutcomesEffect
<1>10. vpp' = o.vpp /\ reg' = o.reg
  BY <1>1 DEF Take
<1>11. /\ job'.phase \in {"undo", "residue"} /\ (job'.phase = "residue" => undone')
       /\ \A p : Did(p) <=> Did(p)' \/ p = Latest
       /\ o.ok \/ \A p : Did(p) => Did(p)'
  <2>1. CASE o.ok /\ job' = [job EXCEPT !.done = SubSeq(@, 1, Len(@) - 1)]
    <3>1. job'.done = SubSeq(job.done, 1, Len(job.done) - 1) /\ job'.phase = "undo"
      BY <1>2, <2>1 DEF TypeOK, Jobs
    <3>2. \A p : Did(p) <=> Did(p)' \/ p = job.done[Len(job.done)]
      BY <1>2, <1>3, <3>1, DoneLess
    <3> QED BY <2>1, <3>1, <3>2 DEF Latest
  <2>2. CASE (~o.ok \/ un.kind = "del-vrf") /\ job' = [job EXCEPT !.phase = "residue"]
    <3>1. job'.done = job.done /\ job'.phase = "residue"
      BY <2>2 DEF TypeOK, Jobs
    <3>2. \A p : Did(p)' <=> Did(p)
      BY <3>1 DEF Did
    <3>3. undone'
      BY <1>1, <1>7, <2>2
    <3>4. \A p : Did(p) <=> Did(p)' \/ p = Latest
      BY <1>4, <3>2, Zenon
    <3> QED BY <3>1, <3>2, <3>3, <3>4
  <2> HIDE DEF IInv
  <2> QED BY <1>1, <2>1, <2>2, Zenon
<1>12. UndoDoes(Latest, un, held, o)
  BY <1>1, <1>2, <1>6, <1>8, <1>9, <1>10, <1>11 DEF UndoDoes
<1> QED BY <1>4, <1>5, <1>9, <1>12 DEF CommitOp

\* What is told of an operation that has run, which the commit still has behind it, and
\* of one whose undo has failed, which it forgets.
TellDoes ==
  /\ \/ /\ job.phase \in {"kept", "dropped"} /\ job'.phase = "run" /\ job'.done = job.done
        /\ job'.todo = job.todo /\ \A p : Did(p)' <=> Did(p)
        /\ \E z \in Table : /\ Did(DelVrfOp(z))
                            /\ alarms.residue \ {DelVrfOp(z)} \subseteq alarms'.residue
     \/ /\ job.phase = "residue" /\ job'.phase = "undo"
        /\ alarms.residue \subseteq alarms'.residue
        /\ \A p : /\ Did(p)' => Did(p)
                 /\ Did(p) => Did(p)' \/ p \in alarms'.residue
  /\ alarms'.recovery = alarms.recovery /\ job'.new = job.new
  /\ UNCHANGED <<vpp, reg, up, committed, rec, overlap, trusted, undone, replayed>>

LEMMA TellsDo ==
  ASSUME IInv, TellDeletion \/ TellResidue
  PROVE  TellDoes
<1> USE DEF IInv
<1>1. job.done \in Seq(Op) /\ job.done # << >> /\ alarms \in Alarms /\ job \in Jobs
  BY DEF TellDeletion, TellResidue, TellInv, TypeOK, Jobs
<1>2. Len(job.done) \in DOMAIN job.done
  BY <1>1
<1>3. CommitOp(Latest) /\ Did(Latest)
  BY <1>2 DEF ShapeInv, Latest, Did
<1>4. CASE TellDeletion
  <2>1. /\ job.phase \in {"kept", "dropped"} /\ Latest.kind = "del-vrf"
        /\ job' = [job EXCEPT !.phase = "run"]
        /\ UNCHANGED <<vpp, reg, up, committed, rec, overlap, trusted, undone, replayed>>
    BY <1>4 DEF TellDeletion, TellInv
  <2>2. alarms'.residue = alarms.residue \ {Latest} /\ alarms'.recovery = alarms.recovery
    BY <1>1, <1>4 DEF TellDeletion, Alarms
  <2>3. Latest.obj \in Table /\ Latest = DelVrfOp(Latest.obj)
    BY <1>3, <2>1 DEF CommitOp, Op, DelVrfOp
  <2>4. /\ job'.phase = "run" /\ job'.done = job.done /\ job'.todo = job.todo
        /\ job'.new = job.new
    BY <1>1, <2>1 DEF Jobs
  <2>5. \A p : Did(p)' <=> Did(p)
    BY <2>4 DEF Did
  <2>6. \E z \in Table : /\ Did(DelVrfOp(z))
                        /\ alarms.residue \ {DelVrfOp(z)} \subseteq alarms'.residue
    BY <1>3, <2>2, <2>3
  <2> QED BY <2>1, <2>2, <2>4, <2>5, <2>6 DEF TellDoes
<1>5. CASE TellResidue
  <2>1. /\ job.phase = "residue"
        /\ job' = [job EXCEPT !.phase = "undo", !.done = SubSeq(@, 1, Len(@) - 1)]
        /\ UNCHANGED <<vpp, reg, up, committed, rec, overlap, trusted, undone, replayed>>
    BY <1>5 DEF TellResidue
  <2>2. alarms'.residue = alarms.residue \cup {Latest} /\ alarms'.recovery = alarms.recovery
    BY <1>1, <1>5 DEF TellResidue, Alarms
  <2>3. /\ job'.phase = "undo" /\ job'.done = SubSeq(job.done, 1, Len(job.done) - 1)
        /\ job'.new = job.new
    BY <1>1, <2>1 DEF Jobs
  <2>4. \A p : Did(p) <=> Did(p)' \/ p = job.done[Len(job.done)]
    BY <1>1, <2>3, DoneLess
  <2> QED BY <2>1, <2>2, <2>3, <2>4 DEF TellDoes, Latest
<1> QED BY <1>4, <1>5

\* The orders, as far as the VRFs need them.
LEMMA Orders ==
  /\ "vnic" \in CommitBefore["vrf"]
  /\ {"vrf", "del-vrf"} \subseteq CommitBefore["del-vnic"]
  /\ \A k \in {"vnic", "vrf", "register", "set-table", "nat", "recheck", "leftover"} :
       "reset" \in RecoveryBefore[k]
<1>1. \A k \in OpKind :
        /\ CommitBefore[k] =
             {CommitOrder[i] : i \in {i \in 1..5 : \E j \in 1..5 : i < j /\ CommitOrder[j] = k}}
        /\ RecoveryBefore[k] =
             {RecoveryOrder[i] : i \in {i \in 1..9 : \E j \in 1..9 : i < j /\ RecoveryOrder[j] = k}}
  BY DEF CommitBefore, CommitOrder, RecoveryBefore, RecoveryOrder, Before
<1>2. /\ CommitOrder[1] = "vnic" /\ CommitOrder[2] = "vrf" /\ CommitOrder[4] = "del-vrf"
      /\ CommitOrder[5] = "del-vnic"
  BY DEF CommitOrder
<1>3. "vnic" \in CommitBefore["vrf"]
  <2>1. "vrf" \in OpKind /\ 1 \in 1..5 /\ 2 \in 1..5 /\ 1 < 2
    BY DEF OpKind
  <2> QED BY <1>1, <1>2, <2>1
<1>4. {"vrf", "del-vrf"} \subseteq CommitBefore["del-vnic"]
  <2>1. "del-vnic" \in OpKind /\ 2 \in 1..5 /\ 4 \in 1..5 /\ 5 \in 1..5 /\ 2 < 5 /\ 4 < 5
    BY DEF OpKind
  <2> QED BY <1>1, <1>2, <2>1
<1>5. ASSUME NEW k \in {"vnic", "vrf", "register", "set-table", "nat", "recheck", "leftover"}
      PROVE  "reset" \in RecoveryBefore[k]
  <2>1. RecoveryOrder[2] = "reset" /\ \E j \in 1..9 : 2 < j /\ RecoveryOrder[j] = k
    BY DEF RecoveryOrder
  <2>2. k \in OpKind /\ 2 \in 1..9
    BY DEF OpKind
  <2> QED BY <1>1, <2>1, <2>2
<1> QED BY <1>3, <1>4, <1>5

\* An operation of a recovery.
RecoveryDoes(op, o) ==
  /\ Effects(vpp, reg, op, rec.cfg, {}, o) /\ vpp' = o.vpp /\ reg' = o.reg
  /\ rec'.todo = rec.todo \ {op} /\ rec'.cfg = rec.cfg /\ (rec'.active => rec.active)
  /\ rec'.failed = (IF o.ok THEN rec.failed ELSE rec.failed \cup {op})
  /\ o.ok => up
  /\ UNCHANGED <<up, committed, job, alarms, overlap, trusted, undone, replayed>>

LEMMA RecoveryStepDoes ==
  ASSUME IInv, NEW op \in rec.todo, RecoveryStep(op)
  PROVE  /\ op.kind \in {"vnic", "vrf", "register", "set-table", "nat"}
         /\ Sound(op, rec.cfg) /\ op \in Replay(rec.cfg) /\ rec.active
         /\ LeftoverOp \in rec.todo /\ LeftoverOp \in rec'.todo
         /\ ResetDone /\ ResetDone'
         /\ \E o \in Answer : RecoveryDoes(op, o)
<1> USE DEF IInv
<1>1. /\ op.kind \in {"vnic", "vrf", "register", "set-table", "nat"}
      /\ Due(RecoveryBefore, rec.todo, op)
      /\ UNCHANGED <<up, committed, job, waiting, alarms, overlap, trusted, undone, replayed,
                     commits, restarts>>
  BY DEF RecoveryStep
<1>2. PICK o \in Outcomes(op, rec.cfg, {}) :
        /\ Take(o)
        /\ rec' = [Done(op) EXCEPT !.failed = IF o.ok THEN @ ELSE @ \cup {op}]
  BY DEF RecoveryStep
<1>3. rec.cfg \in Config /\ op \in Replay(rec.cfg) /\ vpp \in Vpps /\ reg \in Regs
  BY ConfigsTyped DEF ShapeInv, TypeOK
<1>4. Sound(op, rec.cfg) /\ op \in Op
  BY <1>1, <1>3, ReplaySound
<1>5. o \in Answer /\ Effects(vpp, reg, op, rec.cfg, {}, o) /\ (o.ok => up)
  <2>1. {} \in SUBSET Iface
    OBVIOUS
  <2> QED BY <1>2, <1>3, <1>4, <2>1, OutcomesTyped, OutcomesEffect
<1>6. /\ rec'.todo = rec.todo \ {op} /\ rec'.cfg = rec.cfg /\ (rec'.active => rec.active)
      /\ rec'.failed = (IF o.ok THEN rec.failed ELSE rec.failed \cup {op})
      /\ rec.active
  BY <1>2 DEF Done, TypeOK, Recs
<1>7. LeftoverOp \in rec.todo /\ LeftoverOp \in rec'.todo
  <2>1. LeftoverOp \in rec.todo
    BY <1>1 DEF AloneInv, Single
  <2> QED BY <1>1, <1>6, <2>1 DEF LeftoverOp
<1>8. ResetDone /\ ResetDone'
  BY <1>1, <1>6, Orders DEF Due, ResetDone
<1>9. RecoveryDoes(op, o)
  BY <1>1, <1>2, <1>5, <1>6 DEF RecoveryDoes, Take
<1> QED BY <1>1, <1>3, <1>4, <1>5, <1>6, <1>7, <1>8, <1>9

\* Another attempt at the pending deletions leaves tables of the configuration, the
\* registries of the interfaces and what the last recovery has told.
RetryStep ==
  \/ \E op \in rec.todo : RetryBegin(op) \/ RetryEnd(op)
  \/ \E t \in Table : RetryTable(t) \/ RetryResolve(t)
  \/ RetryClear

RetryDoes ==
  /\ Stays([vpp EXCEPT !.tables = @ \cap rec.cfg.vrfs], vpp', {}) /\ vpp'.member = vpp.member
  /\ reg'.ifaces = reg.ifaces /\ reg'.vnfs = reg.vnfs
  /\ rec'.todo \subseteq rec.todo
  /\ \A p \in rec.todo : p \in rec'.todo \/ p.kind \in {"retry", "recheck"}
  /\ rec'.cfg = rec.cfg /\ rec'.failed = rec.failed /\ rec.active
  /\ alarms'.recovery = alarms.recovery
  /\ trusted' => trusted
  /\ trusted' /\ undone =>
       \A p \in alarms.residue : p.kind \in {"vrf", "del-vrf"} /\ p.obj \in rec.cfg.vrfs =>
         p \in alarms'.residue
  /\ UNCHANGED <<up, committed, job, overlap, undone, replayed>>

LEMMA RetryStepDoes ==
  ASSUME IInv, RetryStep
  PROVE  RetryDoes
<1> USE DEF IInv
<1>1. vpp \in Vpps /\ reg \in Regs /\ alarms \in Alarms /\ rec \in Recs
  BY DEF TypeOK
<1>2. rec.todo # {} => rec.active
  BY DEF TypeOK, Recs
<1>3. rec.retrying => rec.active
  BY <1>2 DEF RetryingInv
<1>4. /\ Stays([vpp EXCEPT !.tables = @ \cap rec.cfg.vrfs], vpp, {})
      /\ \A t \in Table : t \notin rec.cfg.vrfs =>
           /\ Stays([vpp EXCEPT !.tables = @ \cap rec.cfg.vrfs], DropTable(vpp, t), {})
           /\ DropTable(vpp, t).member = vpp.member
  BY <1>1 DEF Stays, Vpps, DropTable
<1>5. ASSUME NEW op \in rec.todo, RetryBegin(op) \/ RetryEnd(op)
      PROVE  RetryDoes
  <2>1. /\ op.kind \in {"retry", "recheck"}
        /\ UNCHANGED <<vpp, reg, up, committed, job, alarms, overlap, trusted, undone, replayed>>
    BY <1>5 DEF RetryBegin, RetryEnd
  <2>2. \/ rec' = [rec EXCEPT !.retrying = TRUE, !.scan = reg.pending]
        \/ rec' = Done(op)
        \/ rec' = [Done(op) EXCEPT !.retrying = FALSE]
    BY <1>5 DEF RetryBegin, RetryEnd
  <2>3. /\ rec'.todo \in {rec.todo, rec.todo \ {op}}
        /\ rec'.cfg = rec.cfg /\ rec'.failed = rec.failed
    BY <1>1, <2>2 DEF Done, Recs
  <2> QED BY <1>2, <1>4, <1>5, <2>1, <2>3 DEF RetryDoes
<1>6. ASSUME NEW t \in Table, RetryTable(t)
      PROVE  RetryDoes
  <2>1. /\ t \in rec.scan /\ \E c : rec' = [rec EXCEPT !.scan = @ \ {t}, !.clean = c]
        /\ vpp' = (IF t \in rec.cfg.vrfs THEN vpp ELSE DropTable(vpp, t))
        /\ UNCHANGED <<reg, up, committed, job, alarms, overlap, trusted, undone, replayed>>
    BY <1>6 DEF RetryTable
  <2>2. rec'.todo = rec.todo /\ rec'.cfg = rec.cfg /\ rec'.failed = rec.failed /\ rec.active
    BY <1>1, <1>3, <2>1 DEF TypeOK, Recs
  <2> QED BY <1>4, <2>1, <2>2 DEF RetryDoes
<1>7. CASE RetryClear
  <2>1. /\ rec.clean # {} /\ reg' = [reg EXCEPT !.pending = @ \ rec.clean]
        /\ rec' = [rec EXCEPT !.clean = {}, !.cleared = @ \cup rec.clean]
        /\ UNCHANGED <<vpp, up, committed, job, alarms, overlap, trusted, undone, replayed>>
    BY <1>7 DEF RetryClear
  <2>2. rec'.todo = rec.todo /\ rec'.cfg = rec.cfg /\ rec'.failed = rec.failed /\ rec.active
    BY <1>1, <1>3, <2>1 DEF TypeOK, Recs
  <2>3. reg'.ifaces = reg.ifaces /\ reg'.vnfs = reg.vnfs
    BY <1>1, <2>1 DEF Regs
  <2> QED BY <1>4, <2>1, <2>2, <2>3 DEF RetryDoes
<1>8. ASSUME NEW t \in Table, RetryResolve(t)
      PROVE  RetryDoes
  <2> DEFINE about == {p \in alarms.residue : p.kind \in {"vrf", "del-vrf"} /\ p.obj = t}
  <2>1. /\ t \in rec.cleared /\ rec' = [rec EXCEPT !.cleared = @ \ {t}]
        /\ alarms' = [alarms EXCEPT !.deferred = @ \ {t}, !.residue = @ \ about]
        /\ trusted' = (trusted /\ ~(undone /\ about # {} /\ t \in rec.cfg.vrfs))
        /\ UNCHANGED <<vpp, reg, up, committed, job, overlap, undone, replayed>>
    BY <1>8 DEF RetryResolve
  <2>2. rec'.todo = rec.todo /\ rec'.cfg = rec.cfg /\ rec'.failed = rec.failed /\ rec.active
    BY <1>1, <1>3, <2>1 DEF TypeOK, Recs
  <2>3. \A p \in about : p.obj = t
    OBVIOUS
  <2> HIDE DEF about
  <2>4. alarms'.recovery = alarms.recovery /\ alarms'.residue = alarms.residue \ about
    BY <1>1, <2>1 DEF Alarms
  <2>5. /\ trusted' => trusted
        /\ trusted' /\ undone => \A p \in about : p.obj \notin rec.cfg.vrfs
    BY <2>1, <2>3 DEF TypeOK
  <2> QED BY <1>4, <2>1, <2>2, <2>4, <2>5 DEF RetryDoes
<1> QED BY <1>5, <1>6, <1>7, <1>8 DEF RetryStep

\* A VRF of the configuration that was in place still is.
LEMMA RetryPlaced ==
  ASSUME IInv, RetryDoes, NEW t \in rec.cfg.vrfs, NEW c \in Config,
         Placed(vpp, reg, c, t)
  PROVE  Placed(vpp, reg, c, t)'
<1>1. vpp \in Vpps /\ t \in Table /\ c.l3[t] \subseteq Iface
  BY ConfigsTyped DEF IInv, TypeOK, Config
<1> QED BY <1>1 DEF RetryDoes, Placed, Stays, Vpps

\* The end of a recovery: nothing is left of it.
EndDoes ==
  /\ LeftoverOp \in rec.todo /\ ResetDone /\ rec'.todo = {} /\ ~rec'.active
  /\ \A p \in rec.todo : p = LeftoverOp
  /\ alarms'.recovery = rec.failed
  /\ trusted' = (up /\ ~overlap) /\ undone' = FALSE /\ replayed' = (up /\ ~overlap)
  /\ UNCHANGED <<vpp, reg, up, committed, job, overlap>>

LEMMA RecoveryEndDoes ==
  ASSUME IInv, NEW op \in rec.todo, RecoveryEnd(op)
  PROVE  EndDoes
<1> USE DEF IInv
<1>1. /\ op.kind = "leftover" /\ Due(RecoveryBefore, rec.todo, op) /\ rec' = Done(op)
      /\ alarms' = [alarms EXCEPT !.recovery = rec.failed,
                       !.leftover = IF up THEN LeftoverTables(vpp, rec.cfg) ELSE {}]
      /\ trusted' = (up /\ ~overlap) /\ undone' = FALSE /\ replayed' = (up /\ ~overlap)
      /\ UNCHANGED <<vpp, reg, up, committed, job, waiting, overlap, faults, commits, restarts>>
  BY DEF RecoveryEnd
<1>2. rec.cfg \in Config /\ rec.todo \subseteq Replay(rec.cfg)
  BY ConfigsTyped DEF ShapeInv
<1>3. op = LeftoverOp
  BY <1>1, <1>2, ReplaySound
<1>4. \A p \in rec.todo : p = op
  <2> TAKE p \in rec.todo
  <2>1. p.kind \notin RecoveryBefore["leftover"]
    BY <1>1 DEF Due
  <2>2. p.kind = "leftover"
    BY <1>2, <2>1, RecoveryOrdered, ReplaySound
  <2> QED BY <1>2, <1>3, <2>2, ReplaySound
<1>5. rec.todo = {op}
  BY <1>4
<1>6. rec'.todo = {} /\ ~rec'.active
  BY <1>1, <1>5 DEF Done, TypeOK, Recs
<1>7. alarms'.recovery = rec.failed
  BY <1>1 DEF TypeOK, Alarms
<1>8. ResetDone
  BY <1>1, <1>4 DEF ResetDone
<1> QED BY <1>1, <1>3, <1>4, <1>6, <1>7, <1>8 DEF EndDoes

\* The start of a recovery or of a patrol.
StartDoes ==
  /\ ~rec.active /\ rec'.cfg = committed /\ rec'.failed = {}
  /\ \/ rec'.todo = Replay(committed) /\ overlap' = (job.phase # "idle")
     \/ rec'.todo = Single("retry") /\ overlap' = overlap
  /\ trusted' = (trusted /\ job.phase = "idle")
  /\ UNCHANGED <<vpp, reg, up, committed, job, alarms, undone, replayed>>

LEMMA StartsDo ==
  ASSUME RecoveryBegin \/ Patrol
  PROVE  StartDoes
<1>1. CASE RecoveryBegin
  BY <1>1 DEF RecoveryBegin, Holding, StartDoes
<1>2. CASE Patrol
  BY <1>2 DEF Patrol, Holding, StartDoes
<1> QED BY <1>1, <1>2

\* The steps that move no interface and tell nobody anything.
LEMMA BeginDoes ==
  ASSUME NEW new \in Cfg, Begin(new)
  PROVE  /\ job.phase = "idle" /\ job'.phase = "run" /\ job'.new = new
         /\ job'.todo = Plan(committed, new) /\ job'.done = << >>
         /\ overlap' = (overlap \/ rec.active) /\ trusted' = (trusted /\ ~rec.active)
         /\ replayed' = FALSE
         /\ UNCHANGED <<vpp, reg, up, committed, rec, alarms, undone>>
BY DEF Begin

LEMMA ReadDoes ==
  ASSUME IInv, NEW op \in job.todo, ReadRegistered(op)
  PROVE  /\ job.phase = "run" /\ job'.phase = "read" /\ up
         /\ Due(CommitBefore, job.todo, op) /\ op.kind = "del-vrf"
         /\ job'.new = job.new /\ job'.todo = job.todo /\ job'.done = job.done
         /\ job'.held = reg.ifaces[op.obj]
         /\ UNCHANGED <<vpp, reg, up, committed, rec, alarms, overlap, trusted, undone, replayed>>
BY DEF ReadRegistered, IInv, TypeOK, Jobs

LEMMA EndOfCommit ==
  ASSUME IInv, End
  PROVE  /\ \/ job.phase = "run" /\ job.todo = {} /\ committed' = job.new
            \/ job.phase = "undo" /\ committed' = committed /\ job.done = << >>
         /\ job'.phase = "idle" /\ job'.done = << >>
         /\ UNCHANGED <<vpp, reg, up, rec, alarms, overlap, trusted, undone, replayed>>
BY DEF End, IInv, TypeOK, Jobs

\* A restart of VPP or of the process, or a new connection.
LEMMA RestartsDo ==
  ASSUME IInv, TrustInv, VppRestart \/ DaemonRestart \/ Reconnect
  PROVE  /\ committed' = committed /\ undone' = undone /\ ~trusted' /\ ~replayed'
         /\ \/ job' = job
            \/ job'.phase = "idle" /\ job'.done = << >>
         /\ \/ /\ reg' = reg /\ ~up' /\ rec'.todo = rec.todo /\ rec'.cfg = rec.cfg
               /\ rec'.failed = rec.failed /\ rec'.active = rec.active
               /\ overlap' = (overlap \/ rec.active)
            \/ /\ rec'.todo = {} /\ ~rec'.active
               /\ \E q \in {{}, reg.pending} : reg' = EmptyReg(q)
            \/ /\ ~up /\ vpp' = vpp /\ reg' = EmptyReg(reg.pending)
               /\ UNCHANGED <<rec, job, overlap, alarms>>
<1>1. CASE VppRestart
  BY <1>1 DEF VppRestart, IInv, TypeOK, Recs
<1>2. CASE DaemonRestart
  BY <1>2 DEF DaemonRestart, IdleJob, IdleRec, Holding
<1>3. CASE Reconnect
  BY <1>3 DEF Reconnect, TrustInv, IInv, AloneInv, TypeOK
<1> QED BY <1>1, <1>2, <1>3

\* The emptying of the registries.
LEMMA ResetDoes ==
  ASSUME IInv, NEW op \in rec.todo, RecoveryReset(op)
  PROVE  /\ op.kind = "reset" /\ reg' = EmptyReg(reg.pending) /\ rec.active
         /\ rec'.todo = rec.todo \ {op} /\ rec'.cfg = rec.cfg /\ rec'.failed = rec.failed
         /\ LeftoverOp \in rec.todo /\ LeftoverOp \in rec'.todo
         /\ UNCHANGED <<vpp, up, committed, job, alarms, overlap, trusted, undone, replayed>>
<1>1. /\ op.kind = "reset" /\ rec' = Done(op) /\ reg' = EmptyReg(reg.pending)
      /\ UNCHANGED <<vpp, up, committed, job, alarms, overlap, trusted, undone, replayed>>
  BY DEF RecoveryReset
<1>2. /\ rec'.todo = rec.todo \ {op} /\ rec'.cfg = rec.cfg /\ rec'.failed = rec.failed
      /\ rec.active
  BY <1>1 DEF Done, IInv, TypeOK, Recs
<1>3. LeftoverOp \in rec.todo
  BY <1>1 DEF IInv, AloneInv, Single
<1> QED BY <1>1, <1>2, <1>3 DEF LeftoverOp

\* The kinds of steps there are.
LEMMA NextIs ==
  ASSUME [Next]_vars
  PROVE  \/ \E new \in Cfg : Begin(new)
         \/ \E op \in job.todo : ReadRegistered(op)
         \/ \E op \in job.todo : RunOp(op)
         \/ UndoOp
         \/ TellDeletion \/ TellResidue
         \/ End
         \/ VppRestart \/ DaemonRestart \/ Reconnect
         \/ RecoveryBegin \/ Patrol
         \/ \E op \in rec.todo : RecoveryStep(op)
         \/ \E op \in rec.todo : RecoveryReset(op)
         \/ RetryStep
         \/ \E op \in rec.todo : RecoveryEnd(op)
         \/ UNCHANGED vars
BY DEF Next, Recovery, RetryStep

\* What history says of the present stays true,
LEMMA TrustStep ==
  ASSUME IInv, TrustInv, [Next]_vars
  PROVE  TrustInv'
<1>1. ASSUME NEW new \in Cfg, Begin(new)
      PROVE  TrustInv'
  BY <1>1, BeginDoes DEF TrustInv, IInv, TypeOK
<1>2. ASSUME NEW op \in job.todo, ReadRegistered(op)
      PROVE  TrustInv'
  BY <1>2, ReadDoes DEF TrustInv
<1>3. ASSUME NEW op \in job.todo, RunOp(op)
      PROVE  TrustInv'
  BY <1>3, RunOpDoes DEF TrustInv, Running, RunDoes
<1>4. CASE UndoOp
  BY <1>4, UndoOpDoes DEF TrustInv, UndoDoes
<1>13. CASE TellDeletion \/ TellResidue
  BY <1>13, TellsDo DEF TrustInv, TellDoes
<1>5. CASE End
  BY <1>5, EndOfCommit DEF TrustInv
<1>6. CASE VppRestart \/ DaemonRestart \/ Reconnect
  BY <1>6, RestartsDo DEF TrustInv
<1>7. CASE RecoveryBegin \/ Patrol
  <2>1. /\ rec'.cfg = committed /\ trusted' = (trusted /\ job.phase = "idle")
        /\ UNCHANGED <<up, committed, job, replayed>>
    BY <1>7, StartsDo DEF StartDoes
  <2>2. replayed => job.phase = "idle"
    BY DEF IInv, AloneInv
  <2> QED BY <2>1, <2>2 DEF TrustInv
<1>8. ASSUME NEW op \in rec.todo, RecoveryStep(op)
      PROVE  TrustInv'
  BY <1>8, RecoveryStepDoes DEF TrustInv, RecoveryDoes
<1>9. ASSUME NEW op \in rec.todo, RecoveryReset(op)
      PROVE  TrustInv'
  BY <1>9 DEF RecoveryReset, TrustInv, Done, IInv, TypeOK, Recs
<1>10. CASE RetryStep
  BY <1>10, RetryStepDoes DEF TrustInv, RetryDoes
<1>11. ASSUME NEW op \in rec.todo, RecoveryEnd(op)
       PROVE  TrustInv'
  BY <1>11, RecoveryEndDoes DEF EndDoes, TrustInv, IInv, AloneInv
<1>12. CASE UNCHANGED vars
  BY <1>12 DEF vars, TrustInv
<1> QED BY <1>1, <1>2, <1>3, <1>4, <1>5, <1>6, <1>7, <1>8, <1>9, <1>10, <1>11, <1>12, <1>13, NextIs

\* a commit has its plan before it and behind it,
LEMMA CommitStep ==
  ASSUME IInv, TrustInv, CommitInv, [Next]_vars
  PROVE  CommitInv'
<1>1. ASSUME NEW new \in Cfg, Begin(new)
      PROVE  CommitInv'
  <2>1. job'.done = << >>
    BY <1>1, BeginDoes
  <2>2. \A p : ~Did(p)'
    BY <2>1 DEF Did
  <2> QED BY <1>1, <2>2, BeginDoes DEF CommitInv, Running
<1>2. ASSUME NEW op \in job.todo, ReadRegistered(op)
      PROVE  CommitInv'
  <2>1. \A p \in job.todo : Due(CommitBefore, job.todo, p) /\ p.kind = "del-vrf" => p = op
    BY <1>2, ReadDoes DEF Due
  <2>2. \A p : Did(p)' <=> Did(p)
    BY <1>2, ReadDoes DEF Did
  <2> QED BY <1>2, <2>1, <2>2, ReadDoes DEF CommitInv, Running
<1>3. ASSUME NEW op \in job.todo, RunOp(op)
      PROVE  CommitInv'
  <2>1. PICK o \in Answer : Running /\ RunDoes(op, o)
    BY <1>3, RunOpDoes
  <2>2. \A p : Did(p)' <=> Did(p) \/ (p = op /\ (o.ok \/ op.kind \in {"vrf", "del-vrf"}))
    BY <2>1 DEF RunDoes
  <2> QED BY <2>1, <2>2 DEF CommitInv, Running, RunDoes
<1>4. CASE UndoOp
  BY <1>4, UndoOpDoes DEF CommitInv, UndoDoes, Running
<1>14. CASE TellDeletion \/ TellResidue
  BY <1>14, TellsDo DEF CommitInv, TellDoes, Running
<1>5. CASE End
  BY <1>5, EndOfCommit DEF CommitInv, Running
<1>6. CASE /\ UNCHANGED <<job, committed>>
           /\ \/ ~trusted'
              \/ trusted /\ reg'.ifaces = reg.ifaces
              \/ job.phase = "idle"
  BY <1>6 DEF CommitInv, Running, Did
<1>7. CASE VppRestart \/ DaemonRestart \/ Reconnect
  BY <1>6, <1>7, RestartsDo DEF CommitInv, Running
<1>8. CASE RecoveryBegin \/ Patrol
  BY <1>6, <1>8, StartsDo DEF StartDoes
<1>9. ASSUME NEW op \in rec.todo, RecoveryStep(op)
      PROVE  CommitInv'
  BY <1>6, <1>9, RecoveryStepDoes DEF RecoveryDoes, TrustInv, IInv, TypeOK
<1>10. ASSUME NEW op \in rec.todo, RecoveryReset(op)
       PROVE  CommitInv'
  BY <1>6, <1>10, ResetDoes DEF TrustInv, IInv, TypeOK
<1>11. CASE RetryStep
  BY <1>6, <1>11, RetryStepDoes DEF RetryDoes, IInv, TypeOK
<1>12. ASSUME NEW op \in rec.todo, RecoveryEnd(op)
       PROVE  CommitInv'
  BY <1>6, <1>12, RecoveryEndDoes DEF EndDoes, IInv, AloneInv
<1>13. CASE UNCHANGED vars
  BY <1>6, <1>13 DEF vars, IInv, TypeOK
<1> QED BY <1>1, <1>2, <1>3, <1>4, <1>5, <1>7, <1>8, <1>9, <1>10, <1>11, <1>12, <1>13, <1>14,
           NextIs

\* and no port is registered with two VRFs.
LEMMA PortsStep ==
  ASSUME IInv, TrustInv, OnePort(reg), [Next]_vars
  PROVE  OnePort(reg')
<1>1. CASE reg'.ifaces = reg.ifaces
  BY <1>1 DEF OnePort
<1>2. CASE \E q : reg' = EmptyReg(q)
  BY <1>2 DEF OnePort, EmptyReg
<1>3. ASSUME NEW new \in Cfg, Begin(new)
      PROVE  OnePort(reg')
  BY <1>1, <1>3, BeginDoes
<1>4. ASSUME NEW op \in job.todo, ReadRegistered(op)
      PROVE  OnePort(reg')
  BY <1>1, <1>4, ReadDoes
<1>5. ASSUME NEW op \in job.todo, RunOp(op)
      PROVE  OnePort(reg')
  <2>1. PICK o \in Answer : RunDoes(op, o) /\ Sound(op, job.new)
    BY <1>5, RunOpDoes DEF Sound
  <2> QED BY <2>1, PortsKept DEF RunDoes
<1>6. CASE UndoOp
  <2>1. PICK op \in Op, un \in Op : \E held \in SUBSET Iface : \E o \in Answer :
          CommitOp(op) /\ CommitOp(un) /\ UndoDoes(op, un, held, o)
    BY <1>6, UndoOpDoes
  <2>2. PICK held \in SUBSET Iface, o \in Answer :
          Sound(un, committed) /\ UndoDoes(op, un, held, o)
    BY <2>1 DEF Sound
  <2> QED BY <2>2, PortsKept DEF UndoDoes
<1>7. CASE End
  BY <1>1, <1>7, EndOfCommit
<1>8. CASE VppRestart \/ DaemonRestart \/ Reconnect
  BY <1>1, <1>2, <1>8, RestartsDo
<1>9. CASE RecoveryBegin \/ Patrol
  BY <1>1, <1>9, StartsDo DEF StartDoes
<1>10. ASSUME NEW op \in rec.todo, RecoveryStep(op)
       PROVE  OnePort(reg')
  <2>1. PICK o \in Answer : RecoveryDoes(op, o) /\ Sound(op, rec.cfg)
    BY <1>10, RecoveryStepDoes
  <2> QED BY <2>1, PortsKept DEF RecoveryDoes
<1>11. ASSUME NEW op \in rec.todo, RecoveryReset(op)
       PROVE  OnePort(reg')
  BY <1>2, <1>11, ResetDoes
<1>12. CASE RetryStep
  BY <1>1, <1>12, RetryStepDoes DEF RetryDoes
<1>15. CASE TellDeletion \/ TellResidue
  BY <1>1, <1>15, TellsDo DEF TellDoes
<1>13. ASSUME NEW op \in rec.todo, RecoveryEnd(op)
       PROVE  OnePort(reg')
  BY <1>1, <1>13, RecoveryEndDoes DEF EndDoes
<1>14. CASE UNCHANGED vars
  BY <1>1, <1>14 DEF vars
<1> QED BY <1>3, <1>4, <1>5, <1>6, <1>7, <1>8, <1>9, <1>10, <1>11, <1>12, <1>13, <1>14, <1>15,
           NextIs

-----------------------------------------------------------------------------
(* The VRFs *)

\* What is known of a plan and of the configurations.
LEMMA OpIs ==
  ASSUME NEW op \in Op
  PROVE  /\ \A t : op = VrfOp(t) <=> op.kind = "vrf" /\ op.obj = t
         /\ \A t : op = DelVrfOp(t) <=> op.kind = "del-vrf" /\ op.obj = t
         /\ \A i : op = VnicOp(i) <=> op.kind = "vnic" /\ op.obj = i
BY DEF Op, VrfOp, DelVrfOp, VnicOp

LEMMA Planned ==
  ASSUME NEW old \in Config, NEW new \in Config
  PROVE  /\ \A t : VrfOp(t) \in Plan(old, new) <=>
              t \in new.vrfs /\ (new.l3[t] # old.l3[t] \/ t \notin old.vrfs)
         /\ \A t : DelVrfOp(t) \in Plan(old, new) <=> t \in old.vrfs /\ t \notin new.vrfs
         /\ \A i : VnicOp(i) \in Plan(old, new) <=>
              i \in new.ports /\ (i \notin old.ports \/ old.home[i] # new.home[i])
         /\ \A op \in Plan(old, new) :
              op.kind = "del-vnic" => op.obj \in old.ports /\ op.obj \notin new.ports
<1> DEFINE changed(t) == new.l3[t] # old.l3[t] \/ t \notin old.vrfs
           moved(i)   == i \notin old.ports \/ old.home[i] # new.home[i]
<1>1. \A op : op \in Plan(old, new) <=>
        \/ op \in [kind : {"vnic"}, obj : {i \in new.ports : moved(i)}]
        \/ op \in [kind : {"vrf"}, obj : {t \in new.vrfs : changed(t)}]
        \/ op \in [kind : {"nat"}, obj : IF old.nat = new.nat THEN {} ELSE {None}]
        \/ op \in [kind : {"del-vrf"}, obj : old.vrfs \ new.vrfs]
        \/ op \in [kind : {"del-vnic"}, obj : old.ports \ new.ports]
  BY DEF Plan
<1>2. \A t : VrfOp(t) \in Plan(old, new) <=> t \in new.vrfs /\ changed(t)
  <2> HIDE DEF changed, moved
  <2> QED BY <1>1 DEF VrfOp
<1>3. \A t : DelVrfOp(t) \in Plan(old, new) <=> t \in old.vrfs /\ t \notin new.vrfs
  <2> HIDE DEF changed, moved
  <2> QED BY <1>1 DEF DelVrfOp
<1>4. \A i : VnicOp(i) \in Plan(old, new) <=> i \in new.ports /\ moved(i)
  <2> HIDE DEF changed, moved
  <2> QED BY <1>1 DEF VnicOp
<1>5. \A op \in Plan(old, new) :
        op.kind = "del-vnic" => op.obj \in old.ports /\ op.obj \notin new.ports
  <2> HIDE DEF changed, moved
  <2> QED BY <1>1
<1> QED BY <1>2, <1>3, <1>4, <1>5

\* In a configuration an interface has one VRF, and a vNIC of one is declared.
LEMMA Apportioned ==
  ASSUME NEW c \in Cfg
  PROVE  /\ c \in Config
         /\ \A t, u \in Table : t # u => c.l3[t] \cap c.l3[u] = {}
         /\ \A t \in Table : c.l3[t] \subseteq Iface /\ \A i \in c.l3[t] : i \in Vnic => i \in c.ports
         /\ c.vrfs \subseteq Table /\ c.ports \subseteq Vnic
         /\ \A i \in Vnic : c.home[i] \in Table \cup {None}
BY RoutingAssumption DEF Config

\* A VRF the recovery has restored stays restored: the operations of a recovery are
\* those of one configuration.
LEMMA RestoredStep ==
  ASSUME IInv, TrustInv, RestoredInv, [Next]_vars
  PROVE  RestoredInv'
<1> USE DEF IInv
<1>1. CASE ~(LeftoverOp \in rec'.todo /\ ~overlap')
  BY <1>1 DEF RestoredInv
<1>2. LeftoverOp \in rec.todo => rec.active /\ (overlap \/ job.phase = "idle")
  BY DEF TypeOK, AloneInv
<1>3. ASSUME NEW new \in Cfg, Begin(new)
      PROVE  RestoredInv'
  BY <1>1, <1>2, <1>3, BeginDoes DEF TypeOK
<1>4. ASSUME NEW op \in job.todo, ReadRegistered(op)
      PROVE  RestoredInv'
  BY <1>1, <1>2, <1>4, ReadDoes
<1>5. ASSUME NEW op \in job.todo, RunOp(op)
      PROVE  RestoredInv'
  BY <1>1, <1>2, <1>5, RunOpDoes DEF RunDoes, Running
<1>6. CASE UndoOp
  BY <1>1, <1>2, <1>6, UndoOpDoes DEF UndoDoes
<1>7. CASE End
  BY <1>1, <1>2, <1>7, EndOfCommit
<1>8. CASE VppRestart \/ DaemonRestart \/ Reconnect
  <2>1. CASE ~up /\ UNCHANGED <<rec, overlap>>
    BY <2>1 DEF RestoredInv, ResetDone
  <2>2. CASE overlap' = (overlap \/ rec.active) /\ rec'.todo = rec.todo
    BY <1>1, <1>2, <2>2
  <2> QED BY <1>1, <1>2, <1>8, <2>1, <2>2, RestartsDo
<1>9. CASE RecoveryBegin \/ Patrol
  <2>1. CASE rec'.todo = Replay(committed)
    <3>1. \A t \in committed.vrfs : VrfOp(t) \in Replay(committed)
      <4>1. \A t \in committed.vrfs : VrfOp(t) \in [kind : {"vrf", "register"}, obj : committed.vrfs]
        BY DEF VrfOp
      <4> QED BY <4>1 DEF Replay
    <3> QED BY <1>9, <2>1, <3>1, StartsDo DEF StartDoes, RestoredInv
  <2>2. CASE rec'.todo = Single("retry")
    BY <1>1, <2>2 DEF Single, LeftoverOp
  <2> QED BY <1>9, <2>1, <2>2, StartsDo DEF StartDoes
<1>10. ASSUME NEW op \in rec.todo, RecoveryStep(op)
       PROVE  RestoredInv'
  <2>1. PICK o \in Answer : RecoveryDoes(op, o)
    BY <1>10, RecoveryStepDoes
  <2>2. /\ Sound(op, rec.cfg) /\ op \in Replay(rec.cfg) /\ ResetDone /\ ResetDone'
        /\ LeftoverOp \in rec.todo
        /\ op.kind \in {"vnic", "vrf", "register", "set-table", "nat"}
    BY <1>10, RecoveryStepDoes
  <2>3. rec.cfg \in Cfg /\ rec.cfg \in Config /\ vpp \in Vpps /\ reg \in Regs
    BY ConfigsTyped DEF TypeOK, Recs
  <2>4. op \in Op
    BY <2>2, <2>3, ReplaySound
  <2>5. ASSUME ~overlap, NEW t \in rec.cfg.vrfs
        PROVE  \/ VrfOp(t) \in rec'.todo
               \/ VrfOp(t) \in rec'.failed
               \/ up /\ Placed(vpp', reg', rec.cfg, t)
    <3>1. t \in Table
      BY <2>3, <2>5, Apportioned
    <3>2. CASE op = VrfOp(t)
      <4>1. op.kind = "vrf" /\ op.obj = t
        BY <2>4, <3>2, OpIs
      <4> QED BY <2>1, <3>2, <4>1, PlacedMade DEF RecoveryDoes
    <3>3. CASE op # VrfOp(t) /\ VrfOp(t) \in rec.todo
      BY <2>1, <3>3 DEF RecoveryDoes
    <3>4. CASE VrfOp(t) \in rec.failed
      BY <2>1, <3>4 DEF RecoveryDoes
    <3>5. CASE op # VrfOp(t) /\ up /\ Placed(vpp, reg, rec.cfg, t)
      <4>1. op.kind = "vrf" => op.obj # t
        BY <2>4, <3>5, OpIs
      <4>2. op.kind \in {"vrf", "register"} => op.obj \in Table
        BY <2>2 DEF Sound, CommitOp, CommitKind
      <4>3. Spares(op, rec.cfg, {}, rec.cfg, t)
        BY <2>2, <2>3, <3>1, <4>1, <4>2, Apportioned DEF Spares
      <4>4. {} \in SUBSET Iface
        OBVIOUS
      <4>5. Effects(vpp, reg, op, rec.cfg, {}, o) /\ vpp' = o.vpp /\ reg' = o.reg
        BY <2>1 DEF RecoveryDoes
      <4> QED BY <2>2, <2>3, <3>1, <3>5, <4>3, <4>4, <4>5, PlacedKept
    <3> QED BY <2>2, <2>5, <3>2, <3>3, <3>4, <3>5 DEF RestoredInv
  <2> QED BY <2>1, <2>2, <2>5 DEF RecoveryDoes, RestoredInv
<1>11. ASSUME NEW op \in rec.todo, RecoveryReset(op)
       PROVE  RestoredInv'
  <2>1. ~ResetDone /\ \A t : VrfOp(t) # op
    BY <1>11, ResetDoes DEF ResetDone, VrfOp
  <2> QED BY <1>11, <2>1, ResetDoes DEF RestoredInv
<1>15. CASE TellDeletion \/ TellResidue
  BY <1>1, <1>2, <1>15, TellsDo DEF TellDoes
<1>12. CASE RetryStep
  <2>1. RetryDoes
    BY <1>12, RetryStepDoes
  <2>4. /\ \A t : VrfOp(t) \in rec.todo => VrfOp(t) \in rec'.todo
        /\ LeftoverOp \in rec'.todo => LeftoverOp \in rec.todo
    BY <2>1 DEF RetryDoes, VrfOp
  <2>2. ResetDone => ResetDone'
    BY <2>1 DEF RetryDoes, ResetDone
  <2>3. \A t \in rec.cfg.vrfs :
          Placed(vpp, reg, rec.cfg, t) => Placed(vpp', reg', rec.cfg, t)
    BY <2>1, RetryPlaced, ConfigsTyped
  <2> QED BY <2>1, <2>2, <2>3, <2>4 DEF RetryDoes, RestoredInv
<1>13. ASSUME NEW op \in rec.todo, RecoveryEnd(op)
       PROVE  RestoredInv'
  BY <1>1, <1>13, RecoveryEndDoes DEF EndDoes
<1>14. CASE UNCHANGED vars
  BY <1>14 DEF vars, RestoredInv, ResetDone, Placed
<1> QED BY <1>3, <1>4, <1>5, <1>6, <1>7, <1>8, <1>9, <1>10, <1>11, <1>12, <1>13, <1>14, <1>15,
           NextIs

\* The order of a commit: a vNIC is given its switch before a VRF is applied, and its
\* VRF is changed or deleted before it is removed.
LEMMA CommitOrdered ==
  ASSUME IInv, CommitInv, Running, NEW op \in job.todo, Due(CommitBefore, job.todo, op)
  PROVE  /\ op \in Plan(committed, job.new)
         /\ op.kind = "vrf" => \A i : VnicOp(i) \notin job.todo
         /\ op.kind = "del-vnic" =>
              /\ op.obj \notin job.new.ports
              /\ \A t \in Table : op.obj \in committed.l3[t] /\ t \in committed.vrfs => DidVrf(t)
<1>1. committed \in Cfg /\ job.new \in Cfg /\ committed \in Config /\ job.new \in Config
  BY ConfigsTyped DEF IInv, TypeOK, Jobs
<1>2. op \in Plan(committed, job.new)
  BY DEF CommitInv
<1>3. ASSUME op.kind = "vrf", NEW i
      PROVE  VnicOp(i) \notin job.todo
  BY <1>3, Orders DEF Due, VnicOp
<1>4. ASSUME op.kind = "del-vnic"
      PROVE  op.obj \notin job.new.ports
  BY <1>1, <1>2, <1>4, Planned
<1>5. ASSUME op.kind = "del-vnic", NEW t \in Table, op.obj \in committed.l3[t], t \in committed.vrfs
      PROVE  DidVrf(t)
  <2>1. op.obj \in Vnic
    BY <1>5 DEF IInv, ShapeInv, CommitOp
  <2>2. op.obj \notin job.new.l3[t]
    BY <1>1, <1>4, <1>5, <2>1, Apportioned
  <2>3. VrfOp(t) \in Plan(committed, job.new) \/ DelVrfOp(t) \in Plan(committed, job.new)
    BY <1>1, <1>5, <2>2, Planned
  <2>4. VrfOp(t) \notin job.todo /\ DelVrfOp(t) \notin job.todo
    BY <1>5, Orders DEF Due, VrfOp, DelVrfOp
  <2> QED BY <2>3, <2>4 DEF CommitInv, DidVrf
<1> QED BY <1>2, <1>3, <1>4, <1>5

\* What a deletion takes is no interface of a VRF that is in place.
LEMMA HeldApart ==
  ASSUME IInv, CommitInv, OnePort(reg), Exclusive(reg), trusted, job.phase = "read",
         NEW op \in job.todo, Due(CommitBefore, job.todo, op), op.kind = "del-vrf",
         NEW c \in Config, NEW t \in Table, t # op.obj, Placed(vpp, reg, c, t)
  PROVE  job.held \cap c.l3[t] = {}
<1>1. op.obj \in Table
  BY DEF IInv, ShapeInv, CommitOp
<1>2. job.held \subseteq reg.ifaces[op.obj]
  BY DEF CommitInv
<1>3. \A i \in c.l3[t] : i \in Iface /\ i \in reg.ifaces[t]
  BY DEF Placed, Config
<1> QED BY <1>1, <1>2, <1>3 DEF OnePort, Exclusive

\* A VRF in place stays in place, or becomes the one the commit asks for.
LEMMA PlacedStep ==
  ASSUME IInv, VInv, [Next]_vars
  PROVE  PlacedInv'
<1> USE DEF IInv, VInv
<1>1. replayed => job.phase = "idle"
  BY DEF AloneInv
<1>2. committed \in Cfg /\ job.new \in Cfg /\ rec.cfg \in Cfg /\ vpp \in Vpps /\ reg \in Regs
  BY DEF TypeOK, Jobs, Recs
<1>3. committed \in Config /\ job.new \in Config /\ rec.cfg \in Config
  BY ConfigsTyped
<1>4. CASE LeftoverOp \in rec'.todo \/ ~(trusted' \/ replayed')
  BY <1>4 DEF PlacedInv
<1>5. ASSUME NEW new \in Cfg, Begin(new)
      PROVE  PlacedInv'
  <2>1. /\ job.phase = "idle" /\ job'.phase = "run" /\ job'.new = new /\ new \in Config
        /\ job'.todo = Plan(committed, new) /\ job'.done = << >>
        /\ trusted' = (trusted /\ ~rec.active) /\ ~replayed'
        /\ UNCHANGED <<vpp, reg, committed, rec, alarms, undone>>
    BY <1>5, BeginDoes, Apportioned
  <2>2. \A t : ~DidVrf(t)
    BY <2>1 DEF TrustInv, DidVrf, Did
  <2>3. ASSUME trusted', ~undone', LeftoverOp \notin rec'.todo, AllHomed
        PROVE  \A t \in committed.vrfs : Kept(committed, t)
    BY <2>1, <2>2, <2>3 DEF PlacedInv
  <2>4. ASSUME NEW t \in new.vrfs, VrfOp(t) \notin Plan(committed, new)
        PROVE  t \in committed.vrfs /\ (Kept(committed, t) => Kept(new, t))
    <3>1. t \in committed.vrfs /\ new.l3[t] = committed.l3[t]
      BY <1>3, <2>1, <2>4, Planned
    <3> QED BY <3>1 DEF Kept, Placed
  <2>5. \A c, t : Kept(c, t)' <=> VrfOp(t) \in alarms.recovery \/ Placed(vpp, reg, c, t)
    BY <2>1 DEF Kept, Placed
  <2> QED BY <2>1, <2>3, <2>4, <2>5 DEF PlacedInv, Kept
<1>6. ASSUME NEW op \in job.todo, ReadRegistered(op)
      PROVE  PlacedInv'
  BY <1>6, ReadDoes DEF PlacedInv, Running, DidVrf, Did, Kept, Placed
<1>7. ASSUME NEW op \in job.todo, RunOp(op)
      PROVE  PlacedInv'
  <2>1. PICK o \in Answer : RunDoes(op, o)
    BY <1>7, RunOpDoes
  <2>2. /\ Running /\ Due(CommitBefore, job.todo, op) /\ CommitOp(op) /\ op \in Op
        /\ op.kind = "del-vrf" /\ up => job.phase = "read"
    BY <1>7, RunOpDoes DEF CommitOp
  <2>3. /\ Effects(vpp, reg, op, job.new, job.held, o) /\ vpp' = o.vpp /\ reg' = o.reg
        /\ job'.todo = (IF o.ok THEN job.todo \ {op} ELSE {}) /\ job'.new = job.new
        /\ job'.phase \in (IF o.ok THEN {"run", "kept", "dropped"} ELSE {"undo"})
        /\ \A p : Did(p)' <=> Did(p) \/ (p = op /\ (o.ok \/ op.kind \in {"vrf", "del-vrf"}))
        /\ alarms'.recovery = alarms.recovery
        /\ UNCHANGED <<committed, rec, trusted, undone, replayed>>
    BY <2>1 DEF RunDoes
  <2> SUFFICES ASSUME trusted, ~undone, LeftoverOp \notin rec.todo, AllHomed
               PROVE  /\ (\A t \in Table : ~DidVrf(t)') =>
                           \A t \in committed.vrfs : Kept(committed, t)'
                      /\ Running' => \A t \in job.new.vrfs :
                           VrfOp(t) \notin job'.todo => Kept(job.new, t)'
    BY <1>1, <2>2, <2>3 DEF PlacedInv, Running
  <2>4. Sound(op, job.new) /\ job.held \in SUBSET Iface
    BY <2>2 DEF Sound, TypeOK, Jobs
  <2>5. \A c \in Config : \A t \in Table : Spares(op, job.new, job.held, c, t) =>
          (Kept(c, t) => Kept(c, t)')
    <3> TAKE c \in Config
    <3> TAKE t \in Table
    <3>1. Spares(op, job.new, job.held, c, t) /\ Placed(vpp, reg, c, t) => Placed(vpp', reg', c, t)
      BY <1>2, <1>3, <2>3, <2>4, PlacedKept
    <3> QED BY <2>3, <3>1 DEF Kept
  <2>6. ASSUME \A t \in Table : ~DidVrf(t)', NEW t \in committed.vrfs
        PROVE  Kept(committed, t)'
    <3>1. t \in Table /\ \A u \in Table : ~DidVrf(u)
      BY <1>2, <2>3, <2>6, Apportioned DEF DidVrf
    <3>2. op.kind \notin {"vrf", "del-vrf"}
      BY <2>2, <2>3, <2>6, OpIs DEF DidVrf, CommitOp
    <3>3. Kept(committed, t)
      BY <2>6, <3>1 DEF PlacedInv
    <3>4. op.kind = "del-vnic" => op.obj \notin committed.l3[t]
      BY <2>2, <2>6, <3>1, CommitOrdered
    <3>5. Spares(op, job.new, job.held, committed, t)
      BY <2>2, <3>2, <3>4 DEF Spares, CommitOp, CommitKind
    <3> QED BY <1>3, <2>3, <2>5, <3>1, <3>3, <3>5
  <2>7. ASSUME o.ok, NEW t \in job.new.vrfs, VrfOp(t) \notin job.todo \ {op}
        PROVE  Kept(job.new, t)'
    <3>1. t \in Table
      BY <1>2, <2>7, Apportioned
    <3>2. CASE op = VrfOp(t)
      <4>1. op.kind = "vrf" /\ op.obj = t
        BY <2>2, <3>2, OpIs
      <4>2. Placed(vpp', reg', job.new, t)
        BY <2>3, <2>7, <4>1, PlacedMade
      <4> QED BY <2>3, <4>2 DEF Kept
    <3>3. CASE op # VrfOp(t)
      <4>1. Kept(job.new, t)
        BY <2>2, <2>7, <3>3 DEF PlacedInv
      <4>2. CASE VrfOp(t) \in alarms.recovery
        BY <2>3, <4>2 DEF Kept
      <4>3. CASE Placed(vpp, reg, job.new, t)
        <5>1. op.kind = "vrf" => op.obj # t /\ op.obj \in Table
          BY <2>2, <3>3, OpIs DEF CommitOp
        <5>2. op.kind = "del-vnic" => op.obj \notin job.new.l3[t]
          BY <1>2, <2>2, <3>1, CommitOrdered, Apportioned DEF CommitOp
        <5>3. ASSUME op.kind = "del-vrf"
              PROVE  op.obj # t /\ job.held \cap job.new.l3[t] = {}
          <6>1. op.obj # t
            BY <1>3, <2>2, <2>7, <5>3, OpIs, CommitOrdered, Planned
          <6>2. job.phase = "read" /\ Exclusive(reg)
            BY <2>2, <5>3 DEF TrustInv, DomainInv, Sure
          <6> QED BY <1>3, <2>2, <3>1, <4>3, <5>3, <6>1, <6>2, HeldApart
        <5>4. Spares(op, job.new, job.held, job.new, t)
          BY <1>2, <2>2, <3>1, <5>1, <5>2, <5>3, Apportioned DEF Spares, CommitOp, CommitKind
        <5> QED BY <1>3, <2>3, <2>5, <3>1, <4>1, <5>4
      <4> QED BY <4>1, <4>2, <4>3 DEF Kept
    <3> QED BY <3>2, <3>3
  <2> QED BY <2>3, <2>6, <2>7 DEF Running
<1>8. CASE UndoOp
  <2>1. PICK op \in Op, un \in Op : \E held \in SUBSET Iface : \E o \in Answer :
          CommitOp(op) /\ CommitOp(un) /\ UndoDoes(op, un, held, o)
    BY <1>8, UndoOpDoes
  <2>2. PICK held \in SUBSET Iface, o \in Answer : UndoDoes(op, un, held, o)
    BY <2>1
  <2>3. /\ Effects(vpp, reg, un, committed, held, o) /\ vpp' = o.vpp /\ reg' = o.reg
        /\ un = Inverse(op) /\ job.phase = "undo" /\ job'.phase \in {"undo", "residue"}
        /\ \A p : Did(p) <=> Did(p)' \/ p = op
        /\ undone' = (undone \/ ~o.ok \/ op.kind \in {"vrf", "del-vrf"})
        /\ UNCHANGED <<alarms, committed, rec, trusted, replayed>>
    BY <2>2 DEF UndoDoes
  <2> SUFFICES ASSUME trusted, ~undone, op.kind \notin {"vrf", "del-vrf"},
                      LeftoverOp \notin rec.todo, AllHomed,
                      \A t \in Table : ~DidVrf(t)', NEW t \in committed.vrfs
               PROVE  Kept(committed, t)'
    BY <1>1, <2>3 DEF PlacedInv, Running
  <2>4. t \in Table /\ Sound(un, committed)
    BY <1>2, <2>1, Apportioned DEF Sound
  <2>5. \A u : op # VrfOp(u) /\ op # DelVrfOp(u)
    BY DEF VrfOp, DelVrfOp
  <2>6. Kept(committed, t)
    BY <2>3, <2>5 DEF PlacedInv, DidVrf
  <2>7. /\ un.kind \notin {"vrf", "del-vrf", "register"}
        /\ un.kind = "del-vnic" => un.obj \notin committed.ports
    BY <2>1, <2>3 DEF Inverse, CommitOp, CommitKind
  <2>8. Spares(un, committed, held, committed, t)
    BY <1>2, <2>1, <2>4, <2>7, Apportioned DEF Spares, CommitOp
  <2>9. Placed(vpp, reg, committed, t) => Placed(vpp', reg', committed, t)
    BY <1>2, <1>3, <2>3, <2>4, <2>8, PlacedKept
  <2> QED BY <2>3, <2>6, <2>9 DEF Kept
<1>9. CASE End
  <2>1. /\ \/ job.phase = "run" /\ job.todo = {} /\ committed' = job.new
           \/ job.phase = "undo" /\ committed' = committed /\ job.done = << >>
        /\ job'.phase = "idle" /\ UNCHANGED <<vpp, reg, rec, alarms, trusted, undone, replayed>>
    BY <1>9, EndOfCommit
  <2>2. \A c, t : Kept(c, t)' <=> VrfOp(t) \in alarms.recovery \/ Placed(vpp, reg, c, t)
    BY <2>1 DEF Kept, Placed
  <2>3. job.done = << >> => \A t : ~DidVrf(t)
    BY DEF DidVrf, Did
  <2> QED BY <1>1, <2>1, <2>2, <2>3 DEF PlacedInv, Running, Kept
<1>10. CASE VppRestart \/ DaemonRestart \/ Reconnect
  BY <1>4, <1>10, RestartsDo
<1>11. CASE RecoveryBegin \/ Patrol
  <2>1. CASE rec'.todo = Replay(committed)
    BY <1>3, <1>4, <2>1, ReplayHas
  <2>2. CASE rec'.todo = Single("retry")
    <3>1. LeftoverOp \notin rec.todo
      BY <1>11, StartsDo DEF StartDoes, TypeOK
    <3>2. /\ trusted' => trusted
          /\ UNCHANGED <<vpp, reg, committed, job, alarms, undone, replayed>>
      BY <1>11, StartsDo DEF StartDoes, TypeOK
    <3> QED BY <3>1, <3>2 DEF PlacedInv, Running, Kept, Placed, DidVrf, Did
  <2> QED BY <1>11, <2>1, <2>2, StartsDo DEF StartDoes
<1>12. ASSUME NEW op \in rec.todo, RecoveryStep(op)
       PROVE  PlacedInv'
  BY <1>4, <1>12, RecoveryStepDoes
<1>13. ASSUME NEW op \in rec.todo, RecoveryReset(op)
       PROVE  PlacedInv'
  BY <1>4, <1>13, ResetDoes
<1>14. CASE RetryStep
  <2>1. RetryDoes
    BY <1>14, RetryStepDoes
  <2>2. /\ LeftoverOp \in rec'.todo <=> LeftoverOp \in rec.todo
        /\ trusted' => trusted
        /\ alarms'.recovery = alarms.recovery
        /\ UNCHANGED <<committed, job, undone, replayed>>
    BY <2>1 DEF RetryDoes, LeftoverOp
  <2>3. trusted \/ replayed => rec.cfg = committed /\ job.phase = "idle"
    BY <2>1 DEF TrustInv, RetryDoes
  <2>4. ASSUME NEW t \in rec.cfg.vrfs, Kept(rec.cfg, t)
        PROVE  Kept(rec.cfg, t)'
    <3>1. Placed(vpp, reg, rec.cfg, t) => Placed(vpp', reg', rec.cfg, t)
      BY <1>3, <2>1, RetryPlaced
    <3>2. rec'.cfg = rec.cfg
      BY <2>1 DEF RetryDoes
    <3> QED BY <2>2, <2>4, <3>1, <3>2 DEF Kept
  <2>5. rec'.cfg = rec.cfg
    BY <2>1 DEF RetryDoes
  <2> QED BY <2>2, <2>3, <2>4, <2>5 DEF PlacedInv, Running, DidVrf, Did
<1>15. ASSUME NEW op \in rec.todo, RecoveryEnd(op)
       PROVE  PlacedInv'
  <2>1. EndDoes
    BY <1>15, RecoveryEndDoes
  <2>2. CASE up /\ ~overlap
    <3>1. job.phase = "idle" /\ rec.cfg = committed
      BY <2>1, <2>2 DEF EndDoes, AloneInv
    <3>2. \A t : VrfOp(t) \notin rec.todo
      BY <2>1 DEF EndDoes, VrfOp, LeftoverOp
    <3>3. \A t \in committed.vrfs : VrfOp(t) \in rec.failed \/ Placed(vpp, reg, committed, t)
      BY <2>1, <2>2, <3>1, <3>2 DEF EndDoes, RestoredInv
    <3>4. \A t \in committed.vrfs : Kept(committed, t)'
      BY <2>1, <3>3 DEF EndDoes, Kept, Placed
    <3> QED BY <2>1, <3>1, <3>4 DEF EndDoes, PlacedInv, Running
  <2> QED BY <1>4, <2>1, <2>2 DEF EndDoes
<1>16. CASE UNCHANGED vars
  BY <1>16 DEF vars, PlacedInv, Running, Kept, Placed, DidVrf, Did
<1>17. CASE TellDeletion \/ TellResidue
  <2>1. TellDoes
    BY <1>17, TellsDo
  <2>2. /\ ~replayed'
        /\ UNCHANGED <<vpp, reg, committed, rec, trusted, undone>>
        /\ alarms'.recovery = alarms.recovery /\ job'.new = job.new
    BY <1>1, <2>1 DEF TellDoes
  <2>3. \A c, t : Kept(c, t)' <=> VrfOp(t) \in alarms.recovery \/ Placed(vpp, reg, c, t)
    BY <2>2 DEF Kept, Placed
  <2>4. CASE Running /\ job'.todo = job.todo /\ \A p : Did(p)' <=> Did(p)
    BY <2>2, <2>3, <2>4 DEF PlacedInv, DidVrf, Kept
  <2>5. CASE job.phase = "residue"
    BY <2>2, <2>5 DEF PlacedInv, TrustInv
  <2> QED BY <2>1, <2>4, <2>5 DEF TellDoes, Running
<1> QED BY <1>5, <1>6, <1>7, <1>8, <1>9, <1>10, <1>11, <1>12, <1>13, <1>14, <1>15, <1>16, <1>17,
           NextIs

\* A port that is where a VRF has it is registered with that VRF only, or an alarm tells.
LEMMA SoleStep ==
  ASSUME IInv, VInv, [Next]_vars
  PROVE  SoleInv'
<1> USE DEF IInv, VInv
<1>1. /\ committed \in Cfg /\ job.new \in Cfg /\ rec.cfg \in Cfg
      /\ vpp \in Vpps /\ reg \in Regs /\ alarms \in Alarms
  BY DEF TypeOK, Jobs, Recs
<1>2. committed \in Config /\ job.new \in Config /\ rec.cfg \in Config
  BY ConfigsTyped
<1>3. CASE LeftoverOp \in rec'.todo \/ ~trusted'
  BY <1>3 DEF SoleInv
<1>4. ASSUME NEW new \in Cfg, Begin(new)
      PROVE  SoleInv'
  <2>1. /\ job.phase = "idle" /\ job'.phase = "run" /\ job'.new = new /\ new \in Config
        /\ job'.todo = Plan(committed, new) /\ job'.done = << >>
        /\ trusted' = (trusted /\ ~rec.active)
        /\ UNCHANGED <<vpp, reg, committed, rec, alarms, undone>>
    BY <1>4, BeginDoes, Apportioned
  <2>2. \A t : ~DidVrf(t)
    BY <2>1 DEF TrustInv, DidVrf, Did
  <2>3. ASSUME trusted', LeftoverOp \notin rec'.todo
        PROVE  \A t \in committed.vrfs : Told(t) \/ Sole(committed, t)
    BY <2>1, <2>2, <2>3 DEF SoleInv
  <2>4. ASSUME NEW t \in new.vrfs, VrfOp(t) \notin Plan(committed, new)
        PROVE  t \in committed.vrfs /\ new.l3[t] = committed.l3[t]
    BY <1>2, <2>1, <2>4, Planned
  <2>5. \A t : Told(t)' <=> Told(t)
    BY <2>1 DEF Told
  <2>6. \A c, t : Sole(c, t)' <=> \A i \in c.l3[t] \ Vnic : SoleIn(vpp, reg, i, t)
    BY <2>1 DEF Sole, SoleIn
  <2> SUFFICES ASSUME trusted', LeftoverOp \notin rec'.todo
               PROVE  /\ \A t \in committed.vrfs : Told(t)' \/ Sole(committed, t)'
                      /\ \A t \in new.vrfs :
                           VrfOp(t) \in job'.todo \/ Told(t)' \/ Sole(job.new, t)'
    <3>1. committed' = committed /\ job'.new = new
      BY <2>1
    <3> QED BY <3>1 DEF SoleInv
  <2>7. ASSUME NEW t \in committed.vrfs
        PROVE  Told(t)' \/ Sole(committed, t)'
    BY <2>1, <2>3, <2>5, <2>7 DEF Sole, SoleIn
  <2>8. ASSUME NEW t \in new.vrfs, VrfOp(t) \notin job'.todo
        PROVE  Told(t)' \/ Sole(job.new, t)'
    <3>1. t \in committed.vrfs /\ new.l3[t] = committed.l3[t]
      BY <2>1, <2>4, <2>8
    <3>2. Sole(committed, t)' => Sole(job.new, t)'
      BY <2>1, <3>1 DEF Sole, SoleIn
    <3> QED BY <2>7, <3>1, <3>2
  <2> QED BY <2>7, <2>8
<1>5. ASSUME NEW op \in job.todo, ReadRegistered(op)
      PROVE  SoleInv'
  <2>1. /\ Running /\ job'.new = job.new /\ job'.todo = job.todo /\ job'.done = job.done
        /\ UNCHANGED <<vpp, reg, committed, rec, alarms, trusted, undone>>
    BY <1>5, ReadDoes DEF Running
  <2>2. \A t : (Told(t)' <=> Told(t)) /\ (DidVrf(t)' <=> DidVrf(t))
    BY <2>1 DEF Told, DidVrf, Did
  <2>3. \A c, t : Sole(c, t)' <=> \A i \in c.l3[t] \ Vnic : SoleIn(vpp, reg, i, t)
    BY <2>1 DEF Sole, SoleIn
  <2> QED BY <2>1, <2>2, <2>3 DEF SoleInv, Sole
<1>6. ASSUME NEW op \in job.todo, RunOp(op)
      PROVE  SoleInv'
  <2>1. PICK o \in Answer : RunDoes(op, o)
    BY <1>6, RunOpDoes
  <2>2. Running /\ Due(CommitBefore, job.todo, op) /\ CommitOp(op) /\ op \in Op
    BY <1>6, RunOpDoes DEF CommitOp
  <2>3. /\ Effects(vpp, reg, op, job.new, job.held, o) /\ vpp' = o.vpp /\ reg' = o.reg
        /\ job'.todo = (IF o.ok THEN job.todo \ {op} ELSE {}) /\ job'.new = job.new
        /\ job'.phase \in (IF o.ok THEN {"run", "kept", "dropped"} ELSE {"undo"})
        /\ \A p : Did(p)' <=> Did(p) \/ (p = op /\ (o.ok \/ op.kind \in {"vrf", "del-vrf"}))
        /\ alarms.residue \ (IF o.ok THEN {op} ELSE {}) \subseteq alarms'.residue
        /\ alarms'.recovery = alarms.recovery
        /\ UNCHANGED <<committed, rec, trusted, undone>>
    BY <2>1 DEF RunDoes
  <2> SUFFICES ASSUME trusted, LeftoverOp \notin rec.todo
               PROVE  /\ \A t \in committed.vrfs : DidVrf(t)' \/ Told(t)' \/ Sole(committed, t)'
                      /\ Running' => \A t \in job.new.vrfs :
                           VrfOp(t) \in job'.todo \/ Told(t)' \/ Sole(job.new, t)'
    BY <2>3 DEF SoleInv
  <2>4. Sound(op, job.new) /\ op.kind # "register"
    BY <2>2 DEF Sound, CommitOp, CommitKind
  <2>5. ASSUME NEW c \in {committed, job.new}, NEW t \in Table, op # VrfOp(t), Sole(c, t)
        PROVE  Sole(c, t)'
    <3>1. ASSUME NEW i \in c.l3[t] \ Vnic
          PROVE  SoleIn(vpp', reg', i, t)
      <4>1. i \in Iface \ Vnic /\ SoleIn(vpp, reg, i, t)
        BY <1>1, <2>5, <3>1, Apportioned DEF Sole
      <4>2. op.kind = "vrf" => op.obj # t
        BY <2>2, <2>5, OpIs
      <4> QED BY <1>1, <2>3, <2>4, <4>1, <4>2, SoleKept
    <3>2. c' = c
      BY <2>3
    <3> QED BY <2>3, <3>1, <3>2 DEF Sole, SoleIn
  <2>6. ASSUME NEW t \in Table, Told(t), op # VrfOp(t), op # DelVrfOp(t)
        PROVE  Told(t)'
    BY <2>3, <2>6 DEF Told
  <2>7. ASSUME NEW t \in committed.vrfs
        PROVE  DidVrf(t)' \/ Told(t)' \/ Sole(committed, t)'
    <3>1. t \in Table
      BY <1>1, <2>7, Apportioned
    <3>2. CASE op = VrfOp(t) \/ op = DelVrfOp(t)
      BY <2>3, <3>2 DEF DidVrf, VrfOp, DelVrfOp
    <3>3. CASE op # VrfOp(t) /\ op # DelVrfOp(t)
      <4>1. DidVrf(t) \/ Told(t) \/ Sole(committed, t)
        BY <2>7 DEF SoleInv
      <4>2. DidVrf(t) => DidVrf(t)'
        BY <2>3 DEF DidVrf
      <4>3. Sole(committed, t) => Sole(committed, t)'
        BY <2>3, <2>5, <3>1, <3>3
      <4> QED BY <2>6, <3>1, <3>3, <4>1, <4>2, <4>3
    <3> QED BY <3>2, <3>3
  <2>8. ASSUME o.ok, NEW t \in job.new.vrfs, VrfOp(t) \notin job.todo \ {op}
        PROVE  Told(t)' \/ Sole(job.new, t)'
    <3>1. t \in Table
      BY <1>1, <2>8, Apportioned
    <3>2. CASE op = VrfOp(t)
      <4>1. MovesVrf(vpp, reg, t, job.new.l3[t], o)
        BY <2>2, <2>3, <3>2, OpIs DEF Effects
      <4>2. \A u \in Table : u # t => reg'.ifaces[u] = reg.ifaces[u] \ job.new.l3[t]
        BY <2>3, <2>8, <4>1 DEF MovesVrf, Joined
      <4> QED BY <2>3, <4>2 DEF Sole, SoleIn
    <3>3. CASE op # VrfOp(t)
      <4>1. op # DelVrfOp(t)
        BY <1>2, <2>2, <2>8, CommitOrdered, Planned
      <4>2. Told(t) \/ Sole(job.new, t)
        BY <2>2, <2>8, <3>3 DEF SoleInv
      <4>3. Sole(job.new, t) => Sole(job.new, t)'
        BY <2>3, <2>5, <3>1, <3>3
      <4> QED BY <2>6, <3>1, <3>3, <4>1, <4>2, <4>3
    <3> QED BY <3>2, <3>3
  <2> QED BY <2>3, <2>7, <2>8 DEF Running
<1>7. CASE UndoOp
  <2>1. PICK op \in Op, un \in Op : \E held \in SUBSET Iface : \E o \in Answer :
          CommitOp(op) /\ CommitOp(un) /\ UndoDoes(op, un, held, o)
    BY <1>7, UndoOpDoes
  <2>2. PICK held \in SUBSET Iface, o \in Answer : UndoDoes(op, un, held, o)
    BY <2>1
  <2>3. /\ Effects(vpp, reg, un, committed, held, o) /\ vpp' = o.vpp /\ reg' = o.reg
        /\ un = Inverse(op) /\ job.phase = "undo" /\ job'.phase \in {"undo", "residue"}
        /\ \A p : Did(p) <=> Did(p)' \/ p = op
        /\ undone' = (undone \/ ~o.ok \/ op.kind \in {"vrf", "del-vrf"})
        /\ o.ok \/ \A p : Did(p) => Did(p)'
        /\ UNCHANGED <<alarms, committed, rec, trusted>>
    BY <2>2 DEF UndoDoes
  <2> SUFFICES ASSUME trusted, LeftoverOp \notin rec.todo, NEW t \in committed.vrfs
               PROVE  DidVrf(t)' \/ Told(t)' \/ Sole(committed, t)'
    BY <2>3 DEF SoleInv, Running
  <2>4. t \in Table /\ Sound(un, committed) /\ un.kind # "register"
    BY <1>1, <2>1, Apportioned DEF Sound, CommitOp, CommitKind
  <2>5. CASE op = VrfOp(t) \/ op = DelVrfOp(t)
    <3>1. un.kind = "vrf" /\ un.obj = t
      BY <2>3, <2>5 DEF Inverse, VrfOp, DelVrfOp
    <3>2. CASE o.ok
      <4>1. MovesVrf(vpp, reg, t, committed.l3[t], o)
        BY <2>3, <3>1 DEF Effects
      <4>2. \A u \in Table : u # t => reg'.ifaces[u] = reg.ifaces[u] \ committed.l3[t]
        BY <2>3, <3>2, <4>1 DEF MovesVrf, Joined
      <4> QED BY <2>3, <4>2 DEF Sole, SoleIn
    <3>3. CASE ~o.ok
      BY <2>3, <2>5, <3>3 DEF DidVrf
    <3> QED BY <3>2, <3>3
  <2>6. CASE op # VrfOp(t) /\ op # DelVrfOp(t)
    <3>1. DidVrf(t) \/ Told(t) \/ Sole(committed, t)
      BY DEF SoleInv
    <3>2. DidVrf(t) => DidVrf(t)'
      BY <2>3, <2>6 DEF DidVrf
    <3>3. Told(t) => Told(t)'
      BY <2>3 DEF Told
    <3>4. un.kind = "vrf" => un.obj # t
      <4>1. un.kind = "vrf" => op.kind \in {"vrf", "del-vrf"} /\ op.obj = un.obj
        BY <2>1, <2>3 DEF Inverse, CommitOp, CommitKind
      <4> QED BY <2>1, <2>6, <4>1, OpIs
    <3>5. ASSUME Sole(committed, t), NEW i \in committed.l3[t] \ Vnic
          PROVE  SoleIn(vpp', reg', i, t)
      <4>1. i \in Iface \ Vnic /\ SoleIn(vpp, reg, i, t)
        BY <1>1, <2>4, <3>5, Apportioned DEF Sole
      <4> QED BY <1>1, <2>3, <2>4, <3>4, <4>1, SoleKept
    <3> QED BY <2>3, <3>1, <3>2, <3>3, <3>5 DEF Sole, SoleIn
  <2> QED BY <2>5, <2>6
<1>8. CASE End
  <2>1. /\ \/ job.phase = "run" /\ job.todo = {} /\ committed' = job.new
           \/ job.phase = "undo" /\ committed' = committed /\ job.done = << >>
        /\ job'.phase = "idle" /\ UNCHANGED <<vpp, reg, rec, alarms, trusted, undone>>
    BY <1>8, EndOfCommit
  <2>2. \A t : Told(t)' <=> Told(t)
    BY <2>1 DEF Told
  <2>3. \A c, t : Sole(c, t)' <=> \A i \in c.l3[t] \ Vnic : SoleIn(vpp, reg, i, t)
    BY <2>1 DEF Sole, SoleIn
  <2>4. job.done = << >> => \A t : ~DidVrf(t)
    BY DEF DidVrf, Did
  <2> QED BY <2>1, <2>2, <2>3, <2>4 DEF SoleInv, Running, Sole
<1>9. CASE VppRestart \/ DaemonRestart \/ Reconnect
  BY <1>3, <1>9, RestartsDo
<1>10. CASE RecoveryBegin \/ Patrol
  <2>1. CASE rec'.todo = Replay(committed)
    BY <1>2, <1>3, <2>1, ReplayHas
  <2>2. CASE rec'.todo = Single("retry")
    <3>1. LeftoverOp \notin rec.todo
      BY <1>10, StartsDo DEF StartDoes, TypeOK
    <3>2. /\ trusted' => trusted
          /\ UNCHANGED <<vpp, reg, committed, job, alarms, undone>>
      BY <1>10, StartsDo DEF StartDoes, TypeOK
    <3> QED BY <3>1, <3>2 DEF SoleInv, Running, Told, Sole, SoleIn, DidVrf, Did
  <2> QED BY <1>10, <2>1, <2>2, StartsDo DEF StartDoes
<1>11. ASSUME NEW op \in rec.todo, RecoveryStep(op)
       PROVE  SoleInv'
  BY <1>3, <1>11, RecoveryStepDoes
<1>12. ASSUME NEW op \in rec.todo, RecoveryReset(op)
       PROVE  SoleInv'
  BY <1>3, <1>12, ResetDoes
<1>13. CASE RetryStep
  <2>1. RetryDoes
    BY <1>13, RetryStepDoes
  <2>2. /\ LeftoverOp \in rec'.todo <=> LeftoverOp \in rec.todo
        /\ vpp'.member = vpp.member /\ reg'.ifaces = reg.ifaces
        /\ trusted' => trusted
    BY <2>1 DEF RetryDoes, LeftoverOp
  <2>3. trusted => rec.cfg = committed /\ job.phase = "idle"
    BY <2>1 DEF TrustInv, RetryDoes
  <2>4. UNCHANGED <<committed, job, undone>>
    BY <2>1 DEF RetryDoes
  <2>5. ASSUME trusted', NEW t \in committed.vrfs, Told(t)
        PROVE  Told(t)'
    BY <2>1, <2>2, <2>3, <2>5 DEF RetryDoes, Told, VrfOp, DelVrfOp
  <2>6. \A c, t : Sole(c, t)' <=> \A i \in c.l3[t] \ Vnic : SoleIn(vpp, reg, i, t)
    BY <2>2 DEF Sole, SoleIn
  <2>7. \A t : DidVrf(t)' <=> DidVrf(t)
    BY <2>4 DEF DidVrf, Did
  <2> QED BY <2>2, <2>3, <2>4, <2>5, <2>6, <2>7 DEF SoleInv, Running, Sole
<1>14. ASSUME NEW op \in rec.todo, RecoveryEnd(op)
       PROVE  SoleInv'
  <2>1. EndDoes
    BY <1>14, RecoveryEndDoes
  <2>2. CASE up /\ ~overlap
    <3>1. job.phase = "idle" /\ rec.cfg = committed
      BY <2>1, <2>2 DEF EndDoes, AloneInv
    <3>2. \A t : VrfOp(t) \notin rec.todo
      BY <2>1 DEF EndDoes, VrfOp, LeftoverOp
    <3>3. \A t \in committed.vrfs : VrfOp(t) \in rec.failed \/ Placed(vpp, reg, committed, t)
      BY <2>1, <2>2, <3>1, <3>2 DEF EndDoes, RestoredInv
    <3>4. \A t \in committed.vrfs : Placed(vpp, reg, committed, t) => Sole(committed, t)
      <4>1. ASSUME NEW t \in committed.vrfs, Placed(vpp, reg, committed, t),
                   NEW i \in committed.l3[t] \ Vnic
            PROVE  \A u \in Table : i \in reg.ifaces[u] => u = t
        <5>1. i \in Iface \ Vnic /\ t \in Table /\ i \in reg.ifaces[t]
          BY <1>1, <4>1, Apportioned DEF Placed
        <5> QED BY <5>1 DEF OnePort
      <4> QED BY <4>1 DEF Sole, SoleIn
    <3>5. \A t \in committed.vrfs : Told(t)' \/ Sole(committed, t)'
      <4>1. ASSUME NEW t \in committed.vrfs
            PROVE  Told(t)' \/ Sole(committed, t)'
        BY <2>1, <3>3, <3>4, <4>1 DEF EndDoes, Told, Sole, SoleIn
      <4> QED BY <4>1
    <3> QED BY <2>1, <3>1, <3>5 DEF EndDoes, SoleInv, Running
  <2> QED BY <1>3, <2>1, <2>2 DEF EndDoes
<1>15. CASE UNCHANGED vars
  BY <1>15 DEF vars, SoleInv, Running, Told, Sole, SoleIn, DidVrf, Did
<1>16. CASE TellDeletion \/ TellResidue
  <2>1. TellDoes
    BY <1>16, TellsDo
  <2>2. /\ UNCHANGED <<vpp, reg, committed, rec, trusted, undone>>
        /\ alarms'.recovery = alarms.recovery /\ job'.new = job.new
    BY <2>1 DEF TellDoes
  <2>3. \A c, t : Sole(c, t)' <=> \A i \in c.l3[t] \ Vnic : SoleIn(vpp, reg, i, t)
    BY <2>2 DEF Sole, SoleIn
  \* An alarm about a deletion ends with the deletion, of which the commit still knows.
  <2>4. ASSUME Running, job'.todo = job.todo, \A p : Did(p)' <=> Did(p),
               NEW z \in Table, Did(DelVrfOp(z)),
               alarms.residue \ {DelVrfOp(z)} \subseteq alarms'.residue
        PROVE  SoleInv'
    <3>1. \A t : t # z /\ Told(t) => Told(t)'
      BY <2>2, <2>4 DEF Told, VrfOp, DelVrfOp
    <3>2. DidVrf(z)' /\ z \notin job.new.vrfs
      BY <1>2, <2>4, Planned DEF DidVrf, CommitInv
    <3>3. \A t : DidVrf(t)' <=> DidVrf(t)
      BY <2>4 DEF DidVrf
    <3> SUFFICES ASSUME trusted, LeftoverOp \notin rec.todo
                 PROVE  /\ \A t \in committed.vrfs :
                             DidVrf(t)' \/ Told(t)' \/ Sole(committed, t)'
                        /\ \A t \in job.new.vrfs :
                             VrfOp(t) \in job.todo \/ Told(t)' \/ Sole(job.new, t)'
      BY <2>2, <2>4 DEF SoleInv
    <3>4. ASSUME NEW t \in committed.vrfs
          PROVE  DidVrf(t)' \/ Told(t)' \/ Sole(committed, t)'
      <4>1. DidVrf(t) \/ Told(t) \/ Sole(committed, t)
        BY <3>4 DEF SoleInv
      <4>2. Sole(committed, t) => Sole(committed, t)'
        BY <2>2 DEF Sole, SoleIn
      <4> QED BY <3>1, <3>2, <3>3, <4>1, <4>2
    <3>5. ASSUME NEW t \in job.new.vrfs
          PROVE  VrfOp(t) \in job.todo \/ Told(t)' \/ Sole(job.new, t)'
      <4>1. VrfOp(t) \in job.todo \/ Told(t) \/ Sole(job.new, t)
        BY <2>4, <3>5 DEF SoleInv
      <4>2. Sole(job.new, t) => Sole(job.new, t)'
        BY <2>2 DEF Sole, SoleIn
      <4> QED BY <3>1, <3>2, <3>5, <4>1, <4>2
    <3> QED BY <3>4, <3>5
  \* What a compensation could not undo is told of.
  <2>5. ASSUME job.phase = "residue", job'.phase = "undo",
               alarms.residue \subseteq alarms'.residue,
               \A p : Did(p) => Did(p)' \/ p \in alarms'.residue
        PROVE  SoleInv'
    <3>1. \A t : Told(t) => Told(t)'
      BY <2>2, <2>5 DEF Told
    <3>2. \A t : trusted /\ DidVrf(t) => DidVrf(t)' \/ Told(t)'
      BY <2>2, <2>5 DEF DidVrf, Told, TrustInv
    <3>3. \A t : Sole(committed, t) => Sole(committed, t)'
      BY <2>2 DEF Sole, SoleIn
    <3> QED BY <2>2, <2>5, <3>1, <3>2, <3>3 DEF SoleInv, Running
  <2> QED BY <2>1, <2>4, <2>5 DEF TellDoes, Running
<1> QED BY <1>4, <1>5, <1>6, <1>7, <1>8, <1>9, <1>10, <1>11, <1>12, <1>13, <1>14, <1>15, <1>16,
           NextIs

\* Emptied registries are in order.
LEMMA EmptyAtHome ==
  ASSUME NEW q, NEW c \in Config
  PROVE  Exclusive(EmptyReg(q)) /\ \A i \in Vnic : AtHome(EmptyReg(q), c, i)
BY DEF Exclusive, AtHome, EmptyReg

\* A commit's operation leaves a vNIC it is not about in its table, or takes it to the
\* default one.
LEMMA MemberKept ==
  ASSUME NEW w, NEW r, NEW c, NEW held, NEW op, CommitOp(op), NEW o,
         Effects(w, r, op, c, held, o), NEW i \in Vnic,
         op.kind = "vnic" => op.obj # i, op.kind = "vrf" => i \notin c.l3[op.obj]
  PROVE  o.vpp.member[i] \in {w.member[i], Default}
<1>1. i \in Iface
  BY RoutingAssumption
<1>2. CASE op.kind = "vnic"
  BY <1>1, <1>2 DEF Effects, MovesVnic, Stays
<1>3. CASE op.kind = "vrf"
  BY <1>1, <1>3 DEF Effects, MovesVrf, Stays
<1>4. CASE op.kind = "nat"
  BY <1>1, <1>4 DEF Effects, Stays
<1>5. CASE op.kind = "del-vnic"
  BY <1>1, <1>5 DEF Effects, DropsVnic, Stays
<1>6. CASE op.kind = "del-vrf"
  BY <1>1, <1>6 DEF Effects, DropsVrf
<1> QED BY <1>2, <1>3, <1>4, <1>5, <1>6 DEF CommitOp, CommitKind

\* What a commit's operation does to the vNICs, in the order of the plan.
LEMMA RunDomain ==
  ASSUME IInv, VInv, AllHomed, Sure, Running, NEW op \in job.todo, CommitOp(op),
         Due(CommitBefore, job.todo, op), NEW o, RunDoes(op, o)
  PROVE  /\ Exclusive(reg')
         /\ \A i \in Vnic : AtHome(reg', committed, i)
                            \/ (Did(VnicOp(i))' /\ vpp'.member[i] # committed.home[i])
         /\ o.ok => \A i \in Vnic : VnicOp(i) \notin job.todo \ {op} => AtHome(reg', job.new, i)
<1> USE DEF IInv, VInv
<1>1. committed \in Cfg /\ job.new \in Cfg /\ committed \in Config /\ job.new \in Config
  BY ConfigsTyped DEF TypeOK, Jobs
<1>2. /\ Effects(vpp, reg, op, job.new, job.held, o) /\ vpp' = o.vpp /\ reg' = o.reg
      /\ \A p : Did(p) => Did(p)'
      /\ o.ok => Did(op)'
  BY DEF RunDoes
<1>3. op \in Op /\ Sound(op, job.new) /\ op \in Plan(committed, job.new) /\ op.kind # "register"
  BY CommitOrdered DEF CommitOp, CommitKind, Sound
<1>4. /\ Exclusive(reg)
      /\ \A i \in Vnic : AtHome(reg, committed, i)
                         \/ (Did(VnicOp(i)) /\ vpp.member[i] # committed.home[i])
      /\ \A i \in Vnic : VnicOp(i) \notin job.todo => AtHome(reg, job.new, i)
  BY DEF DomainInv
\* The vNICs of a VRF that is applied have been given their switch, which is this one.
<1>5. ASSUME op.kind = "vrf", NEW i \in Vnic, i \in job.new.l3[op.obj]
      PROVE  /\ op.obj \in Table /\ job.new.home[i] = op.obj /\ i \in job.new.ports
             /\ VnicOp(i) \notin job.todo
  <2>1. op.obj \in Table
    BY <1>5 DEF CommitOp
  <2>2. job.new.home[i] = op.obj
    BY <1>1, <1>5, <2>1 DEF AllHomed, Homed
  <2> QED BY <1>1, <1>5, <2>1, <2>2, Apportioned, CommitOrdered
<1>6. Exclusive(reg')
  <2>1. ASSUME op.kind = "vrf", NEW i \in job.new.l3[op.obj] \cap Vnic
        PROVE  reg.vnfs[i] \in {None, op.obj}
    BY <1>4, <1>5, <2>1, RoutingAssumption DEF AtHome
  <2>2. op.kind \in {"vrf", "register"} =>
          \A i \in job.new.l3[op.obj] \cap Vnic : reg.vnfs[i] \in {None, op.obj}
    BY <1>3, <2>1
  <2>3. Exclusive(o.reg)
    BY <1>2, <1>3, <1>4, <2>2, ExclusiveKept
  <2> QED BY <1>2, <2>3
<1>7. ASSUME NEW i \in Vnic, VnicOp(i) \notin job.todo
      PROVE  AtHome(reg', job.new, i)
  <2>1. AtHome(reg, job.new, i)
    BY <1>4, <1>7
  <2>2. op.kind \in {"vnic", "set-table"} => op.obj # i
    BY <1>3, <1>7, OpIs DEF CommitOp, CommitKind
  <2>3. op.kind \in {"vrf", "register"} /\ i \in job.new.l3[op.obj] => job.new.home[i] = op.obj
    BY <1>3, <1>5
  <2> QED BY <1>2, <1>3, <2>1, <2>2, <2>3, HomeKept
<1>8. ASSUME o.ok, NEW i \in Vnic, op = VnicOp(i)
      PROVE  AtHome(reg', job.new, i)
  <2>1. op.kind = "vnic" /\ op.obj = i
    BY <1>3, <1>8, OpIs
  <2>2. MovesVnic(vpp, reg, i, job.new.home[i], o)
    BY <1>2, <2>1 DEF Effects
  <2> QED BY <1>1, <1>2, <1>4, <1>8, <2>2, HomeMade
<1>9. ASSUME NEW i \in Vnic
      PROVE  AtHome(reg', committed, i)
             \/ (Did(VnicOp(i))' /\ vpp'.member[i] # committed.home[i])
  <2>1. CASE i \notin committed.ports \/ committed.home[i] = None
    BY <2>1 DEF AtHome
  <2>2. CASE i \in committed.ports /\ i \in job.new.ports /\ committed.home[i] = job.new.home[i]
    <3>1. VnicOp(i) \notin job.todo
      BY <1>1, <2>2, Planned DEF CommitInv
    <3>2. AtHome(reg', job.new, i)
      BY <1>7, <3>1
    <3> QED BY <2>2, <3>2 DEF AtHome
  <2>3. CASE /\ i \in committed.ports /\ committed.home[i] # None
             /\ i \notin job.new.ports \/ committed.home[i] # job.new.home[i]
    <3>1. committed.home[i] \in Table /\ committed.home[i] # Default
      BY <1>1, <2>3, Apportioned, RoutingAssumption
    <3>2. CASE op = VnicOp(i)
      <4>1. op.kind = "vnic" /\ op.obj = i
        BY <1>3, <3>2, OpIs
      <4>2. i \in job.new.ports
        BY <1>1, <1>3, <3>2, Planned
      <4>3. \/ o.reg = reg /\ o.vpp.member[i] = vpp.member[i]
            \/ o.ok /\ job.new.home[i] \in Table /\ o.vpp.member[i] = job.new.home[i]
        <5>1. MovesVnic(vpp, reg, i, job.new.home[i], o)
          BY <1>2, <4>1 DEF Effects
        <5> QED BY <5>1 DEF MovesVnic
      <4> QED BY <1>2, <1>4, <2>3, <3>2, <4>2, <4>3
    <3>3. CASE op.kind = "vrf" /\ i \in job.new.l3[op.obj]
      <4>1. /\ job.new.home[i] = op.obj /\ i \in job.new.ports /\ VnicOp(i) \notin job.todo
            /\ op.obj # committed.home[i]
        BY <1>5, <2>3, <3>3
      <4>2. Did(VnicOp(i)) /\ Did(VnicOp(i))'
        BY <1>1, <1>2, <2>3, <4>1, Planned DEF CommitInv
      <4>3. MovesVrf(vpp, reg, op.obj, job.new.l3[op.obj], o)
        BY <1>2, <3>3 DEF Effects
      <4>4. \/ vpp'.member[i] = op.obj
            \/ reg' = reg /\ vpp'.member[i] = vpp.member[i]
        BY <1>2, <3>3, <4>3 DEF MovesVrf
      <4> QED BY <1>4, <4>1, <4>2, <4>4
    <3>4. CASE op # VnicOp(i) /\ ~(op.kind = "vrf" /\ i \in job.new.l3[op.obj])
      <4>1. op.kind \in {"vnic", "set-table"} => op.obj # i
        BY <1>3, <3>4, OpIs DEF CommitOp, CommitKind
      <4>2. vpp'.member[i] \in {vpp.member[i], Default}
        <5>1. op.kind = "vnic" => op.obj # i
          BY <4>1
        <5>2. op.kind = "vrf" => i \notin job.new.l3[op.obj]
          BY <3>4
        <5>3. o.vpp.member[i] \in {vpp.member[i], Default}
          BY <1>2, <5>1, <5>2, MemberKept
        <5> QED BY <1>2, <5>3
      <4>3. AtHome(reg, committed, i) => AtHome(reg', committed, i)
        BY <1>2, <1>3, <3>4, <4>1, HomeKept
      <4> QED BY <1>2, <1>4, <3>1, <4>2, <4>3
    <3> QED BY <3>2, <3>3, <3>4
  <2> QED BY <2>1, <2>2, <2>3
<1> QED BY <1>6, <1>7, <1>8, <1>9

\* The registrations of the vNICs stay in order.
LEMMA DomainStep ==
  ASSUME IInv, VInv, [Next]_vars
  PROVE  DomainInv'
<1> USE DEF IInv, VInv
<1>1. /\ committed \in Cfg /\ job.new \in Cfg /\ rec.cfg \in Cfg
      /\ committed \in Config /\ job.new \in Config /\ rec.cfg \in Config
  BY ConfigsTyped DEF TypeOK, Jobs, Recs
<1>2. CASE ~Sure'
  BY <1>2 DEF DomainInv
<1>3. LeftoverOp \in rec.todo => rec.active /\ (overlap \/ job.phase = "idle")
  BY DEF TypeOK, AloneInv
<1>4. job.phase = "idle" => \A p : ~Did(p)
  BY DEF TrustInv, Did
<1>5. CASE /\ UNCHANGED <<committed, job>> /\ vpp'.member = vpp.member
           /\ reg'.ifaces = reg.ifaces /\ reg'.vnfs = reg.vnfs /\ (Sure' => Sure)
  <2>1. /\ Exclusive(reg') <=> Exclusive(reg)
        /\ \A c, i : AtHome(reg', c, i) <=> AtHome(reg, c, i)
    BY <1>5 DEF Exclusive, AtHome
  <2>2. (Running' <=> Running) /\ \A p : Did(p)' <=> Did(p)
    BY <1>5 DEF Running, Did
  <2> SUFFICES ASSUME AllHomed, Sure'
               PROVE  /\ Exclusive(reg')
                      /\ \A i \in Vnic : AtHome(reg', committed, i)
                           \/ (Did(VnicOp(i))' /\ vpp'.member[i] # committed.home[i])
                      /\ Running' => \A i \in Vnic : VnicOp(i) \notin job.todo =>
                           AtHome(reg', job.new, i)
    BY <1>5 DEF DomainInv
  <2> QED BY <1>5, <2>1, <2>2 DEF DomainInv
<1>6. CASE /\ UNCHANGED <<committed, job>> /\ \E q : reg' = EmptyReg(q)
  <2>1. Exclusive(reg') /\ \A i \in Vnic : AtHome(reg', committed, i) /\ AtHome(reg', job.new, i)
    BY <1>1, <1>6, EmptyAtHome
  <2> QED BY <1>6, <2>1 DEF DomainInv
<1>7. ASSUME NEW new \in Cfg, Begin(new)
      PROVE  DomainInv'
  <2>1. /\ job.phase = "idle" /\ job'.new = new /\ new \in Config
        /\ job'.todo = Plan(committed, new) /\ overlap' = (overlap \/ rec.active)
        /\ trusted' = (trusted /\ ~rec.active)
        /\ UNCHANGED <<vpp, reg, committed, rec, undone>>
    BY <1>7, BeginDoes, Apportioned
  <2> SUFFICES ASSUME AllHomed, Sure'
               PROVE  /\ Exclusive(reg)
                      /\ \A i \in Vnic : AtHome(reg, committed, i)
                      /\ \A i \in Vnic : VnicOp(i) \notin Plan(committed, new) =>
                           AtHome(reg, new, i)
    BY <2>1 DEF DomainInv
  <2>2. Sure
    BY <1>3, <2>1 DEF Sure, TypeOK
  <2>3. Exclusive(reg) /\ \A i \in Vnic : AtHome(reg, committed, i)
    BY <1>4, <2>1, <2>2 DEF DomainInv
  <2>4. ASSUME NEW i \in Vnic, VnicOp(i) \notin Plan(committed, new)
        PROVE  AtHome(reg, new, i)
    <3>1. CASE i \notin new.ports
      BY <3>1 DEF AtHome
    <3>2. CASE i \in new.ports
      <4>1. i \in committed.ports /\ committed.home[i] = new.home[i]
        BY <1>1, <2>1, <2>4, <3>2, Planned
      <4> QED BY <2>3, <4>1 DEF AtHome
    <3> QED BY <3>1, <3>2
  <2> QED BY <2>3, <2>4
<1>8. ASSUME NEW op \in job.todo, ReadRegistered(op)
      PROVE  DomainInv'
  <2>1. /\ Running /\ job'.new = job.new /\ job'.todo = job.todo /\ job'.done = job.done
        /\ UNCHANGED <<vpp, reg, committed, rec, overlap, trusted, undone>>
    BY <1>8, ReadDoes DEF Running
  <2>2. (Sure' <=> Sure) /\ \A p : Did(p)' <=> Did(p)
    BY <2>1 DEF Sure, ResetDone, Did
  <2> QED BY <2>1, <2>2 DEF DomainInv
<1>9. ASSUME NEW op \in job.todo, RunOp(op)
      PROVE  DomainInv'
  <2>1. /\ Running /\ Due(CommitBefore, job.todo, op) /\ CommitOp(op)
        /\ \E o \in Answer : RunDoes(op, o)
    BY <1>9, RunOpDoes
  <2>2. PICK o \in Answer : RunDoes(op, o)
    BY <2>1
  <2>3. /\ job'.todo = (IF o.ok THEN job.todo \ {op} ELSE {}) /\ job'.new = job.new
        /\ job'.phase \in (IF o.ok THEN {"run", "kept", "dropped"} ELSE {"undo"})
        /\ UNCHANGED <<committed, rec, overlap, trusted, undone>>
    BY <2>2 DEF RunDoes
  <2>4. Sure' <=> Sure
    BY <2>3 DEF Sure, ResetDone
  <2>5. ASSUME AllHomed, Sure
        PROVE  /\ Exclusive(reg')
               /\ \A i \in Vnic : AtHome(reg', committed, i)
                                  \/ (Did(VnicOp(i))' /\ vpp'.member[i] # committed.home[i])
               /\ o.ok => \A i \in Vnic :
                            VnicOp(i) \notin job.todo \ {op} => AtHome(reg', job.new, i)
    BY <2>1, <2>2, <2>5, RunDomain
  <2> QED BY <2>3, <2>4, <2>5 DEF DomainInv, Running
<1>10. CASE UndoOp
  <2>1. PICK op \in Op, un \in Op : \E held \in SUBSET Iface : \E o \in Answer :
          CommitOp(op) /\ CommitOp(un) /\ UndoDoes(op, un, held, o)
    BY <1>10, UndoOpDoes
  <2>2. PICK held \in SUBSET Iface, o \in Answer :
          CommitOp(op) /\ CommitOp(un) /\ UndoDoes(op, un, held, o)
    BY <2>1
  <2>3. /\ Effects(vpp, reg, un, committed, held, o) /\ vpp' = o.vpp /\ reg' = o.reg
        /\ un = Inverse(op) /\ job.phase = "undo" /\ job'.phase \in {"undo", "residue"}
        /\ \A p : Did(p) <=> Did(p)' \/ p = op
        /\ undone' = (undone \/ ~o.ok \/ op.kind \in {"vrf", "del-vrf"})
        /\ UNCHANGED <<committed, rec, overlap, trusted>>
    BY <2>2 DEF UndoDoes
  <2> SUFFICES ASSUME AllHomed, Sure'
               PROVE  /\ Exclusive(reg')
                      /\ \A i \in Vnic : AtHome(reg', committed, i)
                           \/ (Did(VnicOp(i))' /\ vpp'.member[i] # committed.home[i])
    BY <2>3 DEF DomainInv, Running
  <2>4. Sure /\ o.ok /\ op.kind \notin {"vrf", "del-vrf"}
    BY <1>3, <2>3 DEF Sure, ResetDone
  <2>5. /\ Exclusive(reg)
        /\ \A i \in Vnic : AtHome(reg, committed, i)
                           \/ (Did(VnicOp(i)) /\ vpp.member[i] # committed.home[i])
    BY <2>4 DEF DomainInv
  <2>6. /\ un.kind \in {"vnic", "del-vnic", "nat"} /\ Sound(un, committed)
        /\ un.kind = "vnic" => un.obj = op.obj
        /\ op.kind = "vnic" => un.obj = op.obj /\ (un.kind = "vnic" \/ op.obj \notin committed.ports)
    BY <2>1, <2>3, <2>4 DEF Inverse, CommitOp, CommitKind, Sound
  <2>7. Exclusive(o.reg)
    <3>1. un.kind \in {"vrf", "register"} =>
            \A i \in committed.l3[un.obj] \cap Vnic : reg.vnfs[i] \in {None, un.obj}
      BY <2>6
    <3> QED BY <2>3, <2>5, <2>6, <3>1, ExclusiveKept
  <2>8. ASSUME NEW i \in Vnic
        PROVE  AtHome(reg', committed, i)
               \/ (Did(VnicOp(i))' /\ vpp'.member[i] # committed.home[i])
    <3>1. CASE i \notin committed.ports \/ committed.home[i] = None
      BY <3>1 DEF AtHome
    <3>2. CASE un.kind = "vnic" /\ un.obj = i
      <4>1. MovesVnic(vpp, reg, i, committed.home[i], o)
        BY <2>3, <3>2 DEF Effects
      <4>2. AtHome(o.reg, committed, i)
        BY <1>1, <2>4, <2>5, <4>1, HomeMade
      <4> QED BY <2>3, <4>2
    <3>3. CASE i \in committed.ports /\ committed.home[i] # None
               /\ ~(un.kind = "vnic" /\ un.obj = i)
      <4>1. op # VnicOp(i)
        BY <2>1, <2>6, <3>3, OpIs
      <4>2. committed.home[i] # Default
        BY <1>1, <3>3, Apportioned, RoutingAssumption
      <4>3. AtHome(reg, committed, i) => AtHome(reg', committed, i)
        <5>1. un.kind \in {"vnic", "set-table"} => un.obj # i
          BY <2>6, <3>3
        <5>2. un.kind \in {"vrf", "register"} /\ i \in committed.l3[un.obj] =>
                committed.home[i] = un.obj
          BY <2>6
        <5>3. AtHome(reg, committed, i) => AtHome(o.reg, committed, i)
          BY <2>3, <2>6, <5>1, <5>2, HomeKept
        <5> QED BY <2>3, <5>3
      <4>4. o.vpp.member[i] \in {vpp.member[i], Default}
        <5>1. un.kind = "vnic" => un.obj # i
          BY <3>3
        <5>2. un.kind = "vrf" => i \notin committed.l3[un.obj]
          BY <2>6
        <5>3. CommitOp(un) /\ Effects(vpp, reg, un, committed, held, o)
          BY <2>2, <2>3
        <5> QED BY <5>1, <5>2, <5>3, MemberKept
      <4> QED BY <2>3, <2>5, <4>1, <4>2, <4>3, <4>4
    <3> QED BY <3>1, <3>2, <3>3
  <2> QED BY <2>3, <2>7, <2>8
<1>11. CASE End
  <2>1. /\ \/ job.phase = "run" /\ job.todo = {} /\ committed' = job.new
           \/ job.phase = "undo" /\ committed' = committed /\ job.done = << >>
        /\ job'.phase = "idle"
        /\ UNCHANGED <<vpp, reg, rec, overlap, trusted, undone>>
    BY <1>11, EndOfCommit
  <2>2. Sure' <=> Sure
    BY <2>1 DEF Sure, ResetDone
  <2>3. job.done = << >> => \A p : ~Did(p)
    BY DEF Did
  <2> SUFFICES ASSUME AllHomed, Sure
               PROVE  Exclusive(reg) /\ \A i \in Vnic : AtHome(reg, committed', i)
    BY <2>1, <2>2 DEF DomainInv, Running
  <2> QED BY <2>1, <2>3 DEF DomainInv, Running
<1>12. CASE VppRestart \/ DaemonRestart \/ Reconnect
  <2>1. CASE reg' = reg /\ rec'.todo = rec.todo /\ overlap' = (overlap \/ rec.active)
    BY <1>2, <1>3, <1>12, <2>1, RestartsDo DEF Sure, TypeOK
  <2>2. CASE rec'.todo = {}
    BY <1>2, <1>12, <2>2, RestartsDo DEF Sure
  <2>3. CASE reg' = EmptyReg(reg.pending) /\ UNCHANGED <<job, committed>>
    BY <1>6, <2>3
  <2> QED BY <1>12, <2>1, <2>2, <2>3, RestartsDo
<1>13. CASE RecoveryBegin \/ Patrol
  <2>1. CASE rec'.todo = Replay(committed)
    <3>1. ~ResetDone'
      BY <1>1, <2>1, ReplayHas DEF ResetDone, Single
    <3>2. LeftoverOp \in rec'.todo
      BY <1>1, <2>1, ReplayHas
    <3> QED BY <1>2, <3>1, <3>2 DEF Sure
  <2>2. CASE rec'.todo = Single("retry")
    <3>1. LeftoverOp \notin rec.todo /\ LeftoverOp \notin rec'.todo
      <4>1. LeftoverOp \notin rec.todo
        BY <1>13, StartsDo DEF StartDoes, TypeOK
      <4>2. LeftoverOp \notin rec'.todo
        BY <2>2 DEF Single, LeftoverOp
      <4> QED BY <4>1, <4>2
    <3>2. (trusted' => trusted) /\ UNCHANGED <<vpp, reg, committed, job, undone>>
      BY <1>13, StartsDo DEF StartDoes, TypeOK
    <3> QED BY <1>5, <3>1, <3>2 DEF Sure
  <2> QED BY <1>13, <2>1, <2>2, StartsDo DEF StartDoes
<1>14. ASSUME NEW op \in rec.todo, RecoveryStep(op)
       PROVE  DomainInv'
  <2>1. PICK o \in Answer : RecoveryDoes(op, o)
    BY <1>14, RecoveryStepDoes
  <2>2. /\ Sound(op, rec.cfg) /\ op \in Replay(rec.cfg) /\ ResetDone /\ ResetDone'
        /\ LeftoverOp \in rec.todo /\ LeftoverOp \in rec'.todo
        /\ op.kind \in {"vnic", "vrf", "register", "set-table", "nat"}
    BY <1>14, RecoveryStepDoes
  <2>3. /\ Effects(vpp, reg, op, rec.cfg, {}, o) /\ reg' = o.reg
        /\ UNCHANGED <<committed, job, overlap>>
    BY <2>1 DEF RecoveryDoes
  <2> SUFFICES ASSUME AllHomed, ~overlap
               PROVE  Exclusive(o.reg) /\ \A i \in Vnic : AtHome(o.reg, rec.cfg, i)
    <3>1. ~overlap => rec.cfg = committed /\ job.phase = "idle"
      BY <2>2 DEF AloneInv
    <3> QED BY <2>2, <2>3, <3>1 DEF DomainInv, Sure, Running
  <2>4. rec.cfg = committed /\ job.phase = "idle" /\ Sure
    BY <2>2 DEF AloneInv, Sure
  <2>5. Exclusive(reg) /\ \A i \in Vnic : AtHome(reg, rec.cfg, i)
    BY <1>4, <2>4 DEF DomainInv
  <2>6. ASSUME op.kind \in {"vrf", "register"}, NEW i \in Vnic, i \in rec.cfg.l3[op.obj]
        PROVE  op.obj \in Table /\ rec.cfg.home[i] = op.obj /\ i \in rec.cfg.ports
    <3>1. op.obj \in Table
      BY <2>2, <2>6 DEF Sound, CommitOp, CommitKind
    <3>2. rec.cfg.home[i] = op.obj
      BY <1>1, <2>6, <3>1 DEF AllHomed, Homed
    <3> QED BY <1>1, <2>6, <3>1, <3>2, Apportioned
  <2>7. Exclusive(o.reg)
    <3>1. op.kind \in {"vrf", "register"} =>
            \A i \in rec.cfg.l3[op.obj] \cap Vnic : reg.vnfs[i] \in {None, op.obj}
      BY <2>5, <2>6, RoutingAssumption DEF AtHome
    <3> QED BY <2>2, <2>3, <2>5, <3>1, ExclusiveKept
  <2>8. ASSUME NEW i \in Vnic
        PROVE  AtHome(o.reg, rec.cfg, i)
    <3>1. AtHome(reg, rec.cfg, i)
      BY <2>5
    <3>2. CASE op.kind \in {"vnic", "set-table"} /\ op.obj = i
      <4>1. MovesVnic(vpp, reg, i, rec.cfg.home[i], o)
        BY <2>3, <3>2 DEF Effects
      <4> QED BY <1>1, <2>5, <3>1, <4>1, HomeMade
    <3>3. CASE op.kind \in {"vnic", "set-table"} => op.obj # i
      <4>1. op.kind \in {"vrf", "register"} /\ i \in rec.cfg.l3[op.obj] =>
              rec.cfg.home[i] = op.obj
        BY <2>6
      <4> QED BY <2>2, <2>3, <3>1, <3>3, <4>1, HomeKept
    <3> QED BY <3>2, <3>3
  <2> QED BY <2>7, <2>8
<1>15. ASSUME NEW op \in rec.todo, RecoveryReset(op)
       PROVE  DomainInv'
  BY <1>6, <1>15, ResetDoes
<1>16. CASE RetryStep
  <2>1. RetryDoes
    BY <1>16, RetryStepDoes
  <2>2. /\ vpp'.member = vpp.member /\ reg'.ifaces = reg.ifaces /\ reg'.vnfs = reg.vnfs
        /\ (LeftoverOp \in rec'.todo <=> LeftoverOp \in rec.todo) /\ (ResetDone' <=> ResetDone)
        /\ trusted' => trusted
        /\ UNCHANGED <<committed, job, overlap, undone>>
    BY <2>1 DEF RetryDoes, LeftoverOp, ResetDone
  <2>3. Sure' => Sure
    BY <2>2 DEF Sure
  <2> QED BY <1>5, <2>2, <2>3
<1>17. ASSUME NEW op \in rec.todo, RecoveryEnd(op)
       PROVE  DomainInv'
  <2>1. EndDoes
    BY <1>17, RecoveryEndDoes
  <2>2. Sure' => Sure
    BY <2>1 DEF EndDoes, Sure
  <2> QED BY <1>5, <2>1, <2>2 DEF EndDoes
<1>18. CASE UNCHANGED vars
  BY <1>5, <1>18 DEF vars, Sure, ResetDone
<1>19. CASE TellDeletion \/ TellResidue
  <2>1. TellDoes
    BY <1>19, TellsDo
  <2>2. /\ UNCHANGED <<vpp, reg, committed, rec, overlap, trusted, undone>>
        /\ job'.new = job.new
    BY <2>1 DEF TellDoes
  <2>3. Sure' <=> Sure
    BY <2>2 DEF Sure, ResetDone
  <2>4. CASE Running /\ job'.todo = job.todo /\ \A p : Did(p)' <=> Did(p)
    BY <2>2, <2>3, <2>4 DEF DomainInv
  <2>5. CASE job.phase = "residue"
    BY <1>2, <1>3, <2>3, <2>5 DEF Sure, TrustInv, DomainInv
  <2> QED BY <2>1, <2>4, <2>5 DEF TellDoes, Running
<1> QED BY <1>7, <1>8, <1>9, <1>10, <1>11, <1>12, <1>13, <1>14, <1>15, <1>16, <1>17, <1>18, <1>19,
           NextIs

\* The invariant of the VRFs holds at the start, and every step keeps it.
LEMMA InitVInv == Init => VInv
<1> SUFFICES ASSUME Init
             PROVE  VInv
  OBVIOUS
<1>1. rec.todo = {} /\ job.phase = "idle" /\ job.done = << >> /\ ~trusted /\ ~replayed
  BY DEF Init, IdleRec, IdleJob, Holding
<1>2. OnePort(reg)
  BY DEF Init, OnePort, EmptyReg
<1> QED BY <1>1, <1>2 DEF VInv, TrustInv, CommitInv, Running, DomainInv, Sure, RestoredInv,
                         PlacedInv, SoleInv, LeftoverOp

LEMMA NextVInv == IInv /\ VInv /\ [Next]_vars => VInv'
<1> SUFFICES ASSUME IInv, VInv, [Next]_vars
             PROVE  VInv'
  OBVIOUS
<1>1. TrustInv' /\ CommitInv' /\ OnePort(reg')
  BY TrustStep, CommitStep, PortsStep DEF VInv
<1>2. DomainInv' /\ RestoredInv' /\ PlacedInv' /\ SoleInv'
  BY DomainStep, RestoredStep, PlacedStep, SoleStep DEF VInv
<1> QED BY <1>1, <1>2 DEF VInv

\* An interface is not registered with another VRF than the one that declares it and that
\* it is in, unless that one is being changed or an alarm tells.
LEMMA OnlyThere ==
  ASSUME IInv, VInv, trusted, job.phase # "idle", NEW i \in Iface, NEW t \in committed.vrfs,
         vpp.member[i] = t, Declares(committed, t, i), i \in Vnic => ~undone /\ AllHomed,
         ~DidVrf(t), ~Told(t), NEW u \in Table, i \in reg.ifaces[u]
  PROVE  u = t
<1> USE DEF IInv, VInv
<1>1. committed \in Cfg /\ committed \in Config /\ t \in Table
  BY ConfigsTyped, Apportioned DEF TypeOK
<1>2. LeftoverOp \notin rec.todo
  BY DEF TrustInv, TypeOK
<1>3. CASE i \in Vnic
  <2>1. i \in committed.ports /\ committed.home[i] = t
    BY <1>1, <1>3, Apportioned DEF Declares, AllHomed, Homed
  <2>2. t # None
    BY <1>1, RoutingAssumption
  <2>3. AtHome(reg, committed, i)
    BY <1>2, <1>3, <2>1 DEF DomainInv, Sure
  <2> QED BY <2>1, <2>2, <2>3 DEF AtHome
<1>4. CASE i \notin Vnic
  <2>1. i \in committed.l3[t] \ Vnic
    BY <1>1, <1>4, Apportioned DEF Declares
  <2>2. Sole(committed, t)
    BY <1>2 DEF SoleInv
  <2> QED BY <2>1, <2>2 DEF Sole, SoleIn
<1> QED BY <1>3, <1>4

\* Only a deletion takes an interface that stays to the default table.
LEMMA ToDefault ==
  ASSUME vpp \in Vpps, NEW r, NEW c \in Config, NEW held, NEW op, Sound(op, c), NEW o,
         Effects(vpp, r, op, c, held, o), NEW i \in Iface, vpp.member[i] # Default,
         o.vpp.member[i] = Default, i \in o.vpp.exist
  PROVE  op.kind = "del-vrf" /\ i \in held
<1>1. CASE op.kind \in {"vnic", "set-table"}
  BY <1>1, RoutingAssumption DEF Effects, MovesVnic, Stays
<1>2. CASE op.kind = "vrf"
  <2>1. op.obj \in Table
    BY <1>2 DEF Sound, CommitOp
  <2>2. MovesVrf(vpp, r, op.obj, c.l3[op.obj], o)
    BY <1>2 DEF Effects
  <2> QED BY <2>1, <2>2, RoutingAssumption DEF MovesVrf, Stays
<1>3. CASE op.kind = "register"
  BY <1>3 DEF Effects, RegistersVrf
<1>4. CASE op.kind = "nat"
  BY <1>4 DEF Effects, Stays
<1>5. CASE op.kind = "del-vnic"
  <2>1. DropsVnic(vpp, r, op.obj, o)
    BY <1>5 DEF Effects
  <2>2. op.obj # i => o.vpp.member[i] = vpp.member[i]
    BY <2>1 DEF DropsVnic, Stays
  <2> QED BY <2>1, <2>2 DEF DropsVnic
<1>6. CASE op.kind = "del-vrf"
  BY <1>6 DEF Effects, DropsVrf
<1> QED BY <1>1, <1>2, <1>3, <1>4, <1>5, <1>6 DEF Sound, CommitOp, CommitKind

\* So a step spares the interfaces of the other VRFs.
LEMMA StepSpares ==
  ASSUME IInv, VInv, [Next]_vars, trusted, NEW i \in Iface, NEW t \in committed.vrfs,
         vpp.member[i] = t, Declares(committed, t, i), i \in Vnic => ~undone /\ AllHomed,
         vpp'.member[i] = Default, i \in vpp'.exist, up',
         ~DidVrf(t), ~Told(t), VrfOp(t) \notin job.todo, DelVrfOp(t) \notin job.todo
  PROVE  FALSE
<1> USE DEF IInv, VInv
<1>1. /\ committed \in Cfg /\ committed \in Config /\ job.new \in Config /\ rec.cfg \in Config
      /\ vpp \in Vpps /\ t \in Table
  BY ConfigsTyped, Apportioned DEF TypeOK
<1>2. t # Default /\ vpp'.member # vpp.member
  BY <1>1, RoutingAssumption
<1>3. ASSUME NEW new \in Cfg, Begin(new)
      PROVE  FALSE
  BY <1>2, <1>3, BeginDoes
<1>4. ASSUME NEW op \in job.todo, ReadRegistered(op)
      PROVE  FALSE
  BY <1>2, <1>4, ReadDoes
<1>5. ASSUME NEW op \in job.todo, RunOp(op)
      PROVE  FALSE
  <2>1. PICK o \in Answer : RunDoes(op, o)
    BY <1>5, RunOpDoes
  <2>2. /\ Running /\ Due(CommitBefore, job.todo, op) /\ CommitOp(op) /\ Sound(op, job.new)
        /\ op.kind = "del-vrf" /\ up => job.phase = "read"
    BY <1>5, RunOpDoes DEF Sound
  <2>3. Effects(vpp, reg, op, job.new, job.held, o) /\ vpp' = o.vpp
    BY <2>1 DEF RunDoes
  <2>4. op.kind = "del-vrf" /\ i \in job.held
    BY <1>1, <1>2, <2>2, <2>3, ToDefault
  <2>5. op.obj \in Table /\ op.obj # t
    BY <2>2, <2>4, OpIs DEF CommitOp
  <2>6. i \in reg.ifaces[op.obj] /\ job.phase # "idle"
    BY <2>2, <2>4 DEF TrustInv, CommitInv, Running
  <2> QED BY <2>5, <2>6, OnlyThere
<1>6. CASE UndoOp
  <2>1. PICK op \in Op, un \in Op : \E held \in SUBSET Iface : \E o \in Answer :
          CommitOp(op) /\ CommitOp(un) /\ UndoDoes(op, un, held, o)
    BY <1>6, UndoOpDoes
  <2>2. PICK held \in SUBSET Iface, o \in Answer :
          CommitOp(op) /\ CommitOp(un) /\ Sound(un, committed) /\ UndoDoes(op, un, held, o)
    BY <2>1 DEF Sound
  <2>3. /\ Effects(vpp, reg, un, committed, held, o) /\ vpp' = o.vpp /\ un = Inverse(op)
        /\ un.kind = "del-vrf" => held = reg.ifaces[un.obj]
    BY <2>2 DEF UndoDoes
  <2>4. un.kind = "del-vrf" /\ i \in held
    BY <1>1, <1>2, <2>2, <2>3, ToDefault
  <2>5. un.obj \in Table /\ un.obj # t
    BY <2>2, <2>3, <2>4 DEF Inverse, CommitOp, CommitKind
  <2>6. i \in reg.ifaces[un.obj] /\ job.phase # "idle"
    BY <2>2, <2>3, <2>4 DEF UndoDoes
  <2> QED BY <2>5, <2>6, OnlyThere
<1>7. CASE End
  BY <1>2, <1>7, EndOfCommit
<1>8. CASE VppRestart \/ DaemonRestart \/ Reconnect
  BY <1>2, <1>8 DEF VppRestart, DaemonRestart, Reconnect
<1>9. CASE RecoveryBegin \/ Patrol
  BY <1>2, <1>9, StartsDo DEF StartDoes
<1>10. ASSUME NEW op \in rec.todo, RecoveryStep(op)
       PROVE  FALSE
  <2>1. PICK o \in Answer : RecoveryDoes(op, o)
    BY <1>10, RecoveryStepDoes
  <2>2. /\ Effects(vpp, reg, op, rec.cfg, {}, o) /\ vpp' = o.vpp /\ Sound(op, rec.cfg)
    BY <1>10, <2>1, RecoveryStepDoes DEF RecoveryDoes
  <2> QED BY <1>1, <1>2, <2>2, ToDefault
<1>11. ASSUME NEW op \in rec.todo, RecoveryReset(op)
       PROVE  FALSE
  BY <1>2, <1>11, ResetDoes
<1>12. CASE RetryStep
  BY <1>2, <1>12, RetryStepDoes DEF RetryDoes
<1>15. CASE TellDeletion \/ TellResidue
  BY <1>2, <1>15, TellsDo DEF TellDoes
<1>13. ASSUME NEW op \in rec.todo, RecoveryEnd(op)
       PROVE  FALSE
  BY <1>2, <1>13, RecoveryEndDoes DEF EndDoes
<1>14. CASE UNCHANGED vars
  BY <1>2, <1>14 DEF vars
<1> QED BY <1>3, <1>4, <1>5, <1>6, <1>7, <1>8, <1>9, <1>10, <1>11, <1>12, <1>13, <1>14, <1>15,
           NextIs

-----------------------------------------------------------------------------
(* What holds of the VRFs of every instance *)

\* IInv and VInv are an invariant together.
THEOREM VrfInvariant == Spec => [](IInv /\ VInv)
<1>1. Init => IInv /\ VInv
  BY InitInv, InitVInv
<1>2. IInv /\ VInv /\ [Next]_vars => (IInv /\ VInv)'
  BY NextInv, NextVInv
<1> QED BY <1>1, <1>2, PTL DEF Spec

\* Between commits every declared VRF is in place or the last recovery has told that it is
\* not: until the next commit whatever that recovery met, and then through any sequence of
\* commits, failing ones too, as long as no VRF had to be undone (ApplyVRF, DeleteVRF,
\* EnsureConsistent and the order of the plan).
THEOREM VrfsConverge == Spec => []Converged
<1>1. IInv /\ VInv => Converged
  <2> SUFFICES ASSUME IInv, VInv, Quiet, replayed \/ (trusted /\ ~undone /\ AllHomed),
                      NEW t \in committed.vrfs
               PROVE  VrfOp(t) \in alarms.recovery \/ Placed(vpp, reg, committed, t)
    BY DEF Converged, InPlace, VrfOp
  <2>1. rec.todo = {} /\ job.phase = "idle"
    BY DEF Quiet, IInv, TypeOK
  <2>2. \A u : ~DidVrf(u)
    BY <2>1 DEF VInv, TrustInv, DidVrf, Did
  <2>3. Kept(committed, t)
    BY <2>1, <2>2 DEF VInv, PlacedInv
  <2> QED BY <2>3 DEF Kept
<1> QED BY <1>1, VrfInvariant, PTL

\* Deleting a VRF, in a commit or in its compensation, takes no interface out of a VRF
\* that declares it (DeleteVRF, reassignTable, ForgetVnfIface).
THEOREM DeletionsSpare == Spec => DeletionSpares
<1> DEFINE A == trusted => \A i \in Iface :
       LET t == vpp.member[i]
       IN /\ t \in committed.vrfs /\ Declares(committed, t, i)
          /\ i \in Vnic => ~undone /\ AllHomed
          /\ vpp'.member[i] = Default /\ i \in vpp'.exist /\ up'
          => \/ AlarmedVrf(t)
             \/ \E op \in job.todo \cup {job.done[n] : n \in DOMAIN job.done} :
                  op.kind \in {"vrf", "del-vrf"} /\ op.obj = t
<1>1. IInv /\ VInv /\ [Next]_vars => A
  <2> SUFFICES ASSUME IInv, VInv, [Next]_vars, trusted, NEW i \in Iface, NEW t \in committed.vrfs,
                      t = vpp.member[i], Declares(committed, t, i),
                      i \in Vnic => ~undone /\ AllHomed,
                      vpp'.member[i] = Default, i \in vpp'.exist, up', ~AlarmedVrf(t)
               PROVE  \E op \in job.todo \cup {job.done[n] : n \in DOMAIN job.done} :
                        op.kind \in {"vrf", "del-vrf"} /\ op.obj = t
    OBVIOUS
  <2>1. ~Told(t)
    BY DEF AlarmedVrf, Told, VrfOp, DelVrfOp
  <2>2. \/ DidVrf(t)
        \/ VrfOp(t) \in job.todo
        \/ DelVrfOp(t) \in job.todo
    BY <2>1, StepSpares
  <2>3. \E op \in job.todo \cup {job.done[n] : n \in DOMAIN job.done} :
          op = VrfOp(t) \/ op = DelVrfOp(t)
    BY <2>2 DEF DidVrf, Did
  <2> QED BY <2>3 DEF VrfOp, DelVrfOp
<1>2. [][A]_vars <=> DeletionSpares
  BY DEF DeletionSpares
<1> QED BY <1>1, <1>2, VrfInvariant, PTL DEF Spec
=============================================================================
