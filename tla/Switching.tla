------------------------------ MODULE Switching ------------------------------
(***************************************************************************)
(* L2 switching and the services of ports (internal/orchestrator/network:  *)
(* l2.go, bond.go, acl.go, services.go, lldp.go, vhost_user.go, memif.go,   *)
(* the gateways of l3.go and the binary API adapters): bridge domains,     *)
(* VLAN sub-interfaces, bonds, ACLs, mirroring, policers and LLDP.         *)
(*                                                                         *)
(* VPP knows an interface by an index, which it gives out again once the   *)
(* interface is gone; the providers remember indices in registries that    *)
(* are lost with the process.  A provider call is a set of outcomes        *)
(* [vpp, reg, ok, fault], one for its success and one for every VPP call   *)
(* in it that can fail.  Commits and recoveries take turns here; Routing   *)
(* lets them overlap.  A member of a memif pair is a vNIC as a vhost-user  *)
(* one, and an ACL is bound in one direction.                              *)
(***************************************************************************)
EXTENDS Integers, Sequences, FiniteSets

CONSTANTS
  Phys, Bond, Vnic,   \* ports: physical ones, bonds and vNICs
  Switch, Acl, Span, Qos,
  None,
  Vlan,               \* VLANs of switches, 0 for none
  Index,              \* the indices VPP gives out
  Cfg, Init0,         \* the configurations commits choose from, and the first
  MaxEvents           \* commits, failing VPP calls and restarts together (bound)

Port == Phys \cup Bond \cup Vnic

\* An interface: a port, its sub-interface for a VLAN, or the BVI of a switch.
IfName == (Port \cup Switch) \X Vlan
Stray == <<None, 0>>    \* an interface that was created and never named

\* members: of the declared bonds, {} for the others; ports: of the declared switches.
Config ==
  [members : [Bond -> SUBSET Phys], lacp : SUBSET Bond, vnics : SUBSET Vnic,
   switches : SUBSET Switch, ports : [Switch -> SUBSET Port], vlan : [Switch -> Vlan],
   gw : SUBSET Switch, acls : SUBSET Acl, guard : [Phys \cup Bond -> Acl \cup {None}],
   spans : [Span -> (Port \X Port) \cup {None}], qos : SUBSET Qos,
   policy : [Phys -> Qos \cup {None}], lldp : SUBSET Phys]

ASSUME SwitchingAssumption ==
  /\ 0 \in Vlan /\ Index \subseteq Nat \ {0} /\ MaxEvents \in Nat
  /\ Cfg \subseteq Config /\ Init0 \in Cfg

\* There are as many indices as interfaces.
ASSUME IndexAssumption ==
  IsFiniteSet(Index) /\ IsFiniteSet(IfName) /\ Cardinality(IfName) <= Cardinality(Index)

\* There are more than interfaces and what failing calls and restarts leave behind: an
\* index has 32 bits.
ASSUME RoomAssumption ==
  Cardinality(IfName) + MaxEvents * (Cardinality(Switch) + 1) < Cardinality(Index)

\* An interface is of one kind.
ASSUME KindsAssumption ==
  /\ Phys \cap Bond = {} /\ Phys \cap Vnic = {} /\ Bond \cap Vnic = {} /\ Port \cap Switch = {}
  /\ None \notin Port \cup Switch \cup Acl \cup Qos \cup IfName \cup {Stray}

\* What Validate demands: a port is of one switch, and what is referred to is declared.
ASSUME ConfigsAssumption ==
  \A c \in Cfg :
    /\ \A s, t \in c.switches : s # t => c.ports[s] \cap c.ports[t] = {}
    /\ \A s \in c.switches : c.ports[s] \cap Bond \subseteq {b \in Bond : c.members[b] # {}}
                           /\ c.ports[s] \cap Vnic \subseteq c.vnics
    /\ \A n \in Phys \cup Bond : c.guard[n] \in c.acls \cup {None}
    /\ \A p \in Phys : c.policy[p] \in c.qos \cup {None}

VARIABLES
  vpp,        \* the data plane
  reg,        \* the registries of the providers
  up,         \* VPP is connected and the recovery has run
  committed,
  job,        \* the commit or recovery under way
  alarms,     \* operations whose undo failed, operations a recovery could not converge
  scarred,    \* history: since VPP started an operation failed, a commit was cut short, or
              \* an operation took another's interface for the one it remembered
  displaced,  \* history: ports out of their bridge domain until their switch is applied
  events      \* commits, faults and restarts so far

vars == <<vpp, reg, up, committed, job, alarms, scarred, displaced, events>>

Order == <<"vnic", "acl", "bond", "prune", "bd", "span", "qos", "lldp", "iface", "del-bd",
           "del-bond", "del-vnic", "del-span", "del-qos", "del-acl">>
Op == [kind : {Order[n] : n \in DOMAIN Order},
       obj : Port \cup Switch \cup Acl \cup Span \cup Qos \cup {None}]

TypeOK ==
  /\ vpp \in [at : [Index -> IfName \cup {Stray, None}], bds : SUBSET Switch,
              in : [Index -> Switch \cup {None}], slave : [Phys -> Index \cup {0}],
              lacp : SUBSET Index, acls : SUBSET Acl, guard : [Index -> Acl \cup {None}],
              span : SUBSET (Index \X Index), qos : SUBSET Qos,
              input : [Index -> Qos \cup {None}], lldp : SUBSET Phys]
  /\ reg \in [attached : [Switch -> SUBSET Index], subifs : [Switch -> SUBSET Index],
              bvi : [Switch -> Index \cup {0}], bond : [Bond -> Index \cup {0}],
              members : [Bond -> SUBSET Phys], lacp : SUBSET Bond, acls : SUBSET Acl,
              bound : [Index -> Acl \cup {None}], span : [Span -> (Index \X Index) \cup {None}],
              policy : [Phys -> Qos \cup {None}], lldp : SUBSET Phys]
  /\ up \in BOOLEAN /\ committed \in Cfg
  /\ job.phase \in {"idle", "run", "undo", "recover"} /\ job.new \in Cfg
  /\ job.todo \subseteq Op /\ job.done \in Seq(Op)
  /\ alarms \subseteq Op /\ scarred \in BOOLEAN /\ displaced \subseteq Port
  /\ events \in 0..MaxEvents
  \* a port is a member of a bond that exists; what is not there has no properties
  /\ \A p \in Phys : vpp.slave[p] # 0 => vpp.at[vpp.slave[p]] # None
  /\ \A i \in Index : vpp.at[i] = None => vpp.in[i] = None /\ vpp.guard[i] = None

-----------------------------------------------------------------------------
(* VPP as the adapters use it *)

IndexOf(v, name) ==
  IF \E i \in Index : v.at[i] = name THEN CHOOSE i \in Index : v.at[i] = name ELSE 0
Exists(v, name) == IndexOf(v, name) # 0

\* New interfaces take indices that are free, each one of its own.
Create(v, names) ==
  LET free == {i \in Index : v.at[i] = None}
      f    == CHOOSE g \in [names -> free] : \A n, m \in names : g[n] = g[m] => n = m
  IN [v EXCEPT !.at = [i \in Index |-> IF \E n \in names : f[n] = i
                                       THEN CHOOSE n \in names : f[n] = i ELSE @[i]]]

\* An interface goes with its sub-interfaces and everything set on them.
Remove(v, I) ==
  LET gone == {i \in Index : \/ i \in I
                             \/ \E j \in I : v.at[i] # None /\ v.at[j] # None
                                             /\ v.at[j][2] = 0 /\ v.at[i][1] = v.at[j][1]}
  IN [v EXCEPT !.at    = [i \in Index |-> IF i \in gone THEN None ELSE @[i]],
               !.in    = [i \in Index |-> IF i \in gone THEN None ELSE @[i]],
               !.guard = [i \in Index |-> IF i \in gone THEN None ELSE @[i]],
               !.input = [i \in Index |-> IF i \in gone THEN None ELSE @[i]],
               !.slave = [p \in Phys |-> IF @[p] \in gone THEN 0 ELSE @[p]],
               !.lacp = @ \ gone, !.span = {x \in @ : gone \cap {x[1], x[2]} = {}}]

Attach(v, I, s) == [v EXCEPT !.in = [i \in Index |-> IF i \in I THEN s ELSE @[i]]]
Detach(v, I) == Attach(v, I, None)
Bind(v, f) == [v EXCEPT !.guard = [i \in Index |-> IF i \in DOMAIN f THEN f[i] ELSE @[i]]]

BridgeDomainAddDel(v, s, add) == [v EXCEPT !.bds = IF add THEN @ \cup {s} ELSE @ \ {s}]
ACLAddDel(v, a, add) == [v EXCEPT !.acls = IF add THEN @ \cup {a} ELSE @ \ {a}]
PolicerAddDel(v, q, add) == [v EXCEPT !.qos = IF add THEN @ \cup {q} ELSE @ \ {q}]
SpanSet(v, pair, on) == [v EXCEPT !.span = IF on THEN @ \cup {pair} ELSE @ \ {pair}]
BondMember(v, P, i) == [v EXCEPT !.slave = [p \in Phys |-> IF p \in P THEN i ELSE @[p]]]
PolicerInput(v, P, q) ==
  [v EXCEPT !.input = [i \in Index |-> IF \E p \in P : v.at[i] = <<p, 0>> THEN q ELSE @[i]]]
LldpSetInterface(v, on, off) == [v EXCEPT !.lldp = (@ \ off) \cup on]

\* After its start VPP has the physical ports and nothing else.
EmptyVpp ==
  Create([at |-> [i \in Index |-> None], bds |-> {}, in |-> [i \in Index |-> None],
          slave |-> [p \in Phys |-> 0], lacp |-> {}, acls |-> {},
          guard |-> [i \in Index |-> None], span |-> {}, qos |-> {},
          input |-> [i \in Index |-> None], lldp |-> {}], {<<p, 0>> : p \in Phys})

-----------------------------------------------------------------------------
(* Provider calls *)

Ok(v, r)     == [vpp |-> v, reg |-> r, ok |-> TRUE,  fault |-> FALSE]
Refuse(v, r) == [vpp |-> v, reg |-> r, ok |-> FALSE, fault |-> FALSE]
Broken(v, r) == [vpp |-> v, reg |-> r, ok |-> FALSE, fault |-> TRUE]

\* What a loop over indices in ascending order has done when it fails at one of them.
Cuts(I) == {{i \in I : i < n} : n \in I}

EmptyReg ==
  [attached |-> [s \in Switch |-> {}], subifs |-> [s \in Switch |-> {}],
   bvi |-> [s \in Switch |-> 0], bond |-> [b \in Bond |-> 0],
   members |-> [b \in Bond |-> {}], lacp |-> {}, acls |-> {},
   bound |-> [i \in Index |-> None], span |-> [s \in Span |-> None],
   policy |-> [p \in Phys |-> None], lldp |-> {}]

(* Bridge domains *)

Parents(c, s)  == {<<n, 0>> : n \in c.ports[s]}
Members(c, s)  == {<<n, c.vlan[s]>> : n \in c.ports[s]}
\* Mutant: the ACLs of bonds are overlooked.
SlipGuarded(c, s) == {n \in c.ports[s] \cap Phys : c.guard[n] # None}
Guarded(c, s)  == {n \in c.ports[s] \ Vnic : c.guard[n] # None}

\* A sub-interface is found by its name or created, and counts as attached at once.
Remember(r, s, I) == [r EXCEPT !.attached[s] = @ \cup I, !.subifs[s] = @ \cup I]
Resolve(v, r, c, s, names) ==
  LET w == Create(v, {n \in names : n[2] # 0 /\ ~Exists(v, n)})
  IN [vpp |-> w, reg |-> Remember(r, s, {IndexOf(w, n) : n \in {m \in names : m[2] # 0}})]

\* The gateway of the switch: the BVI that is in the bridge domain already, or a new one.
ApplyGateway(v, r, c, s) ==
  LET found == {i \in Index : v.at[i] = <<s, 0>> /\ v.in[i] = s}
      new   == Create(v, {<<s, 0>>})
      i     == CHOOSE j \in Index : new.at[j] = <<s, 0>> /\ v.at[j] = None
  IN IF s \notin c.gw \/ r.bvi[s] # 0 THEN {Ok(v, r)}
     ELSE IF found # {} THEN {Ok(v, [r EXCEPT !.bvi[s] = CHOOSE j \in found : TRUE]), Broken(v, r)}
     ELSE {Ok(Attach(new, {i}, s), [r EXCEPT !.bvi[s] = i]), Broken(v, r), Broken(new, r)}

\* Mutant: the members that were wanted are not registered.
SlipTakeStale(r, s, D) == r

\* The registry holds the members that were wanted, whatever becomes of those that
\* are to go.
TakeStale(r, s, D) == [r EXCEPT !.attached[s] = D]

\* Members are resolved, the ones that are no longer wanted detached, the wanted ones
\* attached and bound to their ACLs, in the order of their indices.
ApplyBridgeDomain(v, r, c, s) ==
  LET v1    == BridgeDomainAddDel(v, s, TRUE)
      here  == {n \in Members(c, s) : Exists(v, <<n[1], 0>>)}
      res   == Resolve(v1, r, c, s, Members(c, s))
      D     == {IndexOf(res.vpp, n) : n \in Members(c, s)}
      stale == res.reg.attached[s] \ D
      lost  == {i \in stale : v.at[i] = None}       \* VPP refuses an index that is gone
      r1    == TakeStale(res.reg, s, D)
      v2    == Detach(res.vpp, stale)
      v3    == Attach(v2, D, s)
      known == {n \in Guarded(c, s) : c.guard[n] \in r.acls}
      bind(N) == Bind(v3, [i \in {IndexOf(v, <<n, 0>>) : n \in N} |-> c.guard[v.at[i][1]]])
      note(N) == [r1 EXCEPT !.bound = [i \in Index |-> IF v.at[i] \in {<<n, 0>> : n \in N}
                                                       THEN c.guard[v.at[i][1]] ELSE @[i]]]
  IN IF here # Members(c, s)
     THEN {LET k == Resolve(v1, r, c, s, K) IN Refuse(k.vpp, k.reg) : K \in SUBSET here}
     ELSE IF lost # {}
     THEN {Refuse(Detach(res.vpp, {i \in stale : \A j \in lost : i < j}), r1)}
     ELSE IF known # Guarded(c, s)
     THEN {Refuse(bind(K), note(K)) : K \in SUBSET known}
     ELSE {Broken(v, r), Broken(v1, r)}
          \cup {Broken(Detach(res.vpp, I), r1) : I \in Cuts(stale)}
          \cup {Broken(Attach(v2, I, s), r1) : I \in Cuts(D)}
          \cup (IF known = {} THEN {} ELSE {Broken(v3, r1)})
          \cup ApplyGateway(bind(known), note(known), c, s)

\* The BVI first; then the registration is dropped, the members detached, the bridge
\* domain deleted, which VPP refuses while it has members, and the sub-interfaces, which
\* VPP refuses for one in a bridge domain and for an index that is no sub-interface's.
DeleteBridgeDomain(v, r, s) ==
  LET r1 == [r EXCEPT !.bvi[s] = 0]
      v1 == Remove(v, {r.bvi[s]} \ {0})
      I  == {i \in r.attached[s] : v1.at[i] # None}
      r2 == [r1 EXCEPT !.attached[s] = {}]
      v2 == Detach(v1, I)
      v3 == BridgeDomainAddDel(v2, s, FALSE)
      r3 == [r2 EXCEPT !.subifs[s] = {}]
      kept == {i \in r.subifs[s] : v3.at[i] # None /\ (v3.at[i][2] = 0 \/ v3.in[i] # None)}
  IN {Broken(v, r1)} \cup {Broken(Detach(v1, J), r2) : J \in Cuts(I)}
     \cup IF \E i \in Index : v2.in[i] = s THEN {Refuse(v2, r2)}
          ELSE IF kept # {}
          THEN {Refuse(Remove(v3, {i \in r.subifs[s] : \A j \in kept : i < j}), r3)}
          ELSE {Ok(Remove(v3, r.subifs[s]), r3), Broken(v2, r2), Broken(v3, r3)}

(* Bonds *)

\* The registry is written last.  A bond VPP has by name and the registry has not is
\* deleted first, and so is one whose mode changed.
ApplyBond(v, r, c, b) ==
  LET known == r.bond[b] # 0
      again == IF known THEN (b \in r.lacp) # (b \in c.lacp) ELSE Exists(v, <<b, 0>>)
      fresh == ~known \/ again
      v1 == IF ~again THEN v
            ELSE Remove(v, {IF known THEN r.bond[b] ELSE IndexOf(v, <<b, 0>>)})
      r1 == IF again THEN [r EXCEPT !.bond[b] = 0] ELSE r
      v2 == IF fresh THEN Create(v1, {<<b, 0>>}) ELSE v1
      i  == IF fresh THEN IndexOf(v2, <<b, 0>>) ELSE r.bond[b]
      old == IF fresh THEN {} ELSE r.members[b]
      gone == old \ c.members[b]
      add == c.members[b] \ old
      v3 == [BondMember(v2, gone, 0) EXCEPT !.lacp = IF b \in c.lacp THEN @ \cup {i} ELSE @]
      enslave(P) == BondMember(v3, P, i)
      taken == {p \in add : v3.slave[p] # 0}       \* VPP refuses a member of another bond
      r2 == [r1 EXCEPT !.bond[b] = i, !.members[b] = c.members[b],
                       !.lacp = IF b \in c.lacp THEN @ \cup {b} ELSE @ \ {b}]
  IN IF taken # {} THEN {Refuse(enslave(P), r1) : P \in SUBSET (add \ taken)}
     ELSE {Ok(enslave(add), r2), Broken(v, r), Broken(v1, r1), Broken(v3, r1)}
          \cup {Broken(enslave(P), r1) : P \in SUBSET add}
          \cup (IF fresh THEN {Broken(Create(v1, {Stray}), r1)} ELSE {})

ForgetBond(r, b) == [r EXCEPT !.bond[b] = 0, !.members[b] = {}, !.lacp = @ \ {b}]

\* The members are the registered ones and those VPP reports.
DeleteBond(v, r, b) ==
  LET i == IF r.bond[b] # 0 THEN r.bond[b] ELSE IndexOf(v, <<b, 0>>)
      P == {p \in Phys : v.slave[p] = i} \cup r.members[b]
  IN IF i = 0 THEN {Ok(v, r)}
     ELSE {Ok(Remove(BondMember(v, P, 0), {i}), ForgetBond(r, b))} \cup {Broken(BondMember(v, Q, 0), r) : Q \in SUBSET P}

\* Mutant: only the bonds of the registry are looked at.
SlipPruneBonds(v, r, c) ==
  LET I == {r.bond[b] : b \in {x \in Bond : c.members[x] = {}}} \ {0}
  IN {Ok(Remove(v, I), r)}

\* Every bond VPP has that is not declared goes, the nameless one included; one that
\* fails does not stop the others.
PruneBonds(v, r, c) ==
  LET undeclared == {i \in Index : \/ v.at[i] = Stray
                                   \/ \E b \in Bond : v.at[i] = <<b, 0>> /\ c.members[b] = {}}
      prune(I) == Remove(v, I)
      forget(I) == LET B == {b \in Bond : \E i \in I : v.at[i] = <<b, 0>>}
                   IN [r EXCEPT !.bond = [b \in Bond |-> IF b \in B THEN 0 ELSE @[b]],
                                !.members = [b \in Bond |-> IF b \in B THEN {} ELSE @[b]],
                                !.lacp = @ \ B]
  IN {Ok(prune(undeclared), forget(undeclared))}
     \cup {Broken(prune(I), forget(I)) : I \in {J \in SUBSET undeclared : J # undeclared}}

(* vNICs *)

ApplyVnic(v, r, n) ==
  IF Exists(v, <<n, 0>>) THEN {Ok(v, r), Broken(v, r)}
  ELSE {Ok(Create(v, {<<n, 0>>}), r), Broken(v, r)}

DeleteVnic(v, r, n) == {Ok(Remove(v, {IndexOf(v, <<n, 0>>)} \ {0}), r), Broken(v, r)}

(* ACLs *)

\* Found by the registry or by its tag, and replaced.
ApplyACL(v, r, a) ==
  {Ok(ACLAddDel(v, a, TRUE), [r EXCEPT !.acls = @ \cup {a}]), Broken(v, r)}

\* The registry first; one it does not know is nobody's.
DeleteACL(v, r, a) ==
  LET I  == {i \in Index : r.bound[i] = a}
      r1 == [r EXCEPT !.acls = @ \ {a}, !.bound = [i \in Index |-> IF i \in I THEN None ELSE @[i]]]
      unbind(J) == Bind(v, [i \in J |-> None])
      gone == \E i \in I : v.at[i] = None
  IN IF a \notin r.acls THEN {Ok(v, r1)}
     ELSE IF gone THEN {Refuse(unbind(J), r1) : J \in SUBSET {i \in I : v.at[i] # None}}
     ELSE {Broken(unbind(J), r1) : J \in SUBSET I}
          \cup IF \E i \in Index \ I : v.guard[i] = a THEN {Refuse(unbind(I), r1)}
               ELSE {Ok(ACLAddDel(unbind(I), a, FALSE), r1)}

(* Mirroring, policers, LLDP *)

ApplySpan(v, r, c, s) ==
  LET src == IndexOf(v, <<c.spans[s][1], 0>>)
      dst == IndexOf(v, <<c.spans[s][2], 0>>)
  IN IF 0 \in {src, dst} THEN {Refuse(v, r)}
     ELSE {Ok(SpanSet(v, <<src, dst>>, TRUE), [r EXCEPT !.span[s] = <<src, dst>>]),
           Broken(v, r)}

DeleteSpan(v, r, s) ==
  LET r1 == [r EXCEPT !.span[s] = None]
  IN IF r.span[s] = None THEN {Ok(v, r)}
     ELSE {Ok(SpanSet(v, r.span[s], FALSE), r1), Broken(v, r1)}

ApplyQos(v, r, q) == {Ok(PolicerAddDel(v, q, TRUE), r), Broken(v, r)}

\* The ports it is bound to are forgotten before they are released.
DeleteQos(v, r, q) ==
  LET P  == {p \in Phys : r.policy[p] = q}
      r1 == [r EXCEPT !.policy = [p \in Phys |-> IF p \in P THEN None ELSE @[p]]]
  IN {Ok(PolicerAddDel(PolicerInput(v, P, None), q, FALSE), r1)}
     \cup {Broken(PolicerInput(v, Q, None), r1) : Q \in SUBSET P}

\* Mutant: the registry is all that changes.
SlipApplyInterface(v, r, c, p) ==
  {Ok(v, [r EXCEPT !.policy[p] = c.policy[p]]), Broken(v, r)}

\* The registry says that the policy is bound before VPP is asked; VPP refuses a
\* policer it has not.
ApplyInterface(v, r, c, p) ==
  LET old == r.policy[p]
      new == c.policy[p]
      r1  == [r EXCEPT !.policy[p] = new]
      v1  == IF old = None THEN v ELSE PolicerInput(v, {p}, None)
  IN IF old = new THEN {Ok(v, r), Broken(v, r)}
     ELSE IF old # None /\ old \notin v.qos THEN {Refuse(v, r1)}
     ELSE IF new # None /\ new \notin v.qos THEN {Refuse(v1, r1)}
     ELSE {Ok(PolicerInput(v, {p}, new), r1), Broken(v, r), Broken(v, r1), Broken(v1, r1)}

\* What is declared is switched on, what the registry has besides is switched off.
ApplyLLDP(v, r, c) ==
  LET set(P) == LldpSetInterface(v, c.lldp \cap P, r.lldp \cap P)
  IN {Ok(set(Phys), [r EXCEPT !.lldp = c.lldp])}
     \cup {Broken(set(P), r) : P \in {Q \in SUBSET Phys : Q # Phys}}

-----------------------------------------------------------------------------
(* An operation, run for configuration c *)

Outcomes(op, c) ==
  CASE op.kind = "vnic"     -> ApplyVnic(vpp, reg, op.obj)
    [] op.kind = "acl"      -> ApplyACL(vpp, reg, op.obj)
    [] op.kind = "bond"     -> ApplyBond(vpp, reg, c, op.obj)
    [] op.kind = "prune"    -> PruneBonds(vpp, reg, c)
    [] op.kind = "bd"       -> ApplyBridgeDomain(vpp, reg, c, op.obj)
    [] op.kind = "span"     -> ApplySpan(vpp, reg, c, op.obj)
    [] op.kind = "qos"      -> ApplyQos(vpp, reg, op.obj)
    [] op.kind = "lldp"     -> ApplyLLDP(vpp, reg, c)
    [] op.kind = "iface"    -> ApplyInterface(vpp, reg, c, op.obj)
    [] op.kind = "del-bd"   -> DeleteBridgeDomain(vpp, reg, op.obj)
    [] op.kind = "del-bond" -> DeleteBond(vpp, reg, op.obj)
    [] op.kind = "del-vnic" -> DeleteVnic(vpp, reg, op.obj)
    [] op.kind = "del-span" -> DeleteSpan(vpp, reg, op.obj)
    [] op.kind = "del-qos"  -> DeleteQos(vpp, reg, op.obj)
    [] op.kind = "del-acl"  -> DeleteACL(vpp, reg, op.obj)

\* What an operation takes out of the bridge domain of another switch, or of its own when
\* the interface itself goes; what of it the operation is about: a bond made anew, and the
\* ports a switch had that another one has attached before.
TakenOut(op, o) ==
  {vpp.at[i][1] : i \in {j \in Index : vpp.in[j] \notin {None, op.obj} /\ o.vpp.in[j] = None}}
Former(op) ==
  CASE op.kind = "bond" -> {op.obj}
    [] op.kind \in {"bd", "del-bd"} -> committed.ports[op.obj]
    [] OTHER -> {}

\* One of the outcomes happens; a failing VPP call uses up the bound.
Take(op, o, c) ==
  /\ o.fault => events < MaxEvents
  /\ events' = IF o.fault THEN events + 1 ELSE events
  /\ scarred' = (scarred \/ ~o.ok \/ (op.kind \in {"bd", "del-bd"} /\ ~(TakenOut(op, o) \subseteq Former(op))))
  /\ displaced' = (displaced \ IF op.kind = "bd" /\ o.ok THEN c.ports[op.obj] ELSE {})
                    \cup (TakenOut(op, o) \cap Former(op))
  /\ vpp' = o.vpp /\ reg' = o.reg

Rank(op) == CHOOSE n \in DOMAIN Order : Order[n] = op.kind
Due(ops) == {op \in ops : \A p \in ops : Rank(op) <= Rank(p)}

-----------------------------------------------------------------------------
(* Commits (orchestrator/apply.go) *)

Bonds(c) == {b \in Bond : c.members[b] # {}}
Spans(c) == {s \in Span : c.spans[s] # None}
Ops(kind, objs) == [kind : {kind}, obj : objs]

\* A switch is applied when its declaration, its ports or their ACLs changed; the
\* physical ports are always declared.
Plan(old, new) ==
  LET other(s) == \/ s \notin old.switches \/ old.ports[s] # new.ports[s]
                  \/ old.vlan[s] # new.vlan[s] \/ (s \in old.gw) # (s \in new.gw)
                  \/ \E n \in new.ports[s] \ Vnic : old.guard[n] # new.guard[n]
      bond(b) == old.members[b] # new.members[b] \/ (b \in old.lacp) # (b \in new.lacp)
  IN Ops("vnic", new.vnics \ old.vnics) \cup Ops("acl", new.acls \ old.acls)
     \cup Ops("bond", {b \in Bonds(new) : bond(b)})
     \cup Ops("bd", {s \in new.switches : other(s)})
     \cup Ops("span", {s \in Spans(new) : old.spans[s] # new.spans[s]})
     \cup Ops("qos", new.qos \ old.qos)
     \cup Ops("lldp", IF old.lldp = new.lldp THEN {} ELSE {None})
     \cup Ops("iface", {p \in Phys : old.policy[p] # new.policy[p]})
     \cup Ops("del-bd", old.switches \ new.switches)
     \cup Ops("del-bond", Bonds(old) \ Bonds(new)) \cup Ops("del-vnic", old.vnics \ new.vnics)
     \cup Ops("del-span", Spans(old) \ Spans(new)) \cup Ops("del-qos", old.qos \ new.qos)
     \cup Ops("del-acl", old.acls \ new.acls)

Begin(new) ==
  /\ job.phase = "idle" /\ up /\ new # committed
  /\ events < MaxEvents /\ events' = events + 1
  /\ job' = [phase |-> "run", new |-> new, todo |-> Plan(committed, new), done |-> << >>]
  /\ UNCHANGED <<vpp, reg, up, committed, alarms, scarred, displaced>>

\* Operations of one kind come in the order of the configuration, or in any when they
\* delete.  The operation that failed is not undone itself.
RunOp ==
  /\ job.phase = "run" /\ job.todo # {}
  /\ \E op \in Due(job.todo) : \E o \in Outcomes(op, job.new) :
          /\ Take(op, o, job.new)
          /\ job' = IF o.ok THEN [job EXCEPT !.todo = @ \ {op}, !.done = Append(@, op)]
                    ELSE [job EXCEPT !.phase = "undo", !.todo = {}]
          /\ alarms' = IF o.ok THEN alarms \ {op} ELSE alarms
  /\ UNCHANGED <<up, committed>>

\* The old setting again, or the deletion of what the old configuration lacks; an
\* interface always has an old setting.
Undo(op) ==
  LET pair == CHOOSE x \in {<<"vnic", "del-vnic", committed.vnics>>, <<"acl", "del-acl", committed.acls>>,
                            <<"bond", "del-bond", Bonds(committed)>>,
                            <<"bd", "del-bd", committed.switches>>,
                            <<"span", "del-span", Spans(committed)>>,
                            <<"qos", "del-qos", committed.qos>>,
                            <<"lldp", "lldp", {None}>>, <<"iface", "iface", Phys>>} :
                op.kind \in {x[1], x[2]}
  IN [op EXCEPT !.kind = IF op.obj \in pair[3] THEN pair[1] ELSE pair[2]]

UndoOp ==
  /\ job.phase = "undo" /\ job.done # << >>
  /\ LET op == job.done[Len(job.done)]
     IN \E o \in Outcomes(Undo(op), committed) :
          /\ Take(Undo(op), o, committed)
          /\ alarms' = IF o.ok THEN alarms ELSE alarms \cup {op}
  /\ job' = [job EXCEPT !.done = SubSeq(@, 1, Len(@) - 1)]
  /\ UNCHANGED <<up, committed>>

End ==
  /\ \/ job.phase = "run" /\ job.todo = {} /\ committed' = job.new
     \/ job.phase = "undo" /\ job.done = << >> /\ UNCHANGED committed
  /\ job' = [job EXCEPT !.phase = "idle", !.done = << >>]
  /\ UNCHANGED <<vpp, reg, up, alarms, scarred, displaced, events>>

-----------------------------------------------------------------------------
(* Restarts and recovery (recovery.go) *)

VppRestart ==
  /\ events < MaxEvents /\ events' = events + 1
  /\ job.phase \in {"idle", "recover"}
  /\ vpp' = EmptyVpp /\ up' = FALSE /\ scarred' = FALSE
  /\ job' = [job EXCEPT !.phase = "idle", !.todo = {}]
  /\ UNCHANGED <<reg, committed, alarms, displaced>>

DaemonRestart ==
  /\ events < MaxEvents /\ events' = events + 1
  /\ reg' = EmptyReg /\ up' = FALSE /\ alarms' = {}
  /\ scarred' = (scarred \/ job.phase \in {"run", "undo"})
  /\ job' = [phase |-> "idle", new |-> committed, todo |-> {}, done |-> << >>]
  /\ UNCHANGED <<vpp, committed, displaced>>

\* Everything that is declared is applied again, and the bonds besides pruned.
Replay(c) ==
  Ops("vnic", c.vnics) \cup Ops("acl", c.acls) \cup Ops("bond", Bonds(c)) \cup Ops("prune", {None})
  \cup Ops("bd", c.switches) \cup Ops("span", Spans(c)) \cup Ops("qos", c.qos)
  \cup Ops("lldp", IF c.lldp = {} THEN {} ELSE {None}) \cup Ops("iface", Phys)

Recover ==
  /\ ~up /\ job.phase = "idle"
  /\ reg' = EmptyReg
  /\ job' = [phase |-> "recover", new |-> committed, todo |-> Replay(committed), done |-> << >>]
  /\ UNCHANGED <<vpp, up, committed, alarms, scarred, displaced, events>>

\* What fails is recorded and the rest goes on; the alarms become what this recovery
\* could not converge.
RecoverOp ==
  /\ job.phase = "recover" /\ job.todo # {}
  /\ \E op \in Due(job.todo) : \E o \in Outcomes(op, committed) :
          /\ Take(op, o, committed)
          /\ job' = [job EXCEPT !.todo = @ \ {op}, !.done = IF o.ok THEN @ ELSE Append(@, op)]
  /\ UNCHANGED <<up, committed, alarms>>

RecoverEnd ==
  /\ job.phase = "recover" /\ job.todo = {}
  /\ alarms' = {job.done[n] : n \in DOMAIN job.done} /\ up' = TRUE
  /\ job' = [job EXCEPT !.phase = "idle", !.done = << >>]
  /\ UNCHANGED <<vpp, reg, committed, scarred, displaced, events>>

-----------------------------------------------------------------------------

Init ==
  /\ vpp = EmptyVpp /\ reg = EmptyReg /\ up = FALSE /\ committed = Init0
  /\ job = [phase |-> "idle", new |-> Init0, todo |-> {}, done |-> << >>]
  /\ alarms = {} /\ scarred = FALSE /\ displaced = {} /\ events = 0

Next ==
  \/ \E new \in Cfg : Begin(new)
  \/ RunOp \/ UndoOp \/ End
  \/ VppRestart \/ DaemonRestart \/ Recover \/ RecoverOp \/ RecoverEnd

Spec == Init /\ [][Next]_vars

-----------------------------------------------------------------------------
(* Properties *)

Settled == up /\ job.phase = "idle"
Smooth == Settled /\ ~scarred /\ alarms = {}

InBridge(s) == {vpp.at[i] : i \in {j \in Index : vpp.in[j] = s}}

\* An interface is in the bridge domain of the switch that declares it and in no other: a
\* frame neither leaks to a switch nor is lost.  But for a bond made anew or a port that
\* changed switches, until its switch is applied again, and for the BVI of a gateway no
\* longer declared.
Bridged ==
  Smooth =>
    /\ \A s \in committed.switches :
         /\ InBridge(s) \subseteq Members(committed, s) \cup {<<s, 0>>}
         /\ \A n \in Members(committed, s) : n \in InBridge(s) \/ n[1] \in displaced
         /\ s \in committed.gw => <<s, 0>> \in InBridge(s)
    /\ \A s \in Switch \ committed.switches : InBridge(s) = {} /\ s \notin vpp.bds

\* A port that declares an ACL is filtered by it, and an ACL that is no longer
\* declared filters nothing.
Filtered ==
  Smooth =>
    /\ \A s \in committed.switches : \A n \in (committed.ports[s] \ Vnic) \ displaced : committed.guard[n] # None =>
         \E i \in Index : vpp.at[i] = <<n, 0>> /\ vpp.guard[i] = committed.guard[n]
    /\ \A i \in Index : vpp.guard[i] \in committed.acls \cup {None}

\* After a recovery that reports no failure the bonds of VPP are the declared ones with
\* the declared members, and what else is declared is in force, whatever a commit that
\* failed or was cut short had left behind.
RecoveryConverges ==
  [][RecoverEnd /\ alarms' = {} =>
       /\ {vpp.at[i][1] : i \in {j \in Index : vpp.at[j] # None}} \cap (Bond \cup {None}) = Bonds(committed)
       /\ \A b \in Bond : {p \in Phys : \E i \in Index : vpp.slave[p] = i /\ vpp.at[i] = <<b, 0>>}
                            = committed.members[b]
       /\ \A s \in committed.switches : Members(committed, s) \subseteq InBridge(s)
       /\ \A p \in Phys : committed.policy[p] \in {None, vpp.input[IndexOf(vpp, <<p, 0>>)]}]_vars

\* The policer a port declares is the one bound to it, and none without declaration.
Policed ==
  Smooth => \A p \in Phys : vpp.input[IndexOf(vpp, <<p, 0>>)] = committed.policy[p]

-----------------------------------------------------------------------------
(* What the comments say and the code does not do *)

\* "Converges the switch to the bridge domain: ... attaches the target ports" (l2.go): the
\* members of a declared switch are in its bridge domain after a commit that succeeded.
\* A port that moves to a switch that is applied earlier is detached by the one it leaves.
MovedPortsBridged ==
  Smooth => \A s \in committed.switches : \A n \in Members(committed, s) :
              n \in InBridge(s) \/ n[1] \in Bond

\* "Reclaims the VLAN sub-interfaces this switch created" (l2.go), and detaches "the
\* members that no longer belong to the bridge domain": an operation on a switch takes no
\* interface but its own former ports out of another bridge domain.  The indices it goes by may
\* have been given out again since, when a bond was made anew.
OthersSpared ==
  [][RunOp => \A op \in job.todo \ job'.todo :
       op.kind \in {"bd", "del-bd"} => TakenOut(op, [vpp |-> vpp']) \subseteq Former(op)]_vars
=============================================================================
