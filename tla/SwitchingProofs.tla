--------------------------- MODULE SwitchingProofs --------------------------
(***************************************************************************)
(* Theorems about Switching, for any number of ports, bonds, switches,     *)
(* VLANs, ACLs and policers, every set of configurations that Validate     *)
(* accepts, and any number of commits, faults, restarts and recoveries.    *)
(***************************************************************************)
EXTENDS Switching, FiniteSetTheorems, FunctionTheorems, SequenceTheorems, TLAPS

-----------------------------------------------------------------------------
(* The inductive invariant *)

\* The types of the data plane and the registries while no operation failed: every
\* interface has a name.
VppType ==
  [at : [Index -> IfName \cup {None}], bds : SUBSET Switch,
   in : [Index -> Switch \cup {None}], slave : [Phys -> Index \cup {0}],
   lacp : SUBSET Index, acls : SUBSET Acl, guard : [Index -> Acl \cup {None}],
   span : SUBSET (Index \X Index), qos : SUBSET Qos,
   input : [Index -> Qos \cup {None}], lldp : SUBSET Phys]

RegType ==
  [attached : [Switch -> SUBSET Index], subifs : [Switch -> SUBSET Index],
   bvi : [Switch -> Index \cup {0}], bond : [Bond -> Index \cup {0}],
   members : [Bond -> SUBSET Phys], lacp : SUBSET Bond, acls : SUBSET Acl,
   bound : [Index -> Acl \cup {None}], span : [Span -> (Index \X Index) \cup {None}],
   policy : [Phys -> Qos \cup {None}], lldp : SUBSET Phys]

JobType ==
  [phase : {"idle", "run", "undo", "recover"}, new : Cfg, todo : SUBSET Op, done : Seq(Op)]

\* Where the work is: a commit runs, a recovery runs, VPP or the daemon is down and a
\* recovery is due, or nothing is to be done.  The configuration it works towards, the
\* operations that are still to come, and the registries they go by, which a recovery
\* empties when it begins.
Stage == IF job.phase \in {"run", "recover"} THEN job.phase ELSE IF up THEN "settled" ELSE "down"
Target == IF job.phase = "run" THEN job.new ELSE committed
Todo == IF Stage = "down" THEN Replay(committed) ELSE job.todo
Known == IF Stage = "down" THEN EmptyReg ELSE reg

Waits(P, kind, x) == [kind |-> kind, obj |-> x] \in P

\* What an operation that is to come is about.
Fits(op, m, c) ==
  /\ op.kind = "vnic" => op.obj \in c.vnics
  /\ op.kind = "acl" => op.obj \in c.acls
  /\ op.kind = "bond" => op.obj \in Bonds(c)
  /\ op.kind = "bd" => op.obj \in c.switches
  /\ op.kind = "iface" => op.obj \in Phys
  /\ op.kind = "span" => op.obj \in Spans(c)
  /\ op.kind = "qos" => op.obj \in c.qos
  /\ op.kind = "prune" => m = "recover"
  /\ op.kind = "del-bd" => m = "run" /\ op.obj \in Switch \ c.switches
  /\ op.kind = "del-bond" => op.obj \in Bond \ Bonds(c)
  /\ op.kind = "del-vnic" => op.obj \in Vnic \ c.vnics
  /\ op.kind = "del-span" => op.obj \in Span
  /\ op.kind = "del-qos" => m = "run" /\ op.obj \in Qos \ c.qos
  /\ op.kind = "del-acl" => m = "run" /\ op.obj \in Acl \ c.acls

\* No two interfaces have one name; physical ports never go; a sub-interface has its port;
\* a BVI is in the bridge domain of its switch.
Named(v) ==
  /\ \A i, j \in Index : v.at[i] = v.at[j] /\ v.at[i] # None => i = j
  /\ \A p \in Phys : \E i \in Index : v.at[i] = <<p, 0>>
  /\ \A i \in Index : v.at[i] = None => v.in[i] = None
  /\ \A i \in Index, n \in Port, w \in Vlan : v.at[i] = <<n, w>> => \E j \in Index : v.at[j] = <<n, 0>>
  /\ \A i \in Index, s \in Switch, w \in Vlan : v.at[i] = <<s, w>> => w = 0 /\ v.in[i] = s

\* What the registries say is so, and every member of a bridge domain is registered with
\* its switch, until a recovery has applied the switch again.
Registered(v, r, m, P) ==
  /\ \A s \in Switch : r.bvi[s] # 0 => v.at[r.bvi[s]] = <<s, 0>>
  /\ \A b \in Bond : r.bond[b] # 0 => v.at[r.bond[b]] = <<b, 0>>
  /\ \A i \in Index, s \in Switch : v.at[i] = <<s, 0>> => i \notin r.attached[s]
  /\ \A i \in Index, s \in Switch :
       v.in[i] = s => \/ i \in r.attached[s]
                      \/ v.at[i] = <<s, 0>>
                      \/ m = "recover" /\ Waits(P, "bd", s)

\* A physical port is policed by what is declared once its operation has run; before that,
\* in a commit, by what the registry says, and otherwise by what is declared or nothing.
Policies(v, r, m, c, P) ==
  \A p \in Phys, i \in Index : v.at[i] = <<p, 0>> =>
    /\ m \in {"run", "settled"} => v.input[i] = r.policy[p]
    /\ m # "down" /\ ~Waits(P, "iface", p) => v.input[i] = c.policy[p] /\ r.policy[p] = c.policy[p]
    /\ m = "recover" /\ Waits(P, "iface", p) => r.policy[p] = None
    /\ m # "run" => v.input[i] \in {None, c.policy[p]}

\* An ACL that filters is declared or about to be deleted, the registries know those that
\* must be deleted and those that filter, and the ports of a switch that has been applied
\* are filtered by what they declare.
Filters(v, r, m, c, P, D) ==
  /\ \A i \in Index : v.guard[i] \in c.acls \cup {None} \/ (m = "run" /\ Waits(P, "del-acl", v.guard[i]))
  /\ m # "down" => \A a \in Acl : (a \in c.acls /\ ~Waits(P, "acl", a)) \/ Waits(P, "del-acl", a) => a \in r.acls
  /\ m # "down" => \A i \in Index : r.bound[i] = None \/ v.guard[i] = None \/ r.bound[i] = v.guard[i]
  /\ m # "down" => \A s \in c.switches, i \in Index : \A n \in c.ports[s] \ (Vnic \cup D) :
       v.at[i] = <<n, 0>> /\ ~Waits(P, "bd", s) => v.guard[i] = c.guard[n] \/ c.guard[n] = None

\* Only members of a declared switch are in its bridge domain, and they all are unless they
\* are displaced or the switch is still to be applied; of a switch that is not declared
\* nothing is left once its deletion has run.
Bridges(v, m, c, P, D) ==
  /\ \A s \in c.switches, i \in Index :
       v.in[i] = s /\ ~(m = "run" /\ Waits(P, "bd", s)) => v.at[i] \in Members(c, s) \cup {<<s, 0>>}
  /\ m # "down" => \A s \in c.switches : ~Waits(P, "bd", s) =>
       /\ \A n \in Members(c, s) : n[1] \in D \/ \E i \in Index : v.at[i] = n /\ v.in[i] = s
       /\ s \in c.gw => \E i \in Index : v.at[i] = <<s, 0>>
  /\ \A s \in Switch \ c.switches : ~Waits(P, "del-bd", s) => s \notin v.bds /\ \A i \in Index : v.in[i] # s

\* The data plane v and the registries r are right for the configuration c, but for what
\* the operations P that are to come are about and the displaced ports D.
Sound(v, r, m, c, P, D) ==
  /\ v \in VppType /\ r \in RegType
  /\ Named(v) /\ (m # "down" => Registered(v, r, m, P))
  /\ Policies(v, r, m, c, P) /\ Filters(v, r, m, c, P, D) /\ Bridges(v, m, c, P, D)

\* How commits and recoveries stand.
Progress ==
  /\ committed \in Cfg /\ job \in JobType /\ up \in BOOLEAN
  /\ job.phase = "run" => up
  /\ job.phase = "recover" => ~up
  /\ job.phase = "undo" => scarred
  /\ job.phase \in {"idle", "undo"} => job.todo = {}
  /\ \A op \in job.todo : Fits(op, Stage, Target)

SwitchingInv == Progress /\ (~scarred => Sound(vpp, Known, Stage, Target, Todo, displaced))

-----------------------------------------------------------------------------
(* Lemmas about VPP *)

\* The kinds of operations.
LEMMA OpKinds ==
  ASSUME NEW op \in Op
  PROVE  /\ op.kind \in {"vnic", "acl", "bond", "prune", "bd", "span", "qos", "lldp", "iface",
                         "del-bd", "del-bond", "del-vnic", "del-span", "del-qos", "del-acl"}
         /\ op = [kind |-> op.kind, obj |-> op.obj]
         /\ op.obj \in Port \cup Switch \cup Acl \cup Span \cup Qos \cup {None}
  BY DEF Op, Order

\* The types of a configuration, and what Validate says of it.
LEMMA ConfigTypes ==
  ASSUME NEW c \in Cfg
  PROVE  /\ c.members \in [Bond -> SUBSET Phys] /\ c.lacp \subseteq Bond /\ c.vnics \subseteq Vnic
         /\ c.switches \subseteq Switch /\ c.ports \in [Switch -> SUBSET Port]
         /\ c.vlan \in [Switch -> Vlan] /\ c.gw \subseteq Switch /\ c.acls \subseteq Acl
         /\ c.guard \in [Phys \cup Bond -> Acl \cup {None}] /\ c.qos \subseteq Qos
         /\ c.spans \in [Span -> (Port \X Port) \cup {None}]
         /\ c.policy \in [Phys -> Qos \cup {None}] /\ c.lldp \subseteq Phys
  BY SwitchingAssumption DEF Config

\* What Validate demands of the configurations a commit chooses from.
LEMMA ConfigValid ==
  ASSUME NEW c \in Cfg
  PROVE  /\ \A s, t \in c.switches : s # t => c.ports[s] \cap c.ports[t] = {}
         /\ \A s \in c.switches : c.ports[s] \cap Bond \subseteq Bonds(c) /\ c.ports[s] \cap Vnic \subseteq c.vnics
         /\ \A n \in Phys \cup Bond : c.guard[n] \in c.acls \cup {None}
         /\ \A p \in Phys : c.policy[p] \in c.qos \cup {None}
  BY ConfigsAssumption DEF Bonds

\* The distinct kinds of interfaces have distinct names.
LEMMA Kinds ==
  /\ \A n \in Port \cup Switch \cup Acl \cup Qos \cup IfName : n # None
  /\ \A n \in Port : n \notin Switch
  /\ \A p \in Phys : p \notin Bond \cup Vnic \cup Switch
  /\ \A b \in Bond : b \notin Phys \cup Vnic \cup Switch
  /\ \A x \in Vnic : x \notin Phys \cup Bond \cup Switch
  BY KindsAssumption DEF Port

\* No two interfaces have one name.
Distinct(v) == \A i, j \in Index : v.at[i] = v.at[j] /\ v.at[i] # None => i = j

\* There is an index for every interface that VPP has not yet.
LEMMA Room ==
  ASSUME NEW v \in VppType, Distinct(v), NEW names \in SUBSET IfName,
         \A i \in Index : v.at[i] \notin names
  PROVE  \E g \in [names -> {i \in Index : v.at[i] = None}] :
           \A n, m \in names : g[n] = g[m] => n = m
<1> DEFINE occ == {i \in Index : v.at[i] # None}
           free == {i \in Index : v.at[i] = None}
           A == {x \in IfName : \E i \in occ : v.at[i] = x}
           f == [i \in occ |-> v.at[i]]
<1>1. v.at \in [Index -> IfName \cup {None}] /\ \A i, j \in Index : v.at[i] = v.at[j] /\ v.at[i] # None => i = j
  BY DEF VppType, Distinct
<1>2. f \in Bijection(occ, A)
  <2>1. f \in [occ -> A]
    BY <1>1
  <2>2. \A i, j \in occ : f[i] = f[j] => i = j
    BY <1>1
  <2>3. \A x \in A : \E i \in occ : f[i] = x
    OBVIOUS
  <2> QED BY <2>1, <2>2, <2>3, Fun_IsBij
<1>3. /\ IsFiniteSet(Index) /\ IsFiniteSet(IfName) /\ Cardinality(IfName) <= Cardinality(Index)
      /\ Cardinality(Index) \in Nat /\ Cardinality(IfName) \in Nat
  BY IndexAssumption, FS_CardinalityType
<1>4. /\ IsFiniteSet(occ) /\ IsFiniteSet(A) /\ Cardinality(A) = Cardinality(occ) /\ Cardinality(occ) \in Nat
  <2>1. IsFiniteSet(occ) /\ occ \subseteq Index
    BY <1>3, FS_Subset
  <2> HIDE DEF occ, A, f
  <2>2. ExistsBijection(occ, A)
    BY <1>2 DEF ExistsBijection
  <2> QED BY <2>1, <2>2, FS_Bijection, FS_CardinalityType
<1>5. IsFiniteSet(free) /\ Cardinality(free) = Cardinality(Index) - Cardinality(occ)
  <2>1. free = Index \ occ /\ Index \cap occ = occ
    OBVIOUS
  <2> HIDE DEF occ, A, f, free
  <2>2. /\ IsFiniteSet(Index \ occ)
        /\ Cardinality(Index \ occ) = Cardinality(Index) - Cardinality(Index \cap occ)
    BY <1>3, FS_Difference
  <2> QED BY <2>1, <2>2
<1>6. IsFiniteSet(IfName \ A) /\ Cardinality(IfName \ A) = Cardinality(IfName) - Cardinality(occ)
  <2>1. IfName \cap A = A
    OBVIOUS
  <2> HIDE DEF occ, A, f, free
  <2>2. IsFiniteSet(IfName \ A) /\ Cardinality(IfName \ A) = Cardinality(IfName) - Cardinality(IfName \cap A)
    BY <1>3, FS_Difference
  <2> QED BY <2>1, <2>2, <1>4
<1>7. IsFiniteSet(names) /\ Cardinality(names) <= Cardinality(free) /\ Cardinality(names) \in Nat /\ Cardinality(free) \in Nat
  <2>1. names \in SUBSET (IfName \ A)
    BY <1>1
  <2> HIDE DEF occ, A, f, free
  <2>2. IsFiniteSet(names) /\ Cardinality(names) <= Cardinality(IfName \ A)
    BY <2>1, <1>6, FS_Subset
  <2>3. Cardinality(names) \in Nat /\ Cardinality(free) \in Nat
    BY <2>2, <1>5, FS_CardinalityType
  <2> QED BY <2>2, <2>3, <1>3, <1>4, <1>5, <1>6
<1> HIDE DEF occ, A, f, free
<1> DEFINE N == Cardinality(names)
           M == Cardinality(free)
<1>8. PICK h \in Bijection(1..N, names) : TRUE
  BY <1>7, FS_CardinalityType DEF ExistsBijection
<1>9. PICK k \in Bijection(1..M, free) : TRUE
  BY <1>5, FS_CardinalityType DEF ExistsBijection
<1> DEFINE rank(n) == CHOOSE j \in 1..N : h[j] = n
<1>10. /\ \A n \in names : rank(n) \in 1..N /\ h[rank(n)] = n
  <2>1. \A n \in names : \E j \in 1..N : h[j] = n
    BY <1>8 DEF Bijection, Surjection
  <2> QED BY <2>1
<1>11. /\ \A j \in 1..N : k[j] \in free
       /\ \A i, j \in 1..N : k[i] = k[j] => i = j
  <2>1. k \in [1..M -> free] /\ \A i, j \in 1..M : k[i] = k[j] => i = j
    BY <1>9 DEF Bijection, Injection, IsInjective
  <2>2. \A j \in 1..N : j \in 1..M
    BY <1>7
  <2> QED BY <2>1, <2>2
<1> HIDE DEF rank, N, M
<1> DEFINE g == [n \in names |-> k[rank(n)]]
<1>12. g \in [names -> free]
  BY <1>10, <1>11
<1>13. \A n, m \in names : g[n] = g[m] => n = m
  BY <1>10, <1>11
<1> QED BY <1>12, <1>13 DEF free

\* What a new interface changes: the names of indices that were free.
LEMMA CreatedFrom ==
  ASSUME NEW v \in VppType, Distinct(v), NEW names \in SUBSET IfName,
         \A i \in Index : v.at[i] \notin names
  PROVE  LET w == Create(v, names) IN
         /\ w \in VppType
         /\ \A i \in Index : v.at[i] # None => w.at[i] = v.at[i]
         /\ \A i \in Index : v.at[i] = None => w.at[i] \in names \cup {None}
         /\ \A n \in names : \E i \in Index : v.at[i] = None /\ w.at[i] = n
         /\ \A i, j \in Index : w.at[i] = w.at[j] /\ w.at[i] # None => i = j
         /\ w.bds = v.bds /\ w.in = v.in /\ w.slave = v.slave /\ w.lacp = v.lacp /\ w.acls = v.acls
         /\ w.guard = v.guard /\ w.span = v.span /\ w.qos = v.qos /\ w.input = v.input /\ w.lldp = v.lldp
<1> DEFINE free == {i \in Index : v.at[i] = None}
           f == CHOOSE g \in [names -> free] : \A n, m \in names : g[n] = g[m] => n = m
           at == [i \in Index |-> IF \E n \in names : f[n] = i
                                  THEN CHOOSE n \in names : f[n] = i ELSE v.at[i]]
<1>1. f \in [names -> free] /\ \A n, m \in names : f[n] = f[m] => n = m
  <2>1. \E g \in [names -> free] : \A n, m \in names : g[n] = g[m] => n = m
    BY Room
  <2> QED BY <2>1
<1>2. Create(v, names) = [v EXCEPT !.at = at]
  BY DEF Create, VppType
<1>3. v.at \in [Index -> IfName \cup {None}] /\ \A i, j \in Index : v.at[i] = v.at[j] /\ v.at[i] # None => i = j
  BY DEF VppType, Distinct
<1> HIDE DEF f
<1>4. \A i \in Index : v.at[i] # None => at[i] = v.at[i]
  BY <1>1
<1>5. \A n \in names : f[n] \in Index /\ v.at[f[n]] = None /\ at[f[n]] = n
  <2> SUFFICES ASSUME NEW n \in names PROVE f[n] \in Index /\ v.at[f[n]] = None /\ at[f[n]] = n
    OBVIOUS
  <2>1. f[n] \in Index /\ v.at[f[n]] = None
    BY <1>1
  <2>2. (CHOOSE m \in names : f[m] = f[n]) = n
    BY <1>1
  <2> QED BY <2>1, <2>2
<1>6. \A i \in Index : v.at[i] = None => \/ at[i] = None /\ \A n \in names : f[n] # i
                                         \/ at[i] \in names /\ f[at[i]] = i
  BY <1>3
<1>7. at \in [Index -> IfName \cup {None}]
  BY <1>3, <1>4, <1>6
<1>8. \A i, j \in Index : at[i] = at[j] /\ at[i] # None => i = j
  BY <1>3, <1>4, <1>6
<1> HIDE DEF at
<1> DEFINE w == Create(v, names)
<1>9. w.at = at /\ w \in VppType
      /\ w.bds = v.bds /\ w.in = v.in /\ w.slave = v.slave /\ w.lacp = v.lacp /\ w.acls = v.acls
      /\ w.guard = v.guard /\ w.span = v.span /\ w.qos = v.qos /\ w.input = v.input /\ w.lldp = v.lldp
  BY <1>2, <1>7 DEF VppType
<1>10. \A n \in names : \E i \in Index : v.at[i] = None /\ at[i] = n
  BY <1>5
<1> QED BY <1>4, <1>6, <1>8, <1>9, <1>10

\* New interfaces in a state where no two have one name: their names are the only change.
LEMMA Created ==
  ASSUME NEW v \in VppType, Named(v), NEW names \in SUBSET IfName,
         \A i \in Index : v.at[i] \notin names
  PROVE  LET w == Create(v, names) IN
         /\ w \in VppType
         /\ \A i \in Index : v.at[i] # None => w.at[i] = v.at[i]
         /\ \A i \in Index : v.at[i] = None => w.at[i] \in names \cup {None}
         /\ \A n \in names : \E i \in Index : v.at[i] = None /\ w.at[i] = n
         /\ \A i, j \in Index : w.at[i] = w.at[j] /\ w.at[i] # None => i = j
         /\ w.bds = v.bds /\ w.in = v.in /\ w.slave = v.slave /\ w.lacp = v.lacp /\ w.acls = v.acls
         /\ w.guard = v.guard /\ w.span = v.span /\ w.qos = v.qos /\ w.input = v.input /\ w.lldp = v.lldp
  BY CreatedFrom DEF Named, Distinct

\* The index of a name.
LEMMA Indexed ==
  ASSUME NEW v, NEW x
  PROVE  /\ (\A i \in Index : v.at[i] # x) => IndexOf(v, x) = 0
         /\ \A i \in Index : v.at[i] = x => IndexOf(v, x) \in Index /\ v.at[IndexOf(v, x)] = x /\ Exists(v, x)
         /\ IndexOf(v, x) # 0 => IndexOf(v, x) \in Index /\ v.at[IndexOf(v, x)] = x
         /\ Exists(v, x) => \E i \in Index : v.at[i] = x
  BY SwitchingAssumption DEF IndexOf, Exists

\* What an interface takes with it.
Gone(v, I) == {i \in Index : \/ i \in I
                             \/ \E j \in I : v.at[i] # None /\ v.at[j] # None
                                             /\ v.at[j][2] = 0 /\ v.at[i][1] = v.at[j][1]}

\* What goes with an interface, and that nothing else does.
LEMMA Removed ==
  ASSUME NEW v \in VppType, NEW I
  PROVE  LET w == Remove(v, I) IN
         /\ w \in VppType
         /\ \A i \in Gone(v, I) : w.at[i] = None /\ w.in[i] = None /\ w.guard[i] = None /\ w.input[i] = None
         /\ \A i \in Index \ Gone(v, I) : /\ w.at[i] = v.at[i] /\ w.in[i] = v.in[i]
                                          /\ w.guard[i] = v.guard[i] /\ w.input[i] = v.input[i]
         /\ w.bds = v.bds /\ w.acls = v.acls /\ w.qos = v.qos /\ w.lldp = v.lldp
<1> DEFINE w == Remove(v, I)
           G == Gone(v, I)
<1>1. w = [v EXCEPT !.at    = [i \in Index |-> IF i \in G THEN None ELSE @[i]],
                    !.in    = [i \in Index |-> IF i \in G THEN None ELSE @[i]],
                    !.guard = [i \in Index |-> IF i \in G THEN None ELSE @[i]],
                    !.input = [i \in Index |-> IF i \in G THEN None ELSE @[i]],
                    !.slave = [p \in Phys |-> IF @[p] \in G THEN 0 ELSE @[p]],
                    !.lacp = @ \ G, !.span = {x \in @ : G \cap {x[1], x[2]} = {}}]
  BY DEF Remove, Gone
<1>2. G \subseteq Index
  BY DEF Gone
<1> HIDE DEF G, w
<1>3. w.at = [i \in Index |-> IF i \in G THEN None ELSE v.at[i]]
      /\ w.in = [i \in Index |-> IF i \in G THEN None ELSE v.in[i]]
      /\ w.guard = [i \in Index |-> IF i \in G THEN None ELSE v.guard[i]]
      /\ w.input = [i \in Index |-> IF i \in G THEN None ELSE v.input[i]]
  BY <1>1 DEF VppType
<1>4. w.slave = [p \in Phys |-> IF v.slave[p] \in G THEN 0 ELSE v.slave[p]]
      /\ w.lacp = v.lacp \ G /\ w.span = {x \in v.span : G \cap {x[1], x[2]} = {}}
      /\ w.bds = v.bds /\ w.acls = v.acls /\ w.qos = v.qos /\ w.lldp = v.lldp
  BY <1>1 DEF VppType
<1>5. w \in [at : {w.at}, bds : {w.bds}, in : {w.in}, slave : {w.slave}, lacp : {w.lacp}, acls : {w.acls},
             guard : {w.guard}, span : {w.span}, qos : {w.qos}, input : {w.input}, lldp : {w.lldp}]
  BY <1>1 DEF VppType
<1>6. w \in VppType
  <2>1. /\ w.at \in [Index -> IfName \cup {None}] /\ w.in \in [Index -> Switch \cup {None}]
        /\ w.guard \in [Index -> Acl \cup {None}] /\ w.input \in [Index -> Qos \cup {None}]
    BY <1>3 DEF VppType
  <2>2. /\ w.slave \in [Phys -> Index \cup {0}] /\ w.lacp \subseteq Index /\ w.span \subseteq Index \X Index
        /\ w.bds \subseteq Switch /\ w.acls \subseteq Acl /\ w.qos \subseteq Qos /\ w.lldp \subseteq Phys
    BY <1>4 DEF VppType
  <2> QED BY <1>5, <2>1, <2>2 DEF VppType
<1> QED BY <1>2, <1>3, <1>4, <1>6 DEF G, w

\* Names are pairs.
LEMMA NamePair ==
  ASSUME NEW v \in VppType, NEW i \in Index, v.at[i] # None
  PROVE  /\ v.at[i] \in IfName /\ v.at[i] = <<v.at[i][1], v.at[i][2]>>
         /\ v.at[i][1] \in Port \cup Switch /\ v.at[i][2] \in Vlan
  BY DEF VppType, IfName

-----------------------------------------------------------------------------
(* What keeps the invariant *)

\* Two sets of operations that agree on the kinds the invariant asks for.
SameWaits(P, Q) ==
  \A k \in {"iface", "acl", "del-acl", "bd", "del-bd"} : \A x : Waits(Q, k, x) <=> Waits(P, k, x)

\* An operation that is done is no longer waited for, all others are.
LEMMA Finished ==
  ASSUME NEW op \in Op, NEW P
  PROVE  /\ \A k, x : Waits(P \ {op}, k, x) <=> Waits(P, k, x) /\ ~(op.kind = k /\ op.obj = x)
         /\ op.kind \notin {"iface", "acl", "del-acl", "bd", "del-bd"} => SameWaits(P, P \ {op})
  BY OpKinds DEF Waits, SameWaits

\* Names and bridge domains stay as they are when interfaces and domains do.
LEMMA SameNames ==
  ASSUME NEW v, NEW w, Named(v), w.at = v.at, w.in = v.in
  PROVE  Named(w)
  BY DEF Named

\* Bridge domains stay right when neither interfaces nor domains change.
LEMMA SameBridges ==
  ASSUME NEW m, NEW c, NEW P, NEW Q, NEW D, NEW v, NEW w, Bridges(v, m, c, P, D),
         w.at = v.at, w.in = v.in, w.bds = v.bds,
         \A x : Waits(Q, "bd", x) <=> Waits(P, "bd", x),
         \A x : Waits(Q, "del-bd", x) <=> Waits(P, "del-bd", x)
  PROVE  Bridges(w, m, c, Q, D)
<1>1. \A s \in c.switches, i \in Index :
        w.in[i] = s /\ ~(m = "run" /\ Waits(Q, "bd", s)) => w.at[i] \in Members(c, s) \cup {<<s, 0>>}
  BY DEF Bridges
<1>2. m # "down" => \A s \in c.switches : ~Waits(Q, "bd", s) =>
        /\ \A n \in Members(c, s) : n[1] \in D \/ \E i \in Index : w.at[i] = n /\ w.in[i] = s
        /\ s \in c.gw => \E i \in Index : w.at[i] = <<s, 0>>
  BY DEF Bridges
<1>3. \A s \in Switch \ c.switches : ~Waits(Q, "del-bd", s) => s \notin w.bds /\ \A i \in Index : w.in[i] # s
  BY DEF Bridges
<1> QED BY <1>1, <1>2, <1>3 DEF Bridges

\* What the invariant does not speak of may change.
LEMMA Unmoved ==
  ASSUME NEW m, NEW c \in Cfg, NEW P, NEW Q, NEW D, NEW v, NEW r, NEW w \in VppType, NEW q \in RegType,
         Sound(v, r, m, c, P, D), SameWaits(P, Q),
         w.at = v.at, w.in = v.in, w.bds = v.bds, w.guard = v.guard, w.input = v.input,
         q.attached = r.attached, q.bvi = r.bvi, q.bond = r.bond,
         q.acls = r.acls, q.bound = r.bound, q.policy = r.policy
  PROVE  Sound(w, q, m, c, Q, D)
<1>0. /\ Named(v) /\ (m # "down" => Registered(v, r, m, P))
      /\ Policies(v, r, m, c, P) /\ Filters(v, r, m, c, P, D) /\ Bridges(v, m, c, P, D)
  BY DEF Sound
<1>1. Named(w)
  BY <1>0, SameNames
<1>2. m # "down" => Registered(w, q, m, Q)
  BY <1>0 DEF Registered, SameWaits
<1>3. Policies(w, q, m, c, Q)
  BY <1>0 DEF Policies, SameWaits
<1>4. Filters(w, q, m, c, Q, D)
  BY <1>0 DEF Filters, SameWaits
<1>5. Bridges(w, m, c, Q, D)
  BY <1>0, SameBridges DEF SameWaits
<1> QED BY <1>1, <1>2, <1>3, <1>4, <1>5 DEF Sound

\* More ports may be remembered as displaced.
LEMMA Wider ==
  ASSUME NEW m, NEW c, NEW P, NEW D, NEW E, NEW v, NEW r, Sound(v, r, m, c, P, D), D \subseteq E
  PROVE  Sound(v, r, m, c, P, E)
<1>1. Filters(v, r, m, c, P, E)
  BY DEF Sound, Filters
<1>2. Bridges(v, m, c, P, E)
  BY DEF Sound, Bridges
<1> QED BY <1>1, <1>2 DEF Sound

\* New ports and sub-interfaces of ports that are there; what the registry has of bonds.
LEMMA Grown ==
  ASSUME NEW m, NEW c \in Cfg, NEW P, NEW D, NEW v, NEW r, NEW names \in SUBSET (Port \X Vlan), NEW q \in RegType,
         Sound(v, r, m, c, P, D), m # "down",
         \A i \in Index : v.at[i] \notin names,
         \A n \in Port, x \in Vlan : <<n, x>> \in names => x = 0 \/ \E j \in Index : v.at[j] = <<n, 0>>,
         \A b \in Bond : q.bond[b] # 0 => Create(v, names).at[q.bond[b]] = <<b, 0>>,
         q.attached = r.attached, q.bvi = r.bvi, q.acls = r.acls, q.bound = r.bound, q.policy = r.policy
  PROVE  Sound(Create(v, names), q, m, c, P, D)
<1> DEFINE w == Create(v, names)
<1>1. /\ v \in VppType /\ r \in RegType /\ Named(v) /\ Registered(v, r, m, P)
      /\ Policies(v, r, m, c, P) /\ Filters(v, r, m, c, P, D) /\ Bridges(v, m, c, P, D)
  BY DEF Sound
<1>2. names \subseteq IfName /\ \A x \in names : x # None
  BY Kinds DEF IfName
<1>3. /\ w \in VppType
      /\ \A i \in Index : v.at[i] # None => w.at[i] = v.at[i]
      /\ \A i \in Index : v.at[i] = None => w.at[i] \in names \cup {None}
      /\ \A n \in names : \E i \in Index : v.at[i] = None /\ w.at[i] = n
      /\ \A i, j \in Index : w.at[i] = w.at[j] /\ w.at[i] # None => i = j
      /\ w.bds = v.bds /\ w.in = v.in /\ w.guard = v.guard /\ w.input = v.input
      /\ \A b \in Bond : q.bond[b] # 0 => w.at[q.bond[b]] = <<b, 0>>
  BY <1>1, <1>2, Created
<1> HIDE DEF w
<1>4. \A n \in Port, s \in Switch, x, y \in Vlan : <<n, x>> # <<s, y>>
  BY Kinds
<1>5. Named(w)
  <2>1. \A p \in Phys : \E i \in Index : w.at[i] = <<p, 0>>
    <3> SUFFICES ASSUME NEW p \in Phys PROVE \E i \in Index : w.at[i] = <<p, 0>>
      OBVIOUS
    <3>1. PICK i \in Index : v.at[i] = <<p, 0>>
      BY <1>1 DEF Named
    <3>2. <<p, 0>> # None
      BY Kinds, SwitchingAssumption DEF IfName, Port
    <3> QED BY <3>1, <3>2, <1>3
  <2>2. \A i \in Index : w.at[i] = None => w.in[i] = None
    BY <1>1, <1>3 DEF Named
  <2>3. \A i \in Index, n \in Port, x \in Vlan : w.at[i] = <<n, x>> => \E j \in Index : w.at[j] = <<n, 0>>
    <3> SUFFICES ASSUME NEW i \in Index, NEW n \in Port, NEW x \in Vlan, w.at[i] = <<n, x>>
                 PROVE  \E j \in Index : w.at[j] = <<n, 0>>
      OBVIOUS
    <3>1. <<n, 0>> # None /\ <<n, x>> # None
      BY Kinds, SwitchingAssumption DEF IfName
    <3>2. ASSUME NEW j \in Index, v.at[j] = <<n, 0>> PROVE w.at[j] = <<n, 0>>
      BY <3>1, <3>2, <1>3
    <3>3. CASE v.at[i] # None
      <4>1. v.at[i] = <<n, x>>
        BY <3>3, <1>3
      <4>2. PICK j \in Index : v.at[j] = <<n, 0>>
        BY <4>1, <1>1 DEF Named
      <4> QED BY <4>2, <3>2
    <3>4. CASE v.at[i] = None
      <4>1. <<n, x>> \in names
        BY <3>1, <3>4, <1>3
      <4>2. x = 0 \/ \E j \in Index : v.at[j] = <<n, 0>>
        BY <4>1
      <4> QED BY <4>2, <3>2
    <3> QED BY <3>3, <3>4
  <2>4. \A i \in Index, s \in Switch, x \in Vlan : w.at[i] = <<s, x>> => x = 0 /\ w.in[i] = s
    <3> SUFFICES ASSUME NEW i \in Index, NEW s \in Switch, NEW x \in Vlan, w.at[i] = <<s, x>>
                 PROVE  x = 0 /\ w.in[i] = s
      OBVIOUS
    <3>1. <<s, x>> # None /\ <<s, x>> \notin names
      BY Kinds, <1>4 DEF IfName
    <3> QED BY <3>1, <1>1, <1>3 DEF Named
  <2> QED BY <1>3, <2>1, <2>2, <2>3, <2>4 DEF Named
<1>6. \A i \in Index, s \in Switch : v.in[i] = s => v.at[i] # None /\ w.at[i] = v.at[i]
  BY <1>1, <1>3, Kinds DEF Named
<1>7. \A i \in Index, s \in Switch : w.at[i] = <<s, 0>> => v.at[i] = <<s, 0>>
  BY <1>5, <1>6, <1>3, SwitchingAssumption DEF Named
<1>8. Registered(w, q, m, P)
  <2>1. \A s \in Switch : q.bvi[s] # 0 => w.at[q.bvi[s]] = <<s, 0>>
    <3> SUFFICES ASSUME NEW s \in Switch, q.bvi[s] # 0 PROVE w.at[q.bvi[s]] = <<s, 0>>
      OBVIOUS
    <3>1. q.bvi[s] \in Index /\ v.at[q.bvi[s]] = <<s, 0>> /\ <<s, 0>> # None
      BY <1>1, Kinds, SwitchingAssumption DEF Registered, RegType, IfName
    <3> QED BY <3>1, <1>3
  <2>2. \A i \in Index, s \in Switch : w.at[i] = <<s, 0>> => i \notin q.attached[s]
    BY <1>1, <1>7 DEF Registered
  <2>3. \A i \in Index, s \in Switch :
          w.in[i] = s => i \in q.attached[s] \/ w.at[i] = <<s, 0>> \/ (m = "recover" /\ Waits(P, "bd", s))
    BY <1>1, <1>3, <1>6 DEF Registered
  <2> QED BY <2>1, <2>2, <2>3, <1>3 DEF Registered
<1>9. \A p \in Phys, i \in Index : w.at[i] = <<p, 0>> => v.at[i] = <<p, 0>>
  <2> SUFFICES ASSUME NEW p \in Phys, NEW i \in Index, w.at[i] = <<p, 0>> PROVE v.at[i] = <<p, 0>>
    OBVIOUS
  <2>1. PICK j \in Index : v.at[j] = <<p, 0>>
    BY <1>1 DEF Named
  <2>2. <<p, 0>> # None
    BY Kinds, SwitchingAssumption DEF IfName, Port
  <2> QED BY <2>1, <2>2, <1>3
<1>10. Policies(w, q, m, c, P)
  BY <1>1, <1>3, <1>9 DEF Policies
<1>11. Filters(w, q, m, c, P, D)
  <2>1. \A s \in c.switches, i \in Index : \A n \in c.ports[s] \ (Vnic \cup D) :
          w.at[i] = <<n, 0>> /\ ~Waits(P, "bd", s) => v.at[i] = <<n, 0>>
    <3> SUFFICES ASSUME NEW s \in c.switches, NEW i \in Index, NEW n \in c.ports[s] \ (Vnic \cup D),
                        w.at[i] = <<n, 0>>, ~Waits(P, "bd", s)
                 PROVE  v.at[i] = <<n, 0>>
      OBVIOUS
    <3>1. s \in Switch /\ n \in Port /\ c.vlan[s] \in Vlan /\ <<n, c.vlan[s]>> \in Members(c, s)
      BY ConfigTypes DEF Members
    <3>2. PICK j \in Index : v.at[j] = <<n, c.vlan[s]>>
      BY <1>1, <3>1 DEF Bridges
    <3>3. PICK k \in Index : v.at[k] = <<n, 0>>
      BY <1>1, <3>1, <3>2 DEF Named
    <3>4. <<n, 0>> # None
      BY <3>1, Kinds, SwitchingAssumption DEF IfName
    <3> QED BY <3>3, <3>4, <1>3
  <2> QED BY <1>1, <1>3, <2>1 DEF Filters
<1>12. Bridges(w, m, c, P, D)
  <2>1. \A s \in c.switches : s \in Switch
    BY ConfigTypes
  <2>2. \A s \in c.switches, i \in Index :
          w.in[i] = s /\ ~(m = "run" /\ Waits(P, "bd", s)) => w.at[i] \in Members(c, s) \cup {<<s, 0>>}
    BY <1>1, <1>3, <1>6, <2>1 DEF Bridges
  <2>3. \A s \in c.switches : ~Waits(P, "bd", s) =>
          /\ \A n \in Members(c, s) : n[1] \in D \/ \E i \in Index : w.at[i] = n /\ w.in[i] = s
          /\ s \in c.gw => \E i \in Index : w.at[i] = <<s, 0>>
    <3> SUFFICES ASSUME NEW s \in c.switches, ~Waits(P, "bd", s)
                 PROVE  /\ \A n \in Members(c, s) : n[1] \in D \/ \E i \in Index : w.at[i] = n /\ w.in[i] = s
                        /\ s \in c.gw => \E i \in Index : w.at[i] = <<s, 0>>
      OBVIOUS
    <3>1. \A n \in Members(c, s) : n[1] \in D \/ \E i \in Index : v.at[i] = n /\ v.in[i] = s
      BY <1>1 DEF Bridges
    <3>2. s \in c.gw => \E i \in Index : v.at[i] = <<s, 0>>
      BY <1>1 DEF Bridges
    <3>3. <<s, 0>> # None
      BY <2>1, Kinds, SwitchingAssumption DEF IfName
    <3> QED BY <3>1, <3>2, <3>3, <1>3, <1>6, <2>1
  <2>4. \A s \in Switch \ c.switches : ~Waits(P, "del-bd", s) => s \notin w.bds /\ \A i \in Index : w.in[i] # s
    BY <1>1, <1>3 DEF Bridges
  <2> QED BY <2>2, <2>3, <2>4, <1>1 DEF Bridges
<1> QED BY <1>3, <1>5, <1>8, <1>10, <1>11, <1>12 DEF Sound, w

\* From v to w the interfaces in G are lost, bonds and vNICs with all that is on them or
\* sub-interfaces, and the rest is as it was.
Lost(v, w, G) ==
  /\ G \subseteq Index
  /\ \A i \in G : w.at[i] = None /\ w.in[i] = None /\ w.guard[i] = None
  /\ \A i \in Index \ G : /\ w.at[i] = v.at[i] /\ w.in[i] = v.in[i]
                           /\ w.guard[i] = v.guard[i] /\ w.input[i] = v.input[i]
  /\ w.bds = v.bds
  /\ \A i \in G : v.at[i] # None => v.at[i][1] \in Bond \cup Vnic \/ v.at[i][2] # 0
  /\ \A i \in G, j \in Index : v.at[i] # None /\ v.at[j] # None /\ v.at[i][2] = 0 /\ v.at[j][1] = v.at[i][1]
                               => j \in G

\* Members of declared switches are lost only when they are remembered as displaced.
Remembered(v, G, c, E) ==
  \A i \in G : \A s \in c.switches : v.in[i] = s /\ v.at[i][1] \in c.ports[s] => v.at[i][1] \in E

\* Registries that agree on all but the bonds.
SameRegistry(r, q) ==
  q.attached = r.attached /\ q.bvi = r.bvi /\ q.acls = r.acls /\ q.bound = r.bound /\ q.policy = r.policy

\* A state stays sound when interfaces go which no declared domain and no known bond needs.
LEMMA Shrunk ==
  ASSUME NEW m, NEW c \in Cfg, NEW P, NEW D, NEW E, NEW v, NEW r, NEW w \in VppType, NEW q \in RegType,
         NEW G, Sound(v, r, m, c, P, D), m # "down", D \subseteq E,
         Lost(v, w, G), Remembered(v, G, c, E), SameRegistry(r, q),
         \A b \in Bond : q.bond[b] # 0 => w.at[q.bond[b]] = <<b, 0>>
  PROVE  Sound(w, q, m, c, P, E)
<1> USE DEF Lost, Remembered, SameRegistry
<1>1. /\ v \in VppType /\ r \in RegType /\ Named(v) /\ Registered(v, r, m, P)
      /\ Policies(v, r, m, c, P) /\ Filters(v, r, m, c, P, D) /\ Bridges(v, m, c, P, D)
  BY DEF Sound
<1>2. \A i \in Index : w.at[i] # None => /\ i \notin G /\ w.at[i] = v.at[i] /\ w.in[i] = v.in[i]
                                        /\ w.input[i] = v.input[i]
  OBVIOUS
<1>0. \A s \in Switch, x \in Vlan : <<s, x>> # None
  BY Kinds DEF IfName
<1>3. \A i \in Index, s \in Switch : w.in[i] = s => i \notin G /\ w.at[i] = v.at[i] /\ v.in[i] = s
  BY Kinds
<1>4. \A i \in G : /\ \A p \in Phys : v.at[i] # <<p, 0>>
                   /\ \A s \in Switch, x \in Vlan : v.at[i] # <<s, x>>
  <2> SUFFICES ASSUME NEW i \in G
               PROVE  /\ \A p \in Phys : v.at[i] # <<p, 0>>
                      /\ \A s \in Switch, x \in Vlan : v.at[i] # <<s, x>>
    OBVIOUS
  <2>1. ASSUME NEW p \in Phys, v.at[i] = <<p, 0>> PROVE FALSE
    <3>1. v.at[i] # None /\ v.at[i][1] = p /\ v.at[i][2] = 0
      BY <2>1, Kinds, SwitchingAssumption DEF IfName, Port
    <3> QED BY <3>1, Kinds
  <2>2. ASSUME NEW s \in Switch, NEW x \in Vlan, v.at[i] = <<s, x>> PROVE FALSE
    <3>1. v.at[i] # None /\ v.at[i][1] = s /\ v.at[i][2] = x
      BY <2>2, Kinds DEF IfName
    <3>2. x = 0
      BY <2>2, <1>1 DEF Named
    <3> QED BY <3>1, <3>2, Kinds
  <2> QED BY <2>1, <2>2
<1>5. Named(w)
  <2>1. \A i, j \in Index : w.at[i] = w.at[j] /\ w.at[i] # None => i = j
    BY <1>1, <1>2 DEF Named
  <2>2. \A p \in Phys : \E i \in Index : w.at[i] = <<p, 0>>
    <3> SUFFICES ASSUME NEW p \in Phys PROVE \E i \in Index : w.at[i] = <<p, 0>>
      OBVIOUS
    <3>1. PICK i \in Index : v.at[i] = <<p, 0>>
      BY <1>1 DEF Named
    <3> QED BY <3>1, <1>4
  <2>3. \A i \in Index : w.at[i] = None => w.in[i] = None
    BY <1>1 DEF Named
  <2>4. \A i \in Index, n \in Port, x \in Vlan : w.at[i] = <<n, x>> => \E j \in Index : w.at[j] = <<n, 0>>
    <3> SUFFICES ASSUME NEW i \in Index, NEW n \in Port, NEW x \in Vlan, w.at[i] = <<n, x>>
                 PROVE  \E j \in Index : w.at[j] = <<n, 0>>
      OBVIOUS
    <3>1. <<n, x>> # None /\ <<n, 0>> # None
      BY Kinds, SwitchingAssumption DEF IfName
    <3>2. i \notin G /\ v.at[i] = <<n, x>>
      BY <3>1, <1>2
    <3>3. PICK j \in Index : v.at[j] = <<n, 0>>
      BY <3>2, <1>1 DEF Named
    <3>4. v.at[j] # None /\ v.at[j][2] = 0 /\ v.at[i] # None /\ v.at[i][1] = v.at[j][1]
      BY <3>1, <3>2, <3>3
    <3>5. j \notin G
      BY <3>2, <3>4
    <3> QED BY <3>3, <3>5
  <2>5. \A i \in Index, s \in Switch, x \in Vlan : w.at[i] = <<s, x>> => x = 0 /\ w.in[i] = s
    <3> SUFFICES ASSUME NEW i \in Index, NEW s \in Switch, NEW x \in Vlan, w.at[i] = <<s, x>>
                 PROVE  x = 0 /\ w.in[i] = s
      OBVIOUS
    <3>1. w.at[i] # None
      BY <1>0
    <3>2. v.at[i] = <<s, x>> /\ w.in[i] = v.in[i]
      BY <3>1, <1>2
    <3> QED BY <3>2, <1>1 DEF Named
  <2> QED BY <2>1, <2>2, <2>3, <2>4, <2>5 DEF Named
<1>6. \A i \in Index, s \in Switch : w.at[i] = <<s, 0>> => v.at[i] = <<s, 0>>
  <2> SUFFICES ASSUME NEW i \in Index, NEW s \in Switch, w.at[i] = <<s, 0>> PROVE v.at[i] = <<s, 0>>
    OBVIOUS
  <2>1. w.at[i] # None
    BY <1>0, SwitchingAssumption
  <2> QED BY <2>1, <1>2
<1>7. \A i \in Index, s \in Switch : v.at[i] = <<s, 0>> => w.at[i] = <<s, 0>>
  BY <1>4, SwitchingAssumption
<1>8. Registered(w, q, m, P)
  <2>1. \A s \in Switch : q.bvi[s] # 0 => w.at[q.bvi[s]] = <<s, 0>>
    <3> SUFFICES ASSUME NEW s \in Switch, q.bvi[s] # 0 PROVE w.at[q.bvi[s]] = <<s, 0>>
      OBVIOUS
    <3>1. q.bvi[s] \in Index
      BY DEF RegType
    <3>2. v.at[q.bvi[s]] = <<s, 0>>
      BY <1>1 DEF Registered
    <3> QED BY <3>1, <3>2, <1>7
  <2>2. \A i \in Index, s \in Switch : w.at[i] = <<s, 0>> => i \notin q.attached[s]
    BY <1>1, <1>6 DEF Registered
  <2>3. \A i \in Index, s \in Switch :
          w.in[i] = s => i \in q.attached[s] \/ w.at[i] = <<s, 0>> \/ (m = "recover" /\ Waits(P, "bd", s))
    BY <1>1, <1>3 DEF Registered
  <2> QED BY <2>1, <2>2, <2>3 DEF Registered
<1>9. Policies(w, q, m, c, P)
  <2> SUFFICES ASSUME NEW p \in Phys, NEW i \in Index, w.at[i] = <<p, 0>>
               PROVE  /\ m \in {"run", "settled"} => w.input[i] = q.policy[p]
                      /\ m # "down" /\ ~Waits(P, "iface", p) => w.input[i] = c.policy[p] /\ q.policy[p] = c.policy[p]
                      /\ m = "recover" /\ Waits(P, "iface", p) => q.policy[p] = None
                      /\ m # "run" => w.input[i] \in {None, c.policy[p]}
    BY DEF Policies
  <2>1. w.at[i] # None
    BY Kinds, SwitchingAssumption DEF IfName, Port
  <2>2. v.at[i] = <<p, 0>> /\ w.input[i] = v.input[i]
    BY <2>1, <1>2
  <2> QED BY <2>2, <1>1 DEF Policies
<1>10. Filters(w, q, m, c, P, E)
  <2>1. \A i \in Index : w.guard[i] \in {None, v.guard[i]}
    OBVIOUS
  <2>2. \A s \in c.switches, i \in Index : \A n \in c.ports[s] \ (Vnic \cup E) :
          w.at[i] = <<n, 0>> => i \notin G /\ v.at[i] = <<n, 0>> /\ n \in c.ports[s] \ (Vnic \cup D)
    <3> SUFFICES ASSUME NEW s \in c.switches, NEW i \in Index, NEW n \in c.ports[s] \ (Vnic \cup E), w.at[i] = <<n, 0>>
                 PROVE  i \notin G /\ v.at[i] = <<n, 0>> /\ n \in c.ports[s] \ (Vnic \cup D)
      OBVIOUS
    <3>1. n \in Port /\ <<n, 0>> # None
      BY ConfigTypes, Kinds, SwitchingAssumption DEF IfName
    <3> QED BY <3>1, <1>2
  <2>3. \A i \in Index : w.guard[i] \in c.acls \cup {None} \/ (m = "run" /\ Waits(P, "del-acl", w.guard[i]))
    BY <1>1, <2>1 DEF Filters
  <2>4. \A i \in Index : q.bound[i] = None \/ w.guard[i] = None \/ q.bound[i] = w.guard[i]
    BY <1>1, <2>1 DEF Filters
  <2>5. \A s \in c.switches, i \in Index : \A n \in c.ports[s] \ (Vnic \cup E) :
          w.at[i] = <<n, 0>> /\ ~Waits(P, "bd", s) => w.guard[i] = c.guard[n] \/ c.guard[n] = None
    BY <1>1, <2>2 DEF Filters
  <2> QED BY <1>1, <2>3, <2>4, <2>5 DEF Filters
<1>11. Bridges(w, m, c, P, E)
  <2>1. \A s \in c.switches : s \in Switch
    BY ConfigTypes
  <2>2. \A s \in c.switches, i \in Index :
          w.in[i] = s /\ ~(m = "run" /\ Waits(P, "bd", s)) => w.at[i] \in Members(c, s) \cup {<<s, 0>>}
    BY <1>1, <1>3, <2>1 DEF Bridges
  <2>3. \A s \in c.switches : ~Waits(P, "bd", s) =>
          /\ \A n \in Members(c, s) : n[1] \in E \/ \E i \in Index : w.at[i] = n /\ w.in[i] = s
          /\ s \in c.gw => \E i \in Index : w.at[i] = <<s, 0>>
    <3> SUFFICES ASSUME NEW s \in c.switches, ~Waits(P, "bd", s)
                 PROVE  /\ \A n \in Members(c, s) : n[1] \in E \/ \E i \in Index : w.at[i] = n /\ w.in[i] = s
                        /\ s \in c.gw => \E i \in Index : w.at[i] = <<s, 0>>
      OBVIOUS
    <3>1. s \in c.gw => \E i \in Index : w.at[i] = <<s, 0>>
      <4>1. s \in c.gw => \E i \in Index : v.at[i] = <<s, 0>>
        BY <1>1 DEF Bridges
      <4> QED BY <4>1, <1>7, <2>1
    <3>2. ASSUME NEW n \in Members(c, s) PROVE n[1] \in E \/ \E i \in Index : w.at[i] = n /\ w.in[i] = s
      <4>1. n[1] \in c.ports[s]
        BY DEF Members
      <4>2. n[1] \in D \/ \E i \in Index : v.at[i] = n /\ v.in[i] = s
        BY <1>1 DEF Bridges
      <4>3. ASSUME NEW i \in Index, v.at[i] = n, v.in[i] = s PROVE n[1] \in E \/ \E j \in Index : w.at[j] = n /\ w.in[j] = s
        <5>1. CASE i \in G
          BY <5>1, <4>1, <4>3
        <5>2. CASE i \notin G
          BY <5>2, <4>3
        <5> QED BY <5>1, <5>2
      <4> QED BY <4>2, <4>3
    <3> QED BY <3>1, <3>2
  <2>4. \A s \in Switch \ c.switches : ~Waits(P, "del-bd", s) => s \notin w.bds /\ \A i \in Index : w.in[i] # s
    BY <1>1, <1>3 DEF Bridges
  <2> QED BY <2>2, <2>3, <2>4, <1>1 DEF Bridges
<1> QED BY <1>5, <1>8, <1>9, <1>10, <1>11 DEF Sound

-----------------------------------------------------------------------------
(* Operations that succeed *)

\* What every operation has: it is of the configuration, and VPP is as its calls left it.
LEMMA SoundTypes ==
  ASSUME NEW m, NEW c, NEW P, NEW D, NEW v, NEW r, Sound(v, r, m, c, P, D)
  PROVE  /\ v \in VppType /\ r \in RegType /\ Named(v) /\ (m # "down" => Registered(v, r, m, P))
         /\ Policies(v, r, m, c, P) /\ Filters(v, r, m, c, P, D) /\ Bridges(v, m, c, P, D)
  BY DEF Sound

\* An outcome that is a success is none of the failures.
LEMMA Successes ==
  ASSUME NEW v, NEW r
  PROVE  /\ Ok(v, r).ok /\ Ok(v, r).vpp = v /\ Ok(v, r).reg = r
         /\ ~Refuse(v, r).ok /\ ~Broken(v, r).ok
  BY DEF Ok, Refuse, Broken

\* What VPP and the registries hold besides names, domains, ACLs and policers.
LEMMA SpanSets ==
  ASSUME NEW v \in VppType, NEW x \in Index \X Index, NEW on \in BOOLEAN
  PROVE  LET w == SpanSet(v, x, on) IN
         w \in VppType /\ w.at = v.at /\ w.in = v.in /\ w.bds = v.bds /\ w.guard = v.guard /\ w.input = v.input
<1> DEFINE w == SpanSet(v, x, on)
           y == IF on THEN v.span \cup {x} ELSE v.span \ {x}
<1>1. w = [v EXCEPT !.span = y]
  BY DEF SpanSet, VppType
<1>2. y \in SUBSET (Index \X Index)
  BY DEF VppType
<1> HIDE DEF w, y
<1>3. w \in VppType
  BY <1>1, <1>2 DEF VppType
<1>4. w.at = v.at /\ w.in = v.in /\ w.bds = v.bds /\ w.guard = v.guard /\ w.input = v.input
  BY <1>1 DEF VppType
<1> QED BY <1>3, <1>4 DEF w

\* The registry of mirrors is apart from the other registries.
LEMMA SpanSaved ==
  ASSUME NEW r \in RegType, NEW s \in Span, NEW x \in (Index \X Index) \cup {None}
  PROVE  LET q == [r EXCEPT !.span[s] = x] IN
         /\ q \in RegType /\ q.attached = r.attached /\ q.bvi = r.bvi /\ q.bond = r.bond
         /\ q.acls = r.acls /\ q.bound = r.bound /\ q.policy = r.policy
<1> DEFINE q == [r EXCEPT !.span[s] = x]
<1>1. q \in RegType
  BY DEF RegType
<1>2. /\ q.attached = r.attached /\ q.bvi = r.bvi /\ q.bond = r.bond
      /\ q.acls = r.acls /\ q.bound = r.bound /\ q.policy = r.policy
  BY DEF RegType
<1> QED BY <1>1, <1>2

\* A mirror that is applied leaves the state sound for what is still to come.
LEMMA SpanStep ==
  ASSUME NEW m, NEW c \in Cfg, NEW P, NEW D, NEW v, NEW r, NEW op \in Op, Fits(op, m, c),
         Sound(v, r, m, c, P, D), op.kind = "span", NEW o \in ApplySpan(v, r, c, op.obj), o.ok
  PROVE  Sound(o.vpp, o.reg, m, c, P \ {op}, D)
<1>1. v \in VppType /\ r \in RegType /\ SameWaits(P, P \ {op})
  BY SoundTypes, Finished
<1> DEFINE s == op.obj
           src == IndexOf(v, <<c.spans[s][1], 0>>)
           dst == IndexOf(v, <<c.spans[s][2], 0>>)
           w == SpanSet(v, <<src, dst>>, TRUE)
           q == [r EXCEPT !.span[s] = <<src, dst>>]
<1>2. ApplySpan(v, r, c, s) = IF 0 \in {src, dst} THEN {Refuse(v, r)} ELSE {Ok(w, q), Broken(v, r)}
  BY DEF ApplySpan
<1>3. s \in Span
  BY DEF Fits, Spans
<1>4. src # 0 => src \in Index
  BY Indexed
<1>5. dst # 0 => dst \in Index
  BY Indexed
<1> HIDE DEF src, dst, s, w, q
<1>6. src # 0 /\ dst # 0 /\ o = Ok(w, q)
  BY <1>2, Successes DEF s
<1>7. o.vpp = w /\ o.reg = q
  BY <1>6, Successes
<1>8. /\ w \in VppType /\ w.at = v.at /\ w.in = v.in /\ w.bds = v.bds /\ w.guard = v.guard /\ w.input = v.input
  BY <1>1, <1>4, <1>5, <1>6, SpanSets DEF w
<1>9. /\ q \in RegType /\ q.attached = r.attached /\ q.bvi = r.bvi /\ q.bond = r.bond
      /\ q.acls = r.acls /\ q.bound = r.bound /\ q.policy = r.policy
  BY <1>1, <1>3, <1>4, <1>5, <1>6, SpanSaved DEF q
<1> QED BY <1>1, <1>7, <1>8, <1>9, Unmoved

\* So does a mirror that is deleted.
LEMMA DeleteSpanStep ==
  ASSUME NEW m, NEW c \in Cfg, NEW P, NEW D, NEW v, NEW r, NEW op \in Op, Fits(op, m, c),
         Sound(v, r, m, c, P, D), op.kind = "del-span", NEW o \in DeleteSpan(v, r, op.obj), o.ok
  PROVE  Sound(o.vpp, o.reg, m, c, P \ {op}, D)
<1>1. v \in VppType /\ r \in RegType /\ SameWaits(P, P \ {op})
  BY SoundTypes, Finished
<1> DEFINE s == op.obj
           w == SpanSet(v, r.span[s], FALSE)
           q == [r EXCEPT !.span[s] = None]
<1>2. DeleteSpan(v, r, s) = IF r.span[s] = None THEN {Ok(v, r)} ELSE {Ok(w, q), Broken(v, q)}
  BY DEF DeleteSpan
<1>3. s \in Span /\ r.span[s] \in (Index \X Index) \cup {None}
  BY <1>1 DEF Fits, RegType
<1> HIDE DEF s, w, q
<1>4. CASE r.span[s] = None
  <2>1. o.vpp = v /\ o.reg = r
    BY <1>2, <1>4, Successes DEF s
  <2> QED BY <2>1, <1>1, Unmoved
<1>5. CASE r.span[s] # None
  <2>1. o = Ok(w, q)
    BY <1>2, <1>5, Successes DEF s
  <2>2. o.vpp = w /\ o.reg = q
    BY <2>1, Successes
  <2>3. /\ w \in VppType /\ w.at = v.at /\ w.in = v.in /\ w.bds = v.bds /\ w.guard = v.guard /\ w.input = v.input
    BY <1>1, <1>3, <1>5, SpanSets DEF w
  <2>4. /\ q \in RegType /\ q.attached = r.attached /\ q.bvi = r.bvi /\ q.bond = r.bond
        /\ q.acls = r.acls /\ q.bound = r.bound /\ q.policy = r.policy
    BY <1>1, <1>3, SpanSaved DEF q
  <2> QED BY <1>1, <2>2, <2>3, <2>4, Unmoved
<1> QED BY <1>4, <1>5

\* A policer that is applied is there for the ports that declare it, and the state sound.
LEMMA QosStep ==
  ASSUME NEW m, NEW c \in Cfg, NEW P, NEW D, NEW v, NEW r, NEW op \in Op, Fits(op, m, c),
         Sound(v, r, m, c, P, D), op.kind = "qos", NEW o \in ApplyQos(v, r, op.obj), o.ok
  PROVE  Sound(o.vpp, o.reg, m, c, P \ {op}, D)
<1>1. v \in VppType /\ r \in RegType /\ SameWaits(P, P \ {op})
  BY SoundTypes, Finished
<1>2. op.obj \in Qos
  BY ConfigTypes DEF Fits
<1>3. o.vpp = [v EXCEPT !.qos = @ \cup {op.obj}] /\ o.reg = r
  BY DEF ApplyQos, Ok, Broken, PolicerAddDel
<1>4. /\ o.vpp \in VppType /\ o.vpp.at = v.at /\ o.vpp.in = v.in /\ o.vpp.bds = v.bds
      /\ o.vpp.guard = v.guard /\ o.vpp.input = v.input
  BY <1>1, <1>2, <1>3 DEF VppType
<1> QED BY <1>1, <1>3, <1>4, Unmoved

\* LLDP changes nothing the invariant speaks of.
LEMMA LldpStep ==
  ASSUME NEW m, NEW c \in Cfg, NEW P, NEW D, NEW v, NEW r, NEW op \in Op, Fits(op, m, c),
         Sound(v, r, m, c, P, D), op.kind = "lldp", NEW o \in ApplyLLDP(v, r, c), o.ok
  PROVE  Sound(o.vpp, o.reg, m, c, P \ {op}, D)
<1>1. v \in VppType /\ r \in RegType /\ SameWaits(P, P \ {op})
  BY SoundTypes, Finished
<1> DEFINE set(A) == LldpSetInterface(v, c.lldp \cap A, r.lldp \cap A)
           q == [r EXCEPT !.lldp = c.lldp]
<1>2. ApplyLLDP(v, r, c) = {Ok(set(Phys), q)} \cup {Broken(set(A), r) : A \in {B \in SUBSET Phys : B # Phys}}
  BY DEF ApplyLLDP
<1> HIDE DEF set, q
<1>3. o = Ok(set(Phys), q)
  BY <1>2, Successes
<1> DEFINE w == set(Phys)
           y == (v.lldp \ (r.lldp \cap Phys)) \cup (c.lldp \cap Phys)
<1>4. o.vpp = w /\ o.reg = q
  BY <1>3, Successes
<1>5. w = [v EXCEPT !.lldp = y] /\ y \in SUBSET Phys
  BY <1>1 DEF set, LldpSetInterface, VppType
<1>6. c.lldp \in SUBSET Phys
  BY ConfigTypes
<1> HIDE DEF w, y
<1>7. w \in VppType
  BY <1>1, <1>5 DEF VppType
<1>8. w.at = v.at /\ w.in = v.in /\ w.bds = v.bds /\ w.guard = v.guard /\ w.input = v.input
  BY <1>1, <1>5 DEF VppType
<1>9. q \in RegType
  BY <1>1, <1>6 DEF RegType, q
<1>10. /\ q.attached = r.attached /\ q.bvi = r.bvi /\ q.bond = r.bond
      /\ q.acls = r.acls /\ q.bound = r.bound /\ q.policy = r.policy
  BY <1>1 DEF RegType, q
<1> QED BY <1>1, <1>4, <1>7, <1>8, <1>9, <1>10, Unmoved

\* A vNIC that is applied has its interface, and the rest is as it was.
LEMMA VnicStep ==
  ASSUME NEW m, NEW c \in Cfg, NEW P, NEW D, NEW v, NEW r, NEW op \in Op, Fits(op, m, c), m # "down",
         Sound(v, r, m, c, P, D), op.kind = "vnic", NEW o \in ApplyVnic(v, r, op.obj), o.ok
  PROVE  Sound(o.vpp, o.reg, m, c, P \ {op}, D)
<1>1. v \in VppType /\ r \in RegType /\ Named(v) /\ Registered(v, r, m, P) /\ SameWaits(P, P \ {op})
  BY SoundTypes, Finished
<1> DEFINE n == op.obj
           names == {<<n, 0>>}
           w == Create(v, names)
<1>2. n \in Vnic /\ <<n, 0>> \in Port \X Vlan
  BY ConfigTypes, SwitchingAssumption DEF Fits, Port
<1>3. CASE Exists(v, <<n, 0>>)
  <2>1. o.vpp = v /\ o.reg = r
    BY <1>3 DEF ApplyVnic, Ok, Broken
  <2> QED BY <2>1, <1>1, Unmoved
<1>4. CASE ~Exists(v, <<n, 0>>)
  <2>1. o.vpp = w /\ o.reg = r
    BY <1>4 DEF ApplyVnic, Ok, Broken
  <2>2. \A i \in Index : v.at[i] \notin names
    BY <1>4, Indexed
  <2>3. w \in VppType /\ \A i \in Index : v.at[i] # None => w.at[i] = v.at[i]
    <3>1. names \in SUBSET IfName
      BY <1>2 DEF IfName
    <3> HIDE DEF names
    <3> QED BY <1>1, <2>2, <3>1, Created
  <2>4. \A b \in Bond : r.bond[b] # 0 => w.at[r.bond[b]] = <<b, 0>>
    <3> HIDE DEF w
    <3> SUFFICES ASSUME NEW b \in Bond, r.bond[b] # 0 PROVE w.at[r.bond[b]] = <<b, 0>>
      OBVIOUS
    <3>1. r.bond[b] \in Index /\ v.at[r.bond[b]] = <<b, 0>>
      BY <1>1 DEF Registered, RegType
    <3>2. <<b, 0>> # None
      BY Kinds, SwitchingAssumption DEF IfName, Port
    <3> QED BY <2>3, <3>1, <3>2
  <2>5. names \in SUBSET (Port \X Vlan) /\ \A x \in Port, y \in Vlan : <<x, y>> \in names => y = 0
    BY <1>2
  <2> HIDE DEF names
  <2>6. Sound(w, r, m, c, P, D)
    BY <1>1, <2>2, <2>4, <2>5, Grown
  <2> QED BY <2>1, <2>3, <2>6, <1>1, Unmoved
<1> QED BY <1>3, <1>4

-----------------------------------------------------------------------------
(* ACLs *)

\* Adding or deleting an ACL changes no interface.
LEMMA AclSets ==
  ASSUME NEW v \in VppType, NEW a \in Acl, NEW on \in BOOLEAN
  PROVE  LET w == ACLAddDel(v, a, on) IN
         w \in VppType /\ w.at = v.at /\ w.in = v.in /\ w.bds = v.bds /\ w.guard = v.guard /\ w.input = v.input
<1> DEFINE w == ACLAddDel(v, a, on)
           y == IF on THEN v.acls \cup {a} ELSE v.acls \ {a}
<1>1. w = [v EXCEPT !.acls = y]
  BY DEF ACLAddDel, VppType
<1>2. y \in SUBSET Acl
  BY DEF VppType
<1> HIDE DEF w, y
<1>3. w \in VppType
  BY <1>1, <1>2 DEF VppType
<1>4. w.at = v.at /\ w.in = v.in /\ w.bds = v.bds /\ w.guard = v.guard /\ w.input = v.input
  BY <1>1 DEF VppType
<1> QED BY <1>3, <1>4 DEF w

\* An ACL that is applied is registered, so that the ports of a switch can be bound to it.
LEMMA AclStep ==
  ASSUME NEW m, NEW c \in Cfg, NEW P, NEW D, NEW v, NEW r, NEW op \in Op, Fits(op, m, c),
         Sound(v, r, m, c, P, D), op.kind = "acl", NEW o \in ApplyACL(v, r, op.obj), o.ok
  PROVE  Sound(o.vpp, o.reg, m, c, P \ {op}, D)
<1> DEFINE a == op.obj
           w == ACLAddDel(v, a, TRUE)
           q == [r EXCEPT !.acls = @ \cup {a}]
           Q == P \ {op}
<1>1. /\ v \in VppType /\ r \in RegType /\ Named(v) /\ (m # "down" => Registered(v, r, m, P))
      /\ Policies(v, r, m, c, P) /\ Filters(v, r, m, c, P, D) /\ Bridges(v, m, c, P, D)
  BY SoundTypes
<1>2. a \in Acl
  BY ConfigTypes DEF Fits
<1>3. ApplyACL(v, r, a) = {Ok(w, q), Broken(v, r)}
  BY DEF ApplyACL
<1>4. q \in RegType
  BY <1>1, <1>2 DEF RegType
<1>5. /\ q.attached = r.attached /\ q.bvi = r.bvi /\ q.bond = r.bond
      /\ q.acls = r.acls \cup {a} /\ q.bound = r.bound /\ q.policy = r.policy
  BY <1>1 DEF RegType
<1>6. w \in VppType /\ w.at = v.at /\ w.in = v.in /\ w.bds = v.bds /\ w.guard = v.guard /\ w.input = v.input
  BY <1>1, <1>2, AclSets
<1>7. \A k, x : Waits(Q, k, x) <=> Waits(P, k, x) /\ ~(op.kind = k /\ op.obj = x)
  BY Finished
<1> HIDE DEF w, q, a, Q
<1>8. o.vpp = w /\ o.reg = q
  BY <1>3, Successes DEF a
<1>9. \A k \in {"iface", "del-acl", "bd", "del-bd"} : \A x : Waits(Q, k, x) <=> Waits(P, k, x)
  BY <1>7
<1>10. \A x : Waits(P, "acl", x) => Waits(Q, "acl", x) \/ x = a
  BY <1>7 DEF a
<1>11. Named(w)
  BY <1>1, <1>6, SameNames
<1>12. m # "down" => Registered(w, q, m, Q)
  BY <1>1, <1>5, <1>6, <1>9 DEF Registered
<1>13. Policies(w, q, m, c, Q)
  BY <1>1, <1>5, <1>6, <1>9 DEF Policies
<1>14. Filters(w, q, m, c, Q, D)
  BY <1>1, <1>5, <1>6, <1>9, <1>10 DEF Filters
<1>15. Bridges(w, m, c, Q, D)
  BY <1>1, <1>6, <1>9 DEF Bridges
<1> QED BY <1>4, <1>6, <1>8, <1>11, <1>12, <1>13, <1>14, <1>15 DEF Sound, Q

\* The registry knows every ACL that is bound and still to be deleted, so none stays bound.
LEMMA DeleteAclStep ==
  ASSUME NEW m, NEW c \in Cfg, NEW P, NEW D, NEW v, NEW r, NEW op \in Op, op \in P, Fits(op, m, c),
         Sound(v, r, m, c, P, D), op.kind = "del-acl", NEW o \in DeleteACL(v, r, op.obj), o.ok
  PROVE  Sound(o.vpp, o.reg, m, c, P \ {op}, D)
<1> DEFINE a == op.obj
           I == {i \in Index : r.bound[i] = a}
           q == [r EXCEPT !.acls = @ \ {a}, !.bound = [i \in Index |-> IF i \in I THEN None ELSE @[i]]]
           unbind(J) == Bind(v, [i \in J |-> None])
           Q == P \ {op}
<1>1. /\ v \in VppType /\ r \in RegType /\ Named(v) /\ Registered(v, r, m, P) /\ m = "run"
      /\ Policies(v, r, m, c, P) /\ Filters(v, r, m, c, P, D) /\ Bridges(v, m, c, P, D)
  BY SoundTypes DEF Fits
<1>2. a \in Acl /\ a \notin c.acls /\ a # None
  BY Kinds DEF Fits
<1>3. Waits(P, "del-acl", a)
  BY OpKinds DEF Waits
<1>4. a \in r.acls
  BY <1>1, <1>2, <1>3 DEF Filters
<1>5. DeleteACL(v, r, a) =
        IF a \notin r.acls THEN {Ok(v, q)}
        ELSE IF \E i \in I : v.at[i] = None THEN {Refuse(unbind(J), q) : J \in SUBSET {i \in I : v.at[i] # None}}
        ELSE {Broken(unbind(J), q) : J \in SUBSET I}
             \cup IF \E i \in Index \ I : v.guard[i] = a THEN {Refuse(unbind(I), q)}
                  ELSE {Ok(ACLAddDel(unbind(I), a, FALSE), q)}
  BY Zenon DEF DeleteACL
<1> DEFINE u == unbind(I)
           w == ACLAddDel(u, a, FALSE)
<1>6. q \in RegType /\ q.bound = [i \in Index |-> IF i \in I THEN None ELSE r.bound[i]]
  BY <1>1, <1>2, Zenon DEF RegType
<1>7. /\ q.attached = r.attached /\ q.bvi = r.bvi /\ q.bond = r.bond
      /\ q.acls = r.acls \ {a} /\ q.policy = r.policy
  BY <1>1 DEF RegType
<1>8. \A i \in Index : i \in I <=> r.bound[i] = a
  OBVIOUS
<1>9. /\ u \in VppType /\ u.at = v.at /\ u.in = v.in /\ u.bds = v.bds /\ u.input = v.input
      /\ u.guard = [i \in Index |-> IF i \in I THEN None ELSE v.guard[i]]
  <2> DEFINE g == [i \in Index |-> IF i \in I THEN None ELSE v.guard[i]]
  <2>1. u = [v EXCEPT !.guard = g]
    BY <1>1 DEF Bind, VppType
  <2>2. g \in [Index -> Acl \cup {None}]
    BY <1>1 DEF VppType
  <2> HIDE DEF g, u
  <2>3. u \in VppType
    BY <1>1, <2>1, <2>2 DEF VppType
  <2>4. u.at = v.at /\ u.in = v.in /\ u.bds = v.bds /\ u.input = v.input /\ u.guard = g
    BY <1>1, <2>1 DEF VppType
  <2> QED BY <2>3, <2>4 DEF g
<1> HIDE DEF u, q, I, Q, a
<1>10. w \in VppType /\ w.at = u.at /\ w.in = u.in /\ w.bds = u.bds /\ w.guard = u.guard /\ w.input = u.input
  BY <1>2, <1>9, AclSets
<1> HIDE DEF w, unbind
<1>11. o.vpp = w /\ o.reg = q /\ ~\E i \in Index \ I : v.guard[i] = a
  <2> DEFINE gone == \E i \in I : v.at[i] = None
             left == \E i \in Index \ I : v.guard[i] = a
             A == {Refuse(unbind(J), q) : J \in SUBSET {i \in I : v.at[i] # None}}
             B == {Broken(unbind(J), q) : J \in SUBSET I}
  <2>1. \A x \in A \cup B : ~x.ok
    BY Successes
  <2>2. o \in IF gone THEN A ELSE B \cup IF left THEN {Refuse(u, q)} ELSE {Ok(w, q)}
    BY <1>4, <1>5 DEF a, u, w
  <2> HIDE DEF gone, left, A, B
  <2>3. ~gone /\ ~left /\ o = Ok(w, q)
    BY <2>1, <2>2, Successes
  <2> QED BY <2>3, Successes DEF left
<1>12. \A k, x : Waits(Q, k, x) <=> Waits(P, k, x) /\ ~("del-acl" = k /\ a = x)
  BY Finished DEF Q, a
<1>13. \A k \in {"iface", "acl", "bd", "del-bd"} : \A x : Waits(Q, k, x) <=> Waits(P, k, x)
  BY <1>12
<1>14. Named(w)
  BY <1>1, <1>9, <1>10, SameNames
<1>15. m # "down" => Registered(w, q, m, Q)
  BY <1>1, <1>7, <1>9, <1>10, <1>13 DEF Registered
<1>16. Policies(w, q, m, c, Q)
  BY <1>1, <1>7, <1>9, <1>10, <1>13 DEF Policies
<1>17. \A i \in Index : w.guard[i] # a /\ (w.guard[i] = None \/ (w.guard[i] = v.guard[i] /\ i \notin I))
  BY <1>2, <1>9, <1>10, <1>11
<1>18. Filters(w, q, m, c, Q, D)
  <2>1. \A i \in Index : w.guard[i] \in c.acls \cup {None} \/ (m = "run" /\ Waits(Q, "del-acl", w.guard[i]))
    BY <1>1, <1>12, <1>17 DEF Filters
  <2>2. \A x \in Acl : (x \in c.acls /\ ~Waits(Q, "acl", x)) \/ Waits(Q, "del-acl", x) => x \in q.acls
    BY <1>1, <1>2, <1>7, <1>12 DEF Filters
  <2>3. \A i \in Index : q.bound[i] = None \/ w.guard[i] = None \/ q.bound[i] = w.guard[i]
    BY <1>1, <1>6, <1>17 DEF Filters
  <2>4. ASSUME NEW s \in c.switches, NEW i \in Index, NEW n \in c.ports[s] \ (Vnic \cup D),
               v.at[i] = <<n, 0>>, ~Waits(P, "bd", s)
        PROVE  w.guard[i] = c.guard[n] \/ c.guard[n] = None
    <3>1. n \in Phys \cup Bond
      BY ConfigTypes DEF Port
    <3>2. c.guard[n] \in c.acls \cup {None}
      BY <3>1, ConfigValid
    <3>3. v.guard[i] = c.guard[n] \/ c.guard[n] = None
      BY <1>1, <2>4 DEF Filters
    <3>4. CASE i \in I
      <4>1. v.guard[i] \in {None, a}
        BY <3>4, <1>1, <1>2, <1>8 DEF Filters
      <4> QED BY <4>1, <3>2, <3>3, <1>2, <3>4, <1>9, <1>10
    <3>5. CASE i \notin I
      BY <3>5, <3>3, <1>9, <1>10
    <3> QED BY <3>4, <3>5
  <2> QED BY <2>1, <2>2, <2>3, <2>4, <1>9, <1>10, <1>13 DEF Filters
<1>19. Bridges(w, m, c, Q, D)
  <2>1. w.at = v.at /\ w.in = v.in /\ w.bds = v.bds
    BY <1>9, <1>10
  <2> QED BY <2>1, <1>1, <1>13, SameBridges
<1> QED BY <1>6, <1>10, <1>11, <1>14, <1>15, <1>16, <1>18, <1>19 DEF Sound, Q

-----------------------------------------------------------------------------
(* Policers *)

\* Policing ports changes the policers of the interfaces of these ports only.
LEMMA PolicerInputs ==
  ASSUME NEW v \in VppType, NEW S \in SUBSET Phys, NEW x \in Qos \cup {None}
  PROVE  LET w == PolicerInput(v, S, x) IN
         /\ w \in VppType /\ w.at = v.at /\ w.in = v.in /\ w.bds = v.bds /\ w.guard = v.guard
         /\ \A i \in Index : w.input[i] = IF \E p \in S : v.at[i] = <<p, 0>> THEN x ELSE v.input[i]
<1> DEFINE w == PolicerInput(v, S, x)
           y == [i \in Index |-> IF \E p \in S : v.at[i] = <<p, 0>> THEN x ELSE v.input[i]]
<1>1. w = [v EXCEPT !.input = y]
  BY DEF PolicerInput, VppType
<1>2. y \in [Index -> Qos \cup {None}]
  BY DEF VppType
<1> HIDE DEF w, y
<1>3. w \in VppType
  BY <1>1, <1>2 DEF VppType
<1>4. w.at = v.at /\ w.in = v.in /\ w.bds = v.bds /\ w.guard = v.guard /\ w.input = y
  BY <1>1 DEF VppType
<1>5. \A i \in Index : y[i] = IF \E p \in S : v.at[i] = <<p, 0>> THEN x ELSE v.input[i]
  BY DEF y
<1> QED BY <1>3, <1>4, <1>5 DEF w

\* The same for one port.
LEMMA PolicerPort ==
  ASSUME NEW v \in VppType, NEW p \in Phys, NEW x \in Qos \cup {None}
  PROVE  LET w == PolicerInput(v, {p}, x) IN
         /\ w \in VppType /\ w.at = v.at /\ w.in = v.in /\ w.bds = v.bds /\ w.guard = v.guard
         /\ \A i \in Index : w.input[i] = IF v.at[i] = <<p, 0>> THEN x ELSE v.input[i]
<1> DEFINE S == {p}
           w == PolicerInput(v, S, x)
<1>1. S \in SUBSET Phys /\ \A i \in Index : (\E y \in S : v.at[i] = <<y, 0>>) <=> v.at[i] = <<p, 0>>
  OBVIOUS
<1> HIDE DEF S
<1>2. /\ w \in VppType /\ w.at = v.at /\ w.in = v.in /\ w.bds = v.bds /\ w.guard = v.guard
      /\ \A i \in Index : w.input[i] = IF \E y \in S : v.at[i] = <<y, 0>> THEN x ELSE v.input[i]
  BY <1>1, PolicerInputs
<1> HIDE DEF w
<1> QED BY <1>1, <1>2 DEF w, S

\* An interface that is applied has the policy that is declared, in the registry and in VPP.
LEMMA IfaceStep ==
  ASSUME NEW m \in {"run", "recover", "settled"}, NEW c \in Cfg, NEW P, NEW D, NEW v, NEW r,
         NEW op \in Op, op \in P, Fits(op, m, c),
         Sound(v, r, m, c, P, D), op.kind = "iface", NEW o \in ApplyInterface(v, r, c, op.obj), o.ok
  PROVE  Sound(o.vpp, o.reg, m, c, P \ {op}, D)
<1> DEFINE p == op.obj
           old == r.policy[p]
           new == c.policy[p]
           q == [r EXCEPT !.policy[p] = new]
           u == IF old = None THEN v ELSE PolicerInput(v, {p}, None)
           w == PolicerInput(v, {p}, new)
           Q == P \ {op}
<1>1. /\ v \in VppType /\ r \in RegType /\ Named(v) /\ Registered(v, r, m, P) /\ m # "down"
      /\ Policies(v, r, m, c, P) /\ Filters(v, r, m, c, P, D) /\ Bridges(v, m, c, P, D)
  BY SoundTypes
<1>2. p \in Phys /\ Waits(P, "iface", p)
  BY OpKinds DEF Fits, Waits
<1>3. new \in Qos \cup {None}
  BY <1>2, ConfigTypes
<1>4. ApplyInterface(v, r, c, p) =
        IF old = new THEN {Ok(v, r), Broken(v, r)}
        ELSE IF old # None /\ old \notin v.qos THEN {Refuse(v, q)}
        ELSE IF new # None /\ new \notin v.qos THEN {Refuse(u, q)}
        ELSE {Ok(w, q), Broken(v, r), Broken(v, q), Broken(u, q)}
  BY DEF ApplyInterface
<1>5. \A k, x : Waits(Q, k, x) <=> Waits(P, k, x) /\ ~("iface" = k /\ p = x)
  BY Finished
<1>6. /\ w \in VppType /\ w.at = v.at /\ w.in = v.in /\ w.bds = v.bds /\ w.guard = v.guard
      /\ \A i \in Index : w.input[i] = IF v.at[i] = <<p, 0>> THEN new ELSE v.input[i]
  BY <1>1, <1>2, <1>3, PolicerPort
<1>7. q \in RegType /\ q.policy = [x \in Phys |-> IF x = p THEN new ELSE r.policy[x]]
  BY <1>1, <1>2, <1>3 DEF RegType
<1>8. q.attached = r.attached /\ q.bvi = r.bvi /\ q.bond = r.bond /\ q.acls = r.acls /\ q.bound = r.bound
  BY <1>1 DEF RegType
<1> HIDE DEF q, u, w, Q
<1>9. \A k \in {"acl", "del-acl", "bd", "del-bd"} : \A x : Waits(Q, k, x) <=> Waits(P, k, x)
  BY <1>5
<1>10. \/ old = new /\ o.vpp = v /\ o.reg = r
       \/ o.vpp = w /\ o.reg = q
  <2> HIDE DEF old, new
  <2>1. o \in ApplyInterface(v, r, c, p)
    OBVIOUS
  <2> HIDE DEF p
  <2>2. (old = new /\ o = Ok(v, r)) \/ o = Ok(w, q)
    BY <1>4, <2>1, Successes
  <2> QED BY <2>2, Successes
<1>11. \A x \in Phys, i \in Index : v.at[i] = <<x, 0>> => (v.at[i] = <<p, 0>> <=> x = p)
  OBVIOUS
<1>12. CASE old = new /\ o.vpp = v /\ o.reg = r
  <2>1. Registered(v, r, m, Q) /\ Filters(v, r, m, c, Q, D) /\ Bridges(v, m, c, Q, D)
    <3>1. Registered(v, r, m, Q)
      BY <1>1, <1>9 DEF Registered
    <3>2. Filters(v, r, m, c, Q, D)
      BY <1>1, <1>9 DEF Filters
    <3>3. Bridges(v, m, c, Q, D)
      BY <1>1, <1>9 DEF Bridges
    <3> QED BY <3>1, <3>2, <3>3
  <2>2. Policies(v, r, m, c, Q)
    <3> SUFFICES ASSUME NEW x \in Phys, NEW i \in Index, v.at[i] = <<x, 0>>
                 PROVE  /\ m \in {"run", "settled"} => v.input[i] = r.policy[x]
                        /\ ~Waits(Q, "iface", x) => v.input[i] = c.policy[x] /\ r.policy[x] = c.policy[x]
                        /\ m = "recover" /\ Waits(Q, "iface", x) => r.policy[x] = None
                        /\ m # "run" => v.input[i] \in {None, c.policy[x]}
      BY DEF Policies
    <3>1. /\ m \in {"run", "settled"} => v.input[i] = r.policy[x]
          /\ ~Waits(P, "iface", x) => v.input[i] = c.policy[x] /\ r.policy[x] = c.policy[x]
          /\ m = "recover" /\ Waits(P, "iface", x) => r.policy[x] = None
          /\ m # "run" => v.input[i] \in {None, c.policy[x]}
      BY <1>1 DEF Policies
    <3>2. CASE x = p
      BY <3>1, <3>2, <1>2, <1>5, <1>12
    <3>3. CASE x # p
      BY <3>1, <3>3, <1>5
    <3> QED BY <3>2, <3>3
  <2> QED BY <2>1, <2>2, <1>1, <1>12 DEF Sound, Q
<1>13. CASE o.vpp = w /\ o.reg = q
  <2>1. Named(w)
    BY <1>1, <1>6, SameNames
  <2>2. Registered(w, q, m, Q)
    BY <1>1, <1>6, <1>8, <1>9 DEF Registered
  <2>3. Filters(w, q, m, c, Q, D)
    BY <1>1, <1>6, <1>8, <1>9 DEF Filters
  <2>4. Bridges(w, m, c, Q, D)
    BY <1>1, <1>6, <1>9 DEF Bridges
  <2>5. Policies(w, q, m, c, Q)
    <3> SUFFICES ASSUME NEW x \in Phys, NEW i \in Index, w.at[i] = <<x, 0>>
                 PROVE  /\ m \in {"run", "settled"} => w.input[i] = q.policy[x]
                        /\ ~Waits(Q, "iface", x) => w.input[i] = c.policy[x] /\ q.policy[x] = c.policy[x]
                        /\ m = "recover" /\ Waits(Q, "iface", x) => q.policy[x] = None
                        /\ m # "run" => w.input[i] \in {None, c.policy[x]}
      BY DEF Policies
    <3>1. v.at[i] = <<x, 0>>
      BY <1>6
    <3>2. CASE x = p
      <4>1. w.input[i] = c.policy[x] /\ q.policy[x] = c.policy[x]
        BY <3>1, <3>2, <1>2, <1>6, <1>7
      <4>2. ~Waits(Q, "iface", x)
        BY <3>2, <1>5
      <4> QED BY <4>1, <4>2
    <3>3. CASE x # p
      <4>1. w.input[i] = v.input[i] /\ q.policy[x] = r.policy[x] /\ (Waits(Q, "iface", x) <=> Waits(P, "iface", x))
        BY <3>1, <3>3, <1>5, <1>6, <1>7, <1>11
      <4> QED BY <4>1, <3>1, <1>1 DEF Policies
    <3> QED BY <3>2, <3>3
  <2> QED BY <2>1, <2>2, <2>3, <2>4, <2>5, <1>6, <1>7, <1>13 DEF Sound, Q
<1> QED BY <1>10, <1>12, <1>13

\* When a policer is deleted every interface has been applied: no port has it any more.
LEMMA DeleteQosStep ==
  ASSUME NEW m, NEW c \in Cfg, NEW P, NEW D, NEW v, NEW r, NEW op \in Op, Fits(op, m, c),
         \A x : ~Waits(P, "iface", x),
         Sound(v, r, m, c, P, D), op.kind = "del-qos", NEW o \in DeleteQos(v, r, op.obj), o.ok
  PROVE  Sound(o.vpp, o.reg, m, c, P \ {op}, D)
<1> DEFINE x == op.obj
           S == {p \in Phys : r.policy[p] = x}
           q == [r EXCEPT !.policy = [p \in Phys |-> IF p \in S THEN None ELSE @[p]]]
           u == PolicerInput(v, S, None)
           w == PolicerAddDel(u, x, FALSE)
<1>1. /\ v \in VppType /\ r \in RegType /\ Named(v) /\ m = "run" /\ Policies(v, r, m, c, P)
      /\ SameWaits(P, P \ {op})
  BY SoundTypes, Finished DEF Fits
<1>2. x \in Qos /\ x \notin c.qos /\ x # None
  BY Kinds DEF Fits
<1>3. S = {}
  <2> SUFFICES ASSUME NEW p \in Phys PROVE r.policy[p] # x
    OBVIOUS
  <2>1. PICK i \in Index : v.at[i] = <<p, 0>>
    BY <1>1 DEF Named
  <2>2. r.policy[p] = c.policy[p]
    BY <2>1, <1>1 DEF Policies
  <2> QED BY <2>2, <1>2, ConfigValid
<1>4. DeleteQos(v, r, x) = {Ok(w, q)} \cup {Broken(PolicerInput(v, T, None), q) : T \in SUBSET S}
  BY DEF DeleteQos
<1>5. q = r
  <2>1. q = [r EXCEPT !.policy = r.policy]
    BY <1>1, <1>3 DEF RegType
  <2> QED BY <2>1, <1>1 DEF RegType
<1>6. /\ u \in VppType /\ u.at = v.at /\ u.in = v.in /\ u.bds = v.bds /\ u.guard = v.guard /\ u.input = v.input
  <2>1. S \in SUBSET Phys
    OBVIOUS
  <2>0. u = PolicerInput(v, S, None) /\ None \in Qos \cup {None}
    OBVIOUS
  <2> HIDE DEF S, u
  <2>2. /\ u \in VppType /\ u.at = v.at /\ u.in = v.in /\ u.bds = v.bds /\ u.guard = v.guard
        /\ \A i \in Index : u.input[i] = IF \E p \in S : v.at[i] = <<p, 0>> THEN None ELSE v.input[i]
    BY <1>1, <2>0, <2>1, PolicerInputs
  <2>3. u.input \in [Index -> Qos \cup {None}] /\ v.input \in [Index -> Qos \cup {None}]
    BY <1>1, <2>2 DEF VppType
  <2>4. \A i \in Index : u.input[i] = v.input[i]
    BY <1>3, <2>2
  <2>5. u.input = v.input
    BY <2>3, <2>4
  <2> QED BY <2>2, <2>5
<1> HIDE DEF u, q, S
<1>7. w \in VppType /\ w.at = u.at /\ w.in = u.in /\ w.bds = u.bds /\ w.guard = u.guard /\ w.input = u.input
  <2>1. w = [u EXCEPT !.qos = u.qos \ {x}]
    BY <1>6 DEF PolicerAddDel, VppType
  <2>2. u.qos \ {x} \in SUBSET Qos
    BY <1>6 DEF VppType
  <2> HIDE DEF w
  <2>3. w \in VppType
    BY <2>1, <2>2, <1>6 DEF VppType
  <2>4. w.at = u.at /\ w.in = u.in /\ w.bds = u.bds /\ w.guard = u.guard /\ w.input = u.input
    BY <2>1, <1>6 DEF VppType
  <2> QED BY <2>3, <2>4
<1> HIDE DEF w
<1>8. o.vpp = w /\ o.reg = q
  BY <1>4, Successes
<1> QED BY <1>1, <1>5, <1>6, <1>7, <1>8, Unmoved

-----------------------------------------------------------------------------
(* Bonds and vNICs that go *)

\* The members of a bond are apart from the interfaces.
LEMMA BondMembers ==
  ASSUME NEW v \in VppType, NEW S, NEW x \in Index \cup {0}
  PROVE  LET w == BondMember(v, S, x) IN
         w \in VppType /\ w.at = v.at /\ w.in = v.in /\ w.bds = v.bds /\ w.guard = v.guard /\ w.input = v.input
<1> DEFINE w == BondMember(v, S, x)
           y == [p \in Phys |-> IF p \in S THEN x ELSE v.slave[p]]
<1>1. w = [v EXCEPT !.slave = y]
  BY DEF BondMember, VppType
<1>2. y \in [Phys -> Index \cup {0}]
  BY DEF VppType
<1> HIDE DEF w, y
<1>3. w \in VppType
  BY <1>1, <1>2 DEF VppType
<1>4. w.at = v.at /\ w.in = v.in /\ w.bds = v.bds /\ w.guard = v.guard /\ w.input = v.input
  BY <1>1 DEF VppType
<1> QED BY <1>3, <1>4 DEF w

\* Every index in I is that of a port in N.
Ports(v, I, N) == I \subseteq Index /\ N \subseteq Bond \cup Vnic /\ \A i \in I : \E n \in N : v.at[i] = <<n, 0>>

\* What goes with an interface that is a port, when no two have one name.
LEMMA GoneWith ==
  ASSUME NEW v \in VppType, Named(v), NEW I, NEW N, Ports(v, I, N)
  PROVE  /\ Gone(v, I) \subseteq Index
         /\ \A i \in Gone(v, I) : v.at[i] # None /\ v.at[i][1] \in N
         /\ \A i \in Gone(v, I), j \in Index : v.at[j] # None /\ v.at[j][1] = v.at[i][1] => j \in Gone(v, I)
         /\ \A i \in Gone(v, I) : \E j \in I : v.at[j] = <<v.at[i][1], 0>>
<1> USE DEF Ports
<1>1. \A n \in N : <<n, 0>> # None
  BY Kinds, SwitchingAssumption DEF IfName, Port
<1>2. \A j \in I : v.at[j] # None /\ v.at[j][2] = 0 /\ v.at[j][1] \in N /\ v.at[j] = <<v.at[j][1], 0>>
  <2> SUFFICES ASSUME NEW j \in I
               PROVE  v.at[j] # None /\ v.at[j][2] = 0 /\ v.at[j][1] \in N /\ v.at[j] = <<v.at[j][1], 0>>
    OBVIOUS
  <2>1. PICK n \in N : v.at[j] = <<n, 0>>
    OBVIOUS
  <2> QED BY <2>1, <1>1
<1>3. ASSUME NEW i \in Gone(v, I) PROVE i \in Index /\ v.at[i] # None /\ \E j \in I : v.at[i][1] = v.at[j][1]
  BY <1>2, <1>3 DEF Gone
<1>4. ASSUME NEW i \in Gone(v, I), NEW j \in Index, v.at[j] # None, v.at[j][1] = v.at[i][1] PROVE j \in Gone(v, I)
  <2>1. PICK k \in I : v.at[i][1] = v.at[k][1]
    BY <1>3
  <2> QED BY <2>1, <1>2, <1>4 DEF Gone
<1>5. ASSUME NEW i \in Gone(v, I) PROVE v.at[i][1] \in N /\ \E j \in I : v.at[j] = <<v.at[i][1], 0>>
  <2>1. PICK k \in I : v.at[i][1] = v.at[k][1]
    BY <1>3, <1>5
  <2> QED BY <2>1, <1>2
<1> QED BY <1>3, <1>4, <1>5

\* The ports N, at the indices I, may go: those that switches have are remembered as
\* displaced, and the registries q know no bond among them any more.
Drops(v, r, q, c, D, E, I, N) ==
  /\ Ports(v, I, N) /\ D \subseteq E /\ Remembered(v, Gone(v, I), c, E)
  /\ q \in RegType /\ SameRegistry(r, q)
  /\ \A b \in Bond : q.bond[b] # 0 => q.bond[b] = r.bond[b] /\ \A i \in I : v.at[i] # <<b, 0>>

\* Bonds and vNICs go with what is on them.
LEMMA Dropped ==
  ASSUME NEW m, NEW c \in Cfg, NEW P, NEW D, NEW E, NEW v, NEW r, NEW q, NEW I, NEW N,
         Sound(v, r, m, c, P, D), m # "down", Drops(v, r, q, c, D, E, I, N)
  PROVE  Sound(Remove(v, I), q, m, c, P, E)
<1> DEFINE w == Remove(v, I)
           G == Gone(v, I)
<1>1. v \in VppType /\ r \in RegType /\ Named(v) /\ Registered(v, r, m, P)
  BY SoundTypes
<1>0. /\ Ports(v, I, N) /\ D \subseteq E /\ Remembered(v, Gone(v, I), c, E)
      /\ q \in RegType /\ SameRegistry(r, q)
      /\ \A b \in Bond : q.bond[b] # 0 => q.bond[b] = r.bond[b] /\ \A i \in I : v.at[i] # <<b, 0>>
  BY DEF Drops
<1>2. /\ G \subseteq Index
      /\ \A i \in G : v.at[i] # None /\ v.at[i][1] \in N
      /\ \A i \in G, j \in Index : v.at[j] # None /\ v.at[j][1] = v.at[i][1] => j \in G
      /\ \A i \in G : \E j \in I : v.at[j] = <<v.at[i][1], 0>>
  <2> HIDE DEF w
  <2>1. v \in VppType /\ Named(v) /\ Ports(v, I, N)
    BY <1>0, <1>1
  <2> QED BY <2>1, GoneWith
<1>3. /\ w \in VppType
      /\ \A i \in G : w.at[i] = None /\ w.in[i] = None /\ w.guard[i] = None /\ w.input[i] = None
      /\ \A i \in Index \ G : /\ w.at[i] = v.at[i] /\ w.in[i] = v.in[i]
                              /\ w.guard[i] = v.guard[i] /\ w.input[i] = v.input[i]
      /\ w.bds = v.bds
  BY <1>1, Removed
<1>4. Remembered(v, G, c, E)
  BY <1>0
<1> HIDE DEF w, G
<1>5. ASSUME NEW b \in Bond, q.bond[b] # 0 PROVE w.at[q.bond[b]] = <<b, 0>>
  <2>1. q.bond[b] \in Index /\ v.at[q.bond[b]] = <<b, 0>> /\ \A i \in I : v.at[i] # <<b, 0>>
    <3>1. q.bond[b] = r.bond[b] /\ \A i \in I : v.at[i] # <<b, 0>>
      BY <1>0, <1>5
    <3> QED BY <3>1, <1>1, <1>5 DEF Registered, RegType
  <2>2. q.bond[b] \notin G
    <3> SUFFICES ASSUME q.bond[b] \in G PROVE FALSE
      OBVIOUS
    <3>1. PICK j \in I : v.at[j] = <<v.at[q.bond[b]][1], 0>>
      BY <1>2
    <3> QED BY <3>1, <2>1
  <2> QED BY <2>1, <2>2, <1>3
<1>6. w \in VppType /\ G \in SUBSET Index
  BY <1>2, <1>3
<1>7. Lost(v, w, G)
  BY <1>0, <1>2, <1>3 DEF Lost, Ports
<1>8. Sound(w, q, m, c, P, E)
  BY <1>0, <1>4, <1>5, <1>6, <1>7, Shrunk
<1> QED BY <1>8 DEF w

\* A vNIC that is deleted takes no interface of a declared port with it.
LEMMA DeleteVnicStep ==
  ASSUME NEW m, NEW c \in Cfg, NEW P, NEW D, NEW v, NEW r, NEW op \in Op, Fits(op, m, c), m # "down",
         Sound(v, r, m, c, P, D), op.kind = "del-vnic", NEW o \in DeleteVnic(v, r, op.obj), o.ok
  PROVE  Sound(o.vpp, o.reg, m, c, P \ {op}, D)
<1> DEFINE n == op.obj
           I == {IndexOf(v, <<n, 0>>)} \ {0}
           w == Remove(v, I)
<1>1. v \in VppType /\ r \in RegType /\ Named(v) /\ Registered(v, r, m, P) /\ SameWaits(P, P \ {op})
  BY SoundTypes, Finished
<1>2. n \in Vnic /\ n \notin c.vnics /\ {n} \in SUBSET (Bond \cup Vnic)
  BY DEF Fits
<1>3. I \in SUBSET Index /\ \A i \in I : v.at[i] = <<n, 0>>
  BY Indexed
<1> HIDE DEF I
<1>4. Ports(v, I, {n}) /\ \A i \in Gone(v, I) : v.at[i][1] = n
  <2>1. Ports(v, I, {n})
    BY <1>2, <1>3 DEF Ports
  <2>2. \A i \in Gone(v, I) : v.at[i][1] \in {n}
    BY <1>1, <2>1, GoneWith
  <2> QED BY <2>1, <2>2
<1>5. ASSUME NEW i \in Gone(v, I), NEW s \in c.switches PROVE v.at[i][1] \notin c.ports[s]
  BY <1>2, <1>4, <1>5, ConfigValid
<1>6. \A b \in Bond : \A i \in I : v.at[i] # <<b, 0>>
  BY <1>2, <1>3, Kinds
<1>7. Sound(w, r, m, c, P, D)
  <2> DEFINE N == {n}
  <2>1. Remembered(v, Gone(v, I), c, D) /\ SameRegistry(r, r) /\ Ports(v, I, N)
    BY <1>4, <1>5 DEF Remembered, SameRegistry
  <2> HIDE DEF N
  <2>2. Drops(v, r, r, c, D, D, I, N)
    BY <1>1, <1>6, <2>1 DEF Drops
  <2>3. Sound(Remove(v, I), r, m, c, P, D)
    BY <2>2, Dropped
  <2> QED BY <2>3 DEF w
<1>8. w \in VppType
  BY <1>7, SoundTypes
<1>9. o.vpp = w /\ o.reg = r
  <2> HIDE DEF w
  <2>1. DeleteVnic(v, r, n) = {Ok(w, r), Broken(v, r)}
    BY DEF DeleteVnic, w, I
  <2> QED BY <2>1, Successes
<1> QED BY <1>1, <1>7, <1>8, <1>9, Unmoved

\* The bonds a recovery prunes are of no declared switch.
LEMMA PruneStep ==
  ASSUME NEW m, NEW c \in Cfg, NEW P, NEW D, NEW v, NEW r, NEW op \in Op, Fits(op, m, c), m # "down",
         Sound(v, r, m, c, P, D), op.kind = "prune", NEW o \in PruneBonds(v, r, c), o.ok
  PROVE  Sound(o.vpp, o.reg, m, c, P \ {op}, D)
<1> DEFINE I == {i \in Index : \/ v.at[i] = Stray
                               \/ \E b \in Bond : v.at[i] = <<b, 0>> /\ c.members[b] = {}}
           B == {b \in Bond : \E i \in I : v.at[i] = <<b, 0>>}
           bond == [b \in Bond |-> IF b \in B THEN 0 ELSE r.bond[b]]
           members == [b \in Bond |-> IF b \in B THEN {} ELSE r.members[b]]
           forget(J) == LET A == {b \in Bond : \E i \in J : v.at[i] = <<b, 0>>}
                        IN [r EXCEPT !.bond = [b \in Bond |-> IF b \in A THEN 0 ELSE @[b]],
                                     !.members = [b \in Bond |-> IF b \in A THEN {} ELSE @[b]],
                                     !.lacp = @ \ A]
           q == forget(I)
           w == Remove(v, I)
           N == {b \in Bond : c.members[b] = {}}
<1>1. v \in VppType /\ r \in RegType /\ Named(v) /\ Registered(v, r, m, P) /\ SameWaits(P, P \ {op})
  BY SoundTypes, Finished
<1>2. PruneBonds(v, r, c) = {Ok(w, q)} \cup {Broken(Remove(v, J), forget(J)) : J \in {K \in SUBSET I : K # I}}
  BY Zenon DEF PruneBonds
<1>3. q = [r EXCEPT !.bond = bond, !.members = members, !.lacp = r.lacp \ B]
  BY <1>1 DEF RegType
<1>4. bond \in [Bond -> Index \cup {0}] /\ members \in [Bond -> SUBSET Phys] /\ r.lacp \ B \in SUBSET Bond
  BY <1>1 DEF RegType
<1>5. I \in SUBSET Index /\ N \in SUBSET (Bond \cup Vnic) /\ \A i \in I : \E b \in N : v.at[i] = <<b, 0>>
  <2>1. \A i \in Index : v.at[i] # Stray
    <3>1. Stray \notin IfName /\ Stray # None
      <4>1. Stray # None
        BY KindsAssumption
      <4>2. Stray[1] = None
        BY DEF Stray
      <4> QED BY <4>1, <4>2, Kinds DEF IfName, Stray
    <3> QED BY <3>1, <1>1 DEF VppType
  <2> QED BY <2>1
<1>6. \A b \in Bond : bond[b] # 0 => bond[b] = r.bond[b] /\ \A i \in I : v.at[i] # <<b, 0>>
  OBVIOUS
<1>7. \A b \in N : \A s \in c.switches : b \notin c.ports[s]
  <2> SUFFICES ASSUME NEW b \in N, NEW s \in c.switches, b \in c.ports[s] PROVE FALSE
    OBVIOUS
  <2>1. b \in Bonds(c)
    BY ConfigValid
  <2> QED BY <2>1 DEF Bonds
<1> HIDE DEF I, B, bond, members, q, w, N, forget
<1>8. q \in RegType
  BY <1>1, <1>3, <1>4 DEF RegType
<1>9. SameRegistry(r, q) /\ q.bond = bond
  BY <1>1, <1>3 DEF RegType, SameRegistry
<1>10. Ports(v, I, N) /\ \A i \in Gone(v, I) : v.at[i][1] \in N
  <2>1. Ports(v, I, N)
    BY <1>5 DEF Ports
  <2> QED BY <1>1, <2>1, GoneWith
<1>11. Sound(w, q, m, c, P, D)
  <2>1. Remembered(v, Gone(v, I), c, D)
    BY <1>7, <1>10 DEF Remembered
  <2>2. SameRegistry(r, q) /\ Ports(v, I, N)
    BY <1>9, <1>10
  <2>3. \A b \in Bond : q.bond[b] # 0 => q.bond[b] = r.bond[b] /\ \A i \in I : v.at[i] # <<b, 0>>
    BY <1>6, <1>9
  <2>4. Drops(v, r, q, c, D, D, I, N)
    BY <1>8, <2>1, <2>2, <2>3 DEF Drops
  <2>5. Sound(Remove(v, I), q, m, c, P, D)
    BY <2>4, Dropped
  <2> QED BY <2>5 DEF w
<1>12. o.vpp = w /\ o.reg = q
  BY <1>2, Successes
<1>13. w \in VppType
  BY <1>11, SoundTypes
<1> QED BY <1>1, <1>8, <1>11, <1>12, <1>13, Unmoved

\* Forgetting a bond changes no other entry of the registries.
LEMMA ForgetsBond ==
  ASSUME NEW r \in RegType, NEW b \in Bond
  PROVE  LET q == ForgetBond(r, b) IN
         q \in RegType /\ SameRegistry(r, q) /\ q.bond = [x \in Bond |-> IF x = b THEN 0 ELSE r.bond[x]]
<1> DEFINE q == ForgetBond(r, b)
           bond == [x \in Bond |-> IF x = b THEN 0 ELSE r.bond[x]]
           members == [x \in Bond |-> IF x = b THEN {} ELSE r.members[x]]
<1>1. q = [r EXCEPT !.bond = bond, !.members = members, !.lacp = r.lacp \ {b}]
  BY DEF ForgetBond, RegType
<1>2. bond \in [Bond -> Index \cup {0}] /\ members \in [Bond -> SUBSET Phys] /\ r.lacp \ {b} \in SUBSET Bond
  BY DEF RegType
<1> HIDE DEF q, bond, members
<1>3. q \in RegType
  BY <1>1, <1>2 DEF RegType
<1>4. SameRegistry(r, q) /\ q.bond = bond
  BY <1>1 DEF RegType, SameRegistry
<1> QED BY <1>3, <1>4 DEF q, bond

\* The bond is found by the registry or by its name.
LEMMA DeleteBondStep ==
  ASSUME NEW m, NEW c \in Cfg, NEW P, NEW D, NEW v, NEW r, NEW op \in Op, Fits(op, m, c), m # "down",
         Sound(v, r, m, c, P, D), op.kind = "del-bond", NEW o \in DeleteBond(v, r, op.obj), o.ok
  PROVE  Sound(o.vpp, o.reg, m, c, P \ {op}, D)
<1> DEFINE b == op.obj
           i == IF r.bond[b] # 0 THEN r.bond[b] ELSE IndexOf(v, <<b, 0>>)
           S == {p \in Phys : v.slave[p] = i} \cup r.members[b]
           u == BondMember(v, S, 0)
           w == Remove(u, {i})
           q == ForgetBond(r, b)
<1>1. v \in VppType /\ r \in RegType /\ Named(v) /\ Registered(v, r, m, P) /\ SameWaits(P, P \ {op})
  BY SoundTypes, Finished
<1>2. b \in Bond /\ b \notin Bonds(c)
  BY DEF Fits
<1>3. DeleteBond(v, r, b) =
        IF i = 0 THEN {Ok(v, r)} ELSE {Ok(w, q)} \cup {Broken(BondMember(v, T, 0), r) : T \in SUBSET S}
  BY DEF DeleteBond
<1>4. i # 0 => i \in Index /\ v.at[i] = <<b, 0>>
  <2>1. CASE r.bond[b] # 0
    BY <2>1, <1>1, <1>2 DEF Registered, RegType
  <2>2. CASE r.bond[b] = 0
    BY <2>2, Indexed
  <2> QED BY <2>1, <2>2
<1> HIDE DEF i, S, q
<1>5. /\ u \in VppType /\ u.at = v.at /\ u.in = v.in /\ u.bds = v.bds
      /\ u.guard = v.guard /\ u.input = v.input
  BY <1>1, BondMembers
<1>6. q \in RegType /\ SameRegistry(r, q) /\ q.bond = [x \in Bond |-> IF x = b THEN 0 ELSE r.bond[x]]
  BY <1>1, <1>2, ForgetsBond DEF q
<1> HIDE DEF u, w, b
<1>7. CASE i = 0
  <2>1. o.vpp = v /\ o.reg = r
    BY <1>3, <1>7, Successes DEF b
  <2> QED BY <2>1, <1>1, Unmoved
<1>8. CASE i # 0
  <2>1. o.vpp = w /\ o.reg = q
    BY <1>3, <1>8, Successes DEF b
  <2>2. Sound(u, r, m, c, P \ {op}, D)
    BY <1>1, <1>5, Unmoved
  <2> DEFINE I == {i}
             N == {b}
  <2>3. Ports(u, I, N)
    BY <1>2, <1>4, <1>5, <1>8 DEF Ports
  <2>4. \A x \in Bond : q.bond[x] # 0 => q.bond[x] = r.bond[x] /\ \A j \in I : u.at[j] # <<x, 0>>
    BY <1>4, <1>5, <1>6, <1>8
  <2>5. \A s \in c.switches : \A n \in N : n \notin c.ports[s]
    BY <1>2, ConfigValid
  <2> HIDE DEF I, N
  <2>6. Named(u)
    BY <2>2, SoundTypes
  <2>7. \A j \in Gone(u, I) : u.at[j][1] \in N
    BY <1>5, <2>3, <2>6, GoneWith
  <2>8. Sound(Remove(u, I), q, m, c, P \ {op}, D)
    <3>1. Remembered(u, Gone(u, I), c, D)
      BY <2>5, <2>7 DEF Remembered
    <3>2. SameRegistry(r, q) /\ q \in RegType
      BY <1>6
    <3>3. Drops(u, r, q, c, D, D, I, N)
      BY <2>3, <2>4, <3>1, <3>2 DEF Drops
    <3> QED BY <2>2, <3>3, Dropped
  <2> QED BY <2>1, <2>8 DEF w, I
<1> QED BY <1>7, <1>8

-----------------------------------------------------------------------------
(* Bonds that are applied *)

\* The modes of bonds are apart from the interfaces.
LEMMA LacpSet ==
  ASSUME NEW v \in VppType, NEW x \in SUBSET Index
  PROVE  LET w == [v EXCEPT !.lacp = x] IN
         w \in VppType /\ w.at = v.at /\ w.in = v.in /\ w.bds = v.bds /\ w.guard = v.guard /\ w.input = v.input
<1> DEFINE w == [v EXCEPT !.lacp = x]
<1>1. w \in VppType
  BY DEF VppType
<1>2. w.at = v.at /\ w.in = v.in /\ w.bds = v.bds /\ w.guard = v.guard /\ w.input = v.input
  BY DEF VppType
<1> QED BY <1>1, <1>2

\* A bond with another mode is forgotten before it is made anew.
LEMMA BondForgotten ==
  ASSUME NEW r \in RegType, NEW b \in Bond
  PROVE  LET q == [r EXCEPT !.bond[b] = 0] IN
         q \in RegType /\ SameRegistry(r, q) /\ q.bond = [n \in Bond |-> IF n = b THEN 0 ELSE r.bond[n]]
<1> DEFINE q == [r EXCEPT !.bond[b] = 0]
<1>1. q \in RegType
  BY DEF RegType
<1>2. SameRegistry(r, q) /\ q.bond = [n \in Bond |-> IF n = b THEN 0 ELSE r.bond[n]]
  BY DEF RegType, SameRegistry
<1> QED BY <1>1, <1>2

SaveBond(r, b, i, x, y) == [r EXCEPT !.bond[b] = i, !.members[b] = x, !.lacp = y]

\* A bond that was applied is registered under its index.
LEMMA BondSaved ==
  ASSUME NEW r \in RegType, NEW b \in Bond, NEW i \in Index, NEW x, NEW y, x \subseteq Phys, y \subseteq Bond
  PROVE  LET q == SaveBond(r, b, i, x, y) IN
         q \in RegType /\ SameRegistry(r, q) /\ q.bond = [n \in Bond |-> IF n = b THEN i ELSE r.bond[n]]
<1> DEFINE q == SaveBond(r, b, i, x, y)
<1>1. q \in RegType
  BY DEF RegType, SaveBond
<1>2. SameRegistry(r, q) /\ q.bond = [n \in Bond |-> IF n = b THEN i ELSE r.bond[n]]
  BY DEF RegType, SameRegistry, SaveBond
<1> QED BY <1>1, <1>2

\* A bond is made, made anew, or has its members changed.  Made anew it is out of the bridge
\* domain it was in.
LEMMA BondStep ==
  ASSUME NEW m, NEW c \in Cfg, NEW P, NEW D, NEW E, NEW v, NEW r, NEW op \in Op, Fits(op, m, c), m # "down",
         Sound(v, r, m, c, P, D), op.kind = "bond", NEW o \in ApplyBond(v, r, c, op.obj), o.ok, D \subseteq E,
         \A i \in Index : v.in[i] \in Switch /\ o.vpp.in[i] = None /\ v.at[i][1] = op.obj => op.obj \in E
  PROVE  Sound(o.vpp, o.reg, m, c, P \ {op}, E)
<1> DEFINE b == op.obj
           known == r.bond[b] # 0
           again == IF known THEN (b \in r.lacp) # (b \in c.lacp) ELSE Exists(v, <<b, 0>>)
           fresh == ~known \/ again
           i0 == IF known THEN r.bond[b] ELSE IndexOf(v, <<b, 0>>)
           v1 == IF ~again THEN v ELSE Remove(v, {i0})
           r1 == IF again THEN [r EXCEPT !.bond[b] = 0] ELSE r
           v2 == IF fresh THEN Create(v1, {<<b, 0>>}) ELSE v1
           i == IF fresh THEN IndexOf(v2, <<b, 0>>) ELSE r.bond[b]
           old == IF fresh THEN {} ELSE r.members[b]
           gone == old \ c.members[b]
           add == c.members[b] \ old
           v3 == [BondMember(v2, gone, 0) EXCEPT !.lacp = IF b \in c.lacp THEN @ \cup {i} ELSE @]
           enslave(S) == BondMember(v3, S, i)
           taken == {p \in add : v3.slave[p] # 0}
           r2 == [r1 EXCEPT !.bond[b] = i, !.members[b] = c.members[b],
                            !.lacp = IF b \in c.lacp THEN @ \cup {b} ELSE @ \ {b}]
           w == enslave(add)
           Q == P \ {op}
<1>1. v \in VppType /\ r \in RegType /\ Named(v) /\ Registered(v, r, m, P) /\ SameWaits(P, Q)
  BY SoundTypes, Finished
<1>2. b \in Bond /\ c.members[b] \in SUBSET Phys
  BY ConfigTypes DEF Fits, Bonds
<1>3. ApplyBond(v, r, c, b) =
        IF taken # {} THEN {Refuse(enslave(S), r1) : S \in SUBSET (add \ taken)}
        ELSE {Ok(enslave(add), r2), Broken(v, r), Broken(v1, r1), Broken(v3, r1)}
             \cup {Broken(enslave(S), r1) : S \in SUBSET add}
             \cup (IF fresh THEN {Broken(Create(v1, {Stray}), r1)} ELSE {})
  BY Zenon DEF ApplyBond
<1>4. o = Ok(w, r2)
  <2> DEFINE A == {Refuse(enslave(S), r1) : S \in SUBSET (add \ taken)}
             B == {Broken(enslave(S), r1) : S \in SUBSET add}
             X == IF fresh THEN {Broken(Create(v1, {Stray}), r1)} ELSE {}
  <2>1. (\A x \in A : ~x.ok) /\ (\A x \in B : ~x.ok) /\ (\A x \in X : ~x.ok)
    <3> HIDE DEF enslave, r1, add, taken, v1, fresh
    <3> QED BY Successes
  <2>2. o \in IF taken # {} THEN A
              ELSE {Ok(w, r2), Broken(v, r), Broken(v1, r1), Broken(v3, r1)} \cup B \cup X
    BY <1>3, Zenon
  <2> HIDE DEF A, B, X, w, r2, r1, v1, v3, taken
  <2> QED BY <2>1, <2>2, Successes
<1>5. known => r.bond[b] \in Index /\ v.at[r.bond[b]] = <<b, 0>>
  BY <1>1, <1>2 DEF Registered, RegType
<1>6. again => i0 \in Index /\ v.at[i0] = <<b, 0>>
  BY <1>5, Indexed
<1>7. <<b, 0>> # None /\ <<b, 0>> \in IfName /\ \A x \in Switch : x # None
  BY <1>2, Kinds, SwitchingAssumption DEF IfName, Port
<1>8. /\ r1 \in RegType /\ SameRegistry(r, r1) /\ (fresh => r1.bond[b] = 0) /\ (~again => r1 = r)
      /\ \A n \in Bond : n # b => r1.bond[n] = r.bond[n]
  <2>1. CASE again
    <3> DEFINE q == [r EXCEPT !.bond[b] = 0]
    <3>1. q \in RegType /\ SameRegistry(r, q) /\ q.bond = [n \in Bond |-> IF n = b THEN 0 ELSE r.bond[n]]
      BY <1>1, <1>2, BondForgotten
    <3>2. r1 = q
      BY <2>1
    <3> HIDE DEF q, r1
    <3> QED BY <2>1, <3>1, <3>2, <1>2
  <2>2. CASE ~again
    <3>1. r1 = r
      BY <2>2
    <3> HIDE DEF r1
    <3> QED BY <2>2, <3>1, <1>1 DEF SameRegistry
  <2> QED BY <2>1, <2>2
<1>9. Sound(v, r, m, c, Q, D)
  <2> HIDE DEF Q
  <2> QED BY <1>1, Unmoved
<1>10. again => \A X : D \subseteq X /\ Remembered(v, Gone(v, {i0}), c, X) => Sound(v1, r1, m, c, Q, X)
  <2> SUFFICES ASSUME again, NEW X, D \subseteq X, Remembered(v, Gone(v, {i0}), c, X)
               PROVE  Sound(v1, r1, m, c, Q, X)
    OBVIOUS
  <2> DEFINE I == {i0}
  <2>1. Ports(v, I, {b}) /\ v1 = Remove(v, I)
    BY <1>2, <1>6 DEF Ports
  <2>2. \A n \in Bond : r1.bond[n] # 0 => r1.bond[n] = r.bond[n] /\ \A j \in I : v.at[j] # <<n, 0>>
    <3>1. I = {i0} /\ v.at[i0] = <<b, 0>> /\ r1.bond[b] = 0
      BY <1>6, <1>8
    <3> HIDE DEF I, r1, again, b, i0
    <3> QED BY <3>1, <1>8
  <2>3. Remembered(v, Gone(v, I), c, X) /\ SameRegistry(r, r1) /\ r1 \in RegType
    BY <1>8
  <2> DEFINE N == {b}
  <2>4. Ports(v, I, N)
    BY <2>1
  <2> HIDE DEF I, N, v1, r1, Q, again, b
  <2>5. Drops(v, r, r1, c, D, X, I, N)
    BY <2>2, <2>3, <2>4 DEF Drops
  <2>6. Sound(Remove(v, I), r1, m, c, Q, X)
    BY <1>9, <2>5, Dropped
  <2> QED BY <2>1, <2>6
<1>11. /\ v1 \in VppType /\ Named(v1) /\ (fresh => \A j \in Index : v1.at[j] # <<b, 0>>)
  <2>1. CASE again
    <3> DEFINE G == Gone(v, {i0})
    <3>1. /\ \A j \in G : v1.at[j] = None
          /\ \A j \in Index \ G : v1.at[j] = v.at[j]
      BY <1>1, <2>1, Removed
    <3>2. i0 \in G /\ \A j \in G : v.at[j][1] = b
      <4>1. Ports(v, {i0}, {b})
        BY <1>2, <1>6, <2>1 DEF Ports
      <4>2. \A j \in G : v.at[j][1] \in {b}
        BY <1>1, <4>1, GoneWith
      <4> QED BY <4>2, <1>6, <2>1 DEF Gone
    <3>3. Remembered(v, G, c, D \cup {b})
      BY <3>2 DEF Remembered
    <3>4. Sound(v1, r1, m, c, Q, D \cup {b})
      BY <1>10, <2>1, <3>3
    <3>5. \A j \in Index : v1.at[j] # <<b, 0>>
      <4> HIDE DEF v1, G, i0
      <4> QED BY <3>1, <3>2, <1>1, <1>6, <1>7, <2>1 DEF Named
    <3> QED BY <3>4, <3>5, SoundTypes
  <2>2. CASE ~again
    <3>1. fresh => \A j \in Index : v.at[j] # <<b, 0>>
      BY <2>2, Indexed
    <3>2. v1 = v
      BY <2>2
    <3> HIDE DEF v1
    <3> QED BY <3>1, <3>2, <1>1
  <2> QED BY <2>1, <2>2
<1>12. /\ v2 \in VppType /\ v2.in = v1.in /\ i \in Index /\ v2.at[i] = <<b, 0>>
  <2>1. CASE fresh
    <3> DEFINE names == {<<b, 0>>}
               u == Create(v1, names)
    <3>1. names \in SUBSET IfName /\ \A j \in Index : v1.at[j] \notin names
      BY <1>7, <1>11, <2>1
    <3>2. v2 = u /\ i = IndexOf(u, <<b, 0>>) /\ <<b, 0>> \in names
      BY <2>1
    <3> HIDE DEF names, v1, v2, i
    <3>3. u \in VppType /\ u.in = v1.in /\ \A n \in names : \E j \in Index : u.at[j] = n
      BY <1>11, <3>1, Created
    <3> HIDE DEF u
    <3> QED BY <3>2, <3>3, Indexed
  <2>2. CASE ~fresh
    <3>1. v2 = v /\ v1 = v /\ i = r.bond[b] /\ known
      BY <2>2
    <3> HIDE DEF v1, v2, i
    <3> QED BY <3>1, <1>1, <1>5
  <2> QED BY <2>1, <2>2, Zenon
<1>13. /\ w \in VppType /\ w.at = v2.at /\ w.in = v2.in /\ w.bds = v2.bds
       /\ w.guard = v2.guard /\ w.input = v2.input
  <2> DEFINE z == 0
             u == BondMember(v2, gone, z)
             y == IF b \in c.lacp THEN u.lacp \cup {i} ELSE u.lacp
  <2>1. /\ u \in VppType /\ u.at = v2.at /\ u.in = v2.in /\ u.bds = v2.bds
        /\ u.guard = v2.guard /\ u.input = v2.input
    <3>1. z \in Index \cup {0}
      OBVIOUS
    <3> HIDE DEF v2, gone, z
    <3>2. v2 \in VppType
      BY <1>12
    <3> HIDE DEF u
    <3>3. u = BondMember(v2, gone, z)
      BY DEF u
    <3> QED BY <3>1, <3>2, <3>3, BondMembers
  <2>2. v3 = [u EXCEPT !.lacp = y]
    OBVIOUS
  <2> HIDE DEF u, v3, i, v2, add
  <2>3. y \in SUBSET Index
    BY <1>12, <2>1 DEF VppType
  <2> HIDE DEF y
  <2>4. /\ v3 \in VppType /\ v3.at = u.at /\ v3.in = u.in /\ v3.bds = u.bds
        /\ v3.guard = u.guard /\ v3.input = u.input
    BY <2>1, <2>2, <2>3, LacpSet
  <2>5. /\ w \in VppType /\ w.at = v3.at /\ w.in = v3.in /\ w.bds = v3.bds
        /\ w.guard = v3.guard /\ w.input = v3.input
    BY <1>12, <2>4, BondMembers
  <2> HIDE DEF w
  <2> QED BY <2>1, <2>4, <2>5
<1>14. r2 \in RegType /\ SameRegistry(r, r2) /\ r2.bond = [n \in Bond |-> IF n = b THEN i ELSE r1.bond[n]]
  <2> DEFINE y == IF b \in c.lacp THEN r1.lacp \cup {b} ELSE r1.lacp \ {b}
             x == c.members[b]
             q == SaveBond(r1, b, i, x, y)
  <2>1. y \in SUBSET Bond
    <3> HIDE DEF r1
    <3> QED BY <1>2, <1>8 DEF RegType
  <2>2. r2 = q
    BY DEF SaveBond
  <2>3. i \in Index /\ x \subseteq Phys
    BY <1>2, <1>12, Zenon
  <2> HIDE DEF y, x, i, r1, r2, b
  <2>4. q \in RegType /\ SameRegistry(r1, q) /\ q.bond = [n \in Bond |-> IF n = b THEN i ELSE r1.bond[n]]
    BY <1>2, <1>8, <2>1, <2>3, BondSaved
  <2> HIDE DEF q
  <2> QED BY <1>8, <2>2, <2>4 DEF SameRegistry
<1>15. o.vpp = w /\ o.reg = r2
  <2> HIDE DEF w, r2
  <2> QED BY <1>4, Successes
<1>16. Sound(v1, r1, m, c, Q, E)
  <2>1. CASE again
    <3> DEFINE G == Gone(v, {i0})
    <3>1. \A j \in G : v1.in[j] = None
      BY <1>1, <2>1, Removed
    <3>2. \A j \in G : j \in Index /\ v.at[j][1] = b
      <4>1. Ports(v, {i0}, {b})
        BY <1>2, <1>6, <2>1 DEF Ports
      <4>2. \A j \in G : v.at[j][1] \in {b}
        BY <1>1, <4>1, GoneWith
      <4> QED BY <4>2, Zenon DEF Gone
    <3>3. \A j \in G : o.vpp.in[j] = None
      <4> HIDE DEF w, v1, v2, r2, G
      <4> QED BY <3>1, <1>12, <1>13, <1>15
    <3>4. \A s \in c.switches : s \in Switch
      BY ConfigTypes
    <3>5. Remembered(v, G, c, E)
      BY <3>2, <3>3, <3>4 DEF Remembered
    <3> QED BY <1>10, <2>1, <3>5
  <2>2. CASE ~again
    <3>1. Sound(v, r, m, c, Q, E)
      BY <1>9, Wider
    <3>2. v1 = v /\ r1 = r
      BY <2>2
    <3> QED BY <3>1, <3>2
  <2> QED BY <2>1, <2>2
<1>17. Sound(v2, r2, m, c, Q, E)
  <2>1. CASE fresh
    <3> DEFINE names == {<<b, 0>>}
    <3>1. /\ names \in SUBSET (Port \X Vlan) /\ \A n \in Port, x \in Vlan : <<n, x>> \in names => x = 0
          /\ \A j \in Index : v1.at[j] \notin names
      <4>1. names \in SUBSET (Port \X Vlan) /\ \A n \in Port, x \in Vlan : <<n, x>> \in names => x = 0
        BY <1>2, SwitchingAssumption DEF Port
      <4>2. \A j \in Index : v1.at[j] \notin names
        <5> HIDE DEF v1
        <5> QED BY <1>11, <2>1
      <4> QED BY <4>1, <4>2
    <3>2. v2 = Create(v1, names) /\ <<b, 0>> \in names
      BY <2>1
    <3> HIDE DEF names, v1, v2, r1, r2, i, Q
    <3>3. names \in SUBSET IfName
      BY <3>1 DEF IfName
    <3>4. \A j \in Index : v1.at[j] # None => v2.at[j] = v1.at[j]
      BY <1>11, <3>1, <3>2, <3>3, Created
    <3>5. \A n \in Bond : r2.bond[n] # 0 => v2.at[r2.bond[n]] = <<n, 0>>
      <4> SUFFICES ASSUME NEW n \in Bond, r2.bond[n] # 0 PROVE v2.at[r2.bond[n]] = <<n, 0>>
        OBVIOUS
      <4>1. CASE n = b
        BY <4>1, <1>12, <1>14
      <4>2. CASE n # b
        <5>1. r2.bond[n] = r1.bond[n] /\ r1.bond[n] \in Index
          BY <4>2, <1>8, <1>14 DEF RegType
        <5>2. v1.at[r1.bond[n]] = <<n, 0>>
          BY <5>1, <1>16 DEF Sound, Registered
        <5>3. <<n, 0>> # None
          BY Kinds, SwitchingAssumption DEF IfName, Port
        <5> QED BY <5>1, <5>2, <5>3, <3>4
      <4> QED BY <4>1, <4>2
    <3>6. /\ r2.attached = r1.attached /\ r2.bvi = r1.bvi /\ r2.acls = r1.acls
          /\ r2.bound = r1.bound /\ r2.policy = r1.policy
      BY <1>8, <1>14 DEF SameRegistry
    <3>7. \A n \in Bond : r2.bond[n] # 0 => Create(v1, names).at[r2.bond[n]] = <<n, 0>>
      BY <3>2, <3>5
    <3>8. \A n \in Port, x \in Vlan : <<n, x>> \in names => x = 0 \/ \E j \in Index : v1.at[j] = <<n, 0>>
      BY <3>1
    <3>9. Sound(Create(v1, names), r2, m, c, Q, E)
      BY <1>14, <1>16, <3>1, <3>6, <3>7, <3>8, Grown
    <3> QED BY <3>2, <3>9
  <2>2. CASE ~fresh
    <3>1. v2 = v1 /\ r1 = r /\ i = r.bond[b]
      BY <2>2
    <3> HIDE DEF v1, v2, r1, r2, i, Q
    <3>2. r2.bond = r1.bond
      BY <1>1, <1>14, <3>1 DEF RegType
    <3>3. SameWaits(Q, Q)
      BY DEF SameWaits
    <3> QED BY <1>11, <1>14, <1>16, <3>1, <3>2, <3>3, Unmoved DEF SameRegistry
  <2> QED BY <2>1, <2>2
<1> HIDE DEF w, v2, r2, Q
<1>18. SameWaits(Q, Q)
  BY DEF SameWaits
<1>19. Sound(w, r2, m, c, Q, E)
  BY <1>13, <1>14, <1>17, <1>18, Unmoved
<1> QED BY <1>15, <1>19 DEF Q

-----------------------------------------------------------------------------
(* Bridge domains that go *)

\* A bridge domain is made and deleted.
Made(v, s) == BridgeDomainAddDel(v, s, TRUE)
Unmade(v, s) == BridgeDomainAddDel(v, s, FALSE)

\* Making and deleting a bridge domain changes no interface.
LEMMA Domains ==
  ASSUME NEW v \in VppType, NEW s \in Switch
  PROVE  /\ Made(v, s) = [v EXCEPT !.bds = v.bds \cup {s}]
         /\ Unmade(v, s) = [v EXCEPT !.bds = v.bds \ {s}]
         /\ \A w \in {Made(v, s), Unmade(v, s)} :
              w \in VppType /\ w.at = v.at /\ w.in = v.in /\ w.guard = v.guard /\ w.input = v.input
         /\ Made(v, s).bds = v.bds \cup {s} /\ Unmade(v, s).bds = v.bds \ {s}
<1>1. /\ Made(v, s) = [v EXCEPT !.bds = v.bds \cup {s}]
      /\ Unmade(v, s) = [v EXCEPT !.bds = v.bds \ {s}]
  BY DEF Made, Unmade, BridgeDomainAddDel, VppType
<1>2. ASSUME NEW y \in SUBSET Switch
      PROVE  LET w == [v EXCEPT !.bds = y] IN
             w \in VppType /\ w.at = v.at /\ w.in = v.in /\ w.bds = y /\ w.guard = v.guard /\ w.input = v.input
  <2> DEFINE w == [v EXCEPT !.bds = y]
  <2>1. w \in VppType
    BY DEF VppType
  <2>2. w.at = v.at /\ w.in = v.in /\ w.bds = y /\ w.guard = v.guard /\ w.input = v.input
    BY DEF VppType
  <2> QED BY <2>1, <2>2
<1>3. v.bds \cup {s} \in SUBSET Switch /\ v.bds \ {s} \in SUBSET Switch
  BY DEF VppType
<1> QED BY <1>1, <1>2, <1>3

\* Attaching interfaces changes their domain, and no other interface.
LEMMA Attached ==
  ASSUME NEW v \in VppType, NEW I, NEW x \in Switch \cup {None}
  PROVE  LET w == Attach(v, I, x) IN
         /\ w \in VppType /\ w.at = v.at /\ w.bds = v.bds /\ w.guard = v.guard /\ w.input = v.input
         /\ \A i \in Index : w.in[i] = IF i \in I THEN x ELSE v.in[i]
<1> DEFINE w == Attach(v, I, x)
           y == [i \in Index |-> IF i \in I THEN x ELSE v.in[i]]
<1>1. w = [v EXCEPT !.in = y]
  BY DEF Attach, VppType
<1>2. y \in [Index -> Switch \cup {None}]
  BY DEF VppType
<1>3. \A i \in Index : y[i] = IF i \in I THEN x ELSE v.in[i]
  OBVIOUS
<1> HIDE DEF w, y
<1>4. w \in VppType
  BY <1>1, <1>2 DEF VppType
<1>5. w.at = v.at /\ w.in = y /\ w.bds = v.bds /\ w.guard = v.guard /\ w.input = v.input
  BY <1>1 DEF VppType
<1> QED BY <1>3, <1>4, <1>5 DEF w

\* What the deletion of the bridge domain of s leaves: its BVI is gone, and the interfaces
\* in I are in no bridge domain, among them all it had.
Emptied(v, u, s, bvi, I) ==
  /\ bvi \subseteq Index /\ \A i \in bvi : v.at[i] = <<s, 0>>
  /\ \A i \in bvi : u.at[i] = None /\ u.in[i] = None /\ u.guard[i] = None
  /\ \A i \in Index \ bvi : /\ u.at[i] = v.at[i] /\ u.guard[i] = v.guard[i] /\ u.input[i] = v.input[i]
                            /\ u.in[i] = IF i \in I THEN None ELSE v.in[i]
  /\ u.bds = v.bds \ {s}
  /\ \A i \in Index : u.in[i] # s

\* The interfaces that change v to w takes out of the bridge domains of others than s.
Displacing(v, w, s, E) ==
  \A i \in Index : v.in[i] \notin {None, s} /\ w.in[i] = None => v.at[i][1] \in E \cap Port

\* A deleted switch has no interface left, and the others have what they had but for what is
\* displaced.
LEMMA DomainEmptied ==
  ASSUME NEW c \in Cfg, NEW P, NEW D, NEW E, NEW v, NEW r, NEW u \in VppType, NEW q \in RegType,
         NEW op \in Op, NEW s \in Switch, op.kind = "del-bd", op.obj = s, s \notin c.switches,
         Sound(v, r, "run", c, P, D), D \subseteq E, NEW bvi, NEW I, I \subseteq r.attached[s],
         Emptied(v, u, s, bvi, I), Displacing(v, u, s, E),
         q.attached = [r.attached EXCEPT ![s] = {}], q.bvi = [r.bvi EXCEPT ![s] = 0],
         q.bond = r.bond, q.acls = r.acls, q.bound = r.bound, q.policy = r.policy
  PROVE  Sound(u, q, "run", c, P \ {op}, E)
<1> DEFINE Q == P \ {op}
<1>1. /\ v \in VppType /\ r \in RegType /\ Named(v) /\ Registered(v, r, "run", P)
      /\ Policies(v, r, "run", c, P) /\ Filters(v, r, "run", c, P, D) /\ Bridges(v, "run", c, P, D)
  BY SoundTypes
<1>2. /\ bvi \subseteq Index /\ \A i \in bvi : v.at[i] = <<s, 0>> /\ u.at[i] = None /\ u.in[i] = None /\ u.guard[i] = None
      /\ \A i \in Index \ bvi : /\ u.at[i] = v.at[i] /\ u.guard[i] = v.guard[i] /\ u.input[i] = v.input[i]
                                /\ u.in[i] = IF i \in I THEN None ELSE v.in[i]
      /\ u.bds = v.bds \ {s} /\ \A i \in Index : u.in[i] # s
  BY DEF Emptied
<1>3. \A i \in Index : v.in[i] \notin {None, s} /\ u.in[i] = None => v.at[i][1] \in E /\ v.at[i][1] \in Port
  BY DEF Displacing
<1>4. \A k, x : Waits(Q, k, x) <=> Waits(P, k, x) /\ ~("del-bd" = k /\ s = x)
  BY Finished
<1> HIDE DEF Q
<1>5. \A k \in {"iface", "acl", "del-acl", "bd"} : \A x : Waits(Q, k, x) <=> Waits(P, k, x)
  BY <1>4
<1>6. \A i \in Index : u.at[i] # None => i \notin bvi /\ u.at[i] = v.at[i]
  BY <1>2
<1>7. \A i \in Index, x \in Switch : u.in[i] = x => x # s /\ i \notin bvi /\ i \notin I /\ v.in[i] = x /\ u.at[i] = v.at[i]
  BY <1>2, Kinds
<1>8. \A n \in Port, x \in Vlan : <<n, x>> # None /\ <<n, x>> # <<s, 0>>
  BY Kinds DEF IfName
<1>9. \A x \in Switch : <<x, 0>> # None /\ x # None
  BY Kinds, SwitchingAssumption DEF IfName
<1>10. \A n \in Port, x \in Vlan, i \in Index : v.at[i] = <<n, x>> => i \notin bvi /\ u.at[i] = v.at[i]
  BY <1>2, <1>8
<1>11. \A x \in Switch, i \in Index : x # s /\ v.at[i] = <<x, 0>> => i \notin bvi /\ u.at[i] = v.at[i]
  BY <1>2
<1>12. 0 \in Vlan /\ \A p \in Phys : p \in Port
  BY SwitchingAssumption DEF Port
<1>18. \A n \in Port, x \in Vlan, i \in Index : u.at[i] = <<n, x>> => i \notin bvi /\ v.at[i] = <<n, x>>
  <2> SUFFICES ASSUME NEW n \in Port, NEW x \in Vlan, NEW i \in Index, u.at[i] = <<n, x>>
               PROVE  i \notin bvi /\ v.at[i] = <<n, x>>
    OBVIOUS
  <2>1. <<n, x>> # None
    BY <1>8
  <2>2. u.at[i] # None
    BY <2>1
  <2> QED BY <2>2, <1>6
<1>19. \A p \in Phys \cup Bond, i \in Index : v.at[i] = <<p, 0>> => u.at[i] = <<p, 0>>
  BY <1>10, <1>12 DEF Port
<1>20. \A j \in Index, n \in Port, y \in Vlan : v.at[j] = <<n, y>> => \E k \in Index : v.at[k] = <<n, 0>>
  BY <1>1 DEF Named
<1>21. ASSUME NEW b \in Bond, r.bond[b] # 0 PROVE r.bond[b] \in Index /\ v.at[r.bond[b]] = <<b, 0>>
  <2>1. r.bond[b] \in Index
    BY <1>1, <1>21 DEF RegType
  <2> QED BY <2>1, <1>1, <1>21 DEF Registered
<1>13. Named(u)
  <2>1. \A i, j \in Index : u.at[i] = u.at[j] /\ u.at[i] # None => i = j
    BY <1>1, <1>6 DEF Named
  <2>2. \A p \in Phys : \E i \in Index : u.at[i] = <<p, 0>>
    <3> SUFFICES ASSUME NEW p \in Phys PROVE \E i \in Index : u.at[i] = <<p, 0>>
      OBVIOUS
    <3>1. PICK i \in Index : v.at[i] = <<p, 0>>
      BY <1>1 DEF Named
    <3> QED BY <3>1, <1>19
  <2>3. \A i \in Index : u.at[i] = None => u.in[i] = None
    BY <1>1, <1>2 DEF Named
  <2>4. \A i \in Index, n \in Port, x \in Vlan : u.at[i] = <<n, x>> => \E j \in Index : u.at[j] = <<n, 0>>
    <3> SUFFICES ASSUME NEW i \in Index, NEW n \in Port, NEW x \in Vlan, u.at[i] = <<n, x>>
                 PROVE  \E j \in Index : u.at[j] = <<n, 0>>
      OBVIOUS
    <3>1. v.at[i] = <<n, x>>
      BY <1>18
    <3>2. PICK j \in Index : v.at[j] = <<n, 0>>
      BY <3>1, <1>20
    <3> QED BY <3>2, <1>10, <1>12
  <2>5. \A i \in Index, t \in Switch, x \in Vlan : u.at[i] = <<t, x>> => x = 0 /\ u.in[i] = t
    <3> SUFFICES ASSUME NEW i \in Index, NEW t \in Switch, NEW x \in Vlan, u.at[i] = <<t, x>>
                 PROVE  x = 0 /\ u.in[i] = t
      OBVIOUS
    <3>1. <<t, x>> # None
      BY Kinds DEF IfName
    <3>2. i \notin bvi /\ v.at[i] = <<t, x>>
      BY <3>1, <1>6
    <3>3. x = 0 /\ v.in[i] = t
      BY <3>2, <1>1 DEF Named
    <3>4. i \notin I
      <4> SUFFICES ASSUME i \in I PROVE FALSE
        OBVIOUS
      <4>1. u.in[i] = None
        BY <3>2, <1>2
      <4>2. t # s
        BY <3>2, <3>3, <1>1 DEF Registered
      <4>3. v.at[i][1] \in Port
        BY <4>1, <4>2, <3>3, <1>3, <1>9
      <4> QED BY <4>3, <3>2, Kinds
    <3> QED BY <3>2, <3>3, <3>4, <1>2
  <2> QED BY <2>1, <2>2, <2>3, <2>4, <2>5 DEF Named
<1>14. Registered(u, q, "run", Q)
  <2>1. \A x \in Switch : q.attached[x] \in {{}, r.attached[x]} /\ (x # s => q.attached[x] = r.attached[x])
    BY <1>1 DEF RegType
  <2>2. \A x \in Switch : q.bvi[x] # 0 => x # s /\ q.bvi[x] = r.bvi[x] /\ q.bvi[x] \in Index
    BY <1>1 DEF RegType
  <2>3. ASSUME NEW x \in Switch, q.bvi[x] # 0 PROVE u.at[q.bvi[x]] = <<x, 0>>
    <3>1. x # s /\ q.bvi[x] \in Index /\ v.at[q.bvi[x]] = <<x, 0>>
      BY <2>2, <2>3, <1>1 DEF Registered
    <3> QED BY <3>1, <1>11
  <2>4. ASSUME NEW b \in Bond, q.bond[b] # 0 PROVE u.at[q.bond[b]] = <<b, 0>>
    <3>1. q.bond[b] \in Index /\ v.at[q.bond[b]] = <<b, 0>>
      BY <2>4, <1>21
    <3> QED BY <3>1, <1>19
  <2>5. \A i \in Index, x \in Switch : u.at[i] = <<x, 0>> => i \notin q.attached[x]
    BY <2>1, <1>1, <1>6, <1>9 DEF Registered
  <2>6. \A i \in Index, x \in Switch : u.in[i] = x => i \in q.attached[x] \/ u.at[i] = <<x, 0>>
    BY <2>1, <1>1, <1>7 DEF Registered
  <2> QED BY <2>3, <2>4, <2>5, <2>6 DEF Registered
<1>15. Policies(u, q, "run", c, Q)
  <2>1. \A p \in Phys, i \in Index : u.at[i] = <<p, 0>> => v.at[i] = <<p, 0>> /\ u.input[i] = v.input[i]
    BY <1>2, <1>12, <1>18
  <2> QED BY <2>1, <1>1, <1>5 DEF Policies
<1>16. Filters(u, q, "run", c, Q, E)
  <2>1. \A i \in Index : u.guard[i] \in {None, v.guard[i]}
    BY <1>2
  <2>2. ASSUME NEW t \in c.switches, NEW i \in Index, NEW n \in c.ports[t] \ (Vnic \cup E),
               u.at[i] = <<n, 0>>, ~Waits(Q, "bd", t)
        PROVE  u.guard[i] = c.guard[n] \/ c.guard[n] = None
    <3>1. n \in Port /\ n \notin D
      BY ConfigTypes
    <3>2. v.at[i] = <<n, 0>> /\ u.guard[i] = v.guard[i]
      BY <3>1, <2>2, <1>2, <1>12, <1>18
    <3> QED BY <3>1, <3>2, <2>2, <1>1, <1>5 DEF Filters
  <2>3. \A i \in Index : u.guard[i] \in c.acls \cup {None} \/ Waits(Q, "del-acl", u.guard[i])
    BY <2>1, <1>1, <1>5 DEF Filters
  <2>4. \A a \in Acl : (a \in c.acls /\ ~Waits(Q, "acl", a)) \/ Waits(Q, "del-acl", a) => a \in q.acls
    BY <1>1, <1>5 DEF Filters
  <2>5. \A i \in Index : q.bound[i] = None \/ u.guard[i] = None \/ q.bound[i] = u.guard[i]
    BY <2>1, <1>1 DEF Filters
  <2> QED BY <2>2, <2>3, <2>4, <2>5 DEF Filters
<1>17. Bridges(u, "run", c, Q, E)
  <2>1. \A t \in c.switches : t \in Switch /\ t # s
    BY ConfigTypes
  <2>2. \A t \in c.switches, i \in Index :
          u.in[i] = t /\ ~Waits(Q, "bd", t) => u.at[i] \in Members(c, t) \cup {<<t, 0>>}
    BY <2>1, <1>1, <1>5, <1>7 DEF Bridges
  <2>3. ASSUME NEW t \in c.switches, ~Waits(Q, "bd", t), NEW n \in Members(c, t)
        PROVE  n[1] \in E \/ \E i \in Index : u.at[i] = n /\ u.in[i] = t
    <3>1. t \in Switch /\ t # s /\ n[1] \in Port /\ c.vlan[t] \in Vlan /\ n = <<n[1], c.vlan[t]>>
      BY <2>1, ConfigTypes DEF Members
    <3>2. n[1] \in D \/ \E i \in Index : v.at[i] = n /\ v.in[i] = t
      BY <2>3, <1>1, <1>5 DEF Bridges
    <3>3. ASSUME NEW i \in Index, v.at[i] = n, v.in[i] = t PROVE n[1] \in E \/ (u.at[i] = n /\ u.in[i] = t)
      <4>1. i \notin bvi /\ u.at[i] = n
        BY <3>1, <3>3, <1>10
      <4>2. CASE i \in I
        BY <4>1, <4>2, <3>1, <3>3, <1>2, <1>3, <1>9
      <4>3. CASE i \notin I
        BY <4>1, <4>3, <3>3, <1>2
      <4> QED BY <4>2, <4>3
    <3> QED BY <3>2, <3>3
  <2>4. ASSUME NEW t \in c.switches, ~Waits(Q, "bd", t), t \in c.gw PROVE \E i \in Index : u.at[i] = <<t, 0>>
    <3>1. PICK i \in Index : v.at[i] = <<t, 0>>
      BY <2>4, <1>1, <1>5 DEF Bridges
    <3> QED BY <3>1, <2>1, <1>11
  <2>5. ASSUME NEW t \in Switch \ c.switches, ~Waits(Q, "del-bd", t)
        PROVE  t \notin u.bds /\ \A i \in Index : u.in[i] # t
    <3>1. CASE t = s
      BY <3>1, <1>2
    <3>2. CASE t # s
      <4>1. t \notin v.bds /\ \A i \in Index : v.in[i] # t
        BY <3>2, <2>5, <1>1, <1>4 DEF Bridges
      <4> QED BY <4>1, <1>2, <1>7
    <3> QED BY <3>1, <3>2
  <2> QED BY <2>2, <2>3, <2>4, <2>5 DEF Bridges
<1> QED BY <1>13, <1>14, <1>15, <1>16, <1>17 DEF Sound, Q

\* The registries of a switch, one at a time.
SetBvi(r, s, x) == [r EXCEPT !.bvi[s] = x]
SetAttached(r, s, x) == [r EXCEPT !.attached[s] = x]
SetSubifs(r, s, x) == [r EXCEPT !.subifs[s] = x]

\* The registry of BVIs is apart from the other registries.
LEMMA BviSet ==
  ASSUME NEW r \in RegType, NEW s \in Switch, NEW x \in Index \cup {0}
  PROVE  LET q == SetBvi(r, s, x) IN
         /\ q \in RegType /\ q.bvi = [r.bvi EXCEPT ![s] = x] /\ q.attached = r.attached /\ q.subifs = r.subifs
         /\ q.bond = r.bond /\ q.acls = r.acls /\ q.bound = r.bound /\ q.policy = r.policy
<1> DEFINE q == SetBvi(r, s, x)
<1>1. q \in RegType
  BY DEF RegType, SetBvi
<1>2. /\ q.bvi = [r.bvi EXCEPT ![s] = x] /\ q.attached = r.attached /\ q.subifs = r.subifs
      /\ q.bond = r.bond /\ q.acls = r.acls /\ q.bound = r.bound /\ q.policy = r.policy
  BY DEF RegType, SetBvi
<1> QED BY <1>1, <1>2

\* The registry of members is apart from the other registries.
LEMMA AttachedSet ==
  ASSUME NEW r \in RegType, NEW s \in Switch, NEW x, x \subseteq Index
  PROVE  LET q == SetAttached(r, s, x) IN
         /\ q \in RegType /\ q.attached = [r.attached EXCEPT ![s] = x] /\ q.bvi = r.bvi /\ q.subifs = r.subifs
         /\ q.bond = r.bond /\ q.acls = r.acls /\ q.bound = r.bound /\ q.policy = r.policy
<1> DEFINE q == SetAttached(r, s, x)
<1>1. q \in RegType
  BY DEF RegType, SetAttached
<1>2. /\ q.attached = [r.attached EXCEPT ![s] = x] /\ q.bvi = r.bvi /\ q.subifs = r.subifs
      /\ q.bond = r.bond /\ q.acls = r.acls /\ q.bound = r.bound /\ q.policy = r.policy
  BY DEF RegType, SetAttached
<1> QED BY <1>1, <1>2

\* The registry of sub-interfaces is apart from the other registries.
LEMMA SubifsSet ==
  ASSUME NEW r \in RegType, NEW s \in Switch, NEW x, x \subseteq Index
  PROVE  LET q == SetSubifs(r, s, x) IN
         /\ q \in RegType /\ q.subifs = [r.subifs EXCEPT ![s] = x] /\ q.bvi = r.bvi /\ q.attached = r.attached
         /\ q.bond = r.bond /\ q.acls = r.acls /\ q.bound = r.bound /\ q.policy = r.policy
<1> DEFINE q == SetSubifs(r, s, x)
<1>1. q \in RegType
  BY DEF RegType, SetSubifs
<1>2. /\ q.subifs = [r.subifs EXCEPT ![s] = x] /\ q.bvi = r.bvi /\ q.attached = r.attached
      /\ q.bond = r.bond /\ q.acls = r.acls /\ q.bound = r.bound /\ q.policy = r.policy
  BY DEF RegType, SetSubifs
<1> QED BY <1>1, <1>2

\* Nothing goes with a BVI but itself.
LEMMA BviGone ==
  ASSUME NEW v \in VppType, Named(v), NEW s \in Switch, NEW B, B \subseteq Index, \A i \in B : v.at[i] = <<s, 0>>
  PROVE  Gone(v, B) = B
<1>1. \A i \in B : v.at[i] # None /\ v.at[i][1] = s /\ v.at[i][2] = 0
  <2>1. <<s, 0>> \in IfName
    BY SwitchingAssumption DEF IfName
  <2>2. <<s, 0>> # None
    BY <2>1, Kinds
  <2> QED BY <2>2
<1>2. ASSUME NEW i \in Gone(v, B) PROVE i \in B
  <2>1. i \in Index
    BY <1>2 DEF Gone
  <2> SUFFICES ASSUME i \notin B PROVE FALSE
    OBVIOUS
  <2>2. PICK j \in B : v.at[i] # None /\ v.at[i][1] = v.at[j][1]
    BY <1>2 DEF Gone
  <2>3. v.at[i] = <<s, v.at[i][2]>> /\ v.at[i][2] \in Vlan
    BY <1>1, <2>1, <2>2, NamePair
  <2>4. v.at[i][2] = 0
    BY <2>1, <2>3 DEF Named
  <2>5. v.at[i] = v.at[j] /\ j \in Index
    BY <2>2, <2>3, <2>4
  <2>6. i = j
    BY <2>1, <2>2, <2>5 DEF Named
  <2> QED BY <2>6
<1>3. B \subseteq Gone(v, B)
  BY DEF Gone
<1> QED BY <1>2, <1>3

\* A bridge domain goes with its BVI and the sub-interfaces of its switch.
LEMMA DeleteDomainStep ==
  ASSUME NEW m, NEW c \in Cfg, NEW P, NEW D, NEW E, NEW v, NEW r, NEW op \in Op, Fits(op, m, c),
         Sound(v, r, m, c, P, D), op.kind = "del-bd", NEW o \in DeleteBridgeDomain(v, r, op.obj), o.ok,
         D \subseteq E, Displacing(v, o.vpp, op.obj, E)
  PROVE  Sound(o.vpp, o.reg, m, c, P \ {op}, E)
<1> DEFINE s == op.obj
           B == {r.bvi[s]} \ {0}
           r1 == SetBvi(r, s, 0)
           v1 == Remove(v, B)
           I == {i \in r.attached[s] : v1.at[i] # None}
           r2 == SetAttached(r1, s, {})
           v2 == Detach(v1, I)
           v3 == BridgeDomainAddDel(v2, s, FALSE)
           r3 == SetSubifs(r2, s, {})
           S == r.subifs[s]
           kept == {i \in S : v3.at[i] # None /\ (v3.at[i][2] = 0 \/ v3.in[i] # None)}
           left == \E i \in Index : v2.in[i] = s
           w == Remove(v3, S)
<1>1. /\ v \in VppType /\ r \in RegType /\ Named(v) /\ m = "run" /\ Registered(v, r, m, P)
  BY SoundTypes DEF Fits
<1>2. s \in Switch /\ s \notin c.switches
  BY DEF Fits
<1>3. DeleteBridgeDomain(v, r, s) =
        {Broken(v, r1)} \cup {Broken(Detach(v1, J), r2) : J \in Cuts(I)}
        \cup IF left THEN {Refuse(v2, r2)}
             ELSE IF kept # {}
             THEN {Refuse(Remove(v3, {i \in S : \A j \in kept : i < j}), r3)}
             ELSE {Ok(w, r3), Broken(v2, r2), Broken(v3, r3)}
  BY Zenon DEF DeleteBridgeDomain, SetBvi, SetAttached, SetSubifs
<1>4. B \subseteq Index /\ \A i \in B : v.at[i] = <<s, 0>>
  <2>1. r.bvi[s] # 0 => r.bvi[s] \in Index
    BY <1>1, <1>2 DEF RegType
  <2>2. r.bvi[s] # 0 => v.at[r.bvi[s]] = <<s, 0>>
    BY <1>1, <1>2 DEF Registered
  <2> QED BY <2>1, <2>2
<1> HIDE DEF B
<1>5. /\ v1 \in VppType /\ v1.bds = v.bds
      /\ \A i \in B : v1.at[i] = None /\ v1.in[i] = None /\ v1.guard[i] = None
      /\ \A i \in Index \ B : /\ v1.at[i] = v.at[i] /\ v1.in[i] = v.in[i]
                              /\ v1.guard[i] = v.guard[i] /\ v1.input[i] = v.input[i]
  <2>1. Gone(v, B) = B
    BY <1>1, <1>2, <1>4, BviGone
  <2> HIDE DEF I, v2, v3, r1, r2, r3, S, w
  <2> HIDE DEF v1
  <2>2. v1 = Remove(v, B)
    BY DEF v1
  <2> QED BY <2>1, <2>2, <1>1, Removed
<1> HIDE DEF v1
<1>6. I \subseteq r.attached[s] /\ S \subseteq Index /\ r.attached[s] \subseteq Index
  BY <1>1, <1>2 DEF RegType
<1> HIDE DEF I, S
<1>7. /\ v2 \in VppType /\ v2.at = v1.at /\ v2.bds = v1.bds /\ v2.guard = v1.guard /\ v2.input = v1.input
      /\ \A i \in Index : v2.in[i] = IF i \in I THEN None ELSE v1.in[i]
  BY <1>5, Attached DEF Detach
<1> HIDE DEF v2
<1>8. /\ v3 \in VppType /\ v3.at = v2.at /\ v3.in = v2.in /\ v3.guard = v2.guard /\ v3.input = v2.input
      /\ v3.bds = v2.bds \ {s}
  <2>1. v3 = Unmade(v2, s)
    BY DEF v3, Unmade
  <2>2. v2 \in VppType /\ s \in Switch
    BY <1>2, <1>7
  <2> HIDE DEF s, v3
  <2>3. \A x \in {Made(v2, s), Unmade(v2, s)} :
          x \in VppType /\ x.at = v2.at /\ x.in = v2.in /\ x.guard = v2.guard /\ x.input = v2.input
    BY <2>2, Domains
  <2>4. Unmade(v2, s).bds = v2.bds \ {s}
    BY <2>2, Domains
  <2> QED BY <2>1, <2>3, <2>4
<1> HIDE DEF v3
<1>9. /\ r1 \in RegType /\ r1.bvi = [r.bvi EXCEPT ![s] = 0] /\ r1.attached = r.attached
      /\ r1.bond = r.bond /\ r1.acls = r.acls /\ r1.bound = r.bound /\ r1.policy = r.policy
  <2> DEFINE x == 0
  <2>1. x \in Index \cup {0} /\ r1 = SetBvi(r, s, x)
    BY DEF r1
  <2> HIDE DEF x, s
  <2>2. /\ r1.bvi = [r.bvi EXCEPT ![s] = x] /\ r1 \in RegType /\ r1.attached = r.attached
        /\ r1.bond = r.bond /\ r1.acls = r.acls /\ r1.bound = r.bound /\ r1.policy = r.policy
    BY <1>1, <1>2, <2>1, BviSet
  <2> QED BY <2>2 DEF x
<1> HIDE DEF r1
<1>10. /\ r2 \in RegType /\ r2.attached = [r1.attached EXCEPT ![s] = {}] /\ r2.bvi = r1.bvi
       /\ r2.bond = r1.bond /\ r2.acls = r1.acls /\ r2.bound = r1.bound /\ r2.policy = r1.policy
  <2> DEFINE x == {}
  <2>1. x \subseteq Index /\ r2 = SetAttached(r1, s, x)
    OBVIOUS
  <2> HIDE DEF x, r2, s
  <2>2. /\ r2 \in RegType /\ r2.attached = [r1.attached EXCEPT ![s] = x] /\ r2.bvi = r1.bvi
        /\ r2.bond = r1.bond /\ r2.acls = r1.acls /\ r2.bound = r1.bound /\ r2.policy = r1.policy
    BY <1>2, <1>9, <2>1, AttachedSet
  <2> QED BY <2>2 DEF x
<1> HIDE DEF r2
<1>11. /\ r3 \in RegType /\ r3.attached = r2.attached /\ r3.bvi = r2.bvi
       /\ r3.bond = r2.bond /\ r3.acls = r2.acls /\ r3.bound = r2.bound /\ r3.policy = r2.policy
  BY <1>2, <1>10, SubifsSet
<1> HIDE DEF r3, w, kept, left
<1>12. ~left /\ kept = {} /\ o = Ok(w, r3)
  <2> DEFINE X == {Broken(Detach(v1, J), r2) : J \in Cuts(I)}
             Y == Remove(v3, {i \in S : \A j \in kept : i < j})
  <2>1. \A x \in X : ~x.ok
    BY Successes
  <2>2. o \in {Broken(v, r1)} \cup X \cup IF left THEN {Refuse(v2, r2)}
             ELSE IF kept # {} THEN {Refuse(Y, r3)}
             ELSE {Ok(w, r3), Broken(v2, r2), Broken(v3, r3)}
    BY <1>3
  <2> HIDE DEF X, Y
  <2> QED BY <2>1, <2>2, Successes
<1>13. o.vpp = w /\ o.reg = r3
  BY <1>12, Successes
<1>14. \A i \in S : v3.at[i] # None => v3.at[i][2] # 0 /\ v3.in[i] = None
  BY <1>12 DEF kept
<1>15. Gone(v3, S) = S
  BY <1>6, <1>14 DEF Gone
<1>16. /\ w \in VppType /\ w.bds = v3.bds
       /\ \A i \in S : w.at[i] = None /\ w.in[i] = None /\ w.guard[i] = None
       /\ \A i \in Index \ S : /\ w.at[i] = v3.at[i] /\ w.in[i] = v3.in[i]
                               /\ w.guard[i] = v3.guard[i] /\ w.input[i] = v3.input[i]
  BY <1>8, <1>15, Removed DEF w
<1>17. Emptied(v, v3, s, B, I)
  <2>1. \A i \in Index : v3.in[i] # s
    BY <1>8, <1>12 DEF left
  <2>2. \A i \in B : v3.at[i] = None /\ v3.in[i] = None /\ v3.guard[i] = None
    BY <1>4, <1>5, <1>7, <1>8
  <2>3. \A i \in Index \ B : /\ v3.at[i] = v.at[i] /\ v3.guard[i] = v.guard[i] /\ v3.input[i] = v.input[i]
                            /\ v3.in[i] = IF i \in I THEN None ELSE v.in[i]
    BY <1>5, <1>7, <1>8
  <2> QED BY <2>1, <2>2, <2>3, <1>4, <1>5, <1>7, <1>8 DEF Emptied
<1>18. Displacing(v, v3, s, E)
  <2>1. \A i \in Index : v3.in[i] = None => w.in[i] = None
    BY <1>16
  <2> QED BY <2>1, <1>13 DEF Displacing
<1>19. Sound(v3, r3, m, c, P \ {op}, E)
  <2>1. /\ r3.attached = [r.attached EXCEPT ![s] = {}] /\ r3.bvi = [r.bvi EXCEPT ![s] = 0]
        /\ r3.bond = r.bond /\ r3.acls = r.acls /\ r3.bound = r.bound /\ r3.policy = r.policy
    BY <1>9, <1>10, <1>11
  <2>2. Sound(v, r, "run", c, P, D)
    BY <1>1
  <2> HIDE DEF s
  <2>3. Sound(v3, r3, "run", c, P \ {op}, E)
    BY <2>1, <2>2, <1>2, <1>6, <1>8, <1>11, <1>17, <1>18, DomainEmptied DEF s
  <2> QED BY <2>3, <1>1
<1>20. Lost(v3, w, S)
  <2>1. \A i \in S : v3.at[i] # None => v3.at[i][1] \in Bond \cup Vnic \/ v3.at[i][2] # 0
    BY <1>14
  <2>2. \A i \in S, j \in Index : v3.at[i] # None /\ v3.at[j] # None /\ v3.at[i][2] = 0 /\ v3.at[j][1] = v3.at[i][1]
                               => j \in S
    BY <1>14
  <2> QED BY <2>1, <2>2, <1>6, <1>16 DEF Lost
<1>21. Named(v3) /\ Registered(v3, r3, m, P \ {op}) /\ m # "down"
  BY <1>1, <1>19, SoundTypes
<1>22. Remembered(v3, S, c, E) /\ SameRegistry(r3, r3)
  <2>1. \A i \in S : v3.in[i] = None
    BY <1>6, <1>14, <1>21 DEF Named
  <2>2. \A t \in c.switches : t # None
    BY Kinds, ConfigTypes
  <2> QED BY <2>1, <2>2 DEF Remembered, SameRegistry
<1>23. ASSUME NEW b \in Bond, r3.bond[b] # 0 PROVE w.at[r3.bond[b]] = <<b, 0>>
  <2>1. r3.bond[b] \in Index
    BY <1>11, <1>23 DEF RegType
  <2>2. v3.at[r3.bond[b]] = <<b, 0>>
    BY <1>21, <1>23 DEF Registered
  <2>3. v3.at[r3.bond[b]] # None /\ v3.at[r3.bond[b]][2] = 0
    BY <2>2, Kinds, SwitchingAssumption DEF IfName, Port
  <2> QED BY <2>1, <2>2, <2>3, <1>14, <1>16
<1>24. Sound(w, r3, m, c, P \ {op}, E)
  BY <1>11, <1>16, <1>19, <1>20, <1>21, <1>22, <1>23, Shrunk
<1> QED BY <1>13, <1>24

-----------------------------------------------------------------------------
(* Bridge domains that are applied *)

\* The members of a switch are interfaces of its ports on its VLAN.
LEMMA MemberNames ==
  ASSUME NEW c \in Cfg, NEW s \in c.switches
  PROVE  /\ s \in Switch /\ s # None /\ c.ports[s] \subseteq Port /\ c.vlan[s] \in Vlan /\ 0 \in Vlan
         /\ \A n \in Members(c, s) : /\ n[1] \in c.ports[s] /\ n[1] \in Port /\ n[2] \in Vlan /\ n = <<n[1], n[2]>>
                                     /\ n \in IfName /\ n # None
         /\ \A n \in c.ports[s] : \E x \in Members(c, s) : x[1] = n
<1>1. s \in Switch /\ c.ports[s] \subseteq Port /\ c.vlan[s] \in Vlan /\ 0 \in Vlan
  BY ConfigTypes, SwitchingAssumption
<1>2. s # None
  BY <1>1, Kinds
<1>3. ASSUME NEW n \in Members(c, s)
      PROVE  n[1] \in c.ports[s] /\ n[1] \in Port /\ n[2] \in Vlan /\ n = <<n[1], n[2]>> /\ n \in IfName /\ n # None
  <2>1. PICK x \in c.ports[s] : n = <<x, c.vlan[s]>>
    BY DEF Members
  <2>2. n \in IfName
    BY <2>1, <1>1 DEF IfName
  <2> QED BY <2>1, <2>2, <1>1, Kinds
<1>4. ASSUME NEW n \in c.ports[s] PROVE \E x \in Members(c, s) : x[1] = n
  <2>1. <<n, c.vlan[s]>> \in Members(c, s)
    BY DEF Members
  <2> QED BY <2>1
<1> QED BY <1>1, <1>2, <1>3, <1>4

\* The sub-interfaces that are missing are made.
Missing(v, c, s) == {n \in Members(c, s) : n[2] # 0 /\ ~Exists(v, n)}

\* Once the missing sub-interfaces are made every member of a switch has an index.
LEMMA DomainResolved ==
  ASSUME NEW m, NEW c \in Cfg, NEW P, NEW D, NEW v, NEW r, NEW s \in c.switches,
         Sound(v, r, m, c, P, D), m # "down",
         \A n \in Members(c, s) : Exists(v, <<n[1], 0>>)
  PROVE  LET u == Create(Made(v, s), Missing(Made(v, s), c, s)) IN
         /\ Sound(u, r, m, c, P, D) /\ u.in = v.in /\ u.guard = v.guard /\ u.input = v.input
         /\ \A n \in Members(c, s) : \E i \in Index : u.at[i] = n
         /\ \A i \in Index : v.at[i] # None => u.at[i] = v.at[i]
<1> DEFINE v1 == Made(v, s)
           names == Missing(v1, c, s)
           u == Create(v1, names)
<1>1. v \in VppType /\ r \in RegType /\ Named(v) /\ Registered(v, r, m, P)
  BY SoundTypes
<1>2. /\ s \in Switch
      /\ \A n \in Members(c, s) : /\ n[1] \in Port /\ n[2] \in Vlan /\ n = <<n[1], n[2]>> /\ n \in IfName /\ n # None
  BY MemberNames
<1>3. v1 \in VppType /\ v1.at = v.at /\ v1.in = v.in /\ v1.guard = v.guard /\ v1.input = v.input /\ v1.bds = v.bds \cup {s}
  BY <1>1, <1>2, Domains
<1> HIDE DEF v1
<1>4. Sound(v1, r, m, c, P, D)
  <2>1. Named(v1)
    BY <1>1, <1>3, SameNames
  <2>2. Registered(v1, r, m, P)
    BY <1>1, <1>3 DEF Registered
  <2>3. Policies(v1, r, m, c, P)
    BY <1>3 DEF Sound, Policies
  <2>4. Filters(v1, r, m, c, P, D)
    BY <1>3 DEF Sound, Filters
  <2>5. Bridges(v1, m, c, P, D)
    BY <1>3 DEF Sound, Bridges
  <2> QED BY <1>1, <1>3, <2>1, <2>2, <2>3, <2>4, <2>5 DEF Sound
<1>5. \A n : n \in names <=> n \in Members(c, s) /\ n[2] # 0 /\ ~Exists(v1, n)
  BY DEF Missing
<1> HIDE DEF names
<1>6. names \in SUBSET (Port \X Vlan) /\ names \in SUBSET IfName
  <2> SUFFICES ASSUME NEW n \in names PROVE n \in Port \X Vlan /\ n \in IfName
    OBVIOUS
  <2>1. n[1] \in Port /\ n[2] \in Vlan /\ n = <<n[1], n[2]>> /\ n \in IfName
    BY <1>2, <1>5
  <2>2. <<n[1], n[2]>> \in Port \X Vlan
    BY <2>1
  <2> QED BY <2>1, <2>2
<1>7. \A i \in Index : v1.at[i] \notin names
  BY <1>5, Indexed
<1>8. /\ u \in VppType /\ u.in = v1.in /\ u.guard = v1.guard /\ u.input = v1.input
      /\ \A i \in Index : v1.at[i] # None => u.at[i] = v1.at[i]
      /\ \A n \in names : \E i \in Index : v1.at[i] = None /\ u.at[i] = n
  <2>1. Named(v1)
    BY <1>4, SoundTypes
  <2> QED BY <2>1, <1>3, <1>6, <1>7, Created
<1>9. ASSUME NEW n \in Port, NEW x \in Vlan, <<n, x>> \in names PROVE \E j \in Index : v1.at[j] = <<n, 0>>
  <2>1. Exists(v, <<n, 0>>)
    BY <1>5, <1>9
  <2> QED BY <2>1, <1>3, Indexed
<1> HIDE DEF u
<1>10. ASSUME NEW b \in Bond, r.bond[b] # 0 PROVE u.at[r.bond[b]] = <<b, 0>>
  <2>1. r.bond[b] \in Index
    BY <1>1, <1>10 DEF RegType
  <2>2. v1.at[r.bond[b]] = <<b, 0>>
    BY <1>1, <1>3, <1>10 DEF Registered
  <2>3. <<b, 0>> # None
    BY Kinds, SwitchingAssumption DEF IfName, Port
  <2> QED BY <2>1, <2>2, <2>3, <1>8
<1>11. Sound(u, r, m, c, P, D)
  <2>1. \A b \in Bond : r.bond[b] # 0 => Create(v1, names).at[r.bond[b]] = <<b, 0>>
    BY <1>10 DEF u
  <2>2. \A n \in Port, x \in Vlan : <<n, x>> \in names => x = 0 \/ \E j \in Index : v1.at[j] = <<n, 0>>
    BY <1>9
  <2>3. Sound(Create(v1, names), r, m, c, P, D)
    BY <1>1, <1>4, <1>6, <1>7, <2>1, <2>2, Grown
  <2> QED BY <2>3 DEF u
<1>12. ASSUME NEW n \in Members(c, s) PROVE \E i \in Index : u.at[i] = n
  <2>1. CASE n \in names
    BY <2>1, <1>8
  <2>2. CASE n \notin names /\ n[2] # 0
    <3>1. Exists(v1, n)
      BY <2>2, <1>5
    <3>2. PICK i \in Index : v1.at[i] = n
      BY <3>1, Indexed
    <3> QED BY <3>2, <1>2, <1>8
  <2>3. CASE n[2] = 0
    <3>1. Exists(v, <<n[1], 0>>) /\ n = <<n[1], 0>>
      BY <2>3, <1>2
    <3>2. PICK i \in Index : v.at[i] = n
      BY <3>1, Indexed
    <3> QED BY <3>2, <1>2, <1>3, <1>8
  <2> QED BY <2>1, <2>2, <2>3
<1>13. u.in = v.in /\ u.guard = v.guard /\ u.input = v.input /\ \A i \in Index : v.at[i] # None => u.at[i] = v.at[i]
  BY <1>3, <1>8
<1> QED BY <1>11, <1>12, <1>13 DEF u, v1, names

\* From u to w the interfaces in A join the bridge domain of s, and those in X leave theirs.
Joined(u, w, s, A, X) ==
  /\ w.at = u.at /\ w.bds = u.bds /\ w.input = u.input
  /\ \A i \in Index : w.in[i] = IF i \in A THEN s ELSE IF i \in X THEN None ELSE u.in[i]

\* The ports in K are bound to the ACLs they declare, in VPP and in the registry.
Guarding(u, r, w, q, c, K) ==
  \A i \in Index :
    /\ \A n \in K : u.at[i] = <<n, 0>> => w.guard[i] = c.guard[n] /\ q.bound[i] = c.guard[n]
    /\ (\A n \in K : u.at[i] # <<n, 0>>) => w.guard[i] = u.guard[i] /\ q.bound[i] = r.bound[i]

\* What an operation on a bridge domain is to bring about, but for the gateway.
Applied(v, r, c, s) ==
  /\ \A i \in Index : v.in[i] = s => v.at[i] \in Members(c, s) \cup {<<s, 0>>}
  /\ \A i \in Index : v.in[i] = s => i \in r.attached[s] \/ v.at[i] = <<s, 0>>
  /\ \A i \in r.attached[s] : v.at[i] \in Members(c, s)
  /\ \A n \in Members(c, s) : \E i \in Index : v.at[i] = n /\ v.in[i] = s
  /\ \A n \in c.ports[s] \ Vnic, i \in Index : v.at[i] = <<n, 0>> => v.guard[i] = c.guard[n] \/ c.guard[n] = None

\* The members of s, the interfaces in A, join its bridge domain and are bound to their ACLs.
Joining(u, r, w, q, c, s, A) ==
  /\ A \subseteq Index /\ \A i \in Index : i \in A <=> u.at[i] \in Members(c, s)
  /\ \A n \in Members(c, s) : \E i \in Index : u.at[i] = n
  /\ Joined(u, w, s, A, r.attached[s] \ A) /\ Guarding(u, r, w, q, c, Guarded(c, s))
  /\ q.attached = [r.attached EXCEPT ![s] = A] /\ q.bvi = r.bvi /\ q.bond = r.bond
  /\ q.acls = r.acls /\ q.policy = r.policy

\* Attached members and their ACLs make a switch right, and no other switch wrong but for
\* what is displaced.
LEMMA DomainJoined ==
  ASSUME NEW m \in {"run", "recover"}, NEW c \in Cfg, NEW P, NEW D, NEW E, NEW u, NEW r, NEW w \in VppType, NEW q \in RegType,
         NEW s \in c.switches, Waits(P, "bd", s), Sound(u, r, m, c, P, D), D \ c.ports[s] \subseteq E,
         NEW A, Joining(u, r, w, q, c, s, A), Displacing(u, w, s, E)
  PROVE  Sound(w, q, m, c, P, E) /\ Applied(w, q, c, s)
<1>0. /\ A \subseteq Index /\ \A i \in Index : i \in A <=> u.at[i] \in Members(c, s)
      /\ \A n \in Members(c, s) : \E i \in Index : u.at[i] = n
      /\ Joined(u, w, s, A, r.attached[s] \ A) /\ Guarding(u, r, w, q, c, Guarded(c, s))
      /\ q.attached = [r.attached EXCEPT ![s] = A] /\ q.bvi = r.bvi /\ q.bond = r.bond
      /\ q.acls = r.acls /\ q.policy = r.policy
  BY DEF Joining
<1> USE <1>0
<1>1. /\ u \in VppType /\ r \in RegType /\ Named(u) /\ Registered(u, r, m, P)
      /\ Policies(u, r, m, c, P) /\ Filters(u, r, m, c, P, D) /\ Bridges(u, m, c, P, D)
  BY SoundTypes
<1>2. /\ s \in Switch /\ s # None /\ c.ports[s] \subseteq Port /\ c.vlan[s] \in Vlan /\ 0 \in Vlan
      /\ \A n \in Members(c, s) : n[1] \in c.ports[s] /\ n[1] \in Port /\ n # None
  BY MemberNames
<1>3. /\ w.at = u.at /\ w.bds = u.bds /\ w.input = u.input
      /\ \A i \in Index : w.in[i] = IF i \in A THEN s ELSE IF i \in r.attached[s] THEN None ELSE u.in[i]
  BY DEF Joined
<1>4. \A i \in Index : u.in[i] \notin {None, s} /\ w.in[i] = None => u.at[i][1] \in E /\ u.at[i][1] \in Port
  BY DEF Displacing
<1>5. q.attached[s] = A /\ \A t \in Switch : t # s => q.attached[t] = r.attached[t]
  BY <1>1, <1>2 DEF RegType
<1>6. \A t \in Switch, i \in Index : u.at[i] = <<t, 0>> => i \notin A
  <2> SUFFICES ASSUME NEW t \in Switch, NEW i \in Index, u.at[i] = <<t, 0>>, i \in A PROVE FALSE
    OBVIOUS
  <2>1. u.at[i][1] = t
    OBVIOUS
  <2>2. u.at[i] \in Members(c, s)
    OBVIOUS
  <2>3. u.at[i][1] \in Port
    BY <2>2, <1>2
  <2> QED BY <2>1, <2>3, Kinds
<1>7. \A i \in Index, t \in Switch : w.in[i] = t /\ t # s => i \notin A /\ u.in[i] = t
  BY <1>3, Kinds
<1>8. \A i \in Index : w.in[i] = s => i \in A \/ u.at[i] = <<s, 0>>
  <2> SUFFICES ASSUME NEW i \in Index, w.in[i] = s, i \notin A PROVE u.at[i] = <<s, 0>>
    OBVIOUS
  <2>1. i \notin r.attached[s] /\ u.in[i] = s
    BY <1>2, <1>3
  <2>2. u.at[i] = <<s, 0>> \/ m = "recover"
    BY <2>1, <1>1, <1>2 DEF Registered
  <2>3. CASE m = "recover"
    <3>1. u.at[i] \in Members(c, s) \cup {<<s, 0>>}
      BY <2>1, <2>3, <1>1 DEF Bridges
    <3> QED BY <3>1
  <2> QED BY <2>2, <2>3
<1>9. Named(w)
  <2>1. \A i \in Index : w.at[i] = None => w.in[i] = None
    <3> SUFFICES ASSUME NEW i \in Index, w.at[i] = None PROVE w.in[i] = None
      OBVIOUS
    <3>1. u.at[i] = None /\ u.at[i] \notin Members(c, s)
      BY <1>2, <1>3
    <3>2. u.in[i] = None /\ i \notin A
      BY <3>1, <1>1 DEF Named
    <3> QED BY <3>2, <1>3
  <2>2. \A i \in Index, t \in Switch, x \in Vlan : w.at[i] = <<t, x>> => x = 0 /\ w.in[i] = t
    <3> SUFFICES ASSUME NEW i \in Index, NEW t \in Switch, NEW x \in Vlan, w.at[i] = <<t, x>>
                 PROVE  x = 0 /\ w.in[i] = t
      OBVIOUS
    <3>1. u.at[i] = <<t, x>>
      BY <1>3
    <3>2. x = 0 /\ u.in[i] = t
      BY <3>1, <1>1 DEF Named
    <3>3. i \notin A /\ u.at[i] = <<t, 0>> /\ u.at[i][1] = t
      BY <3>1, <3>2, <1>6
    <3>4. CASE i \in r.attached[s]
      <4>1. t # s
        BY <3>3, <3>4, <1>1, <1>2 DEF Registered
      <4>2. w.in[i] = None
        BY <3>3, <3>4, <1>3
      <4>3. t # None
        BY Kinds
      <4>4. u.at[i][1] \in Port
        BY <4>1, <4>2, <4>3, <3>2, <1>4
      <4> QED BY <4>4, <3>3, <1>4, Kinds
    <3>5. CASE i \notin r.attached[s]
      BY <3>2, <3>3, <3>5, <1>3
    <3> QED BY <3>4, <3>5
  <2>3. /\ \A i, j \in Index : w.at[i] = w.at[j] /\ w.at[i] # None => i = j
        /\ \A p \in Phys : \E i \in Index : w.at[i] = <<p, 0>>
    <3>1. /\ \A i, j \in Index : u.at[i] = u.at[j] /\ u.at[i] # None => i = j
          /\ \A p \in Phys : \E i \in Index : u.at[i] = <<p, 0>>
      BY <1>1 DEF Named
    <3> QED BY <3>1, <1>3
  <2>4. \A i \in Index, n \in Port, x \in Vlan : w.at[i] = <<n, x>> => \E j \in Index : w.at[j] = <<n, 0>>
    <3>1. \A i \in Index, n \in Port, x \in Vlan : u.at[i] = <<n, x>> => \E j \in Index : u.at[j] = <<n, 0>>
      BY <1>1 DEF Named
    <3> QED BY <3>1, <1>3
  <2> QED BY <2>1, <2>2, <2>3, <2>4 DEF Named
<1>10. Registered(w, q, m, P)
  <2>1. \A t \in Switch : q.bvi[t] # 0 => w.at[q.bvi[t]] = <<t, 0>>
    BY <1>1, <1>3 DEF Registered
  <2>2. \A b \in Bond : q.bond[b] # 0 => w.at[q.bond[b]] = <<b, 0>>
    BY <1>1, <1>3 DEF Registered
  <2>3. ASSUME NEW i \in Index, NEW t \in Switch, w.at[i] = <<t, 0>> PROVE i \notin q.attached[t]
    <3>1. u.at[i] = <<t, 0>>
      BY <2>3, <1>3
    <3>2. i \notin A /\ i \notin r.attached[t]
      BY <3>1, <1>1, <1>6 DEF Registered
    <3> QED BY <3>2, <1>5
  <2>4. ASSUME NEW i \in Index, NEW t \in Switch, w.in[i] = t
        PROVE  i \in q.attached[t] \/ w.at[i] = <<t, 0>> \/ (m = "recover" /\ Waits(P, "bd", t))
    <3>1. CASE t = s
      BY <3>1, <2>4, <1>3, <1>5, <1>8
    <3>2. CASE t # s
      BY <3>2, <2>4, <1>1, <1>3, <1>5, <1>7 DEF Registered
    <3> QED BY <3>1, <3>2
  <2> QED BY <2>1, <2>2, <2>3, <2>4 DEF Registered
<1>11. Policies(w, q, m, c, P)
  BY <1>1, <1>3 DEF Policies
<1>12. \A n \in Guarded(c, s) : n \in c.ports[s] /\ n \in Phys \cup Bond /\ c.guard[n] \in c.acls /\ c.guard[n] # None
  BY <1>2, ConfigValid DEF Guarded, Port
<1>13. \A i \in Index : \/ \E n \in Guarded(c, s) : u.at[i] = <<n, 0>> /\ w.guard[i] = c.guard[n] /\ q.bound[i] = c.guard[n]
                        \/ w.guard[i] = u.guard[i] /\ q.bound[i] = r.bound[i] /\ \A n \in Guarded(c, s) : u.at[i] # <<n, 0>>
  BY DEF Guarding
<1>14. Filters(w, q, m, c, P, E)
  <2>1. \A i \in Index : w.guard[i] \in c.acls \cup {None} \/ (m = "run" /\ Waits(P, "del-acl", w.guard[i]))
    BY <1>1, <1>12, <1>13 DEF Filters
  <2>2. \A a \in Acl : (a \in c.acls /\ ~Waits(P, "acl", a)) \/ Waits(P, "del-acl", a) => a \in q.acls
    BY <1>1 DEF Filters
  <2>3. \A i \in Index : q.bound[i] = None \/ w.guard[i] = None \/ q.bound[i] = w.guard[i]
    BY <1>1, <1>13 DEF Filters
  <2>4. ASSUME NEW t \in c.switches, NEW i \in Index, NEW n \in c.ports[t] \ (Vnic \cup E),
               w.at[i] = <<n, 0>>, ~Waits(P, "bd", t)
        PROVE  w.guard[i] = c.guard[n] \/ c.guard[n] = None
    <3>1. t # s /\ n \notin c.ports[s]
      BY <2>4, ConfigValid
    <3>2. u.at[i] = <<n, 0>> /\ n \notin D /\ \A x \in Guarded(c, s) : u.at[i] # <<x, 0>>
      BY <3>1, <2>4, <1>3, <1>12
    <3>3. w.guard[i] = u.guard[i]
      BY <3>2, <1>13
    <3> QED BY <3>2, <3>3, <2>4, <1>1 DEF Filters
  <2> QED BY <2>1, <2>2, <2>3, <2>4 DEF Filters
<1>15. Applied(w, q, c, s)
  <2>1. \A i \in Index : w.in[i] = s => w.at[i] \in Members(c, s) \cup {<<s, 0>>}
    BY <1>3, <1>8
  <2>2. \A i \in Index : w.in[i] = s => i \in q.attached[s] \/ w.at[i] = <<s, 0>>
    BY <1>3, <1>5, <1>8
  <2>3. \A i \in q.attached[s] : w.at[i] \in Members(c, s)
    BY <1>3, <1>5
  <2>4. \A n \in Members(c, s) : \E i \in Index : w.at[i] = n /\ w.in[i] = s
    BY <1>3
  <2>5. ASSUME NEW n \in c.ports[s] \ Vnic, NEW i \in Index, w.at[i] = <<n, 0>>, c.guard[n] # None
        PROVE  w.guard[i] = c.guard[n]
    <3>1. n \in Guarded(c, s) /\ u.at[i] = <<n, 0>>
      BY <2>5, <1>3 DEF Guarded
    <3> QED BY <3>1, <1>13
  <2> QED BY <2>1, <2>2, <2>3, <2>4, <2>5 DEF Applied
<1>16. Bridges(w, m, c, P, E)
  <2>1. \A t \in c.switches : t \in Switch
    BY ConfigTypes
  <2>2. ASSUME NEW t \in c.switches, NEW i \in Index, w.in[i] = t, ~(m = "run" /\ Waits(P, "bd", t))
        PROVE  w.at[i] \in Members(c, t) \cup {<<t, 0>>}
    <3>1. CASE t = s
      BY <3>1, <2>2, <1>15 DEF Applied
    <3>2. CASE t # s
      BY <3>2, <2>1, <2>2, <1>1, <1>3, <1>7 DEF Bridges
    <3> QED BY <3>1, <3>2
  <2>3. ASSUME NEW t \in c.switches, ~Waits(P, "bd", t), NEW n \in Members(c, t)
        PROVE  n[1] \in E \/ \E i \in Index : w.at[i] = n /\ w.in[i] = t
    <3>1. t # s /\ n[1] \in c.ports[t] /\ t # None
      BY <2>3, MemberNames
    <3>2. n[1] \notin c.ports[s]
      BY <3>1, ConfigValid
    <3>3. n[1] \in D \/ \E i \in Index : u.at[i] = n /\ u.in[i] = t
      BY <2>3, <1>1 DEF Bridges
    <3>4. ASSUME NEW i \in Index, u.at[i] = n, u.in[i] = t PROVE n[1] \in E \/ (w.at[i] = n /\ w.in[i] = t)
      <4>1. i \notin A
        BY <3>2, <3>4, <1>2
      <4> QED BY <4>1, <3>1, <3>4, <1>3, <1>4
    <3> QED BY <3>2, <3>3, <3>4
  <2>4. \A t \in c.switches : ~Waits(P, "bd", t) /\ t \in c.gw => \E i \in Index : w.at[i] = <<t, 0>>
    BY <1>1, <1>3 DEF Bridges
  <2>5. ASSUME NEW t \in Switch \ c.switches, ~Waits(P, "del-bd", t) PROVE t \notin w.bds /\ \A i \in Index : w.in[i] # t
    BY <2>5, <1>1, <1>3, <1>7 DEF Bridges
  <2> QED BY <2>2, <2>3, <2>4, <2>5 DEF Bridges
<1> QED BY <1>9, <1>10, <1>11, <1>14, <1>15, <1>16 DEF Sound

\* Making the gateway moves no interface that is there.
LEMMA GatewayKeeps ==
  ASSUME NEW c \in Cfg, NEW u \in VppType, Named(u), NEW w \in VppType, NEW q, NEW s \in c.switches, w.at = u.at,
         \A i \in Index : w.at[i] = <<s, 0>> => w.in[i] = s, NEW o \in ApplyGateway(w, q, c, s), o.ok
  PROVE  \A i \in Index : w.at[i] # None => o.vpp.in[i] = w.in[i]
<1> DEFINE found == {i \in Index : w.at[i] = <<s, 0>> /\ w.in[i] = s}
           names == {<<s, 0>>}
           new == Create(w, names)
           i0 == CHOOSE j \in Index : new.at[j] = <<s, 0>> /\ w.at[j] = None
           j0 == CHOOSE j \in found : TRUE
           x == Attach(new, {i0}, s)
           r1 == SetBvi(q, s, i0)
           r2 == SetBvi(q, s, j0)
<1>1. ApplyGateway(w, q, c, s) =
        IF s \notin c.gw \/ q.bvi[s] # 0 THEN {Ok(w, q)}
        ELSE IF found # {} THEN {Ok(w, r2), Broken(w, q)}
        ELSE {Ok(x, r1), Broken(w, q), Broken(new, q)}
  BY DEF ApplyGateway, SetBvi
<1>2. o.vpp = w \/ (found = {} /\ o.vpp = x)
  <2> HIDE DEF found, x, r1, r2, new
  <2> QED BY <1>1, Successes
<1>3. s \in Switch /\ <<s, 0>> \in IfName
  BY MemberNames DEF IfName
<1>4. CASE found = {} /\ o.vpp = x
  <2>1. \A i \in Index : u.at[i] # <<s, 0>>
    BY <1>4
  <2>2. names \in SUBSET IfName /\ \A i \in Index : u.at[i] \notin names
    BY <1>3, <2>1
  <2>3. <<s, 0>> \in names
    OBVIOUS
  <2> HIDE DEF names, x, found
  <2>4. \E i \in Index : u.at[i] = None /\ Create(u, names).at[i] = <<s, 0>>
    BY <2>2, <2>3, Created
  <2>5. new.at = Create(u, names).at /\ new.in = w.in /\ new \in VppType
    <3> DEFINE free == {i \in Index : w.at[i] = None}
               f == CHOOSE g \in [names -> free] : \A n, k \in names : g[n] = g[k] => n = k
               at == [i \in Index |-> IF \E n \in names : f[n] = i
                                      THEN CHOOSE n \in names : f[n] = i ELSE w.at[i]]
    <3>1. new = [w EXCEPT !.at = at]
      BY DEF Create, VppType
    <3>2. Create(u, names) = [u EXCEPT !.at = at]
      BY DEF Create, VppType
    <3> HIDE DEF at, new
    <3>3. new.at = at /\ new.in = w.in /\ Create(u, names).at = at
      BY <3>1, <3>2 DEF VppType
    <3>4. at \in [Index -> IfName \cup {None}]
      <4>1. Create(u, names) \in VppType
        BY <2>2, Created
      <4> QED BY <4>1, <3>3 DEF VppType
    <3>5. new \in VppType
      BY <3>1, <3>4 DEF VppType
    <3> QED BY <3>3, <3>5
  <2>6. i0 \in Index /\ w.at[i0] = None
    BY <2>4, <2>5
  <2> HIDE DEF new, i0
  <2>7. \A i \in Index : x.in[i] = IF i \in {i0} THEN s ELSE new.in[i]
    BY <1>3, <2>5, Attached DEF x
  <2> QED BY <1>4, <2>5, <2>6, <2>7
<1> QED BY <1>2, <1>4

\* The gateway: the BVI is registered, found in the bridge domain or made.
LEMMA GatewayStep ==
  ASSUME NEW m, NEW c \in Cfg, NEW P, NEW D, NEW v, NEW r, NEW s \in c.switches, m # "down", Waits(P, "bd", s),
         Sound(v, r, m, c, P, D), Applied(v, r, c, s), NEW o \in ApplyGateway(v, r, c, s), o.ok
  PROVE  /\ Sound(o.vpp, o.reg, m, c, P, D) /\ Applied(o.vpp, o.reg, c, s)
         /\ s \in c.gw => \E i \in Index : o.vpp.at[i] = <<s, 0>>
         /\ \A i \in Index : v.at[i] # None => o.vpp.in[i] = v.in[i]
<1> DEFINE found == {i \in Index : v.at[i] = <<s, 0>> /\ v.in[i] = s}
           names == {<<s, 0>>}
           new == Create(v, names)
           i0 == CHOOSE j \in Index : new.at[j] = <<s, 0>> /\ v.at[j] = None
           j0 == CHOOSE j \in found : TRUE
           w == Attach(new, {i0}, s)
           q == SetBvi(r, s, i0)
           q0 == SetBvi(r, s, j0)
<1>1. /\ v \in VppType /\ r \in RegType /\ Named(v) /\ Registered(v, r, m, P)
      /\ Policies(v, r, m, c, P) /\ Filters(v, r, m, c, P, D) /\ Bridges(v, m, c, P, D)
  BY SoundTypes
<1>2. /\ s \in Switch /\ s # None /\ c.ports[s] \subseteq Port /\ c.vlan[s] \in Vlan /\ 0 \in Vlan
      /\ \A n \in Members(c, s) : n[1] \in c.ports[s] /\ n[1] \in Port /\ n # None
  BY MemberNames
<1>3. ApplyGateway(v, r, c, s) =
        IF s \notin c.gw \/ r.bvi[s] # 0 THEN {Ok(v, r)}
        ELSE IF found # {} THEN {Ok(v, q0), Broken(v, r)}
        ELSE {Ok(w, q), Broken(v, r), Broken(new, r)}
  BY DEF ApplyGateway, SetBvi
<1>4. <<s, 0>> \in IfName /\ <<s, 0>> # None
  BY <1>2, Kinds DEF IfName
<1>5. CASE s \notin c.gw \/ r.bvi[s] # 0
  <2> HIDE DEF found, w, q, q0, new
  <2>1. o.vpp = v /\ o.reg = r
    BY <1>3, <1>5, Successes
  <2>2. s \in c.gw => \E i \in Index : v.at[i] = <<s, 0>>
    <3>1. r.bvi[s] # 0 => r.bvi[s] \in Index
      BY <1>1, <1>2 DEF RegType
    <3>2. r.bvi[s] # 0 => v.at[r.bvi[s]] = <<s, 0>>
      BY <1>1, <1>2 DEF Registered
    <3> QED BY <3>1, <3>2, <1>5
  <2> QED BY <2>1, <2>2
<1>6. CASE s \in c.gw /\ r.bvi[s] = 0 /\ found # {}
  <2>1. o = Ok(v, q0)
    <3> HIDE DEF found, w, q, q0, new
    <3> QED BY <1>3, <1>6, Successes
  <2>2. j0 \in Index /\ v.at[j0] = <<s, 0>>
    BY <1>6
  <2> HIDE DEF j0
  <2>3. /\ q0 \in RegType /\ q0.bvi = [r.bvi EXCEPT ![s] = j0] /\ q0.attached = r.attached
        /\ q0.bond = r.bond /\ q0.acls = r.acls /\ q0.bound = r.bound /\ q0.policy = r.policy
    BY <1>1, <1>2, <2>2, BviSet
  <2> HIDE DEF q0
  <2>4. Registered(v, q0, m, P)
    <3>0. Registered(v, r, m, P)
      BY <1>1
    <3>1. \A t \in Switch : q0.bvi[t] = IF t = s THEN j0 ELSE r.bvi[t]
      BY <1>1, <2>3 DEF RegType
    <3>2. \A t \in Switch : q0.bvi[t] # 0 => v.at[q0.bvi[t]] = <<t, 0>>
      BY <3>0, <3>1, <2>2 DEF Registered
    <3> QED BY <3>0, <3>2, <2>3 DEF Registered
  <2>5. Policies(v, q0, m, c, P)
    BY <1>1, <2>3 DEF Policies
  <2>6. Filters(v, q0, m, c, P, D)
    BY <1>1, <2>3 DEF Filters
  <2>7. Sound(v, q0, m, c, P, D)
    BY <1>1, <2>3, <2>4, <2>5, <2>6 DEF Sound
  <2>8. Applied(v, q0, c, s)
    BY <2>3 DEF Applied
  <2>9. o.vpp = v /\ o.reg = q0
    BY <2>1, Successes
  <2> QED BY <2>2, <2>7, <2>8, <2>9
<1>7. CASE s \in c.gw /\ r.bvi[s] = 0 /\ found = {}
  <2>1. o = Ok(w, q)
    <3> HIDE DEF found, w, q, q0, new
    <3> QED BY <1>3, <1>7, Successes
  <2>2. \A i \in Index : v.at[i] # <<s, 0>>
    BY <1>1, <1>2, <1>7 DEF Named
  <2>3. /\ new \in VppType
        /\ \A i \in Index : v.at[i] # None => new.at[i] = v.at[i]
        /\ \A i \in Index : v.at[i] = None => new.at[i] \in {<<s, 0>>, None}
        /\ \E i \in Index : v.at[i] = None /\ new.at[i] = <<s, 0>>
        /\ \A i, j \in Index : new.at[i] = new.at[j] /\ new.at[i] # None => i = j
        /\ new.bds = v.bds /\ new.in = v.in /\ new.guard = v.guard /\ new.input = v.input
    <3>1. names \in SUBSET IfName /\ (\A i \in Index : v.at[i] \notin names) /\ <<s, 0>> \in names
      BY <2>2, <1>4
    <3>2. \A x : x \in names <=> x = <<s, 0>>
      OBVIOUS
    <3> HIDE DEF names
    <3>3. /\ new \in VppType
          /\ \A i \in Index : v.at[i] # None => new.at[i] = v.at[i]
          /\ \A i \in Index : v.at[i] = None => new.at[i] \in names \cup {None}
          /\ \A n \in names : \E i \in Index : v.at[i] = None /\ new.at[i] = n
          /\ \A i, j \in Index : new.at[i] = new.at[j] /\ new.at[i] # None => i = j
          /\ new.bds = v.bds /\ new.in = v.in /\ new.guard = v.guard /\ new.input = v.input
      BY <1>1, <3>1, Created
    <3> HIDE DEF new
    <3> QED BY <3>1, <3>2, <3>3
  <2> HIDE DEF new, names
  <2>4. i0 \in Index /\ new.at[i0] = <<s, 0>> /\ v.at[i0] = None
    BY <2>3
  <2> HIDE DEF i0
  <2>5. \A i \in Index : i # i0 => new.at[i] = v.at[i]
    BY <2>3, <2>4, <1>4
  <2>6. /\ w \in VppType /\ w.at = new.at /\ w.bds = new.bds /\ w.guard = new.guard /\ w.input = new.input
        /\ \A i \in Index : w.in[i] = IF i \in {i0} THEN s ELSE new.in[i]
    BY <2>3, <1>2, Attached
  <2>7. /\ q \in RegType /\ q.bvi = [r.bvi EXCEPT ![s] = i0] /\ q.attached = r.attached
        /\ q.bond = r.bond /\ q.acls = r.acls /\ q.bound = r.bound /\ q.policy = r.policy
    BY <1>1, <1>2, <2>4, BviSet
  <2> HIDE DEF w, q
  <2>8. /\ w.at[i0] = <<s, 0>> /\ w.in[i0] = s
        /\ \A i \in Index : i # i0 => w.at[i] = v.at[i] /\ w.in[i] = v.in[i]
        /\ w.bds = v.bds /\ w.guard = v.guard /\ w.input = v.input
    BY <2>3, <2>4, <2>5, <2>6
  <2>9. \A n \in Port, x \in Vlan, i \in Index : w.at[i] = <<n, x>> => i # i0 /\ v.at[i] = <<n, x>>
    <3> SUFFICES ASSUME NEW n \in Port, NEW x \in Vlan, NEW i \in Index, w.at[i] = <<n, x>>
                 PROVE  i # i0 /\ v.at[i] = <<n, x>>
      OBVIOUS
    <3>1. n # s
      BY <1>2, Kinds
    <3>2. i # i0
      BY <3>1, <2>8
    <3> QED BY <3>2, <2>8
  <2>10. \A i \in Index : v.at[i] # None => i # i0
    BY <2>4
  <2>11. Named(w)
    <3>1. \A i, j \in Index : w.at[i] = w.at[j] /\ w.at[i] # None => i = j
      BY <2>3, <2>6
    <3>2. \A p \in Phys : \E i \in Index : w.at[i] = <<p, 0>>
      <4> SUFFICES ASSUME NEW p \in Phys PROVE \E i \in Index : w.at[i] = <<p, 0>>
        OBVIOUS
      <4>1. PICK i \in Index : v.at[i] = <<p, 0>>
        BY <1>1 DEF Named
      <4>2. <<p, 0>> # None
        BY Kinds, SwitchingAssumption DEF IfName, Port
      <4> QED BY <4>1, <4>2, <2>8, <2>10
    <3>3. \A i \in Index : w.at[i] = None => w.in[i] = None
      BY <1>1, <1>4, <2>8 DEF Named
    <3>4. \A i \in Index, n \in Port, x \in Vlan : w.at[i] = <<n, x>> => \E j \in Index : w.at[j] = <<n, 0>>
      <4> SUFFICES ASSUME NEW i \in Index, NEW n \in Port, NEW x \in Vlan, w.at[i] = <<n, x>>
                   PROVE  \E j \in Index : w.at[j] = <<n, 0>>
        OBVIOUS
      <4>1. v.at[i] = <<n, x>>
        BY <2>9
      <4>2. PICK j \in Index : v.at[j] = <<n, 0>>
        BY <4>1, <1>1 DEF Named
      <4>3. <<n, 0>> # None
        BY Kinds, SwitchingAssumption DEF IfName
      <4> QED BY <4>2, <4>3, <2>8, <2>10
    <3>5. \A i \in Index, t \in Switch, x \in Vlan : w.at[i] = <<t, x>> => x = 0 /\ w.in[i] = t
      <4> SUFFICES ASSUME NEW i \in Index, NEW t \in Switch, NEW x \in Vlan, w.at[i] = <<t, x>>
                   PROVE  x = 0 /\ w.in[i] = t
        OBVIOUS
      <4>1. CASE i = i0
        BY <4>1, <2>8
      <4>2. CASE i # i0
        <5>1. v.at[i] = <<t, x>> /\ w.in[i] = v.in[i]
          BY <4>2, <2>8
        <5> QED BY <5>1, <1>1 DEF Named
      <4> QED BY <4>1, <4>2
    <3> QED BY <3>1, <3>2, <3>3, <3>4, <3>5 DEF Named
  <2>12. i0 \notin r.attached[s]
    <3> SUFFICES ASSUME i0 \in r.attached[s] PROVE FALSE
      OBVIOUS
    <3>1. v.at[i0] \in Members(c, s)
      BY DEF Applied
    <3> QED BY <3>1, <2>4, <1>2
  <2>13. Registered(w, q, m, P)
    <3>1. ASSUME NEW t \in Switch, q.bvi[t] # 0 PROVE w.at[q.bvi[t]] = <<t, 0>>
      <4>1. CASE t = s
        BY <4>1, <1>1, <1>2, <2>7, <2>8 DEF RegType
      <4>2. CASE t # s
        <5>1. q.bvi[t] = r.bvi[t] /\ r.bvi[t] \in Index
          BY <4>2, <3>1, <1>1, <2>7 DEF RegType
        <5>2. v.at[r.bvi[t]] = <<t, 0>>
          BY <5>1, <3>1, <1>1 DEF Registered
        <5>3. <<t, 0>> # None
          BY Kinds, SwitchingAssumption DEF IfName
        <5> QED BY <5>1, <5>2, <5>3, <2>8, <2>10
      <4> QED BY <4>1, <4>2
    <3>2. ASSUME NEW b \in Bond, q.bond[b] # 0 PROVE w.at[q.bond[b]] = <<b, 0>>
      <4>1. q.bond[b] = r.bond[b] /\ r.bond[b] \in Index
        BY <3>2, <1>1, <2>7 DEF RegType
      <4>2. v.at[r.bond[b]] = <<b, 0>>
        BY <4>1, <3>2, <1>1 DEF Registered
      <4>3. <<b, 0>> # None
        BY Kinds, SwitchingAssumption DEF IfName, Port
      <4> QED BY <4>1, <4>2, <4>3, <2>8, <2>10
    <3>3. ASSUME NEW i \in Index, NEW t \in Switch, w.at[i] = <<t, 0>> PROVE i \notin q.attached[t]
      <4>1. CASE i = i0
        <5>1. t = s
          BY <4>1, <3>3, <2>8
        <5> QED BY <5>1, <4>1, <2>7, <2>12
      <4>2. CASE i # i0
        <5>1. v.at[i] = <<t, 0>>
          BY <4>2, <3>3, <2>8
        <5> QED BY <5>1, <1>1, <2>7 DEF Registered
      <4> QED BY <4>1, <4>2
    <3>4. ASSUME NEW i \in Index, NEW t \in Switch, w.in[i] = t
          PROVE  i \in q.attached[t] \/ w.at[i] = <<t, 0>> \/ (m = "recover" /\ Waits(P, "bd", t))
      <4>1. CASE i = i0
        BY <4>1, <3>4, <2>8
      <4>2. CASE i # i0
        <5>1. v.in[i] = t /\ w.at[i] = v.at[i]
          BY <4>2, <3>4, <2>8
        <5> QED BY <5>1, <1>1, <2>7 DEF Registered
      <4> QED BY <4>1, <4>2
    <3> QED BY <3>1, <3>2, <3>3, <3>4 DEF Registered
  <2>14. Policies(w, q, m, c, P)
    <3>1. \A p \in Phys, i \in Index : w.at[i] = <<p, 0>> => v.at[i] = <<p, 0>>
      BY <1>2, <2>9 DEF Port
    <3> QED BY <3>1, <1>1, <2>7, <2>8 DEF Policies
  <2>15. Filters(w, q, m, c, P, D)
    <3>1. \A t \in c.switches, i \in Index : \A n \in c.ports[t] : w.at[i] = <<n, 0>> => v.at[i] = <<n, 0>>
      BY <1>2, <2>9, ConfigTypes
    <3> QED BY <3>1, <1>1, <2>7, <2>8 DEF Filters
  <2>16. \A i \in Index, t \in Switch : w.in[i] = t /\ t # s => i # i0 /\ v.in[i] = t /\ w.at[i] = v.at[i]
    BY <2>8
  <2>17. Bridges(w, m, c, P, D)
    <3>1. \A t \in c.switches : t \in Switch
      BY ConfigTypes
    <3>2. ASSUME NEW t \in c.switches, NEW i \in Index, w.in[i] = t, ~(m = "run" /\ Waits(P, "bd", t))
          PROVE  w.at[i] \in Members(c, t) \cup {<<t, 0>>}
      <4>1. CASE i = i0
        BY <4>1, <3>2, <2>8
      <4>2. CASE i # i0
        BY <4>2, <3>2, <1>1, <2>8 DEF Bridges
      <4> QED BY <4>1, <4>2
    <3>3. ASSUME NEW t \in c.switches, ~Waits(P, "bd", t), NEW n \in Members(c, t)
          PROVE  n[1] \in D \/ \E i \in Index : w.at[i] = n /\ w.in[i] = t
      <4>1. n # None
        BY MemberNames
      <4>2. n[1] \in D \/ \E i \in Index : v.at[i] = n /\ v.in[i] = t
        BY <3>3, <1>1 DEF Bridges
      <4> QED BY <4>1, <4>2, <2>8, <2>10
    <3>4. ASSUME NEW t \in c.switches, ~Waits(P, "bd", t), t \in c.gw PROVE \E i \in Index : w.at[i] = <<t, 0>>
      <4>1. PICK i \in Index : v.at[i] = <<t, 0>>
        BY <3>4, <1>1 DEF Bridges
      <4>2. <<t, 0>> # None
        BY <3>1, Kinds, SwitchingAssumption DEF IfName
      <4> QED BY <4>1, <4>2, <2>8, <2>10
    <3>5. ASSUME NEW t \in Switch \ c.switches, ~Waits(P, "del-bd", t) PROVE t \notin w.bds /\ \A i \in Index : w.in[i] # t
      BY <3>5, <1>1, <2>8, <2>16 DEF Bridges
    <3> QED BY <3>2, <3>3, <3>4, <3>5 DEF Bridges
  <2>18. Applied(w, q, c, s)
    <3>1. \A i \in Index : v.in[i] = s => v.at[i] \in Members(c, s) \cup {<<s, 0>>}
      BY DEF Applied
    <3>2. \A i \in Index : w.in[i] = s => w.at[i] \in Members(c, s) \cup {<<s, 0>>}
      BY <3>1, <2>8
    <3>3. \A i \in Index : w.in[i] = s => i \in q.attached[s] \/ w.at[i] = <<s, 0>>
      <4>1. \A i \in Index : v.in[i] = s => i \in r.attached[s] \/ v.at[i] = <<s, 0>>
        BY DEF Applied
      <4> QED BY <4>1, <2>7, <2>8
    <3>4. \A i \in q.attached[s] : w.at[i] \in Members(c, s)
      <4>1. \A i \in r.attached[s] : i \in Index /\ v.at[i] \in Members(c, s)
        BY <1>1, <1>2 DEF Applied, RegType
      <4> QED BY <4>1, <2>7, <2>8, <2>12
    <3>5. ASSUME NEW n \in Members(c, s) PROVE \E i \in Index : w.at[i] = n /\ w.in[i] = s
      <4>1. PICK i \in Index : v.at[i] = n /\ v.in[i] = s
        BY DEF Applied
      <4>2. n # None
        BY <1>2
      <4> QED BY <4>1, <4>2, <2>8, <2>10
    <3>6. ASSUME NEW n \in c.ports[s] \ Vnic, NEW i \in Index, w.at[i] = <<n, 0>> PROVE w.guard[i] = c.guard[n] \/ c.guard[n] = None
      <4>1. v.at[i] = <<n, 0>>
        BY <3>6, <1>2, <2>9
      <4> QED BY <4>1, <2>8 DEF Applied
    <3> QED BY <3>2, <3>3, <3>4, <3>5, <3>6 DEF Applied
  <2>19. Sound(w, q, m, c, P, D)
    BY <2>6, <2>7, <2>11, <2>13, <2>14, <2>15, <2>17 DEF Sound
  <2>20. o.vpp = w /\ o.reg = q
    BY <2>1, Successes
  <2> QED BY <2>4, <2>8, <2>10, <2>18, <2>19, <2>20
<1> QED BY <1>5, <1>6, <1>7

\* Applied is all that was waited for.
LEMMA DomainApplied ==
  ASSUME NEW m \in {"run", "recover"}, NEW c \in Cfg, NEW P, NEW D, NEW v, NEW r, NEW op \in Op,
         op.kind = "bd", op.obj \in c.switches, Sound(v, r, m, c, P, D), Applied(v, r, c, op.obj),
         op.obj \in c.gw => \E i \in Index : v.at[i] = <<op.obj, 0>>
  PROVE  Sound(v, r, m, c, P \ {op}, D)
<1> DEFINE s == op.obj
           Q == P \ {op}
<1>1. /\ v \in VppType /\ r \in RegType /\ Named(v) /\ Registered(v, r, m, P)
      /\ Policies(v, r, m, c, P) /\ Filters(v, r, m, c, P, D) /\ Bridges(v, m, c, P, D)
  BY SoundTypes
<1>2. \A k, x : Waits(Q, k, x) <=> Waits(P, k, x) /\ ~("bd" = k /\ s = x)
  BY Finished
<1> HIDE DEF Q
<1>3. \A k \in {"iface", "acl", "del-acl", "del-bd"} : \A x : Waits(Q, k, x) <=> Waits(P, k, x)
  BY <1>2
<1>4. \A t : t # s => (Waits(Q, "bd", t) <=> Waits(P, "bd", t))
  BY <1>2
<1>5. Registered(v, r, m, Q)
  <2>1. ASSUME NEW i \in Index, NEW t \in Switch, v.in[i] = t
        PROVE  i \in r.attached[t] \/ v.at[i] = <<t, 0>> \/ (m = "recover" /\ Waits(Q, "bd", t))
    <3>1. CASE t = s
      BY <2>1, <3>1 DEF Applied
    <3>2. CASE t # s
      BY <2>1, <3>2, <1>1, <1>4 DEF Registered
    <3> QED BY <3>1, <3>2
  <2> QED BY <2>1, <1>1 DEF Registered
<1>6. Policies(v, r, m, c, Q)
  BY <1>1, <1>3 DEF Policies
<1>7. Filters(v, r, m, c, Q, D)
  <2>1. ASSUME NEW t \in c.switches, NEW i \in Index, NEW n \in c.ports[t] \ (Vnic \cup D),
               v.at[i] = <<n, 0>>, ~Waits(Q, "bd", t)
        PROVE  v.guard[i] = c.guard[n] \/ c.guard[n] = None
    <3>1. CASE t = s
      BY <2>1, <3>1 DEF Applied
    <3>2. CASE t # s
      BY <2>1, <3>2, <1>1, <1>4 DEF Filters
    <3> QED BY <3>1, <3>2
  <2>2. /\ \A i \in Index : v.guard[i] \in c.acls \cup {None} \/ (m = "run" /\ Waits(Q, "del-acl", v.guard[i]))
        /\ \A a \in Acl : (a \in c.acls /\ ~Waits(Q, "acl", a)) \/ Waits(Q, "del-acl", a) => a \in r.acls
        /\ \A i \in Index : r.bound[i] = None \/ v.guard[i] = None \/ r.bound[i] = v.guard[i]
    BY <1>1, <1>3 DEF Filters
  <2> QED BY <2>1, <2>2 DEF Filters
<1>8. Bridges(v, m, c, Q, D)
  <2>1. ASSUME NEW t \in c.switches, NEW i \in Index, v.in[i] = t, ~(m = "run" /\ Waits(Q, "bd", t))
        PROVE  v.at[i] \in Members(c, t) \cup {<<t, 0>>}
    <3>1. CASE t = s
      BY <2>1, <3>1 DEF Applied
    <3>2. CASE t # s
      BY <2>1, <3>2, <1>1, <1>4 DEF Bridges
    <3> QED BY <3>1, <3>2
  <2>2. ASSUME NEW t \in c.switches, ~Waits(Q, "bd", t)
        PROVE  /\ \A n \in Members(c, t) : n[1] \in D \/ \E i \in Index : v.at[i] = n /\ v.in[i] = t
               /\ t \in c.gw => \E i \in Index : v.at[i] = <<t, 0>>
    <3>1. CASE t = s
      BY <3>1 DEF Applied
    <3>2. CASE t # s
      BY <2>2, <3>2, <1>1, <1>4 DEF Bridges
    <3> QED BY <3>1, <3>2
  <2>3. \A t \in Switch \ c.switches : ~Waits(Q, "del-bd", t) => t \notin v.bds /\ \A i \in Index : v.in[i] # t
    BY <1>1, <1>3 DEF Bridges
  <2> QED BY <2>1, <2>2, <2>3 DEF Bridges
<1> QED BY <1>1, <1>5, <1>6, <1>7, <1>8 DEF Sound, Q

\* Binding ACLs changes the guards of the interfaces it names.
LEMMA GuardsSet ==
  ASSUME NEW v \in VppType, NEW f, \A i \in DOMAIN f : f[i] \in Acl \cup {None}
  PROVE  LET w == Bind(v, f) IN
         /\ w \in VppType /\ w.at = v.at /\ w.in = v.in /\ w.bds = v.bds /\ w.input = v.input
         /\ \A i \in Index : w.guard[i] = IF i \in DOMAIN f THEN f[i] ELSE v.guard[i]
<1> DEFINE w == Bind(v, f)
           y == [i \in Index |-> IF i \in DOMAIN f THEN f[i] ELSE v.guard[i]]
<1>1. w = [v EXCEPT !.guard = y]
  BY DEF Bind, VppType
<1>2. y \in [Index -> Acl \cup {None}]
  BY DEF VppType
<1>3. \A i \in Index : y[i] = IF i \in DOMAIN f THEN f[i] ELSE v.guard[i]
  OBVIOUS
<1> HIDE DEF w, y
<1>4. w \in VppType
  BY <1>1, <1>2 DEF VppType
<1>5. w.at = v.at /\ w.in = v.in /\ w.guard = y /\ w.bds = v.bds /\ w.input = v.input
  BY <1>1 DEF VppType
<1> QED BY <1>3, <1>4, <1>5 DEF w

\* The members of a switch join its bridge domain, are bound to their ACLs, and the gateway
\* follows.
LEMMA DomainStep ==
  ASSUME NEW m \in {"run", "recover"}, NEW c \in Cfg, NEW P, NEW D, NEW E, NEW v, NEW r, NEW op \in Op, op \in P,
         Fits(op, m, c), Sound(v, r, m, c, P, D), op.kind = "bd",
         NEW o \in ApplyBridgeDomain(v, r, c, op.obj), o.ok,
         D \ c.ports[op.obj] \subseteq E, Displacing(v, o.vpp, op.obj, E)
  PROVE  Sound(o.vpp, o.reg, m, c, P \ {op}, E)
<1> DEFINE s == op.obj
           M == Members(c, s)
           v1 == BridgeDomainAddDel(v, s, TRUE)
           here == {n \in M : Exists(v, <<n[1], 0>>)}
           res == Resolve(v1, r, c, s, M)
           u == res.vpp
           A == {IndexOf(u, n) : n \in M}
           stale == res.reg.attached[s] \ A
           lost == {i \in stale : v.at[i] = None}
           r1 == TakeStale(res.reg, s, A)
           v2 == Detach(u, stale)
           v3 == Attach(v2, A, s)
           known == {n \in Guarded(c, s) : c.guard[n] \in r.acls}
           bind(N) == Bind(v3, [i \in {IndexOf(v, <<n, 0>>) : n \in N} |-> c.guard[v.at[i][1]]])
           note(N) == [r1 EXCEPT !.bound = [i \in Index |-> IF v.at[i] \in {<<n, 0>> : n \in N}
                                                            THEN c.guard[v.at[i][1]] ELSE @[i]]]
           names == {n \in M : n[2] # 0 /\ ~Exists(v1, n)}
           made == {n \in M : n[2] # 0}
           R == {IndexOf(u, n) : n \in made}
           G == Guarded(c, s)
           w == bind(G)
           q == note(G)
<1>1. /\ v \in VppType /\ r \in RegType /\ Named(v) /\ m # "down" /\ s \in c.switches
  BY SoundTypes DEF Fits
<1>2. ApplyBridgeDomain(v, r, c, s) =
        IF here # M
        THEN {LET k == Resolve(v1, r, c, s, K) IN Refuse(k.vpp, k.reg) : K \in SUBSET here}
        ELSE IF lost # {}
        THEN {Refuse(Detach(u, {i \in stale : \A j \in lost : i < j}), r1)}
        ELSE IF known # G
        THEN {Refuse(bind(K), note(K)) : K \in SUBSET known}
        ELSE {Broken(v, r), Broken(v1, r)}
             \cup {Broken(Detach(u, I), r1) : I \in Cuts(stale)}
             \cup {Broken(Attach(v2, I, s), r1) : I \in Cuts(A)}
             \cup (IF known = {} THEN {} ELSE {Broken(v3, r1)})
             \cup ApplyGateway(bind(known), note(known), c, s)
  BY Zenon DEF ApplyBridgeDomain
<1>3. here = M /\ known = G /\ o \in ApplyGateway(w, q, c, s)
  <2> DEFINE X1 == {Refuse(Resolve(v1, r, c, s, K).vpp, Resolve(v1, r, c, s, K).reg) : K \in SUBSET here}
             X2 == {Refuse(Detach(u, {i \in stale : \A j \in lost : i < j}), r1)}
             X3 == {Refuse(bind(K), note(K)) : K \in SUBSET known}
             X4 == {Broken(Detach(u, I), r1) : I \in Cuts(stale)}
             X5 == {Broken(Attach(v2, I, s), r1) : I \in Cuts(A)}
             X6 == IF known = {} THEN {} ELSE {Broken(v3, r1)}
             X7 == {Broken(v, r), Broken(v1, r)}
             Y == ApplyGateway(bind(known), note(known), c, s)
  <2>1. \A x \in X1 : ~x.ok
    <3> HIDE DEF here, v1, s
    <3> QED BY Successes
  <2>2. (\A x \in X2 : ~x.ok) /\ (\A x \in X3 : ~x.ok)
    <3> HIDE DEF bind, note, known, stale, lost, u, r1
    <3> QED BY Successes
  <2>3. (\A x \in X4 : ~x.ok) /\ (\A x \in X5 : ~x.ok)
    <3> HIDE DEF u, r1, v2, A, stale
    <3> QED BY Successes
  <2>4. (\A x \in X6 : ~x.ok) /\ (\A x \in X7 : ~x.ok)
    <3> HIDE DEF v3, r1, v1, known
    <3> QED BY Successes
  <2>5. o \in IF here # M THEN X1 ELSE IF lost # {} THEN X2 ELSE IF known # G THEN X3
              ELSE X7 \cup X4 \cup X5 \cup X6 \cup Y
    BY <1>2, Zenon
  <2>6. known = G => Y = ApplyGateway(w, q, c, s)
    <3> HIDE DEF known, bind, note, G
    <3> QED OBVIOUS
  <2> HIDE DEF X1, X2, X3, X4, X5, X6, X7, Y, here, M, lost, known, G, w, q
  <2> QED BY <2>1, <2>2, <2>3, <2>4, <2>5, <2>6
<1>4. u = Create(v1, names) /\ res.reg = Remember(r, s, R)
  BY DEF Resolve
<1>5. /\ s \in Switch /\ s # None /\ c.ports[s] \subseteq Port
      /\ \A n \in M : n[1] \in c.ports[s] /\ n[1] \in Port /\ n[2] \in Vlan /\ n = <<n[1], n[2]>> /\ n # None
  BY <1>1, MemberNames
<1>6. /\ Sound(u, r, m, c, P, D) /\ u.in = v.in /\ u.guard = v.guard /\ u.input = v.input
      /\ \A n \in M : \E i \in Index : u.at[i] = n
      /\ \A i \in Index : v.at[i] # None => u.at[i] = v.at[i]
  <2>1. \A n \in M : Exists(v, <<n[1], 0>>)
    BY <1>3, Zenon
  <2>2. names = Missing(v1, c, s)
    BY DEF Missing
  <2> DEFINE z == Create(Made(v, s), Missing(Made(v, s), c, s))
  <2>3. u = z
    BY <1>4, <2>2 DEF Made
  <2> HIDE DEF names, u, res, here, known, s
  <2>4. /\ Sound(z, r, m, c, P, D) /\ z.in = v.in /\ z.guard = v.guard /\ z.input = v.input
        /\ \A n \in M : \E i \in Index : z.at[i] = n
        /\ \A i \in Index : v.at[i] # None => z.at[i] = v.at[i]
    <3>1. s \in c.switches /\ m # "down"
      BY <1>1
    <3>2. \A n \in Members(c, s) : Exists(v, <<n[1], 0>>)
      BY <2>1, Zenon
    <3> QED BY <3>1, <3>2, DomainResolved
  <2> HIDE DEF z
  <2> QED BY <2>3, <2>4
<1>7. u \in VppType /\ Named(u)
  BY <1>6, SoundTypes
<1> HIDE DEF u
<1>8. A \subseteq Index /\ R \subseteq A /\ \A i \in Index : i \in A <=> u.at[i] \in M
  <2>1. \A n \in M : IndexOf(u, n) \in Index /\ u.at[IndexOf(u, n)] = n
    BY <1>6, Indexed
  <2>2. ASSUME NEW i \in Index, u.at[i] \in M PROVE i \in A
    <3>1. IndexOf(u, u.at[i]) \in Index /\ u.at[IndexOf(u, u.at[i])] = u.at[i] /\ u.at[i] # None
      BY <2>1, <2>2, <1>5
    <3>2. IndexOf(u, u.at[i]) = i
      BY <3>1, <1>7 DEF Named
    <3> QED BY <3>2, <2>2
  <2> QED BY <2>1, <2>2
<1>9. /\ q \in RegType /\ q.attached = [r.attached EXCEPT ![s] = A]
      /\ q.bvi = r.bvi /\ q.bond = r.bond /\ q.acls = r.acls /\ q.policy = r.policy
      /\ \A i \in Index : q.bound[i] = IF v.at[i] \in {<<n, 0>> : n \in G} THEN c.guard[v.at[i][1]] ELSE r.bound[i]
      /\ stale = r.attached[s] \ A
  <2> DEFINE f == [i \in Index |-> IF v.at[i] \in {<<n, 0>> : n \in G} THEN c.guard[v.at[i][1]] ELSE r.bound[i]]
             S == r.subifs[s] \cup R
             z == r.attached[s] \cup R
             q0 == [r EXCEPT !.attached[s] = z, !.subifs[s] = S]
             q1 == [q0 EXCEPT !.attached[s] = A]
  <2>1. f \in [Index -> Acl \cup {None}]
    <3>1. ASSUME NEW i \in Index, v.at[i] \in {<<n, 0>> : n \in G} PROVE c.guard[v.at[i][1]] \in Acl \cup {None}
      <4>1. PICK n \in G : v.at[i] = <<n, 0>>
        BY <3>1
      <4>2. v.at[i][1] = n /\ n \in Phys \cup Bond
        BY <4>1, <1>5 DEF Guarded, Port
      <4> QED BY <4>2, ConfigTypes
    <3>2. r.bound \in [Index -> Acl \cup {None}]
      BY <1>1 DEF RegType
    <3> QED BY <3>1, <3>2
  <2>2. r.subifs[s] \subseteq Index /\ r.attached[s] \subseteq Index
    BY <1>1, <1>5 DEF RegType
  <2>3. S \subseteq Index /\ z \subseteq Index
    BY <2>2, <1>8
  <2>4. res.reg = q0
    BY <1>4 DEF Remember
  <2> HIDE DEF res, A, R, z, S
  <2>5. q0 \in RegType /\ q0.attached[s] = z /\ q0.bound = r.bound
        /\ q0.bvi = r.bvi /\ q0.bond = r.bond /\ q0.acls = r.acls /\ q0.policy = r.policy
        /\ \A t \in Switch : t # s => q0.attached[t] = r.attached[t]
    <3>1. q0 \in RegType
      BY <1>1, <2>3 DEF RegType
    <3>2. q0.attached[s] = z /\ q0.bound = r.bound
        /\ q0.bvi = r.bvi /\ q0.bond = r.bond /\ q0.acls = r.acls /\ q0.policy = r.policy
        /\ \A t \in Switch : t # s => q0.attached[t] = r.attached[t]
      BY <1>1, <1>5 DEF RegType
    <3> QED BY <3>1, <3>2
  <2>6. r1 = q1
    BY <2>4 DEF TakeStale
  <2> HIDE DEF q0
  <2>7. q1 \in RegType /\ q1.bound = r.bound
        /\ q1.bvi = r.bvi /\ q1.bond = r.bond /\ q1.acls = r.acls /\ q1.policy = r.policy
        /\ q1.attached = [r.attached EXCEPT ![s] = A]
    <3>1. q1 \in RegType
      BY <1>8, <2>5 DEF RegType
    <3>2. q1.bound = r.bound /\ q1.bvi = r.bvi /\ q1.bond = r.bond /\ q1.acls = r.acls /\ q1.policy = r.policy
      BY <2>5 DEF RegType
    <3>3. /\ q1.attached \in [Switch -> SUBSET Index] /\ r.attached \in [Switch -> SUBSET Index]
          /\ q1.attached = [q0.attached EXCEPT ![s] = A]
      BY <1>1, <2>5, <3>1 DEF RegType
    <3>4. \A t \in Switch : q1.attached[t] = [r.attached EXCEPT ![s] = A][t]
      BY <2>5, <3>3 DEF RegType
    <3> QED BY <3>1, <3>2, <3>3, <3>4
  <2> HIDE DEF q1
  <2>8. q = [q1 EXCEPT !.bound = f]
    <3>1. q = [q1 EXCEPT !.bound = [i \in Index |-> IF v.at[i] \in {<<n, 0>> : n \in G}
                                                   THEN c.guard[v.at[i][1]] ELSE q1.bound[i]]]
      BY <2>6, <2>7 DEF RegType
    <3> QED BY <3>1, <2>7
  <2>9. \A i \in Index : f[i] = IF v.at[i] \in {<<n, 0>> : n \in G} THEN c.guard[v.at[i][1]] ELSE r.bound[i]
    OBVIOUS
  <2> HIDE DEF f, q
  <2>10. q \in RegType
    BY <2>1, <2>7, <2>8 DEF RegType
  <2>11. /\ q.attached = q1.attached /\ q.bvi = q1.bvi /\ q.bond = q1.bond /\ q.acls = q1.acls
         /\ q.policy = q1.policy /\ q.bound = f
    BY <2>7, <2>8 DEF RegType
  <2>12. stale = r.attached[s] \ A
    <3>1. stale = z \ A
      BY <2>4, <2>5
    <3> QED BY <3>1, <1>8 DEF z
  <2> QED BY <2>7, <2>9, <2>10, <2>11, <2>12
<1> HIDE DEF q, r1, res, stale, R
<1>10. /\ v2 \in VppType /\ v2.at = u.at /\ v2.bds = u.bds /\ v2.guard = u.guard /\ v2.input = u.input
       /\ \A i \in Index : v2.in[i] = IF i \in stale THEN None ELSE u.in[i]
  BY <1>7, Attached DEF Detach
<1> HIDE DEF v2
<1>11. /\ v3 \in VppType /\ v3.at = u.at /\ v3.bds = u.bds /\ v3.guard = u.guard /\ v3.input = u.input
       /\ \A i \in Index : v3.in[i] = IF i \in A THEN s ELSE v2.in[i]
  <2> HIDE DEF A
  <2> QED BY <1>5, <1>10, Attached
<1> HIDE DEF v3, A, s
<1>12. \A i \in Index, n \in G : (v.at[i] = <<n, 0>> <=> u.at[i] = <<n, 0>>) /\ <<n, 0>> # None /\ n \in Phys \cup Bond
  <2> SUFFICES ASSUME NEW i \in Index, NEW n \in G
               PROVE  (v.at[i] = <<n, 0>> <=> u.at[i] = <<n, 0>>) /\ <<n, 0>> # None /\ n \in Phys \cup Bond
    OBVIOUS
  <2>1. n \in c.ports[s] /\ n \in Port /\ n \in Phys \cup Bond
    BY <1>5 DEF Guarded, Port
  <2>2. <<n, 0>> # None
    BY <2>1, Kinds, SwitchingAssumption DEF IfName
  <2>3. PICK x \in M : x[1] = n
    BY <2>1, <1>1, MemberNames
  <2>4. Exists(v, <<n, 0>>)
    BY <2>3, <1>3
  <2>5. PICK j \in Index : v.at[j] = <<n, 0>>
    BY <2>4, Indexed
  <2>6. u.at[j] = <<n, 0>>
    BY <2>2, <2>5, <1>6
  <2>7. u.at[i] = <<n, 0>> => i = j
    BY <2>2, <2>6, <1>7 DEF Named
  <2> QED BY <2>1, <2>2, <2>5, <2>6, <2>7, <1>6
<1> HIDE DEF G
<1> DEFINE f == [i \in {IndexOf(v, <<n, 0>>) : n \in G} |-> c.guard[v.at[i][1]]]
<1>13. \A i \in Index : i \in DOMAIN f <=> \E n \in G : u.at[i] = <<n, 0>>
  <2>1. ASSUME NEW i \in Index, NEW n \in G, i = IndexOf(v, <<n, 0>>) PROVE u.at[i] = <<n, 0>>
    <3>1. i # 0
      BY SwitchingAssumption
    <3>2. v.at[i] = <<n, 0>>
      BY <2>1, <3>1, Indexed
    <3> QED BY <3>2, <1>12
  <2>2. ASSUME NEW i \in Index, NEW n \in G, u.at[i] = <<n, 0>> PROVE i = IndexOf(v, <<n, 0>>)
    <3>1. v.at[i] = <<n, 0>> /\ <<n, 0>> # None
      BY <2>2, <1>12
    <3>2. IndexOf(v, <<n, 0>>) \in Index /\ v.at[IndexOf(v, <<n, 0>>)] = <<n, 0>>
      BY <3>1, Indexed
    <3> QED BY <3>1, <3>2, <1>1 DEF Named
  <2> QED BY <2>1, <2>2
<1>14. \A i \in Index, n \in G : u.at[i] = <<n, 0>> => v.at[i][1] = n
  <2> SUFFICES ASSUME NEW i \in Index, NEW n \in G, u.at[i] = <<n, 0>> PROVE v.at[i][1] = n
    OBVIOUS
  <2>1. v.at[i] = <<n, 0>>
    BY <1>12
  <2> QED BY <2>1
<1>15. /\ w \in VppType /\ w.at = u.at /\ w.in = v3.in /\ w.bds = u.bds /\ w.input = u.input
       /\ \A i \in Index : w.guard[i] = IF i \in DOMAIN f THEN f[i] ELSE u.guard[i]
  <2>1. \A i \in DOMAIN f : f[i] \in Acl \cup {None}
    <3> SUFFICES ASSUME NEW n \in G, NEW i, i = IndexOf(v, <<n, 0>>) PROVE c.guard[v.at[i][1]] \in Acl \cup {None}
      OBVIOUS
    <3>1. n \in c.ports[s] /\ n \in Phys \cup Bond
      BY <1>5 DEF Guarded, G, Port
    <3>2. PICK x \in M : x[1] = n
      BY <3>1, <1>1, MemberNames
    <3>3. Exists(v, <<n, 0>>)
      BY <3>2, <1>3
    <3>4. v.at[i] = <<n, 0>>
      BY <3>3, Indexed DEF Exists
    <3>5. v.at[i][1] = n
      BY <3>4
    <3> QED BY <3>1, <3>5, ConfigTypes
  <2>2. w = Bind(v3, f)
    OBVIOUS
  <2> HIDE DEF w, f
  <2>3. /\ Bind(v3, f) \in VppType /\ Bind(v3, f).at = v3.at /\ Bind(v3, f).in = v3.in
        /\ Bind(v3, f).bds = v3.bds /\ Bind(v3, f).input = v3.input
        /\ \A i \in Index : Bind(v3, f).guard[i] = IF i \in DOMAIN f THEN f[i] ELSE v3.guard[i]
    BY <1>11, <2>1, GuardsSet
  <2> QED BY <2>2, <2>3, <1>11
<1> HIDE DEF w
<1>16. Guarding(u, r, w, q, c, G)
  <2>1. ASSUME NEW i \in Index, NEW n \in G, u.at[i] = <<n, 0>> PROVE w.guard[i] = c.guard[n] /\ q.bound[i] = c.guard[n]
    <3>1. i \in DOMAIN f /\ v.at[i][1] = n /\ v.at[i] = <<n, 0>>
      BY <2>1, <1>12, <1>13, <1>14
    <3>2. f[i] = c.guard[n] /\ v.at[i] \in {<<x, 0>> : x \in G}
      BY <3>1
    <3> HIDE DEF f
    <3>3. w.guard[i] = f[i]
      BY <3>1, <1>15
    <3>4. q.bound[i] = c.guard[v.at[i][1]]
      BY <3>2, <1>9
    <3> QED BY <3>1, <3>2, <3>3, <3>4
  <2>2. ASSUME NEW i \in Index, \A n \in G : u.at[i] # <<n, 0>> PROVE w.guard[i] = u.guard[i] /\ q.bound[i] = r.bound[i]
    <3>1. i \notin DOMAIN f
      BY <2>2, <1>13
    <3>2. v.at[i] \notin {<<n, 0>> : n \in G}
      BY <2>2, <1>12
    <3> HIDE DEF f
    <3> QED BY <3>1, <3>2, <1>9, <1>15
  <2> QED BY <2>1, <2>2 DEF Guarding
<1> HIDE DEF f
<1>17. Joined(u, w, s, A, r.attached[s] \ A)
  BY <1>9, <1>10, <1>11, <1>15 DEF Joined
<1>18. Waits(P, "bd", s)
  BY OpKinds DEF Waits, s
<1>19. Registered(u, r, m, P)
  BY <1>1, <1>6, SoundTypes
<1>20. \A i \in Index : w.at[i] = <<s, 0>> => w.in[i] = s
  <2> SUFFICES ASSUME NEW i \in Index, w.at[i] = <<s, 0>> PROVE w.in[i] = s
    OBVIOUS
  <2>1. u.at[i] = <<s, 0>>
    BY <1>15
  <2>2. u.in[i] = s /\ i \notin r.attached[s]
    BY <2>1, <1>5, <1>7, <1>19, SwitchingAssumption DEF Named, Registered
  <2> QED BY <2>2, <1>17 DEF Joined
<1>21. \A i \in Index : w.at[i] # None => o.vpp.in[i] = w.in[i]
  BY <1>1, <1>3, <1>7, <1>15, <1>20, GatewayKeeps
<1>22. Displacing(u, w, s, E)
  <2>1. \A i \in Index : v.in[i] \notin {None, s} /\ o.vpp.in[i] = None => v.at[i][1] \in E \cap Port
    BY DEF Displacing, s
  <2>2. ASSUME NEW i \in Index, u.in[i] \notin {None, s}, w.in[i] = None PROVE u.at[i][1] \in E \cap Port
    <3>1. v.in[i] \notin {None, s} /\ v.at[i] # None
      BY <2>2, <1>1, <1>6 DEF Named
    <3>2. u.at[i] = v.at[i] /\ w.at[i] # None
      BY <3>1, <1>6, <1>15
    <3>3. o.vpp.in[i] = None
      BY <2>2, <3>2, <1>21
    <3> QED BY <2>1, <3>1, <3>2, <3>3
  <2> QED BY <2>1, <2>2 DEF Displacing
<1>23. Sound(w, q, m, c, P, E) /\ Applied(w, q, c, s)
  <2>1. D \ c.ports[s] \subseteq E
    BY DEF s
  <2> HIDE DEF M, known, here
  <2>2. Guarding(u, r, w, q, c, Guarded(c, s))
    BY <1>16 DEF G
  <2>3. s \in c.switches /\ Sound(u, r, m, c, P, D)
    BY <1>1, <1>6
  <2>4. A \subseteq Index /\ \A i \in Index : i \in A <=> u.at[i] \in Members(c, s)
    BY <1>8 DEF M
  <2>5. \A n \in Members(c, s) : \E i \in Index : u.at[i] = n
    BY <1>6 DEF M
  <2>6. /\ q.attached = [r.attached EXCEPT ![s] = A] /\ q.bvi = r.bvi /\ q.bond = r.bond /\ q.acls = r.acls
        /\ q.policy = r.policy /\ q \in RegType /\ w \in VppType
    BY <1>9, <1>15
  <2>7. Joining(u, r, w, q, c, s, A)
    BY <2>2, <2>4, <2>5, <2>6, <1>17 DEF Joining
  <2> QED BY <2>1, <2>3, <2>6, <2>7, <1>18, <1>22, DomainJoined
<1>24. /\ Sound(o.vpp, o.reg, m, c, P, E) /\ Applied(o.vpp, o.reg, c, s)
       /\ s \in c.gw => \E i \in Index : o.vpp.at[i] = <<s, 0>>
  BY <1>1, <1>3, <1>18, <1>23, GatewayStep
<1> QED BY <1>1, <1>24, DomainApplied DEF s

-----------------------------------------------------------------------------
(* Steps of the system *)

\* Policers are released by the ports before they go.
LEMMA Ranks ==
  ASSUME NEW x, NEW y, x.kind = "iface", y.kind = "del-qos"
  PROVE  ~(Rank(y) <= Rank(x))
<1>1. DOMAIN Order = 1..15
  BY DEF Order
<1>2. Order[9] = "iface" /\ Order[14] = "del-qos"
  BY DEF Order
<1>3. \A n \in 1..15 : (Order[n] = "iface" => n = 9) /\ (Order[n] = "del-qos" => n = 14)
  BY DEF Order
<1>4. Rank(x) = 9
  <2>1. \E n \in DOMAIN Order : Order[n] = x.kind
    BY <1>1, <1>2
  <2>2. Rank(x) \in DOMAIN Order /\ Order[Rank(x)] = x.kind
    BY <2>1 DEF Rank
  <2> QED BY <2>2, <1>1, <1>3
<1>5. Rank(y) = 14
  <2>1. \E n \in DOMAIN Order : Order[n] = y.kind
    BY <1>1, <1>2
  <2>2. Rank(y) \in DOMAIN Order /\ Order[Rank(y)] = y.kind
    BY <2>1 DEF Rank
  <2> QED BY <2>2, <1>1, <1>3
<1> QED BY <1>4, <1>5

\* An operation that succeeds is done, and nothing else has come undone.
LEMMA OpSound ==
  ASSUME NEW m \in {"run", "recover"}, NEW c \in Cfg, committed \in Cfg, NEW P \in SUBSET Op, NEW op \in Due(P),
         Fits(op, m, c), Sound(vpp, reg, m, c, P, displaced),
         NEW o \in Outcomes(op, c), Take(op, o, c), o.ok, ~scarred'
  PROVE  Sound(vpp', reg', m, c, P \ {op}, displaced')
<1> DEFINE E == displaced'
<1>1. op \in P /\ op \in Op
  BY DEF Due
<1>2. /\ vpp' = o.vpp /\ reg' = o.reg
      /\ op.kind \in {"bd", "del-bd"} => TakenOut(op, o) \subseteq Former(op)
      /\ TakenOut(op, o) \cap Former(op) \subseteq E
      /\ displaced \ (IF op.kind = "bd" THEN c.ports[op.obj] ELSE {}) \subseteq E
  BY DEF Take
<1>3. op.kind \in {"bd", "del-bd"} => Displacing(vpp, o.vpp, op.obj, E)
  <2> SUFFICES ASSUME op.kind \in {"bd", "del-bd"}, NEW i \in Index, vpp.in[i] \notin {None, op.obj}, o.vpp.in[i] = None
               PROVE  vpp.at[i][1] \in E \cap Port
    BY DEF Displacing
  <2>1. vpp.at[i][1] \in TakenOut(op, o)
    BY DEF TakenOut
  <2>2. vpp.at[i][1] \in Former(op) /\ vpp.at[i][1] \in E
    BY <2>1, <1>2
  <2>3. op.obj \in Switch
    BY ConfigTypes DEF Fits
  <2>4. Former(op) = committed.ports[op.obj]
    BY DEF Former
  <2>5. committed.ports[op.obj] \subseteq Port
    BY <2>3, ConfigTypes
  <2> QED BY <2>2, <2>4, <2>5
<1>4. op.kind = "bond" => \A i \in Index : vpp.in[i] \in Switch /\ o.vpp.in[i] = None /\ vpp.at[i][1] = op.obj => op.obj \in E
  <2> SUFFICES ASSUME op.kind = "bond", NEW i \in Index, vpp.in[i] \in Switch, o.vpp.in[i] = None, vpp.at[i][1] = op.obj
               PROVE  op.obj \in E
    OBVIOUS
  <2>1. op.obj \notin Switch
    BY Kinds DEF Fits, Bonds
  <2>2. vpp.in[i] \notin {None, op.obj}
    BY <2>1, Kinds
  <2>3. op.obj \in TakenOut(op, o)
    BY <2>2 DEF TakenOut
  <2>4. Former(op) = {op.obj}
    BY DEF Former
  <2> QED BY <2>3, <2>4, <1>2
<1>5. op.kind # "bd" => displaced \subseteq E
  BY <1>2
<1>6. op.kind = "del-qos" => \A x : ~Waits(P, "iface", x)
  <2> SUFFICES ASSUME op.kind = "del-qos", NEW x, Waits(P, "iface", x) PROVE FALSE
    OBVIOUS
  <2> DEFINE y == [kind |-> "iface", obj |-> x]
  <2>1. y \in P /\ y.kind = "iface"
    BY DEF Waits
  <2>2. Rank(op) <= Rank(y)
    BY <2>1 DEF Due
  <2> QED BY <2>1, <2>2, Ranks
<1> HIDE DEF E
<1>7. m # "down" /\ op.kind \in {"vnic", "acl", "bond", "prune", "bd", "span", "qos", "lldp", "iface",
                         "del-bd", "del-bond", "del-vnic", "del-span", "del-qos", "del-acl"}
  BY <1>1, OpKinds
<1>8. SUFFICES Sound(o.vpp, o.reg, m, c, P \ {op}, E)
  BY <1>2 DEF E
<1>9. ASSUME Sound(o.vpp, o.reg, m, c, P \ {op}, displaced), op.kind # "bd"
      PROVE  Sound(o.vpp, o.reg, m, c, P \ {op}, E)
  BY <1>5, <1>9, Wider
<1>10. CASE op.kind = "bd"
  <2>1. o \in ApplyBridgeDomain(vpp, reg, c, op.obj)
    BY <1>10 DEF Outcomes
  <2>2. displaced \ c.ports[op.obj] \subseteq E
    BY <1>2, <1>10
  <2> QED BY <2>1, <2>2, <1>1, <1>3, <1>10, DomainStep
<1>11. CASE op.kind = "del-bd"
  <2>1. o \in DeleteBridgeDomain(vpp, reg, op.obj)
    BY <1>11 DEF Outcomes
  <2> QED BY <2>1, <1>1, <1>3, <1>5, <1>11, DeleteDomainStep
<1>12. CASE op.kind = "bond"
  <2>1. o \in ApplyBond(vpp, reg, c, op.obj)
    BY <1>12 DEF Outcomes
  <2> QED BY <2>1, <1>1, <1>4, <1>5, <1>7, <1>12, BondStep
<1>13. CASE op.kind = "vnic"
  <2>1. o \in ApplyVnic(vpp, reg, op.obj)
    BY <1>13 DEF Outcomes
  <2> QED BY <2>1, <1>1, <1>7, <1>9, <1>13, VnicStep
<1>14. CASE op.kind = "acl"
  <2>1. o \in ApplyACL(vpp, reg, op.obj)
    BY <1>14 DEF Outcomes
  <2> QED BY <2>1, <1>1, <1>9, <1>14, AclStep
<1>15. CASE op.kind = "prune"
  <2>1. o \in PruneBonds(vpp, reg, c)
    BY <1>15 DEF Outcomes
  <2> QED BY <2>1, <1>1, <1>7, <1>9, <1>15, PruneStep
<1>16. CASE op.kind = "span"
  <2>1. o \in ApplySpan(vpp, reg, c, op.obj)
    BY <1>16 DEF Outcomes
  <2> QED BY <2>1, <1>1, <1>9, <1>16, SpanStep
<1>17. CASE op.kind = "qos"
  <2>1. o \in ApplyQos(vpp, reg, op.obj)
    BY <1>17 DEF Outcomes
  <2> QED BY <2>1, <1>1, <1>9, <1>17, QosStep
<1>18. CASE op.kind = "lldp"
  <2>1. o \in ApplyLLDP(vpp, reg, c)
    BY <1>18 DEF Outcomes
  <2> QED BY <2>1, <1>1, <1>9, <1>18, LldpStep
<1>19. CASE op.kind = "iface"
  <2>1. o \in ApplyInterface(vpp, reg, c, op.obj)
    BY <1>19 DEF Outcomes
  <2>2. m \in {"run", "recover", "settled"}
    OBVIOUS
  <2> QED BY <2>1, <2>2, <1>1, <1>9, <1>19, IfaceStep
<1>20. CASE op.kind = "del-bond"
  <2>1. o \in DeleteBond(vpp, reg, op.obj)
    BY <1>20 DEF Outcomes
  <2> QED BY <2>1, <1>1, <1>7, <1>9, <1>20, DeleteBondStep
<1>21. CASE op.kind = "del-vnic"
  <2>1. o \in DeleteVnic(vpp, reg, op.obj)
    BY <1>21 DEF Outcomes
  <2> QED BY <2>1, <1>1, <1>7, <1>9, <1>21, DeleteVnicStep
<1>22. CASE op.kind = "del-span"
  <2>1. o \in DeleteSpan(vpp, reg, op.obj)
    BY <1>22 DEF Outcomes
  <2> QED BY <2>1, <1>1, <1>9, <1>22, DeleteSpanStep
<1>23. CASE op.kind = "del-qos"
  <2>1. o \in DeleteQos(vpp, reg, op.obj)
    BY <1>23 DEF Outcomes
  <2> QED BY <2>1, <1>1, <1>6, <1>9, <1>23, DeleteQosStep
<1>24. CASE op.kind = "del-acl"
  <2>1. o \in DeleteACL(vpp, reg, op.obj)
    BY <1>24 DEF Outcomes
  <2> QED BY <2>1, <1>1, <1>9, <1>24, DeleteAclStep
<1> QED BY <1>7, <1>10, <1>11, <1>12, <1>13, <1>14, <1>15, <1>16, <1>17, <1>18, <1>19, <1>20, <1>21, <1>22,
           <1>23, <1>24

\* VPP after its start is sound for every configuration that is to be recovered.
LEMMA EmptySound ==
  ASSUME NEW c \in Cfg, NEW P, NEW D
  PROVE  Sound(EmptyVpp, EmptyReg, "down", c, P, D)
<1> DEFINE v0 == [at |-> [i \in Index |-> None], bds |-> {}, in |-> [i \in Index |-> None],
                  slave |-> [p \in Phys |-> 0], lacp |-> {}, acls |-> {},
                  guard |-> [i \in Index |-> None], span |-> {}, qos |-> {},
                  input |-> [i \in Index |-> None], lldp |-> {}]
           names == {<<p, 0>> : p \in Phys}
           v == Create(v0, names)
<1>1. \A p \in Phys : <<p, 0>> \in IfName /\ <<p, 0>> # None
  BY Kinds, SwitchingAssumption DEF IfName, Port
<1>2. /\ v0 \in VppType /\ v0.bds = {}
      /\ \A i \in Index : v0.at[i] = None /\ v0.in[i] = None /\ v0.guard[i] = None /\ v0.input[i] = None
  BY DEF VppType
<1>3. EmptyVpp = v
  BY DEF EmptyVpp
<1> HIDE DEF v0
<1>4. names \in SUBSET IfName /\ Distinct(v0) /\ \A i \in Index : v0.at[i] \notin names
  BY <1>1, <1>2 DEF Distinct
<1>5. (\A x \in names : \E p \in Phys : x = <<p, 0>>) /\ \A p \in Phys : <<p, 0>> \in names
  OBVIOUS
<1> HIDE DEF names
<1>6. /\ v \in VppType
      /\ \A i \in Index : v.at[i] \in names \cup {None}
      /\ \A n \in names : \E i \in Index : v.at[i] = n
      /\ \A i, j \in Index : v.at[i] = v.at[j] /\ v.at[i] # None => i = j
      /\ v.bds = v0.bds /\ v.in = v0.in /\ v.guard = v0.guard /\ v.input = v0.input
  BY <1>2, <1>4, CreatedFrom
<1> HIDE DEF v
<1>7. \A i \in Index : v.in[i] = None /\ v.guard[i] = None /\ v.input[i] = None
  BY <1>2, <1>6
<1>8. \A i \in Index : v.at[i] = None \/ \E p \in Phys : v.at[i] = <<p, 0>>
  BY <1>5, <1>6
<1>9. Named(v)
  <2>1. \A p \in Phys : \E i \in Index : v.at[i] = <<p, 0>>
    BY <1>5, <1>6
  <2>2. ASSUME NEW i \in Index, NEW n \in Port, NEW w \in Vlan, v.at[i] = <<n, w>>
        PROVE  \E j \in Index : v.at[j] = <<n, 0>>
    <3>1. v.at[i] # None
      BY <2>2, Kinds DEF IfName
    <3>2. PICK p \in Phys : v.at[i] = <<p, 0>>
      BY <3>1, <1>8
    <3>3. n = p
      BY <2>2, <3>2
    <3> QED BY <3>2, <3>3
  <2>3. ASSUME NEW i \in Index, NEW s \in Switch, NEW w \in Vlan, v.at[i] = <<s, w>> PROVE FALSE
    <3>1. v.at[i] # None
      BY <2>3, Kinds DEF IfName
    <3>2. PICK p \in Phys : v.at[i] = <<p, 0>>
      BY <3>1, <1>8
    <3>3. s = p
      BY <2>3, <3>2
    <3> QED BY <3>3, Kinds
  <2> QED BY <2>1, <2>2, <2>3, <1>6, <1>7 DEF Named
<1>10. EmptyReg \in RegType
  BY DEF EmptyReg, RegType
<1>11. Policies(v, EmptyReg, "down", c, P)
  BY <1>7 DEF Policies
<1>12. Filters(v, EmptyReg, "down", c, P, D)
  BY <1>7 DEF Filters
<1>13. Bridges(v, "down", c, P, D)
  BY <1>2, <1>6, <1>7, ConfigTypes, Kinds DEF Bridges
<1> QED BY <1>3, <1>6, <1>9, <1>10, <1>11, <1>12, <1>13 DEF Sound

\* A commit starts: what its plan leaves out is the same in both configurations.
LEMMA BeginSound ==
  ASSUME NEW c \in Cfg, NEW n \in Cfg, NEW v, NEW r, NEW D, Sound(v, r, "settled", c, {}, D)
  PROVE  Sound(v, r, "run", n, Plan(c, n), D)
<1> DEFINE P == Plan(c, n)
<1>1. /\ v \in VppType /\ r \in RegType /\ Named(v) /\ Registered(v, r, "settled", {})
      /\ Policies(v, r, "settled", c, {}) /\ Filters(v, r, "settled", c, {}, D) /\ Bridges(v, "settled", c, {}, D)
  BY SoundTypes
<1>2. \A k, x : ~Waits({}, k, x)
  BY DEF Waits
<1>3. \A x : ~Waits(P, "iface", x) /\ x \in Phys => c.policy[x] = n.policy[x]
  BY DEF Plan, Waits, Ops
<1>4. /\ \A x : x \in c.acls /\ x \notin n.acls => Waits(P, "del-acl", x)
      /\ \A x : x \in n.acls /\ ~Waits(P, "acl", x) => x \in c.acls
  BY DEF Plan, Waits, Ops
<1>5. \A x : Waits(P, "del-acl", x) => x \in c.acls
  BY DEF Plan, Waits, Ops
<1>6. \A s \in n.switches : ~Waits(P, "bd", s) =>
        /\ s \in c.switches /\ c.ports[s] = n.ports[s] /\ c.vlan[s] = n.vlan[s] /\ (s \in c.gw <=> s \in n.gw)
        /\ \A x \in n.ports[s] \ Vnic : c.guard[x] = n.guard[x]
  BY DEF Plan, Waits, Ops
<1>7. \A s \in c.switches : s \notin n.switches => Waits(P, "del-bd", s)
  BY DEF Plan, Waits, Ops
<1> HIDE DEF P
<1>8. Registered(v, r, "run", P)
  BY <1>1 DEF Registered
<1>9. Policies(v, r, "run", n, P)
  BY <1>1, <1>2, <1>3 DEF Policies
<1>10. Filters(v, r, "run", n, P, D)
  <2>1. \A i \in Index : v.guard[i] \in n.acls \cup {None} \/ Waits(P, "del-acl", v.guard[i])
    BY <1>1, <1>4 DEF Filters
  <2>2. \A a \in Acl : (a \in n.acls /\ ~Waits(P, "acl", a)) \/ Waits(P, "del-acl", a) => a \in r.acls
    BY <1>1, <1>2, <1>4, <1>5 DEF Filters
  <2>3. \A i \in Index : r.bound[i] = None \/ v.guard[i] = None \/ r.bound[i] = v.guard[i]
    BY <1>1 DEF Filters
  <2>4. ASSUME NEW s \in n.switches, NEW i \in Index, NEW x \in n.ports[s] \ (Vnic \cup D),
               v.at[i] = <<x, 0>>, ~Waits(P, "bd", s)
        PROVE  v.guard[i] = n.guard[x] \/ n.guard[x] = None
    <3>1. s \in c.switches /\ x \in c.ports[s] \ (Vnic \cup D) /\ c.guard[x] = n.guard[x]
      BY <2>4, <1>6
    <3> QED BY <3>1, <2>4, <1>1, <1>2 DEF Filters
  <2> QED BY <2>1, <2>2, <2>3, <2>4 DEF Filters
<1>11. Bridges(v, "run", n, P, D)
  <2>1. \A s \in n.switches : ~Waits(P, "bd", s) => s \in c.switches /\ Members(c, s) = Members(n, s) /\ (s \in c.gw <=> s \in n.gw)
    BY <1>6 DEF Members
  <2>2. \A s \in Switch \ n.switches : ~Waits(P, "del-bd", s) => s \in Switch \ c.switches
    BY <1>7
  <2>3. /\ \A s \in c.switches, i \in Index : v.in[i] = s => v.at[i] \in Members(c, s) \cup {<<s, 0>>}
        /\ \A s \in c.switches : /\ \A x \in Members(c, s) : x[1] \in D \/ \E i \in Index : v.at[i] = x /\ v.in[i] = s
                                 /\ s \in c.gw => \E i \in Index : v.at[i] = <<s, 0>>
        /\ \A s \in Switch \ c.switches : s \notin v.bds /\ \A i \in Index : v.in[i] # s
    BY <1>1, <1>2 DEF Bridges
  <2>4. ASSUME NEW s \in n.switches, NEW i \in Index, v.in[i] = s, ~Waits(P, "bd", s)
        PROVE  v.at[i] \in Members(n, s) \cup {<<s, 0>>}
    BY <2>1, <2>3, <2>4
  <2>5. ASSUME NEW s \in n.switches, ~Waits(P, "bd", s)
        PROVE  /\ \A x \in Members(n, s) : x[1] \in D \/ \E i \in Index : v.at[i] = x /\ v.in[i] = s
               /\ s \in n.gw => \E i \in Index : v.at[i] = <<s, 0>>
    BY <2>1, <2>3, <2>5
  <2> QED BY <2>2, <2>3, <2>4, <2>5 DEF Bridges
<1> QED BY <1>1, <1>8, <1>9, <1>10, <1>11 DEF Sound, P

\* A commit or a recovery that has nothing left to do has brought its configuration about.
LEMMA EndSound ==
  ASSUME NEW m \in {"run", "recover"}, NEW c \in Cfg, NEW v, NEW r, NEW D, Sound(v, r, m, c, {}, D)
  PROVE  Sound(v, r, "settled", c, {}, D)
<1>1. /\ v \in VppType /\ r \in RegType /\ Named(v) /\ Registered(v, r, m, {}) /\ m # "down"
      /\ Policies(v, r, m, c, {}) /\ Filters(v, r, m, c, {}, D) /\ Bridges(v, m, c, {}, D)
  BY SoundTypes
<1>2. \A k, x : ~Waits({}, k, x)
  BY DEF Waits
<1>3. Registered(v, r, "settled", {})
  BY <1>1, <1>2 DEF Registered
<1>4. Policies(v, r, "settled", c, {})
  BY <1>1, <1>2 DEF Policies
<1>5. Filters(v, r, "settled", c, {}, D)
  BY <1>1, <1>2 DEF Filters
<1>6. Bridges(v, "settled", c, {}, D)
  BY <1>1, <1>2 DEF Bridges
<1> QED BY <1>1, <1>3, <1>4, <1>5, <1>6 DEF Sound

\* The daemon restarts: VPP has what it had, the registries are lost.
LEMMA RestartSound ==
  ASSUME NEW m \in {"settled", "recover", "down"}, NEW c \in Cfg, NEW P, NEW Q, NEW v, NEW r, NEW D,
         Sound(v, r, m, c, P, D), \A x : ~Waits(P, "del-bd", x)
  PROVE  Sound(v, EmptyReg, "down", c, Q, D)
<1>1. /\ v \in VppType /\ Named(v)
      /\ Policies(v, r, m, c, P) /\ Filters(v, r, m, c, P, D) /\ Bridges(v, m, c, P, D)
  BY SoundTypes
<1>2. EmptyReg \in RegType
  BY DEF EmptyReg, RegType
<1>3. Policies(v, EmptyReg, "down", c, Q)
  BY <1>1 DEF Policies
<1>4. Filters(v, EmptyReg, "down", c, Q, D)
  BY <1>1 DEF Filters
<1>5. Bridges(v, "down", c, Q, D)
  BY <1>1 DEF Bridges
<1> QED BY <1>1, <1>2, <1>3, <1>4, <1>5 DEF Sound

\* A recovery starts with empty registries and everything to do.
LEMMA RecoverSound ==
  ASSUME NEW c \in Cfg, NEW v, NEW D, Sound(v, EmptyReg, "down", c, Replay(c), D)
  PROVE  Sound(v, EmptyReg, "recover", c, Replay(c), D)
<1> DEFINE P == Replay(c)
<1>1. /\ v \in VppType /\ EmptyReg \in RegType /\ Named(v)
      /\ Policies(v, EmptyReg, "down", c, P) /\ Filters(v, EmptyReg, "down", c, P, D) /\ Bridges(v, "down", c, P, D)
  BY SoundTypes
<1>2. /\ \A x \in Phys : Waits(P, "iface", x)
      /\ \A x \in c.acls : Waits(P, "acl", x)
      /\ \A x \in c.switches : Waits(P, "bd", x)
  BY DEF Waits, Replay, Ops
<1>3. \A x : ~Waits(P, "del-acl", x) /\ ~Waits(P, "del-bd", x)
  BY DEF Waits, Replay, Ops
<1> HIDE DEF P
<1>4. /\ \A s \in Switch : EmptyReg.attached[s] = {} /\ EmptyReg.bvi[s] = 0
      /\ \A b \in Bond : EmptyReg.bond[b] = 0
      /\ \A i \in Index : EmptyReg.bound[i] = None
      /\ \A p \in Phys : EmptyReg.policy[p] = None
  BY DEF EmptyReg
<1>5. Registered(v, EmptyReg, "recover", P)
  <2>1. ASSUME NEW i \in Index, NEW s \in Switch, v.in[i] = s PROVE Waits(P, "bd", s)
    BY <2>1, <1>1, <1>2, <1>3 DEF Bridges
  <2> QED BY <2>1, <1>4 DEF Registered
<1>6. Policies(v, EmptyReg, "recover", c, P)
  BY <1>1, <1>2, <1>4 DEF Policies
<1>7. Filters(v, EmptyReg, "recover", c, P, D)
  BY <1>1, <1>2, <1>3, <1>4 DEF Filters
<1>8. Bridges(v, "recover", c, P, D)
  BY <1>1, <1>2, <1>3 DEF Bridges
<1> QED BY <1>1, <1>5, <1>6, <1>7, <1>8 DEF Sound, P

\* What a plan and a recovery consist of.
LEMMA PlanFits ==
  ASSUME NEW c \in Cfg, NEW n \in Cfg
  PROVE  Plan(c, n) \subseteq Op /\ \A op \in Plan(c, n) : Fits(op, "run", n)
<1> SUFFICES ASSUME NEW op \in Plan(c, n) PROVE op \in Op /\ Fits(op, "run", n)
  OBVIOUS
<1>1. PICK k, x : /\ op = [kind |-> k, obj |-> x]
                  /\ \/ k = "vnic" /\ x \in n.vnics
                     \/ k = "acl" /\ x \in n.acls
                     \/ k = "bond" /\ x \in Bonds(n)
                     \/ k = "bd" /\ x \in n.switches
                     \/ k = "span" /\ x \in Spans(n)
                     \/ k = "qos" /\ x \in n.qos
                     \/ k = "lldp" /\ x = None
                     \/ k = "iface" /\ x \in Phys
                     \/ k = "del-bd" /\ x \in c.switches \ n.switches
                     \/ k = "del-bond" /\ x \in Bonds(c) \ Bonds(n)
                     \/ k = "del-vnic" /\ x \in c.vnics \ n.vnics
                     \/ k = "del-span" /\ x \in Spans(c)
                     \/ k = "del-qos" /\ x \in c.qos \ n.qos
                     \/ k = "del-acl" /\ x \in c.acls \ n.acls
  <2>1. op = [kind |-> op.kind, obj |-> op.obj]
    BY DEF Plan, Ops
  <2>2. \/ op.kind = "vnic" /\ op.obj \in n.vnics
        \/ op.kind = "acl" /\ op.obj \in n.acls
        \/ op.kind = "bond" /\ op.obj \in Bonds(n)
        \/ op.kind = "bd" /\ op.obj \in n.switches
        \/ op.kind = "span" /\ op.obj \in Spans(n)
        \/ op.kind = "qos" /\ op.obj \in n.qos
        \/ op.kind = "lldp" /\ op.obj = None
        \/ op.kind = "iface" /\ op.obj \in Phys
        \/ op.kind = "del-bd" /\ op.obj \in c.switches \ n.switches
        \/ op.kind = "del-bond" /\ op.obj \in Bonds(c) \ Bonds(n)
        \/ op.kind = "del-vnic" /\ op.obj \in c.vnics \ n.vnics
        \/ op.kind = "del-span" /\ op.obj \in Spans(c)
        \/ op.kind = "del-qos" /\ op.obj \in c.qos \ n.qos
        \/ op.kind = "del-acl" /\ op.obj \in c.acls \ n.acls
    BY DEF Plan, Ops
  <2> QED BY <2>1, <2>2
<1>2. /\ Bonds(n) \subseteq Bond /\ Bonds(c) \subseteq Bond /\ Spans(n) \subseteq Span /\ Spans(c) \subseteq Span
      /\ \A p \in Phys : p \in Port
      /\ \A b \in Bond : b \in Port
      /\ \A y \in Vnic : y \in Port
  BY DEF Bonds, Spans, Port
<1>3. op.kind = k /\ op.obj = x
  BY <1>1
<1>4. /\ c.vnics \subseteq Vnic /\ n.vnics \subseteq Vnic /\ c.acls \subseteq Acl /\ n.acls \subseteq Acl
      /\ c.qos \subseteq Qos /\ n.qos \subseteq Qos /\ c.switches \subseteq Switch /\ n.switches \subseteq Switch
  BY ConfigTypes
<1>5. x \in Port \cup Switch \cup Acl \cup Span \cup Qos \cup {None}
  BY <1>1, <1>2, <1>4
<1>6. k \in {Order[i] : i \in DOMAIN Order}
  BY <1>1 DEF Order
<1>7. op \in Op
  BY <1>1, <1>5, <1>6 DEF Op
<1>8. Fits(op, "run", n)
  BY <1>1, <1>2, <1>3, <1>4 DEF Fits
<1> QED BY <1>7, <1>8

\* A recovery replays operations on what is declared.
LEMMA ReplayFits ==
  ASSUME NEW c \in Cfg
  PROVE  Replay(c) \subseteq Op /\ \A op \in Replay(c) : Fits(op, "recover", c)
<1> SUFFICES ASSUME NEW op \in Replay(c) PROVE op \in Op /\ Fits(op, "recover", c)
  OBVIOUS
<1>1. PICK k, x : /\ op = [kind |-> k, obj |-> x]
                  /\ \/ k = "vnic" /\ x \in c.vnics
                     \/ k = "acl" /\ x \in c.acls
                     \/ k = "bond" /\ x \in Bonds(c)
                     \/ k = "prune" /\ x = None
                     \/ k = "bd" /\ x \in c.switches
                     \/ k = "span" /\ x \in Spans(c)
                     \/ k = "qos" /\ x \in c.qos
                     \/ k = "lldp" /\ x = None
                     \/ k = "iface" /\ x \in Phys
  <2>1. op = [kind |-> op.kind, obj |-> op.obj]
    BY DEF Replay, Ops
  <2>2. \/ op.kind = "vnic" /\ op.obj \in c.vnics
        \/ op.kind = "acl" /\ op.obj \in c.acls
        \/ op.kind = "bond" /\ op.obj \in Bonds(c)
        \/ op.kind = "prune" /\ op.obj = None
        \/ op.kind = "bd" /\ op.obj \in c.switches
        \/ op.kind = "span" /\ op.obj \in Spans(c)
        \/ op.kind = "qos" /\ op.obj \in c.qos
        \/ op.kind = "lldp" /\ op.obj = None
        \/ op.kind = "iface" /\ op.obj \in Phys
    BY DEF Replay, Ops
  <2> QED BY <2>1, <2>2
<1>2. /\ Bonds(c) \subseteq Bond /\ Spans(c) \subseteq Span
      /\ \A p \in Phys : p \in Port
      /\ \A b \in Bond : b \in Port
      /\ \A y \in Vnic : y \in Port
  BY DEF Bonds, Spans, Port
<1>3. op.kind = k /\ op.obj = x
  BY <1>1
<1>4. c.vnics \subseteq Vnic /\ c.acls \subseteq Acl /\ c.qos \subseteq Qos /\ c.switches \subseteq Switch
  BY ConfigTypes
<1>5. x \in Port \cup Switch \cup Acl \cup Span \cup Qos \cup {None}
  BY <1>1, <1>2, <1>4
<1>6. k \in {Order[i] : i \in DOMAIN Order}
  BY <1>1 DEF Order
<1>7. op \in Op
  BY <1>1, <1>5, <1>6 DEF Op
<1>8. Fits(op, "recover", c)
  BY <1>1, <1>2, <1>3, <1>4 DEF Fits
<1> QED BY <1>7, <1>8

\* The record of a job.
LEMMA Jobs ==
  ASSUME NEW p \in {"idle", "run", "undo", "recover"}, NEW n \in Cfg, NEW T, T \subseteq Op, NEW d \in Seq(Op)
  PROVE  [phase |-> p, new |-> n, todo |-> T, done |-> d] \in JobType
  BY DEF JobType

\* The fields of a job.
LEMMA JobParts ==
  ASSUME job \in JobType
  PROVE  /\ job.phase \in {"idle", "run", "undo", "recover"} /\ job.new \in Cfg
         /\ job.todo \subseteq Op /\ job.done \in Seq(Op)
         /\ job = [phase |-> job.phase, new |-> job.new, todo |-> job.todo, done |-> job.done]
  BY DEF JobType

-----------------------------------------------------------------------------
(* The invariant *)

\* Initially nothing is up and everything is to be replayed.
LEMMA InitInv == Init => SwitchingInv
<1> SUFFICES ASSUME Init PROVE SwitchingInv
  OBVIOUS
<1>1. /\ vpp = EmptyVpp /\ reg = EmptyReg /\ up = FALSE /\ committed = Init0 /\ Init0 \in Cfg /\ displaced = {}
      /\ job = [phase |-> "idle", new |-> Init0, todo |-> {}, done |-> << >>]
  BY SwitchingAssumption DEF Init
<1>2. job \in JobType
  <2>1. {} \subseteq Op /\ << >> \in Seq(Op) /\ "idle" \in {"idle", "run", "undo", "recover"}
    OBVIOUS
  <2> QED BY <1>1, <2>1, Jobs
<1>3. Progress
  BY <1>1, <1>2 DEF Progress
<1>4. Stage = "down" /\ Target = Init0 /\ Known = EmptyReg
  BY <1>1 DEF Stage, Target, Known
<1>5. Sound(vpp, Known, Stage, Target, Todo, displaced)
  BY <1>1, <1>4, EmptySound
<1> QED BY <1>3, <1>5 DEF SwitchingInv

\* A commit begins with its plan: but for what that is about the data plane is right.
LEMMA BeginKeeps ==
  ASSUME SwitchingInv, NEW n \in Cfg, Begin(n)
  PROVE  SwitchingInv'
<1>1. /\ job.phase = "idle" /\ up /\ committed \in Cfg /\ up \in BOOLEAN /\ job.todo = {}
      /\ job' = [phase |-> "run", new |-> n, todo |-> Plan(committed, n), done |-> << >>]
      /\ vpp' = vpp /\ reg' = reg /\ up' = up /\ committed' = committed /\ scarred' = scarred /\ displaced' = displaced
  BY DEF SwitchingInv, Progress, Begin
<1>2. job' \in JobType
  <2>1. Plan(committed, n) \subseteq Op /\ << >> \in Seq(Op) /\ "run" \in {"idle", "run", "undo", "recover"}
    BY <1>1, PlanFits
  <2> QED BY <1>1, <2>1, Jobs
<1>3. job'.phase = "run" /\ job'.new = n /\ job'.todo = Plan(committed, n)
  BY <1>1
<1>4. Stage' = "run" /\ Target' = n /\ Todo' = Plan(committed, n) /\ Known' = reg
  BY <1>1, <1>3 DEF Stage, Target, Todo, Known
<1>5. Progress'
  BY <1>1, <1>2, <1>3, <1>4, PlanFits DEF Progress
<1>6. ASSUME ~scarred' PROVE Sound(vpp, reg, "run", n, Plan(committed, n), displaced)
  <2>1. Stage = "settled" /\ Target = committed /\ Todo = {} /\ Known = reg
    BY <1>1 DEF Stage, Target, Todo, Known
  <2>2. Sound(vpp, reg, "settled", committed, {}, displaced)
    BY <1>1, <1>6, <2>1 DEF SwitchingInv
  <2> QED BY <1>1, <2>2, BeginSound
<1> QED BY <1>1, <1>4, <1>5, <1>6 DEF SwitchingInv

\* An operation of a commit makes right what it is about, or the commit fails.
LEMMA RunOpKeeps ==
  ASSUME SwitchingInv, RunOp
  PROVE  SwitchingInv'
<1>0. PICK op \in Due(job.todo) : \E o \in Outcomes(op, job.new) :
        /\ Take(op, o, job.new)
        /\ job' = IF o.ok THEN [job EXCEPT !.todo = @ \ {op}, !.done = Append(@, op)]
                  ELSE [job EXCEPT !.phase = "undo", !.todo = {}]
  BY Zenon DEF RunOp
<1>1. PICK o \in Outcomes(op, job.new) :
        /\ Take(op, o, job.new)
        /\ job' = IF o.ok THEN [job EXCEPT !.todo = @ \ {op}, !.done = Append(@, op)]
                  ELSE [job EXCEPT !.phase = "undo", !.todo = {}]
  BY <1>0
<1>2. /\ job.phase = "run" /\ up /\ up' = up /\ committed' = committed /\ committed \in Cfg /\ up \in BOOLEAN
      /\ job \in JobType /\ \A x \in job.todo : Fits(x, Stage, Target)
  BY DEF SwitchingInv, Progress, RunOp
<1>3. /\ job.new \in Cfg /\ job.todo \subseteq Op /\ job.done \in Seq(Op)
      /\ job = [phase |-> job.phase, new |-> job.new, todo |-> job.todo, done |-> job.done]
  BY <1>2, JobParts
<1>4. op \in job.todo /\ op \in Op
  BY <1>3 DEF Due
<1>5. Stage = "run" /\ Target = job.new /\ Todo = job.todo /\ Known = reg
  BY <1>2 DEF Stage, Target, Todo, Known
<1>6. ~scarred' => ~scarred /\ o.ok
  BY <1>1 DEF Take
<1>7. CASE o.ok
  <2>1. /\ job'.phase = "run" /\ job'.new = job.new /\ job'.todo = job.todo \ {op} /\ job'.done = Append(job.done, op)
        /\ job' = [phase |-> "run", new |-> job.new, todo |-> job.todo \ {op}, done |-> Append(job.done, op)]
    BY <1>1, <1>2, <1>3, <1>7
  <2>2. job' \in JobType
    <3>1. job.todo \ {op} \subseteq Op /\ Append(job.done, op) \in Seq(Op) /\ "run" \in {"idle", "run", "undo", "recover"}
      BY <1>3, <1>4
    <3> QED BY <1>3, <2>1, <3>1, Jobs
  <2>3. Stage' = "run" /\ Target' = job.new /\ Todo' = job.todo \ {op} /\ Known' = reg'
    BY <2>1 DEF Stage, Target, Todo, Known
  <2>4. Progress'
    BY <1>2, <1>5, <2>1, <2>2, <2>3 DEF Progress
  <2>5. ASSUME ~scarred' PROVE Sound(vpp', reg', "run", job.new, job.todo \ {op}, displaced')
    <3>1. Sound(vpp, reg, "run", job.new, job.todo, displaced)
      BY <1>5, <2>5, <1>1 DEF SwitchingInv, Take
    <3>2. Fits(op, "run", job.new)
      BY <1>2, <1>4, <1>5
    <3>3. "run" \in {"run", "recover"} /\ job.todo \in SUBSET Op
      BY <1>3
    <3> QED BY <1>1, <1>2, <1>3, <1>7, <2>5, <3>1, <3>2, <3>3, OpSound
  <2> QED BY <2>3, <2>4, <2>5 DEF SwitchingInv
<1>8. CASE ~o.ok
  <2>1. /\ job'.phase = "undo" /\ job'.todo = {}
        /\ job' = [phase |-> "undo", new |-> job.new, todo |-> {}, done |-> job.done]
    BY <1>1, <1>3, <1>8
  <2>2. job' \in JobType
    <3>1. {} \subseteq Op /\ "undo" \in {"idle", "run", "undo", "recover"}
      OBVIOUS
    <3> QED BY <1>3, <2>1, <3>1, Jobs
  <2>3. scarred'
    BY <1>1, <1>8 DEF Take
  <2>4. Progress'
    BY <1>2, <2>1, <2>2, <2>3 DEF Progress
  <2> QED BY <2>3, <2>4 DEF SwitchingInv
<1> QED BY <1>7, <1>8

\* While a commit is undone something has failed.
LEMMA UndoOpKeeps ==
  ASSUME SwitchingInv, UndoOp
  PROVE  SwitchingInv'
<1> DEFINE op == job.done[Len(job.done)]
<1>1. /\ job.phase = "undo" /\ scarred /\ up' = up /\ committed' = committed /\ committed \in Cfg /\ up \in BOOLEAN
      /\ job \in JobType /\ job.todo = {} /\ job.done # << >>
      /\ job' = [job EXCEPT !.done = SubSeq(@, 1, Len(@) - 1)]
  BY DEF SwitchingInv, Progress, UndoOp
<1>2. /\ job.new \in Cfg /\ job.todo \subseteq Op /\ job.done \in Seq(Op)
      /\ job = [phase |-> job.phase, new |-> job.new, todo |-> job.todo, done |-> job.done]
  BY <1>1, JobParts
<1>3. scarred'
  <2>1. PICK o \in Outcomes(Undo(op), committed) :
          /\ Take(Undo(op), o, committed)
          /\ alarms' = IF o.ok THEN alarms ELSE alarms \cup {op}
    BY DEF UndoOp
  <2> QED BY <1>1, <2>1 DEF Take
<1> HIDE DEF op
<1>4. /\ job'.phase = "undo" /\ job'.todo = {}
      /\ job' = [phase |-> "undo", new |-> job.new, todo |-> {}, done |-> SubSeq(job.done, 1, Len(job.done) - 1)]
  BY <1>1, <1>2
<1>5. job' \in JobType
  <2>1. SubSeq(job.done, 1, Len(job.done) - 1) \in Seq(Op)
    BY <1>1, <1>2, EmptySeq, LenProperties, SubSeqProperties
  <2>2. {} \subseteq Op /\ "undo" \in {"idle", "run", "undo", "recover"}
    OBVIOUS
  <2> QED BY <1>2, <1>4, <2>1, <2>2, Jobs
<1>6. Progress'
  BY <1>1, <1>3, <1>4, <1>5 DEF Progress
<1> QED BY <1>3, <1>6 DEF SwitchingInv

\* With no operation left the data plane is right for the new configuration.
LEMMA EndKeeps ==
  ASSUME SwitchingInv, End
  PROVE  SwitchingInv'
<1>1. /\ committed \in Cfg /\ up \in BOOLEAN /\ job \in JobType /\ job.phase \in {"run", "undo"} /\ job.todo = {}
      /\ job.phase = "run" => up /\ committed' = job.new
      /\ job.phase = "undo" => scarred /\ committed' = committed
      /\ job' = [job EXCEPT !.phase = "idle", !.done = << >>]
      /\ vpp' = vpp /\ reg' = reg /\ up' = up /\ scarred' = scarred /\ displaced' = displaced
  BY DEF SwitchingInv, Progress, End
<1>2. /\ job.new \in Cfg
      /\ job = [phase |-> job.phase, new |-> job.new, todo |-> job.todo, done |-> job.done]
  BY <1>1, JobParts
<1>3. /\ job'.phase = "idle" /\ job'.todo = {}
      /\ job' = [phase |-> "idle", new |-> job.new, todo |-> {}, done |-> << >>]
  BY <1>1, <1>2
<1>4. job' \in JobType
  <2>1. {} \subseteq Op /\ << >> \in Seq(Op) /\ "idle" \in {"idle", "run", "undo", "recover"}
    OBVIOUS
  <2> QED BY <1>2, <1>3, <2>1, Jobs
<1>5. Progress'
  BY <1>1, <1>2, <1>3, <1>4 DEF Progress
<1>6. ASSUME ~scarred' PROVE Sound(vpp', Known', Stage', Target', Todo', displaced')
  <2>1. job.phase = "run" /\ up /\ committed' = job.new
    BY <1>1, <1>6
  <2>2. Stage = "run" /\ Target = job.new /\ Todo = {} /\ Known = reg
    BY <1>1, <2>1 DEF Stage, Target, Todo, Known
  <2>3. Stage' = "settled" /\ Target' = job.new /\ Todo' = {} /\ Known' = reg
    BY <1>1, <1>3, <2>1 DEF Stage, Target, Todo, Known
  <2>4. Sound(vpp, reg, "run", job.new, {}, displaced)
    BY <1>1, <1>6, <2>2 DEF SwitchingInv
  <2>5. Sound(vpp, reg, "settled", job.new, {}, displaced)
    BY <1>2, <2>4, EndSound
  <2> QED BY <1>1, <2>3, <2>5
<1> QED BY <1>5, <1>6 DEF SwitchingInv

\* After a restart of VPP nothing is left that a recovery would not make.
LEMMA VppRestartKeeps ==
  ASSUME SwitchingInv, VppRestart
  PROVE  SwitchingInv'
<1>1. /\ committed \in Cfg /\ job \in JobType /\ job' = [job EXCEPT !.phase = "idle", !.todo = {}]
      /\ vpp' = EmptyVpp /\ up' = FALSE /\ committed' = committed
  BY DEF SwitchingInv, Progress, VppRestart
<1>2. /\ job.new \in Cfg /\ job.done \in Seq(Op)
      /\ job = [phase |-> job.phase, new |-> job.new, todo |-> job.todo, done |-> job.done]
  BY <1>1, JobParts
<1>3. /\ job'.phase = "idle" /\ job'.todo = {}
      /\ job' = [phase |-> "idle", new |-> job.new, todo |-> {}, done |-> job.done]
  BY <1>1, <1>2
<1>4. job' \in JobType
  <2>1. {} \subseteq Op /\ "idle" \in {"idle", "run", "undo", "recover"}
    OBVIOUS
  <2> QED BY <1>2, <1>3, <2>1, Jobs
<1>5. Progress'
  BY <1>1, <1>3, <1>4 DEF Progress
<1>6. Stage' = "down" /\ Target' = committed /\ Known' = EmptyReg
  BY <1>1, <1>3 DEF Stage, Target, Known
<1>7. Sound(vpp', Known', Stage', Target', Todo', displaced')
  BY <1>1, <1>6, EmptySound
<1> QED BY <1>5, <1>7 DEF SwitchingInv

\* A daemon that restarts has nothing registered.
LEMMA DaemonRestartKeeps ==
  ASSUME SwitchingInv, DaemonRestart
  PROVE  SwitchingInv'
<1>1. /\ committed \in Cfg /\ job \in JobType /\ up \in BOOLEAN
      /\ job.phase = "recover" => ~up
      /\ job.phase = "idle" => job.todo = {}
      /\ \A op \in job.todo : Fits(op, Stage, Target)
      /\ job' = [phase |-> "idle", new |-> committed, todo |-> {}, done |-> << >>]
      /\ vpp' = vpp /\ reg' = EmptyReg /\ up' = FALSE /\ committed' = committed /\ displaced' = displaced
      /\ ~scarred' => ~scarred /\ job.phase \notin {"run", "undo"}
  BY DEF SwitchingInv, Progress, DaemonRestart
<1>2. job'.phase = "idle" /\ job'.todo = {}
  BY <1>1
<1>3. job' \in JobType
  <2>1. {} \subseteq Op /\ << >> \in Seq(Op) /\ "idle" \in {"idle", "run", "undo", "recover"}
    OBVIOUS
  <2> QED BY <1>1, <2>1, Jobs
<1>4. Progress'
  BY <1>1, <1>2, <1>3 DEF Progress
<1>5. Stage' = "down" /\ Target' = committed /\ Todo' = Replay(committed) /\ Known' = EmptyReg
  BY <1>1, <1>2 DEF Stage, Target, Todo, Known
<1>6. ASSUME ~scarred' PROVE Sound(vpp, EmptyReg, "down", committed, Replay(committed), displaced)
  <2>1. job.phase \in {"idle", "recover"} /\ Sound(vpp, Known, Stage, Target, Todo, displaced)
    BY <1>1, <1>6, JobParts DEF SwitchingInv
  <2>2. Target = committed /\ Stage \in {"settled", "recover", "down"}
    BY <2>1 DEF Target, Stage
  <2>3. \A x : ~Waits(Todo, "del-bd", x)
    <3> SUFFICES ASSUME NEW x, Waits(Todo, "del-bd", x) PROVE FALSE
      OBVIOUS
    <3> DEFINE op == [kind |-> "del-bd", obj |-> x]
    <3>1. op \in Todo /\ op.kind = "del-bd"
      BY DEF Waits
    <3>2. CASE Stage = "down"
      BY <1>1, <3>1, <3>2, ReplayFits DEF Todo, Fits
    <3>3. CASE Stage # "down"
      <4>1. op \in job.todo /\ Fits(op, Stage, Target)
        BY <1>1, <3>1, <3>3 DEF Todo
      <4>2. Stage = "run"
        BY <3>1, <4>1 DEF Fits
      <4> QED BY <2>2, <4>2
    <3> QED BY <3>2, <3>3
  <2>4. Sound(vpp, Known, Stage, committed, Todo, displaced)
    BY <2>1, <2>2
  <2> QED BY <1>1, <2>2, <2>3, <2>4, RestartSound
<1> QED BY <1>1, <1>4, <1>5, <1>6 DEF SwitchingInv

\* A recovery begins with everything that is declared to be applied.
LEMMA RecoverKeeps ==
  ASSUME SwitchingInv, Recover
  PROVE  SwitchingInv'
<1>1. /\ committed \in Cfg /\ job.phase = "idle" /\ ~up /\ up \in BOOLEAN
      /\ job' = [phase |-> "recover", new |-> committed, todo |-> Replay(committed), done |-> << >>]
      /\ reg' = EmptyReg /\ vpp' = vpp /\ up' = up /\ committed' = committed /\ displaced' = displaced /\ scarred' = scarred
  BY DEF SwitchingInv, Progress, Recover
<1>2. job'.phase = "recover" /\ job'.todo = Replay(committed)
  BY <1>1
<1>3. job' \in JobType
  <2>1. Replay(committed) \subseteq Op /\ << >> \in Seq(Op) /\ "recover" \in {"idle", "run", "undo", "recover"}
    BY <1>1, ReplayFits
  <2> QED BY <1>1, <2>1, Jobs
<1>4. Stage' = "recover" /\ Target' = committed /\ Todo' = Replay(committed) /\ Known' = EmptyReg
  BY <1>1, <1>2 DEF Stage, Target, Todo, Known
<1>5. Progress'
  BY <1>1, <1>2, <1>3, <1>4, ReplayFits DEF Progress
<1>6. ASSUME ~scarred' PROVE Sound(vpp, EmptyReg, "recover", committed, Replay(committed), displaced)
  <2>1. Stage = "down" /\ Target = committed /\ Todo = Replay(committed) /\ Known = EmptyReg
    BY <1>1 DEF Stage, Target, Todo, Known
  <2>2. Sound(vpp, EmptyReg, "down", committed, Replay(committed), displaced)
    BY <1>1, <1>6, <2>1 DEF SwitchingInv
  <2> QED BY <1>1, <2>2, RecoverSound
<1> QED BY <1>1, <1>4, <1>5, <1>6 DEF SwitchingInv

\* An operation of a recovery makes right what it is about, or something has failed.
LEMMA RecoverOpKeeps ==
  ASSUME SwitchingInv, RecoverOp
  PROVE  SwitchingInv'
<1>0. PICK op \in Due(job.todo) : \E o \in Outcomes(op, committed) :
        /\ Take(op, o, committed)
        /\ job' = [job EXCEPT !.todo = @ \ {op}, !.done = IF o.ok THEN @ ELSE Append(@, op)]
  BY Zenon DEF RecoverOp
<1>1. PICK o \in Outcomes(op, committed) :
        /\ Take(op, o, committed)
        /\ job' = [job EXCEPT !.todo = @ \ {op}, !.done = IF o.ok THEN @ ELSE Append(@, op)]
  BY <1>0, Zenon
<1>2. /\ job.phase = "recover" /\ ~up /\ up' = up /\ committed' = committed /\ committed \in Cfg /\ up \in BOOLEAN
      /\ job \in JobType /\ \A x \in job.todo : Fits(x, Stage, Target)
  BY DEF SwitchingInv, Progress, RecoverOp
<1>3. /\ job.new \in Cfg /\ job.todo \subseteq Op /\ job.done \in Seq(Op)
      /\ job = [phase |-> job.phase, new |-> job.new, todo |-> job.todo, done |-> job.done]
  BY <1>2, JobParts
<1>4. op \in job.todo /\ op \in Op
  BY <1>3 DEF Due
<1>5. Stage = "recover" /\ Target = committed /\ Todo = job.todo /\ Known = reg
  BY <1>2 DEF Stage, Target, Todo, Known
<1>6. ~scarred' => ~scarred /\ o.ok
  BY <1>1 DEF Take
<1> DEFINE d == IF o.ok THEN job.done ELSE Append(job.done, op)
<1>7. /\ job'.phase = "recover" /\ job'.todo = job.todo \ {op}
      /\ job' = [phase |-> "recover", new |-> job.new, todo |-> job.todo \ {op}, done |-> d]
  BY <1>1, <1>2, <1>3
<1>8. job' \in JobType
  <2>1. d \in Seq(Op) /\ job.todo \ {op} \subseteq Op /\ "recover" \in {"idle", "run", "undo", "recover"}
    BY <1>3, <1>4
  <2> HIDE DEF d
  <2> QED BY <1>3, <1>7, <2>1, Jobs
<1>9. Stage' = "recover" /\ Target' = committed /\ Todo' = job.todo \ {op} /\ Known' = reg'
  BY <1>2, <1>7 DEF Stage, Target, Todo, Known
<1>10. Progress'
  BY <1>2, <1>5, <1>7, <1>8, <1>9 DEF Progress
<1>11. ASSUME ~scarred' PROVE Sound(vpp', reg', "recover", committed, job.todo \ {op}, displaced')
  <2>1. Sound(vpp, reg, "recover", committed, job.todo, displaced)
    BY <1>5, <1>6, <1>11 DEF SwitchingInv
  <2>2. Fits(op, "recover", committed)
    BY <1>2, <1>4, <1>5
  <2>3. "recover" \in {"run", "recover"} /\ job.todo \in SUBSET Op
    BY <1>3
  <2> QED BY <1>1, <1>2, <1>6, <1>11, <2>1, <2>2, <2>3, OpSound
<1> QED BY <1>9, <1>10, <1>11 DEF SwitchingInv

\* A recovery that ends has nothing left to apply.
LEMMA RecoverEndKeeps ==
  ASSUME SwitchingInv, RecoverEnd
  PROVE  SwitchingInv'
<1>1. /\ committed \in Cfg /\ job \in JobType /\ job.phase = "recover" /\ job.todo = {}
      /\ job' = [job EXCEPT !.phase = "idle", !.done = << >>]
      /\ vpp' = vpp /\ reg' = reg /\ up' = TRUE /\ committed' = committed /\ scarred' = scarred /\ displaced' = displaced
  BY DEF SwitchingInv, Progress, RecoverEnd
<1>2. /\ job.new \in Cfg
      /\ job = [phase |-> job.phase, new |-> job.new, todo |-> job.todo, done |-> job.done]
  BY <1>1, JobParts
<1>3. /\ job'.phase = "idle" /\ job'.todo = {}
      /\ job' = [phase |-> "idle", new |-> job.new, todo |-> {}, done |-> << >>]
  BY <1>1, <1>2
<1>4. job' \in JobType
  <2>1. {} \subseteq Op /\ << >> \in Seq(Op) /\ "idle" \in {"idle", "run", "undo", "recover"}
    OBVIOUS
  <2> QED BY <1>2, <1>3, <2>1, Jobs
<1>5. Progress'
  BY <1>1, <1>3, <1>4 DEF Progress
<1>6. Stage' = "settled" /\ Target' = committed /\ Todo' = {} /\ Known' = reg
  BY <1>1, <1>3 DEF Stage, Target, Todo, Known
<1>7. ASSUME ~scarred' PROVE Sound(vpp, reg, "settled", committed, {}, displaced)
  <2>1. Stage = "recover" /\ Target = committed /\ Todo = {} /\ Known = reg
    BY <1>1 DEF Stage, Target, Todo, Known
  <2>2. Sound(vpp, reg, "recover", committed, {}, displaced)
    BY <1>1, <1>7, <2>1 DEF SwitchingInv
  <2> QED BY <1>1, <2>2, EndSound
<1> QED BY <1>1, <1>5, <1>6, <1>7 DEF SwitchingInv

\* The invariant holds: while no operation has failed and no commit was cut short, names are
\* unique, the registries of the providers agree with VPP, and what no pending operation is
\* about is as the configuration declares it.
THEOREM InductiveInvariant == Spec => []SwitchingInv
<1>1. Init => SwitchingInv
  BY InitInv
<1>2. SwitchingInv /\ [Next]_vars => SwitchingInv'
  <2> SUFFICES ASSUME SwitchingInv, [Next]_vars PROVE SwitchingInv'
    OBVIOUS
  <2>1. CASE \E n \in Cfg : Begin(n)
    BY <2>1, BeginKeeps
  <2>2. CASE RunOp
    BY <2>2, RunOpKeeps
  <2>3. CASE UndoOp
    BY <2>3, UndoOpKeeps
  <2>4. CASE End
    BY <2>4, EndKeeps
  <2>5. CASE VppRestart
    BY <2>5, VppRestartKeeps
  <2>6. CASE DaemonRestart
    BY <2>6, DaemonRestartKeeps
  <2>7. CASE Recover
    BY <2>7, RecoverKeeps
  <2>8. CASE RecoverOp
    BY <2>8, RecoverOpKeeps
  <2>9. CASE RecoverEnd
    BY <2>9, RecoverEndKeeps
  <2>10. CASE UNCHANGED vars
    BY <2>10 DEF vars, SwitchingInv, Progress, Stage, Target, Todo, Known
  <2> QED BY <2>1, <2>2, <2>3, <2>4, <2>5, <2>6, <2>7, <2>8, <2>9, <2>10 DEF Next
<1> QED BY <1>1, <1>2, PTL DEF Spec

-----------------------------------------------------------------------------
(* What the runs check *)

\* In a quiet state the whole configuration is in force.
LEMMA InForce ==
  ASSUME SwitchingInv, Smooth
  PROVE  committed \in Cfg /\ Sound(vpp, reg, "settled", committed, {}, displaced)
<1>1. Stage = "settled" /\ Target = committed /\ Todo = {} /\ Known = reg
  BY DEF Smooth, Settled, SwitchingInv, Progress, Stage, Target, Todo, Known
<1> QED BY <1>1 DEF Smooth, SwitchingInv, Progress

\* The bridge domains hold the members of the declared switches and nothing else (l2.go,
\* ApplyBridgeDomain and DeleteBridgeDomain), whatever commits, restarts and recoveries came
\* before, as long as nothing failed.
THEOREM SwitchesAreBridged == Spec => []Bridged
<1>1. SwitchingInv => Bridged
  <2> SUFFICES ASSUME SwitchingInv, Smooth
               PROVE  /\ \A s \in committed.switches :
                           /\ InBridge(s) \subseteq Members(committed, s) \cup {<<s, 0>>}
                           /\ \A n \in Members(committed, s) : n \in InBridge(s) \/ n[1] \in displaced
                           /\ s \in committed.gw => <<s, 0>> \in InBridge(s)
                      /\ \A s \in Switch \ committed.switches : InBridge(s) = {} /\ s \notin vpp.bds
    BY DEF Bridged
  <2>1. committed \in Cfg /\ Named(vpp) /\ Bridges(vpp, "settled", committed, {}, displaced)
    BY InForce, SoundTypes
  <2>2. \A k, x : ~Waits({}, k, x)
    BY DEF Waits
  <2>3. ASSUME NEW s \in committed.switches
        PROVE  /\ InBridge(s) \subseteq Members(committed, s) \cup {<<s, 0>>}
               /\ \A n \in Members(committed, s) : n \in InBridge(s) \/ n[1] \in displaced
               /\ s \in committed.gw => <<s, 0>> \in InBridge(s)
    <3>1. InBridge(s) \subseteq Members(committed, s) \cup {<<s, 0>>}
      BY <2>1 DEF Bridges, InBridge
    <3>2. \A n \in Members(committed, s) : n \in InBridge(s) \/ n[1] \in displaced
      BY <2>1, <2>2 DEF Bridges, InBridge
    <3>3. ASSUME s \in committed.gw PROVE <<s, 0>> \in InBridge(s)
      <4>1. PICK i \in Index : vpp.at[i] = <<s, 0>>
        BY <2>1, <2>2, <3>3 DEF Bridges
      <4>2. vpp.in[i] = s
        BY <2>1, <4>1, ConfigTypes, SwitchingAssumption DEF Named
      <4> QED BY <4>1, <4>2 DEF InBridge
    <3> QED BY <3>1, <3>2, <3>3
  <2>4. \A s \in Switch \ committed.switches : InBridge(s) = {} /\ s \notin vpp.bds
    BY <2>1, <2>2 DEF Bridges, InBridge
  <2> QED BY <2>3, <2>4
<1> QED BY <1>1, InductiveInvariant, PTL

\* The ports of a declared switch are filtered by the ACLs they declare, and no ACL that is
\* no longer declared filters anything (acl.go, ApplyACL and DeleteACL; l2.go, bindPortACL).
THEOREM PortsAreFiltered == Spec => []Filtered
<1>1. SwitchingInv => Filtered
  <2> SUFFICES ASSUME SwitchingInv, Smooth
               PROVE  /\ \A s \in committed.switches : \A n \in (committed.ports[s] \ Vnic) \ displaced :
                           committed.guard[n] # None =>
                             \E i \in Index : vpp.at[i] = <<n, 0>> /\ vpp.guard[i] = committed.guard[n]
                      /\ \A i \in Index : vpp.guard[i] \in committed.acls \cup {None}
    BY DEF Filtered
  <2>1. /\ committed \in Cfg /\ Named(vpp) /\ Bridges(vpp, "settled", committed, {}, displaced)
        /\ Filters(vpp, reg, "settled", committed, {}, displaced)
    BY InForce, SoundTypes
  <2>2. \A k, x : ~Waits({}, k, x)
    BY DEF Waits
  <2>3. ASSUME NEW s \in committed.switches, NEW n \in (committed.ports[s] \ Vnic) \ displaced, committed.guard[n] # None
        PROVE  \E i \in Index : vpp.at[i] = <<n, 0>> /\ vpp.guard[i] = committed.guard[n]
    <3>1. PICK x \in Members(committed, s) : x[1] = n
      BY <2>1, MemberNames
    <3>2. x = <<n, x[2]>> /\ n \in Port /\ x[2] \in Vlan
      BY <2>1, <3>1, MemberNames
    <3>3. PICK i \in Index : vpp.at[i] = x
      BY <2>1, <2>2, <3>1 DEF Bridges
    <3>4. PICK j \in Index : vpp.at[j] = <<n, 0>>
      BY <2>1, <3>2, <3>3 DEF Named
    <3>5. vpp.guard[j] = committed.guard[n]
      BY <2>1, <2>2, <2>3, <3>4 DEF Filters
    <3> QED BY <3>4, <3>5
  <2>4. \A i \in Index : vpp.guard[i] \in committed.acls \cup {None}
    BY <2>1, <2>2 DEF Filters
  <2> QED BY <2>3, <2>4
<1> QED BY <1>1, InductiveInvariant, PTL

\* A physical port is policed by what it declares and by nothing else (services.go,
\* ApplyInterface and DeleteQos).
THEOREM PortsArePoliced == Spec => []Policed
<1>1. SwitchingInv => Policed
  <2> SUFFICES ASSUME SwitchingInv, Smooth, NEW p \in Phys
               PROVE  vpp.input[IndexOf(vpp, <<p, 0>>)] = committed.policy[p]
    BY DEF Policed
  <2>1. Named(vpp) /\ Policies(vpp, reg, "settled", committed, {})
    BY InForce, SoundTypes
  <2>2. \A k, x : ~Waits({}, k, x)
    BY DEF Waits
  <2>3. PICK i \in Index : vpp.at[i] = <<p, 0>>
    BY <2>1 DEF Named
  <2>4. IndexOf(vpp, <<p, 0>>) \in Index /\ vpp.at[IndexOf(vpp, <<p, 0>>)] = <<p, 0>>
    BY <2>3, Indexed
  <2> QED BY <2>1, <2>2, <2>4 DEF Policies
<1> QED BY <1>1, InductiveInvariant, PTL

-----------------------------------------------------------------------------
(* Recoveries, after whatever went wrong before them *)

\* VPP has more free indices than there are interfaces it has not (TidyRoomy below).
Present(v) == {v.at[i] : i \in Index}
Free(v) == {i \in Index : v.at[i] = None}
RoomIn(v) == Cardinality(IfName \ Present(v)) < Cardinality(Free(v))
Roomy == RoomIn(vpp)

\* The fields of the data plane and of the registries, and the types of those a recovery
\* goes by.
VppShape(v) ==
  /\ v = [at |-> v.at, bds |-> v.bds, in |-> v.in, slave |-> v.slave, lacp |-> v.lacp, acls |-> v.acls,
          guard |-> v.guard, span |-> v.span, qos |-> v.qos, input |-> v.input, lldp |-> v.lldp]
  /\ v.at \in [Index -> IfName \cup {Stray, None}]
  /\ v.slave \in [Phys -> Index \cup {0}]

RegShape(r) ==
  /\ r = [attached |-> r.attached, subifs |-> r.subifs, bvi |-> r.bvi, bond |-> r.bond, members |-> r.members,
          lacp |-> r.lacp, acls |-> r.acls, bound |-> r.bound, span |-> r.span, policy |-> r.policy,
          lldp |-> r.lldp]
  /\ r.attached \in [Switch -> SUBSET Index] /\ r.subifs \in [Switch -> SUBSET Index]
  /\ r.bvi \in [Switch -> Index \cup {0}] /\ r.bond \in [Bond -> Index \cup {0}]
  /\ DOMAIN r.policy = Phys

\* A member is of a bond that exists, physical ports never go, a sub-interface of a bond has
\* its bond.
Firm(v) ==
  /\ \A p \in Phys : v.slave[p] # 0 => v.at[v.slave[p]] # None
  /\ \A p \in Phys : \E i \in Index : v.at[i] = <<p, 0>>
  /\ \A i \in Index, b \in Bond, w \in Vlan : v.at[i] = <<b, w>> => \E j \in Index : v.at[j] = <<b, 0>>

\* The bonds and BVIs that the registries remember are the ones they were.
Held(v, r) ==
  /\ \A s \in Switch : r.bvi[s] # 0 => v.at[r.bvi[s]] = <<s, 0>>
  /\ \A b \in Bond : r.bond[b] # 0 => v.at[r.bond[b]] = <<b, 0>>

\* What an operation is about.
Typed(op, c) ==
  /\ op.kind \in {"vnic", "del-vnic"} => op.obj \in Vnic
  /\ op.kind \in {"bond", "del-bond"} => op.obj \in Bond
  /\ op.kind = "bd" => op.obj \in c.switches
  /\ op.kind = "del-bd" => op.obj \in Switch
  /\ op.kind = "iface" => op.obj \in Phys
  /\ op.kind \in {"span", "del-span"} => op.obj \in Span

\* A nameless interface is not of any other kind.
LEMMA Strays ==
  /\ Stray # None /\ Stray \notin IfName /\ Stray = <<None, 0>> /\ None \notin IfName
  /\ \A n \in Port \cup Switch : \A w : <<n, w>> # Stray
  /\ \A n \in Port \cup Switch, w \in Vlan : <<n, w>> \in IfName /\ <<n, w>> # None
<1>1. Stray # None /\ None \notin IfName
  BY KindsAssumption
<1>2. Stray = <<None, 0>>
  BY DEF Stray
<1>3. \A n \in Port \cup Switch : \A w : <<n, w>> # Stray
  BY <1>2, Kinds
<1>4. \A n \in Port \cup Switch, w \in Vlan : <<n, w>> \in IfName /\ <<n, w>> # None
  BY <1>1 DEF IfName
<1>5. Stray \notin IfName
  BY <1>3 DEF IfName
<1> QED BY <1>1, <1>2, <1>3, <1>4, <1>5

\* Names are pairs, the missing one of a stray included.
LEMMA AnyPair ==
  ASSUME NEW v, VppShape(v), NEW i \in Index, v.at[i] # None
  PROVE  v.at[i] = <<v.at[i][1], v.at[i][2]>> /\ v.at[i][1] \in Port \cup Switch \cup {None}
<1>1. v.at[i] \in IfName \cup {Stray}
  BY DEF VppShape
<1> QED BY <1>1 DEF IfName, Stray

\* However new interfaces that VPP has not yet are placed, there is an index left.
LEMMA Spare ==
  ASSUME NEW v, VppShape(v), RoomIn(v), NEW names \in SUBSET IfName, \A i \in Index : v.at[i] \notin names
  PROVE  /\ \E g \in [names -> Free(v)] : \A n, m \in names : g[n] = g[m] => n = m
         /\ \A g \in [names -> Free(v)] :
              (\A n, m \in names : g[n] = g[m] => n = m) => \E i \in Free(v) : \A n \in names : g[n] # i
<1> DEFINE A == Present(v)
           free == Free(v)
           N == Cardinality(names)
           M == Cardinality(free)
<1>1. /\ IsFiniteSet(Index) /\ IsFiniteSet(IfName)
  BY IndexAssumption
<1>2. IsFiniteSet(free) /\ M \in Nat
  <2>1. free \subseteq Index
    BY DEF Free
  <2> QED BY <1>1, <2>1, FS_Subset, FS_CardinalityType
<1>3. IsFiniteSet(IfName \ A) /\ Cardinality(IfName \ A) \in Nat
  <2>1. IfName \ A \subseteq IfName
    OBVIOUS
  <2> QED BY <1>1, <2>1, FS_Subset, FS_CardinalityType
<1>4. IsFiniteSet(names) /\ N \in Nat /\ N < M
  <2>1. names \in SUBSET (IfName \ A)
    BY DEF Present
  <2> HIDE DEF A, free
  <2>2. IsFiniteSet(names) /\ N <= Cardinality(IfName \ A)
    BY <1>3, <2>1, FS_Subset
  <2>3. N \in Nat
    BY <2>2, FS_CardinalityType
  <2>4. Cardinality(IfName \ A) < M
    BY DEF RoomIn, A, free
  <2> QED BY <1>2, <1>3, <2>2, <2>3, <2>4
<1> HIDE DEF A, free
<1>5. \E g \in [names -> free] : \A n, m \in names : g[n] = g[m] => n = m
  <2>1. PICK h \in Bijection(1..N, names) : TRUE
    BY <1>4, FS_CardinalityType DEF ExistsBijection
  <2>2. PICK k \in Bijection(1..M, free) : TRUE
    BY <1>2, FS_CardinalityType DEF ExistsBijection
  <2> DEFINE rank(n) == CHOOSE j \in 1..N : h[j] = n
  <2>3. \A n \in names : rank(n) \in 1..N /\ h[rank(n)] = n
    <3>1. \A n \in names : \E j \in 1..N : h[j] = n
      BY <2>1 DEF Bijection, Surjection
    <3> QED BY <3>1
  <2>4. (\A j \in 1..N : k[j] \in free) /\ \A i, j \in 1..N : k[i] = k[j] => i = j
    <3>1. k \in [1..M -> free] /\ \A i, j \in 1..M : k[i] = k[j] => i = j
      BY <2>2 DEF Bijection, Injection, IsInjective
    <3>2. \A j \in 1..N : j \in 1..M
      BY <1>2, <1>4
    <3> QED BY <3>1, <3>2
  <2> HIDE DEF rank, N, M
  <2> DEFINE g == [n \in names |-> k[rank(n)]]
  <2>5. g \in [names -> free]
    BY <2>3, <2>4
  <2>6. \A n, m \in names : g[n] = g[m] => n = m
    BY <2>3, <2>4
  <2> QED BY <2>5, <2>6
<1>6. ASSUME NEW g \in [names -> free], \A n, m \in names : g[n] = g[m] => n = m
      PROVE  \E i \in free : \A n \in names : g[n] # i
  <2> SUFFICES ASSUME \A i \in free : \E n \in names : g[n] = i PROVE FALSE
    OBVIOUS
  <2>1. g \in Bijection(names, free)
    BY <1>6, Fun_IsBij
  <2>2. N = M
    BY <1>4, <2>1, FS_Bijection DEF ExistsBijection
  <2> QED BY <1>2, <1>4, <2>2
<1> QED BY <1>5, <1>6 DEF free

\* A place for one interface.
LEMMA SpareOne ==
  ASSUME NEW v, NEW n, \E i \in Index : v.at[i] = None
  PROVE  \E g \in [{n} -> Free(v)] : \A x, y \in {n} : g[x] = g[y] => x = y
<1>1. PICK i \in Index : v.at[i] = None
  OBVIOUS
<1>2. [x \in {n} |-> i] \in [{n} -> Free(v)]
  BY <1>1 DEF Free
<1> QED BY <1>2

\* No two of the new interfaces have one name.
Once(v, w) == \A i, j \in Index : v.at[i] = None /\ v.at[j] = None /\ w.at[i] # None /\ w.at[j] = w.at[i] => i = j

\* What new interfaces change: the names of indices that were free.
LEMMA CreatedAny ==
  ASSUME NEW v, VppShape(v), NEW names \in SUBSET (IfName \cup {Stray}),
         \E g \in [names -> Free(v)] : \A n, m \in names : g[n] = g[m] => n = m
  PROVE  LET w == Create(v, names) IN
         /\ VppShape(w)
         /\ \A i \in Index : v.at[i] # None => w.at[i] = v.at[i]
         /\ \A i \in Index : v.at[i] = None => w.at[i] \in names \cup {None}
         /\ \A n \in names : \E i \in Index : v.at[i] = None /\ w.at[i] = n
         /\ Once(v, w)
         /\ w.in = v.in /\ w.slave = v.slave /\ w.input = v.input
         /\ (\A g \in [names -> Free(v)] :
               (\A n, m \in names : g[n] = g[m] => n = m) => \E i \in Free(v) : \A n \in names : g[n] # i)
            => \E i \in Index : w.at[i] = None
<1> DEFINE free == {i \in Index : v.at[i] = None}
           f == CHOOSE g \in [names -> free] : \A n, m \in names : g[n] = g[m] => n = m
           at == [i \in Index |-> IF \E n \in names : f[n] = i
                                  THEN CHOOSE n \in names : f[n] = i ELSE v.at[i]]
<1>1. f \in [names -> free] /\ \A n, m \in names : f[n] = f[m] => n = m
  BY DEF Free
<1>2. Create(v, names) = [v EXCEPT !.at = at]
  BY DEF Create, VppShape
<1>3. v.at \in [Index -> IfName \cup {Stray, None}]
  BY DEF VppShape
<1> HIDE DEF f
<1>4. \A i \in Index : v.at[i] # None => at[i] = v.at[i]
  BY <1>1
<1>5. \A n \in names : f[n] \in Index /\ v.at[f[n]] = None /\ at[f[n]] = n
  <2> SUFFICES ASSUME NEW n \in names PROVE f[n] \in Index /\ v.at[f[n]] = None /\ at[f[n]] = n
    OBVIOUS
  <2>1. f[n] \in Index /\ v.at[f[n]] = None
    BY <1>1
  <2>2. (CHOOSE m \in names : f[m] = f[n]) = n
    BY <1>1
  <2> QED BY <2>1, <2>2
<1>6. \A i \in Index : v.at[i] = None => \/ at[i] = None /\ \A n \in names : f[n] # i
                                         \/ at[i] \in names /\ f[at[i]] = i
  BY <1>3
<1>7. at \in [Index -> IfName \cup {Stray, None}]
  BY <1>3, <1>4, <1>6
<1>8. ASSUME \E i \in free : \A n \in names : f[n] # i PROVE \E i \in Index : at[i] = None
  BY <1>8
<1> HIDE DEF at
<1> DEFINE w == Create(v, names)
<1>9. w.at = at /\ VppShape(w) /\ w.in = v.in /\ w.slave = v.slave /\ w.input = v.input
  <2> HIDE DEF w
  <2>1. w = [v EXCEPT !.at = at]
    BY <1>2 DEF w
  <2> QED BY <2>1, <1>7 DEF VppShape
<1>10. \A n \in names : \E i \in Index : v.at[i] = None /\ at[i] = n
  BY <1>5
<1>12. \A i, j \in Index : v.at[i] = None /\ v.at[j] = None /\ at[i] # None /\ at[j] = at[i] => i = j
  BY <1>6
<1>11. free = Free(v)
  BY DEF Free
<1> HIDE DEF free
<1> QED BY <1>1, <1>4, <1>6, <1>8, <1>9, <1>10, <1>11, <1>12 DEF Once

\* What goes with the interfaces I.
LEMMA RemovedAny ==
  ASSUME NEW v, VppShape(v), NEW I
  PROVE  LET w == Remove(v, I) IN
         /\ VppShape(w)
         /\ \A i \in Gone(v, I) : w.at[i] = None
         /\ \A i \in Index \ Gone(v, I) : w.at[i] = v.at[i] /\ w.in[i] = v.in[i] /\ w.input[i] = v.input[i]
         /\ \A p \in Phys : w.slave[p] = IF v.slave[p] \in Gone(v, I) THEN 0 ELSE v.slave[p]
<1> DEFINE w == Remove(v, I)
           G == Gone(v, I)
<1>1. w = [v EXCEPT !.at    = [i \in Index |-> IF i \in G THEN None ELSE @[i]],
                    !.in    = [i \in Index |-> IF i \in G THEN None ELSE @[i]],
                    !.guard = [i \in Index |-> IF i \in G THEN None ELSE @[i]],
                    !.input = [i \in Index |-> IF i \in G THEN None ELSE @[i]],
                    !.slave = [p \in Phys |-> IF @[p] \in G THEN 0 ELSE @[p]],
                    !.lacp = @ \ G, !.span = {x \in @ : G \cap {x[1], x[2]} = {}}]
  BY DEF Remove, Gone
<1>2. G \subseteq Index
  BY DEF Gone
<1> HIDE DEF G, w
<1>3. w.at = [i \in Index |-> IF i \in G THEN None ELSE v.at[i]]
      /\ w.in = [i \in Index |-> IF i \in G THEN None ELSE v.in[i]]
      /\ w.input = [i \in Index |-> IF i \in G THEN None ELSE v.input[i]]
      /\ w.slave = [p \in Phys |-> IF v.slave[p] \in G THEN 0 ELSE v.slave[p]]
  BY <1>1 DEF VppShape
<1>4. w = [at |-> w.at, bds |-> w.bds, in |-> w.in, slave |-> w.slave, lacp |-> w.lacp, acls |-> w.acls,
          guard |-> w.guard, span |-> w.span, qos |-> w.qos, input |-> w.input, lldp |-> w.lldp]
  BY <1>1 DEF VppShape
<1>5. w.at \in [Index -> IfName \cup {Stray, None}] /\ w.slave \in [Phys -> Index \cup {0}]
  BY <1>3 DEF VppShape
<1> QED BY <1>2, <1>3, <1>4, <1>5 DEF G, w, VppShape

\* What the calls to VPP leave alone, and what they set.
Same(v, w) == VppShape(w) /\ w.at = v.at /\ w.slave = v.slave /\ w.in = v.in /\ w.input = v.input
InSet(v, w, x) == VppShape(w) /\ w.at = v.at /\ w.slave = v.slave /\ w.in = x /\ w.input = v.input
InputSet(v, w, x) == VppShape(w) /\ w.at = v.at /\ w.slave = v.slave /\ w.in = v.in /\ w.input = x
SlaveSet(v, w, x) == VppShape(w) /\ w.at = v.at /\ w.slave = x /\ w.in = v.in /\ w.input = v.input

\* Writing one of the fields a recovery does not go by leaves the rest alone, and writing one
\* it goes by changes that one only.
LEMMA Others ==
  ASSUME NEW v, VppShape(v), NEW x
  PROVE  /\ Same(v, [v EXCEPT !.bds = x]) /\ Same(v, [v EXCEPT !.lacp = x]) /\ Same(v, [v EXCEPT !.acls = x])
         /\ Same(v, [v EXCEPT !.guard = x]) /\ Same(v, [v EXCEPT !.span = x]) /\ Same(v, [v EXCEPT !.qos = x])
         /\ Same(v, [v EXCEPT !.lldp = x])
         /\ InSet(v, [v EXCEPT !.in = x], x) /\ InputSet(v, [v EXCEPT !.input = x], x)
         /\ x \in [Phys -> Index \cup {0}] => SlaveSet(v, [v EXCEPT !.slave = x], x)
<1>1. Same(v, [v EXCEPT !.bds = x])
  BY DEF VppShape, Same
<1>2. Same(v, [v EXCEPT !.lacp = x])
  BY DEF VppShape, Same
<1>3. Same(v, [v EXCEPT !.acls = x])
  BY DEF VppShape, Same
<1>4. Same(v, [v EXCEPT !.guard = x])
  BY DEF VppShape, Same
<1>5. Same(v, [v EXCEPT !.span = x])
  BY DEF VppShape, Same
<1>6. Same(v, [v EXCEPT !.qos = x])
  BY DEF VppShape, Same
<1>7. Same(v, [v EXCEPT !.lldp = x])
  BY DEF VppShape, Same
<1>8. InSet(v, [v EXCEPT !.in = x], x)
  BY DEF VppShape, InSet
<1>9. InputSet(v, [v EXCEPT !.input = x], x)
  BY DEF VppShape, InputSet
<1>10. x \in [Phys -> Index \cup {0}] => SlaveSet(v, [v EXCEPT !.slave = x], x)
  BY DEF VppShape, SlaveSet
<1> QED BY <1>1, <1>2, <1>3, <1>4, <1>5, <1>6, <1>7, <1>8, <1>9, <1>10

-----------------------------------------------------------------------------

\* The data plane and the registries, whatever operations failed.
Solid(v, r) == VppShape(v) /\ RegShape(r) /\ Firm(v) /\ Held(v, r)

\* Names, members and the registries of bonds and BVIs are as they were.
LEMMA Steady ==
  ASSUME NEW v, NEW r, Solid(v, r), NEW w, VppShape(w), w.at = v.at, w.slave = v.slave,
         NEW q, RegShape(q), q.bvi = r.bvi, q.bond = r.bond
  PROVE  Solid(w, q)
  BY DEF Solid, Firm, Held

\* New interfaces do no harm: none is a sub-interface of a bond that is not there.
LEMMA Extended ==
  ASSUME NEW v, NEW r, Solid(v, r), NEW w, VppShape(w), w.slave = v.slave,
         \A i \in Index : v.at[i] # None => w.at[i] = v.at[i],
         \A i \in Index, b \in Bond, x \in Vlan :
           v.at[i] = None /\ w.at[i] = <<b, x>> => \E j \in Index : w.at[j] = <<b, 0>>
  PROVE  Solid(w, r)
<1>1. VppShape(v) /\ RegShape(r) /\ Firm(v) /\ Held(v, r)
  BY DEF Solid
<1>2. /\ \A p \in Phys : <<p, 0>> # None
      /\ \A b \in Bond : <<b, 0>> # None
      /\ \A s \in Switch : <<s, 0>> # None
  BY Strays, SwitchingAssumption DEF Port
<1>3. \A p \in Phys : w.slave[p] # 0 => w.at[w.slave[p]] # None
  BY <1>1 DEF Firm, VppShape
<1>4. \A p \in Phys : \E i \in Index : w.at[i] = <<p, 0>>
  BY <1>1, <1>2 DEF Firm
<1>5. ASSUME NEW i \in Index, NEW b \in Bond, NEW x \in Vlan, w.at[i] = <<b, x>>
      PROVE  \E j \in Index : w.at[j] = <<b, 0>>
  <2>1. CASE v.at[i] = None
    BY <1>5, <2>1
  <2>2. CASE v.at[i] # None
    <3>1. PICK j \in Index : v.at[j] = <<b, 0>>
      BY <1>1, <1>5, <2>2 DEF Firm
    <3> QED BY <1>2, <3>1
  <2> QED BY <2>1, <2>2
<1>6. Held(w, r)
  <2>1. ASSUME NEW s \in Switch, r.bvi[s] # 0 PROVE w.at[r.bvi[s]] = <<s, 0>>
    <3>1. r.bvi[s] \in Index /\ v.at[r.bvi[s]] = <<s, 0>>
      BY <1>1, <2>1 DEF RegShape, Held
    <3> QED BY <1>2, <3>1
  <2>2. ASSUME NEW b \in Bond, r.bond[b] # 0 PROVE w.at[r.bond[b]] = <<b, 0>>
    <3>1. r.bond[b] \in Index /\ v.at[r.bond[b]] = <<b, 0>>
      BY <1>1, <2>2 DEF RegShape, Held
    <3> QED BY <1>2, <3>1
  <2> QED BY <2>1, <2>2 DEF Held
<1> QED BY <1>1, <1>3, <1>4, <1>5, <1>6 DEF Solid, Firm

\* Interfaces that are no physical ports may go, when the registries know them no more.
Leaves(v, I) == I \subseteq Index /\ \A i \in I : \A p \in Phys : v.at[i] # <<p, 0>>
Forgets(v, r, q, I) ==
  /\ RegShape(q)
  /\ \A s \in Switch : q.bvi[s] # 0 => q.bvi[s] = r.bvi[s] /\ \A i \in I : v.at[i] # <<s, 0>>
  /\ \A b \in Bond : q.bond[b] # 0 => q.bond[b] = r.bond[b] /\ \A i \in I : v.at[i] # <<b, 0>>

\* Removing interfaces whose bonds and whose VLAN 0 gateways the registries forget keeps a
\* state solid.
LEMMA Reduced ==
  ASSUME NEW v, NEW r, Solid(v, r), NEW I, Leaves(v, I), NEW q, Forgets(v, r, q, I)
  PROVE  Solid(Remove(v, I), q)
<1>0. /\ I \subseteq Index /\ \A i \in I : \A p \in Phys : v.at[i] # <<p, 0>>
      /\ RegShape(q)
      /\ \A s \in Switch : q.bvi[s] # 0 => q.bvi[s] = r.bvi[s] /\ \A i \in I : v.at[i] # <<s, 0>>
      /\ \A b \in Bond : q.bond[b] # 0 => q.bond[b] = r.bond[b] /\ \A i \in I : v.at[i] # <<b, 0>>
  BY DEF Leaves, Forgets
<1> USE <1>0
<1> DEFINE w == Remove(v, I)
           G == Gone(v, I)
<1>1. VppShape(v) /\ RegShape(r) /\ Firm(v) /\ Held(v, r)
  BY DEF Solid
<1>2. /\ VppShape(w)
      /\ \A i \in G : w.at[i] = None
      /\ \A i \in Index \ G : w.at[i] = v.at[i]
      /\ \A p \in Phys : w.slave[p] = IF v.slave[p] \in G THEN 0 ELSE v.slave[p]
  BY <1>1, RemovedAny
<1>3. /\ \A p \in Phys : <<p, 0>> # None
      /\ \A b \in Bond, x \in Vlan : <<b, x>> # None
      /\ \A s \in Switch : <<s, 0>> # None
      /\ 0 \in Vlan
  BY Strays, SwitchingAssumption DEF Port
\* An interface stays unless it or the one it is a sub-interface of goes.
<1>4. ASSUME NEW i \in Index, NEW n, NEW x, v.at[i] = <<n, x>>, v.at[i] # None,
             i \in G
      PROVE  i \in I \/ \E j \in I : v.at[j] = <<n, 0>>
  <2>1. SUFFICES ASSUME NEW j \in I, v.at[j] # None, v.at[j][2] = 0, v.at[i][1] = v.at[j][1]
                 PROVE  v.at[j] = <<n, 0>>
    BY <1>4 DEF Gone
  <2>2. j \in Index
    OBVIOUS
  <2> QED BY <1>1, <1>4, <2>1, <2>2, AnyPair
<1>5. ASSUME NEW i \in Index, NEW n, v.at[i] = <<n, 0>>, v.at[i] # None, \A j \in I : v.at[j] # <<n, 0>>
      PROVE  w.at[i] = <<n, 0>>
  <2>1. i \notin G
    BY <1>4, <1>5
  <2> QED BY <1>2, <1>5, <2>1
<1> HIDE DEF w
<1>6. \A p \in Phys : w.slave[p] # 0 => w.at[w.slave[p]] # None
  <2> SUFFICES ASSUME NEW p \in Phys, w.slave[p] # 0 PROVE w.at[w.slave[p]] # None
    OBVIOUS
  <2>1. v.slave[p] \notin G /\ w.slave[p] = v.slave[p] /\ v.slave[p] # 0
    BY <1>2
  <2>2. v.slave[p] \in Index /\ v.at[v.slave[p]] # None
    BY <1>1, <2>1 DEF VppShape, Firm
  <2> HIDE DEF G
  <2> QED BY <1>2, <2>1, <2>2
<1>7. \A p \in Phys : \E i \in Index : w.at[i] = <<p, 0>>
  <2> SUFFICES ASSUME NEW p \in Phys PROVE \E i \in Index : w.at[i] = <<p, 0>>
    OBVIOUS
  <2>1. PICK i \in Index : v.at[i] = <<p, 0>>
    BY <1>1 DEF Firm
  <2> QED BY <1>3, <1>5, <2>1
<1>8. ASSUME NEW i \in Index, NEW b \in Bond, NEW x \in Vlan, w.at[i] = <<b, x>>
      PROVE  \E j \in Index : w.at[j] = <<b, 0>>
  <2>0. w.at[i] # None
    BY <1>3, <1>8
  <2>1. i \notin G /\ v.at[i] = <<b, x>> /\ v.at[i] # None
    <3> HIDE DEF G
    <3>1. i \notin G
      BY <1>2, <2>0
    <3> QED BY <1>2, <1>8, <2>0, <3>1
  <2>2. PICK j \in Index : v.at[j] = <<b, 0>>
    BY <1>1, <2>1 DEF Firm
  <2>3. v.at[j] # None
    BY <1>3, <2>2
  <2>4. \A k \in I : v.at[k] # <<b, 0>>
    <3> SUFFICES ASSUME NEW k \in I, v.at[k] = <<b, 0>> PROVE FALSE
      OBVIOUS
    <3>1. v.at[k] # None /\ v.at[k][2] = 0 /\ v.at[i][1] = v.at[k][1]
      BY <1>3, <2>1
    <3> QED BY <2>1, <3>1 DEF Gone
  <2> QED BY <1>5, <2>2, <2>3, <2>4
<1>9. Held(w, q)
  <2>1. ASSUME NEW s \in Switch, q.bvi[s] # 0 PROVE w.at[q.bvi[s]] = <<s, 0>>
    <3>1. q.bvi[s] = r.bvi[s] /\ \A i \in I : v.at[i] # <<s, 0>>
      BY <2>1
    <3>2. q.bvi[s] \in Index /\ v.at[q.bvi[s]] = <<s, 0>>
      BY <1>1, <2>1, <3>1, ZenonT(60) DEF RegShape, Held
    <3> QED BY <1>3, <1>5, <3>1, <3>2
  <2>2. ASSUME NEW b \in Bond, q.bond[b] # 0 PROVE w.at[q.bond[b]] = <<b, 0>>
    <3>1. q.bond[b] = r.bond[b] /\ \A i \in I : v.at[i] # <<b, 0>>
      BY <2>2
    <3>2. q.bond[b] \in Index /\ v.at[q.bond[b]] = <<b, 0>>
      BY <1>1, <2>2, <3>1 DEF RegShape, Held
    <3> QED BY <1>3, <1>5, <3>1, <3>2
  <2> QED BY <2>1, <2>2 DEF Held
<1> QED BY <1>2, <1>6, <1>7, <1>8, <1>9 DEF Solid, Firm, w

\* Names, members and bridge domains stay, and what the registries know of them.
Calm(v, r, o) ==
  /\ VppShape(o.vpp) /\ o.vpp.at = v.at /\ o.vpp.slave = v.slave /\ o.vpp.in = v.in
  /\ RegShape(o.reg) /\ o.reg.bvi = r.bvi /\ o.reg.bond = r.bond /\ o.reg.attached = r.attached

\* And so do the policers of the ports.
Still(v, r, o) == Calm(v, r, o) /\ o.vpp.input = v.input /\ o.reg.policy = r.policy

\* The three results a service call ends with.
LEMMA Results ==
  ASSUME NEW v, NEW r
  PROVE  /\ Ok(v, r).ok /\ Ok(v, r).vpp = v /\ Ok(v, r).reg = r
         /\ ~Refuse(v, r).ok /\ Refuse(v, r).vpp = v /\ Refuse(v, r).reg = r
         /\ ~Broken(v, r).ok /\ Broken(v, r).vpp = v /\ Broken(v, r).reg = r
         /\ ~Ok(v, r).fault /\ ~Refuse(v, r).fault /\ Broken(v, r).fault
  BY DEF Ok, Refuse, Broken

\* What becomes of the registries.
SameReg(r, q) ==
  RegShape(q) /\ q.attached = r.attached /\ q.subifs = r.subifs /\ q.bvi = r.bvi /\ q.bond = r.bond /\ q.policy = r.policy
PolicyReg(r, q, x) == RegShape(q) /\ q.attached = r.attached /\ q.bvi = r.bvi /\ q.bond = r.bond /\ q.policy = x
AttachedReg(r, q, x) ==
  RegShape(q) /\ q.attached = x /\ q.subifs = r.subifs /\ q.bvi = r.bvi /\ q.bond = r.bond /\ q.policy = r.policy
SubifsReg(r, q, x) ==
  RegShape(q) /\ q.attached = r.attached /\ q.subifs = x /\ q.bvi = r.bvi /\ q.bond = r.bond /\ q.policy = r.policy
BviReg(r, q, x) ==
  RegShape(q) /\ q.attached = r.attached /\ q.subifs = r.subifs /\ q.bvi = x /\ q.bond = r.bond /\ q.policy = r.policy
BondReg(r, q, x) ==
  RegShape(q) /\ q.attached = r.attached /\ q.subifs = r.subifs /\ q.bvi = r.bvi /\ q.bond = x /\ q.policy = r.policy

\* Writing one registry leaves the other registries alone.
LEMMA OtherRegs ==
  ASSUME NEW r, RegShape(r), NEW x
  PROVE  /\ SameReg(r, r)
         /\ SameReg(r, [r EXCEPT !.members = x]) /\ SameReg(r, [r EXCEPT !.lacp = x]) /\ SameReg(r, [r EXCEPT !.acls = x])
         /\ SameReg(r, [r EXCEPT !.bound = x]) /\ SameReg(r, [r EXCEPT !.span = x]) /\ SameReg(r, [r EXCEPT !.lldp = x])
         /\ DOMAIN x = Phys => PolicyReg(r, [r EXCEPT !.policy = x], x)
         /\ x \in [Switch -> SUBSET Index] =>
              AttachedReg(r, [r EXCEPT !.attached = x], x) /\ SubifsReg(r, [r EXCEPT !.subifs = x], x)
         /\ x \in [Switch -> Index \cup {0}] => BviReg(r, [r EXCEPT !.bvi = x], x)
         /\ x \in [Bond -> Index \cup {0}] => BondReg(r, [r EXCEPT !.bond = x], x)
<1>1. SameReg(r, [r EXCEPT !.members = x])
  BY DEF RegShape, SameReg
<1>2. SameReg(r, [r EXCEPT !.lacp = x])
  BY DEF RegShape, SameReg
<1>3. SameReg(r, [r EXCEPT !.acls = x])
  BY DEF RegShape, SameReg
<1>4. SameReg(r, [r EXCEPT !.bound = x])
  BY DEF RegShape, SameReg
<1>5. SameReg(r, [r EXCEPT !.span = x])
  BY DEF RegShape, SameReg
<1>6. SameReg(r, [r EXCEPT !.lldp = x])
  BY DEF RegShape, SameReg
<1>7. DOMAIN x = Phys => PolicyReg(r, [r EXCEPT !.policy = x], x)
  BY DEF RegShape, PolicyReg
<1>8. x \in [Switch -> SUBSET Index] => AttachedReg(r, [r EXCEPT !.attached = x], x)
  BY DEF RegShape, AttachedReg
<1>9. x \in [Switch -> SUBSET Index] => SubifsReg(r, [r EXCEPT !.subifs = x], x)
  BY DEF RegShape, SubifsReg
<1>10. x \in [Switch -> Index \cup {0}] => BviReg(r, [r EXCEPT !.bvi = x], x)
  BY DEF RegShape, BviReg
<1>11. x \in [Bond -> Index \cup {0}] => BondReg(r, [r EXCEPT !.bond = x], x)
  BY DEF RegShape, BondReg
<1>12. SameReg(r, r)
  BY DEF SameReg
<1> QED BY <1>1, <1>2, <1>3, <1>4, <1>5, <1>6, <1>7, <1>8, <1>9, <1>10, <1>11, <1>12

-----------------------------------------------------------------------------

\* The calls that name no interface leave alone what a recovery goes by.
LEMMA Calls ==
  ASSUME NEW v, VppShape(v)
  PROVE  /\ Same(v, v)
         /\ \A s, on : Same(v, BridgeDomainAddDel(v, s, on))
         /\ \A a, on : Same(v, ACLAddDel(v, a, on))
         /\ \A q, on : Same(v, PolicerAddDel(v, q, on))
         /\ \A x, on : Same(v, SpanSet(v, x, on))
         /\ \A f : Same(v, Bind(v, f))
         /\ \A on, off : Same(v, LldpSetInterface(v, on, off))
<1>1. ASSUME NEW s, NEW on PROVE Same(v, BridgeDomainAddDel(v, s, on))
  <2> DEFINE x == IF on THEN v.bds \cup {s} ELSE v.bds \ {s}
  <2>1. BridgeDomainAddDel(v, s, on) = [v EXCEPT !.bds = x]
    BY DEF BridgeDomainAddDel
  <2> HIDE DEF x
  <2>2. Same(v, [v EXCEPT !.bds = x])
    BY Others
  <2> QED BY <2>1, <2>2
<1>2. ASSUME NEW s, NEW on PROVE Same(v, ACLAddDel(v, s, on))
  <2> DEFINE x == IF on THEN v.acls \cup {s} ELSE v.acls \ {s}
  <2>1. ACLAddDel(v, s, on) = [v EXCEPT !.acls = x]
    BY DEF ACLAddDel
  <2> HIDE DEF x
  <2>2. Same(v, [v EXCEPT !.acls = x])
    BY Others
  <2> QED BY <2>1, <2>2
<1>3. ASSUME NEW s, NEW on PROVE Same(v, PolicerAddDel(v, s, on))
  <2> DEFINE x == IF on THEN v.qos \cup {s} ELSE v.qos \ {s}
  <2>1. PolicerAddDel(v, s, on) = [v EXCEPT !.qos = x]
    BY DEF PolicerAddDel
  <2> HIDE DEF x
  <2>2. Same(v, [v EXCEPT !.qos = x])
    BY Others
  <2> QED BY <2>1, <2>2
<1>4. ASSUME NEW s, NEW on PROVE Same(v, SpanSet(v, s, on))
  <2> DEFINE x == IF on THEN v.span \cup {s} ELSE v.span \ {s}
  <2>1. SpanSet(v, s, on) = [v EXCEPT !.span = x]
    BY DEF SpanSet
  <2> HIDE DEF x
  <2>2. Same(v, [v EXCEPT !.span = x])
    BY Others
  <2> QED BY <2>1, <2>2
<1>5. ASSUME NEW s PROVE Same(v, Bind(v, s))
  <2> DEFINE x == [i \in Index |-> IF i \in DOMAIN s THEN s[i] ELSE v.guard[i]]
  <2>1. Bind(v, s) = [v EXCEPT !.guard = x]
    BY DEF Bind
  <2> HIDE DEF x
  <2>2. Same(v, [v EXCEPT !.guard = x])
    BY Others
  <2> QED BY <2>1, <2>2
<1>6. ASSUME NEW s, NEW on PROVE Same(v, LldpSetInterface(v, s, on))
  <2> DEFINE x == (v.lldp \ on) \cup s
  <2>1. LldpSetInterface(v, s, on) = [v EXCEPT !.lldp = x]
    BY DEF LldpSetInterface
  <2> HIDE DEF x
  <2>2. Same(v, [v EXCEPT !.lldp = x])
    BY Others
  <2> QED BY <2>1, <2>2
<1>7. Same(v, v)
  BY DEF Same
<1> QED BY <1>1, <1>2, <1>3, <1>4, <1>5, <1>6, <1>7

\* Attaching interfaces to a bridge domain changes the domain of those interfaces only.
LEMMA Attaching ==
  ASSUME NEW v, VppShape(v), NEW I, NEW s
  PROVE  LET w == Attach(v, I, s) IN
         VppShape(w) /\ w.at = v.at /\ w.slave = v.slave /\ w.input = v.input
         /\ \A i \in Index : w.in[i] = IF i \in I THEN s ELSE v.in[i]
<1> DEFINE w == Attach(v, I, s)
           x == [i \in Index |-> IF i \in I THEN s ELSE v.in[i]]
<1>1. w = [v EXCEPT !.in = x]
  BY DEF Attach
<1>2. VppShape(w) /\ w.at = v.at /\ w.slave = v.slave /\ w.in = x /\ w.input = v.input
  <2> HIDE DEF w, x
  <2> QED BY <1>1, Others DEF InSet, InputSet
<1> HIDE DEF w
<1> QED BY <1>2 DEF w

\* Policing ports changes the policer of the interfaces of those ports only.
LEMMA Policing ==
  ASSUME NEW v, VppShape(v), NEW S, NEW q
  PROVE  LET w == PolicerInput(v, S, q) IN
         VppShape(w) /\ w.at = v.at /\ w.slave = v.slave /\ w.in = v.in
         /\ \A i \in Index : w.input[i] = IF \E p \in S : v.at[i] = <<p, 0>> THEN q ELSE v.input[i]
<1> DEFINE w == PolicerInput(v, S, q)
           x == [i \in Index |-> IF \E p \in S : v.at[i] = <<p, 0>> THEN q ELSE v.input[i]]
<1>1. w = [v EXCEPT !.input = x]
  BY DEF PolicerInput
<1>2. VppShape(w) /\ w.at = v.at /\ w.slave = v.slave /\ w.in = v.in /\ w.input = x
  <2> HIDE DEF w, x
  <2> QED BY <1>1, Others DEF InSet, InputSet
<1> HIDE DEF w
<1> QED BY <1>2 DEF w

\* Adding members to a bond changes the bond of those ports only.
LEMMA Enslaving ==
  ASSUME NEW v, VppShape(v), NEW S, NEW i \in Index \cup {0}
  PROVE  LET w == BondMember(v, S, i) IN
         VppShape(w) /\ w.at = v.at /\ w.in = v.in /\ w.input = v.input
         /\ \A p \in Phys : w.slave[p] = IF p \in S THEN i ELSE v.slave[p]
<1> DEFINE w == BondMember(v, S, i)
           x == [p \in Phys |-> IF p \in S THEN i ELSE v.slave[p]]
<1>1. w = [v EXCEPT !.slave = x]
  BY DEF BondMember
<1>2. x \in [Phys -> Index \cup {0}]
  BY DEF VppShape
<1>3. VppShape(w) /\ w.at = v.at /\ w.slave = x /\ w.in = v.in /\ w.input = v.input
  <2> HIDE DEF w, x
  <2> QED BY <1>1, <1>2, Others DEF SlaveSet
<1> HIDE DEF w
<1> QED BY <1>3 DEF w

\* ACLs: none of their operations touches an interface but for its ACL.
LEMMA AclStill ==
  ASSUME NEW v, VppShape(v), NEW r, RegShape(r), NEW a, NEW o \in ApplyACL(v, r, a) \cup DeleteACL(v, r, a)
  PROVE  Still(v, r, o)
<1> SUFFICES Same(v, o.vpp) /\ SameReg(r, o.reg)
  BY DEF Still, Calm, Same, SameReg
<1>1. SameReg(r, r) /\ Same(v, v)
  BY OtherRegs, Calls
<1>2. CASE o \in ApplyACL(v, r, a)
  <2> DEFINE w == ACLAddDel(v, a, TRUE)
             q == [r EXCEPT !.acls = r.acls \cup {a}]
  <2>1. o = Ok(w, q) \/ o = Broken(v, r)
    BY <1>2 DEF ApplyACL
  <2>2. Same(v, w) /\ SameReg(r, q)
    BY Calls, OtherRegs
  <2> HIDE DEF w, q
  <2> QED BY <1>1, <2>1, <2>2, Results
<1>3. CASE o \in DeleteACL(v, r, a)
  <2> DEFINE I  == {i \in Index : r.bound[i] = a}
             x == [i \in Index |-> IF i \in I THEN None ELSE r.bound[i]]
             r0 == [r EXCEPT !.acls = r.acls \ {a}]
             r1 == [r EXCEPT !.acls = @ \ {a}, !.bound = [i \in Index |-> IF i \in I THEN None ELSE @[i]]]
             unbind(J) == Bind(v, [i \in J |-> None])
             z == ACLAddDel(unbind(I), a, FALSE)
  <2>1. SameReg(r, r1)
    <3>1. SameReg(r, r0) /\ RegShape(r0)
      BY OtherRegs DEF SameReg
    <3>2. r1 = [r0 EXCEPT !.bound = x]
      BY DEF RegShape
    <3> HIDE DEF r1, r0, x
    <3>3. SameReg(r0, [r0 EXCEPT !.bound = x])
      BY <3>1, OtherRegs
    <3> QED BY <3>1, <3>2, <3>3 DEF SameReg
  <2>2. \A J : Same(v, unbind(J))
    BY Calls
  <2>3. \/ o = Ok(v, r1)
        \/ \E J \in SUBSET Index : o = Refuse(unbind(J), r1) \/ o = Broken(unbind(J), r1)
        \/ o = Ok(z, r1)
    <3>1. I \in SUBSET Index /\ {i \in I : v.at[i] # None} \in SUBSET Index
      OBVIOUS
    <3> HIDE DEF unbind, I, r1
    <3> QED BY <1>3, <3>1, Zenon DEF DeleteACL, unbind, I, r1
  <2> HIDE DEF unbind, I, r1
  <2>4. Same(v, z)
    <3>1. Same(v, unbind(I)) /\ VppShape(unbind(I))
      BY <2>2 DEF Same
    <3>2. Same(unbind(I), z)
      BY <3>1, Calls
    <3> HIDE DEF z
    <3> QED BY <3>1, <3>2 DEF Same
  <2> HIDE DEF z
  <2>5. CASE o = Ok(v, r1)
    BY <1>1, <2>1, <2>5, Results
  <2>6. CASE \E J \in SUBSET Index : o = Refuse(unbind(J), r1) \/ o = Broken(unbind(J), r1)
    <3>1. PICK J : o = Refuse(unbind(J), r1) \/ o = Broken(unbind(J), r1)
      BY <2>6
    <3>2. o.vpp = unbind(J) /\ o.reg = r1
      BY <3>1, Results
    <3> QED BY <2>1, <2>2, <3>2
  <2>7. CASE o = Ok(z, r1)
    <3>1. o.vpp = z /\ o.reg = r1
      BY <2>7, Results
    <3> QED BY <2>1, <2>4, <3>1
  <2> QED BY <2>3, <2>5, <2>6, <2>7
<1> QED BY <1>2, <1>3

\* A mirror session, applied or deleted, leaves alone what a recovery goes by.
LEMMA SpanStill ==
  ASSUME NEW v, VppShape(v), NEW r, RegShape(r), NEW c, NEW s, NEW o \in ApplySpan(v, r, c, s) \cup DeleteSpan(v, r, s)
  PROVE  Still(v, r, o)
<1> SUFFICES Same(v, o.vpp) /\ SameReg(r, o.reg)
  BY DEF Still, Calm, Same, SameReg
<1>1. SameReg(r, r) /\ Same(v, v)
  BY OtherRegs, Calls
<1>2. CASE o \in ApplySpan(v, r, c, s)
  <2> DEFINE x == <<IndexOf(v, <<c.spans[s][1], 0>>), IndexOf(v, <<c.spans[s][2], 0>>)>>
             w == SpanSet(v, x, TRUE)
             y == [r.span EXCEPT ![s] = x]
             q == [r EXCEPT !.span[s] = x]
  <2>1. o = Refuse(v, r) \/ o = Ok(w, q) \/ o = Broken(v, r)
    BY <1>2 DEF ApplySpan
  <2>2. q = [r EXCEPT !.span = y]
    OBVIOUS
  <2> HIDE DEF q, y
  <2>3. Same(v, w) /\ SameReg(r, q)
    BY <2>2, Calls, OtherRegs
  <2> HIDE DEF w
  <2> QED BY <1>1, <2>1, <2>3, Results
<1>3. CASE o \in DeleteSpan(v, r, s)
  <2> DEFINE w == SpanSet(v, r.span[s], FALSE)
             y == [r.span EXCEPT ![s] = None]
             q == [r EXCEPT !.span[s] = None]
  <2>1. o = Ok(v, r) \/ o = Ok(w, q) \/ o = Broken(v, q)
    BY <1>3 DEF DeleteSpan
  <2>2. q = [r EXCEPT !.span = y]
    OBVIOUS
  <2> HIDE DEF q, y
  <2>3. Same(v, w) /\ SameReg(r, q)
    BY <2>2, Calls, OtherRegs
  <2> HIDE DEF w
  <2> QED BY <1>1, <2>1, <2>3, Results
<1> QED BY <1>2, <1>3

\* A policer that is applied leaves alone what a recovery goes by.
LEMMA QosStill ==
  ASSUME NEW v, VppShape(v), NEW r, RegShape(r), NEW q, NEW o \in ApplyQos(v, r, q)
  PROVE  Still(v, r, o)
<1> DEFINE w == PolicerAddDel(v, q, TRUE)
<1>1. o = Ok(w, r) \/ o = Broken(v, r)
  BY DEF ApplyQos
<1>2. Same(v, w) /\ Same(v, v) /\ SameReg(r, r)
  BY Calls, OtherRegs
<1> HIDE DEF w
<1>3. Same(v, o.vpp) /\ SameReg(r, o.reg)
  BY <1>1, <1>2, Results
<1> QED BY <1>3 DEF Still, Calm, Same, SameReg

\* The LLDP settings leave alone what a recovery goes by.
LEMMA LldpStill ==
  ASSUME NEW v, VppShape(v), NEW r, RegShape(r), NEW c, NEW o \in ApplyLLDP(v, r, c)
  PROVE  Still(v, r, o)
<1> DEFINE set(A) == LldpSetInterface(v, c.lldp \cap A, r.lldp \cap A)
           q == [r EXCEPT !.lldp = c.lldp]
<1>1. o = Ok(set(Phys), q) \/ \E A \in SUBSET Phys : o = Broken(set(A), r)
  BY DEF ApplyLLDP
<1>2. (\A A : Same(v, set(A))) /\ SameReg(r, q) /\ SameReg(r, r)
  BY Calls, OtherRegs
<1> HIDE DEF set, q
<1>3. Same(v, o.vpp) /\ SameReg(r, o.reg)
  <2>1. CASE o = Ok(set(Phys), q)
    BY <1>2, <2>1, Results
  <2>2. CASE \E A \in SUBSET Phys : o = Broken(set(A), r)
    <3>1. PICK A : o = Broken(set(A), r)
      BY <2>2
    <3>2. o.vpp = set(A) /\ o.reg = r
      BY <3>1, Results
    <3> QED BY <1>2, <3>2
  <2> QED BY <1>1, <2>1, <2>2
<1> QED BY <1>3 DEF Still, Calm, Same, SameReg

\* A policer that is deleted changes nothing but the policers of interfaces.
LEMMA DeleteQosCalm ==
  ASSUME NEW v, VppShape(v), NEW r, RegShape(r), NEW q, NEW o \in DeleteQos(v, r, q)
  PROVE  Calm(v, r, o)
<1> DEFINE S == {p \in Phys : r.policy[p] = q}
           x == [p \in Phys |-> IF p \in S THEN None ELSE r.policy[p]]
           r1 == [r EXCEPT !.policy = x]
           set(T) == PolicerInput(v, T, None)
           w == PolicerAddDel(set(S), q, FALSE)
<1>1. o = Ok(w, r1) \/ \E T \in SUBSET Phys : o = Broken(set(T), r1)
  BY DEF DeleteQos
<1>2. PolicyReg(r, r1, x)
  <2>1. DOMAIN x = Phys
    OBVIOUS
  <2> HIDE DEF x
  <2> QED BY <2>1, OtherRegs
<1>3. \A T : VppShape(set(T)) /\ set(T).at = v.at /\ set(T).slave = v.slave /\ set(T).in = v.in
  BY Policing
<1> HIDE DEF set, r1, S, x
<1>4. VppShape(w) /\ w.at = v.at /\ w.slave = v.slave /\ w.in = v.in
  <2>1. Same(set(S), w)
    BY <1>3, Calls
  <2> QED BY <1>3, <2>1 DEF Same
<1> HIDE DEF w
<1>5. CASE o = Ok(w, r1)
  BY <1>2, <1>4, <1>5, Results DEF Calm, PolicyReg
<1>6. CASE \E T \in SUBSET Phys : o = Broken(set(T), r1)
  <2>1. PICK T : o = Broken(set(T), r1)
    BY <1>6
  <2>2. o.vpp = set(T) /\ o.reg = r1
    BY <2>1, Results
  <2> QED BY <1>2, <1>3, <2>2 DEF Calm, PolicyReg
<1> QED BY <1>1, <1>5, <1>6

\* A port is bound to its policer; a recovery has forgotten all of them.
LEMMA IfaceCalm ==
  ASSUME NEW v, VppShape(v), NEW r, RegShape(r), NEW c, NEW p \in Phys, NEW o \in ApplyInterface(v, r, c, p)
  PROVE  /\ Calm(v, r, o)
         /\ o.ok /\ r.policy[p] = None =>
              /\ \A x \in Phys : x # p => o.reg.policy[x] = r.policy[x]
              /\ \A i \in Index : o.vpp.input[i] = IF v.at[i] = <<p, 0>> /\ c.policy[p] # None
                                                   THEN c.policy[p] ELSE v.input[i]
<1> DEFINE old == r.policy[p]
           new == c.policy[p]
           r1  == [r EXCEPT !.policy[p] = new]
           set(q) == PolicerInput(v, {p}, q)
           v1  == IF old = None THEN v ELSE set(None)
           w == set(new)
<1>1. /\ old = new => o \in {Ok(v, r), Broken(v, r)}
      /\ old # new => o \in {Refuse(v, r1), Refuse(v1, r1), Ok(w, r1), Broken(v, r), Broken(v, r1), Broken(v1, r1)}
  <2> HIDE DEF v1, r1, w, old, new
  <2> QED BY DEF ApplyInterface, v1, r1, w, old, new
<1>2. RegShape(r1) /\ r1.attached = r.attached /\ r1.bvi = r.bvi /\ r1.bond = r.bond
      /\ \A x \in Phys : x # p => r1.policy[x] = r.policy[x]
  BY DEF RegShape
<1>3. \A q : VppShape(set(q)) /\ set(q).at = v.at /\ set(q).slave = v.slave /\ set(q).in = v.in
             /\ \A i \in Index : set(q).input[i] = IF v.at[i] = <<p, 0>> THEN q ELSE v.input[i]
  BY Policing
<1> HIDE DEF set, r1, old, new
<1>4. VppShape(v1) /\ v1.at = v.at /\ v1.slave = v.slave /\ v1.in = v.in
  BY <1>3
<1> HIDE DEF v1
<1>5. o.vpp \in {v, v1, w} /\ o.reg \in {r, r1}
      /\ (o.ok => (old = new /\ o.vpp = v /\ o.reg = r) \/ (old # new /\ o.vpp = w /\ o.reg = r1))
  <2> HIDE DEF w
  <2>1. CASE old = new
    BY <1>1, <2>1, Results
  <2>2. CASE old # new
    BY <1>1, <2>2, Results
  <2> QED BY <2>1, <2>2
<1>6. Calm(v, r, o)
  BY <1>2, <1>3, <1>4, <1>5 DEF Calm
<1>7. ASSUME o.ok, r.policy[p] = None
      PROVE  /\ \A x \in Phys : x # p => o.reg.policy[x] = r.policy[x]
             /\ \A i \in Index : o.vpp.input[i] = IF v.at[i] = <<p, 0>> /\ c.policy[p] # None
                                                  THEN c.policy[p] ELSE v.input[i]
  <2>1. CASE old = new
    BY <1>5, <1>7, <2>1 DEF old, new
  <2>2. CASE old # new
    BY <1>2, <1>3, <1>5, <1>7, <2>2 DEF old, new
  <2> QED BY <2>1, <2>2
<1> QED BY <1>6, <1>7

-----------------------------------------------------------------------------

\* There is an index left.
LEMMA FreeIndex ==
  ASSUME NEW v, VppShape(v), RoomIn(v)
  PROVE  \E i \in Index : v.at[i] = None
<1>1. PICK g \in [{} -> Free(v)] : \A n, m \in {} : g[n] = g[m] => n = m
  BY Spare
<1>2. PICK i \in Free(v) : TRUE
  BY <1>1, Spare
<1> QED BY <1>2 DEF Free

\* A single new interface.
LEMMA OneCreated ==
  ASSUME NEW v, VppShape(v), NEW n \in IfName \cup {Stray}, \E i \in Index : v.at[i] = None
  PROVE  LET w == Create(v, {n}) IN
         /\ VppShape(w) /\ w.in = v.in /\ w.slave = v.slave /\ w.input = v.input
         /\ \A i \in Index : v.at[i] # None => w.at[i] = v.at[i]
         /\ \A i \in Index : v.at[i] = None => w.at[i] \in {n, None}
         /\ \E i \in Index : v.at[i] = None /\ w.at[i] = n
         /\ Once(v, w)
<1>1. \E g \in [{n} -> Free(v)] : \A x, y \in {n} : g[x] = g[y] => x = y
  BY SpareOne
<1>2. {n} \in SUBSET (IfName \cup {Stray})
  OBVIOUS
<1>3. LET w == Create(v, {n}) IN
      /\ VppShape(w) /\ w.in = v.in /\ w.slave = v.slave /\ w.input = v.input
      /\ \A i \in Index : v.at[i] # None => w.at[i] = v.at[i]
      /\ \A i \in Index : v.at[i] = None => w.at[i] \in {n} \cup {None}
      /\ \A x \in {n} : \E i \in Index : v.at[i] = None /\ w.at[i] = x
      /\ Once(v, w)
  BY <1>1, <1>2, CreatedAny
<1> QED BY <1>3

-----------------------------------------------------------------------------
(* What takes up indices *)

\* An interface of which there may be two: one that got no name, or the BVI of
\* a switch: a call that fails after it was made leaves it behind.
Repeatable(n) == n = Stray \/ \E s \in Switch : n = <<s, 0>>
Lone(v) == \A i, j \in Index : v.at[i] = v.at[j] /\ v.at[i] # None => i = j \/ Repeatable(v.at[i])

\* The interfaces of these that no registry remembers.
Spurious(v, r) == {i \in Index : v.at[i] = Stray \/ \E s \in Switch : v.at[i] = <<s, 0>> /\ r.bvi[s] # i}

\* A step that leaves no more of them than there were, and one that may leave one more.
Neat(v, r, w, q) == (Lone(v) => Lone(w)) /\ Spurious(w, q) \subseteq Spurious(v, r)
Dear(v, r, w, q) == (Lone(v) => Lone(w)) /\ \E x : Spurious(w, q) \subseteq Spurious(v, r) \cup {x}

\* Only an operation with a failing VPP call leaves one more.
Costs(v, r, o) == Neat(v, r, o.vpp, o.reg) \/ (o.fault /\ Dear(v, r, o.vpp, o.reg))

\* Steps follow each other.
LEMMA NeatNeat ==
  ASSUME NEW v, NEW r, NEW w, NEW q, NEW x, NEW p, Neat(v, r, w, q)
  PROVE  /\ Neat(w, q, x, p) => Neat(v, r, x, p)
         /\ Dear(w, q, x, p) => Dear(v, r, x, p)
<1>1. Neat(w, q, x, p) => Neat(v, r, x, p)
  BY DEF Neat
<1>2. ASSUME Dear(w, q, x, p) PROVE Dear(v, r, x, p)
  <2>1. PICK y : Spurious(x, p) \subseteq Spurious(w, q) \cup {y}
    BY <1>2 DEF Dear
  <2>2. Spurious(x, p) \subseteq Spurious(v, r) \cup {y}
    BY <2>1 DEF Neat
  <2> QED BY <1>2, <2>2 DEF Neat, Dear
<1> QED BY <1>1, <1>2

\* Interfaces that stay or go, and BVIs the registries forget only as they go.
LEMMA NeatLess ==
  ASSUME NEW v, NEW r, NEW w, NEW q,
         \A i \in Index : w.at[i] = v.at[i] \/ w.at[i] = None,
         \A i \in Index, s \in Switch : w.at[i] = <<s, 0>> /\ q.bvi[s] # i => r.bvi[s] # i
  PROVE  Neat(v, r, w, q)
<1>1. Stray # None /\ \A s \in Switch : <<s, 0>> # None
  BY Strays, SwitchingAssumption
<1>2. Lone(v) => Lone(w)
  BY DEF Lone
<1>3. ASSUME NEW i \in Spurious(w, q) PROVE i \in Spurious(v, r)
  <2>1. i \in Index /\ (w.at[i] = Stray \/ \E s \in Switch : w.at[i] = <<s, 0>> /\ q.bvi[s] # i)
    BY <1>3 DEF Spurious
  <2>2. CASE w.at[i] = Stray
    BY <1>1, <2>1, <2>2 DEF Spurious
  <2>3. CASE \E s \in Switch : w.at[i] = <<s, 0>> /\ q.bvi[s] # i
    <3>1. PICK s \in Switch : w.at[i] = <<s, 0>> /\ q.bvi[s] # i
      BY <2>3
    <3>2. v.at[i] = <<s, 0>> /\ r.bvi[s] # i
      BY <1>1, <2>1, <3>1
    <3> QED BY <2>1, <3>2 DEF Spurious
  <2> QED BY <2>1, <2>2, <2>3
<1> QED BY <1>2, <1>3 DEF Neat

\* Names and BVIs that stay.
LEMMA NeatSame ==
  ASSUME NEW v, NEW r, NEW w, w.at = v.at, NEW q, q.bvi = r.bvi
  PROVE  Neat(v, r, w, q)
  BY NeatLess

\* Interfaces that go.
LEMMA NeatRemove ==
  ASSUME NEW v, VppShape(v), NEW I, NEW r, NEW q, q.bvi = r.bvi
  PROVE  Neat(v, r, Remove(v, I), q)
<1> DEFINE w == Remove(v, I)
<1>1. \A i \in Index : w.at[i] = v.at[i] \/ w.at[i] = None
  <2>1. /\ \A i \in Gone(v, I) : w.at[i] = None
        /\ \A i \in Index \ Gone(v, I) : w.at[i] = v.at[i]
    BY RemovedAny
  <2> HIDE DEF w
  <2> QED BY <2>1
<1> HIDE DEF w
<1>2. Neat(v, r, w, q)
  BY <1>1, NeatLess
<1> QED BY <1>2 DEF w

\* New interfaces that are none of these, of names VPP has not.
LEMMA NeatMore ==
  ASSUME NEW v, NEW r, NEW w, Once(v, w),
         \A i \in Index : v.at[i] # None => w.at[i] = v.at[i],
         \A i \in Index : v.at[i] = None /\ w.at[i] # None => ~Repeatable(w.at[i]) /\ \A j \in Index : v.at[j] # w.at[i],
         NEW q, q.bvi = r.bvi
  PROVE  Neat(v, r, w, q)
<1>1. Stray # None /\ \A s \in Switch : <<s, 0>> # None
  BY Strays, SwitchingAssumption
<1>2. ASSUME Lone(v), NEW i \in Index, NEW j \in Index, w.at[i] = w.at[j], w.at[i] # None
      PROVE  i = j \/ Repeatable(w.at[i])
  <2>1. CASE v.at[i] = None /\ v.at[j] = None
    BY <1>2, <2>1 DEF Once
  <2>2. CASE v.at[i] = None /\ v.at[j] # None
    BY <1>2, <2>2
  <2>3. CASE v.at[i] # None /\ v.at[j] = None
    BY <1>2, <2>3
  <2>4. CASE v.at[i] # None /\ v.at[j] # None
    BY <1>2, <2>4 DEF Lone
  <2> QED BY <2>1, <2>2, <2>3, <2>4
<1>3. ASSUME NEW i \in Spurious(w, q) PROVE i \in Spurious(v, r)
  <2>1. i \in Index /\ (w.at[i] = Stray \/ \E s \in Switch : w.at[i] = <<s, 0>> /\ q.bvi[s] # i)
    BY <1>3 DEF Spurious
  <2>2. w.at[i] # None /\ Repeatable(w.at[i])
    BY <1>1, <2>1 DEF Repeatable
  <2>3. w.at[i] = v.at[i]
    BY <2>1, <2>2
  <2> QED BY <2>1, <2>3 DEF Spurious
<1>4. Lone(v) => Lone(w)
  BY <1>2 DEF Lone
<1> QED BY <1>3, <1>4 DEF Neat

\* One new interface that is none.
LEMMA NeatNew ==
  ASSUME NEW v, VppShape(v), \E i \in Index : v.at[i] = None, NEW n \in Port, \A i \in Index : v.at[i] # <<n, 0>>,
         NEW r, NEW q, q.bvi = r.bvi
  PROVE  Neat(v, r, Create(v, {<<n, 0>>}), q)
<1> DEFINE w == Create(v, {<<n, 0>>})
<1>1. <<n, 0>> \in IfName \cup {Stray} /\ ~Repeatable(<<n, 0>>)
  <2>1. n \notin Switch
    BY KindsAssumption
  <2> QED BY <2>1, Strays, SwitchingAssumption DEF Repeatable
<1>2. /\ \A i \in Index : v.at[i] # None => w.at[i] = v.at[i]
      /\ \A i \in Index : v.at[i] = None => w.at[i] \in {<<n, 0>>, None}
      /\ Once(v, w)
  BY <1>1, OneCreated
<1> HIDE DEF w
<1>3. \A i \in Index : v.at[i] = None /\ w.at[i] # None => ~Repeatable(w.at[i]) /\ \A j \in Index : v.at[j] # w.at[i]
  BY <1>1, <1>2
<1>4. Neat(v, r, w, q)
  BY <1>2, <1>3, NeatMore
<1> QED BY <1>4 DEF w

\* One new interface that nothing remembers.
LEMMA DearNew ==
  ASSUME NEW v, VppShape(v), \E i \in Index : v.at[i] = None, NEW n \in IfName \cup {Stray}, Repeatable(n), NEW r
  PROVE  Dear(v, r, Create(v, {n}), r)
<1> DEFINE w == Create(v, {n})
<1>1. /\ \A i \in Index : v.at[i] # None => w.at[i] = v.at[i]
      /\ \A i \in Index : v.at[i] = None => w.at[i] \in {n, None}
      /\ \E i \in Index : v.at[i] = None /\ w.at[i] = n
      /\ Once(v, w)
  BY OneCreated
<1> HIDE DEF w
<1>2. PICK x \in Index : v.at[x] = None /\ w.at[x] = n
  BY <1>1
<1>3. n # None /\ Stray # None /\ \A s \in Switch : <<s, 0>> # None
  BY Strays, SwitchingAssumption
<1>4. \A i \in Index : i # x => w.at[i] = v.at[i]
  BY <1>1, <1>2, <1>3 DEF Once
<1>5. ASSUME Lone(v), NEW i \in Index, NEW j \in Index, w.at[i] = w.at[j], w.at[i] # None
      PROVE  i = j \/ Repeatable(w.at[i])
  <2>1. CASE i = x \/ j = x
    BY <1>2, <1>5, <2>1
  <2>2. CASE i # x /\ j # x
    BY <1>4, <1>5, <2>2 DEF Lone
  <2> QED BY <2>1, <2>2
<1>6. Spurious(w, r) \subseteq Spurious(v, r) \cup {x}
  BY <1>4 DEF Spurious
<1>7. Dear(v, r, w, r)
  BY <1>5, <1>6 DEF Dear, Lone
<1> QED BY <1>7 DEF w

\* What follows, names and BVIs staying.
LEMMA NeatStill ==
  ASSUME NEW v, NEW r, NEW w, NEW q, Neat(v, r, w, q), NEW x, x.at = w.at, NEW p, p.bvi = q.bvi
  PROVE  Neat(v, r, x, p)
<1>1. Neat(w, q, x, p)
  BY NeatSame
<1> QED BY <1>1, NeatNeat

\* A BVI that is made and remembered.
LEMMA NeatBvi ==
  ASSUME NEW v, VppShape(v), \E i \in Index : v.at[i] = None, NEW r, NEW s \in Switch, r.bvi[s] = 0,
         NEW i \in Index, v.at[i] = None, Create(v, {<<s, 0>>}).at[i] = <<s, 0>>,
         NEW w, w.at = Create(v, {<<s, 0>>}).at,
         NEW q, q.bvi[s] = i, \A t \in Switch \ {s} : q.bvi[t] = r.bvi[t]
  PROVE  Neat(v, r, w, q)
<1> DEFINE u == Create(v, {<<s, 0>>})
<1>0. <<s, 0>> \in IfName \cup {Stray} /\ Repeatable(<<s, 0>>) /\ <<s, 0>> # Stray /\ <<s, 0>> # None /\ Stray # None
  BY Strays, SwitchingAssumption DEF Repeatable
<1>1. Dear(v, r, u, r)
  BY <1>0, DearNew
<1>2. /\ \A j \in Index : v.at[j] # None => u.at[j] = v.at[j]
      /\ \A j \in Index : v.at[j] = None => u.at[j] \in {<<s, 0>>, None}
      /\ Once(v, u)
  BY <1>0, OneCreated
<1>3. u.at[i] = <<s, 0>> /\ w.at = u.at
  OBVIOUS
<1> HIDE DEF u
<1>4. \A j \in Index : j # i => u.at[j] = v.at[j]
  BY <1>0, <1>2, <1>3 DEF Once
<1>5. ASSUME NEW j \in Spurious(w, q) PROVE j \in Spurious(v, r)
  <2>1. j \in Index /\ (w.at[j] = Stray \/ \E t \in Switch : w.at[j] = <<t, 0>> /\ q.bvi[t] # j)
    BY <1>5 DEF Spurious
  <2>2. CASE w.at[j] = Stray
    BY <1>0, <1>3, <1>4, <2>1, <2>2 DEF Spurious
  <2>3. CASE \E t \in Switch : w.at[j] = <<t, 0>> /\ q.bvi[t] # j
    <3>1. PICK t \in Switch : w.at[j] = <<t, 0>> /\ q.bvi[t] # j
      BY <2>3
    <3>2. j # i
      BY <1>3, <3>1
    <3>3. v.at[j] = <<t, 0>>
      BY <1>3, <1>4, <2>1, <3>1, <3>2
    <3>4. r.bvi[t] # j
      BY <2>1, <3>1, SwitchingAssumption
    <3> QED BY <2>1, <3>3, <3>4 DEF Spurious
  <2> QED BY <2>1, <2>2, <2>3
<1>6. Lone(v) => Lone(w)
  BY <1>1, <1>3 DEF Dear, Lone
<1> QED BY <1>5, <1>6 DEF Neat

\* A BVI that is remembered again.
LEMMA NeatFound ==
  ASSUME NEW v, NEW r, NEW s \in Switch, r.bvi[s] = 0, NEW q, \A t \in Switch \ {s} : q.bvi[t] = r.bvi[t]
  PROVE  Neat(v, r, v, q)
<1>1. \A i \in Index, t \in Switch : v.at[i] = <<t, 0>> /\ q.bvi[t] # i => r.bvi[t] # i
  BY SwitchingAssumption
<1> QED BY <1>1, NeatLess

\* A BVI that is forgotten.
LEMMA DearForgotten ==
  ASSUME NEW v, NEW r, NEW s \in Switch, NEW q, \A t \in Switch \ {s} : q.bvi[t] = r.bvi[t]
  PROVE  Dear(v, r, v, q)
<1>1. ASSUME NEW j \in Spurious(v, q) PROVE j \in Spurious(v, r) \cup {r.bvi[s]}
  <2>1. j \in Index /\ (v.at[j] = Stray \/ \E t \in Switch : v.at[j] = <<t, 0>> /\ q.bvi[t] # j)
    BY <1>1 DEF Spurious
  <2>2. CASE v.at[j] = Stray
    BY <2>1, <2>2 DEF Spurious
  <2>3. CASE \E t \in Switch : v.at[j] = <<t, 0>> /\ q.bvi[t] # j
    <3>1. PICK t \in Switch : v.at[j] = <<t, 0>> /\ q.bvi[t] # j
      BY <2>3
    <3>2. CASE r.bvi[t] # j
      BY <2>1, <3>1, <3>2 DEF Spurious
    <3>3. CASE r.bvi[t] = j
      BY <3>1, <3>3
    <3> QED BY <3>2, <3>3
  <2> QED BY <2>1, <2>2, <2>3
<1>2. Spurious(v, q) \subseteq Spurious(v, r) \cup {r.bvi[s]}
  BY <1>1
<1> QED BY <1>2 DEF Dear

-----------------------------------------------------------------------------
\* When the interfaces that nothing remembers are few, there is room: every other interface
\* has a name of its own.
LEMMA FewSpurious ==
  ASSUME NEW v, VppShape(v), Lone(v), NEW r,
         Cardinality(IfName) + Cardinality(Spurious(v, r)) < Cardinality(Index)
  PROVE  RoomIn(v)
<1> DEFINE S == Spurious(v, r)
           F == Free(v)
           O == {i \in Index : v.at[i] # None /\ i \notin S}
           f == [i \in O |-> v.at[i]]
           N == {v.at[i] : i \in O}
           M == IfName \ Present(v)
<1>1. IsFiniteSet(Index) /\ IsFiniteSet(IfName)
  BY IndexAssumption
<1>2. S \subseteq Index /\ F \subseteq Index /\ O \subseteq Index
  BY DEF Spurious, Free
<1>3. /\ IsFiniteSet(S) /\ Cardinality(S) \in Nat
      /\ IsFiniteSet(F) /\ Cardinality(F) \in Nat
      /\ IsFiniteSet(O) /\ Cardinality(O) \in Nat
      /\ Cardinality(Index) \in Nat /\ Cardinality(IfName) \in Nat
  <2> HIDE DEF S, F, O
  <2>1. IsFiniteSet(S) /\ IsFiniteSet(F) /\ IsFiniteSet(O)
    BY <1>1, <1>2, FS_Subset
  <2> QED BY <1>1, <2>1, FS_CardinalityType
<1>4. N \subseteq IfName
  <2> SUFFICES ASSUME NEW i \in O PROVE v.at[i] \in IfName
    OBVIOUS
  <2>1. v.at[i] # Stray
    BY DEF Spurious
  <2> QED BY <2>1 DEF VppShape
<1>5. \A i, j \in O : v.at[i] = v.at[j] => i = j
  <2> SUFFICES ASSUME NEW i \in O, NEW j \in O, v.at[i] = v.at[j] PROVE i = j
    OBVIOUS
  <2>1. CASE Repeatable(v.at[i])
    <3>1. PICK s \in Switch : v.at[i] = <<s, 0>>
      BY <2>1 DEF Repeatable, Spurious
    <3>2. r.bvi[s] = i /\ r.bvi[s] = j
      BY <3>1 DEF Spurious
    <3> QED BY <3>2
  <2>2. CASE ~Repeatable(v.at[i])
    BY <2>2 DEF Lone
  <2> QED BY <2>1, <2>2
<1>6. IsFiniteSet(N) /\ Cardinality(N) = Cardinality(O)
  <2> HIDE DEF O
  <2>1. f \in [O -> N] /\ (\A i, j \in O : f[i] = f[j] => i = j) /\ \A n \in N : \E i \in O : f[i] = n
    BY <1>5
  <2>2. f \in Bijection(O, N)
    <3> HIDE DEF f, N
    <3> QED BY <2>1, Fun_IsBij
  <2> HIDE DEF f, N
  <2> QED BY <1>3, <2>2, FS_Bijection DEF ExistsBijection
<1>7. Cardinality(M) <= Cardinality(IfName) - Cardinality(O)
  <2>1. M \in SUBSET (IfName \ N)
    BY DEF Present
  <2> HIDE DEF M, N, O
  <2>2. IfName \cap N = N
    BY <1>4
  <2>3. IsFiniteSet(IfName \ N) /\ Cardinality(IfName \ N) = Cardinality(IfName) - Cardinality(N)
    BY <1>1, <2>2, FS_Difference
  <2>4. Cardinality(M) <= Cardinality(IfName \ N)
    BY <2>1, <2>3, FS_Subset
  <2> QED BY <1>6, <2>3, <2>4
<1>8. Cardinality(M) \in Nat
  <2>1. M \in SUBSET IfName
    OBVIOUS
  <2> HIDE DEF M
  <2> QED BY <1>1, <2>1, FS_Subset, FS_CardinalityType
<1>9. Cardinality(Index) <= Cardinality(F) + Cardinality(S) + Cardinality(O)
  <2>1. Index = (F \cup S) \cup O
    BY <1>2 DEF Free
  <2> HIDE DEF F, S, O
  <2>2. IsFiniteSet(F \cup S) /\ Cardinality(F \cup S) = Cardinality(F) + Cardinality(S) - Cardinality(F \cap S)
    BY <1>3, FS_Union
  <2>3. Cardinality(Index) = Cardinality(F \cup S) + Cardinality(O) - Cardinality((F \cup S) \cap O)
    BY <1>3, <2>1, <2>2, FS_Union
  <2>4. Cardinality(F \cap S) \in Nat /\ Cardinality((F \cup S) \cap O) \in Nat /\ Cardinality(F \cup S) \in Nat
    <3>1. IsFiniteSet(F \cap S)
      BY <1>3, FS_Intersection
    <3>2. IsFiniteSet((F \cup S) \cap O)
      BY <2>2, FS_Intersection
    <3> QED BY <2>2, <3>1, <3>2, FS_CardinalityType
  <2> QED BY <1>3, <2>2, <2>3, <2>4
<1> HIDE DEF F, S, O, M, N
<1>10. Cardinality(IfName) + Cardinality(S) < Cardinality(Index)
  BY DEF S
<1>11. Cardinality(M) < Cardinality(F)
  BY <1>3, <1>7, <1>8, <1>9, <1>10
<1> QED BY <1>11 DEF RoomIn, M, F

\* There are finitely many switches.
LEMMA SwitchFinite == IsFiniteSet(Switch) /\ Cardinality(Switch) \in Nat
<1>1. IsFiniteSet(IfName)
  BY IndexAssumption
<1> DEFINE T == {<<s, 0>> : s \in Switch}
           f == [s \in Switch |-> <<s, 0>>]
<1>2. T \in SUBSET IfName
  BY SwitchingAssumption DEF IfName
<1>3. IsFiniteSet(T)
  <2> HIDE DEF T
  <2> QED BY <1>1, <1>2, FS_Subset
<1>4. f \in Injection(Switch, T)
  <2>1. f \in [Switch -> T] /\ \A s, t \in Switch : f[s] = f[t] => s = t
    OBVIOUS
  <2> HIDE DEF f, T
  <2> QED BY <2>1, Fun_IsInj
<1>5. IsFiniteSet(Switch)
  <2> HIDE DEF f, T
  <2> QED BY <1>3, <1>4, FS_Injection
<1> QED BY <1>5, FS_CardinalityType

\* A daemon that restarts forgets the BVIs of all switches.
LEMMA Forgotten ==
  ASSUME NEW v, NEW r, r.bvi \in [Switch -> Index \cup {0}]
  PROVE  Cardinality(Spurious(v, EmptyReg)) <= Cardinality(Spurious(v, r)) + Cardinality(Switch)
<1> DEFINE S == Spurious(v, r)
           E == Spurious(v, EmptyReg)
           B == Range(r.bvi)
<1>1. IsFiniteSet(S) /\ Cardinality(S) \in Nat
  <2>1. S \in SUBSET Index
    BY DEF Spurious
  <2> HIDE DEF S
  <2> QED BY <2>1, IndexAssumption, FS_Subset, FS_CardinalityType
<1>2. IsFiniteSet(B) /\ Cardinality(B) <= Cardinality(Switch) /\ Cardinality(B) \in Nat
  <2>1. r.bvi \in Surjection(Switch, B)
    BY Fun_RangeProperties
  <2> HIDE DEF B
  <2> QED BY <2>1, SwitchFinite, FS_Surjection, FS_CardinalityType
<1>3. E \in SUBSET (S \cup B)
  <2> SUFFICES ASSUME NEW i \in Index, NEW s \in Switch, v.at[i] = <<s, 0>>, r.bvi[s] = i
               PROVE  i \in B
    BY DEF Spurious
  <2> QED BY DEF Range
<1> HIDE DEF S, B, E
<1>4. IsFiniteSet(S \cup B) /\ Cardinality(S \cup B) = Cardinality(S) + Cardinality(B) - Cardinality(S \cap B)
  BY <1>1, <1>2, FS_Union
<1>5. Cardinality(S \cap B) \in Nat
  <2>1. IsFiniteSet(S \cap B)
    BY <1>1, FS_Intersection
  <2> QED BY <2>1, FS_CardinalityType
<1>6. IsFiniteSet(E) /\ Cardinality(E) <= Cardinality(S \cup B)
  BY <1>3, <1>4, FS_Subset
<1>7. Cardinality(E) \in Nat /\ Cardinality(S \cup B) \in Nat
  BY <1>4, <1>6, FS_CardinalityType
<1>8. Cardinality(E) <= Cardinality(S) + Cardinality(Switch)
  BY <1>1, <1>2, <1>4, <1>5, <1>6, <1>7, SwitchFinite
<1> QED BY <1>8 DEF E, S

\* What an operation leaves.
LEMMA Cost ==
  ASSUME NEW v, NEW r, NEW o, Costs(v, r, o)
  PROVE  /\ Lone(v) => Lone(o.vpp)
         /\ Cardinality(Spurious(o.vpp, o.reg)) <= Cardinality(Spurious(v, r)) + IF o.fault THEN 1 ELSE 0
<1> DEFINE S == Spurious(v, r)
           E == Spurious(o.vpp, o.reg)
<1>1. IsFiniteSet(S) /\ Cardinality(S) \in Nat
  <2>1. S \in SUBSET Index
    BY DEF Spurious
  <2> HIDE DEF S
  <2> QED BY <2>1, IndexAssumption, FS_Subset, FS_CardinalityType
<1> HIDE DEF S, E
<1>2. CASE Neat(v, r, o.vpp, o.reg)
  <2>1. E \in SUBSET S
    BY <1>2 DEF Neat, S, E
  <2>2. Cardinality(E) <= Cardinality(S) /\ Cardinality(E) \in Nat
    BY <1>1, <2>1, FS_Subset, FS_CardinalityType
  <2>3. Cardinality(E) <= Cardinality(S) + IF o.fault THEN 1 ELSE 0
    BY <1>1, <2>2
  <2> QED BY <1>2, <2>3 DEF Neat, S, E
<1>3. CASE o.fault /\ Dear(v, r, o.vpp, o.reg)
  <2>1. PICK x : E \subseteq S \cup {x}
    BY <1>3 DEF Dear, S, E
  <2>2. IsFiniteSet(S \cup {x}) /\ Cardinality(S \cup {x}) <= Cardinality(S) + 1 /\ Cardinality(S \cup {x}) \in Nat
    <3>1. /\ IsFiniteSet(S \cup {x})
          /\ Cardinality(S \cup {x}) = IF x \in S THEN Cardinality(S) ELSE Cardinality(S) + 1
      BY <1>1, FS_AddElement
    <3> QED BY <1>1, <3>1
  <2>3. Cardinality(E) <= Cardinality(S \cup {x}) /\ Cardinality(E) \in Nat
    <3>1. E \in SUBSET (S \cup {x})
      BY <2>1
    <3> QED BY <2>2, <3>1, FS_Subset, FS_CardinalityType
  <2>4. Cardinality(E) <= Cardinality(S) + 1
    BY <1>1, <2>2, <2>3
  <2> QED BY <1>3, <2>4 DEF Dear, S, E
<1> QED BY <1>2, <1>3 DEF Costs

\* The bound, one event later.
LEMMA Rises ==
  ASSUME NEW e \in Nat, NEW k \in Nat, NEW m \in Nat
  PROVE  /\ (e + 1) * k = e * k + k /\ e * k \in Nat /\ m * k \in Nat
         /\ e <= m => e * k <= m * k
<1>1. (e + 1) * k = e * k + k
  OBVIOUS
<1>2. e * k \in Nat /\ m * k \in Nat
  OBVIOUS
<1>3. ASSUME e <= m PROVE e * k <= m * k
  <2>1. m = e + (m - e) /\ m - e \in Nat
    BY <1>3
  <2>2. m * k = e * k + (m - e) * k
    BY <2>1
  <2>3. (m - e) * k \in Nat
    BY <2>1
  <2> QED BY <1>2, <2>2, <2>3
<1> QED BY <1>1, <1>2, <1>3

-----------------------------------------------------------------------------

\* It does no harm, unless it is a sub-interface.
LEMMA OneSolid ==
  ASSUME NEW v, NEW r, Solid(v, r), NEW x \in Port \cup Switch \cup {None}, \E i \in Index : v.at[i] = None
  PROVE  Solid(Create(v, {<<x, 0>>}), r)
<1> DEFINE w == Create(v, {<<x, 0>>})
<1>1. <<x, 0>> \in IfName \cup {Stray} /\ VppShape(v)
  BY Strays, SwitchingAssumption DEF Solid
<1>2. /\ VppShape(w) /\ w.slave = v.slave
      /\ \A i \in Index : v.at[i] # None => w.at[i] = v.at[i]
      /\ \A i \in Index : v.at[i] = None => w.at[i] \in {<<x, 0>>, None}
  BY <1>1, OneCreated
<1>3. \A b \in Bond, y \in Vlan : <<b, y>> # None
  BY Strays DEF Port
<1> HIDE DEF w
<1>4. ASSUME NEW i \in Index, NEW b \in Bond, NEW y \in Vlan, v.at[i] = None, w.at[i] = <<b, y>>
      PROVE  \E j \in Index : w.at[j] = <<b, 0>>
  <2>1. w.at[i] = <<x, 0>>
    BY <1>2, <1>3, <1>4
  <2> QED BY <1>4, <2>1
<1>5. Solid(w, r)
  BY <1>2, <1>4, Extended
<1> QED BY <1>5 DEF w

\* Making or deleting the interface of a vNIC keeps a state solid, and leaves an
\* interface behind only when a call fails.
LEMMA VnicSolid ==
  ASSUME NEW v, NEW r, Solid(v, r), RoomIn(v), NEW n \in Vnic, NEW o \in ApplyVnic(v, r, n) \cup DeleteVnic(v, r, n)
  PROVE  Solid(o.vpp, o.reg) /\ Costs(v, r, o)
<1>0. VppShape(v) /\ n \in Port /\ Neat(v, r, v, r)
  BY NeatSame DEF Solid, Port
<1>1. CASE o \in ApplyVnic(v, r, n)
  <2> DEFINE w == Create(v, {<<n, 0>>})
  <2>1. o = Ok(v, r) \/ o = Broken(v, r) \/ (o = Ok(w, r) /\ ~Exists(v, <<n, 0>>))
    BY <1>1 DEF ApplyVnic
  <2>2. Solid(w, r)
    BY FreeIndex, OneSolid DEF Solid, Port
  <2>3. ASSUME ~Exists(v, <<n, 0>>) PROVE Neat(v, r, w, r)
    <3>1. (\A i \in Index : v.at[i] # <<n, 0>>) /\ \E i \in Index : v.at[i] = None
      BY <1>0, <2>3, Indexed, FreeIndex
    <3> QED BY <1>0, <3>1, NeatNew
  <2> HIDE DEF w
  <2> QED BY <1>0, <2>1, <2>2, <2>3, Results DEF Costs
<1>2. CASE o \in DeleteVnic(v, r, n)
  <2> DEFINE I == {IndexOf(v, <<n, 0>>)} \ {0}
             w == Remove(v, I)
  <2>1. o = Ok(w, r) \/ o = Broken(v, r)
    BY <1>2 DEF DeleteVnic
  <2>2. I \subseteq Index /\ \A i \in I : v.at[i] = <<n, 0>>
    BY Indexed
  <2>3. n \notin Phys \cup Bond \cup Switch
    BY Kinds
  <2>4. \A i \in I : \A x \in Phys \cup Bond \cup Switch : v.at[i] # <<x, 0>>
    BY <2>2, <2>3
  <2> HIDE DEF I
  <2>5. Leaves(v, I) /\ Forgets(v, r, r, I)
    BY <2>2, <2>4 DEF Leaves, Forgets, Solid
  <2>6. Solid(w, r)
    BY <2>5, Reduced
  <2>7. Neat(v, r, w, r)
    BY <1>0, NeatRemove
  <2> HIDE DEF w
  <2> QED BY <1>0, <2>1, <2>6, <2>7, Results DEF Costs
<1> QED BY <1>1, <1>2

\* Undeclared bonds and nameless interfaces go, and the registry forgets the bonds.
PrunedReg(v, r, I) ==
  LET B == {b \in Bond : \E i \in I : v.at[i] = <<b, 0>>}
  IN [r EXCEPT !.bond = [b \in Bond |-> IF b \in B THEN 0 ELSE @[b]],
               !.members = [b \in Bond |-> IF b \in B THEN {} ELSE @[b]],
               !.lacp = @ \ B]
Undeclared(v, c) == {i \in Index : \/ v.at[i] = Stray
                                   \/ \E b \in Bond : v.at[i] = <<b, 0>> /\ c.members[b] = {}}

\* What the pruning of bonds has removed when it ends, and that it removed everything it
\* looks for when it succeeds.
LEMMA PruneOutcomes ==
  ASSUME NEW v, NEW r, NEW c, NEW o \in PruneBonds(v, r, c)
  PROVE  \E I \in SUBSET Undeclared(v, c) :
           /\ o.vpp = Remove(v, I) /\ o.reg = PrunedReg(v, r, I)
           /\ o.ok => I = Undeclared(v, c)
<1> DEFINE U == Undeclared(v, c)
<1>1. \/ o = Ok(Remove(v, U), PrunedReg(v, r, U))
      \/ \E I \in SUBSET U : o = Broken(Remove(v, I), PrunedReg(v, r, I))
  BY Zenon DEF PruneBonds, Undeclared, PrunedReg
<1> HIDE DEF U
<1>2. CASE o = Ok(Remove(v, U), PrunedReg(v, r, U))
  <2>1. o.vpp = Remove(v, U) /\ o.reg = PrunedReg(v, r, U)
    BY <1>2, Results
  <2> QED BY <2>1 DEF U
<1>3. CASE \E I \in SUBSET U : o = Broken(Remove(v, I), PrunedReg(v, r, I))
  <2>1. PICK I \in SUBSET U : o = Broken(Remove(v, I), PrunedReg(v, r, I))
    BY <1>3
  <2>2. o.vpp = Remove(v, I) /\ o.reg = PrunedReg(v, r, I) /\ ~o.ok
    BY <2>1, Results
  <2> QED BY <2>2 DEF U
<1> QED BY <1>1, <1>2, <1>3

\* The pruning forgets the bonds it has removed, and no other registry.
LEMMA RegPruned ==
  ASSUME NEW v, NEW r, RegShape(r), NEW I
  PROVE  LET q == PrunedReg(v, r, I) IN
         /\ RegShape(q) /\ q.attached = r.attached /\ q.bvi = r.bvi /\ q.policy = r.policy
         /\ \A b \in Bond : q.bond[b] # 0 => q.bond[b] = r.bond[b] /\ \A i \in I : v.at[i] # <<b, 0>>
<1> DEFINE q == PrunedReg(v, r, I)
           B == {b \in Bond : \E i \in I : v.at[i] = <<b, 0>>}
           x == [b \in Bond |-> IF b \in B THEN 0 ELSE r.bond[b]]
           y == [b \in Bond |-> IF b \in B THEN {} ELSE r.members[b]]
           r1 == [r EXCEPT !.bond = x]
           r2 == [r1 EXCEPT !.members = y]
           r3 == [r2 EXCEPT !.lacp = r.lacp \ B]
<1>1. q = r3
  BY DEF PrunedReg, RegShape
<1>2. x \in [Bond -> Index \cup {0}]
  BY DEF RegShape
<1>3. \A b \in Bond : x[b] # 0 => x[b] = r.bond[b] /\ \A i \in I : v.at[i] # <<b, 0>>
  OBVIOUS
<1> HIDE DEF q, x, y, B
<1>4. BondReg(r, r1, x)
  BY <1>2, OtherRegs
<1> HIDE DEF r1
<1>5. SameReg(r1, r2)
  BY <1>4, OtherRegs DEF BondReg
<1> HIDE DEF r2
<1>6. SameReg(r2, r3)
  <2>1. RegShape(r2)
    BY <1>5 DEF SameReg
  <2> QED BY <2>1, OtherRegs
<1> HIDE DEF r3
<1>7. RegShape(q) /\ q.attached = r.attached /\ q.bvi = r.bvi /\ q.policy = r.policy /\ q.bond = x
  BY <1>1, <1>4, <1>5, <1>6 DEF BondReg, SameReg
<1> QED BY <1>3, <1>7 DEF q

\* The pruning of bonds keeps a state solid, and leaves an
\* interface behind only when a call fails.
LEMMA PruneSolid ==
  ASSUME NEW v, NEW r, Solid(v, r), NEW c, NEW o \in PruneBonds(v, r, c)
  PROVE  Solid(o.vpp, o.reg) /\ Costs(v, r, o)
<1>1. PICK I \in SUBSET Undeclared(v, c) : o.vpp = Remove(v, I) /\ o.reg = PrunedReg(v, r, I)
  BY PruneOutcomes
<1> DEFINE q == PrunedReg(v, r, I)
<1>2. /\ RegShape(q) /\ q.bvi = r.bvi
      /\ \A b \in Bond : q.bond[b] # 0 => q.bond[b] = r.bond[b] /\ \A i \in I : v.at[i] # <<b, 0>>
  <2>1. RegShape(r)
    BY DEF Solid
  <2> QED BY <2>1, RegPruned
<1>3. I \subseteq Index /\ \A i \in I : v.at[i] = Stray \/ \E b \in Bond : v.at[i] = <<b, 0>>
  BY DEF Undeclared
<1>4. \A i \in I : \A x \in Phys \cup Switch : v.at[i] # <<x, 0>>
  <2> SUFFICES ASSUME NEW i \in I, NEW x \in Phys \cup Switch, v.at[i] = <<x, 0>> PROVE FALSE
    OBVIOUS
  <2>1. <<x, 0>> # Stray
    BY Strays DEF Port
  <2>2. PICK b \in Bond : v.at[i] = <<b, 0>>
    BY <1>3, <2>1
  <2> QED BY <2>2, Kinds
<1> HIDE DEF q
<1>5. \A b \in Bond : q.bond[b] # 0 => q.bond[b] = r.bond[b] /\ \A i \in I : v.at[i] # <<b, 0>>
  BY <1>2
<1>6. \A s \in Switch : q.bvi[s] # 0 => q.bvi[s] = r.bvi[s] /\ \A i \in I : v.at[i] # <<s, 0>>
  BY <1>2, <1>4
<1>7. Solid(Remove(v, I), q)
  <2>1. Leaves(v, I)
    BY <1>3, <1>4 DEF Leaves
  <2>2. Forgets(v, r, q, I)
    BY <1>2, <1>5, <1>6 DEF Forgets
  <2> QED BY <2>1, <2>2, Reduced
<1>8. Neat(v, r, Remove(v, I), q)
  BY <1>2, NeatRemove DEF Solid
<1> QED BY <1>1, <1>7, <1>8 DEF q, Costs

-----------------------------------------------------------------------------
\* What a recovery has brought back, and what it has still to come.
NoBond(P) == \A b : ~Waits(P, "bond", b)

BridgesBack(v, r, c, P) ==
  \A s \in c.switches :
    /\ Waits(P, "bd", s) => r.attached[s] = {}
    /\ ~Waits(P, "bd", s) => NoBond(P) /\ \A n \in Members(c, s) : \E i \in Index : v.at[i] = n /\ v.in[i] = s

BondsBack(v, r, c, P) ==
  \A b \in Bonds(c) :
    /\ Waits(P, "bond", b) => r.bond[b] = 0
    /\ ~Waits(P, "bond", b) =>
         /\ \E i \in Index : v.at[i] = <<b, 0>>
         /\ \A p \in Phys : p \in c.members[b] <=> v.slave[p] # 0 /\ v.at[v.slave[p]] = <<b, 0>>

Pruned(v, c, P) ==
  ~Waits(P, "prune", None) => \A i \in Index : v.at[i] # Stray /\ \A b \in Bond \ Bonds(c) : v.at[i] # <<b, 0>>

PoliciesBack(v, r, c, P) ==
  \A p \in Phys :
    /\ Waits(P, "iface", p) => r.policy[p] = None
    /\ ~Waits(P, "iface", p) =>
         /\ \A op \in P : op.kind = "iface"
         /\ c.policy[p] # None => \A i \in Index : v.at[i] = <<p, 0>> => v.input[i] = c.policy[p]

Back(v, r, c, P) == BridgesBack(v, r, c, P) /\ BondsBack(v, r, c, P) /\ Pruned(v, c, P)
Recovered(v, r, c, P) == Back(v, r, c, P) /\ PoliciesBack(v, r, c, P)

\* The policers come last.
LEMMA PoliciesWait ==
  ASSUME NEW v, NEW w, NEW r, NEW q, NEW c, NEW P, PoliciesBack(v, r, c, P), NEW op \in Op, op \in P,
         op.kind # "iface", q.policy = r.policy
  PROVE  PoliciesBack(w, q, c, P \ {op})
<1>1. \A p \in Phys : Waits(P, "iface", p) /\ r.policy[p] = None
  BY DEF PoliciesBack
<1>2. \A p \in Phys : Waits(P \ {op}, "iface", p)
  BY <1>1, Finished
<1> QED BY <1>1, <1>2 DEF PoliciesBack

\* New interfaces, none of them a bond that is not declared or without a name.
LEMMA GrownBack ==
  ASSUME NEW c \in Cfg, NEW P, NEW v, NEW r, Solid(v, r), Back(v, r, c, P), NEW w, w.slave = v.slave,
         \A i \in Index : v.at[i] # None => w.at[i] = v.at[i] /\ w.in[i] = v.in[i],
         \A i \in Index : v.at[i] = None => w.at[i] # Stray /\ \A b \in Bond \ Bonds(c) : w.at[i] # <<b, 0>>
  PROVE  Back(w, r, c, P)
<1>1. VppShape(v) /\ Firm(v)
  BY DEF Solid
<1>2. \A b \in Bond : <<b, 0>> # None
  BY Strays, SwitchingAssumption DEF Port
<1>3. Bonds(c) \subseteq Bond
  BY DEF Bonds
<1>4. BridgesBack(w, r, c, P)
  <2> SUFFICES ASSUME NEW s \in c.switches
               PROVE  /\ Waits(P, "bd", s) => r.attached[s] = {}
                      /\ ~Waits(P, "bd", s) => NoBond(P) /\ \A n \in Members(c, s) : \E i \in Index : w.at[i] = n /\ w.in[i] = s
    BY DEF BridgesBack
  <2>1. \A n \in Members(c, s) : n # None
    BY MemberNames
  <2>2. /\ Waits(P, "bd", s) => r.attached[s] = {}
        /\ ~Waits(P, "bd", s) => NoBond(P) /\ \A n \in Members(c, s) : \E i \in Index : v.at[i] = n /\ v.in[i] = s
    BY DEF Back, BridgesBack
  <2> QED BY <2>1, <2>2
<1>5. BondsBack(w, r, c, P)
  <2> SUFFICES ASSUME NEW b \in Bonds(c), ~Waits(P, "bond", b)
               PROVE  /\ \E i \in Index : w.at[i] = <<b, 0>>
                      /\ \A p \in Phys : p \in c.members[b] <=> w.slave[p] # 0 /\ w.at[w.slave[p]] = <<b, 0>>
    BY DEF Back, BondsBack
  <2>1. /\ \E i \in Index : v.at[i] = <<b, 0>>
        /\ \A p \in Phys : p \in c.members[b] <=> v.slave[p] # 0 /\ v.at[v.slave[p]] = <<b, 0>>
    BY DEF Back, BondsBack
  <2>2. \A p \in Phys : v.slave[p] # 0 => w.at[v.slave[p]] = v.at[v.slave[p]]
    BY <1>1 DEF VppShape, Firm
  <2> QED BY <1>2, <1>3, <2>1, <2>2
<1>6. Pruned(w, c, P)
  BY DEF Back, Pruned
<1> QED BY <1>4, <1>5, <1>6 DEF Back

\* Bonds that are not yet brought back may go, and what has no name.
LEMMA RemovedBack ==
  ASSUME NEW c \in Cfg, NEW P, NEW v, NEW r, Solid(v, r), Back(v, r, c, P), NEW N, N \subseteq Bond \cup {None},
         NEW I, I \subseteq Index, \A i \in I : \E x \in N : v.at[i] = <<x, 0>>,
         \A b \in N \cap Bonds(c) : Waits(P, "bond", b)
  PROVE  Back(Remove(v, I), r, c, P)
<1> DEFINE w == Remove(v, I)
           G == Gone(v, I)
<1>1. VppShape(v) /\ Firm(v)
  BY DEF Solid
<1>2. /\ \A i \in G : w.at[i] = None
      /\ \A i \in Index \ G : w.at[i] = v.at[i] /\ w.in[i] = v.in[i]
      /\ \A p \in Phys : w.slave[p] = IF v.slave[p] \in G THEN 0 ELSE v.slave[p]
  BY <1>1, RemovedAny
<1>3. \A i \in G : v.at[i][1] \in N
  BY DEF Gone
<1> HIDE DEF w, G
<1>4. /\ \A b \in Bond : <<b, 0>> # None /\ <<b, 0>> # Stray
      /\ Stray # None
  BY Strays, SwitchingAssumption DEF Port
<1>5. ASSUME NEW s \in c.switches, ~Waits(P, "bd", s), NEW n \in Members(c, s)
      PROVE  \E i \in Index : w.at[i] = n /\ w.in[i] = s
  <2>1. NoBond(P) /\ \E i \in Index : v.at[i] = n /\ v.in[i] = s
    BY <1>5 DEF Back, BridgesBack
  <2>2. PICK i \in Index : v.at[i] = n /\ v.in[i] = s
    BY <2>1
  <2>3. n[1] \in c.ports[s] /\ n[1] \in Port /\ c.ports[s] \cap Bond \subseteq Bonds(c)
    BY MemberNames, ConfigValid
  <2>4. n[1] \notin N
    <3> SUFFICES ASSUME n[1] \in N PROVE FALSE
      OBVIOUS
    <3>1. n[1] # None
      BY <2>3, Kinds
    <3>2. n[1] \in Bonds(c)
      BY <2>3, <3>1
    <3> QED BY <2>1, <3>2 DEF NoBond
  <2> QED BY <1>2, <1>3, <2>2, <2>4
<1>6. ASSUME NEW b \in Bonds(c), ~Waits(P, "bond", b)
      PROVE  /\ \E i \in Index : w.at[i] = <<b, 0>>
             /\ \A p \in Phys : p \in c.members[b] <=> w.slave[p] # 0 /\ w.at[w.slave[p]] = <<b, 0>>
  <2>1. /\ \E i \in Index : v.at[i] = <<b, 0>>
        /\ \A p \in Phys : p \in c.members[b] <=> v.slave[p] # 0 /\ v.at[v.slave[p]] = <<b, 0>>
    BY <1>6 DEF Back, BondsBack
  <2>2. b \notin N /\ b \in Bond
    BY <1>6 DEF Bonds
  <2>3. \A i \in G : v.at[i] # <<b, 0>>
    BY <1>3, <2>2
  <2>4. \A p \in Phys : v.slave[p] \in Index \cup {0}
    BY <1>1 DEF VppShape
  <2>5. \E i \in Index : w.at[i] = <<b, 0>>
    BY <1>2, <2>1, <2>3
  <2>6. ASSUME NEW p \in Phys PROVE p \in c.members[b] <=> w.slave[p] # 0 /\ w.at[w.slave[p]] = <<b, 0>>
    <3>1. CASE v.slave[p] \in G
      BY <1>2, <2>1, <2>3, <3>1
    <3>2. CASE v.slave[p] \notin G
      BY <1>2, <2>1, <2>4, <3>2
    <3> QED BY <3>1, <3>2
  <2> QED BY <2>5, <2>6
<1>7. Pruned(w, c, P)
  <2>1. \A i \in Index : w.at[i] = v.at[i] \/ w.at[i] = None
    BY <1>2
  <2> QED BY <1>4, <2>1 DEF Back, Pruned
<1>8. Back(w, r, c, P)
  BY <1>5, <1>6, <1>7 DEF Back, BridgesBack, BondsBack
<1> QED BY <1>8 DEF w

\* Operations that leave names, bridge domains and members alone.
LEMMA CalmBack ==
  ASSUME NEW c, NEW P, NEW v, NEW r, Back(v, r, c, P), NEW o, Calm(v, r, o), NEW op \in Op,
         op.kind \notin {"bond", "bd", "prune"}
  PROVE  Back(o.vpp, o.reg, c, P \ {op})
<1> DEFINE Q == P \ {op}
<1>1. \A k \in {"bond", "bd", "prune"} : \A x : Waits(Q, k, x) <=> Waits(P, k, x)
  BY Finished
<1> HIDE DEF Q
<1>2. NoBond(P) => NoBond(Q)
  BY <1>1 DEF NoBond
<1>3. BridgesBack(o.vpp, o.reg, c, Q)
  BY <1>1, <1>2 DEF Back, BridgesBack, Calm
<1>4. BondsBack(o.vpp, o.reg, c, Q)
  BY <1>1 DEF Back, BondsBack, Calm
<1>5. Pruned(o.vpp, c, Q)
  BY <1>1 DEF Back, Pruned, Calm
<1> QED BY <1>3, <1>4, <1>5 DEF Back, Q

\* The interface of a vNIC, made in a recovery, undoes nothing of what is back.
LEMMA VnicBack ==
  ASSUME NEW c \in Cfg, NEW P, NEW v, NEW r, Solid(v, r), RoomIn(v), Back(v, r, c, P), NEW op \in Op, op.kind = "vnic",
         op.obj \in Vnic, NEW o \in ApplyVnic(v, r, op.obj)
  PROVE  Back(o.vpp, o.reg, c, P \ {op}) /\ o.reg = r
<1> DEFINE n == op.obj
           w == Create(v, {<<n, 0>>})
<1>1. o = Ok(v, r) \/ o = Broken(v, r) \/ o = Ok(w, r)
  BY DEF ApplyVnic
<1>2. n \notin Bond /\ <<n, 0>> # Stray /\ <<n, 0>> \in IfName \cup {Stray}
  BY Kinds, Strays, SwitchingAssumption DEF Port
<1>3. VppShape(v) /\ \E i \in Index : v.at[i] = None
  BY FreeIndex DEF Solid
<1>4. /\ w.slave = v.slave /\ w.in = v.in
      /\ \A i \in Index : v.at[i] # None => w.at[i] = v.at[i]
      /\ \A i \in Index : v.at[i] = None => w.at[i] \in {<<n, 0>>, None}
  BY <1>2, <1>3, OneCreated
<1> HIDE DEF w
<1>5. None # Stray /\ \A b \in Bond : <<b, 0>> # None
  BY Strays, SwitchingAssumption DEF Port
<1>6. \A i \in Index : v.at[i] = None => w.at[i] # Stray /\ \A b \in Bond \ Bonds(c) : w.at[i] # <<b, 0>>
  BY <1>2, <1>4, <1>5
<1>7. Back(w, r, c, P)
  BY <1>4, <1>6, GrownBack
<1>8. o.reg = r /\ (o.vpp = v \/ o.vpp = w)
  BY <1>1, Results
<1>9. Back(o.vpp, o.reg, c, P) /\ RegShape(o.reg) /\ VppShape(o.vpp)
  <2>1. VppShape(w)
    BY <1>2, <1>3, OneCreated DEF w
  <2> QED BY <1>7, <1>8, <2>1 DEF Solid
<1>10. Calm(o.vpp, o.reg, o)
  BY <1>9 DEF Calm
<1>11. Back(o.vpp, o.reg, c, P \ {op})
  BY <1>9, <1>10, CalmBack
<1> QED BY <1>8, <1>11

-----------------------------------------------------------------------------
\* A state stays solid when nothing a recovery goes by has changed in the data plane.
LEMMA SameSolid ==
  ASSUME NEW v, NEW r, Solid(v, r), NEW w, Same(v, w)
  PROVE  Solid(w, r)
<1>1. VppShape(w) /\ w.at = v.at /\ w.slave = v.slave /\ RegShape(r)
  BY DEF Same, Solid
<1> QED BY <1>1, Steady

\* A state stays solid when the gateways and the bonds of the registries stay.
LEMMA SameRegSolid ==
  ASSUME NEW v, NEW r, Solid(v, r), NEW q, RegShape(q), q.bvi = r.bvi, q.bond = r.bond
  PROVE  Solid(v, q)
  BY DEF Solid, Held

\* Making ports members of an interface that exists, or of none, keeps a state solid.
LEMMA EnslaveSolid ==
  ASSUME NEW v, NEW r, Solid(v, r), NEW S, NEW i \in Index \cup {0}, i # 0 => v.at[i] # None
  PROVE  Solid(BondMember(v, S, i), r)
<1> DEFINE w == BondMember(v, S, i)
<1>1. VppShape(v) /\ RegShape(r) /\ Firm(v) /\ Held(v, r)
  BY DEF Solid
<1>2. VppShape(w) /\ w.at = v.at /\ \A p \in Phys : w.slave[p] = IF p \in S THEN i ELSE v.slave[p]
  BY <1>1, Enslaving
<1> HIDE DEF w
<1>3. \A p \in Phys : w.slave[p] # 0 => w.at[w.slave[p]] # None
  BY <1>1, <1>2 DEF Firm
<1>4. Firm(w)
  <2>1. /\ \A p \in Phys : \E j \in Index : w.at[j] = <<p, 0>>
        /\ \A j \in Index, b \in Bond, x \in Vlan : w.at[j] = <<b, x>> => \E k \in Index : w.at[k] = <<b, 0>>
    BY <1>1, <1>2 DEF Firm
  <2> QED BY <1>3, <2>1 DEF Firm
<1>5. Held(w, r)
  BY <1>1, <1>2 DEF Held
<1> QED BY <1>1, <1>2, <1>4, <1>5 DEF Solid, w

\* A bond that goes.
LEMMA BondLeaves ==
  ASSUME NEW v, NEW r, Solid(v, r), NEW b \in Bond, NEW i \in Index, v.at[i] = <<b, 0>>,
         NEW q, RegShape(q), q.bvi = r.bvi, q.bond[b] = 0, \A n \in Bond : n # b => q.bond[n] = r.bond[n]
  PROVE  Solid(Remove(v, {i}), q)
<1>1. b \notin Phys \cup Switch
  BY Kinds
<1>2. Leaves(v, {i})
  BY <1>1 DEF Leaves
<1>3. Forgets(v, r, q, {i})
  BY <1>1 DEF Forgets
<1> QED BY <1>2, <1>3, Reduced

\* The deletion of a bond, wherever it stops, keeps a state solid, and leaves an
\* interface behind only when a call fails.
LEMMA DeleteBondSolid ==
  ASSUME NEW v, NEW r, Solid(v, r), NEW b \in Bond, NEW o \in DeleteBond(v, r, b)
  PROVE  Solid(o.vpp, o.reg) /\ Costs(v, r, o)
<1> DEFINE i == IF r.bond[b] # 0 THEN r.bond[b] ELSE IndexOf(v, <<b, 0>>)
           S == {p \in Phys : v.slave[p] = i} \cup r.members[b]
           q == ForgetBond(r, b)
           w(T) == BondMember(v, T, 0)
           u == Remove(w(S), {i})
<1>1. \/ o = Ok(v, r)
      \/ i # 0 /\ o = Ok(u, q)
      \/ \E T \in SUBSET S : o = Broken(w(T), r)
  BY DEF DeleteBond
<1>2. \A T : Solid(w(T), r) /\ Neat(v, r, w(T), r)
  <2> TAKE T
  <2>1. Solid(w(T), r)
    BY EnslaveSolid
  <2>2. w(T).at = v.at
    BY Enslaving DEF Solid
  <2> HIDE DEF w
  <2> QED BY <2>1, <2>2, NeatSame
<1>3. ASSUME i # 0 PROVE Solid(u, q) /\ Neat(v, r, u, q)
  <2>1. VppShape(v) /\ RegShape(r) /\ Held(v, r)
    BY DEF Solid
  <2>2. i \in Index /\ v.at[i] = <<b, 0>>
    <3>1. CASE r.bond[b] # 0
      BY <2>1, <3>1 DEF Held, RegShape
    <3>2. CASE r.bond[b] = 0
      BY <1>3, <3>2, Indexed
    <3> QED BY <3>1, <3>2
  <2> HIDE DEF i
  <2>3. w(S).at = v.at
    BY <2>1, Enslaving
  <2> DEFINE x == [r.bond EXCEPT ![b] = 0]
             y == [r.members EXCEPT ![b] = {}]
             r1 == [r EXCEPT !.bond = x]
             r2 == [r1 EXCEPT !.members = y]
             r3 == [r2 EXCEPT !.lacp = r.lacp \ {b}]
  <2>4. q = r3
    BY <2>1 DEF ForgetBond, RegShape
  <2>5. x \in [Bond -> Index \cup {0}] /\ x[b] = 0 /\ \A n \in Bond : n # b => x[n] = r.bond[n]
    BY <2>1 DEF RegShape
  <2> HIDE DEF q, x, y, w, S
  <2>6. BondReg(r, r1, x)
    BY <2>1, <2>5, OtherRegs
  <2> HIDE DEF r1
  <2>7. SameReg(r1, r2)
    BY <2>6, OtherRegs DEF BondReg
  <2> HIDE DEF r2
  <2>8. SameReg(r2, r3)
    <3>1. RegShape(r2)
      BY <2>7 DEF SameReg
    <3> QED BY <3>1, OtherRegs
  <2> HIDE DEF r3
  <2>9. RegShape(q) /\ q.bvi = r.bvi /\ q.bond = x
    BY <2>4, <2>6, <2>7, <2>8 DEF BondReg, SameReg
  <2>10. Solid(w(S), r) /\ w(S).at[i] = <<b, 0>> /\ i \in Index
    BY <1>2, <2>2, <2>3
  <2>11. Solid(u, q)
    BY <2>5, <2>9, <2>10, BondLeaves
  <2>12. Neat(w(S), r, u, q)
    BY <2>9, <2>10, NeatRemove DEF Solid
  <2> HIDE DEF u
  <2> QED BY <1>2, <2>11, <2>12, NeatNeat
<1> HIDE DEF u, q, w, i, S
<1>4. CASE \E T \in SUBSET S : o = Broken(w(T), r)
  <2>1. PICK T : o = Broken(w(T), r)
    BY <1>4
  <2>2. o.vpp = w(T) /\ o.reg = r
    BY <2>1, Results
  <2> QED BY <1>2, <2>2 DEF Costs
<1>5. CASE i # 0 /\ o = Ok(u, q)
  BY <1>3, <1>5, Results DEF Costs
<1>6. CASE o = Ok(v, r)
  <2>1. o.vpp = v /\ o.reg = r
    BY <1>6, Results
  <2> QED BY <2>1, NeatSame DEF Costs
<1> QED BY <1>1, <1>4, <1>5, <1>6

\* A recovery has forgotten the bonds: what VPP has of one goes, and it is made anew.
Rebuilt(v, r, c, b, o, w, i) ==
  LET u == Create(w, {<<b, 0>>}) IN
  /\ \/ w = v /\ \A j \in Index : v.at[j] # <<b, 0>>
     \/ \E j \in Index : v.at[j] = <<b, 0>> /\ w = Remove(v, {j})
  /\ VppShape(w) /\ Solid(w, r) /\ \E j \in Index : w.at[j] = None
  /\ u.at[i] = <<b, 0>> /\ o.vpp.at = u.at /\ o.vpp.in = u.in
  /\ \A p \in Phys : o.vpp.slave[p] = IF p \in c.members[b] THEN i ELSE u.slave[p]
  /\ \A p \in c.members[b] : u.slave[p] = 0
  /\ o.reg.attached = r.attached /\ o.reg.policy = r.policy
  /\ \A n \in Bond : n # b => o.reg.bond[n] = r.bond[n]

\* A bond is made, or made anew, or has its members changed; a failing call may leave an
\* interface without a name.
LEMMA BondMade ==
  ASSUME NEW v, NEW r, Solid(v, r), RoomIn(v), NEW c, NEW b \in Bond, c.members[b] \subseteq Phys, NEW o \in ApplyBond(v, r, c, b)
  PROVE  /\ Solid(o.vpp, o.reg) /\ Costs(v, r, o)
         /\ o.ok /\ r.bond[b] = 0 =>
              \E w : \E i \in Index : Rebuilt(v, r, c, b, o, w, i)
<1> DEFINE known == r.bond[b] # 0
           again == IF known THEN (b \in r.lacp) # (b \in c.lacp) ELSE Exists(v, <<b, 0>>)
           fresh == ~known \/ again
           i0 == IF known THEN r.bond[b] ELSE IndexOf(v, <<b, 0>>)
           v1 == IF ~again THEN v ELSE Remove(v, {i0})
           r1 == IF again THEN [r EXCEPT !.bond[b] = 0] ELSE r
           v2 == IF fresh THEN Create(v1, {<<b, 0>>}) ELSE v1
           i == IF fresh THEN IndexOf(v2, <<b, 0>>) ELSE r.bond[b]
           old == IF fresh THEN {} ELSE r.members[b]
           gone == old \ c.members[b]
           add == c.members[b] \ old
           u == BondMember(v2, gone, 0)
           x3 == IF b \in c.lacp THEN u.lacp \cup {i} ELSE u.lacp
           v3 == [u EXCEPT !.lacp = x3]
           enslave(S) == BondMember(v3, S, i)
           taken == {p \in add : v3.slave[p] # 0}
           r2 == [r1 EXCEPT !.bond[b] = i, !.members[b] = c.members[b],
                            !.lacp = IF b \in c.lacp THEN @ \cup {b} ELSE @ \ {b}]
           stray == Create(v1, {Stray})
<1>1. \/ taken = {} /\ o = Ok(enslave(add), r2)
      \/ ~o.ok /\ o.vpp = v /\ o.reg = r
      \/ ~o.ok /\ o.vpp = v1 /\ o.reg = r1
      \/ ~o.ok /\ o.vpp = v3 /\ o.reg = r1
      \/ ~o.ok /\ o.reg = r1 /\ \E S \in SUBSET add : o.vpp = enslave(S)
      \/ ~o.ok /\ o.reg = r1 /\ fresh /\ o.vpp = stray /\ o.fault
  <2> DEFINE all == {Ok(enslave(add), r2), Broken(v, r), Broken(v1, r1), Broken(v3, r1)}
                    \cup {Broken(enslave(S), r1) : S \in SUBSET add}
                    \cup (IF fresh THEN {Broken(stray, r1)} ELSE {})
             refused == {Refuse(enslave(S), r1) : S \in SUBSET (add \ taken)}
  <2>1. IF taken # {} THEN o \in refused ELSE o \in all
    BY Zenon DEF ApplyBond
  <2> HIDE DEF taken, fresh, r2, r1, v1, v3, enslave, stray, add
  <2>2. CASE taken # {}
    <3>1. PICK S \in SUBSET add : o = Refuse(enslave(S), r1)
      BY <2>1, <2>2
    <3> QED BY <3>1, Results
  <2>3. CASE taken = {}
    <3>1. \/ o = Ok(enslave(add), r2) \/ o = Broken(v, r) \/ o = Broken(v1, r1) \/ o = Broken(v3, r1)
          \/ \E S \in SUBSET add : o = Broken(enslave(S), r1)
          \/ fresh /\ o = Broken(stray, r1)
      BY <2>1, <2>3
    <3>2. CASE \E S \in SUBSET add : o = Broken(enslave(S), r1)
      <4>1. PICK S \in SUBSET add : o = Broken(enslave(S), r1)
        BY <3>2
      <4> QED BY <4>1, Results
    <3> QED BY <2>3, <3>1, <3>2, Results
  <2> QED BY <2>2, <2>3
<1>2. VppShape(v) /\ RegShape(r) /\ Firm(v) /\ Held(v, r)
  BY DEF Solid
<1>3. /\ <<b, 0>> # None /\ <<b, 0>> \in IfName \cup {Stray} /\ Stray = <<None, 0>> /\ Stray \in IfName \cup {Stray}
      /\ b \in Port \cup Switch \cup {None} /\ None \in Port \cup Switch \cup {None}
  BY Strays, SwitchingAssumption DEF Port
<1>4. ASSUME again PROVE i0 \in Index /\ v.at[i0] = <<b, 0>>
  <2>1. CASE known
    BY <1>2, <2>1 DEF Held, RegShape
  <2>2. CASE ~known
    <3>1. PICK j \in Index : v.at[j] = <<b, 0>>
      BY <1>4, <2>2, Indexed
    <3> QED BY <2>2, <3>1, Indexed
  <2> QED BY <2>1, <2>2
<1>5. RegShape(r1) /\ r1.bvi = r.bvi /\ r1.attached = r.attached /\ r1.policy = r.policy
      /\ (\A n \in Bond : n # b => r1.bond[n] = r.bond[n]) /\ r1.bond[b] = IF again THEN 0 ELSE r.bond[b]
  <2> DEFINE x == [r.bond EXCEPT ![b] = 0]
             q == [r EXCEPT !.bond = x]
  <2>1. x \in [Bond -> Index \cup {0}] /\ x[b] = 0 /\ \A n \in Bond : n # b => x[n] = r.bond[n]
    BY <1>2 DEF RegShape
  <2>2. r1 = IF again THEN q ELSE r
    OBVIOUS
  <2> HIDE DEF x, again, r1
  <2>3. BondReg(r, q, x)
    BY <1>2, <2>1, OtherRegs
  <2> HIDE DEF q
  <2> QED BY <1>2, <2>1, <2>2, <2>3 DEF BondReg
<1>6. Solid(v1, r1) /\ VppShape(v1) /\ \E j \in Index : v1.at[j] = None
  <2>1. CASE again
    <3>1. Solid(Remove(v, {i0}), r1)
      <4>1. i0 \in Index /\ v.at[i0] = <<b, 0>>
        BY <1>4, <2>1
      <4>2. RegShape(r1) /\ r1.bvi = r.bvi /\ r1.bond[b] = 0 /\ \A n \in Bond : n # b => r1.bond[n] = r.bond[n]
        <5> HIDE DEF again, r1
        <5> QED BY <1>5, <2>1
      <4> HIDE DEF i0, r1
      <4> QED BY <4>1, <4>2, BondLeaves
    <3>2. \A j \in Gone(v, {i0}) : Remove(v, {i0}).at[j] = None
      BY <1>2, RemovedAny
    <3>3. i0 \in Gone(v, {i0})
      BY <1>4, <2>1 DEF Gone
    <3>4. v1 = Remove(v, {i0})
      BY <2>1
    <3> HIDE DEF v1, i0, r1
    <3> QED BY <1>4, <2>1, <3>1, <3>2, <3>3, <3>4 DEF Solid
  <2>2. CASE ~again
    BY <1>2, <2>2, FreeIndex
  <2> QED BY <2>1, <2>2
<1> HIDE DEF r1
<1>18. Neat(v, r, v1, r1)
  <2>1. CASE again
    <3>1. v1 = Remove(v, {i0})
      BY <2>1
    <3> HIDE DEF v1, i0
    <3> QED BY <1>2, <1>5, <3>1, NeatRemove
  <2>2. CASE ~again
    <3>1. v1 = v
      BY <2>2
    <3> HIDE DEF v1
    <3> QED BY <1>5, <3>1, NeatSame
  <2> QED BY <2>1, <2>2
<1>19. Neat(v, r, v2, r1)
  <2>1. ASSUME fresh PROVE \A j \in Index : v1.at[j] # <<b, 0>>
    <3>1. CASE again
      <4>1. v1 = Remove(v, {i0})
        BY <3>1
      <4> HIDE DEF v1
      <4> SUFFICES ASSUME NEW j \in Index, v1.at[j] = <<b, 0>> PROVE FALSE
        OBVIOUS
      <4>2. /\ \A k \in Gone(v, {i0}) : v1.at[k] = None
            /\ \A k \in Index \ Gone(v, {i0}) : v1.at[k] = v.at[k]
        BY <1>2, <4>1, RemovedAny
      <4>3. i0 \in Index /\ v.at[i0] = <<b, 0>>
        BY <1>4, <3>1
      <4> HIDE DEF i0
      <4>4. j \notin Gone(v, {i0}) /\ v.at[j] = <<b, 0>>
        BY <1>3, <4>2
      <4>5. v.at[j] # None /\ v.at[i0] # None /\ v.at[i0][2] = 0 /\ v.at[j][1] = v.at[i0][1]
        BY <1>3, <4>3, <4>4
      <4> QED BY <4>4, <4>5 DEF Gone
    <3>2. CASE ~again
      <4>1. v1 = v /\ ~Exists(v, <<b, 0>>)
        BY <2>1, <3>2
      <4> HIDE DEF v1
      <4> QED BY <4>1, Indexed
    <3> QED BY <3>1, <3>2
  <2>2. b \in Port
    BY DEF Port
  <2> HIDE DEF v1
  <2>3. CASE fresh
    <3>1. v2 = Create(v1, {<<b, 0>>})
      BY <2>3
    <3>2. Neat(v1, r1, Create(v1, {<<b, 0>>}), r1)
      BY <1>6, <2>1, <2>2, <2>3, NeatNew
    <3> HIDE DEF v2
    <3> QED BY <1>18, <3>1, <3>2, NeatNeat
  <2>4. CASE ~fresh
    <3>1. v2 = v1
      BY <2>4
    <3> HIDE DEF v2
    <3> QED BY <1>18, <3>1
  <2> QED BY <2>3, <2>4
<1>20. Dear(v, r, stray, r1)
  <2> HIDE DEF v1
  <2>1. Dear(v1, r1, stray, r1)
    BY <1>3, <1>6, DearNew DEF Repeatable
  <2> HIDE DEF stray
  <2> QED BY <1>18, <2>1, NeatNeat
<1>7. /\ Solid(v2, r1) /\ VppShape(v2)
      /\ i \in Index /\ v2.at[i] = <<b, 0>>
  <2> HIDE DEF v1
  <2>1. CASE fresh
    <3>1. v2 = Create(v1, {<<b, 0>>})
      BY <2>1
    <3>2. Solid(v2, r1)
      BY <1>3, <1>6, <3>1, OneSolid
    <3>3. \E j \in Index : v2.at[j] = <<b, 0>>
      <4> HIDE DEF v2
      <4>1. \E j \in Index : v1.at[j] = None /\ Create(v1, {<<b, 0>>}).at[j] = <<b, 0>>
        BY <1>3, <1>6, OneCreated
      <4> QED BY <3>1, <4>1
    <3>4. i = IndexOf(v2, <<b, 0>>)
      BY <2>1
    <3> HIDE DEF v2, i
    <3> QED BY <3>2, <3>3, <3>4, Indexed DEF Solid
  <2>2. CASE ~fresh
    <3>1. v2 = v1 /\ v1 = v /\ i = r.bond[b] /\ r.bond[b] # 0
      BY <2>2 DEF v1
    <3> HIDE DEF v2, i
    <3> QED BY <1>2, <1>6, <3>1 DEF Held, RegShape
  <2> QED BY <2>1, <2>2
<1>8. Solid(stray, r1)
  <2> HIDE DEF v1
  <2> QED BY <1>3, <1>6, OneSolid
<1> HIDE DEF v2, stray, i
<1>9. VppShape(u) /\ u.at = v2.at /\ u.in = v2.in /\ \A p \in Phys : u.slave[p] = IF p \in gone THEN 0 ELSE v2.slave[p]
  BY <1>7, Enslaving
<1>10. Solid(u, r1)
  BY <1>7, EnslaveSolid
<1> HIDE DEF u
<1>11. Same(u, v3)
  <2> HIDE DEF x3
  <2> QED BY <1>9, Others
<1>12. Solid(v3, r1) /\ VppShape(v3) /\ v3.at = v2.at /\ v3.in = v2.in /\ v3.slave = u.slave
  BY <1>9, <1>10, <1>11, SameSolid DEF Same
<1> HIDE DEF v3
<1>13. ASSUME NEW S
       PROVE  /\ Solid(enslave(S), r1) /\ enslave(S).at = v2.at /\ enslave(S).in = v2.in
              /\ \A p \in Phys : enslave(S).slave[p] = IF p \in S THEN i ELSE v3.slave[p]
  <2>1. Solid(enslave(S), r1)
    BY <1>3, <1>7, <1>12, EnslaveSolid
  <2>2. i \in Index \cup {0}
    BY <1>7
  <2> QED BY <2>1, <2>2, <1>12, Enslaving
<1>14. RegShape(r2) /\ r2.bvi = r1.bvi /\ r2.attached = r1.attached /\ r2.policy = r1.policy
       /\ r2.bond[b] = i /\ \A n \in Bond : n # b => r2.bond[n] = r1.bond[n]
  <2> DEFINE x == [r1.bond EXCEPT ![b] = i]
             y == [r1.members EXCEPT ![b] = c.members[b]]
             z == IF b \in c.lacp THEN r1.lacp \cup {b} ELSE r1.lacp \ {b}
             q1 == [r1 EXCEPT !.bond = x]
             q2 == [q1 EXCEPT !.members = y]
             q3 == [q2 EXCEPT !.lacp = z]
  <2>1. r2 = q3
    BY <1>5 DEF RegShape
  <2>2. x \in [Bond -> Index \cup {0}] /\ x[b] = i /\ \A n \in Bond : n # b => x[n] = r1.bond[n]
    BY <1>5, <1>7 DEF RegShape
  <2> HIDE DEF x, y, z, r2
  <2>3. BondReg(r1, q1, x)
    BY <1>5, <2>2, OtherRegs
  <2> HIDE DEF q1
  <2>4. SameReg(q1, q2)
    BY <2>3, OtherRegs DEF BondReg
  <2> HIDE DEF q2
  <2>5. SameReg(q2, q3)
    <3>1. RegShape(q2)
      BY <2>4 DEF SameReg
    <3> QED BY <3>1, OtherRegs
  <2> HIDE DEF q3
  <2> QED BY <2>1, <2>2, <2>3, <2>4, <2>5 DEF BondReg, SameReg
<1> HIDE DEF r2
<1>15. Solid(enslave(add), r2)
  <2> DEFINE w == enslave(add)
  <2>1. Solid(w, r1) /\ w.at = v2.at
    BY <1>13
  <2> HIDE DEF w
  <2>2. \A n \in Bond : r2.bond[n] # 0 => w.at[r2.bond[n]] = <<n, 0>>
    <3> SUFFICES ASSUME NEW n \in Bond, r2.bond[n] # 0 PROVE w.at[r2.bond[n]] = <<n, 0>>
      OBVIOUS
    <3>1. CASE n = b
      BY <1>7, <1>14, <2>1, <3>1
    <3>2. CASE n # b
      BY <1>14, <2>1, <3>2 DEF Solid, Held
    <3> QED BY <3>1, <3>2
  <2>3. Held(w, r2)
    BY <1>14, <2>1, <2>2 DEF Solid, Held
  <2>4. Solid(w, r2)
    BY <1>14, <2>1, <2>3 DEF Solid
  <2> QED BY <2>4 DEF w
<1> HIDE DEF enslave
<1>21. /\ Neat(v, r, v, r) /\ Neat(v, r, v3, r1) /\ Neat(v, r, enslave(add), r2)
       /\ \A S : Neat(v, r, enslave(S), r1)
  <2>1. Neat(v, r, v, r)
    BY NeatSame
  <2>2. Neat(v, r, v3, r1)
    BY <1>12, <1>19, NeatStill
  <2>3. Neat(v, r, enslave(add), r2)
    <3>1. enslave(add).at = v2.at /\ r2.bvi = r1.bvi
      BY <1>13, <1>14
    <3> QED BY <1>19, <3>1, NeatStill
  <2>4. ASSUME NEW S PROVE Neat(v, r, enslave(S), r1)
    <3>1. enslave(S).at = v2.at
      BY <1>13
    <3> QED BY <1>19, <3>1, NeatStill
  <2> QED BY <2>1, <2>2, <2>3, <2>4
<1>22. Costs(v, r, o)
  <2> HIDE DEF v1, add, taken, fresh
  <2>1. CASE taken = {} /\ o = Ok(enslave(add), r2)
    BY <1>21, <2>1, Results DEF Costs
  <2>2. CASE o.reg = r1 /\ o.vpp = stray /\ o.fault
    BY <1>20, <2>2 DEF Costs
  <2>3. CASE o.reg = r1 /\ \E S \in SUBSET add : o.vpp = enslave(S)
    BY <1>21, <2>3 DEF Costs
  <2>4. CASE o.reg = r1 /\ (o.vpp = v1 \/ o.vpp = v3)
    BY <1>18, <1>21, <2>4 DEF Costs
  <2>5. CASE o.reg = r /\ o.vpp = v
    BY <1>21, <2>5 DEF Costs
  <2> QED BY <1>1, <2>1, <2>2, <2>3, <2>4, <2>5
<1>16. Solid(o.vpp, o.reg)
  <2> HIDE DEF v1, add, taken, fresh
  <2>1. CASE taken = {} /\ o = Ok(enslave(add), r2)
    BY <1>15, <2>1, Results
  <2> QED BY <1>1, <1>6, <1>8, <1>12, <1>13, <1>15, <2>1
<1>17. ASSUME o.ok, r.bond[b] = 0
       PROVE  \E w : \E k \in Index : Rebuilt(v, r, c, b, o, w, k)
  <2>1. fresh /\ ~known /\ gone = {} /\ add = c.members[b]
    BY <1>17
  <2>2. taken = {} /\ o.vpp = enslave(c.members[b]) /\ o.reg = r2
    <3>1. taken = {} /\ o = Ok(enslave(add), r2)
      BY <1>1, <1>17
    <3> QED BY <2>1, <3>1, Results
  <2>3. v2 = Create(v1, {<<b, 0>>})
    BY <2>1 DEF v2
  <2>4. (v1 = v /\ \A j \in Index : v.at[j] # <<b, 0>>) \/ \E j \in Index : v.at[j] = <<b, 0>> /\ v1 = Remove(v, {j})
    <3>1. CASE again
      BY <1>4, <3>1
    <3>2. CASE ~again
      BY <2>1, <3>2, Indexed
    <3> QED BY <3>1, <3>2
  <2> HIDE DEF v1
  <2>5. Solid(v1, r)
    <3>1. \A n \in Bond : r1.bond[n] = r.bond[n]
      BY <1>5, <1>17
    <3> QED BY <1>2, <1>5, <1>6, <3>1 DEF Solid, Held
  <2>6. \A p \in Phys : u.slave[p] = v2.slave[p]
    BY <1>9, <2>1
  <2>7. \A p \in Phys : enslave(c.members[b]).slave[p] = IF p \in c.members[b] THEN i ELSE v2.slave[p]
    BY <1>12, <1>13, <2>6
  <2>8. \A p \in c.members[b] : v2.slave[p] = 0
    <3>1. \A p \in c.members[b] : v3.slave[p] = 0
      BY <2>1, <2>2
    <3> QED BY <1>12, <2>6, <3>1
  <2>9. enslave(c.members[b]).at = v2.at /\ enslave(c.members[b]).in = v2.in
    BY <1>13
  <2>10. o.reg.attached = r.attached /\ o.reg.policy = r.policy /\ \A n \in Bond : n # b => o.reg.bond[n] = r.bond[n]
    BY <1>5, <1>14, <2>2
  <2> HIDE DEF known, again, fresh, i0, old, gone, add, taken
  <2>11. Rebuilt(v, r, c, b, o, v1, i)
    BY <1>6, <1>7, <2>2, <2>3, <2>4, <2>5, <2>7, <2>8, <2>9, <2>10 DEF Rebuilt
  <2> QED BY <1>7, <2>11
<1> QED BY <1>16, <1>17, <1>22

-----------------------------------------------------------------------------
\* A bond applied in a recovery is back with its members, and undoes nothing of what is back.
LEMMA BondBack ==
  ASSUME NEW c \in Cfg, NEW P, NEW v, NEW r, Solid(v, r), RoomIn(v), Back(v, r, c, P), NEW op \in Op, op \in P,
         op.kind = "bond", op.obj \in Bonds(c), NEW o \in ApplyBond(v, r, c, op.obj), o.ok
  PROVE  Back(o.vpp, o.reg, c, P \ {op}) /\ o.reg.policy = r.policy
<1> DEFINE b == op.obj
           Q == P \ {op}
<1>1. b \in Bond /\ c.members[b] \subseteq Phys /\ Bonds(c) \subseteq Bond
  BY ConfigTypes DEF Bonds
<1>2. Waits(P, "bond", b) /\ r.bond[b] = 0
  <2>1. Waits(P, "bond", b)
    BY OpKinds DEF Waits
  <2> QED BY <2>1 DEF Back, BondsBack
<1>3. PICK w : \E i \in Index : Rebuilt(v, r, c, b, o, w, i)
  BY <1>1, <1>2, BondMade
<1>4. PICK i \in Index : Rebuilt(v, r, c, b, o, w, i)
  BY <1>3
<1> DEFINE u == Create(w, {<<b, 0>>})
<1>5. /\ \/ w = v /\ \A j \in Index : v.at[j] # <<b, 0>>
         \/ \E j \in Index : v.at[j] = <<b, 0>> /\ w = Remove(v, {j})
      /\ VppShape(w) /\ Solid(w, r) /\ \E j \in Index : w.at[j] = None
      /\ u.at[i] = <<b, 0>> /\ o.vpp.at = u.at /\ o.vpp.in = u.in
      /\ \A p \in Phys : o.vpp.slave[p] = IF p \in c.members[b] THEN i ELSE u.slave[p]
      /\ \A p \in c.members[b] : u.slave[p] = 0
      /\ o.reg.attached = r.attached /\ o.reg.policy = r.policy
      /\ \A n \in Bond : n # b => o.reg.bond[n] = r.bond[n]
  BY <1>4 DEF Rebuilt
<1>6. \A k, x : Waits(Q, k, x) <=> Waits(P, k, x) /\ ~("bond" = k /\ b = x)
  BY Finished
<1>7. \A s \in c.switches : Waits(P, "bd", s) /\ Waits(Q, "bd", s)
  BY <1>2, <1>6 DEF Back, BridgesBack, NoBond
<1> HIDE DEF Q
<1>8. <<b, 0>> # None /\ <<b, 0>> # Stray /\ Stray # None /\ <<b, 0>> \in IfName \cup {Stray}
      /\ \A x \in Bond : <<x, 0>> # None
  BY <1>1, Strays, SwitchingAssumption DEF Port
\* What VPP had of the bond is gone.
<1>9. Back(w, r, c, P) /\ \A j \in Index : w.at[j] # <<b, 0>>
  <2>1. CASE w = v /\ \A j \in Index : v.at[j] # <<b, 0>>
    BY <2>1
  <2>2. CASE \E j \in Index : v.at[j] = <<b, 0>> /\ w = Remove(v, {j})
    <3>1. PICK j \in Index : v.at[j] = <<b, 0>> /\ w = Remove(v, {j})
      BY <2>2
    <3>2. {b} \subseteq Bond \cup {None} /\ {j} \subseteq Index /\ (\A k \in {j} : \E x \in {b} : v.at[k] = <<x, 0>>)
          /\ \A x \in {b} \cap Bonds(c) : Waits(P, "bond", x)
      BY <1>1, <1>2, <3>1
    <3>3. Back(Remove(v, {j}), r, c, P)
      BY <3>2, RemovedBack
    <3>4. /\ \A k \in Gone(v, {j}) : Remove(v, {j}).at[k] = None
          /\ \A k \in Index \ Gone(v, {j}) : Remove(v, {j}).at[k] = v.at[k]
      BY RemovedAny DEF Solid
    <3>5. \A k \in Index : v.at[k] = <<b, 0>> => k \in Gone(v, {j})
      BY <1>8, <3>1 DEF Gone
    <3> QED BY <1>8, <3>1, <3>3, <3>4, <3>5
  <2> QED BY <1>5, <2>1, <2>2
<1>10. /\ u.slave = w.slave /\ u.in = w.in
       /\ \A j \in Index : w.at[j] # None => u.at[j] = w.at[j]
       /\ \A j \in Index : w.at[j] = None => u.at[j] \in {<<b, 0>>, None}
  BY <1>5, <1>8, OneCreated
<1> HIDE DEF u
<1>11. Back(u, r, c, P)
  <2>1. \A j \in Index : w.at[j] = None => u.at[j] # Stray /\ \A x \in Bond \ Bonds(c) : u.at[j] # <<x, 0>>
    BY <1>8, <1>10
  <2>2. \A j \in Index : w.at[j] # None => u.at[j] = w.at[j] /\ u.in[j] = w.in[j]
    BY <1>10
  <2>3. Solid(w, r) /\ Back(w, r, c, P) /\ u.slave = w.slave
    BY <1>5, <1>9, <1>10
  <2> QED BY <2>1, <2>2, <2>3, GrownBack
<1>12. \A p \in Phys : u.slave[p] # 0 => u.at[u.slave[p]] # <<b, 0>>
  <2> SUFFICES ASSUME NEW p \in Phys, u.slave[p] # 0 PROVE u.at[u.slave[p]] # <<b, 0>>
    OBVIOUS
  <2>1. w.slave[p] \in Index /\ w.at[w.slave[p]] # None
    BY <1>5, <1>10 DEF Solid, VppShape, Firm
  <2> QED BY <1>9, <1>10, <2>1
<1> DEFINE z == o.vpp
           q == o.reg
<1>13. i # 0
  BY SwitchingAssumption
<1>14. BondsBack(z, q, c, Q)
  <2>1. ASSUME NEW n \in Bonds(c), Waits(Q, "bond", n) PROVE q.bond[n] = 0
    <3>1. Waits(P, "bond", n) /\ n # b
      BY <1>6, <2>1
    <3> QED BY <1>1, <1>5, <1>11, <3>1 DEF Back, BondsBack
  <2>2. ASSUME NEW n \in Bonds(c), ~Waits(Q, "bond", n)
        PROVE  /\ \E j \in Index : z.at[j] = <<n, 0>>
               /\ \A p \in Phys : p \in c.members[n] <=> z.slave[p] # 0 /\ z.at[z.slave[p]] = <<n, 0>>
    <3>1. CASE n = b
      <4>1. \A p \in Phys : p \in c.members[b] <=> z.slave[p] # 0 /\ z.at[z.slave[p]] = <<b, 0>>
        BY <1>5, <1>12, <1>13
      <4> QED BY <1>5, <3>1, <4>1
    <3>2. CASE n # b
      <4>1. /\ \E j \in Index : u.at[j] = <<n, 0>>
            /\ \A p \in Phys : p \in c.members[n] <=> u.slave[p] # 0 /\ u.at[u.slave[p]] = <<n, 0>>
        BY <1>6, <1>11, <2>2, <3>2 DEF Back, BondsBack
      <4>2. <<n, 0>> # <<b, 0>>
        BY <3>2
      <4>3. \A p \in Phys : p \in c.members[n] <=> z.slave[p] # 0 /\ z.at[z.slave[p]] = <<n, 0>>
        <5> SUFFICES ASSUME NEW p \in Phys PROVE p \in c.members[n] <=> z.slave[p] # 0 /\ z.at[z.slave[p]] = <<n, 0>>
          OBVIOUS
        <5>1. CASE p \in c.members[b]
          BY <1>5, <4>1, <4>2, <5>1
        <5>2. CASE p \notin c.members[b]
          BY <1>5, <4>1, <5>2
        <5> QED BY <5>1, <5>2
      <4> QED BY <1>5, <4>1, <4>3
    <3> QED BY <3>1, <3>2
  <2> QED BY <2>1, <2>2 DEF BondsBack
<1>15. BridgesBack(z, q, c, Q)
  BY <1>5, <1>7, <1>11 DEF Back, BridgesBack
<1>16. Pruned(z, c, Q)
  BY <1>5, <1>6, <1>11 DEF Back, Pruned
<1> QED BY <1>5, <1>14, <1>15, <1>16 DEF Back, Q

\* After the pruning there is no bond but the declared ones and no unnamed interface, and
\* nothing of what is back is undone.
LEMMA PruneBack ==
  ASSUME NEW c \in Cfg, NEW P, NEW v, NEW r, Solid(v, r), Back(v, r, c, P), NEW op \in Op, op.kind = "prune",
         NEW o \in PruneBonds(v, r, c), o.ok
  PROVE  Back(o.vpp, o.reg, c, P \ {op}) /\ o.reg.policy = r.policy
<1>0. PICK I \in SUBSET Undeclared(v, c) : o.vpp = Remove(v, I) /\ o.reg = PrunedReg(v, r, I) /\ I = Undeclared(v, c)
  BY PruneOutcomes
<1> DEFINE Q == P \ {op}
           w == Remove(v, I)
           q == PrunedReg(v, r, I)
           N == (Bond \ Bonds(c)) \cup {None}
<1>1. o.vpp = w /\ o.reg = q
  BY <1>0
<1>2. /\ RegShape(q) /\ q.attached = r.attached /\ q.policy = r.policy
      /\ \A b \in Bond : q.bond[b] # 0 => q.bond[b] = r.bond[b]
  <2>1. RegShape(r)
    BY DEF Solid
  <2>2. /\ RegShape(q) /\ q.attached = r.attached /\ q.bvi = r.bvi /\ q.policy = r.policy
        /\ \A b \in Bond : q.bond[b] # 0 => q.bond[b] = r.bond[b] /\ \A i \in I : v.at[i] # <<b, 0>>
    BY <2>1, RegPruned
  <2> HIDE DEF q
  <2> QED BY <2>2
<1>3. I \subseteq Index /\ \A i \in Index : i \in I <=> v.at[i] = Stray \/ \E b \in Bond \ Bonds(c) : v.at[i] = <<b, 0>>
  BY <1>0 DEF Undeclared, Bonds
<1>4. Back(w, r, c, P)
  <2>1. \A i \in I : \E x \in N : v.at[i] = <<x, 0>>
    BY <1>3, Strays
  <2>2. N \subseteq Bond \cup {None} /\ \A b \in N \cap Bonds(c) : Waits(P, "bond", b)
    BY Kinds DEF Bonds, Port
  <2> HIDE DEF N
  <2> QED BY <1>3, <2>1, <2>2, RemovedBack
<1>5. \A i \in Index : w.at[i] # Stray /\ \A b \in Bond \ Bonds(c) : w.at[i] # <<b, 0>>
  <2>1. /\ \A i \in Gone(v, I) : w.at[i] = None
        /\ \A i \in Index \ Gone(v, I) : w.at[i] = v.at[i]
    BY RemovedAny DEF Solid
  <2>2. \A i \in Index : i \in I => i \in Gone(v, I)
    BY DEF Gone
  <2>3. None # Stray /\ \A b \in Bond : <<b, 0>> # None
    BY Strays, SwitchingAssumption DEF Port
  <2> HIDE DEF w
  <2> QED BY <1>3, <2>1, <2>2, <2>3
<1>6. \A k \in {"bond", "bd"} : \A x : Waits(Q, k, x) <=> Waits(P, k, x)
  BY Finished
<1> HIDE DEF w, q, Q
<1>7. BridgesBack(w, q, c, Q)
  <2>1. NoBond(P) => NoBond(Q)
    BY <1>6 DEF NoBond
  <2> QED BY <1>2, <1>4, <1>6, <2>1 DEF Back, BridgesBack
<1>8. BondsBack(w, q, c, Q)
  <2>1. \A b \in Bonds(c) : r.bond[b] = 0 => q.bond[b] = 0
    BY <1>2 DEF Bonds
  <2> QED BY <1>4, <1>6, <2>1 DEF Back, BondsBack
<1>9. Pruned(w, c, Q)
  BY <1>5 DEF Pruned
<1> QED BY <1>1, <1>2, <1>7, <1>8, <1>9 DEF Back, Q

\* The policer of a port.
LEMMA IfaceBack ==
  ASSUME NEW c, NEW P, NEW v, NEW r, Solid(v, r), PoliciesBack(v, r, c, P), NEW op \in Op, op \in P,
         op.kind = "iface", op.obj \in Phys, \A x \in P : x.kind = "iface",
         NEW o \in ApplyInterface(v, r, c, op.obj), o.ok
  PROVE  PoliciesBack(o.vpp, o.reg, c, P \ {op})
<1> DEFINE p == op.obj
           Q == P \ {op}
<1>1. Waits(P, "iface", p)
  BY OpKinds DEF Waits
<1>2. r.policy[p] = None
  BY <1>1 DEF PoliciesBack
<1>3. VppShape(v) /\ RegShape(r)
  BY DEF Solid
<1>4. /\ o.vpp.at = v.at
      /\ \A x \in Phys : x # p => o.reg.policy[x] = r.policy[x]
      /\ \A i \in Index : o.vpp.input[i] = IF v.at[i] = <<p, 0>> /\ c.policy[p] # None THEN c.policy[p] ELSE v.input[i]
  BY <1>2, <1>3, IfaceCalm DEF Calm
<1>5. \A x : Waits(Q, "iface", x) <=> Waits(P, "iface", x) /\ p # x
  BY Finished
<1>6. \A x \in Q : x.kind = "iface"
  OBVIOUS
<1> HIDE DEF Q
<1>7. ASSUME NEW x \in Phys, Waits(Q, "iface", x) PROVE o.reg.policy[x] = None
  BY <1>4, <1>5, <1>7 DEF PoliciesBack
<1>8. ASSUME NEW x \in Phys, ~Waits(Q, "iface", x), c.policy[x] # None, NEW i \in Index, o.vpp.at[i] = <<x, 0>>
      PROVE  o.vpp.input[i] = c.policy[x]
  <2>1. CASE x = p
    BY <1>4, <1>8, <2>1
  <2>2. CASE x # p
    <3>1. ~Waits(P, "iface", x)
      BY <1>5, <1>8, <2>2
    <3>2. v.input[i] = c.policy[x]
      BY <1>4, <1>8, <3>1 DEF PoliciesBack
    <3>3. v.at[i] # <<p, 0>>
      BY <1>4, <1>8, <2>2
    <3> QED BY <1>4, <3>2, <3>3
  <2> QED BY <2>1, <2>2
<1> QED BY <1>6, <1>7, <1>8 DEF PoliciesBack, Q

-----------------------------------------------------------------------------
\* Attaching interfaces to a bridge domain keeps a state solid.
LEMMA AttachSolid ==
  ASSUME NEW v, NEW r, Solid(v, r), NEW I, NEW s
  PROVE  Solid(Attach(v, I, s), r)
<1>1. VppShape(v) /\ RegShape(r)
  BY DEF Solid
<1>2. LET w == Attach(v, I, s) IN VppShape(w) /\ w.at = v.at /\ w.slave = v.slave
  BY <1>1, Attaching
<1> QED BY <1>1, <1>2, Steady

\* What the registry has of one switch.
LEMMA RegWrites ==
  ASSUME NEW r, RegShape(r), NEW s \in Switch
  PROVE  /\ \A x \in Index \cup {0} : BviReg(r, SetBvi(r, s, x), [r.bvi EXCEPT ![s] = x])
         /\ \A x \in SUBSET Index : /\ AttachedReg(r, SetAttached(r, s, x), [r.attached EXCEPT ![s] = x])
                                    /\ SubifsReg(r, SetSubifs(r, s, x), [r.subifs EXCEPT ![s] = x])
<1>1. ASSUME NEW x \in Index \cup {0} PROVE BviReg(r, SetBvi(r, s, x), [r.bvi EXCEPT ![s] = x])
  <2> DEFINE y == [r.bvi EXCEPT ![s] = x]
  <2>1. y \in [Switch -> Index \cup {0}]
    BY DEF RegShape
  <2>2. SetBvi(r, s, x) = [r EXCEPT !.bvi = y]
    BY DEF SetBvi
  <2> HIDE DEF y
  <2>3. BviReg(r, [r EXCEPT !.bvi = y], y)
    BY <2>1, OtherRegs
  <2>4. BviReg(r, SetBvi(r, s, x), y)
    BY <2>2, <2>3
  <2> QED BY <2>4 DEF y
<1>2. ASSUME NEW x \in SUBSET Index PROVE AttachedReg(r, SetAttached(r, s, x), [r.attached EXCEPT ![s] = x])
  <2> DEFINE y == [r.attached EXCEPT ![s] = x]
  <2>1. y \in [Switch -> SUBSET Index]
    BY DEF RegShape
  <2>2. SetAttached(r, s, x) = [r EXCEPT !.attached = y]
    BY DEF SetAttached
  <2> HIDE DEF y
  <2>3. AttachedReg(r, [r EXCEPT !.attached = y], y)
    BY <2>1, OtherRegs
  <2>4. AttachedReg(r, SetAttached(r, s, x), y)
    BY <2>2, <2>3
  <2> QED BY <2>4 DEF y
<1>3. ASSUME NEW x \in SUBSET Index PROVE SubifsReg(r, SetSubifs(r, s, x), [r.subifs EXCEPT ![s] = x])
  <2> DEFINE y == [r.subifs EXCEPT ![s] = x]
  <2>1. y \in [Switch -> SUBSET Index]
    BY DEF RegShape
  <2>2. SetSubifs(r, s, x) = [r EXCEPT !.subifs = y]
    BY DEF SetSubifs
  <2> HIDE DEF y
  <2>3. SubifsReg(r, [r EXCEPT !.subifs = y], y)
    BY <2>1, OtherRegs
  <2>4. SubifsReg(r, SetSubifs(r, s, x), y)
    BY <2>2, <2>3
  <2> QED BY <2>4 DEF y
<1> QED BY <1>1, <1>2, <1>3

\* A BVI is remembered, or forgotten.
LEMMA BviSolid ==
  ASSUME NEW v, NEW r, Solid(v, r), NEW s \in Switch, NEW x \in Index \cup {0}, x # 0 => v.at[x] = <<s, 0>>
  PROVE  Solid(v, SetBvi(r, s, x))
<1> DEFINE q == SetBvi(r, s, x)
<1>1. RegShape(r) /\ Held(v, r)
  BY DEF Solid
<1>2. RegShape(q) /\ q.bvi = [r.bvi EXCEPT ![s] = x] /\ q.bond = r.bond
  BY <1>1, RegWrites DEF BviReg
<1> HIDE DEF q
<1>3. \A t \in Switch : q.bvi[t] = IF t = s THEN x ELSE r.bvi[t]
  BY <1>1, <1>2 DEF RegShape
<1>4. Held(v, q)
  BY <1>1, <1>2, <1>3 DEF Held
<1> QED BY <1>2, <1>4 DEF Solid, q

\* Sub-interfaces go.
LEMMA SubifsLeave ==
  ASSUME NEW v, NEW r, Solid(v, r), NEW I, I \subseteq Index, \A i \in I : v.at[i] = None \/ v.at[i][2] # 0
  PROVE  Solid(Remove(v, I), r)
<1>1. \A n \in Port \cup Switch : <<n, 0>> # None /\ <<n, 0>>[2] = 0
  BY Strays, SwitchingAssumption
<1>2. \A i \in I : \A n \in Port \cup Switch : v.at[i] # <<n, 0>>
  BY <1>1
<1>3. Leaves(v, I) /\ Forgets(v, r, r, I)
  BY <1>2 DEF Leaves, Forgets, Solid, Port
<1> QED BY <1>3, Reduced

\* The deletion of a bridge domain, wherever it stops, keeps a state solid, and leaves an
\* interface behind only when a call fails.
LEMMA DeleteDomainSolid ==
  ASSUME NEW v, NEW r, Solid(v, r), NEW s \in Switch, NEW o \in DeleteBridgeDomain(v, r, s)
  PROVE  Solid(o.vpp, o.reg) /\ Costs(v, r, o)
<1> DEFINE r1 == SetBvi(r, s, 0)
           B == {r.bvi[s]} \ {0}
           v1 == Remove(v, B)
           I == {i \in r.attached[s] : v1.at[i] # None}
           r2 == SetAttached(r1, s, {})
           v2 == Detach(v1, I)
           v3 == BridgeDomainAddDel(v2, s, FALSE)
           r3 == SetSubifs(r2, s, {})
           kept == {i \in r.subifs[s] : v3.at[i] # None /\ (v3.at[i][2] = 0 \/ v3.in[i] # None)}
           before == {i \in r.subifs[s] : \A j \in kept : i < j}
<1>1. \/ o = Broken(v, r1)
      \/ \E J \in Cuts(I) : o = Broken(Detach(v1, J), r2)
      \/ o = Refuse(v2, r2)
      \/ kept # {} /\ o = Refuse(Remove(v3, before), r3)
      \/ kept = {} /\ o = Ok(Remove(v3, r.subifs[s]), r3)
      \/ o = Broken(v2, r2)
      \/ o = Broken(v3, r3)
  BY Zenon DEF DeleteBridgeDomain, SetBvi, SetAttached, SetSubifs
<1>2. VppShape(v) /\ RegShape(r) /\ Held(v, r)
  BY DEF Solid
<1>3. Solid(v, r1)
  BY BviSolid
<1>4. Solid(v1, r1) /\ Dear(v, r, v, r1) /\ Neat(v, r, v1, r1)
  <2>1. RegShape(r1) /\ r1.bvi = [r.bvi EXCEPT ![s] = 0] /\ r1.bond = r.bond
    BY <1>2, RegWrites DEF BviReg
  <2>2. \A t \in Switch : r1.bvi[t] = IF t = s THEN 0 ELSE r.bvi[t]
    BY <1>2, <2>1 DEF RegShape
  <2>3. \A i \in B : i \in Index /\ v.at[i] = <<s, 0>>
    BY <1>2 DEF Held, RegShape
  <2>4. s \notin Phys \cup Bond
    BY KindsAssumption DEF Port
  <2> HIDE DEF B, r1
  <2>5. Leaves(v, B)
    BY <2>3, <2>4 DEF Leaves
  <2>6. Forgets(v, r, r1, B)
    BY <2>1, <2>2, <2>3, <2>4 DEF Forgets
  <2>7. Solid(v1, r1)
    BY <2>5, <2>6, Reduced
  <2>8. Dear(v, r, v, r1)
    BY <2>2, DearForgotten
  <2>9. Neat(v, r, v1, r1)
    <3>1. /\ \A i \in Gone(v, B) : v1.at[i] = None
          /\ \A i \in Index \ Gone(v, B) : v1.at[i] = v.at[i]
      BY <1>2, RemovedAny
    <3>2. \A i \in B : i \in Gone(v, B)
      BY <2>3 DEF Gone
    <3>3. \A i \in Index : r.bvi[s] = i => i \in B
      BY SwitchingAssumption DEF B
    <3>4. <<s, 0>> # None
      BY Strays, SwitchingAssumption
    <3> HIDE DEF v1
    <3>5. \A i \in Index : v1.at[i] = v.at[i] \/ v1.at[i] = None
      BY <3>1
    <3>6. \A i \in Index, t \in Switch : v1.at[i] = <<t, 0>> /\ r1.bvi[t] # i => r.bvi[t] # i
      BY <2>2, <3>1, <3>2, <3>3, <3>4
    <3> QED BY <3>5, <3>6, NeatLess
  <2> QED BY <2>7, <2>8, <2>9
<1> HIDE DEF r1, v1, B
<1>5. Solid(v1, r2) /\ r2.bvi = r1.bvi
  <2>1. RegShape(r1)
    BY <1>3 DEF Solid
  <2>2. RegShape(r2) /\ r2.bvi = r1.bvi /\ r2.bond = r1.bond
    BY <2>1, RegWrites DEF AttachedReg
  <2> HIDE DEF r2
  <2> QED BY <1>4, <2>2, SameRegSolid
<1> HIDE DEF r2, I
<1>6. \A J : Solid(Detach(v1, J), r2) /\ Neat(v, r, Detach(v1, J), r2)
  <2> TAKE J
  <2>1. Solid(Detach(v1, J), r2)
    BY <1>5, AttachSolid DEF Detach
  <2>2. Detach(v1, J).at = v1.at
    BY <1>4, Attaching DEF Detach, Solid
  <2> QED BY <1>4, <1>5, <2>1, <2>2, NeatStill
<1>7. Solid(v2, r2) /\ Neat(v, r, v2, r2)
  BY <1>6
<1> HIDE DEF v2
<1>8. Solid(v3, r2) /\ v3.at = v2.at
  <2>1. Same(v2, v3)
    BY <1>7, Calls DEF Solid
  <2> HIDE DEF v3
  <2> QED BY <1>7, <2>1, SameSolid DEF Same
<1> HIDE DEF v3
<1>9. Solid(v3, r3) /\ Neat(v, r, v3, r3)
  <2>1. RegShape(r2)
    BY <1>7 DEF Solid
  <2>2. RegShape(r3) /\ r3.bvi = r2.bvi /\ r3.bond = r2.bond
    BY <2>1, RegWrites DEF SubifsReg
  <2> HIDE DEF r3
  <2> QED BY <1>7, <1>8, <2>2, SameRegSolid, NeatStill
<1> HIDE DEF r3
<1>10. \A i \in before : i \notin kept
  <2>1. \A i \in r.subifs[s] : i \in Index /\ ~(i < i)
    BY <1>2, SwitchingAssumption DEF RegShape
  <2> HIDE DEF kept
  <2> QED BY <2>1
<1>11. r.subifs[s] \subseteq Index
  BY <1>2 DEF RegShape
<1>12. Solid(Remove(v3, before), r3)
  <2>1. before \subseteq Index /\ \A i \in before : v3.at[i] = None \/ v3.at[i][2] # 0
    BY <1>10, <1>11
  <2> HIDE DEF before
  <2> QED BY <1>9, <2>1, SubifsLeave
<1>13. kept = {} => Solid(Remove(v3, r.subifs[s]), r3)
  <2> SUFFICES ASSUME kept = {} PROVE Solid(Remove(v3, r.subifs[s]), r3)
    OBVIOUS
  <2>1. r.subifs[s] \subseteq Index /\ \A i \in r.subifs[s] : v3.at[i] = None \/ v3.at[i][2] # 0
    BY <1>11
  <2> HIDE DEF before
  <2> QED BY <1>9, <2>1, SubifsLeave
<1>17. \A I0 : Neat(v, r, Remove(v3, I0), r3)
  <2> TAKE I0
  <2>1. Neat(v3, r3, Remove(v3, I0), r3)
    BY <1>9, NeatRemove DEF Solid
  <2> QED BY <1>9, <2>1, NeatNeat
<1> HIDE DEF kept, before
<1>14. CASE \E J \in Cuts(I) : o = Broken(Detach(v1, J), r2)
  <2>1. PICK J : o = Broken(Detach(v1, J), r2)
    BY <1>14
  <2>2. o.vpp = Detach(v1, J) /\ o.reg = r2
    BY <2>1, Results
  <2> QED BY <1>6, <2>2 DEF Costs
<1> DEFINE z1 == Remove(v3, before)
           z2 == Remove(v3, r.subifs[s])
<1>18. Neat(v, r, z1, r3) /\ Neat(v, r, z2, r3)
  BY <1>17
<1> HIDE DEF z1, z2
<1>15. \/ o = Broken(v, r1) \/ o = Refuse(v2, r2) \/ o = Refuse(z1, r3) \/ (kept = {} /\ o = Ok(z2, r3))
       \/ o = Broken(v2, r2) \/ o = Broken(v3, r3) \/ \E J \in Cuts(I) : o = Broken(Detach(v1, J), r2)
  BY <1>1 DEF z1, z2
<1>16. Solid(z1, r3) /\ (kept = {} => Solid(z2, r3))
  BY <1>12, <1>13 DEF z1, z2
<1>19. CASE o = Broken(v, r1)
  BY <1>3, <1>4, <1>19, Results DEF Costs
<1>20. CASE o = Refuse(v2, r2) \/ o = Broken(v2, r2)
  BY <1>7, <1>20, Results DEF Costs
<1>21. CASE o = Refuse(z1, r3) \/ (kept = {} /\ o = Ok(z2, r3)) \/ o = Broken(v3, r3)
  BY <1>9, <1>16, <1>18, <1>21, Results DEF Costs
<1> QED BY <1>14, <1>15, <1>19, <1>20, <1>21

\* The gateway of a switch; a failing call may leave its loopback, not remembered.
LEMMA GatewayMade ==
  ASSUME NEW v, NEW r, Solid(v, r), \E i \in Index : v.at[i] = None, NEW c, NEW s \in Switch, NEW o \in ApplyGateway(v, r, c, s)
  PROVE  /\ Solid(o.vpp, o.reg) /\ Costs(v, r, o)
         /\ o.vpp.slave = v.slave
         /\ \A i \in Index : v.at[i] # None => o.vpp.at[i] = v.at[i] /\ o.vpp.in[i] = v.in[i]
         /\ \A i \in Index : v.at[i] = None => o.vpp.at[i] \in {<<s, 0>>, None}
         /\ o.reg.attached = r.attached /\ o.reg.bond = r.bond /\ o.reg.policy = r.policy
<1> DEFINE found == {i \in Index : v.at[i] = <<s, 0>> /\ v.in[i] = s}
           new == Create(v, {<<s, 0>>})
           i == CHOOSE j \in Index : new.at[j] = <<s, 0>> /\ v.at[j] = None
           k == CHOOSE j \in found : TRUE
           w == Attach(new, {i}, s)
           q == SetBvi(r, s, i)
           g == SetBvi(r, s, k)
<1>1. \/ o = Ok(v, r) \/ o = Broken(v, r)
      \/ found # {} /\ o = Ok(v, g) /\ r.bvi[s] = 0
      \/ o = Ok(w, q) /\ r.bvi[s] = 0
      \/ o = Broken(new, r)
  BY DEF ApplyGateway, SetBvi
<1>2. VppShape(v) /\ RegShape(r)
  BY DEF Solid
<1>3. <<s, 0>> \in IfName \cup {Stray} /\ <<s, 0>> # None
  BY Strays, SwitchingAssumption
<1>4. /\ VppShape(new) /\ new.in = v.in /\ new.slave = v.slave
      /\ \A j \in Index : v.at[j] # None => new.at[j] = v.at[j]
      /\ \A j \in Index : v.at[j] = None => new.at[j] \in {<<s, 0>>, None}
      /\ \E j \in Index : v.at[j] = None /\ new.at[j] = <<s, 0>>
  BY <1>2, <1>3, OneCreated, ZenonT(60)
<1>5. Solid(new, r) /\ Dear(v, r, new, r)
  BY <1>2, <1>3, OneSolid, DearNew DEF Repeatable
<1>18. new = Create(v, {<<s, 0>>})
  OBVIOUS
<1> HIDE DEF new
<1>6. i \in Index /\ new.at[i] = <<s, 0>> /\ v.at[i] = None
  BY <1>4
<1>7. found # {} => k \in Index /\ v.at[k] = <<s, 0>>
  OBVIOUS
<1> HIDE DEF found, i, k
<1>8. VppShape(w) /\ w.at = new.at /\ w.slave = new.slave /\ \A j \in Index : w.in[j] = IF j \in {i} THEN s ELSE new.in[j]
  BY <1>4, Attaching
<1>9. Solid(w, r)
  BY <1>5, AttachSolid
<1> HIDE DEF w
<1>10. Solid(w, q)
  BY <1>6, <1>8, <1>9, BviSolid
<1>11. found # {} => Solid(v, g)
  BY <1>7, BviSolid
<1>12. q.attached = r.attached /\ q.bond = r.bond /\ q.policy = r.policy /\ q.bvi = [r.bvi EXCEPT ![s] = i]
  <2>1. BviReg(r, q, [r.bvi EXCEPT ![s] = i])
    BY <1>2, <1>6, RegWrites
  <2> HIDE DEF q
  <2> QED BY <2>1 DEF BviReg
<1>13. found # {} => g.attached = r.attached /\ g.bond = r.bond /\ g.policy = r.policy /\ g.bvi = [r.bvi EXCEPT ![s] = k]
  BY <1>2, <1>7, RegWrites DEF BviReg
<1> HIDE DEF q, g
<1>19. q.bvi[s] = i /\ \A t \in Switch \ {s} : q.bvi[t] = r.bvi[t]
  BY <1>2, <1>12 DEF RegShape
<1>20. found # {} => \A t \in Switch \ {s} : g.bvi[t] = r.bvi[t]
  BY <1>2, <1>13 DEF RegShape
<1>14. CASE o = Ok(w, q) /\ r.bvi[s] = 0
  <2>1. o.vpp = w /\ o.reg = q
    BY <1>14, Results
  <2>2. \A j \in Index : v.at[j] # None => w.at[j] = v.at[j] /\ w.in[j] = v.in[j]
    BY <1>4, <1>6, <1>8
  <2>3. \A j \in Index : v.at[j] = None => w.at[j] \in {<<s, 0>>, None}
    BY <1>4, <1>8
  <2>4. Neat(v, r, w, q)
    BY <1>2, <1>6, <1>8, <1>14, <1>18, <1>19, NeatBvi
  <2> QED BY <1>4, <1>8, <1>10, <1>12, <2>1, <2>2, <2>3, <2>4 DEF Costs
<1>15. CASE o = Broken(new, r)
  <2>1. o.vpp = new /\ o.reg = r /\ o.fault
    BY <1>15, Results
  <2> QED BY <1>4, <1>5, <2>1 DEF Costs
<1>16. CASE found # {} /\ o = Ok(v, g) /\ r.bvi[s] = 0
  <2>1. o.vpp = v /\ o.reg = g
    BY <1>16, Results
  <2>2. Neat(v, r, v, g)
    BY <1>16, <1>20, NeatFound
  <2> QED BY <1>11, <1>13, <1>16, <2>1, <2>2 DEF Costs
<1>17. CASE o = Ok(v, r) \/ o = Broken(v, r)
  <2>1. o.vpp = v /\ o.reg = r
    BY <1>17, Results
  <2>2. Neat(v, r, v, r)
    BY NeatSame
  <2> QED BY <2>1, <2>2 DEF Costs
<1> QED BY <1>1, <1>14, <1>15, <1>16, <1>17

-----------------------------------------------------------------------------
\* The members of a switch that are resolved: those whose port is there.
Resolvable(v, c, s, K) == K \subseteq Members(c, s) /\ \A n \in K : Exists(v, <<n[1], 0>>)

\* What a switch registers.
Registering(r, q, s, A) ==
  /\ RegShape(q) /\ q.bvi = r.bvi /\ q.bond = r.bond /\ q.policy = r.policy
  /\ q.attached = [r.attached EXCEPT ![s] = A]

\* Remembering the interfaces of a bridge domain adds them to those attached to it.
LEMMA Remembering ==
  ASSUME NEW r, RegShape(r), NEW s \in Switch, NEW I \in SUBSET Index
  PROVE  Registering(r, Remember(r, s, I), s, r.attached[s] \cup I)
<1> DEFINE x == r.attached[s] \cup I
           y == r.subifs[s] \cup I
           r1 == SetAttached(r, s, x)
           r2 == SetSubifs(r1, s, y)
<1>1. x \in SUBSET Index /\ y \in SUBSET Index
  BY DEF RegShape
<1>2. Remember(r, s, I) = [r EXCEPT !.attached[s] = x, !.subifs[s] = y]
  BY DEF Remember
<1>3. r2 = [[r EXCEPT !.attached[s] = x] EXCEPT !.subifs[s] = y]
  BY DEF SetAttached, SetSubifs
<1>4. Remember(r, s, I) = r2
  <2> HIDE DEF x, y, r2
  <2>1. [[r EXCEPT !.attached[s] = x] EXCEPT !.subifs[s] = y] = [r EXCEPT !.attached[s] = x, !.subifs[s] = y]
    OBVIOUS
  <2> QED BY <1>2, <1>3, <2>1
<1> HIDE DEF x, y
<1>5. AttachedReg(r, r1, [r.attached EXCEPT ![s] = x])
  BY <1>1, RegWrites
<1> HIDE DEF r1
<1>6. SubifsReg(r1, r2, [r1.subifs EXCEPT ![s] = y])
  BY <1>1, <1>5, RegWrites DEF AttachedReg
<1> HIDE DEF r2
<1>7. Registering(r, r2, s, x)
  BY <1>5, <1>6 DEF AttachedReg, SubifsReg, Registering
<1> QED BY <1>4, <1>7 DEF x

\* Members are resolved.
ResolvedTo(k, K) == {IndexOf(k.vpp, n) : n \in {m \in K : m[2] # 0}}
Resolved(v, r, s, K, k) ==
  /\ Solid(k.vpp, k.reg) /\ Neat(v, r, k.vpp, k.reg) /\ k.vpp.in = v.in /\ k.vpp.slave = v.slave
  /\ \A i \in Index : v.at[i] # None => k.vpp.at[i] = v.at[i]
  /\ \A i \in Index : v.at[i] = None => k.vpp.at[i] \in {m \in K : m[2] # 0} \cup {None}
  /\ \E i \in Index : k.vpp.at[i] = None
  /\ \A n \in K : \E i \in Index : k.vpp.at[i] = n
  /\ ResolvedTo(k, K) \subseteq Index /\ Registering(r, k.reg, s, r.attached[s] \cup ResolvedTo(k, K))

\* Finding the interfaces of a bridge domain, and making the sub-interfaces it lacks, keeps
\* a state solid.
LEMMA ResolveSolid ==
  ASSUME NEW v, NEW r, Solid(v, r), RoomIn(v), NEW c \in Cfg, NEW s \in c.switches, NEW K, Resolvable(v, c, s, K)
  PROVE  Resolved(v, r, s, K, Resolve(v, r, c, s, K))
<1> DEFINE k == Resolve(v, r, c, s, K)
           made == {m \in K : m[2] # 0}
           names == {n \in K : n[2] # 0 /\ ~Exists(v, n)}
           w == Create(v, names)
           R == {IndexOf(w, n) : n \in made}
<1>1. k = [vpp |-> w, reg |-> Remember(r, s, R)]
  BY DEF Resolve
<1>2. \A n \in K : n \in IfName /\ n = <<n[1], n[2]>> /\ n # None /\ n[1] \in Port
  <2>1. \A n \in K : n[1] \in Port /\ n[2] \in Vlan /\ n = <<n[1], n[2]>> /\ n # None
    BY MemberNames DEF Resolvable
  <2> QED BY <2>1 DEF IfName
<1>3. \A n \in K : \E j \in Index : v.at[j] = <<n[1], 0>>
  BY Indexed DEF Resolvable
<1>4. names \in SUBSET IfName /\ \A i \in Index : v.at[i] \notin names
  BY <1>2, Indexed
<1>5. VppShape(v) /\ RegShape(r)
  BY DEF Solid
<1>6. /\ \E g \in [names -> Free(v)] : \A n, m \in names : g[n] = g[m] => n = m
      /\ \A g \in [names -> Free(v)] :
           (\A n, m \in names : g[n] = g[m] => n = m) => \E i \in Free(v) : \A n \in names : g[n] # i
  <2> HIDE DEF names
  <2> QED BY <1>4, <1>5, Spare, ZenonT(60)
<1>7. /\ VppShape(w)
      /\ \A i \in Index : v.at[i] # None => w.at[i] = v.at[i]
      /\ \A i \in Index : v.at[i] = None => w.at[i] \in names \cup {None}
      /\ \A n \in names : \E i \in Index : v.at[i] = None /\ w.at[i] = n
      /\ w.in = v.in /\ w.slave = v.slave
      /\ \E i \in Index : w.at[i] = None
      /\ Once(v, w)
  <2> HIDE DEF names
  <2> QED BY <1>4, <1>5, <1>6, CreatedAny
<1> HIDE DEF w
<1>8. \A n \in K : \E i \in Index : w.at[i] = n
  <2> SUFFICES ASSUME NEW n \in K PROVE \E i \in Index : w.at[i] = n
    OBVIOUS
  <2>1. CASE n \in names
    BY <1>7, <2>1
  <2>2. CASE n[2] # 0 /\ Exists(v, n)
    BY <1>2, <1>7, <2>2, Indexed
  <2>3. CASE n[2] = 0
    <3>1. n = <<n[1], 0>>
      BY <1>2, <2>3
    <3> QED BY <1>2, <1>3, <1>7, <3>1
  <2> QED BY <2>1, <2>2, <2>3
<1>9. Solid(w, r)
  <2>1. ASSUME NEW i \in Index, NEW b \in Bond, NEW x \in Vlan, v.at[i] = None, w.at[i] = <<b, x>>
        PROVE  \E j \in Index : w.at[j] = <<b, 0>>
    <3>1. <<b, x>> # None /\ <<b, 0>> # None
      BY Strays, SwitchingAssumption DEF Port
    <3>2. <<b, x>> \in K
      BY <1>7, <2>1, <3>1
    <3>3. PICK j \in Index : v.at[j] = <<b, 0>>
      BY <1>3, <3>2
    <3> QED BY <1>7, <3>1, <3>3
  <2>2. \A i \in Index, b \in Bond, x \in Vlan :
          v.at[i] = None /\ w.at[i] = <<b, x>> => \E j \in Index : w.at[j] = <<b, 0>>
    BY <2>1
  <2> HIDE DEF names
  <2>3. /\ VppShape(w) /\ w.slave = v.slave
        /\ \A i \in Index : v.at[i] # None => w.at[i] = v.at[i]
    BY <1>7
  <2> QED BY <2>2, <2>3, Extended
<1>10. R \subseteq Index
  BY <1>8, Indexed
<1>11. Registering(r, Remember(r, s, R), s, r.attached[s] \cup R)
  <2>1. s \in Switch
    BY ConfigTypes
  <2> HIDE DEF R
  <2> QED BY <1>5, <1>10, <2>1, Remembering
<1>16. Neat(v, r, w, r)
  <2>1. \A n \in names : ~Repeatable(n)
    BY <1>2, Strays, KindsAssumption DEF Repeatable
  <2>2. \A i \in Index : v.at[i] = None /\ w.at[i] # None => ~Repeatable(w.at[i]) /\ \A j \in Index : v.at[j] # w.at[i]
    <3> HIDE DEF names
    <3> QED BY <1>4, <1>7, <2>1
  <2> QED BY <1>7, <2>2, NeatMore
<1>12. \A i \in Index : v.at[i] = None => w.at[i] \in made \cup {None}
  BY <1>7
<1> HIDE DEF made, names, R
<1> DEFINE q == Remember(r, s, R)
<1>13. Solid(w, q) /\ Neat(v, r, w, q)
  <2>1. Registering(r, q, s, r.attached[s] \cup R)
    BY <1>11
  <2> HIDE DEF q
  <2>2. RegShape(q) /\ q.bvi = r.bvi /\ q.bond = r.bond
    BY <2>1 DEF Registering
  <2> QED BY <1>9, <1>16, <2>2, SameRegSolid, NeatStill
<1> HIDE DEF q
<1> HIDE DEF k
<1>14. k.vpp = w /\ k.reg = q
  BY <1>1 DEF q
<1>15. R = ResolvedTo(k, K)
  BY <1>14 DEF R, ResolvedTo, made
<1> QED BY <1>7, <1>8, <1>10, <1>11, <1>12, <1>13, <1>14, <1>15 DEF q, made, k, Resolved

-----------------------------------------------------------------------------
\* What a switch that had nothing attached becomes.
Bridging(v, w, r, q, c, s) ==
  /\ w.slave = v.slave
  /\ \A i \in Index : v.at[i] # None => w.at[i] = v.at[i] /\ (v.at[i] \notin Members(c, s) => w.in[i] = v.in[i])
  /\ \A i \in Index : v.at[i] = None => w.at[i] \in {n \in Members(c, s) : n[2] # 0} \cup {<<s, 0>>, None}
  /\ \A n \in Members(c, s) : \E i \in Index : w.at[i] = n /\ w.in[i] = s
  /\ q.bond = r.bond /\ q.policy = r.policy /\ \A t \in Switch \ {s} : q.attached[t] = r.attached[t]

\* Applying a bridge domain, wherever it stops, keeps a state solid, leaves an interface behind
\* only when a call fails, and when it succeeds with empty registries the domain has all its
\* members.
LEMMA DomainSolid ==
  ASSUME NEW v, NEW r, Solid(v, r), RoomIn(v), NEW c \in Cfg, NEW s \in c.switches,
         NEW o \in ApplyBridgeDomain(v, r, c, s)
  PROVE  /\ Solid(o.vpp, o.reg) /\ Costs(v, r, o)
         /\ o.ok /\ r.attached[s] = {} => Bridging(v, o.vpp, r, o.reg, c, s)
<1> DEFINE M == Members(c, s)
           v1 == BridgeDomainAddDel(v, s, TRUE)
           here == {n \in M : Exists(v, <<n[1], 0>>)}
           res == Resolve(v1, r, c, s, M)
           u == res.vpp
           A == {IndexOf(u, n) : n \in M}
           stale == res.reg.attached[s] \ A
           lost == {i \in stale : v.at[i] = None}
           r1 == TakeStale(res.reg, s, A)
           v2 == Detach(u, stale)
           v3 == Attach(v2, A, s)
           known == {n \in Guarded(c, s) : c.guard[n] \in r.acls}
           bind(N) == Bind(v3, [i \in {IndexOf(v, <<n, 0>>) : n \in N} |-> c.guard[v.at[i][1]]])
           note(N) == [r1 EXCEPT !.bound = [i \in Index |-> IF v.at[i] \in {<<n, 0>> : n \in N}
                                                            THEN c.guard[v.at[i][1]] ELSE @[i]]]
           G == Guarded(c, s)
           before == {i \in stale : \A j \in lost : i < j}
           R == {IndexOf(u, n) : n \in {m \in M : m[2] # 0}}
<1>1. \/ \E K \in SUBSET here : o = Refuse(Resolve(v1, r, c, s, K).vpp, Resolve(v1, r, c, s, K).reg)
      \/ o = Broken(v, r) \/ o = Broken(v1, r)
      \/ here = M /\ \/ \E I : o = Refuse(Detach(u, I), r1)
                     \/ \E K : o = Refuse(bind(K), note(K))
                     \/ \E I : o = Broken(Detach(u, I), r1)
                     \/ \E I : o = Broken(Attach(v2, I, s), r1)
                     \/ o = Broken(v3, r1)
                     \/ o \in ApplyGateway(bind(known), note(known), c, s)
  <2> DEFINE X1 == {Refuse(Resolve(v1, r, c, s, K).vpp, Resolve(v1, r, c, s, K).reg) : K \in SUBSET here}
             X2 == {Refuse(Detach(u, before), r1)}
             X3 == {Refuse(bind(K), note(K)) : K \in SUBSET known}
             X4 == {Broken(Detach(u, I), r1) : I \in Cuts(stale)}
             X5 == {Broken(Attach(v2, I, s), r1) : I \in Cuts(A)}
             X6 == IF known = {} THEN {} ELSE {Broken(v3, r1)}
             X7 == {Broken(v, r), Broken(v1, r)}
             Y == ApplyGateway(bind(known), note(known), c, s)
  <2>1. ApplyBridgeDomain(v, r, c, s) =
          IF here # M THEN X1 ELSE IF lost # {} THEN X2 ELSE IF known # G THEN X3
          ELSE X7 \cup X4 \cup X5 \cup X6 \cup Y
    BY DEF ApplyBridgeDomain
  <2>2. o \in X2 => \E I : o = Refuse(Detach(u, I), r1)
    <3> HIDE DEF before, u, r1
    <3> QED OBVIOUS
  <2>3. o \in X3 => \E K : o = Refuse(bind(K), note(K))
    <3> HIDE DEF bind, note, known
    <3> QED OBVIOUS
  <2>4. o \in X4 => \E I : o = Broken(Detach(u, I), r1)
    <3> HIDE DEF u, r1, stale
    <3> QED OBVIOUS
  <2>5. o \in X5 => \E I : o = Broken(Attach(v2, I, s), r1)
    <3> HIDE DEF v2, r1, A
    <3> QED OBVIOUS
  <2>6. o \in X6 => o = Broken(v3, r1)
    <3> HIDE DEF v3, r1, known
    <3> QED OBVIOUS
  <2>7. o \in X7 => o = Broken(v, r) \/ o = Broken(v1, r)
    <3> HIDE DEF v1
    <3> QED OBVIOUS
  <2>8. o \in X1 => \E K \in SUBSET here : o = Refuse(Resolve(v1, r, c, s, K).vpp, Resolve(v1, r, c, s, K).reg)
    <3> HIDE DEF v1, here
    <3> QED OBVIOUS
  <2> HIDE DEF X1, X2, X3, X4, X5, X6, X7, here, M, lost, known, G, bind, note, u, v1, v2, v3, r1, stale, A
  <2>9. here # M => o \in X1
    BY <2>1
  <2>10. here = M => o \in X2 \/ o \in X3 \/ o \in X4 \/ o \in X5 \/ o \in X6 \/ o \in X7 \/ o \in Y
    BY <2>1
  <2> QED BY <2>2, <2>3, <2>4, <2>5, <2>6, <2>7, <2>8, <2>9, <2>10
<1>2. VppShape(v) /\ RegShape(r) /\ s \in Switch
  BY ConfigTypes DEF Solid
<1>3. Same(v, v1)
  BY <1>2, Calls
<1> HIDE DEF v1
<1>4. Neat(v, r, v, r) /\ Neat(v, r, v1, r) /\ Solid(v1, r) /\ RoomIn(v1) /\ v1.at = v.at /\ v1.in = v.in /\ v1.slave = v.slave
  <2>1. Solid(v1, r)
    BY <1>3, SameSolid
  <2>2. Neat(v, r, v, r) /\ Neat(v, r, v1, r)
    BY <1>3, NeatSame DEF Same
  <2> QED BY <1>3, <2>1, <2>2 DEF Same, RoomIn, Present, Free
<1>5. \A K \in SUBSET here : Resolvable(v1, c, s, K)
  BY <1>4 DEF Resolvable, Exists, IndexOf
<1>6. CASE \E K \in SUBSET here : o = Refuse(Resolve(v1, r, c, s, K).vpp, Resolve(v1, r, c, s, K).reg)
  <2>1. PICK K \in SUBSET here : o = Refuse(Resolve(v1, r, c, s, K).vpp, Resolve(v1, r, c, s, K).reg)
    BY <1>6
  <2>2. Resolvable(v1, c, s, K)
    BY <1>5, <2>1
  <2> DEFINE k == Resolve(v1, r, c, s, K)
  <2>3. Resolved(v1, r, s, K, k)
    BY <1>4, <2>2, ResolveSolid
  <2>4. o = Refuse(k.vpp, k.reg)
    BY <2>1
  <2> HIDE DEF k
  <2>5. o.vpp = k.vpp /\ o.reg = k.reg /\ ~o.ok
    BY <2>4, Results
  <2>6. Neat(v1, r, k.vpp, k.reg)
    BY <2>3 DEF Resolved
  <2>7. Neat(v, r, k.vpp, k.reg)
    BY <1>4, <2>6, NeatNeat
  <2> QED BY <2>3, <2>5, <2>7 DEF Resolved, Costs
<1>7. CASE o = Broken(v, r) \/ o = Broken(v1, r)
  BY <1>4, <1>7, Results DEF Costs
<1>8. SUFFICES ASSUME here = M,
                      \/ \E I : o = Refuse(Detach(u, I), r1)
                      \/ \E K : o = Refuse(bind(K), note(K))
                      \/ \E I : o = Broken(Detach(u, I), r1)
                      \/ \E I : o = Broken(Attach(v2, I, s), r1)
                      \/ o = Broken(v3, r1)
                      \/ o \in ApplyGateway(bind(known), note(known), c, s)
               PROVE  /\ Solid(o.vpp, o.reg) /\ Costs(v, r, o)
                      /\ o.ok /\ r.attached[s] = {} => Bridging(v, o.vpp, r, o.reg, c, s)
  BY <1>1, <1>6, <1>7, ZenonT(60)
<1>9. Resolvable(v1, c, s, M)
  BY <1>5, <1>8, Zenon
<1> HIDE DEF here, known
<1>10. /\ Solid(u, res.reg) /\ Neat(v1, r, u, res.reg) /\ u.in = v.in /\ u.slave = v.slave
       /\ \A i \in Index : v.at[i] # None => u.at[i] = v.at[i]
       /\ \A i \in Index : v.at[i] = None => u.at[i] \in {m \in M : m[2] # 0} \cup {None}
       /\ \E i \in Index : u.at[i] = None
       /\ \A n \in M : \E i \in Index : u.at[i] = n
       /\ R \subseteq Index /\ Registering(r, res.reg, s, r.attached[s] \cup R)
  <2> HIDE DEF M
  <2>1. Resolved(v1, r, s, M, res)
    BY <1>4, <1>9, ResolveSolid
  <2>2. ResolvedTo(res, M) = R
    BY DEF ResolvedTo
  <2> HIDE DEF res, R
  <2> QED BY <1>4, <2>1, <2>2 DEF Resolved
<1> HIDE DEF res
<1>11. \A n \in M : IndexOf(u, n) \in Index /\ u.at[IndexOf(u, n)] = n
  BY <1>10, Indexed
<1>12. A \in SUBSET Index /\ (\A i \in A : u.at[i] \in M) /\ R \subseteq A
  BY <1>11
<1>13. r.attached[s] = {} => stale = {}
  <2>1. res.reg.attached = [r.attached EXCEPT ![s] = r.attached[s] \cup R]
    BY <1>10 DEF Registering
  <2>2. res.reg.attached[s] = r.attached[s] \cup R
    BY <1>2, <2>1 DEF RegShape
  <2> HIDE DEF R, A
  <2> QED BY <1>12, <2>2
<1> HIDE DEF R, A, stale
<1>14. AttachedReg(res.reg, r1, [res.reg.attached EXCEPT ![s] = A])
  <2>1. r1 = SetAttached(res.reg, s, A)
    BY DEF TakeStale, SetAttached
  <2> HIDE DEF r1
  <2> QED BY <1>2, <1>10, <1>12, <2>1, RegWrites DEF Registering
<1> HIDE DEF r1
<1>15. /\ Solid(u, r1) /\ RegShape(r1) /\ r1.bvi = r.bvi /\ r1.bond = r.bond /\ r1.policy = r.policy
       /\ \A t \in Switch \ {s} : r1.attached[t] = r.attached[t]
  <2>1. RegShape(r1) /\ r1.bvi = res.reg.bvi /\ r1.bond = res.reg.bond /\ r1.policy = res.reg.policy
        /\ r1.attached = [res.reg.attached EXCEPT ![s] = A]
    BY <1>14 DEF AttachedReg
  <2>2. RegShape(res.reg) /\ res.reg.bvi = r.bvi /\ res.reg.bond = r.bond /\ res.reg.policy = r.policy
        /\ res.reg.attached = [r.attached EXCEPT ![s] = r.attached[s] \cup R]
    BY <1>10 DEF Registering
  <2>3. \A t \in Switch \ {s} : r1.attached[t] = r.attached[t]
    BY <1>2, <2>1, <2>2 DEF RegShape
  <2>4. Solid(u, r1)
    BY <1>10, <2>1, SameRegSolid
  <2> QED BY <2>1, <2>2, <2>3, <2>4
<1>27. Neat(v, r, u, res.reg) /\ r1.bvi = res.reg.bvi
  BY <1>4, <1>10, <1>15, NeatNeat DEF Registering
<1>28. ASSUME NEW w, NEW q, w.at = u.at, q.bvi = r1.bvi PROVE Neat(v, r, w, q)
  <2>1. q.bvi = res.reg.bvi
    BY <1>27, <1>28
  <2> QED BY <1>27, <1>28, <2>1, NeatStill
<1>16. \A I : Solid(Detach(u, I), r1) /\ Neat(v, r, Detach(u, I), r1)
  <2> TAKE I
  <2>1. Solid(Detach(u, I), r1)
    BY <1>15, AttachSolid DEF Detach
  <2>2. Detach(u, I).at = u.at
    BY <1>15, Attaching DEF Detach, Solid
  <2> QED BY <1>28, <2>1, <2>2
<1>17. /\ Solid(v2, r1) /\ v2.at = u.at /\ v2.slave = u.slave
       /\ stale = {} => \A i \in Index : v2.in[i] = u.in[i]
  <2>1. VppShape(u)
    BY <1>10 DEF Solid
  <2>2. /\ v2.at = u.at /\ v2.slave = u.slave
        /\ \A i \in Index : v2.in[i] = IF i \in stale THEN None ELSE u.in[i]
    BY <2>1, Attaching DEF Detach
  <2> HIDE DEF u
  <2> QED BY <1>16, <2>2
<1> HIDE DEF v2
<1>18. \A I : Solid(Attach(v2, I, s), r1) /\ Neat(v, r, Attach(v2, I, s), r1)
  <2> TAKE I
  <2>1. Solid(Attach(v2, I, s), r1)
    BY <1>17, AttachSolid
  <2>2. Attach(v2, I, s).at = u.at
    BY <1>17, Attaching DEF Solid
  <2> QED BY <1>28, <2>1, <2>2
<1>19. /\ Solid(v3, r1) /\ v3.at = u.at /\ v3.slave = u.slave
       /\ \A i \in Index : v3.in[i] = IF i \in A THEN s ELSE v2.in[i]
  <2>1. VppShape(v2)
    BY <1>17 DEF Solid
  <2> QED BY <1>17, <1>18, <2>1, Attaching
<1> HIDE DEF v3
<1>20. \A K : Same(v3, bind(K)) /\ SameReg(r1, note(K))
  BY <1>15, <1>19, Calls, OtherRegs DEF Solid
<1> HIDE DEF bind, note
<1>21. \A K : Solid(bind(K), note(K)) /\ Neat(v, r, bind(K), note(K))
  <2> TAKE K
  <2>1. Solid(bind(K), r1)
    BY <1>19, <1>20, SameSolid
  <2>2. RegShape(note(K)) /\ note(K).bvi = r1.bvi /\ note(K).bond = r1.bond
    BY <1>20 DEF SameReg
  <2>3. bind(K).at = u.at
    BY <1>19, <1>20 DEF Same
  <2>4. Neat(v, r, bind(K), note(K))
    BY <1>28, <2>2, <2>3
  <2> QED BY <2>1, <2>2, <2>4, SameRegSolid
<1>22. CASE \E I : o = Refuse(Detach(u, I), r1) \/ o = Broken(Detach(u, I), r1)
  <2>1. PICK I : o = Refuse(Detach(u, I), r1) \/ o = Broken(Detach(u, I), r1)
    BY <1>22
  <2>2. o.vpp = Detach(u, I) /\ o.reg = r1 /\ ~o.ok
    BY <2>1, Results
  <2> QED BY <1>16, <2>2 DEF Costs
<1>23. CASE \E I : o = Broken(Attach(v2, I, s), r1)
  <2>1. PICK I : o = Broken(Attach(v2, I, s), r1)
    BY <1>23
  <2>2. o.vpp = Attach(v2, I, s) /\ o.reg = r1 /\ ~o.ok
    BY <2>1, Results
  <2> QED BY <1>18, <2>2 DEF Costs
<1>24. CASE \E K : o = Refuse(bind(K), note(K))
  <2>1. PICK K : o = Refuse(bind(K), note(K))
    BY <1>24
  <2>2. o.vpp = bind(K) /\ o.reg = note(K) /\ ~o.ok
    BY <2>1, Results
  <2> QED BY <1>21, <2>2 DEF Costs
<1>25. CASE o = Broken(v3, r1)
  <2>1. o.vpp = v3 /\ o.reg = r1 /\ ~o.ok
    BY <1>25, Results
  <2>2. Neat(v, r, v3, r1)
    BY <1>19, <1>28
  <2> QED BY <1>19, <2>1, <2>2 DEF Costs
<1>26. CASE o \in ApplyGateway(bind(known), note(known), c, s)
  <2> DEFINE w == bind(known)
             q == note(known)
  <2>1. Solid(w, q) /\ Neat(v, r, w, q) /\ Same(v3, w) /\ SameReg(r1, q)
    BY <1>20, <1>21
  <2>2. o \in ApplyGateway(w, q, c, s)
    BY <1>26
  <2> HIDE DEF w, q
  <2>3. w.at = u.at /\ w.in = v3.in /\ w.slave = u.slave
    BY <1>19, <2>1 DEF Same
  <2>4. /\ Solid(o.vpp, o.reg) /\ Costs(w, q, o) /\ o.vpp.slave = w.slave
        /\ \A i \in Index : w.at[i] # None => o.vpp.at[i] = w.at[i] /\ o.vpp.in[i] = w.in[i]
        /\ \A i \in Index : w.at[i] = None => o.vpp.at[i] \in {<<s, 0>>, None}
        /\ o.reg.attached = q.attached /\ o.reg.bond = q.bond /\ o.reg.policy = q.policy
    <3>1. \E i \in Index : w.at[i] = None
      BY <1>10, <2>3
    <3> QED BY <1>2, <2>1, <2>2, <3>1, GatewayMade
  <2>5. ASSUME r.attached[s] = {} PROVE Bridging(v, o.vpp, r, o.reg, c, s)
    <3>1. stale = {}
      BY <1>13, <2>5
    <3>2. \A i \in Index : w.in[i] = IF i \in A THEN s ELSE v.in[i]
      BY <1>10, <1>17, <1>19, <2>3, <3>1
    <3>3. \A n \in M : n # None
      BY MemberNames
    <3> HIDE DEF M
    <3>4. o.vpp.slave = v.slave
      BY <1>10, <2>3, <2>4
    <3>5. \A i \in Index : v.at[i] # None => o.vpp.at[i] = v.at[i] /\ (v.at[i] \notin M => o.vpp.in[i] = v.in[i])
      BY <1>10, <1>12, <2>3, <2>4, <3>2
    <3>6. \A i \in Index : v.at[i] = None => o.vpp.at[i] \in {n \in M : n[2] # 0} \cup {<<s, 0>>, None}
      BY <1>10, <2>3, <2>4
    <3>7. ASSUME NEW n \in M PROVE \E i \in Index : o.vpp.at[i] = n /\ o.vpp.in[i] = s
      <4>1. IndexOf(u, n) \in Index /\ u.at[IndexOf(u, n)] = n /\ IndexOf(u, n) \in A
        BY <1>11 DEF A
      <4> QED BY <2>3, <2>4, <3>2, <3>3, <4>1
    <3>8. o.reg.bond = r.bond /\ o.reg.policy = r.policy /\ \A t \in Switch \ {s} : o.reg.attached[t] = r.attached[t]
      BY <1>15, <2>1, <2>4 DEF SameReg
    <3> QED BY <3>4, <3>5, <3>6, <3>7, <3>8 DEF Bridging, M
  <2>6. Costs(v, r, o)
    BY <2>1, <2>4, NeatNeat DEF Costs
  <2> QED BY <2>4, <2>5, <2>6
<1> QED BY <1>8, <1>22, <1>23, <1>24, <1>25, <1>26

-----------------------------------------------------------------------------
\* The bonds are back when a switch is brought back.
LEMMA DomainBack ==
  ASSUME NEW c \in Cfg, NEW P, NEW v, NEW r, Solid(v, r), RoomIn(v), Back(v, r, c, P), NEW op \in Op, op \in P,
         op.kind = "bd", op.obj \in c.switches, NoBond(P), NEW o \in ApplyBridgeDomain(v, r, c, op.obj), o.ok
  PROVE  Back(o.vpp, o.reg, c, P \ {op}) /\ o.reg.policy = r.policy
<1> DEFINE s == op.obj
           Q == P \ {op}
           w == o.vpp
           q == o.reg
<1>1. Waits(P, "bd", s) /\ ~Waits(Q, "bd", s)
      /\ \A k, x : k # "bd" \/ x # s => (Waits(Q, k, x) <=> Waits(P, k, x))
  BY Finished DEF Waits, Op
<1>2. r.attached[s] = {}
  BY <1>1 DEF Back, BridgesBack
<1>3. Bridging(v, w, r, q, c, s)
  BY <1>2, DomainSolid
<1>4. VppShape(v) /\ Firm(v)
  BY DEF Solid
<1>5. NoBond(Q)
  BY <1>1 DEF NoBond
<1>6. /\ w.slave = v.slave
      /\ \A i \in Index : v.at[i] # None => w.at[i] = v.at[i] /\ (v.at[i] \notin Members(c, s) => w.in[i] = v.in[i])
      /\ \A i \in Index : v.at[i] = None => w.at[i] \in {n \in Members(c, s) : n[2] # 0} \cup {<<s, 0>>, None}
      /\ \A n \in Members(c, s) : \E i \in Index : w.at[i] = n /\ w.in[i] = s
      /\ q.bond = r.bond /\ q.policy = r.policy /\ \A t \in Switch \ {s} : q.attached[t] = r.attached[t]
  BY <1>3 DEF Bridging
<1> HIDE DEF Q, w, q, s
<1>7. BridgesBack(w, q, c, Q)
  <2> SUFFICES ASSUME NEW t \in c.switches
               PROVE  /\ Waits(Q, "bd", t) => q.attached[t] = {}
                      /\ ~Waits(Q, "bd", t) => NoBond(Q) /\ \A n \in Members(c, t) : \E i \in Index : w.at[i] = n /\ w.in[i] = t
    BY DEF BridgesBack
  <2>1. CASE t = s
    BY <1>1, <1>5, <1>6, <2>1
  <2>2. CASE t # s
    <3>1. Waits(Q, "bd", t) <=> Waits(P, "bd", t)
      BY <1>1, <2>2
    <3>2. /\ Waits(P, "bd", t) => r.attached[t] = {}
          /\ ~Waits(P, "bd", t) => \A n \in Members(c, t) : \E i \in Index : v.at[i] = n /\ v.in[i] = t
      BY DEF Back, BridgesBack
    <3>3. t \in Switch /\ s \in c.switches
      BY ConfigTypes DEF s
    <3>4. ASSUME ~Waits(P, "bd", t), NEW n \in Members(c, t) PROVE \E i \in Index : w.at[i] = n /\ w.in[i] = t
      <4>1. PICK i \in Index : v.at[i] = n /\ v.in[i] = t
        BY <3>2, <3>4
      <4>2. n # None /\ n[1] \in c.ports[t]
        BY MemberNames
      <4>3. n \notin Members(c, s)
        <5>1. \A x \in Members(c, s) : x[1] \in c.ports[s]
          BY <3>3, MemberNames
        <5> QED BY <2>2, <3>3, <4>2, <5>1, ConfigValid
      <4> QED BY <1>6, <4>1, <4>2, <4>3
    <3> QED BY <1>5, <1>6, <2>2, <3>1, <3>2, <3>3, <3>4
  <2> QED BY <2>1, <2>2
<1>8. BondsBack(w, q, c, Q)
  <2> SUFFICES ASSUME NEW b \in Bonds(c)
               PROVE  /\ Waits(Q, "bond", b) => q.bond[b] = 0
                      /\ ~Waits(Q, "bond", b) =>
                           /\ \E i \in Index : w.at[i] = <<b, 0>>
                           /\ \A p \in Phys : p \in c.members[b] <=> w.slave[p] # 0 /\ w.at[w.slave[p]] = <<b, 0>>
    BY DEF BondsBack
  <2>1. /\ Waits(P, "bond", b) => r.bond[b] = 0
        /\ ~Waits(P, "bond", b) =>
             /\ \E i \in Index : v.at[i] = <<b, 0>>
             /\ \A p \in Phys : p \in c.members[b] <=> v.slave[p] # 0 /\ v.at[v.slave[p]] = <<b, 0>>
    BY DEF Back, BondsBack
  <2>2. Waits(Q, "bond", b) <=> Waits(P, "bond", b)
    BY <1>1
  <2>3. <<b, 0>> # None
    BY Strays, SwitchingAssumption DEF Port, Bonds
  <2>4. \A p \in Phys : v.slave[p] # 0 => w.at[v.slave[p]] = v.at[v.slave[p]]
    BY <1>4, <1>6 DEF VppShape, Firm
  <2>5. ~Waits(P, "bond", b) => \E i \in Index : w.at[i] = <<b, 0>>
    BY <1>6, <2>1, <2>3
  <2>6. ~Waits(P, "bond", b) => \A p \in Phys : p \in c.members[b] <=> w.slave[p] # 0 /\ w.at[w.slave[p]] = <<b, 0>>
    BY <1>6, <2>1, <2>4
  <2> QED BY <1>6, <2>1, <2>2, <2>5, <2>6
<1>9. Pruned(w, c, Q)
  <2>1. Waits(Q, "prune", None) <=> Waits(P, "prune", None)
    BY <1>1
  <2>2. s \in Switch /\ \A b \in Bond : b \notin Switch
    BY ConfigTypes, Kinds DEF s
  <2>3. /\ Stray # None /\ Stray = <<None, 0>> /\ <<s, 0>> # Stray
        /\ \A b \in Bond : <<b, 0>> # None
    BY <2>2, Strays, SwitchingAssumption DEF Port
  <2>4. \A b \in Bond : <<b, 0>> # <<s, 0>>
    BY <2>2
  <2>5. ASSUME ~Waits(P, "prune", None), NEW i \in Index
        PROVE  w.at[i] # Stray /\ \A b \in Bond \ Bonds(c) : w.at[i] # <<b, 0>>
    <3>1. CASE v.at[i] # None
      BY <1>6, <2>5, <3>1 DEF Back, Pruned
    <3>2. CASE v.at[i] = None
      <4>1. w.at[i] = <<s, 0>> \/ w.at[i] = None \/ w.at[i][2] # 0
        BY <1>6, <3>2
      <4> QED BY <2>3, <2>4, <4>1
    <3> QED BY <3>1, <3>2
  <2> QED BY <2>1, <2>5 DEF Pruned
<1> QED BY <1>6, <1>7, <1>8, <1>9 DEF Back, Q, w, q

-----------------------------------------------------------------------------
\* Every operation and every outcome of it leaves the data plane and the registries as solid
\* as they were, and leaves an interface behind only when a call fails.
LEMMA OpSolid ==
  ASSUME Solid(vpp, reg), Roomy, NEW c \in Cfg, NEW op \in Op, Typed(op, c), NEW o \in Outcomes(op, c)
  PROVE  Solid(o.vpp, o.reg) /\ Costs(vpp, reg, o)
<1>0. VppShape(vpp) /\ RegShape(reg) /\ RoomIn(vpp)
  BY DEF Solid, Roomy
<1>1. ASSUME Calm(vpp, reg, o) PROVE Solid(o.vpp, o.reg) /\ Costs(vpp, reg, o)
  <2>1. Solid(o.vpp, o.reg)
    BY <1>1, Steady DEF Calm
  <2>2. Neat(vpp, reg, o.vpp, o.reg)
    BY <1>1, NeatSame DEF Calm
  <2> QED BY <2>1, <2>2 DEF Costs
<1>2. CASE op.kind = "vnic"
  <2>1. o \in ApplyVnic(vpp, reg, op.obj) /\ op.obj \in Vnic
    BY <1>2 DEF Outcomes, Typed
  <2> QED BY <1>0, <2>1, VnicSolid
<1>3. CASE op.kind = "del-vnic"
  <2>1. o \in DeleteVnic(vpp, reg, op.obj) /\ op.obj \in Vnic
    BY <1>3 DEF Outcomes, Typed
  <2> QED BY <1>0, <2>1, VnicSolid
<1>4. CASE op.kind = "acl"
  <2>1. o \in ApplyACL(vpp, reg, op.obj)
    BY <1>4 DEF Outcomes
  <2> QED BY <1>0, <1>1, <2>1, AclStill DEF Still
<1>5. CASE op.kind = "del-acl"
  <2>1. o \in DeleteACL(vpp, reg, op.obj)
    BY <1>5 DEF Outcomes
  <2> QED BY <1>0, <1>1, <2>1, AclStill DEF Still
<1>6. CASE op.kind = "bond"
  <2>1. o \in ApplyBond(vpp, reg, c, op.obj) /\ op.obj \in Bond
    BY <1>6 DEF Outcomes, Typed
  <2>2. c.members[op.obj] \subseteq Phys
    BY <2>1, ConfigTypes
  <2> QED BY <1>0, <2>1, <2>2, BondMade
<1>7. CASE op.kind = "del-bond"
  <2>1. o \in DeleteBond(vpp, reg, op.obj) /\ op.obj \in Bond
    BY <1>7 DEF Outcomes, Typed
  <2> QED BY <2>1, DeleteBondSolid
<1>8. CASE op.kind = "prune"
  <2>1. o \in PruneBonds(vpp, reg, c)
    BY <1>8 DEF Outcomes
  <2> QED BY <2>1, PruneSolid
<1>9. CASE op.kind = "bd"
  <2>1. o \in ApplyBridgeDomain(vpp, reg, c, op.obj) /\ op.obj \in c.switches
    BY <1>9 DEF Outcomes, Typed
  <2> QED BY <1>0, <2>1, DomainSolid
<1>10. CASE op.kind = "del-bd"
  <2>1. o \in DeleteBridgeDomain(vpp, reg, op.obj) /\ op.obj \in Switch
    BY <1>10 DEF Outcomes, Typed
  <2> QED BY <2>1, DeleteDomainSolid
<1>11. CASE op.kind = "span"
  <2>1. o \in ApplySpan(vpp, reg, c, op.obj)
    BY <1>11 DEF Outcomes
  <2> QED BY <1>0, <1>1, <2>1, SpanStill DEF Still
<1>12. CASE op.kind = "del-span"
  <2>1. o \in DeleteSpan(vpp, reg, op.obj)
    BY <1>12 DEF Outcomes
  <2> QED BY <1>0, <1>1, <2>1, SpanStill DEF Still
<1>13. CASE op.kind = "qos"
  <2>1. o \in ApplyQos(vpp, reg, op.obj)
    BY <1>13 DEF Outcomes
  <2> QED BY <1>0, <1>1, <2>1, QosStill DEF Still
<1>14. CASE op.kind = "del-qos"
  <2>1. o \in DeleteQos(vpp, reg, op.obj)
    BY <1>14 DEF Outcomes
  <2> QED BY <1>0, <1>1, <2>1, DeleteQosCalm
<1>15. CASE op.kind = "lldp"
  <2>1. o \in ApplyLLDP(vpp, reg, c)
    BY <1>15 DEF Outcomes
  <2> QED BY <1>0, <1>1, <2>1, LldpStill DEF Still
<1>16. CASE op.kind = "iface"
  <2>1. o \in ApplyInterface(vpp, reg, c, op.obj) /\ op.obj \in Phys
    BY <1>16 DEF Outcomes, Typed
  <2> QED BY <1>0, <1>1, <2>1, IfaceCalm
<1> QED BY <1>2, <1>3, <1>4, <1>5, <1>6, <1>7, <1>8, <1>9, <1>10, <1>11, <1>12, <1>13, <1>14, <1>15, <1>16, OpKinds

\* The order of the operations: bonds come before switches, and policies last in a recovery.
LEMMA InOrder ==
  ASSUME NEW op \in Op, NEW x \in Op, Rank(op) <= Rank(x)
  PROVE  /\ op.kind = "bd" => x.kind # "bond"
         /\ op.kind = "iface" => x.kind \notin {"vnic", "acl", "bond", "prune", "bd", "span", "qos", "lldp"}
<1>1. DOMAIN Order = 1..15
  BY DEF Order
<1>2. /\ Order[1] = "vnic" /\ Order[2] = "acl" /\ Order[3] = "bond" /\ Order[4] = "prune" /\ Order[5] = "bd"
      /\ Order[6] = "span" /\ Order[7] = "qos" /\ Order[8] = "lldp" /\ Order[9] = "iface"
  BY DEF Order
<1>3. \A n \in 1..15 : /\ Order[n] = "vnic" => n = 1
                       /\ Order[n] = "acl" => n = 2
                       /\ Order[n] = "bond" => n = 3
                       /\ Order[n] = "prune" => n = 4
                       /\ Order[n] = "bd" => n = 5
                       /\ Order[n] = "span" => n = 6
                       /\ Order[n] = "qos" => n = 7
                       /\ Order[n] = "lldp" => n = 8
                       /\ Order[n] = "iface" => n = 9
  BY DEF Order
<1>4. \A y \in Op : Rank(y) \in 1..15 /\ Order[Rank(y)] = y.kind
  <2> SUFFICES ASSUME NEW y \in Op PROVE Rank(y) \in 1..15 /\ Order[Rank(y)] = y.kind
    OBVIOUS
  <2>1. \E n \in DOMAIN Order : Order[n] = y.kind
    BY DEF Op
  <2>2. Rank(y) \in DOMAIN Order /\ Order[Rank(y)] = y.kind
    BY <2>1 DEF Rank
  <2> QED BY <1>1, <2>2
<1>5. Rank(op) \in 1..15 /\ Order[Rank(op)] = op.kind /\ Rank(x) \in 1..15 /\ Order[Rank(x)] = x.kind
  BY <1>4
<1> QED BY <1>3, <1>5

-----------------------------------------------------------------------------
\* A recovery deletes nothing.
Restoring(P) ==
  \A x \in P : x.kind \in {"vnic", "acl", "bond", "prune", "bd", "span", "qos", "lldp", "iface"}

\* An operation that fits a configuration is about an object of it.
LEMMA FitsTyped ==
  ASSUME NEW m, NEW c \in Cfg, NEW op, Fits(op, m, c)
  PROVE  Typed(op, c)
<1>1. c.vnics \subseteq Vnic /\ c.switches \subseteq Switch /\ Bonds(c) \subseteq Bond /\ Spans(c) \subseteq Span
  BY ConfigTypes DEF Bonds, Spans
<1> QED BY <1>1 DEF Fits, Typed

\* What a recovery has brought back stays, and what it applies is back.
LEMMA OpBack ==
  ASSUME Solid(vpp, reg), Roomy, NEW c \in Cfg, NEW P \in SUBSET Op, Restoring(P), Recovered(vpp, reg, c, P),
         NEW op \in Due(P), Fits(op, "recover", c), NEW o \in Outcomes(op, c), o.ok
  PROVE  Recovered(o.vpp, o.reg, c, P \ {op})
<1>0. /\ VppShape(vpp) /\ RegShape(reg) /\ RoomIn(vpp)
      /\ Back(vpp, reg, c, P) /\ PoliciesBack(vpp, reg, c, P)
  BY DEF Solid, Roomy, Recovered
<1>1. op \in P /\ op \in Op /\ Typed(op, c) /\ \A x \in P : x \in Op /\ Rank(op) <= Rank(x)
  BY FitsTyped DEF Due
<1>2. op.kind # "iface" /\ o.reg.policy = reg.policy => PoliciesBack(o.vpp, o.reg, c, P \ {op})
  BY <1>0, <1>1, PoliciesWait
<1>3. Calm(vpp, reg, o) /\ op.kind \notin {"bond", "bd", "prune"} => Back(o.vpp, o.reg, c, P \ {op})
  BY <1>0, <1>1, CalmBack
<1>4. Still(vpp, reg, o) /\ op.kind \notin {"bond", "bd", "prune", "iface"} => Recovered(o.vpp, o.reg, c, P \ {op})
  BY <1>2, <1>3 DEF Recovered, Still
<1>5. CASE op.kind = "vnic"
  <2>1. o \in ApplyVnic(vpp, reg, op.obj) /\ op.obj \in Vnic
    BY <1>1, <1>5 DEF Outcomes, Typed
  <2>2. Back(o.vpp, o.reg, c, P \ {op}) /\ o.reg = reg
    BY <1>0, <1>1, <1>5, <2>1, VnicBack
  <2> QED BY <1>2, <1>5, <2>2 DEF Recovered
<1>6. CASE op.kind = "acl"
  <2>1. o \in ApplyACL(vpp, reg, op.obj)
    BY <1>6 DEF Outcomes
  <2> QED BY <1>0, <1>4, <1>6, <2>1, AclStill
<1>7. CASE op.kind = "bond"
  <2>1. o \in ApplyBond(vpp, reg, c, op.obj) /\ op.obj \in Bonds(c)
    BY <1>7 DEF Outcomes, Fits
  <2>2. Back(o.vpp, o.reg, c, P \ {op}) /\ o.reg.policy = reg.policy
    BY <1>0, <1>1, <1>7, <2>1, BondBack
  <2> QED BY <1>2, <1>7, <2>2 DEF Recovered
<1>8. CASE op.kind = "prune"
  <2>1. o \in PruneBonds(vpp, reg, c)
    BY <1>8 DEF Outcomes
  <2>2. Back(o.vpp, o.reg, c, P \ {op}) /\ o.reg.policy = reg.policy
    BY <1>0, <1>1, <1>8, <2>1, PruneBack
  <2> QED BY <1>2, <1>8, <2>2 DEF Recovered
<1>9. CASE op.kind = "bd"
  <2>1. o \in ApplyBridgeDomain(vpp, reg, c, op.obj) /\ op.obj \in c.switches
    BY <1>9 DEF Outcomes, Fits
  <2>2. NoBond(P)
    <3> SUFFICES ASSUME NEW b, Waits(P, "bond", b) PROVE FALSE
      BY DEF NoBond
    <3> DEFINE x == [kind |-> "bond", obj |-> b]
    <3>1. x \in P /\ x.kind = "bond"
      BY DEF Waits
    <3> HIDE DEF x
    <3> QED BY <1>1, <1>9, <3>1, InOrder
  <2>3. Back(o.vpp, o.reg, c, P \ {op}) /\ o.reg.policy = reg.policy
    BY <1>0, <1>1, <1>9, <2>1, <2>2, DomainBack
  <2> QED BY <1>2, <1>9, <2>3 DEF Recovered
<1>10. CASE op.kind = "span"
  <2>1. o \in ApplySpan(vpp, reg, c, op.obj)
    BY <1>10 DEF Outcomes
  <2> QED BY <1>0, <1>4, <1>10, <2>1, SpanStill
<1>11. CASE op.kind = "qos"
  <2>1. o \in ApplyQos(vpp, reg, op.obj)
    BY <1>11 DEF Outcomes
  <2> QED BY <1>0, <1>4, <1>11, <2>1, QosStill
<1>12. CASE op.kind = "lldp"
  <2>1. o \in ApplyLLDP(vpp, reg, c)
    BY <1>12 DEF Outcomes
  <2> QED BY <1>0, <1>4, <1>12, <2>1, LldpStill
<1>13. CASE op.kind = "iface"
  <2>1. o \in ApplyInterface(vpp, reg, c, op.obj) /\ op.obj \in Phys
    BY <1>1, <1>13 DEF Outcomes, Typed
  <2>2. \A x \in P : x.kind = "iface"
    BY <1>1, <1>13, InOrder DEF Restoring
  <2>3. Calm(vpp, reg, o)
    BY <1>0, <2>1, IfaceCalm
  <2>4. PoliciesBack(o.vpp, o.reg, c, P \ {op})
    BY <1>0, <1>1, <1>13, <2>1, <2>2, IfaceBack
  <2> QED BY <1>3, <1>13, <2>3, <2>4 DEF Recovered
<1> QED BY <1>1, <1>5, <1>6, <1>7, <1>8, <1>9, <1>10, <1>11, <1>12, <1>13 DEF Restoring

-----------------------------------------------------------------------------
\* What a commit has done, and will undo should it fail.
Undoable(op) ==
  /\ op.kind \in {"vnic", "del-vnic"} => op.obj \in Vnic
  /\ op.kind \in {"bond", "del-bond"} => op.obj \in Bond
  /\ op.kind \in {"bd", "del-bd"} => op.obj \in Switch
  /\ op.kind \in {"span", "del-span"} => op.obj \in Span
  /\ op.kind = "iface" => op.obj \in Phys
  /\ op.kind # "prune"

\* An operation of a commit can be undone.
LEMMA FitsUndoable ==
  ASSUME NEW c \in Cfg, NEW op, Fits(op, "run", c)
  PROVE  Undoable(op)
<1>1. c.vnics \subseteq Vnic /\ c.switches \subseteq Switch /\ Bonds(c) \subseteq Bond /\ Spans(c) \subseteq Span
  BY ConfigTypes DEF Bonds, Spans
<1> QED BY <1>1 DEF Fits, Undoable

\* What undoes an operation is an operation about an object of the committed configuration.
LEMMA UndoTyped ==
  ASSUME committed \in Cfg, NEW op \in Op, Undoable(op)
  PROVE  Undo(op) \in Op /\ Typed(Undo(op), committed)
<1> DEFINE S == {<<"vnic", "del-vnic", committed.vnics>>, <<"acl", "del-acl", committed.acls>>,
                 <<"bond", "del-bond", Bonds(committed)>>,
                 <<"bd", "del-bd", committed.switches>>,
                 <<"span", "del-span", Spans(committed)>>,
                 <<"qos", "del-qos", committed.qos>>,
                 <<"lldp", "lldp", {None}>>, <<"iface", "iface", Phys>>}
           pair == CHOOSE x \in S : op.kind \in {x[1], x[2]}
           k == IF op.obj \in pair[3] THEN pair[1] ELSE pair[2]
<1>1. op.kind \in {"vnic", "acl", "bond", "bd", "span", "qos", "lldp", "iface",
                   "del-bd", "del-bond", "del-vnic", "del-span", "del-qos", "del-acl"}
  BY OpKinds DEF Undoable
<1>2. \E x \in S : op.kind \in {x[1], x[2]}
  BY <1>1
<1>3. pair \in S /\ op.kind \in {pair[1], pair[2]}
  <2> HIDE DEF S
  <2> QED BY <1>2
<1>4. Undo(op) = [op EXCEPT !.kind = k]
  BY DEF Undo
<1> HIDE DEF pair
<1>5. \/ pair = <<"vnic", "del-vnic", committed.vnics>>
      \/ pair = <<"acl", "del-acl", committed.acls>>
      \/ pair = <<"bond", "del-bond", Bonds(committed)>>
      \/ pair = <<"bd", "del-bd", committed.switches>>
      \/ pair = <<"span", "del-span", Spans(committed)>>
      \/ pair = <<"qos", "del-qos", committed.qos>>
      \/ pair = <<"lldp", "lldp", {None}>>
      \/ pair = <<"iface", "iface", Phys>>
  BY <1>3
<1>6. k \in {Order[n] : n \in DOMAIN Order}
  BY <1>5 DEF Order
<1>7. Typed([kind |-> k, obj |-> op.obj], committed)
  <2>1. CASE pair = <<"vnic", "del-vnic", committed.vnics>>
    <3>1. k \in {"vnic", "del-vnic"} /\ op.obj \in Vnic
      BY <1>3, <2>1 DEF Undoable
    <3> HIDE DEF k
    <3> QED BY <3>1 DEF Typed
  <2>2. CASE pair = <<"acl", "del-acl", committed.acls>>
    <3>1. k \in {"acl", "del-acl"}
      BY <2>2
    <3> HIDE DEF k
    <3> QED BY <3>1 DEF Typed
  <2>3. CASE pair = <<"bond", "del-bond", Bonds(committed)>>
    <3>1. k \in {"bond", "del-bond"} /\ op.obj \in Bond
      BY <1>3, <2>3 DEF Undoable
    <3> HIDE DEF k
    <3> QED BY <3>1 DEF Typed
  <2>4. CASE pair = <<"bd", "del-bd", committed.switches>>
    <3>1. op.obj \in Switch /\ ((k = "bd" /\ op.obj \in committed.switches) \/ k = "del-bd")
      BY <1>3, <2>4 DEF Undoable
    <3> HIDE DEF k
    <3> QED BY <3>1 DEF Typed
  <2>5. CASE pair = <<"span", "del-span", Spans(committed)>>
    <3>1. k \in {"span", "del-span"} /\ op.obj \in Span
      BY <1>3, <2>5 DEF Undoable
    <3> HIDE DEF k
    <3> QED BY <3>1 DEF Typed
  <2>6. CASE pair = <<"qos", "del-qos", committed.qos>>
    <3>1. k \in {"qos", "del-qos"}
      BY <2>6
    <3> HIDE DEF k
    <3> QED BY <3>1 DEF Typed
  <2>7. CASE pair = <<"lldp", "lldp", {None}>>
    <3>1. k = "lldp"
      BY <2>7
    <3> HIDE DEF k
    <3> QED BY <3>1 DEF Typed
  <2>8. CASE pair = <<"iface", "iface", Phys>>
    <3>1. k = "iface" /\ op.obj \in Phys
      BY <1>3, <2>8 DEF Undoable
    <3> HIDE DEF k
    <3> QED BY <3>1 DEF Typed
  <2> HIDE DEF k
  <2> QED BY <1>5, <2>1, <2>2, <2>3, <2>4, <2>5, <2>6, <2>7, <2>8
<1> HIDE DEF k
<1>8. [op EXCEPT !.kind = k] = [kind |-> k, obj |-> op.obj]
  BY OpKinds
<1>9. [kind |-> k, obj |-> op.obj] \in Op
  BY <1>6, OpKinds DEF Op
<1> QED BY <1>4, <1>7, <1>8, <1>9

-----------------------------------------------------------------------------
(* What holds whatever fails *)

Recovering ==
  /\ VppShape(vpp) /\ RegShape(reg) /\ Firm(vpp)
  /\ up \/ job.phase # "idle" => Held(vpp, reg)
  /\ job.phase \in {"run", "undo"} => \A n \in DOMAIN job.done : Undoable(job.done[n])
  /\ job.phase = "recover" => /\ Restoring(job.todo)
                              /\ job.done = << >> => Recovered(vpp, reg, committed, job.todo)

\* VPP and the registries after a start.
LEMMA Started ==
  /\ VppShape(EmptyVpp) /\ Firm(EmptyVpp)
  /\ RegShape(EmptyReg) /\ \A v : Held(v, EmptyReg)
<1> DEFINE v0 == [at |-> [i \in Index |-> None], bds |-> {}, in |-> [i \in Index |-> None],
                  slave |-> [p \in Phys |-> 0], lacp |-> {}, acls |-> {},
                  guard |-> [i \in Index |-> None], span |-> {}, qos |-> {},
                  input |-> [i \in Index |-> None], lldp |-> {}]
           names == {<<p, 0>> : p \in Phys}
           v == Create(v0, names)
<1>1. v0 \in VppType /\ \A i \in Index : v0.at[i] = None
  BY DEF VppType
<1>2. v0.slave = [p \in Phys |-> 0]
  OBVIOUS
<1>3. EmptyVpp = v
  BY DEF EmptyVpp
<1> HIDE DEF v0
<1>4. \A p \in Phys : <<p, 0>> \in IfName /\ <<p, 0>> # None /\ <<p, 0>> \in names
  BY Kinds, SwitchingAssumption DEF IfName, Port
<1>5. names \in SUBSET IfName /\ \A x \in names : x # None /\ \E p \in Phys : x = <<p, 0>>
  BY <1>4
<1> HIDE DEF names
<1>6. Distinct(v0) /\ \A i \in Index : v0.at[i] \notin names
  BY <1>1, <1>5 DEF Distinct
<1>7. /\ v \in VppType /\ v.slave = v0.slave
      /\ \A i \in Index : v.at[i] \in names \cup {None}
      /\ \A n \in names : \E i \in Index : v.at[i] = n
  BY <1>1, <1>5, <1>6, CreatedFrom
<1> HIDE DEF v
<1>8. VppShape(v)
  BY <1>7 DEF VppType, VppShape
<1>9. Firm(v)
  <2>1. \A b \in Bond, x \in Vlan : <<b, x>> # None
    BY Strays DEF Port
  <2>2. \A i \in Index, b \in Bond, x \in Vlan : v.at[i] # <<b, x>>
    BY <1>5, <1>7, <2>1, Kinds
  <2>3. \A p \in Phys : v.slave[p] = 0
    BY <1>2, <1>7
  <2>4. \A p \in Phys : \E i \in Index : v.at[i] = <<p, 0>>
    BY <1>4, <1>7
  <2> QED BY <2>2, <2>3, <2>4 DEF Firm
<1>10. RegShape(EmptyReg)
  BY DEF RegShape, EmptyReg
<1>11. \A w : Held(w, EmptyReg)
  BY DEF Held, EmptyReg
<1> QED BY <1>3, <1>8, <1>9, <1>10, <1>11

\* When a recovery begins everything is to come.
LEMMA NothingBack ==
  ASSUME NEW c \in Cfg, NEW v
  PROVE  Restoring(Replay(c)) /\ Recovered(v, EmptyReg, c, Replay(c))
<1>1. Restoring(Replay(c))
  BY DEF Restoring, Replay, Ops
<1>2. /\ \A s \in c.switches : Waits(Replay(c), "bd", s)
      /\ \A b \in Bonds(c) : Waits(Replay(c), "bond", b)
      /\ Waits(Replay(c), "prune", None)
      /\ \A p \in Phys : Waits(Replay(c), "iface", p)
  BY DEF Waits, Replay, Ops
<1>3. /\ \A s \in c.switches : EmptyReg.attached[s] = {}
      /\ \A b \in Bonds(c) : EmptyReg.bond[b] = 0
      /\ \A p \in Phys : EmptyReg.policy[p] = None
  BY ConfigTypes DEF EmptyReg, Bonds
<1> QED BY <1>1, <1>2, <1>3 DEF Recovered, Back, BridgesBack, BondsBack, Pruned, PoliciesBack

-----------------------------------------------------------------------------
\* The invariant of recoveries holds initially.
LEMMA InitRecovering == Init => Recovering
<1> SUFFICES ASSUME Init PROVE Recovering
  OBVIOUS
<1>1. /\ vpp = EmptyVpp /\ reg = EmptyReg
      /\ job = [phase |-> "idle", new |-> Init0, todo |-> {}, done |-> << >>]
  BY DEF Init
<1>2. job.phase = "idle"
  BY <1>1
<1> QED BY <1>1, <1>2, Started DEF Recovering

\* The parts of a job.
LEMMA JobSet ==
  ASSUME job \in JobType, NEW p, NEW T, NEW d
  PROVE  /\ LET j == [job EXCEPT !.phase = p, !.todo = T] IN j.phase = p /\ j.todo = T /\ j.done = job.done
         /\ LET j == [job EXCEPT !.phase = p, !.done = d] IN j.phase = p /\ j.todo = job.todo /\ j.done = d
         /\ LET j == [job EXCEPT !.todo = T, !.done = d] IN j.phase = job.phase /\ j.todo = T /\ j.done = d
         /\ LET j == [job EXCEPT !.done = d] IN j.phase = job.phase /\ j.todo = job.todo /\ j.done = d
  BY DEF JobType

\* The steps that call no service keep the invariant of recoveries: a recovery starts with
\* empty registries and everything to do.
LEMMA QuietRecovering ==
  ASSUME SwitchingInv, Recovering,
         (\E n \in Cfg : Begin(n)) \/ End \/ VppRestart \/ DaemonRestart \/ Recover \/ RecoverEnd \/ UNCHANGED vars
  PROVE  Recovering'
<1>1. /\ committed \in Cfg /\ job \in JobType /\ up \in BOOLEAN
      /\ VppShape(vpp) /\ RegShape(reg) /\ Firm(vpp)
      /\ up \/ job.phase # "idle" => Held(vpp, reg)
  BY DEF SwitchingInv, Progress, Recovering
<1>2. job.phase \in {"idle", "run", "undo", "recover"}
  BY <1>1, JobParts
<1>3. CASE \E n \in Cfg : Begin(n)
  <2>1. PICK n \in Cfg : Begin(n)
    BY <1>3
  <2>2. /\ up /\ vpp' = vpp /\ reg' = reg
        /\ job' = [phase |-> "run", new |-> n, todo |-> Plan(committed, n), done |-> << >>]
    BY <2>1 DEF Begin
  <2>3. job'.phase = "run" /\ job'.done = << >>
    BY <2>2
  <2> QED BY <1>1, <2>2, <2>3 DEF Recovering
<1>4. CASE End
  <2>1. /\ job.phase \in {"run", "undo"} /\ vpp' = vpp /\ reg' = reg
        /\ job' = [job EXCEPT !.phase = "idle", !.done = << >>]
    BY <1>4 DEF End
  <2>2. job'.phase = "idle"
    BY <1>1, <2>1, JobSet
  <2> QED BY <1>1, <2>1, <2>2 DEF Recovering
<1>5. CASE VppRestart
  <2>1. /\ vpp' = EmptyVpp /\ reg' = reg /\ up' = FALSE
        /\ job' = [job EXCEPT !.phase = "idle", !.todo = {}]
    BY <1>5 DEF VppRestart
  <2>2. job'.phase = "idle"
    BY <1>1, <2>1, JobSet
  <2> QED BY <1>1, <2>1, <2>2, Started DEF Recovering
<1>6. CASE DaemonRestart
  <2>1. /\ vpp' = vpp /\ reg' = EmptyReg /\ up' = FALSE
        /\ job' = [phase |-> "idle", new |-> committed, todo |-> {}, done |-> << >>]
    BY <1>6 DEF DaemonRestart
  <2>2. job'.phase = "idle"
    BY <2>1
  <2> QED BY <1>1, <2>1, <2>2, Started DEF Recovering
<1>7. CASE Recover
  <2>1. /\ vpp' = vpp /\ reg' = EmptyReg /\ committed' = committed
        /\ job' = [phase |-> "recover", new |-> committed, todo |-> Replay(committed), done |-> << >>]
    BY <1>7 DEF Recover
  <2>2. job'.phase = "recover" /\ job'.todo = Replay(committed)
    BY <2>1
  <2> QED BY <1>1, <2>1, <2>2, Started, NothingBack DEF Recovering
<1>8. CASE RecoverEnd
  <2>1. /\ job.phase = "recover" /\ vpp' = vpp /\ reg' = reg
        /\ job' = [job EXCEPT !.phase = "idle", !.done = << >>]
    BY <1>8 DEF RecoverEnd
  <2>2. job'.phase = "idle"
    BY <1>1, <2>1, JobSet
  <2> QED BY <1>1, <2>1, <2>2 DEF Recovering
<1>9. CASE UNCHANGED vars
  BY <1>9 DEF vars, Recovering
<1> QED BY <1>3, <1>4, <1>5, <1>6, <1>7, <1>8, <1>9

\* An operation of a commit keeps the invariant of recoveries.
LEMMA RunOpRecovering ==
  ASSUME SwitchingInv, Recovering, Roomy, RunOp
  PROVE  Recovering'
<1>0. PICK op \in Due(job.todo) : \E o \in Outcomes(op, job.new) :
        /\ Take(op, o, job.new)
        /\ job' = IF o.ok THEN [job EXCEPT !.todo = @ \ {op}, !.done = Append(@, op)]
                  ELSE [job EXCEPT !.phase = "undo", !.todo = {}]
  BY Zenon DEF RunOp
<1>1. PICK o \in Outcomes(op, job.new) :
        /\ Take(op, o, job.new)
        /\ job' = IF o.ok THEN [job EXCEPT !.todo = @ \ {op}, !.done = Append(@, op)]
                  ELSE [job EXCEPT !.phase = "undo", !.todo = {}]
  BY <1>0
<1>2. /\ job.phase = "run" /\ job \in JobType /\ \A x \in job.todo : Fits(x, Stage, Target)
  BY DEF SwitchingInv, Progress, RunOp
<1>3. job.new \in Cfg /\ job.todo \subseteq Op /\ job.done \in Seq(Op)
  BY <1>2, JobParts
<1>4. op \in job.todo /\ op \in Op /\ Fits(op, "run", job.new)
  <2>1. Stage = "run" /\ Target = job.new
    BY <1>2 DEF Stage, Target
  <2> QED BY <1>2, <1>3, <2>1 DEF Due
<1>5. Solid(vpp, reg)
  BY <1>2 DEF Recovering, Solid
<1>6. Solid(o.vpp, o.reg)
  BY <1>3, <1>4, <1>5, FitsTyped, OpSolid
<1>7. vpp' = o.vpp /\ reg' = o.reg
  BY <1>1 DEF Take
<1>8. \A n \in DOMAIN job.done : Undoable(job.done[n])
  BY <1>2 DEF Recovering
<1>9. CASE o.ok
  <2>1. job' = [job EXCEPT !.todo = job.todo \ {op}, !.done = Append(job.done, op)]
    BY <1>1, <1>9
  <2>2. job'.phase = "run" /\ job'.done = Append(job.done, op)
    BY <1>2, <2>1, JobSet
  <2>3. \A n \in DOMAIN job'.done : Undoable(job'.done[n])
    <3>1. Undoable(op)
      BY <1>3, <1>4, FitsUndoable
    <3>2. /\ Len(Append(job.done, op)) = Len(job.done) + 1
          /\ \A n \in 1 .. Len(job.done) : Append(job.done, op)[n] = job.done[n]
          /\ Append(job.done, op)[Len(job.done) + 1] = op
      BY <1>3, <1>4, AppendProperties
    <3>3. /\ DOMAIN job.done = 1 .. Len(job.done) /\ Len(job.done) \in Nat
          /\ DOMAIN Append(job.done, op) = 1 .. Len(Append(job.done, op))
      BY <1>3, <1>4, LenProperties, AppendProperties
    <3> QED BY <1>8, <2>2, <3>1, <3>2, <3>3
  <2> QED BY <1>6, <1>7, <2>2, <2>3 DEF Recovering, Solid
<1>10. CASE ~o.ok
  <2>1. job' = [job EXCEPT !.phase = "undo", !.todo = {}]
    BY <1>1, <1>10
  <2>2. job'.phase = "undo" /\ job'.done = job.done
    BY <1>2, <2>1, JobSet
  <2> QED BY <1>6, <1>7, <1>8, <2>2 DEF Recovering, Solid
<1> QED BY <1>9, <1>10

\* An operation that undoes one of a commit keeps the invariant of recoveries.
LEMMA UndoOpRecovering ==
  ASSUME SwitchingInv, Recovering, Roomy, UndoOp
  PROVE  Recovering'
<1> DEFINE op == job.done[Len(job.done)]
           d == SubSeq(job.done, 1, Len(job.done) - 1)
<1>1. PICK o \in Outcomes(Undo(op), committed) : Take(Undo(op), o, committed)
  BY DEF UndoOp
<1>2. /\ job.phase = "undo" /\ job.done # << >> /\ job \in JobType /\ committed \in Cfg
      /\ job' = [job EXCEPT !.done = d]
  BY DEF SwitchingInv, Progress, UndoOp
<1>3. job.done \in Seq(Op)
  BY <1>2, JobParts
<1>4. Len(job.done) \in Nat /\ Len(job.done) # 0 /\ DOMAIN job.done = 1 .. Len(job.done)
  BY <1>2, <1>3, EmptySeq, LenProperties
<1>5. \A n \in DOMAIN job.done : job.done[n] \in Op /\ Undoable(job.done[n])
  BY <1>2, <1>3 DEF Recovering
<1>6. op \in Op /\ Undoable(op)
  BY <1>4, <1>5
<1>7. \A n \in DOMAIN d : Undoable(d[n])
  <2>1. d \in Seq(Op) /\ DOMAIN d = 1 .. Len(job.done) - 1 /\ \A n \in 1 .. Len(job.done) - 1 : d[n] = job.done[n]
    BY <1>3, <1>4, SubSeqProperties
  <2> HIDE DEF d
  <2> QED BY <1>4, <1>5, <2>1
<1> HIDE DEF op, d
<1>8. Solid(vpp, reg)
  BY <1>2 DEF Recovering, Solid
<1>9. Solid(o.vpp, o.reg)
  BY <1>2, <1>6, <1>8, UndoTyped, OpSolid
<1>10. vpp' = o.vpp /\ reg' = o.reg
  BY <1>1 DEF Take
<1>11. job'.phase = "undo" /\ job'.done = d
  BY <1>2, JobSet
<1> QED BY <1>7, <1>9, <1>10, <1>11 DEF Recovering, Solid

\* An operation of a recovery keeps the invariant of recoveries: what it is about is back, or
\* there is an alarm.
LEMMA RecoverOpRecovering ==
  ASSUME SwitchingInv, Recovering, Roomy, RecoverOp
  PROVE  Recovering'
<1>0. PICK op \in Due(job.todo) : \E o \in Outcomes(op, committed) :
        /\ Take(op, o, committed)
        /\ job' = [job EXCEPT !.todo = @ \ {op}, !.done = IF o.ok THEN @ ELSE Append(@, op)]
  BY Zenon DEF RecoverOp
<1>1. PICK o \in Outcomes(op, committed) :
        /\ Take(op, o, committed)
        /\ job' = [job EXCEPT !.todo = @ \ {op}, !.done = IF o.ok THEN @ ELSE Append(@, op)]
  BY <1>0, Zenon
<1>2. /\ job.phase = "recover" /\ job \in JobType /\ committed \in Cfg /\ committed' = committed
      /\ \A x \in job.todo : Fits(x, Stage, Target)
  BY DEF SwitchingInv, Progress, RecoverOp
<1>3. job.todo \subseteq Op /\ job.done \in Seq(Op)
  BY <1>2, JobParts
<1>4. op \in job.todo /\ op \in Op /\ Fits(op, "recover", committed)
  <2>1. Stage = "recover" /\ Target = committed
    BY <1>2 DEF Stage, Target
  <2> QED BY <1>2, <1>3, <2>1 DEF Due
<1>5. Solid(vpp, reg) /\ Restoring(job.todo) /\ (job.done = << >> => Recovered(vpp, reg, committed, job.todo))
  BY <1>2 DEF Recovering, Solid
<1>6. Solid(o.vpp, o.reg)
  BY <1>2, <1>4, <1>5, FitsTyped, OpSolid
<1>7. vpp' = o.vpp /\ reg' = o.reg
  BY <1>1 DEF Take
<1> DEFINE d == IF o.ok THEN job.done ELSE Append(job.done, op)
<1>8. job' = [job EXCEPT !.todo = job.todo \ {op}, !.done = d]
  BY <1>1
<1>9. d = << >> => o.ok /\ job.done = << >>
  <2>1. Append(job.done, op) # << >>
    BY <1>3, <1>4, AppendProperties, EmptySeq, LenProperties
  <2> QED BY <2>1
<1> HIDE DEF d
<1>10. job'.phase = "recover" /\ job'.todo = job.todo \ {op} /\ job'.done = d
  BY <1>2, <1>8, JobSet
<1>11. d = << >> => Recovered(o.vpp, o.reg, committed, job.todo \ {op})
  BY <1>2, <1>3, <1>4, <1>5, <1>9, OpBack
<1>12. Restoring(job.todo \ {op})
  BY <1>5 DEF Restoring
<1> QED BY <1>2, <1>6, <1>7, <1>10, <1>11, <1>12 DEF Recovering, Solid

-----------------------------------------------------------------------------
(* The room that is left *)

\* The registries the next operation will find: a recovery starts with empty ones.
Regs == IF up \/ job.phase # "idle" THEN reg ELSE EmptyReg

\* VPP has one interface of a name, or repeatable ones, and of those that no registry remembers
\* no more than the failing calls and the restarts so far have left.
Tidy ==
  /\ Lone(vpp) /\ (job.phase = "undo" => up)
  /\ events \in 0..MaxEvents
  /\ Cardinality(Spurious(vpp, Regs)) <= events * (Cardinality(Switch) + 1)

\* Unremembered interfaces are finitely many.
LEMMA SpuriousFinite ==
  ASSUME NEW v, NEW r
  PROVE  Cardinality(Spurious(v, r)) \in Nat
<1> DEFINE S == Spurious(v, r)
<1>1. S \in SUBSET Index
  BY DEF Spurious
<1> HIDE DEF S
<1>2. Cardinality(S) \in Nat
  BY <1>1, IndexAssumption, FS_Subset, FS_CardinalityType
<1> QED BY <1>2 DEF S

\* They fit.
LEMMA TidyRoomy ==
  ASSUME VppShape(vpp), Tidy
  PROVE  Roomy
<1> DEFINE k == Cardinality(Switch) + 1
           n == Cardinality(Spurious(vpp, Regs))
           d == Cardinality(IfName)
           x == Cardinality(Index)
<1>1. k \in Nat /\ n \in Nat /\ d \in Nat /\ x \in Nat /\ MaxEvents \in Nat
  BY SwitchFinite, SpuriousFinite, IndexAssumption, FS_CardinalityType, SwitchingAssumption
<1>2. events \in Nat /\ events <= MaxEvents /\ n <= events * k
  BY <1>1 DEF Tidy
<1>3. d + MaxEvents * k < x
  BY RoomAssumption
<1> HIDE DEF k, n, d, x
<1>4. events * k <= MaxEvents * k /\ events * k \in Nat /\ MaxEvents * k \in Nat
  BY <1>1, <1>2, Rises
<1>5. d + n < x
  BY <1>1, <1>2, <1>3, <1>4
<1>6. RoomIn(vpp)
  BY <1>5, FewSpurious DEF Tidy, d, n, x
<1> QED BY <1>6 DEF Roomy

\* At the start there are none.
LEMMA StartTidy ==
  ASSUME NEW r
  PROVE  Lone(EmptyVpp) /\ Spurious(EmptyVpp, r) = {}
<1> DEFINE v0 == [at |-> [i \in Index |-> None], bds |-> {}, in |-> [i \in Index |-> None],
                  slave |-> [p \in Phys |-> 0], lacp |-> {}, acls |-> {},
                  guard |-> [i \in Index |-> None], span |-> {}, qos |-> {},
                  input |-> [i \in Index |-> None], lldp |-> {}]
           names == {<<p, 0>> : p \in Phys}
           v == Create(v0, names)
<1>1. v0 \in VppType /\ \A i \in Index : v0.at[i] = None
  BY DEF VppType
<1>2. EmptyVpp = v
  BY DEF EmptyVpp
<1> HIDE DEF v0
<1>3. \A p \in Phys : <<p, 0>> \in IfName /\ <<p, 0>> # None
  BY Kinds, SwitchingAssumption DEF IfName, Port
<1>4. names \in SUBSET IfName /\ \A x \in names : x # None /\ \E p \in Phys : x = <<p, 0>>
  BY <1>3
<1> HIDE DEF names
<1>5. Distinct(v0) /\ \A i \in Index : v0.at[i] \notin names
  BY <1>1, <1>4 DEF Distinct
<1>6. /\ \A i \in Index : v.at[i] \in names \cup {None}
      /\ \A i, j \in Index : v.at[i] = v.at[j] /\ v.at[i] # None => i = j
  BY <1>1, <1>4, <1>5, CreatedFrom
<1> HIDE DEF v
<1>7. Stray # None /\ (\A s \in Switch : <<s, 0>> # None) /\ \A p \in Phys : <<p, 0>> # Stray
  BY Strays, SwitchingAssumption DEF Port
<1>8. \A p \in Phys, s \in Switch : <<p, 0>> # <<s, 0>>
  BY KindsAssumption DEF Port
<1>9. Spurious(v, r) = {}
  BY <1>4, <1>6, <1>7, <1>8 DEF Spurious
<1>10. Lone(v)
  BY <1>6 DEF Lone
<1> QED BY <1>2, <1>9, <1>10

\* After the start no interface is left behind.
LEMMA InitTidy == Init => Tidy
<1> SUFFICES ASSUME Init PROVE Tidy
  OBVIOUS
<1>1. vpp = EmptyVpp /\ events = 0 /\ job.phase = "idle"
  BY DEF Init
<1>2. Cardinality(Spurious(vpp, Regs)) = 0
  <2>1. Spurious(vpp, Regs) = {}
    BY <1>1, StartTidy
  <2> QED BY <2>1, FS_EmptySet
<1>3. events * (Cardinality(Switch) + 1) = 0
  BY <1>1, SwitchFinite
<1> QED BY <1>1, <1>2, <1>3, StartTidy, SwitchingAssumption DEF Tidy

\* An operation leaves what an event of it accounts for.
LEMMA OpTidy ==
  ASSUME Tidy, NEW op, NEW c, NEW o, Take(op, o, c), Costs(vpp, reg, o),
         up \/ job.phase # "idle", up' \/ job'.phase # "idle", job'.phase = "undo" => up'
  PROVE  Tidy'
<1> DEFINE k == Cardinality(Switch) + 1
           n == Cardinality(Spurious(vpp, reg))
           m == Cardinality(Spurious(o.vpp, o.reg))
<1>1. /\ o.fault => events < MaxEvents
      /\ events' = IF o.fault THEN events + 1 ELSE events
      /\ vpp' = o.vpp /\ reg' = o.reg
  BY DEF Take
<1>2. Regs = reg /\ Regs' = o.reg
  BY <1>1 DEF Regs
<1>3. k \in Nat /\ 1 <= k /\ n \in Nat /\ m \in Nat /\ MaxEvents \in Nat
  BY SwitchFinite, SpuriousFinite, SwitchingAssumption
<1>4. Lone(o.vpp) /\ m <= n + IF o.fault THEN 1 ELSE 0
  BY Cost DEF Tidy
<1>5. events \in Nat /\ events <= MaxEvents /\ n <= events * k
  BY <1>2, <1>3 DEF Tidy
<1>6. events' \in 0..MaxEvents
  BY <1>1, <1>3, <1>5
<1>7. m = Cardinality(Spurious(vpp', Regs'))
  BY <1>1, <1>2
<1>8. Cardinality(Spurious(vpp', Regs')) <= events' * k => Tidy'
  BY <1>1, <1>4, <1>6 DEF Tidy
<1> HIDE DEF k, n, m
<1>9. (events + 1) * k = events * k + k /\ events * k \in Nat
  BY <1>3, <1>5, Rises
<1>10. CASE o.fault
  <2>1. events' = events + 1 /\ m <= n + 1
    BY <1>1, <1>4, <1>10
  <2>2. m <= (events + 1) * k
    BY <1>3, <1>5, <1>9, <2>1
  <2> QED BY <1>7, <1>8, <2>1, <2>2
<1>11. CASE ~o.fault
  <2>1. events' = events /\ m <= n
    BY <1>1, <1>3, <1>4, <1>11
  <2>2. m <= events * k
    BY <1>3, <1>5, <1>9, <2>1
  <2> QED BY <1>7, <1>8, <2>1, <2>2
<1> QED BY <1>10, <1>11

-----------------------------------------------------------------------------
\* A restart is an event of its own, and more than the switches a daemon has forgotten.
LEMMA QuietTidy ==
  ASSUME SwitchingInv, Recovering, Tidy,
         (\E n \in Cfg : Begin(n)) \/ End \/ VppRestart \/ DaemonRestart \/ Recover \/ RecoverEnd \/ UNCHANGED vars
  PROVE  Tidy'
<1> DEFINE k == Cardinality(Switch) + 1
           n == Cardinality(Spurious(vpp, Regs))
           m == Cardinality(Spurious(vpp', Regs'))
<1>1. /\ job \in JobType /\ RegShape(reg) /\ up \in BOOLEAN
      /\ (job.phase = "run" => up) /\ (job.phase = "recover" => ~up)
  BY DEF SwitchingInv, Progress, Recovering
<1>2. k \in Nat /\ 1 <= k /\ k = Cardinality(Switch) + 1 /\ Cardinality(Switch) \in Nat /\ n \in Nat /\ MaxEvents \in Nat
  BY SwitchFinite, SpuriousFinite, SwitchingAssumption
<1>3. Lone(vpp) /\ (job.phase = "undo" => up) /\ events \in Nat /\ events <= MaxEvents /\ n <= events * k
  BY <1>2 DEF Tidy
<1>4. (events + 1) * k = events * k + k /\ events * k \in Nat
  <2> HIDE DEF k
  <2> QED BY <1>2, <1>3, Rises
<1>5. Lone(vpp') /\ (job'.phase = "undo" => up') /\ events' \in 0..MaxEvents /\ m <= events' * k => Tidy'
  BY DEF Tidy
<1>6. CASE vpp' = vpp /\ Regs' = Regs /\ events' \in {events, events + 1} /\ events' <= MaxEvents
           /\ (job'.phase = "undo" => up')
  <2>1. m = n
    BY <1>6
  <2> HIDE DEF k, m, n
  <2>2. events' \in 0..MaxEvents
    BY <1>2, <1>3, <1>6
  <2>3. m <= events' * k
    BY <1>2, <1>3, <1>4, <1>6, <2>1
  <2> QED BY <1>3, <1>5, <1>6, <2>2, <2>3
<1>7. CASE \E c \in Cfg : Begin(c)
  <2>1. PICK c \in Cfg : Begin(c)
    BY <1>7
  <2>2. /\ job.phase = "idle" /\ up /\ up' = up /\ vpp' = vpp /\ reg' = reg
        /\ job' = [phase |-> "run", new |-> c, todo |-> Plan(committed, c), done |-> << >>]
        /\ events < MaxEvents /\ events' = events + 1
    BY <2>1 DEF Begin
  <2>3. job'.phase = "run"
    BY <2>2
  <2>4. Regs' = Regs
    BY <2>2 DEF Regs
  <2>5. events' <= MaxEvents
    BY <1>2, <1>3, <2>2
  <2> QED BY <1>6, <2>2, <2>3, <2>4, <2>5
<1>8. CASE End
  <2>1. /\ job.phase \in {"run", "undo"} /\ vpp' = vpp /\ reg' = reg /\ up' = up /\ events' = events
        /\ job' = [job EXCEPT !.phase = "idle", !.done = << >>]
    BY <1>8 DEF End
  <2>2. job'.phase = "idle"
    BY <1>1, <2>1, JobSet
  <2>3. Regs' = Regs
    BY <1>1, <1>3, <2>1 DEF Regs
  <2> QED BY <1>3, <1>6, <2>1, <2>2, <2>3
<1>9. CASE VppRestart
  <2>1. /\ vpp' = EmptyVpp /\ job' = [job EXCEPT !.phase = "idle", !.todo = {}]
        /\ events < MaxEvents /\ events' = events + 1
    BY <1>9 DEF VppRestart
  <2>2. job'.phase = "idle"
    BY <1>1, <2>1, JobSet
  <2>3. Lone(vpp') /\ m = 0
    <3>1. Lone(EmptyVpp) /\ Spurious(vpp', Regs') = {}
      BY <2>1, StartTidy
    <3> QED BY <2>1, <3>1, FS_EmptySet
  <2> HIDE DEF k, m, n
  <2>4. events' \in 0..MaxEvents /\ m <= events' * k
    BY <1>2, <1>3, <1>4, <2>1, <2>3
  <2> QED BY <1>5, <2>2, <2>3, <2>4
<1>10. CASE DaemonRestart
  <2>1. /\ vpp' = vpp /\ reg' = EmptyReg /\ up' = FALSE
        /\ job' = [phase |-> "idle", new |-> committed, todo |-> {}, done |-> << >>]
        /\ events < MaxEvents /\ events' = events + 1
    BY <1>10 DEF DaemonRestart
  <2>2. job'.phase = "idle"
    BY <2>1
  <2>3. Regs' = EmptyReg /\ Regs \in {reg, EmptyReg}
    BY <2>1, <2>2 DEF Regs
  <2>4. RegShape(Regs)
    BY <1>1, <2>3, Started
  <2>5. m <= n + Cardinality(Switch)
    <3>1. Regs.bvi \in [Switch -> Index \cup {0}]
      BY <2>4 DEF RegShape
    <3>2. Cardinality(Spurious(vpp, EmptyReg)) <= n + Cardinality(Switch)
      BY <3>1, Forgotten
    <3> QED BY <2>1, <2>3, <3>2
  <2>6. Lone(vpp') /\ m \in Nat
    BY <1>3, <2>1, SpuriousFinite
  <2> HIDE DEF k, m, n
  <2>7. events' \in 0..MaxEvents
    BY <1>2, <1>3, <2>1
  <2>8. m <= events' * k
    <3>1. events' * k = events * k + k /\ events * k \in Nat
      BY <1>4, <2>1
    <3>2. ASSUME NEW x \in Nat, n <= x PROVE m <= x + k
      BY <1>2, <2>5, <2>6, <3>2
    <3> QED BY <1>3, <3>1, <3>2
  <2> QED BY <1>5, <2>2, <2>6, <2>7, <2>8
<1>11. CASE Recover
  <2>1. /\ ~up /\ job.phase = "idle" /\ vpp' = vpp /\ reg' = EmptyReg /\ up' = up /\ events' = events
        /\ job' = [phase |-> "recover", new |-> committed, todo |-> Replay(committed), done |-> << >>]
    BY <1>11 DEF Recover
  <2>2. job'.phase = "recover"
    BY <2>1
  <2>3. Regs' = Regs
    BY <2>1, <2>2 DEF Regs
  <2> QED BY <1>3, <1>6, <2>1, <2>2, <2>3
<1>12. CASE RecoverEnd
  <2>1. /\ job.phase = "recover" /\ vpp' = vpp /\ reg' = reg /\ up' = TRUE /\ events' = events
        /\ job' = [job EXCEPT !.phase = "idle", !.done = << >>]
    BY <1>12 DEF RecoverEnd
  <2>2. job'.phase = "idle"
    BY <1>1, <2>1, JobSet
  <2>3. Regs' = Regs
    BY <2>1 DEF Regs
  <2> QED BY <1>3, <1>6, <2>1, <2>2, <2>3
<1>13. CASE UNCHANGED vars
  <2>1. vpp' = vpp /\ reg' = reg /\ up' = up /\ events' = events /\ job' = job
    BY <1>13 DEF vars
  <2>2. Regs' = Regs
    BY <2>1 DEF Regs
  <2> QED BY <1>3, <1>6, <2>1, <2>2
<1> QED BY <1>7, <1>8, <1>9, <1>10, <1>11, <1>12, <1>13

\* An operation of a commit keeps the bound on interfaces left behind.
LEMMA RunOpTidy ==
  ASSUME SwitchingInv, Recovering, Tidy, RunOp
  PROVE  Tidy'
<1>0. PICK op \in Due(job.todo) : \E o \in Outcomes(op, job.new) :
        /\ Take(op, o, job.new)
        /\ job' = IF o.ok THEN [job EXCEPT !.todo = @ \ {op}, !.done = Append(@, op)]
                  ELSE [job EXCEPT !.phase = "undo", !.todo = {}]
  BY Zenon DEF RunOp
<1>1. PICK o \in Outcomes(op, job.new) :
        /\ Take(op, o, job.new)
        /\ job' = IF o.ok THEN [job EXCEPT !.todo = @ \ {op}, !.done = Append(@, op)]
                  ELSE [job EXCEPT !.phase = "undo", !.todo = {}]
  BY <1>0
<1>2. /\ job.phase = "run" /\ up /\ up' = up /\ job \in JobType /\ \A x \in job.todo : Fits(x, Stage, Target)
  BY DEF SwitchingInv, Progress, RunOp
<1>3. job.new \in Cfg /\ job.todo \subseteq Op /\ job.done \in Seq(Op)
  BY <1>2, JobParts
<1>4. op \in job.todo /\ op \in Op /\ Fits(op, "run", job.new)
  <2>1. Stage = "run" /\ Target = job.new
    BY <1>2 DEF Stage, Target
  <2> QED BY <1>2, <1>3, <2>1 DEF Due
<1>5. Solid(vpp, reg) /\ VppShape(vpp)
  BY <1>2 DEF Recovering, Solid
<1>6. Costs(vpp, reg, o)
  BY <1>3, <1>4, <1>5, FitsTyped, TidyRoomy, OpSolid
<1> QED BY <1>1, <1>2, <1>6, OpTidy

\* An operation that undoes one of a commit keeps it.
LEMMA UndoOpTidy ==
  ASSUME SwitchingInv, Recovering, Tidy, UndoOp
  PROVE  Tidy'
<1> DEFINE op == job.done[Len(job.done)]
<1>1. PICK o \in Outcomes(Undo(op), committed) : Take(Undo(op), o, committed)
  BY DEF UndoOp
<1>2. /\ job.phase = "undo" /\ job.done # << >> /\ job \in JobType /\ committed \in Cfg
      /\ up' = up /\ up
  BY DEF SwitchingInv, Progress, UndoOp, Tidy
<1>3. job.done \in Seq(Op)
  BY <1>2, JobParts
<1>4. Len(job.done) \in Nat /\ Len(job.done) # 0 /\ DOMAIN job.done = 1 .. Len(job.done)
  BY <1>2, <1>3, EmptySeq, LenProperties
<1>5. \A n \in DOMAIN job.done : job.done[n] \in Op /\ Undoable(job.done[n])
  BY <1>2, <1>3 DEF Recovering
<1>6. op \in Op /\ Undoable(op)
  BY <1>4, <1>5
<1> HIDE DEF op
<1>7. Solid(vpp, reg) /\ VppShape(vpp)
  BY <1>2 DEF Recovering, Solid
<1>8. Costs(vpp, reg, o)
  BY <1>2, <1>6, <1>7, UndoTyped, TidyRoomy, OpSolid
<1> QED BY <1>1, <1>2, <1>8, OpTidy

\* An operation of a recovery keeps it.
LEMMA RecoverOpTidy ==
  ASSUME SwitchingInv, Recovering, Tidy, RecoverOp
  PROVE  Tidy'
<1>0. PICK op \in Due(job.todo) : \E o \in Outcomes(op, committed) :
        /\ Take(op, o, committed)
        /\ job' = [job EXCEPT !.todo = @ \ {op}, !.done = IF o.ok THEN @ ELSE Append(@, op)]
  BY Zenon DEF RecoverOp
<1>1. PICK o \in Outcomes(op, committed) :
        /\ Take(op, o, committed)
        /\ job' = [job EXCEPT !.todo = @ \ {op}, !.done = IF o.ok THEN @ ELSE Append(@, op)]
  BY <1>0, Zenon
<1>2. /\ job.phase = "recover" /\ job \in JobType /\ committed \in Cfg
      /\ \A x \in job.todo : Fits(x, Stage, Target)
  BY DEF SwitchingInv, Progress, RecoverOp
<1>3. job.todo \subseteq Op /\ job.done \in Seq(Op)
  BY <1>2, JobParts
<1>4. op \in job.todo /\ op \in Op /\ Fits(op, "recover", committed)
  <2>1. Stage = "recover" /\ Target = committed
    BY <1>2 DEF Stage, Target
  <2> QED BY <1>2, <1>3, <2>1 DEF Due
<1>5. Solid(vpp, reg) /\ VppShape(vpp)
  BY <1>2 DEF Recovering, Solid
<1>6. Costs(vpp, reg, o)
  BY <1>2, <1>4, <1>5, FitsTyped, TidyRoomy, OpSolid
<1> DEFINE d == IF o.ok THEN job.done ELSE Append(job.done, op)
<1>7. job' = [job EXCEPT !.todo = job.todo \ {op}, !.done = d]
  BY <1>1
<1> HIDE DEF d
<1>8. job'.phase = "recover"
  BY <1>2, <1>7, JobSet
<1> QED BY <1>1, <1>2, <1>6, <1>8, OpTidy

-----------------------------------------------------------------------------
\* Every step keeps the invariant of recoveries and the bound on interfaces left behind.
LEMMA NextRecovering ==
  ASSUME SwitchingInv, Recovering, Tidy, [Next]_vars
  PROVE  Recovering' /\ Tidy'
<1>0. Roomy
  BY TidyRoomy DEF Recovering
<1>1. CASE RunOp
  BY <1>0, <1>1, RunOpRecovering, RunOpTidy
<1>2. CASE UndoOp
  BY <1>0, <1>2, UndoOpRecovering, UndoOpTidy
<1>3. CASE RecoverOp
  BY <1>0, <1>3, RecoverOpRecovering, RecoverOpTidy
<1>4. CASE (\E n \in Cfg : Begin(n)) \/ End \/ VppRestart \/ DaemonRestart \/ Recover \/ RecoverEnd \/ UNCHANGED vars
  BY <1>4, QuietRecovering, QuietTidy
<1> QED BY <1>1, <1>2, <1>3, <1>4 DEF Next

\* Nothing is to come, and nothing has failed.
LEMMA AllBack ==
  ASSUME SwitchingInv, Recovering, RecoverEnd, alarms' = {}
  PROVE  Firm(vpp) /\ VppShape(vpp) /\ committed \in Cfg /\ Recovered(vpp, reg, committed, {})
<1>1. /\ job.phase = "recover" /\ job.todo = {} /\ job \in JobType /\ committed \in Cfg
      /\ alarms' = {job.done[n] : n \in DOMAIN job.done}
      /\ VppShape(vpp) /\ Firm(vpp)
      /\ job.done = << >> => Recovered(vpp, reg, committed, job.todo)
  BY DEF SwitchingInv, Progress, Recovering, RecoverEnd
<1>2. job.done \in Seq(Op)
  BY <1>1, JobParts
<1>3. job.done = << >>
  <2>1. DOMAIN job.done = {}
    BY <1>1
  <2>2. Len(job.done) = 0
    <3>1. Len(job.done) \in Nat /\ 1 .. Len(job.done) = {}
      BY <1>2, <2>1, LenProperties
    <3>2. 1 \notin 1 .. Len(job.done)
      BY <3>1
    <3> QED BY <3>1, <3>2
  <2> QED BY <1>2, <2>2, EmptySeq
<1> QED BY <1>1, <1>3

\* Whatever fails and restarts, what a recovery has applied stays in place until it ends, and
\* the interfaces that failing calls and restarts leave behind never use up VPP's indices
\* (RecoveryConverger, ApplyBridgeDomain, the gateways of l3.go).
THEOREM RecoveryInvariant == Spec => [](Recovering /\ Tidy /\ Roomy)
<1>1. Init => Recovering /\ Tidy
  BY InitRecovering, InitTidy
<1>2. SwitchingInv /\ Recovering /\ Tidy /\ [Next]_vars => Recovering' /\ Tidy'
  BY NextRecovering
<1>3. Recovering /\ Tidy => Roomy
  BY TidyRoomy DEF Recovering
<1> QED BY <1>1, <1>2, <1>3, InductiveInvariant, PTL DEF Spec

\* After a recovery that reports no failure the bonds of VPP are the declared ones with the
\* declared members, and the switches and policers are in force, whatever a commit that failed
\* or was cut short had left behind (Recover, RecoveryConverger, PruneBonds).
THEOREM RecoveriesConverge == Spec => RecoveryConverges
<1> DEFINE A == RecoverEnd /\ alarms' = {} =>
       /\ {vpp.at[i][1] : i \in {j \in Index : vpp.at[j] # None}} \cap (Bond \cup {None}) = Bonds(committed)
       /\ \A b \in Bond : {p \in Phys : \E i \in Index : vpp.slave[p] = i /\ vpp.at[i] = <<b, 0>>}
                            = committed.members[b]
       /\ \A s \in committed.switches : Members(committed, s) \subseteq InBridge(s)
       /\ \A p \in Phys : committed.policy[p] \in {None, vpp.input[IndexOf(vpp, <<p, 0>>)]}
<1>1. SwitchingInv /\ Recovering => A
  <2> SUFFICES ASSUME SwitchingInv, Recovering, RecoverEnd, alarms' = {} PROVE A
    OBVIOUS
  <2> DEFINE c == committed
  <2>1. Firm(vpp) /\ VppShape(vpp) /\ c \in Cfg /\ Recovered(vpp, reg, c, {})
    BY AllBack
  <2> HIDE DEF c
  <2>2. \A k, x : ~Waits({}, k, x)
    BY DEF Waits
  <2>3. /\ \A s \in c.switches : \A n \in Members(c, s) : \E i \in Index : vpp.at[i] = n /\ vpp.in[i] = s
        /\ \A b \in Bonds(c) : /\ \E i \in Index : vpp.at[i] = <<b, 0>>
                               /\ \A p \in Phys : p \in c.members[b] <=> vpp.slave[p] # 0 /\ vpp.at[vpp.slave[p]] = <<b, 0>>
        /\ \A i \in Index : vpp.at[i] # Stray /\ \A b \in Bond \ Bonds(c) : vpp.at[i] # <<b, 0>>
        /\ \A p \in Phys : c.policy[p] # None => \A i \in Index : vpp.at[i] = <<p, 0>> => vpp.input[i] = c.policy[p]
    BY <2>1, <2>2 DEF Recovered, Back, BridgesBack, BondsBack, Pruned, PoliciesBack
  <2>4. Bonds(c) \subseteq Bond /\ \A b \in Bond : <<b, 0>> # None
    BY Strays, SwitchingAssumption DEF Bonds, Port
  <2>5. ASSUME NEW i \in Index, vpp.at[i] # None, vpp.at[i][1] \in Bond \cup {None} PROVE vpp.at[i][1] \in Bonds(c)
    <3>1. vpp.at[i] \in IfName
      BY <2>1, <2>3, <2>5 DEF VppShape
    <3>2. PICK n \in Port \cup Switch, w \in Vlan : vpp.at[i] = <<n, w>>
      BY <3>1 DEF IfName
    <3>3. n \in Bond
      BY <2>5, <3>2, Kinds
    <3>4. \E j \in Index : vpp.at[j] = <<n, 0>>
      BY <2>1, <3>2, <3>3 DEF Firm
    <3> QED BY <2>3, <3>2, <3>3, <3>4
  <2>6. {vpp.at[i][1] : i \in {j \in Index : vpp.at[j] # None}} \cap (Bond \cup {None}) = Bonds(c)
    <3>1. ASSUME NEW b \in Bonds(c) PROVE b \in {vpp.at[i][1] : i \in {j \in Index : vpp.at[j] # None}}
      <4>1. PICK i \in Index : vpp.at[i] = <<b, 0>>
        BY <2>3
      <4>2. vpp.at[i] # None /\ vpp.at[i][1] = b
        BY <2>4, <4>1
      <4> QED BY <4>2
    <3> QED BY <2>4, <2>5, <3>1
  <2>7. ASSUME NEW b \in Bond
        PROVE  {p \in Phys : \E i \in Index : vpp.slave[p] = i /\ vpp.at[i] = <<b, 0>>} = c.members[b]
    <3>1. /\ \A p \in Phys : vpp.slave[p] \in Index \cup {0}
          /\ 0 \notin Index /\ c.members[b] \subseteq Phys
      BY <2>1, ConfigTypes, SwitchingAssumption DEF VppShape
    <3>2. CASE b \in Bonds(c)
      BY <2>3, <3>1, <3>2
    <3>3. CASE b \notin Bonds(c)
      BY <2>3, <3>3 DEF Bonds
    <3> QED BY <3>2, <3>3
  <2>8. \A s \in c.switches : Members(c, s) \subseteq InBridge(s)
    BY <2>3 DEF InBridge
  <2>9. ASSUME NEW p \in Phys PROVE c.policy[p] \in {None, vpp.input[IndexOf(vpp, <<p, 0>>)]}
    <3>1. IndexOf(vpp, <<p, 0>>) \in Index /\ vpp.at[IndexOf(vpp, <<p, 0>>)] = <<p, 0>>
      BY <2>1, Indexed DEF Firm
    <3> QED BY <2>3, <3>1
  <2> QED BY <2>6, <2>7, <2>8, <2>9 DEF c
<1>2. [][A]_vars <=> RecoveryConverges
  BY DEF RecoveryConverges
<1> HIDE DEF A
<1> QED BY <1>1, <1>2, InductiveInvariant, RecoveryInvariant, PTL DEF Spec
=============================================================================
