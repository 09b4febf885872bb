--------------------------- MODULE ResourcesProofs ---------------------------
(***************************************************************************)
(* Proofs about the resource ledger and the cores machines run on: what    *)
(* the ledger grants is exclusive, shares move only for the reasons named, *)
(* and two running machines share a core only when one is accounted for.   *)
(*                                                                         *)
(* The ledger serves one machine after another, so what it grants is a     *)
(* function defined from its own earlier values.  Induction is written     *)
(* with sets: a set of naturals that is not empty has a least member.      *)
(***************************************************************************)
EXTENDS Resources, FiniteSetTheorems, WellFoundedInduction, TLAPS
-----------------------------------------------------------------------------
(* Induction on the naturals, in first-order form.                         *)

\* A set of naturals that is not empty has a least member: the intervals
\* from 0 to its members are ordered by inclusion, which is well founded on
\* finite sets.
LEMMA LeastMember ==
    ASSUME NEW T \in SUBSET Nat, T # {}
    PROVE  \E n \in T : \A m \in T : n <= m
<1> DEFINE F == {0 .. m : m \in T}
<1>1. \A m \in T : IsFiniteSet(0 .. m) /\ 0 .. m \in SUBSET Nat
  BY FS_Interval
<1>2. F # {} /\ F \subseteq FiniteSubsetsOf(Nat)
  BY <1>1 DEF FiniteSubsetsOf
<1>3. \E x \in F : \A y \in F : ~(<<y, x>> \in StrictSubsetOrdering(Nat))
  BY <1>2, FS_StrictSubsetOrderingWellFounded, WFMin
<1>4. PICK n \in T : \A m \in T : ~(<<0 .. m, 0 .. n>> \in StrictSubsetOrdering(Nat))
  BY <1>3
<1>5. ASSUME NEW m \in T, m < n PROVE FALSE
  <2>1. 0 .. m \subseteq 0 .. n /\ n \in 0 .. n /\ n \notin 0 .. m
    BY <1>5
  <2>. QED
    BY <1>1, <1>4, <2>1 DEF StrictSubsetOrdering
<1>. QED
  BY <1>5

\* What holds at the start and is handed on up to N holds up to N.
LEMMA Induct ==
    ASSUME NEW N \in Nat, NEW S, 0 \in S, \A n \in 0 .. N - 1 : n \in S => n + 1 \in S
    PROVE  \A n \in 0 .. N : n \in S
<1> DEFINE T == {n \in 0 .. N : n \notin S}
<1>1. SUFFICES ASSUME T # {} PROVE FALSE
  OBVIOUS
<1>2. PICK n \in T : \A m \in T : n <= m
  <2>1. T \in SUBSET Nat
    OBVIOUS
  <2>. HIDE DEF T
  <2>. QED
    BY <1>1, <2>1, LeastMember
<1>3. n # 0 /\ n - 1 \in 0 .. N - 1 /\ n - 1 \notin T
  BY <1>2
<1>. QED
  BY <1>2, <1>3

\* The same from a number other than 0.
LEMMA InductFrom ==
    ASSUME NEW M \in Nat, NEW N \in Nat, NEW S, M \in S,
           \A n \in M .. N - 1 : n \in S => n + 1 \in S
    PROVE  \A n \in M .. N : n \in S
<1> DEFINE T == {n \in M .. N : n \notin S}
<1>1. SUFFICES ASSUME T # {} PROVE FALSE
  OBVIOUS
<1>2. PICK n \in T : \A m \in T : n <= m
  <2>1. T \in SUBSET Nat
    OBVIOUS
  <2>. HIDE DEF T
  <2>. QED
    BY <1>1, <2>1, LeastMember
<1>3. n # M /\ n - 1 \in M .. N - 1 /\ n - 1 \notin T
  BY <1>2
<1>. QED
  BY <1>2, <1>3
-----------------------------------------------------------------------------
(* The lowest cores of a set.                                              *)

\* A finite set of cores has a lowest part of every size it can have.
LEMMA LowestExists ==
    ASSUME NEW S \in SUBSET Nat, IsFiniteSet(S), NEW k \in Nat, k <= Cardinality(S)
    PROVE  \E T \in kSubset(k, S) : \A x \in T, y \in S \ T : x < y
<1> DEFINE L == {n \in Nat : \E T \in SUBSET S : Cardinality(T) = n
                                    /\ \A x \in T, y \in S \ T : x < y}
<1>1. 0 \in L
  BY FS_EmptySet
<1>2. ASSUME NEW n \in 0 .. k - 1, n \in L PROVE n + 1 \in L
  <2>1. PICK T \in SUBSET S : Cardinality(T) = n /\ \A x \in T, y \in S \ T : x < y
    BY <1>2
  <2>2. Cardinality(S) \in Nat /\ IsFiniteSet(T)
    BY FS_CardinalityType, FS_Subset
  <2>3. S \ T # {}
    <3>1. n # Cardinality(S)
      BY <2>2
    <3>. QED
      BY <2>1, <3>1
  <2>4. PICK m \in S \ T : \A y \in S \ T : m <= y
    <3>1. S \ T \in SUBSET Nat
      OBVIOUS
    <3>. QED
      BY <2>3, <3>1, LeastMember
  <2>5. Cardinality(T \cup {m}) = n + 1
    BY <2>1, <2>2, <2>4, FS_AddElement
  <2>6. \A x \in T \cup {m}, y \in S \ (T \cup {m}) : x < y
    BY <2>1, <2>4
  <2>. QED
    BY <2>5, <2>6
<1>3. k \in L
  <2>. HIDE DEF L
  <2>. QED
    BY <1>1, <1>2, Induct
<1>. QED
  BY <1>3 DEF kSubset

LEMMA LowestIs ==
    ASSUME NEW S \in SUBSET Nat, IsFiniteSet(S), NEW k \in Nat, k <= Cardinality(S)
    PROVE  Lowest(S, k) \subseteq S /\ Cardinality(Lowest(S, k)) = k
BY LowestExists DEF Lowest, kSubset

-----------------------------------------------------------------------------
(* The ledger and the sum of pages, step by step.                          *)

N == Len(VMOrder)

LEMMA OrderFacts ==
    /\ N \in Nat
    /\ \A i \in 1 .. N : VMOrder[i] \in VMs
    /\ \A v \in VMs : \E i \in 1 .. N : VMOrder[i] = v
    /\ \A i, j \in 1 .. N : VMOrder[i] = VMOrder[j] => i = j
BY ResourcesAssumption DEF N, VMs, ToSet, IsInjective

\* The equations that define the ledgers after each machine have a solution.
LEMMA ServedExists ==
    ASSUME NEW cfg
    PROVE  \E l : l = [n \in 0 .. N |-> IF n = 0 THEN NewPoolLedger(cfg)
                                        ELSE Serve(cfg, l[n - 1], VMOrder[n])]
<1> DEFINE E == {k \in Nat : \E l : l = [n \in 0 .. k |->
                    IF n = 0 THEN NewPoolLedger(cfg) ELSE Serve(cfg, l[n - 1], VMOrder[n])]}
<1>1. 0 \in E
  <2> DEFINE l == [n \in 0 .. 0 |-> NewPoolLedger(cfg)]
  <2>1. l = [n \in 0 .. 0 |-> IF n = 0 THEN NewPoolLedger(cfg)
                              ELSE Serve(cfg, l[n - 1], VMOrder[n])]
    OBVIOUS
  <2>. QED
    BY <2>1
<1>2. ASSUME NEW k \in 0 .. N - 1, k \in E PROVE k + 1 \in E
  <2>1. PICK l : l = [n \in 0 .. k |-> IF n = 0 THEN NewPoolLedger(cfg)
                                       ELSE Serve(cfg, l[n - 1], VMOrder[n])]
    BY <1>2
  <2> DEFINE m == [n \in 0 .. k + 1 |-> IF n = k + 1 THEN Serve(cfg, l[k], VMOrder[k + 1])
                                        ELSE l[n]]
  <2>2. ASSUME NEW n \in 0 .. k + 1
        PROVE  m[n] = IF n = 0 THEN NewPoolLedger(cfg) ELSE Serve(cfg, m[n - 1], VMOrder[n])
    <3>1. CASE n = k + 1
      BY <3>1
    <3>2. CASE n # k + 1
      <4>1. n \in 0 .. k /\ m[n] = l[n]
        BY <3>2
      <4>2. l[n] = IF n = 0 THEN NewPoolLedger(cfg) ELSE Serve(cfg, l[n - 1], VMOrder[n])
        BY <2>1, <4>1
      <4>3. n # 0 => m[n - 1] = l[n - 1]
        BY <4>1
      <4>. QED
        BY <4>1, <4>2, <4>3
    <3>. QED
      BY <3>1, <3>2
  <2>3. m = [n \in 0 .. k + 1 |-> IF n = 0 THEN NewPoolLedger(cfg)
                                  ELSE Serve(cfg, m[n - 1], VMOrder[n])]
    <3>1. m = [n \in 0 .. k + 1 |-> m[n]]
      OBVIOUS
    <3>. HIDE DEF m
    <3>. QED
      BY <2>2, <3>1
  <2>4. k + 1 \in Nat
    OBVIOUS
  <2>. HIDE DEF m
  <2>. QED
    BY <2>3, <2>4
<1>3. N \in E
  <2>. HIDE DEF E
  <2>. QED
    BY <1>1, <1>2, Induct, OrderFacts
<1>. QED
  BY <1>3

\* What the ledger is after each machine.
LEMMA ServedIs ==
    ASSUME NEW cfg
    PROVE  /\ Served(cfg)[0] = NewPoolLedger(cfg)
           /\ \A n \in 1 .. N : Served(cfg)[n] = Serve(cfg, Served(cfg)[n - 1], VMOrder[n])
<1>1. Served(cfg) = [n \in 0 .. N |-> IF n = 0 THEN NewPoolLedger(cfg)
                                      ELSE Serve(cfg, Served(cfg)[n - 1], VMOrder[n])]
  BY ServedExists DEF Served, N
<1>2. N \in Nat
  BY OrderFacts
<1>3. \A n \in 0 .. N : Served(cfg)[n] = IF n = 0 THEN NewPoolLedger(cfg)
                                         ELSE Serve(cfg, Served(cfg)[n - 1], VMOrder[n])
  BY <1>1
<1>4. 0 \in 0 .. N /\ \A n \in 1 .. N : n \in 0 .. N /\ n # 0
  BY <1>2
<1>. QED
  BY <1>3, <1>4

LEMMA PagesOfExists ==
    ASSUME NEW cfg, NEW s
    PROVE  \E t : t = [n \in 0 .. N |-> IF n = 0 THEN 0 ELSE t[n - 1] + PagesAt(cfg, s, n)]
<1> DEFINE E == {k \in Nat : \E t : t = [n \in 0 .. k |->
                    IF n = 0 THEN 0 ELSE t[n - 1] + PagesAt(cfg, s, n)]}
<1>1. 0 \in E
  <2> DEFINE t == [n \in 0 .. 0 |-> 0]
  <2>1. t = [n \in 0 .. 0 |-> IF n = 0 THEN 0 ELSE t[n - 1] + PagesAt(cfg, s, n)]
    OBVIOUS
  <2>. QED
    BY <2>1
<1>2. ASSUME NEW k \in 0 .. N - 1, k \in E PROVE k + 1 \in E
  <2>1. PICK t : t = [n \in 0 .. k |-> IF n = 0 THEN 0 ELSE t[n - 1] + PagesAt(cfg, s, n)]
    BY <1>2
  <2> DEFINE m == [n \in 0 .. k + 1 |-> IF n = k + 1 THEN t[k] + PagesAt(cfg, s, k + 1)
                                        ELSE t[n]]
  <2>2. ASSUME NEW n \in 0 .. k + 1
        PROVE  m[n] = IF n = 0 THEN 0 ELSE m[n - 1] + PagesAt(cfg, s, n)
    <3>1. CASE n = k + 1
      BY <3>1
    <3>2. CASE n # k + 1
      <4>1. n \in 0 .. k /\ m[n] = t[n]
        BY <3>2
      <4>2. t[n] = IF n = 0 THEN 0 ELSE t[n - 1] + PagesAt(cfg, s, n)
        BY <2>1, <4>1
      <4>3. n # 0 => m[n - 1] = t[n - 1]
        BY <4>1
      <4>. QED
        BY <4>1, <4>2, <4>3
    <3>. QED
      BY <3>1, <3>2
  <2>3. m = [n \in 0 .. k + 1 |-> IF n = 0 THEN 0 ELSE m[n - 1] + PagesAt(cfg, s, n)]
    <3>1. m = [n \in 0 .. k + 1 |-> m[n]]
      OBVIOUS
    <3>. HIDE DEF m
    <3>. QED
      BY <2>2, <3>1
  <2>4. k + 1 \in Nat
    OBVIOUS
  <2>. HIDE DEF m
  <2>. QED
    BY <2>3, <2>4
<1>3. N \in E
  <2>. HIDE DEF E
  <2>. QED
    BY <1>1, <1>2, Induct, OrderFacts
<1>. QED
  BY <1>3

LEMMA PagesOfIs ==
    ASSUME NEW cfg, NEW s
    PROVE  /\ PagesOf(cfg, s)[0] = 0
           /\ \A n \in 1 .. N : PagesOf(cfg, s)[n] = PagesOf(cfg, s)[n - 1] + PagesAt(cfg, s, n)
<1>1. PagesOf(cfg, s) = [n \in 0 .. N |-> IF n = 0 THEN 0
                                          ELSE PagesOf(cfg, s)[n - 1] + PagesAt(cfg, s, n)]
  BY PagesOfExists DEF PagesOf, N
<1>2. N \in Nat
  BY OrderFacts
<1>3. \A n \in 0 .. N : PagesOf(cfg, s)[n] = IF n = 0 THEN 0
                                             ELSE PagesOf(cfg, s)[n - 1] + PagesAt(cfg, s, n)
  BY <1>1
<1>4. 0 \in 0 .. N /\ \A n \in 1 .. N : n \in 0 .. N /\ n # 0
  BY <1>2
<1>. QED
  BY <1>3, <1>4

-----------------------------------------------------------------------------
(* Serving one machine.                                                    *)

Ledger == [cores : [VMs -> SUBSET Nat], used : SUBSET Nat, free : [PageSizes -> Nat],
           short : BOOLEAN]

Machine == [count : Nat, mb : Nat, size : PageSizes \cup {None}, node : Nat \cup {None},
            pin : BOOLEAN, normal : BOOLEAN, auto : BOOLEAN]

LEMMA TypedFacts ==
    ASSUME NEW cfg \in Configs
    PROVE  /\ cfg.iso \in SUBSET Nat /\ IsFiniteSet(cfg.iso)
           /\ cfg.main \in SUBSET Nat /\ IsFiniteSet(cfg.main)
           /\ cfg.workers \in SUBSET Nat /\ IsFiniteSet(cfg.workers)
           /\ \A n \in DOMAIN cfg.numa : cfg.numa[n] \in SUBSET Nat /\ IsFiniteSet(cfg.numa[n])
           /\ cfg.pages \in Seq([size : PageSizes, count : Nat])
           /\ \A i \in DOMAIN cfg.pages : cfg.pages[i] \in [size : PageSizes, count : Nat]
           /\ \A v \in VMs : cfg.vm[v] # Undeclared => cfg.vm[v] \in Machine
<1>1. Typed(cfg)
  BY ConfigsAssumption
<1>2. cfg.vm \in [VMs -> {Undeclared} \cup Machine]
  BY <1>1 DEF Typed, Machine
<1>3. \A cores \in {cfg.iso, cfg.main, cfg.workers} \cup {cfg.numa[n] : n \in DOMAIN cfg.numa} :
         cores \in SUBSET Nat /\ IsFiniteSet(cores)
  BY <1>1 DEF Typed
<1>4. cfg.pages \in Seq([size : PageSizes, count : Nat])
  BY <1>1 DEF Typed
<1>5. \A i \in DOMAIN cfg.pages : cfg.pages[i] \in [size : PageSizes, count : Nat]
  <2> DEFINE Pool == [size : PageSizes, count : Nat]
  <2>1. cfg.pages \in Seq(Pool)
    BY <1>4
  <2>. HIDE DEF Pool
  <2>2. \A i \in DOMAIN cfg.pages : cfg.pages[i] \in Pool
    BY <2>1
  <2>. QED
    BY <2>2 DEF Pool
<1>. QED
  BY <1>2, <1>3, <1>4, <1>5

LEMMA ReservedType ==
    ASSUME NEW cfg \in Configs
    PROVE  VppReserved(cfg) \in SUBSET Nat /\ IsFiniteSet(VppReserved(cfg))
<1>1. IsFiniteSet(cfg.main \ {0})
  BY TypedFacts, FS_Subset
<1>2. IsFiniteSet((cfg.main \ {0}) \cup cfg.workers)
  BY <1>1, TypedFacts, FS_Union
<1>. QED
  BY <1>2, TypedFacts DEF VppReserved

LEMMA PoolCountType ==
    ASSUME NEW cfg \in Configs, NEW s
    PROVE  PoolCount(cfg, s) \in Nat
<1> DEFINE at == {i \in DOMAIN cfg.pages : cfg.pages[i].size = s}
           last == CHOOSE i \in at : \A j \in at : j <= i
<1>1. cfg.pages \in Seq([size : PageSizes, count : Nat])
  BY TypedFacts
<1>2. CASE at = {}
  BY <1>2 DEF PoolCount
<1>3. CASE at # {}
  <2>1. at \in SUBSET Nat /\ IsFiniteSet(at)
    <3>1. IsFiniteSet(1 .. Len(cfg.pages)) /\ DOMAIN cfg.pages = 1 .. Len(cfg.pages)
      BY <1>1, FS_Interval
    <3>. QED
      BY <3>1, FS_Subset
  <2>2. \E i \in at : \A j \in at : j <= i
    <3> DEFINE B == {b \in Nat : \A j \in at : j <= b}
    <3>1. B # {} /\ B \in SUBSET Nat
      <4>1. Len(cfg.pages) \in Nat /\ \A j \in at : j <= Len(cfg.pages)
        BY <1>1
      <4>. QED
        BY <4>1
    <3>2. PICK b \in B : \A c \in B : b <= c
      <4>. HIDE DEF B
      <4>. QED
        BY <3>1, LeastMember
    <3>3. CASE b \in at
      BY <3>2, <3>3
    <3>4. CASE b \notin at
      <4>1. b # 0
        BY <1>1, <1>3, <3>2
      <4>2. b - 1 \in B
        BY <2>1, <3>2, <3>4, <4>1
      <4>. QED
        BY <3>2, <4>2
    <3>. QED
      BY <3>3, <3>4
  <2>3. last \in at
    BY <2>2
  <2>4. last \in DOMAIN cfg.pages
    BY <2>3
  <2>5. PoolCount(cfg, s) = cfg.pages[last].count
    BY <1>3 DEF PoolCount
  <2>. HIDE DEF last
  <2>6. cfg.pages[last] \in [size : PageSizes, count : Nat]
    BY <2>4, TypedFacts
  <2>. QED
    BY <2>5, <2>6
<1>. QED
  BY <1>2, <1>3

LEMMA NewPoolLedgerType ==
    ASSUME NEW cfg \in Configs
    PROVE  NewPoolLedger(cfg) \in Ledger /\ IsFiniteSet(NewPoolLedger(cfg).used)
BY ReservedType, PoolCountType DEF NewPoolLedger, Ledger

LEMMA PageSizeType ==
    ASSUME NEW cfg \in Configs, NEW c \in Machine
    PROVE  PageSize(cfg, c) \in PageSizes \cup {None}
<1>1. c.size \in PageSizes \cup {None}
  BY DEF Machine
<1>2. cfg.pages \in Seq([size : PageSizes, count : Nat])
  BY TypedFacts
<1>3. ASSUME cfg.pages # <<>> PROVE cfg.pages[1].size \in PageSizes
  <2>1. 1 \in DOMAIN cfg.pages
    BY <1>2, <1>3
  <2>2. cfg.pages[1] \in [size : PageSizes, count : Nat]
    BY <2>1, TypedFacts
  <2>. QED
    BY <2>2
<1>. QED
  BY <1>1, <1>3 DEF PageSize

LEMMA PagesNeededType ==
    ASSUME NEW mb \in Nat, NEW s
    PROVE  PagesNeeded(mb, s) \in Nat
BY DEF PagesNeeded, PageMB

LEMMA CandidatesType ==
    ASSUME NEW cfg \in Configs, NEW c, NEW used
    PROVE  Candidates(cfg, c, used) \in SUBSET Nat /\ IsFiniteSet(Candidates(cfg, c, used))
<1>1. CASE c.node \in DOMAIN cfg.numa
  BY <1>1, TypedFacts, FS_Subset DEF Candidates
<1>2. CASE c.node \notin DOMAIN cfg.numa
  BY <1>2, TypedFacts, FS_Subset DEF Candidates
<1>. QED
  BY <1>1, <1>2

\* What serving a machine adds to its share, and takes from the pools: cores
\* that no one had, as many as its vCPUs when it is pinned and fits.
Granted(cfg, c, l, m, v, take) ==
    /\ m \in Ledger
    /\ IsFiniteSet(take) /\ take \cap l.used = {}
    /\ m.cores = [l.cores EXCEPT ![v] = take]
    /\ m.used = l.used \cup take
    /\ c # Undeclared => take \subseteq Candidates(cfg, c, l.used)
    /\ c # Undeclared /\ c.pin /\ ~m.short => Cardinality(take) = c.count
    /\ ~m.short => /\ ~l.short
                   /\ \A s \in PageSizes : l.free[s] = m.free[s] +
                         IF c # Undeclared /\ ~c.normal /\ PageSize(cfg, c) = s
                         THEN PagesNeeded(c.mb, s) ELSE 0

LEMMA ServeGrants ==
    ASSUME NEW cfg \in Configs, NEW v \in VMs, NEW l \in Ledger, l.cores[v] = {}
    PROVE  LET c == cfg.vm[v]
               m == Serve(cfg, l, v)
           IN \E take \in SUBSET Nat : Granted(cfg, c, l, m, v, take)
<1> DEFINE c == cfg.vm[v]
           m == Serve(cfg, l, v)
<1>0. /\ l.cores \in [VMs -> SUBSET Nat] /\ l.used \in SUBSET Nat
      /\ l.free \in [PageSizes -> Nat] /\ l.short \in BOOLEAN
  BY DEF Ledger
<1>1. CASE c = Undeclared
  <2>1. m = l
    BY <1>1 DEF Serve
  <2>2. l.cores = [l.cores EXCEPT ![v] = {}]
    BY <1>0
  <2>3. IsFiniteSet({})
    BY FS_EmptySet
  <2>4. \A s \in PageSizes : l.free[s] = l.free[s] + 0
    BY <1>0
  <2>5. Granted(cfg, c, l, m, v, {})
    BY <1>1, <2>1, <2>2, <2>3, <2>4 DEF Granted
  <2>. QED
    BY <2>5
<1>2. CASE c # Undeclared
  <2> DEFINE s == PageSize(cfg, c)
             need == PagesNeeded(c.mb, s)
             lacksPages == ~c.normal /\ (s = None \/ l.free[s] < need)
             free == Candidates(cfg, c, l.used)
             lacksCores == c.pin /\ Cardinality(free) < c.count
             take == IF c.pin /\ ~lacksCores THEN Lowest(free, c.count) ELSE {}
             left == IF c.normal \/ lacksPages THEN l.free ELSE [l.free EXCEPT ![s] = @ - need]
  <2>1. m = [cores |-> [l.cores EXCEPT ![v] = take], used |-> l.used \cup take, free |-> left,
             short |-> l.short \/ lacksPages \/ lacksCores]
    BY <1>2 DEF Serve
  <2>2. c \in Machine
    BY <1>2, TypedFacts
  <2>3. s \in PageSizes \cup {None} /\ need \in Nat
    BY <2>2, PageSizeType, PagesNeededType DEF Machine
  <2>4. c.count \in Nat /\ c.pin \in BOOLEAN /\ c.normal \in BOOLEAN
    BY <2>2 DEF Machine
  <2>5. free \in SUBSET Nat /\ IsFiniteSet(free) /\ Cardinality(free) \in Nat
    BY CandidatesType, FS_CardinalityType
  <2>6. free \cap l.used = {}
    BY DEF Candidates
  <2>7. /\ take \in SUBSET Nat /\ IsFiniteSet(take) /\ take \subseteq free
        /\ c.pin /\ ~lacksCores => Cardinality(take) = c.count
    <3>1. CASE c.pin /\ ~lacksCores
      <4>1. c.count <= Cardinality(free)
        BY <2>4, <2>5, <3>1
      <4>2. take = Lowest(free, c.count)
        BY <3>1
      <4>. HIDE DEF free, take
      <4>3. take \subseteq free /\ Cardinality(take) = c.count
        BY <2>4, <2>5, <4>1, <4>2, LowestIs
      <4>4. IsFiniteSet(take)
        BY <2>5, <4>3, FS_Subset
      <4>. QED
        BY <2>5, <4>3, <4>4
    <3>2. CASE ~(c.pin /\ ~lacksCores)
      BY <3>2, FS_EmptySet
    <3>. QED
      BY <3>1, <3>2
  <2>8. left \in [PageSizes -> Nat]
    <3>1. CASE c.normal \/ lacksPages
      BY <1>0, <3>1
    <3>2. CASE ~(c.normal \/ lacksPages)
      <4>1. s \in PageSizes /\ need <= l.free[s]
        BY <1>0, <2>3, <2>4, <3>2
      <4>2. l.free[s] - need \in Nat
        BY <1>0, <2>3, <4>1
      <4>. QED
        BY <1>0, <3>2, <4>1, <4>2
    <3>. QED
      BY <3>1, <3>2
  <2>9. ASSUME ~m.short
        PROVE  ~l.short /\ ~lacksPages /\ ~lacksCores
    <3>. HIDE DEF lacksPages, lacksCores, take, left, m
    <3>1. m.short = (l.short \/ lacksPages \/ lacksCores)
      BY <2>1
    <3>. QED
      BY <2>9, <3>1
  <2>10. ASSUME ~m.short, NEW r \in PageSizes
         PROVE  l.free[r] = left[r] + IF ~c.normal /\ s = r THEN PagesNeeded(c.mb, r) ELSE 0
    <3>1. ~lacksPages /\ l.free[r] \in Nat
      BY <1>0, <2>9, <2>10
    <3>2. CASE c.normal
      BY <3>1, <3>2
    <3>3. CASE ~c.normal /\ s # r
      BY <1>0, <3>1, <3>3
    <3>4. CASE ~c.normal /\ s = r
      <4>1. left[r] = l.free[r] - need
        BY <1>0, <3>1, <3>4
      <4>. QED
        BY <2>3, <3>1, <3>4, <4>1
    <3>. QED
      BY <2>4, <3>2, <3>3, <3>4
  <2>11. m \in Ledger
    <3>1. [l.cores EXCEPT ![v] = take] \in [VMs -> SUBSET Nat]
      BY <1>0, <2>7
    <3>. HIDE DEF left, take, lacksPages, lacksCores, m
    <3>2. (l.short \/ lacksPages \/ lacksCores) \in BOOLEAN
      OBVIOUS
    <3>. QED
      BY <1>0, <2>1, <2>7, <2>8, <3>1, <3>2 DEF Ledger
  <2>. HIDE DEF take, free, left, lacksPages, lacksCores, m
  <2>12. /\ m.cores = [l.cores EXCEPT ![v] = take] /\ m.used = l.used \cup take /\ m.free = left
         /\ m.short \in BOOLEAN
    BY <2>1, <2>11 DEF Ledger
  <2>13. take \cap l.used = {}
    BY <2>6, <2>7
  <2>14. c.pin /\ ~m.short => Cardinality(take) = c.count
    BY <2>7, <2>9
  <2>15. ~m.short => /\ ~l.short
                     /\ \A r \in PageSizes : l.free[r] = m.free[r] +
                          IF c # Undeclared /\ ~c.normal /\ PageSize(cfg, c) = r
                          THEN PagesNeeded(c.mb, r) ELSE 0
    BY <1>2, <2>9, <2>10, <2>12
  <2>16. take \in SUBSET Nat /\ take \subseteq Candidates(cfg, c, l.used) /\ IsFiniteSet(take)
    BY <2>7 DEF free
  <2>. QED
    <3>1. Granted(cfg, c, l, m, v, take)
      BY <2>11, <2>12, <2>13, <2>14, <2>15, <2>16 DEF Granted
    <3>. QED
      BY <2>16, <3>1 DEF m
<1>. QED
  BY <1>1, <1>2

-----------------------------------------------------------------------------
(* The ledger after each machine.                                          *)

\* What a machine that was served holds.
Holds(cfg, l, v) ==
    /\ IsFiniteSet(l.cores[v])
    /\ l.cores[v] \subseteq l.used \ VppReserved(cfg)
    /\ cfg.vm[v] # Undeclared => l.cores[v] \subseteq Candidates(cfg, cfg.vm[v], {})
    /\ cfg.vm[v] # Undeclared /\ cfg.vm[v].pin /\ ~l.short
          => Cardinality(l.cores[v]) = cfg.vm[v].count

\* The ledger after n machines: those hold their shares, no core is held
\* twice, the others hold none, and the pools less what is needed is left.
LedgerInv(cfg, n) ==
    LET l == Served(cfg)[n]
    IN /\ l \in Ledger
       /\ VppReserved(cfg) \subseteq l.used
       /\ \A i \in 1 .. n : Holds(cfg, l, VMOrder[i])
       /\ \A i \in n + 1 .. N : l.cores[VMOrder[i]] = {}
       /\ \A i, j \in 1 .. n : i # j => l.cores[VMOrder[i]] \cap l.cores[VMOrder[j]] = {}
       /\ ~l.short => \A s \in PageSizes : l.free[s] + PagesOf(cfg, s)[n] = PoolCount(cfg, s)
       /\ \A s \in PageSizes : PagesOf(cfg, s)[n] \in Nat

LEMMA LedgerStart ==
    ASSUME NEW cfg \in Configs
    PROVE  LedgerInv(cfg, 0)
<1>1. Served(cfg)[0] = NewPoolLedger(cfg) /\ \A s : PagesOf(cfg, s)[0] = 0
  BY ServedIs, PagesOfIs
<1>2. NewPoolLedger(cfg) \in Ledger
  BY NewPoolLedgerType
<1>3. \A i \in 0 + 1 .. N : NewPoolLedger(cfg).cores[VMOrder[i]] = {}
  BY OrderFacts DEF NewPoolLedger
<1>4. \A s \in PageSizes : NewPoolLedger(cfg).free[s] + 0 = PoolCount(cfg, s)
  BY PoolCountType DEF NewPoolLedger
<1>5. NewPoolLedger(cfg).used = VppReserved(cfg)
  BY DEF NewPoolLedger
<1>. QED
  BY <1>1, <1>2, <1>3, <1>4, <1>5 DEF LedgerInv

LEMMA LedgerStep ==
    ASSUME NEW cfg \in Configs, NEW n \in 0 .. N - 1, LedgerInv(cfg, n)
    PROVE  LedgerInv(cfg, n + 1)
<1> DEFINE l == Served(cfg)[n]
           m == Served(cfg)[n + 1]
           v == VMOrder[n + 1]
           c == cfg.vm[v]
<1>1. N \in Nat /\ n + 1 \in 1 .. N /\ (n + 1) - 1 = n
  BY OrderFacts
<1>2. m = Serve(cfg, l, v)
  BY <1>1, ServedIs
<1>3. v \in VMs /\ \A i \in 1 .. N : i # n + 1 => VMOrder[i] # v /\ VMOrder[i] \in VMs
  BY <1>1, OrderFacts
<1>4. /\ l \in Ledger /\ VppReserved(cfg) \subseteq l.used
      /\ \A i \in 1 .. n : Holds(cfg, l, VMOrder[i])
      /\ \A i \in n + 1 .. N : l.cores[VMOrder[i]] = {}
      /\ \A i, j \in 1 .. n : i # j => l.cores[VMOrder[i]] \cap l.cores[VMOrder[j]] = {}
      /\ ~l.short => \A s \in PageSizes : l.free[s] + PagesOf(cfg, s)[n] = PoolCount(cfg, s)
      /\ \A s \in PageSizes : PagesOf(cfg, s)[n] \in Nat
  BY DEF LedgerInv
<1>5. l.cores[v] = {}
  <2>1. n + 1 \in n + 1 .. N
    BY <1>1
  <2>. QED
    BY <1>4, <2>1
<1>6. PICK take \in SUBSET Nat : Granted(cfg, c, l, m, v, take)
  <2>. HIDE DEF l
  <2>. QED
    BY <1>2, <1>3, <1>4, <1>5, ServeGrants
<1>7. /\ m \in Ledger /\ m.cores = [l.cores EXCEPT ![v] = take] /\ m.used = l.used \cup take
      /\ IsFiniteSet(take) /\ take \cap l.used = {}
      /\ c # Undeclared => take \subseteq Candidates(cfg, c, l.used)
      /\ c # Undeclared /\ c.pin /\ ~m.short => Cardinality(take) = c.count
      /\ ~m.short => ~l.short
  BY <1>6 DEF Granted
<1>8. l.cores \in [VMs -> SUBSET Nat]
  BY <1>4 DEF Ledger
<1> HIDE DEF l, m
<1>9. m.cores[v] = take /\ \A i \in 1 .. N : i # n + 1 => m.cores[VMOrder[i]] = l.cores[VMOrder[i]]
  BY <1>3, <1>7, <1>8
<1>10. \A i \in 1 .. n : i \in 1 .. N /\ i # n + 1
  BY <1>1
<1>11. \A i \in 1 .. n : Holds(cfg, m, VMOrder[i])
  BY <1>4, <1>7, <1>9, <1>10 DEF Holds
<1>12. Holds(cfg, m, v)
  <2>1. c # Undeclared => take \subseteq Candidates(cfg, c, {})
    BY <1>7 DEF Candidates
  <2>2. take \subseteq m.used \ VppReserved(cfg)
    BY <1>4, <1>7
  <2>. QED
    BY <1>7, <1>9, <2>1, <2>2 DEF Holds
<1>13. \A i \in 1 .. n + 1 : i \in 1 .. n \/ i = n + 1
  BY <1>1
<1>14. \A i \in 1 .. n + 1 : Holds(cfg, m, VMOrder[i])
  BY <1>11, <1>12, <1>13
<1>15. \A i \in (n + 1) + 1 .. N : m.cores[VMOrder[i]] = {}
  <2>1. \A i \in (n + 1) + 1 .. N : i \in n + 1 .. N /\ i \in 1 .. N /\ i # n + 1
    BY <1>1
  <2>. QED
    BY <1>4, <1>9, <2>1
<1>16. \A i \in 1 .. n : m.cores[VMOrder[i]] \cap take = {}
  <2>1. \A i \in 1 .. n : l.cores[VMOrder[i]] \subseteq l.used
    BY <1>4 DEF Holds
  <2>. QED
    BY <1>7, <1>9, <1>10, <2>1
<1>17. \A i, j \in 1 .. n + 1 : i # j => m.cores[VMOrder[i]] \cap m.cores[VMOrder[j]] = {}
  <2> SUFFICES ASSUME NEW i \in 1 .. n + 1, NEW j \in 1 .. n + 1, i # j
               PROVE  m.cores[VMOrder[i]] \cap m.cores[VMOrder[j]] = {}
    OBVIOUS
  <2>1. CASE i = n + 1
    BY <1>9, <1>13, <1>16, <2>1
  <2>2. CASE j = n + 1
    BY <1>9, <1>13, <1>16, <2>2
  <2>3. CASE i # n + 1 /\ j # n + 1
    <3>1. i \in 1 .. n /\ j \in 1 .. n
      BY <1>13, <2>3
    <3>. QED
      BY <1>4, <1>9, <1>10, <3>1
  <2>. QED
    BY <2>1, <2>2, <2>3
<1>18. ASSUME NEW s \in PageSizes
       PROVE  PagesAt(cfg, s, n + 1) \in Nat
  <2>1. CASE c # Undeclared
    <3>1. c.mb \in Nat
      BY <1>3, <2>1, TypedFacts DEF Machine
    <3>. QED
      BY <3>1, PagesNeededType DEF PagesAt
  <2>2. CASE c = Undeclared
    BY <2>2 DEF PagesAt
  <2>. QED
    BY <2>1, <2>2
<1>19. \A s \in PageSizes : PagesOf(cfg, s)[n + 1] = PagesOf(cfg, s)[n] + PagesAt(cfg, s, n + 1)
  BY <1>1, PagesOfIs
<1>20. \A s \in PageSizes : PagesOf(cfg, s)[n + 1] \in Nat
  BY <1>4, <1>18, <1>19
<1>21. ASSUME ~m.short, NEW s \in PageSizes
       PROVE  m.free[s] + PagesOf(cfg, s)[n + 1] = PoolCount(cfg, s)
  <2>1. l.free[s] = m.free[s] + PagesAt(cfg, s, n + 1)
    BY <1>6, <1>21 DEF Granted, PagesAt
  <2>2. l.free[s] + PagesOf(cfg, s)[n] = PoolCount(cfg, s)
    BY <1>4, <1>7, <1>21
  <2>3. m.free[s] \in Nat
    BY <1>7 DEF Ledger
  <2>. QED
    BY <1>4, <1>18, <1>19, <2>1, <2>2, <2>3
<1>22. VppReserved(cfg) \subseteq m.used
  BY <1>4, <1>7
<1>. QED
  BY <1>7, <1>14, <1>15, <1>17, <1>20, <1>21, <1>22 DEF LedgerInv, m

LEMMA LedgerHolds ==
    ASSUME NEW cfg \in Configs
    PROVE  \A n \in 0 .. N : LedgerInv(cfg, n)
<1> DEFINE S == {n \in Nat : LedgerInv(cfg, n)}
<1>1. 0 \in S
  BY LedgerStart
<1>2. \A n \in 0 .. N - 1 : n \in S => n + 1 \in S
  BY LedgerStep
<1>3. \A n \in 0 .. N : n \in S
  <2>. HIDE DEF S
  <2>. QED
    BY <1>1, <1>2, Induct, OrderFacts
<1>. QED
  BY <1>3

LEMMA LedgerEnd ==
    ASSUME NEW cfg \in Configs
    PROVE  LedgerInv(cfg, N)
BY LedgerHolds, OrderFacts

\* What AllocationFor grants, in a configuration that fits and in any other.
LEMMA AllocationIs ==
    ASSUME NEW cfg \in Configs, NEW v \in VMs
    PROVE  AllocationFor(cfg, v) = IF Served(cfg)[N].short THEN {} ELSE Served(cfg)[N].cores[v]
BY DEF AllocationFor, Ledgers, Allocate, N

LEMMA SharesExclusive ==
    ASSUME NEW cfg \in Configs, NEW v \in VMs, NEW w \in VMs, v # w
    PROVE  AllocationFor(cfg, v) \cap AllocationFor(cfg, w) = {}
<1>1. PICK i \in 1 .. N, j \in 1 .. N : VMOrder[i] = v /\ VMOrder[j] = w /\ i # j
  BY OrderFacts
<1>2. Served(cfg)[N].cores[v] \cap Served(cfg)[N].cores[w] = {}
  BY <1>1, LedgerEnd DEF LedgerInv
<1>. QED
  BY <1>2, AllocationIs

LEMMA PinsWithin ==
    ASSUME NEW cfg \in Configs, NEW v \in VMs, NEW count \in Nat
    PROVE  /\ Pins(count, AllocationFor(cfg, v)) \subseteq AllocationFor(cfg, v)
           /\ AllocationFor(cfg, v) \in SUBSET Nat /\ IsFiniteSet(AllocationFor(cfg, v))
<1> DEFINE share == AllocationFor(cfg, v)
<1>1. share \in SUBSET Nat /\ IsFiniteSet(share)
  <2>1. PICK i \in 1 .. N : VMOrder[i] = v
    BY OrderFacts
  <2>2. Served(cfg)[N] \in Ledger /\ Holds(cfg, Served(cfg)[N], v)
    BY <2>1, LedgerEnd DEF LedgerInv
  <2>3. Served(cfg)[N].cores[v] \in SUBSET Nat /\ IsFiniteSet(Served(cfg)[N].cores[v])
    BY <2>2 DEF Ledger, Holds
  <2>. QED
    BY <2>3, AllocationIs, FS_EmptySet
<1>2. Cardinality(share) \in Nat
  BY <1>1, FS_CardinalityType
<1>. HIDE DEF share
<1>3. Pins(count, share) \subseteq share
  <2>1. CASE count < Cardinality(share)
    <3>1. Lowest(share, count) \subseteq share
      BY <1>1, <1>2, <2>1, LowestIs
    <3>. QED
      BY <2>1, <3>1 DEF Pins
  <2>2. CASE ~(count < Cardinality(share))
    BY <2>2 DEF Pins
  <2>. QED
    BY <2>1, <2>2
<1>. QED
  BY <1>1, <1>3 DEF share

-----------------------------------------------------------------------------
(* A configuration that validates fits.                                    *)

LEMMA ValidFits ==
    ASSUME NEW cfg \in Configs, Valid(cfg)
    PROVE  /\ ~Served(cfg)[N].short
           /\ \A v \in VMs : AllocationFor(cfg, v) = Served(cfg)[N].cores[v]
<1>1. ~Served(cfg)[N].short
  BY DEF Valid, Ledgers, Allocate, N
<1>. QED
  BY <1>1, AllocationIs

LEMMA SharesFit ==
    ASSUME NEW cfg \in Configs, Valid(cfg), NEW v \in Declared(cfg)
    PROVE  LET c == cfg.vm[v]
               share == AllocationFor(cfg, v)
           IN /\ c.pin => Cardinality(share) = c.count
              /\ share \subseteq cfg.iso \ VppReserved(cfg)
              /\ c.node \in DOMAIN cfg.numa => share \subseteq cfg.numa[c.node]
<1> DEFINE c == cfg.vm[v]
           l == Served(cfg)[N]
<1>1. v \in VMs /\ c # Undeclared
  BY DEF Declared
<1>2. PICK i \in 1 .. N : VMOrder[i] = v
  BY <1>1, OrderFacts
<1>3. Holds(cfg, l, v)
  BY <1>2, LedgerEnd DEF LedgerInv
<1>4. AllocationFor(cfg, v) = l.cores[v] /\ ~l.short
  BY <1>1, ValidFits
<1>. HIDE DEF l
<1>5. l.cores[v] \subseteq Candidates(cfg, c, {}) /\ l.cores[v] \cap VppReserved(cfg) = {}
  BY <1>1, <1>3 DEF Holds
<1>6. \A n \in DOMAIN cfg.numa : cfg.numa[n] \subseteq cfg.iso
  BY DEF Valid, PoolsValid
<1>7. c.pin => Cardinality(l.cores[v]) = c.count
  BY <1>1, <1>3, <1>4 DEF Holds
<1>8. CASE c.node \in DOMAIN cfg.numa
  <2>1. Candidates(cfg, c, {}) = cfg.numa[c.node]
    BY <1>8 DEF Candidates
  <2>. QED
    BY <1>4, <1>5, <1>6, <1>7, <1>8, <2>1
<1>9. CASE c.node \notin DOMAIN cfg.numa
  <2>1. Candidates(cfg, c, {}) = cfg.iso
    BY <1>9 DEF Candidates
  <2>. QED
    BY <1>4, <1>5, <1>7, <1>9, <2>1
<1>. QED
  BY <1>8, <1>9

LEMMA PagesFit ==
    ASSUME NEW cfg \in Configs, Valid(cfg), NEW s \in PageSizes
    PROVE  PagesOf(cfg, s)[N] <= PoolCount(cfg, s)
<1>1. ~Served(cfg)[N].short
  BY ValidFits
<1>2. /\ Served(cfg)[N].free[s] + PagesOf(cfg, s)[N] = PoolCount(cfg, s)
      /\ Served(cfg)[N].free[s] \in Nat /\ PagesOf(cfg, s)[N] \in Nat
  BY <1>1, LedgerEnd DEF LedgerInv, Ledger
<1>. QED
  BY <1>2

LEMMA LedgerExclusiveOf ==
    ASSUME committed \in Configs, Valid(committed)
    PROVE  LedgerExclusive
<1>1. \A v \in Declared(committed) :
         /\ committed.vm[v].pin =>
              Cardinality(AllocationFor(committed, v)) = committed.vm[v].count
         /\ AllocationFor(committed, v) \subseteq committed.iso \ VppReserved(committed)
         /\ committed.vm[v].node \in DOMAIN committed.numa =>
              AllocationFor(committed, v) \subseteq committed.numa[committed.vm[v].node]
  BY SharesFit
<1>2. \A v, w \in Declared(committed) :
         v # w => AllocationFor(committed, v) \cap AllocationFor(committed, w) = {}
  BY SharesExclusive DEF Declared
<1>3. \A s \in PageSizes : PagesOf(committed, s)[Len(VMOrder)] <= PoolCount(committed, s)
  BY PagesFit DEF N
<1>. QED
  BY <1>1, <1>2, <1>3 DEF LedgerExclusive
-----------------------------------------------------------------------------
(* Shares are kept behind a change.                                        *)

SamePools(a, b) == /\ a.iso = b.iso /\ a.numa = b.numa /\ a.main = b.main
                   /\ a.workers = b.workers /\ a.pages = b.pages

\* Serving a machine reads the pools and that machine's declaration only.
LEMMA ServeReads ==
    ASSUME NEW a \in Configs, NEW b \in Configs, SamePools(a, b),
           NEW v \in VMs, a.vm[v] = b.vm[v], NEW l
    PROVE  Serve(a, l, v) = Serve(b, l, v)
<1>1. \A c, used : Candidates(a, c, used) = Candidates(b, c, used)
  BY DEF SamePools, Candidates
<1>2. \A c : PageSize(a, c) = PageSize(b, c)
  BY DEF SamePools, PageSize
<1>. QED
  BY <1>1, <1>2 DEF Serve

LEMMA NewPoolLedgerReads ==
    ASSUME NEW a \in Configs, NEW b \in Configs, SamePools(a, b)
    PROVE  NewPoolLedger(a) = NewPoolLedger(b)
<1>1. VppReserved(a) = VppReserved(b)
  BY DEF SamePools, VppReserved
<1>2. \A s : PoolCount(a, s) = PoolCount(b, s)
  BY DEF SamePools, PoolCount
<1>. QED
  BY <1>1, <1>2 DEF NewPoolLedger

\* Two configurations that agree up to a machine have the same ledger there.
LEMMA ServedAgrees ==
    ASSUME NEW a \in Configs, NEW b \in Configs, SamePools(a, b), NEW i \in 0 .. N,
           \A j \in 1 .. i : a.vm[VMOrder[j]] = b.vm[VMOrder[j]]
    PROVE  Served(a)[i] = Served(b)[i]
<1> DEFINE S == {n \in Nat : Served(a)[n] = Served(b)[n]}
<1>0. N \in Nat /\ i \in Nat
  BY OrderFacts
<1>1. 0 \in S
  BY NewPoolLedgerReads, ServedIs
<1>2. ASSUME NEW n \in 0 .. i - 1, n \in S PROVE n + 1 \in S
  <2>1. n + 1 \in 1 .. i /\ n + 1 \in 1 .. N /\ (n + 1) - 1 = n
    BY <1>0
  <2>2. VMOrder[n + 1] \in VMs /\ a.vm[VMOrder[n + 1]] = b.vm[VMOrder[n + 1]]
    BY <2>1, OrderFacts
  <2>3. Serve(a, Served(a)[n], VMOrder[n + 1]) = Serve(b, Served(a)[n], VMOrder[n + 1])
    BY <2>2, ServeReads
  <2>. QED
    BY <1>2, <2>1, <2>3, ServedIs
<1>3. i \in S
  <2>. HIDE DEF S
  <2>. QED
    BY <1>0, <1>1, <1>2, Induct
<1>. QED
  BY <1>3

\* A share, once granted, is not touched by the machines served later.
LEMMA ShareStays ==
    ASSUME NEW cfg \in Configs, NEW i \in 1 .. N
    PROVE  Served(cfg)[N].cores[VMOrder[i]] = Served(cfg)[i].cores[VMOrder[i]]
<1> DEFINE v == VMOrder[i]
           S == {n \in Nat : Served(cfg)[n].cores[v] = Served(cfg)[i].cores[v]}
<1>0. N \in Nat /\ i \in Nat /\ v \in VMs
  BY OrderFacts
<1>1. i \in S
  BY <1>0
<1>2. ASSUME NEW n \in i .. N - 1, n \in S PROVE n + 1 \in S
  <2> DEFINE l == Served(cfg)[n]
             w == VMOrder[n + 1]
  <2>1. n \in 0 .. N /\ n + 1 \in 1 .. N /\ (n + 1) - 1 = n /\ n + 1 # i /\ n \in Nat
        /\ n + 1 \in n + 1 .. N
    BY <1>0
  <2>2. w \in VMs /\ w # v
    BY <2>1, OrderFacts
  <2>3. LedgerInv(cfg, n)
    BY <2>1, LedgerHolds
  <2>4. l \in Ledger /\ l.cores[w] = {}
    BY <2>1, <2>3 DEF LedgerInv
  <2>5. Served(cfg)[n + 1] = Serve(cfg, l, w)
    BY <2>1, ServedIs
  <2>6. PICK take \in SUBSET Nat : Granted(cfg, cfg.vm[w], l, Served(cfg)[n + 1], w, take)
    <3>. HIDE DEF l, w
    <3>. QED
      BY <2>2, <2>4, <2>5, ServeGrants
  <2>7. Served(cfg)[n + 1].cores = [l.cores EXCEPT ![w] = take] /\ l.cores \in [VMs -> SUBSET Nat]
    BY <2>4, <2>6 DEF Granted, Ledger
  <2>8. Served(cfg)[n + 1].cores[v] = l.cores[v]
    <3>. HIDE DEF l, w, v
    <3>. QED
      BY <1>0, <2>2, <2>7
  <2>. QED
    BY <1>2, <2>1, <2>8
<1>3. N \in S
  <2>1. N \in i .. N
    BY <1>0
  <2>. HIDE DEF S
  <2>. QED
    BY <1>0, <1>1, <1>2, <2>1, InductFrom
<1>. QED
  BY <1>3

LEMMA SharesKept ==
    ASSUME NEW a \in Configs, NEW b \in Configs, Valid(a), Valid(b), SamePools(a, b),
           NEW i \in 1 .. N, \A j \in 1 .. i : a.vm[VMOrder[j]] = b.vm[VMOrder[j]]
    PROVE  AllocationFor(a, VMOrder[i]) = AllocationFor(b, VMOrder[i])
<1>1. VMOrder[i] \in VMs /\ i \in 0 .. N
  BY OrderFacts
<1>2. Served(a)[i] = Served(b)[i]
  BY <1>1, ServedAgrees
<1>. QED
  BY <1>1, <1>2, ValidFits, ShareStays

-----------------------------------------------------------------------------
(* The inductive invariant.                                                *)

Domain == [def : {None} \cup SUBSET Nat, run : {None} \cup SUBSET Nat, auto : BOOLEAN]

(* Every variable keeps its type: a transaction has two sets of machines   *)
(* and configurations the engine accepts, a domain the cores of its        *)
(* definition and those it runs on.                                        *)
TypeOK ==
    /\ committed \in Configs
    /\ dom \in [VMs -> Domain]
    /\ txn \in [pc : {"idle", "apply", "undo"}, new : Configs,
                todo : SUBSET VMs, done : SUBSET VMs]
    /\ rec \in [cfg : Configs, todo : SUBSET VMs]
    /\ unsure \in SUBSET VMs /\ stale \in SUBSET VMs
    /\ events \in Nat

\* What the applier has done and has left is the plan it started with.
Progress ==
    /\ Valid(committed) /\ Valid(txn.new)
    /\ txn.pc = "idle" => txn.todo = {} /\ txn.done = {}
    /\ txn.pc = "apply" => txn.todo \cup txn.done = Plan(committed, txn.new)
    /\ rec.todo \subseteq Declared(rec.cfg)

\* The definition a domain has to have in one configuration.
Follows(d, v, cfg) ==
    IF v \in Declared(cfg) THEN d.def = Pins(cfg.vm[v].count, AllocationFor(cfg, v))
    ELSE d = NoDom

\* Machines nothing went wrong with are defined by the configuration that
\* was applied to them last, and run as defined unless defined while running.
Accounted ==
    /\ \A v \in VMs \ unsure :
          Follows(dom[v], v, IF v \in txn.done THEN txn.new ELSE committed)
    /\ \A v \in VMs \ stale : dom[v].run \in {None, dom[v].def}

ResourcesInvariant == TypeOK /\ Progress /\ Accounted

-----------------------------------------------------------------------------
(* One machine is brought to a configuration.                              *)

\* The new state of its domain, whatever the operation achieved.
Brought(v, cfg, ok, d) ==
    /\ d \in Domain /\ dom' = [dom EXCEPT ![v] = d]
    /\ ok => Follows(d, v, cfg)
    /\ stale' \in SUBSET VMs /\ stale' \ {v} = stale \ {v}
    /\ v \notin stale' /\ (v \notin stale => dom[v].run \in {None, dom[v].def})
          => d.run \in {None, d.def}

LEMMA DefineBrings ==
    ASSUME dom \in [VMs -> Domain], stale \in SUBSET VMs, NEW cfg \in Configs,
           NEW v \in Declared(cfg), NEW ok \in BOOLEAN, DefineVM(v, cfg, ok)
    PROVE  \E d \in Domain : Brought(v, cfg, ok, d)
<1> DEFINE pins == Pins(cfg.vm[v].count, AllocationFor(cfg, v))
           starts == cfg.vm[v].auto /\ ~Running(v)
<1>1. PICK defined \in BOOLEAN, started \in BOOLEAN :
        /\ started => defined /\ starts
        /\ ok = (defined /\ (starts => started))
        /\ dom' = [dom EXCEPT ![v] =
             IF ~defined THEN @
             ELSE [def |-> pins, auto |-> cfg.vm[v].auto,
                   run |-> IF started THEN pins ELSE dom[v].run]]
        /\ stale' = IF defined /\ Running(v) /\ dom[v].run # pins
                    THEN stale \cup {v} ELSE stale
  BY DEF DefineVM
<1>2. v \in VMs /\ cfg.vm[v] \in Machine
  BY TypedFacts DEF Declared
<1>3. pins \in SUBSET Nat /\ cfg.vm[v].auto \in BOOLEAN
  <2>1. cfg.vm[v].count \in Nat /\ cfg.vm[v].auto \in BOOLEAN
    BY <1>2 DEF Machine
  <2>. QED
    BY <1>2, <2>1, PinsWithin
<1>4. dom[v] \in Domain
  BY <1>2
<1>5. dom[v].run \in {None} \cup SUBSET Nat
  BY <1>4 DEF Domain
<1>. HIDE DEF pins
<1>6. CASE ~defined
  <2>1. dom' = [dom EXCEPT ![v] = dom[v]] /\ ~ok /\ stale' = stale
    BY <1>1, <1>6
  <2>2. Brought(v, cfg, ok, dom[v])
    BY <1>4, <2>1 DEF Brought
  <2>. QED
    BY <1>4, <2>2
<1>7. CASE defined
  <2> DEFINE d == [def |-> pins, auto |-> cfg.vm[v].auto,
                   run |-> IF started THEN pins ELSE dom[v].run]
  <2>1. dom' = [dom EXCEPT ![v] = d]
    BY <1>1, <1>7
  <2>2. d \in Domain
    BY <1>3, <1>5 DEF Domain
  <2>3. Follows(d, v, cfg)
    BY DEF Follows, pins
  <2>4. stale' \in SUBSET VMs /\ stale' \ {v} = stale \ {v}
    BY <1>1, <1>2
  <2>5. v \notin stale' => d.run \in {None, d.def}
    <3>1. CASE started
      BY <3>1
    <3>2. CASE ~started /\ Running(v)
      <4>1. v \notin stale' => dom[v].run = pins
        BY <1>1, <1>7, <3>2
      <4>. QED
        BY <3>2, <4>1
    <3>3. CASE ~started /\ ~Running(v)
      BY <3>3 DEF Running
    <3>. QED
      BY <3>1, <3>2, <3>3
  <2>. HIDE DEF d
  <2>6. Brought(v, cfg, ok, d)
    BY <2>1, <2>2, <2>3, <2>4, <2>5 DEF Brought
  <2>. QED
    BY <2>2, <2>6
<1>. QED
  BY <1>6, <1>7

LEMMA BringBrings ==
    ASSUME dom \in [VMs -> Domain], stale \in SUBSET VMs, NEW cfg \in Configs,
           NEW v \in VMs, NEW ok \in BOOLEAN, Bring(v, cfg, ok)
    PROVE  \E d \in Domain : Brought(v, cfg, ok, d)
<1>1. CASE v \in Declared(cfg)
  BY <1>1, DefineBrings DEF Bring
<1>2. CASE v \notin Declared(cfg)
  <2>1. PICK stopped \in BOOLEAN :
          /\ ok => stopped
          /\ dom' = [dom EXCEPT ![v] = IF ok THEN NoDom
                                       ELSE IF stopped THEN [@ EXCEPT !.run = None] ELSE @]
          /\ stale' = IF stopped THEN stale \ {v} ELSE stale
    BY <1>2 DEF Bring, DeleteVM
  <2> DEFINE d == IF ok THEN NoDom
                  ELSE IF stopped THEN [dom[v] EXCEPT !.run = None] ELSE dom[v]
  <2>2. dom' = [dom EXCEPT ![v] = d]
    BY <2>1
  <2>3. dom[v] \in Domain
    OBVIOUS
  <2>4. NoDom \in Domain /\ [dom[v] EXCEPT !.run = None] \in Domain
    BY <2>3 DEF NoDom, Domain
  <2>5. d \in Domain
    BY <2>3, <2>4
  <2>6. ok => Follows(d, v, cfg)
    BY <1>2 DEF Follows
  <2>7. stale' \in SUBSET VMs /\ stale' \ {v} = stale \ {v}
    BY <2>1
  <2>8. v \notin stale' /\ (v \notin stale => dom[v].run \in {None, dom[v].def})
          => d.run \in {None, d.def}
    <3>1. NoDom.run = None /\ [dom[v] EXCEPT !.run = None].run = None
      BY <2>3 DEF NoDom, Domain
    <3>2. CASE ok \/ stopped
      BY <3>1, <3>2
    <3>3. CASE ~ok /\ ~stopped
      BY <2>1, <3>3
    <3>. QED
      BY <3>2, <3>3
  <2>. HIDE DEF d
  <2>9. Brought(v, cfg, ok, d)
    BY <2>2, <2>5, <2>6, <2>7, <2>8 DEF Brought
  <2>. QED
    BY <2>5, <2>9
<1>. QED
  BY <1>1, <1>2

\* The other machines' domains are left alone, so that the invariant of all
\* the machines comes down to the one that was brought.
LEMMA BroughtKeeps ==
    ASSUME dom \in [VMs -> Domain], NEW cfg, NEW v \in VMs, NEW ok, NEW d,
           Brought(v, cfg, ok, d), \A w \in VMs \ stale : dom[w].run \in {None, dom[w].def}
    PROVE  /\ dom' \in [VMs -> Domain] /\ dom'[v] = d
           /\ \A w \in VMs \ {v} : dom'[w] = dom[w]
           /\ stale' \in SUBSET VMs
           /\ \A w \in VMs \ stale' : dom'[w].run \in {None, dom'[w].def}
<1>1. dom' \in [VMs -> Domain] /\ dom'[v] = d /\ \A w \in VMs \ {v} : dom'[w] = dom[w]
  BY DEF Brought
<1>2. stale' \in SUBSET VMs /\ stale' \ {v} = stale \ {v}
  BY DEF Brought
<1>3. v \notin stale' => d.run \in {None, d.def}
  BY DEF Brought
<1>4. \A w \in VMs \ stale' : w # v => w \notin stale
  BY <1>2
<1>. QED
  BY <1>1, <1>2, <1>3, <1>4
-----------------------------------------------------------------------------
(* The invariant holds at the start and is kept by every step.             *)

LEMMA InitInvariant == Init => ResourcesInvariant
<1> SUFFICES ASSUME Init PROVE ResourcesInvariant
  OBVIOUS
<1>1. committed = Config0 /\ txn = NoTxn /\ rec = NoRec /\ unsure = {} /\ stale = {} /\ events = 0
  BY DEF Init
<1>2. Config0 \in Configs /\ Valid(Config0)
  BY ResourcesAssumption, Config0Assumption
<1>3. ASSUME NEW v \in VMs
      PROVE  /\ dom[v] \in Domain /\ Follows(dom[v], v, Config0)
             /\ dom[v].run \in {None, dom[v].def}
  <2>1. CASE v \notin Declared(Config0)
    BY <2>1 DEF Init, Follows, NoDom, Domain
  <2>2. CASE v \in Declared(Config0)
    <3> DEFINE pins == Pins(Config0.vm[v].count, AllocationFor(Config0, v))
    <3>1. dom[v] = [def |-> pins, auto |-> Config0.vm[v].auto,
                    run |-> IF Config0.vm[v].auto THEN pins ELSE None]
      BY <2>2 DEF Init
    <3>2. Config0.vm[v] \in Machine
      BY <1>2, <2>2, TypedFacts DEF Declared
    <3>3. Config0.vm[v].count \in Nat /\ Config0.vm[v].auto \in BOOLEAN
      BY <3>2 DEF Machine
    <3>4. pins \in SUBSET Nat
      BY <1>2, <3>3, PinsWithin
    <3>5. Follows(dom[v], v, Config0)
      BY <2>2, <3>1 DEF Follows
    <3>. HIDE DEF pins
    <3>. QED
      BY <3>1, <3>3, <3>4, <3>5 DEF Domain
  <2>. QED
    BY <2>1, <2>2
<1>4. dom \in [VMs -> Domain]
  <2>1. dom = [v \in VMs |-> dom[v]]
    BY DEF Init
  <2>. QED
    BY <1>3, <2>1
<1>5. TypeOK
  BY <1>1, <1>2, <1>4 DEF TypeOK, NoTxn, NoRec
<1>6. Progress
  BY <1>1, <1>2 DEF Progress, NoTxn, NoRec
<1>7. Accounted
  BY <1>1, <1>3 DEF Accounted, NoTxn
<1>. QED
  BY <1>5, <1>6, <1>7 DEF ResourcesInvariant

\* A configuration that validates may be committed.
LEMMA CommitStartStep ==
    ASSUME ResourcesInvariant, NEW new \in Configs, CommitStart(new)
    PROVE  ResourcesInvariant'
<1>1. /\ txn.pc = "idle" /\ Valid(new) /\ events' = events + 1
      /\ txn' = [pc |-> "apply", new |-> new, todo |-> Plan(committed, new), done |-> {}]
      /\ UNCHANGED <<committed, dom, rec, unsure, stale>>
  BY DEF CommitStart, Spend
<1>2. Plan(committed, new) \in SUBSET VMs
  BY DEF Plan, Declared
<1>3. TypeOK'
  BY <1>1, <1>2 DEF ResourcesInvariant, TypeOK
<1>4. Progress'
  BY <1>1 DEF ResourcesInvariant, Progress
<1>5. Accounted'
  BY <1>1 DEF ResourcesInvariant, Progress, Accounted
<1>. QED
  BY <1>3, <1>4, <1>5 DEF ResourcesInvariant

LEMMA ApplyStep ==
    ASSUME ResourcesInvariant, NEW v \in VMs, NEW ok \in BOOLEAN, ApplyOp(v, ok)
    PROVE  ResourcesInvariant'
<1>1. /\ txn.pc = "apply" /\ v \in txn.todo /\ Bring(v, txn.new, ok)
      /\ txn' = IF ok THEN [txn EXCEPT !.todo = @ \ {v}, !.done = @ \cup {v}]
                ELSE [txn EXCEPT !.pc = "undo", !.todo = {}]
      /\ unsure' = IF ok THEN unsure \ {v} ELSE unsure \cup {v}
      /\ UNCHANGED <<committed, rec, events>>
  BY DEF ApplyOp
<1>2. TypeOK /\ Progress /\ Accounted
  BY DEF ResourcesInvariant
<1>3. PICK d \in Domain : Brought(v, txn.new, ok, d)
  BY <1>1, <1>2, BringBrings DEF TypeOK
<1>4. /\ dom' \in [VMs -> Domain] /\ dom'[v] = d
      /\ \A w \in VMs \ {v} : dom'[w] = dom[w]
      /\ stale' \in SUBSET VMs
      /\ \A w \in VMs \ stale' : dom'[w].run \in {None, dom'[w].def}
  BY <1>2, <1>3, BroughtKeeps DEF TypeOK, Accounted
<1>5. ok => Follows(d, v, txn.new)
  BY <1>3 DEF Brought
<1>6. /\ txn.pc = "apply" /\ txn.new \in Configs /\ txn.todo \in SUBSET VMs
      /\ txn.done \in SUBSET VMs
      /\ txn = [pc |-> txn.pc, new |-> txn.new, todo |-> txn.todo, done |-> txn.done]
  BY <1>1, <1>2 DEF TypeOK
<1>7. /\ txn'.new = txn.new
      /\ txn'.pc = IF ok THEN "apply" ELSE "undo"
      /\ txn'.todo = IF ok THEN txn.todo \ {v} ELSE {}
      /\ txn'.done = IF ok THEN txn.done \cup {v} ELSE txn.done
      /\ txn' = [pc |-> txn'.pc, new |-> txn'.new, todo |-> txn'.todo, done |-> txn'.done]
  BY <1>1, <1>6
<1>8. TypeOK'
  <2>1. txn' \in [pc : {"idle", "apply", "undo"}, new : Configs,
                  todo : SUBSET VMs, done : SUBSET VMs]
    BY <1>6, <1>7
  <2>2. unsure' \in SUBSET VMs
    BY <1>1, <1>2 DEF TypeOK
  <2>. QED
    BY <1>1, <1>2, <1>4, <2>1, <2>2 DEF TypeOK
<1>9. Progress'
  <2>1. ok => txn'.todo \cup txn'.done = txn.todo \cup txn.done
    BY <1>1, <1>7
  <2>. QED
    BY <1>1, <1>2, <1>6, <1>7, <2>1 DEF Progress
<1>10. Accounted'
  <2>1. ASSUME NEW w \in VMs \ unsure'
        PROVE  Follows(dom'[w], w, IF w \in txn'.done THEN txn.new ELSE committed)
    <3>1. CASE w = v
      BY <1>1, <1>4, <1>5, <1>7, <2>1, <3>1
    <3>2. CASE w # v
      <4>1. w \in VMs \ unsure /\ (w \in txn'.done <=> w \in txn.done) /\ dom'[w] = dom[w]
        BY <1>1, <1>4, <1>7, <2>1, <3>2
      <4>2. Follows(dom[w], w, IF w \in txn.done THEN txn.new ELSE committed)
        BY <1>2, <4>1 DEF Accounted
      <4>. QED
        BY <4>1, <4>2
    <3>. QED
      BY <3>1, <3>2
  <2>. QED
    BY <1>1, <1>4, <1>7, <2>1 DEF Accounted
<1>. QED
  BY <1>8, <1>9, <1>10 DEF ResourcesInvariant

LEMMA UndoStep ==
    ASSUME ResourcesInvariant, NEW v \in VMs, NEW ok \in BOOLEAN, UndoOp(v, ok)
    PROVE  ResourcesInvariant'
<1>1. /\ txn.pc = "undo" /\ v \in txn.done /\ Bring(v, committed, ok)
      /\ txn' = [txn EXCEPT !.done = @ \ {v}]
      /\ unsure' = IF ok THEN unsure \ {v} ELSE unsure \cup {v}
      /\ UNCHANGED <<committed, rec, events>>
  BY DEF UndoOp
<1>2. TypeOK /\ Progress /\ Accounted
  BY DEF ResourcesInvariant
<1>3. PICK d \in Domain : Brought(v, committed, ok, d)
  BY <1>1, <1>2, BringBrings DEF TypeOK
<1>4. /\ dom' \in [VMs -> Domain] /\ dom'[v] = d
      /\ \A w \in VMs \ {v} : dom'[w] = dom[w]
      /\ stale' \in SUBSET VMs
      /\ \A w \in VMs \ stale' : dom'[w].run \in {None, dom'[w].def}
  BY <1>2, <1>3, BroughtKeeps DEF TypeOK, Accounted
<1>5. ok => Follows(d, v, committed)
  BY <1>3 DEF Brought
<1>6. txn' = [pc |-> "undo", new |-> txn.new, todo |-> txn.todo, done |-> txn.done \ {v}]
  BY <1>1, <1>2 DEF TypeOK
<1>7. TypeOK'
  <2>1. txn' \in [pc : {"idle", "apply", "undo"}, new : Configs,
                  todo : SUBSET VMs, done : SUBSET VMs]
    BY <1>2, <1>6 DEF TypeOK
  <2>2. unsure' \in SUBSET VMs
    BY <1>1, <1>2 DEF TypeOK
  <2>. QED
    BY <1>1, <1>2, <1>4, <2>1, <2>2 DEF TypeOK
<1>8. Progress'
  BY <1>1, <1>2, <1>6 DEF Progress
<1>9. Accounted'
  <2>1. ASSUME NEW w \in VMs \ unsure'
        PROVE  Follows(dom'[w], w, IF w \in txn'.done THEN txn.new ELSE committed)
    <3>1. CASE w = v
      BY <1>1, <1>4, <1>5, <1>6, <2>1, <3>1
    <3>2. CASE w # v
      <4>1. w \in VMs \ unsure /\ (w \in txn'.done <=> w \in txn.done) /\ dom'[w] = dom[w]
        BY <1>1, <1>4, <1>6, <2>1, <3>2
      <4>2. Follows(dom[w], w, IF w \in txn.done THEN txn.new ELSE committed)
        BY <1>2, <4>1 DEF Accounted
      <4>. QED
        BY <4>1, <4>2
    <3>. QED
      BY <3>1, <3>2
  <2>2. txn'.new = txn.new
    BY <1>6
  <2>. QED
    BY <1>1, <1>4, <2>1, <2>2 DEF Accounted
<1>. QED
  BY <1>7, <1>8, <1>9 DEF ResourcesInvariant

LEMMA UndoEndStep ==
    ASSUME ResourcesInvariant, UndoEnd
    PROVE  ResourcesInvariant'
<1>1. /\ txn.done = {} /\ txn' = NoTxn /\ UNCHANGED <<committed, dom, rec, unsure, stale, events>>
  BY DEF UndoEnd
<1>2. Config0 \in Configs /\ Valid(Config0)
  BY ResourcesAssumption, Config0Assumption
<1>3. TypeOK'
  BY <1>1, <1>2 DEF ResourcesInvariant, TypeOK, NoTxn
<1>4. Progress'
  BY <1>1, <1>2 DEF ResourcesInvariant, Progress, NoTxn
<1>5. Accounted'
  BY <1>1 DEF ResourcesInvariant, Accounted, NoTxn
<1>. QED
  BY <1>3, <1>4, <1>5 DEF ResourcesInvariant

\* A machine left out of the plan is declared as before; when its share did
\* not move either, its definition follows the new configuration too.
LEMMA CommitEndStep ==
    ASSUME ResourcesInvariant, CommitEnd
    PROVE  ResourcesInvariant'
<1>1. /\ txn.pc = "apply" /\ txn.todo = {} /\ committed' = txn.new /\ txn' = NoTxn
      /\ unsure' = unsure \cup Shifted(committed, txn.new)
      /\ UNCHANGED <<dom, rec, stale, events>>
  BY DEF CommitEnd
<1>2. TypeOK /\ Progress /\ Accounted
  BY DEF ResourcesInvariant
<1>3. Config0 \in Configs /\ Valid(Config0)
  BY ResourcesAssumption, Config0Assumption
<1>4. TypeOK'
  <2>1. unsure' \in SUBSET VMs
    BY <1>1, <1>2 DEF TypeOK, Shifted
  <2>. QED
    BY <1>1, <1>2, <1>3, <2>1 DEF TypeOK, NoTxn
<1>5. Progress'
  BY <1>1, <1>2, <1>3 DEF Progress, NoTxn
<1>6. ASSUME NEW w \in VMs \ unsure'
      PROVE  Follows(dom[w], w, txn.new)
  <2>1. w \in VMs \ unsure /\ w \notin Shifted(committed, txn.new)
    BY <1>1, <1>6
  <2>2. Follows(dom[w], w, IF w \in txn.done THEN txn.new ELSE committed)
    BY <1>2, <2>1 DEF Accounted
  <2>3. CASE w \in txn.done
    BY <2>2, <2>3
  <2>4. CASE w \notin txn.done
    <3>1. w \notin Plan(committed, txn.new)
      BY <1>1, <1>2, <2>4 DEF Progress
    <3>2. committed.vm[w] = txn.new.vm[w]
      BY <3>1 DEF Plan, Declared
    <3>3. AllocationFor(committed, w) = AllocationFor(txn.new, w)
      BY <2>1, <3>2 DEF Shifted
    <3>4. w \in Declared(committed) <=> w \in Declared(txn.new)
      BY <3>2 DEF Declared
    <3>. QED
      BY <2>2, <2>4, <3>2, <3>3, <3>4 DEF Follows
  <2>. QED
    BY <2>3, <2>4
<1>7. Accounted'
  BY <1>1, <1>2, <1>6 DEF Accounted, NoTxn
<1>. QED
  BY <1>4, <1>5, <1>7 DEF ResourcesInvariant

LEMMA RecoveryStartStep ==
    ASSUME ResourcesInvariant, RecoveryStart
    PROVE  ResourcesInvariant'
<1>1. /\ events' = events + 1 /\ rec' = [cfg |-> committed, todo |-> Declared(committed)]
      /\ UNCHANGED <<committed, dom, txn, unsure, stale>>
  BY DEF RecoveryStart, Spend
<1>2. Declared(committed) \in SUBSET VMs
  BY DEF Declared
<1>3. TypeOK'
  BY <1>1, <1>2 DEF ResourcesInvariant, TypeOK
<1>4. Progress'
  BY <1>1 DEF ResourcesInvariant, Progress
<1>5. Accounted'
  BY <1>1 DEF ResourcesInvariant, Accounted
<1>. QED
  BY <1>3, <1>4, <1>5 DEF ResourcesInvariant

\* A recovery that crosses a commit, or defines from a configuration that
\* is no longer committed, leaves the machine accounted for.
LEMMA RecoverStep ==
    ASSUME ResourcesInvariant, NEW v \in VMs, NEW ok \in BOOLEAN, RecoverVM(v, ok)
    PROVE  ResourcesInvariant'
<1>1. /\ v \in rec.todo /\ DefineVM(v, rec.cfg, ok)
      /\ rec' = [rec EXCEPT !.todo = @ \ {v}]
      /\ unsure' = IF ok /\ txn.pc = "idle" /\ rec.cfg = committed
                   THEN unsure \ {v} ELSE unsure \cup {v}
      /\ UNCHANGED <<committed, txn, events>>
  BY DEF RecoverVM
<1>2. TypeOK /\ Progress /\ Accounted
  BY DEF ResourcesInvariant
<1>3. v \in Declared(rec.cfg) /\ rec.cfg \in Configs
  BY <1>1, <1>2 DEF TypeOK, Progress
<1>4. PICK d \in Domain : Brought(v, rec.cfg, ok, d)
  BY <1>1, <1>2, <1>3, DefineBrings DEF TypeOK
<1>5. /\ dom' \in [VMs -> Domain] /\ dom'[v] = d
      /\ \A w \in VMs \ {v} : dom'[w] = dom[w]
      /\ stale' \in SUBSET VMs
      /\ \A w \in VMs \ stale' : dom'[w].run \in {None, dom'[w].def}
  BY <1>2, <1>4, BroughtKeeps DEF TypeOK, Accounted
<1>6. rec' = [cfg |-> rec.cfg, todo |-> rec.todo \ {v}]
  BY <1>1, <1>2 DEF TypeOK
<1>7. TypeOK'
  <2>1. rec' \in [cfg : Configs, todo : SUBSET VMs]
    BY <1>2, <1>6 DEF TypeOK
  <2>2. unsure' \in SUBSET VMs
    BY <1>1, <1>2 DEF TypeOK
  <2>. QED
    BY <1>1, <1>2, <1>5, <2>1, <2>2 DEF TypeOK
<1>8. Progress'
  BY <1>1, <1>2, <1>6 DEF Progress
<1>9. Accounted'
  <2>1. ASSUME NEW w \in VMs \ unsure'
        PROVE  Follows(dom'[w], w, IF w \in txn.done THEN txn.new ELSE committed)
    <3>1. CASE w = v
      <4>1. ok /\ txn.pc = "idle" /\ rec.cfg = committed
        BY <1>1, <2>1, <3>1
      <4>2. txn.done = {}
        BY <1>2, <4>1 DEF Progress
      <4>3. Follows(d, v, committed)
        BY <1>4, <4>1 DEF Brought
      <4>. QED
        BY <1>5, <3>1, <4>2, <4>3
    <3>2. CASE w # v
      <4>1. w \in VMs \ unsure /\ dom'[w] = dom[w]
        BY <1>1, <1>5, <2>1, <3>2
      <4>2. Follows(dom[w], w, IF w \in txn.done THEN txn.new ELSE committed)
        BY <1>2, <4>1 DEF Accounted
      <4>. QED
        BY <4>1, <4>2
    <3>. QED
      BY <3>1, <3>2
  <2>. QED
    BY <1>1, <1>5, <2>1 DEF Accounted
<1>. QED
  BY <1>7, <1>8, <1>9 DEF ResourcesInvariant

\* A machine started or stopped keeps its definition.
LEMMA StartStopStep ==
    ASSUME ResourcesInvariant, NEW v \in VMs, StartVM(v) \/ StopVM(v)
    PROVE  ResourcesInvariant'
<1> DEFINE run == IF StartVM(v) THEN dom[v].def ELSE None
           d == [dom[v] EXCEPT !.run = run]
<1>1. TypeOK /\ Progress /\ Accounted
  BY DEF ResourcesInvariant
<1>2. /\ dom' = [dom EXCEPT ![v].run = run]
      /\ stale' = stale \ {v} /\ events' = events + 1
      /\ UNCHANGED <<committed, txn, rec, unsure>>
      /\ dom[v] # NoDom
  BY DEF StartVM, StopVM, Spend, Running, NoDom
<1>3. dom[v] \in Domain /\ run \in {None, dom[v].def}
  BY <1>1 DEF TypeOK
<1>4. run \in {None} \cup SUBSET Nat
  BY <1>3 DEF Domain
<1>. HIDE DEF run
<1>5. d \in Domain /\ d.def = dom[v].def /\ d.run = run /\ dom' = [dom EXCEPT ![v] = d]
  BY <1>2, <1>3, <1>4 DEF Domain
<1>. HIDE DEF d
<1>6. dom' \in [VMs -> Domain] /\ dom'[v] = d /\ \A w \in VMs \ {v} : dom'[w] = dom[w]
  BY <1>1, <1>5 DEF TypeOK
<1>7. TypeOK'
  BY <1>1, <1>2, <1>6 DEF TypeOK
<1>8. Progress'
  BY <1>1, <1>2 DEF Progress
<1>9. ASSUME NEW w \in VMs \ unsure
      PROVE  Follows(dom'[w], w, IF w \in txn.done THEN txn.new ELSE committed)
  <2>1. Follows(dom[w], w, IF w \in txn.done THEN txn.new ELSE committed)
    BY <1>1 DEF Accounted
  <2>2. CASE w = v
    BY <1>2, <1>5, <1>6, <2>1, <2>2 DEF Follows
  <2>3. CASE w # v
    BY <1>6, <2>1, <2>3
  <2>. QED
    BY <2>2, <2>3
<1>10. \A w \in VMs \ stale' : dom'[w].run \in {None, dom'[w].def}
  BY <1>1, <1>2, <1>3, <1>5, <1>6 DEF Accounted
<1>11. Accounted'
  BY <1>2, <1>9, <1>10 DEF Accounted
<1>. QED
  BY <1>7, <1>8, <1>11 DEF ResourcesInvariant

\* What a daemon that ends had begun becomes unsure.
LEMMA CrashStep ==
    ASSUME ResourcesInvariant, Crash
    PROVE  ResourcesInvariant'
<1>1. /\ events' = events + 1 /\ unsure' = unsure \cup txn.todo \cup txn.done
      /\ txn' = NoTxn /\ rec' = NoRec /\ UNCHANGED <<committed, dom, stale>>
  BY DEF Crash, Spend
<1>2. Config0 \in Configs /\ Valid(Config0)
  BY ResourcesAssumption, Config0Assumption
<1>3. TypeOK'
  BY <1>1, <1>2 DEF ResourcesInvariant, TypeOK, NoTxn, NoRec
<1>4. Progress'
  BY <1>1, <1>2 DEF ResourcesInvariant, Progress, NoTxn, NoRec
<1>5. \A w \in VMs \ unsure' : Follows(dom[w], w, committed)
  BY <1>1 DEF ResourcesInvariant, Accounted
<1>6. Accounted'
  BY <1>1, <1>5 DEF ResourcesInvariant, Accounted, NoTxn
<1>. QED
  BY <1>3, <1>4, <1>6 DEF ResourcesInvariant

\* No machine survives the host: those with autostart run as defined.
LEMMA HostRebootStep ==
    ASSUME ResourcesInvariant, HostReboot
    PROVE  ResourcesInvariant'
<1>1. /\ events' = events + 1 /\ unsure' = unsure \cup txn.todo \cup txn.done
      /\ txn' = NoTxn /\ rec' = NoRec /\ stale' = {} /\ committed' = committed
      /\ dom' = [v \in VMs |-> [dom[v] EXCEPT !.run = IF dom[v].auto THEN dom[v].def ELSE None]]
  BY DEF HostReboot, Spend
<1>2. Config0 \in Configs /\ Valid(Config0)
  BY ResourcesAssumption, Config0Assumption
<1>3. TypeOK /\ Progress /\ Accounted
  BY DEF ResourcesInvariant
<1>4. ASSUME NEW v \in VMs
      PROVE  /\ dom'[v] \in Domain /\ dom'[v].def = dom[v].def
             /\ dom'[v].run \in {None, dom'[v].def}
             /\ dom[v] = NoDom => dom'[v] = NoDom
  <2>1. dom[v] \in Domain
    BY <1>3 DEF TypeOK
  <2>2. dom'[v] = [dom[v] EXCEPT !.run = IF dom[v].auto THEN dom[v].def ELSE None]
    BY <1>1
  <2>3. dom'[v] = [def |-> dom[v].def, run |-> IF dom[v].auto THEN dom[v].def ELSE None,
                   auto |-> dom[v].auto]
    BY <2>1, <2>2 DEF Domain
  <2>. QED
    BY <2>1, <2>3 DEF Domain, NoDom
<1>5. dom' \in [VMs -> Domain]
  <2>1. dom' = [v \in VMs |-> dom'[v]]
    BY <1>1
  <2>. QED
    BY <1>4, <2>1
<1>6. TypeOK'
  BY <1>1, <1>2, <1>3, <1>5 DEF TypeOK, NoTxn, NoRec
<1>7. Progress'
  BY <1>1, <1>2, <1>3 DEF Progress, NoTxn, NoRec
<1>8. ASSUME NEW w \in VMs \ unsure'
      PROVE  Follows(dom'[w], w, committed)
  <2>1. Follows(dom[w], w, committed)
    BY <1>1, <1>3, <1>8 DEF Accounted
  <2>. QED
    BY <1>4, <1>8, <2>1 DEF Follows
<1>9. Accounted'
  BY <1>1, <1>4, <1>8 DEF Accounted, NoTxn
<1>. QED
  BY <1>6, <1>7, <1>9 DEF ResourcesInvariant

LEMMA StepInvariant == ResourcesInvariant /\ [Next]_vars => ResourcesInvariant'
<1> SUFFICES ASSUME ResourcesInvariant, [Next]_vars PROVE ResourcesInvariant'
  OBVIOUS
<1>1. ASSUME NEW new \in Configs, CommitStart(new) PROVE ResourcesInvariant'
  BY <1>1, CommitStartStep
<1>2. ASSUME NEW v \in VMs, NEW ok \in BOOLEAN, ApplyOp(v, ok) PROVE ResourcesInvariant'
  BY <1>2, ApplyStep
<1>3. ASSUME NEW v \in VMs, NEW ok \in BOOLEAN, UndoOp(v, ok) PROVE ResourcesInvariant'
  BY <1>3, UndoStep
<1>4. ASSUME NEW v \in VMs, NEW ok \in BOOLEAN, RecoverVM(v, ok) PROVE ResourcesInvariant'
  BY <1>4, RecoverStep
<1>5. CASE CommitEnd
  BY <1>5, CommitEndStep
<1>6. CASE UndoEnd
  BY <1>6, UndoEndStep
<1>7. CASE RecoveryStart
  BY <1>7, RecoveryStartStep
<1>8. CASE Crash
  BY <1>8, CrashStep
<1>9. CASE HostReboot
  BY <1>9, HostRebootStep
<1>10. ASSUME NEW v \in VMs, StartVM(v) \/ StopVM(v) PROVE ResourcesInvariant'
  BY <1>10, StartStopStep
<1>11. CASE UNCHANGED vars
  BY <1>11 DEF vars, ResourcesInvariant, TypeOK, Progress, Accounted
<1>. QED
  BY <1>1, <1>2, <1>3, <1>4, <1>5, <1>6, <1>7, <1>8, <1>9, <1>10, <1>11 DEF Next

(* The conjunction of types, progress of a commit and account of the      *)
(* machines holds in every state.                                          *)
THEOREM InductiveInvariant == Spec => []ResourcesInvariant
BY InitInvariant, StepInvariant, PTL DEF Spec

(* Every variable keeps its type in every state.                           *)
THEOREM TypeCorrect == Spec => []TypeOK
<1>1. ResourcesInvariant => TypeOK
  BY DEF ResourcesInvariant
<1>. QED
  BY <1>1, InductiveInvariant, PTL

(* Whatever Allocate grants for a committed configuration is exclusive:    *)
(* enough isolated cores, on the machine's NUMA node, shared neither with  *)
(* another machine nor with VPP, and the pages of each size suffice.       *)
THEOREM LedgerIsExclusive == Spec => []LedgerExclusive
<1>1. ResourcesInvariant => LedgerExclusive
  BY LedgerExclusiveOf DEF ResourcesInvariant, TypeOK, Progress
<1>. QED
  BY <1>1, InductiveInvariant, PTL

(* Between commits two machines run on a common core only when one of them *)
(* had its share moved or its operation fail, or was defined while it ran. *)
THEOREM SharingIsExplained == Spec => []SharingExplained
<1>1. ASSUME ResourcesInvariant, txn.pc = "idle", NEW v \in VMs, Running(v),
             v \notin unsure, v \notin stale
      PROVE  dom[v].run \subseteq AllocationFor(committed, v)
  <2>1. committed \in Configs /\ txn.done = {}
    BY <1>1 DEF ResourcesInvariant, TypeOK, Progress
  <2>2. Follows(dom[v], v, committed) /\ dom[v].run = dom[v].def
    BY <1>1, <2>1 DEF ResourcesInvariant, Accounted, Running
  <2>3. v \in Declared(committed)
    BY <1>1, <2>2 DEF Follows, NoDom, Running
  <2>4. dom[v].run = Pins(committed.vm[v].count, AllocationFor(committed, v))
    BY <2>2, <2>3 DEF Follows
  <2>5. committed.vm[v].count \in Nat
    BY <2>1, <2>3, TypedFacts DEF Declared, Machine
  <2>. QED
    BY <2>1, <2>4, <2>5, PinsWithin
<1>2. ResourcesInvariant => SharingExplained
  <2> SUFFICES ASSUME ResourcesInvariant, txn.pc = "idle", NEW v \in VMs, NEW w \in VMs, v # w,
                      Running(v), Running(w), {v, w} \cap (unsure \cup stale) = {}
               PROVE  dom[v].run \cap dom[w].run = {}
    BY DEF SharingExplained
  <2>1. AllocationFor(committed, v) \cap AllocationFor(committed, w) = {}
    BY SharesExclusive DEF ResourcesInvariant, TypeOK
  <2>2. dom[v].run \subseteq AllocationFor(committed, v)
    BY <1>1
  <2>3. dom[w].run \subseteq AllocationFor(committed, w)
    BY <1>1
  <2>. QED
    BY <2>1, <2>2, <2>3
<1>. QED
  BY <1>2, InductiveInvariant, PTL

(* A commit moves the share of an unchanged machine only through the pools *)
(* or through a machine whose name sorts before it.                        *)
THEOREM SharesAreKeptBehind == Spec => SharesKeptBehind
<1> DEFINE Pools(cfg) == <<cfg.iso, cfg.numa, cfg.main, cfg.workers, cfg.pages>>
           Kept == Pools(committed') = Pools(committed) =>
            \A i \in DOMAIN VMOrder :
                (\A j \in 1 .. i : committed'.vm[VMOrder[j]] = committed.vm[VMOrder[j]])
                    => AllocationFor(committed', VMOrder[i]) = AllocationFor(committed, VMOrder[i])
<1>1. ResourcesInvariant /\ ResourcesInvariant' => Kept
  <2> SUFFICES ASSUME ResourcesInvariant, ResourcesInvariant',
                      Pools(committed') = Pools(committed), NEW i \in DOMAIN VMOrder,
                      \A j \in 1 .. i : committed'.vm[VMOrder[j]] = committed.vm[VMOrder[j]]
               PROVE  AllocationFor(committed', VMOrder[i]) = AllocationFor(committed, VMOrder[i])
    OBVIOUS
  <2>1. committed \in Configs /\ Valid(committed)
    BY DEF ResourcesInvariant, TypeOK, Progress
  <2>2. committed' \in Configs /\ Valid(committed')
    BY DEF ResourcesInvariant, TypeOK, Progress
  <2>3. SamePools(committed', committed)
    BY DEF SamePools
  <2>4. i \in 1 .. N
    BY ResourcesAssumption DEF N
  <2>. QED
    BY <2>1, <2>2, <2>3, <2>4, SharesKept
<1>2. [][Kept]_committed => SharesKeptBehind
  BY DEF SharesKeptBehind
<1>. HIDE DEF Kept
<1>3. ResourcesInvariant /\ ResourcesInvariant' => [Kept]_committed
  BY <1>1
<1>4. Spec => [][Kept]_committed
  BY <1>3, InductiveInvariant, PTL
<1>. QED
  BY <1>2, <1>4
=============================================================================
