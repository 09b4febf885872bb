----------------------------- MODULE Resources ------------------------------
(***************************************************************************)
(* The resource ledger (internal/model/resources.go) and the cores that    *)
(* virtual machines really run on.                                         *)
(*                                                                         *)
(* The ledger is stored nowhere: it is computed from a configuration, by   *)
(* serving the machines in the order of their names.  A commit writes a    *)
(* machine's share into its domain definition, but only for machines whose *)
(* own declaration changed (apply.go), and libvirt lets a running machine  *)
(* keep the cores it was started with.  The module follows the three       *)
(* accounts: what the ledger grants, what is defined, what is running.     *)
(***************************************************************************)
EXTENDS FiniteSetsExt, Functions, SequencesExt, Integers

CONSTANTS
    VMOrder,      \* names of virtual machines, in ascending order
    Configs,      \* configurations that may be committed
    Config0,      \* the one committed and applied at the start
    MaxEvents,    \* bound on commits, recoveries, restarts and requests
    None

VMs == ToSet(VMOrder)

ASSUME ResourcesAssumption == /\ VMOrder \in Seq(VMs) /\ IsInjective(VMOrder)
                              /\ Config0 \in Configs
                              /\ MaxEvents \in Nat

VARIABLES
    committed,   \* the committed configuration
    dom,         \* libvirt: each domain's defined cores and the ones it runs on
    txn,         \* the commit in progress
    rec,         \* the recovery in progress
    unsure,      \* machines whose definition may not be the ledger's
    stale,       \* machines that run from an earlier definition
    events

vars == <<committed, dom, txn, rec, unsure, stale, events>>
-----------------------------------------------------------------------------
(* The ledger.                                                             *)

Undeclared == [count |-> 0]
PageSizes == {"1G", "2M"}

\* The fields of a configuration the ledger reads: isolated cores, those of
\* each NUMA node, VPP's, the pools of huge pages, the machines.
Typed(cfg) ==
    /\ \A cores \in {cfg.iso, cfg.main, cfg.workers} \cup {cfg.numa[n] : n \in DOMAIN cfg.numa} :
          cores \in SUBSET Nat /\ IsFiniteSet(cores)
    /\ cfg.pages \in Seq([size : PageSizes, count : Nat])
    /\ cfg.vm \in [VMs -> {Undeclared} \cup
          [count : Nat, mb : Nat, size : PageSizes \cup {None}, node : Nat \cup {None},
           pin : BOOLEAN, normal : BOOLEAN, auto : BOOLEAN]]

ASSUME ConfigsAssumption == \A cfg \in Configs : Typed(cfg)

Declared(cfg) == {v \in VMs : cfg.vm[v] # Undeclared}

\* Core 0 cannot be reserved: a main core of 0 reads as none declared.
VppReserved(cfg) == (cfg.main \ {0}) \cup cfg.workers

Lowest(S, n) == CHOOSE T \in kSubset(n, S) : \A x \in T, y \in S \ T : x < y

PageSize(cfg, c) == IF c.size = None /\ cfg.pages # <<>> THEN cfg.pages[1].size ELSE c.size
PoolCount(cfg, s) ==
    LET at == {i \in DOMAIN cfg.pages : cfg.pages[i].size = s}
    IN IF at = {} THEN 0 ELSE cfg.pages[CHOOSE i \in at : \A j \in at : j <= i].count
PageMB(s) == IF s = "1G" THEN 1024 ELSE 2
PagesNeeded(mb, s) == (mb + PageMB(s) - 1) \div PageMB(s)

\* The cores one machine may take: those of its NUMA node when that node is
\* declared, every isolated core otherwise, less what is taken.
Candidates(cfg, c, used) ==
    (IF c.node \in DOMAIN cfg.numa THEN cfg.numa[c.node] ELSE cfg.iso) \ used

SlipServe(cfg, l, v) ==
    LET c == cfg.vm[v]
        free == Candidates(cfg, c, l.used)
        take == IF Cardinality(free) >= c.count THEN Lowest(free, c.count) ELSE {}
    IN IF c = Undeclared \/ ~c.pin THEN l
       ELSE [l EXCEPT !.cores[v] = take, !.used = take, !.short = @ \/ take = {}]

\* Allocate, for one machine: pages, then cores.
Serve(cfg, l, v) ==
    LET c == cfg.vm[v]
        s == PageSize(cfg, c)
        need == PagesNeeded(c.mb, s)
        lacksPages == ~c.normal /\ (s = None \/ l.free[s] < need)
        free == Candidates(cfg, c, l.used)
        lacksCores == c.pin /\ Cardinality(free) < c.count
        take == IF c.pin /\ ~lacksCores THEN Lowest(free, c.count) ELSE {}
    IN IF c = Undeclared THEN l
       ELSE [cores |-> [l.cores EXCEPT ![v] = take],
             used |-> l.used \cup take,
             free |-> IF c.normal \/ lacksPages THEN l.free ELSE [l.free EXCEPT ![s] = @ - need],
             short |-> l.short \/ lacksPages \/ lacksCores]

NewPoolLedger(cfg) == [cores |-> [v \in VMs |-> {}], used |-> VppReserved(cfg),
                       free |-> [s \in PageSizes |-> PoolCount(cfg, s)],
                       short |-> FALSE]

SlipAllocate(cfg) ==
    FoldLeft(LAMBDA l, v : Serve(cfg, l, v), NewPoolLedger(cfg), Reverse(VMOrder))

\* The ledger after each number of machines served.
Served(cfg) ==
    LET l[n \in 0 .. Len(VMOrder)] ==
            IF n = 0 THEN NewPoolLedger(cfg) ELSE Serve(cfg, l[n - 1], VMOrder[n])
    IN l

Allocate(cfg) == Served(cfg)[Len(VMOrder)]

Ledgers == [cfg \in Configs |-> Allocate(cfg)]

\* A configuration that does not fit grants nothing to anyone.
AllocationFor(cfg, v) == IF Ledgers[cfg].short THEN {} ELSE Ledgers[cfg].cores[v]

PoolsValid(cfg) ==
    /\ \A i, j \in DOMAIN cfg.pages : i # j => cfg.pages[i].size # cfg.pages[j].size
    /\ \A i \in DOMAIN cfg.pages : cfg.pages[i].count > 0
    /\ \A n \in DOMAIN cfg.numa : cfg.numa[n] \subseteq cfg.iso

VppValid(cfg) == VppReserved(cfg) \subseteq cfg.iso

VMValid(cfg, c) ==
    /\ c.count > 0 /\ c.mb > 0
    /\ c.size # None => c.size \in {cfg.pages[i].size : i \in DOMAIN cfg.pages}

Valid(cfg) == /\ PoolsValid(cfg) /\ VppValid(cfg)
              /\ \A v \in Declared(cfg) : VMValid(cfg, cfg.vm[v])
              /\ ~Ledgers[cfg].short

\* The engine validates the configuration it starts with.
ASSUME Config0Assumption == Valid(Config0)
-----------------------------------------------------------------------------
(* Domains.                                                                *)

NoDom == [def |-> None, run |-> None, auto |-> FALSE]
Running(v) == dom[v].run # None

\* The vCPUs of a machine on its cores, in turn: those left over, when the
\* vCPUs are fewer, are the highest.
Pins(count, cores) ==
    IF count < Cardinality(cores) THEN Lowest(cores, count) ELSE cores

\* Define: the definition is replaced, a running machine stays where it is;
\* autostart starts one that does not run.
DefineVM(v, cfg, ok) ==
    LET pins == Pins(cfg.vm[v].count, AllocationFor(cfg, v))
        starts == cfg.vm[v].auto /\ ~Running(v)
    IN \E defined, started \in BOOLEAN :
        /\ started => defined /\ starts
        /\ ok = (defined /\ (starts => started))
        /\ dom' = [dom EXCEPT ![v] =
             IF ~defined THEN @
             ELSE [def |-> pins, auto |-> cfg.vm[v].auto,
                   run |-> IF started THEN pins ELSE dom[v].run]]
        /\ stale' = IF defined /\ Running(v) /\ dom[v].run # pins
                    THEN stale \cup {v} ELSE stale

DeleteVM(v, ok) ==
    \E stopped \in BOOLEAN :
        /\ ok => stopped
        /\ dom' = [dom EXCEPT ![v] = IF ok THEN NoDom
                                     ELSE IF stopped THEN [@ EXCEPT !.run = None] ELSE @]
        /\ stale' = IF stopped THEN stale \ {v} ELSE stale

Bring(v, cfg, ok) == IF v \in Declared(cfg) THEN DefineVM(v, cfg, ok) ELSE DeleteVM(v, ok)
-----------------------------------------------------------------------------
(* A commit.  The machines are brought to the new configuration one by     *)
(* one; their order within the plan does not matter to this module, except *)
(* that deletions come last.                                               *)

NoTxn == [pc |-> "idle", new |-> Config0, todo |-> {}, done |-> {}]
NoRec == [cfg |-> Config0, todo |-> {}]

Spend == events < MaxEvents /\ events' = events + 1

SlipPlan(old, new) ==
    {v \in Declared(new) : old.vm[v] = Undeclared} \cup (Declared(old) \ Declared(new))

\* plan: a machine whose own declaration is unchanged is left out, whatever
\* became of its share.
Plan(old, new) ==
    {v \in Declared(new) : new.vm[v] # old.vm[v]} \cup (Declared(old) \ Declared(new))

Shifted(old, new) ==
    {v \in VMs : old.vm[v] = new.vm[v] /\ AllocationFor(old, v) # AllocationFor(new, v)}

CommitStart(new) ==
    /\ txn.pc = "idle" /\ new # committed /\ Valid(new)
    /\ Spend
    /\ txn' = [pc |-> "apply", new |-> new, todo |-> Plan(committed, new), done |-> {}]
    /\ UNCHANGED <<committed, dom, rec, unsure, stale>>

ApplyOp(v, ok) ==
    /\ txn.pc = "apply" /\ v \in txn.todo
    /\ v \notin Declared(txn.new) => txn.todo \cap Declared(txn.new) = {}
    /\ Bring(v, txn.new, ok)
    /\ txn' = IF ok THEN [txn EXCEPT !.todo = @ \ {v}, !.done = @ \cup {v}]
              ELSE [txn EXCEPT !.pc = "undo", !.todo = {}]
    /\ unsure' = IF ok THEN unsure \ {v} ELSE unsure \cup {v}
    /\ UNCHANGED <<committed, rec, events>>

UndoOp(v, ok) ==
    /\ txn.pc = "undo" /\ v \in txn.done
    /\ Bring(v, committed, ok)
    /\ txn' = [txn EXCEPT !.done = @ \ {v}]
    /\ unsure' = IF ok THEN unsure \ {v} ELSE unsure \cup {v}
    /\ UNCHANGED <<committed, rec, events>>

UndoEnd ==
    /\ txn.pc = "undo" /\ txn.done = {}
    /\ txn' = NoTxn
    /\ UNCHANGED <<committed, dom, rec, unsure, stale, events>>

CommitEnd ==
    /\ txn.pc = "apply" /\ txn.todo = {}
    /\ committed' = txn.new
    /\ txn' = NoTxn
    /\ unsure' = unsure \cup Shifted(committed, txn.new)
    /\ UNCHANGED <<dom, rec, stale, events>>
-----------------------------------------------------------------------------
(* Recovery, requests, the host.                                           *)

\* EnsureConsistent: every declared machine is defined again, with the share
\* the configuration read at the start grants it.
RecoveryStart ==
    /\ rec.todo = {}
    /\ Spend
    /\ rec' = [cfg |-> committed, todo |-> Declared(committed)]
    /\ UNCHANGED <<committed, dom, txn, unsure, stale>>

RecoverVM(v, ok) ==
    /\ v \in rec.todo
    /\ DefineVM(v, rec.cfg, ok)
    /\ rec' = [rec EXCEPT !.todo = @ \ {v}]
    /\ unsure' = IF ok /\ txn.pc = "idle" /\ rec.cfg = committed
                 THEN unsure \ {v} ELSE unsure \cup {v}
    /\ UNCHANGED <<committed, txn, events>>

StartVM(v) ==
    /\ dom[v].def # None /\ ~Running(v)
    /\ Spend
    /\ dom' = [dom EXCEPT ![v].run = dom[v].def]
    /\ stale' = stale \ {v}
    /\ UNCHANGED <<committed, txn, rec, unsure>>

\* A request to stop it, or the guest ends.
StopVM(v) ==
    /\ Running(v)
    /\ Spend
    /\ dom' = [dom EXCEPT ![v].run = None]
    /\ stale' = stale \ {v}
    /\ UNCHANGED <<committed, txn, rec, unsure>>

\* The daemon ends and starts anew: machines go on running.
Crash ==
    /\ Spend
    /\ unsure' = unsure \cup txn.todo \cup txn.done
    /\ txn' = NoTxn /\ rec' = NoRec
    /\ UNCHANGED <<committed, dom, stale>>

\* The host too: libvirt starts the machines that have autostart.
HostReboot ==
    /\ Spend
    /\ unsure' = unsure \cup txn.todo \cup txn.done
    /\ txn' = NoTxn /\ rec' = NoRec
    /\ dom' = [v \in VMs |-> [dom[v] EXCEPT !.run = IF dom[v].auto THEN dom[v].def ELSE None]]
    /\ stale' = {}
    /\ UNCHANGED committed

Init ==
    /\ committed = Config0
    /\ dom = [v \in VMs |->
         IF v \notin Declared(Config0) THEN NoDom
         ELSE LET pins == Pins(Config0.vm[v].count, AllocationFor(Config0, v))
              IN [def |-> pins, auto |-> Config0.vm[v].auto,
                  run |-> IF Config0.vm[v].auto THEN pins ELSE None]]
    /\ txn = NoTxn /\ rec = NoRec
    /\ unsure = {} /\ stale = {} /\ events = 0

Next ==
    \/ \E new \in Configs : CommitStart(new)
    \/ \E v \in VMs, ok \in BOOLEAN : ApplyOp(v, ok) \/ UndoOp(v, ok) \/ RecoverVM(v, ok)
    \/ CommitEnd \/ UndoEnd \/ RecoveryStart \/ Crash \/ HostReboot
    \/ \E v \in VMs : StartVM(v) \/ StopVM(v)

Spec == Init /\ [][Next]_vars
-----------------------------------------------------------------------------
\* The pages of one size that one machine needs, and the first n together.
PagesAt(cfg, s, n) ==
    LET c == cfg.vm[VMOrder[n]]
    IN IF c # Undeclared /\ ~c.normal /\ PageSize(cfg, c) = s THEN PagesNeeded(c.mb, s) ELSE 0

PagesOf(cfg, s) ==
    LET sum[n \in 0 .. Len(VMOrder)] == IF n = 0 THEN 0 ELSE sum[n - 1] + PagesAt(cfg, s, n)
    IN sum

(* Whatever is committed fits: every pinned machine has as many cores as   *)
(* vCPUs, isolated, on its NUMA node when that node is declared, shared    *)
(* with no other machine and not with VPP, and the pages of each size      *)
(* suffice for all machines together (FR-CMP-002, FR-CMP-004).             *)
LedgerExclusive ==
    LET D == Declared(committed)
        Share(v) == AllocationFor(committed, v)
    IN /\ \A v \in D : LET c == committed.vm[v]
                       IN /\ c.pin => Cardinality(Share(v)) = c.count
                          /\ Share(v) \subseteq committed.iso \ VppReserved(committed)
                          /\ c.node \in DOMAIN committed.numa =>
                                Share(v) \subseteq committed.numa[c.node]
       /\ \A v, w \in D : v # w => Share(v) \cap Share(w) = {}
       /\ \A s \in PageSizes : PagesOf(committed, s)[Len(VMOrder)] <= PoolCount(committed, s)

(* Two machines that run on a common core are explained by one of the two: *)
(* its share was moved by a commit that left its definition alone, or an   *)
(* operation on it failed, was cut short or was crossed by a recovery; or  *)
(* it was defined anew while it ran and not started since.  Nothing else   *)
(* makes the commits, undos, recoveries and restarts overlap machines.     *)
SharingExplained ==
    txn.pc = "idle" =>
        \A v, w \in VMs : v # w /\ Running(v) /\ Running(w)
            /\ dom[v].run \cap dom[w].run # {} => {v, w} \cap (unsure \cup stale) # {}

(* A commit moves the share of an unchanged machine only through the pools *)
(* or through a machine whose name sorts before it.                        *)
SharesKeptBehind ==
    [][LET Pools(cfg) == <<cfg.iso, cfg.numa, cfg.main, cfg.workers, cfg.pages>>
       IN Pools(committed') = Pools(committed) =>
            \A i \in DOMAIN VMOrder :
                (\A j \in 1 .. i : committed'.vm[VMOrder[j]] = committed.vm[VMOrder[j]])
                    => AllocationFor(committed', VMOrder[i]) = AllocationFor(committed, VMOrder[i])
      ]_committed

(* apply.go and the requirement FR-CMP-002 take the cores of a machine to  *)
(* be its own: with no failure and no restart of the daemon, machines that *)
(* a commit has just brought up to date do not run on a common core.       *)
PinsExclusive ==
    txn.pc = "idle" =>
        \A v, w \in VMs : v # w /\ Running(v) /\ Running(w) => dom[v].run \cap dom[w].run = {}
=============================================================================
