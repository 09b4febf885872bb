------------------------------ MODULE DataPlane ------------------------------
(***************************************************************************)
(* The life of the data plane (internal/orchestrator/network: vpp.go,      *)
(* vpp_govpp.go, startup.go, startup_apply.go, dpdkbind.go, bindings.go,   *)
(* mgmtport.go, unbindguard.go; the controllers of cmd/nfvisd/main.go):    *)
(* network cards pass between the kernel and DPDK, a request writes        *)
(* startup.conf and restarts VPP, the manager reconnects and every         *)
(* connection starts a recovery.                                           *)
(*                                                                         *)
(* Requests of several clients interleave at every sysfs, file and service *)
(* call.  A card that DPDK has taken has no name in the kernel: the record *)
(* of bindings, in memory and on disk, is then all that knows its PCI      *)
(* address, which is abstracted to whether the record has the card.        *)
(***************************************************************************)
EXTENDS Naturals, FiniteSets

CONSTANTS
  Port,         \* physical network cards
  Mgmt,         \* the card of the management port: declared, default route or listened on
  Client,       \* requests that can be under way at once
  Cfg,          \* vpp sections that commits choose from
  Init0,        \* the section committed, written and running at the start
  None,
  MaxEvents     \* commits, requests, faults and restarts together (bound)

\* devs: the cards declared for DPDK; huge: a hugepage preference the kernel must meet.
Section == [devs : SUBSET Port, huge : BOOLEAN]
NoSection == [devs |-> {}, huge |-> FALSE]

ASSUME DataPlaneAssumption ==
  /\ Mgmt \in Port /\ Cfg \subseteq Section /\ Init0 \in Cfg /\ Mgmt \notin Init0.devs
  /\ None \notin Cfg \cup Port /\ (\A cards \in SUBSET Port : cards # None) /\ MaxEvents \in Nat

VARIABLES
  committed,  \* the vpp section of the committed configuration
  driver,     \* of a card: "kernel", "dpdk" or "none"
  record,     \* bindings.go: [loaded, map] in memory, file on disk; None when it is unreadable
  conf,       \* startup.conf
  pool,       \* the hugepages of the kernel are there
  vpp,        \* [gen, up, devs, conf, good]: the process, the cards it took, its configuration, its version
  mgr,        \* Manager: [session, applied, running]; session is the gen it talks to, 0 for none
  req,        \* the request of a client
  recovery,   \* [waiting, active, done]: started by connections, the gen under way, the last gen done
  history,    \* of the run: see Init
  events      \* counted against MaxEvents

vars == <<committed, driver, record, conf, pool, vpp, mgr, req, recovery, history, events>>

Idle == [op |-> "idle", port |-> None, at |-> "", cfg |-> None, gen |-> 0, from |-> "none", named |-> TRUE]

Driver == {"kernel", "dpdk", "none"}
Records == [loaded : BOOLEAN, map : SUBSET Port, file : (SUBSET Port) \cup {None}]
Processes == [gen : Nat, up : BOOLEAN, devs : SUBSET Port, conf : Cfg, good : BOOLEAN]
RequestStates ==
  [op : {"idle", "restart", "bind", "unbind"}, port : Port \cup {None}, cfg : Cfg \cup {None},
   at : {"", "write", "systemctl", "applied", "wait", "release", "attach", "record"},
   gen : Nat, from : Driver, named : BOOLEAN]
Histories == [fault : BOOLEAN, overlap : BOOLEAN, cut : BOOLEAN, marked : BOOLEAN, drained : BOOLEAN,
              blind : SUBSET Port, unnamed : SUBSET Port]

TypeOK ==
  /\ committed \in Cfg /\ conf \in Cfg /\ driver \in [Port -> Driver]
  /\ record \in Records /\ pool \in BOOLEAN /\ vpp \in Processes
  /\ mgr \in [session : 0..vpp.gen, applied : Cfg \cup {None}, running : BOOLEAN]
  /\ req \in [Client -> RequestStates]
  /\ recovery \in [waiting : Nat, active : 0..vpp.gen, done : 0..vpp.gen]
  /\ history \in Histories /\ events \in Nat
  \* what is not loaded is empty; a process that is down holds no card
  /\ (~record.loaded => record.map = {}) /\ (~vpp.up => vpp.devs = {})

Event(n) == events + n <= MaxEvents /\ events' = events + n
\* A fault is one more event.
Fault == Event(1) /\ history' = [history EXCEPT !.fault = TRUE]
Quiet == UNCHANGED <<events, history>>

-----------------------------------------------------------------------------
(* The record of bindings (bindings.go) *)

\* The file is read on the first access; whatever comes of it counts as loaded.
Loaded(r) == IF r.loaded THEN r
             ELSE [r EXCEPT !.loaded = TRUE, !.map = IF r.file = None THEN {} ELSE r.file]

\* The first access to a record that cannot be read fails; later ones find it empty.
LoadFails(r) == ~r.loaded /\ r.file = None

\* Mutant: the change stays in memory.
SlipRecord(r, map) == [Loaded(r) EXCEPT !.map = map]

\* Set, DeleteByPCI: nothing is written when the map has not changed.
Record(r, map) == IF Loaded(r).map = map THEN Loaded(r)
                  ELSE [loaded |-> TRUE, map |-> map, file |-> map]
RecordUnwritten(r, map) == [Loaded(r) EXCEPT !.map = map]

\* A card has its kernel name, or the record knows it; only then is the record looked at.
Resolvable(p) == driver[p] = "kernel" \/ (~LoadFails(record) /\ p \in Loaded(record).map)
Consulted(cards) == IF \A p \in cards : driver[p] = "kernel" THEN record ELSE Loaded(record)

-----------------------------------------------------------------------------
(* Restarting VPP (startup_apply.go, vppController) *)

\* The file can be rendered once the address of every declared card is known.
Renders(s) == \A p \in s.devs : Resolvable(p)

\* PendingRestart: the committed section is not the applied one; before anything was
\* applied, whether there is one.
PendingRestart == IF mgr.applied = None THEN committed # NoSection ELSE mgr.applied # committed

\* The restart is refused while the committed section prefers hugepages the kernel has not.
Precheck == committed.huge => pool

\* The committed section is read and checked; rendering needs the address of every card.
Restart(c) ==
  /\ req[c] = Idle /\ Precheck
  /\ Renders(committed)
  /\ Event(1)
  /\ req' = [req EXCEPT ![c] = [Idle EXCEPT !.op = "restart", !.at = "write", !.cfg = committed]]
  /\ record' = Consulted(committed.devs)
  /\ history' = [history EXCEPT !.overlap = @ \/ \E d \in Client : req[d].op = "restart"]
  /\ UNCHANGED <<committed, driver, conf, pool, vpp, mgr, recovery>>

WriteConf(c) ==
  /\ req[c].at = "write"
  /\ conf' = req[c].cfg /\ req' = [req EXCEPT ![c].at = "systemctl"]
  /\ Quiet /\ UNCHANGED <<committed, driver, record, pool, vpp, mgr, recovery>>

\* VPP starts with the file on disk and takes the cards that are in DPDK's hands; it does
\* not come up without the hugepages it prefers.
Start(good) ==
  LET up == conf.huge => pool
  IN vpp' = [gen |-> vpp.gen + 1, up |-> up, conf |-> conf, good |-> good,
             devs |-> IF up THEN {p \in conf.devs : driver[p] = "dpdk"} ELSE {}]

\* That systemctl succeeds says nothing of whether VPP comes up.
Systemctl(c) ==
  /\ req[c].at = "systemctl"
  /\ \/ Start(vpp.good) /\ req' = [req EXCEPT ![c].at = "applied"] /\ Quiet
     \/ UNCHANGED vpp /\ req' = [req EXCEPT ![c] = Idle] /\ Fault
  /\ UNCHANGED <<committed, driver, record, conf, pool, mgr, recovery>>

\* Mutant: the section committed by now is recorded, not the one that was written.
SlipSetApplied(c) == [mgr EXCEPT !.applied = committed]

SetApplied(c) == [mgr EXCEPT !.applied = req[c].cfg]

\* The applied section is recorded; then the request waits for VPP to answer.
MarkApplied(c) ==
  /\ req[c].at = "applied"
  /\ mgr' = SetApplied(c) /\ req' = [req EXCEPT ![c].at = "wait"]
  /\ history' = [history EXCEPT !.marked = TRUE] /\ UNCHANGED events
  /\ UNCHANGED <<committed, driver, record, conf, pool, vpp, recovery>>

\* waitHealthy: success with an answer, failure with the timeout.
WaitHealthy(c) ==
  /\ req[c].at = "wait"
  /\ req' = [req EXCEPT ![c] = Idle]
  /\ Quiet /\ UNCHANGED <<committed, driver, record, conf, pool, vpp, mgr, recovery>>

-----------------------------------------------------------------------------
(* Binding cards (dpdkController, dpdkbind.go) *)

\* Mutant: the guard of unbinding is dropped.
SlipInDataplane(p) == FALSE

\* VPP can be asked for a card by the name the card has: without a session, or without
\* the name, the card counts as absent.
Asked(p) == Resolvable(p) /\ mgr.session = vpp.gen
InDataplane(p) == Asked(p) /\ vpp.up /\ p \in vpp.devs

\* The guards come before any change: never the management port, and no unbinding of what
\* the data plane holds.  A card is given by its name, if that can be resolved, or by its
\* address.  The driver that is to let it go is read first; binding what is bound already
\* goes on with the record.
SetDPDKBound(c, p, op, named) ==
  /\ req[c] = Idle /\ p # Mgmt /\ (named => Resolvable(p))
  /\ op = "unbind" => ~InDataplane(p)
  /\ Event(1)
  /\ LET at == IF op = "bind" /\ driver[p] = "dpdk" THEN "record"
               ELSE IF driver[p] = "none" THEN "attach" ELSE "release"
     IN req' = [req EXCEPT ![c] = [op |-> op, port |-> p, at |-> at, cfg |-> None, gen |-> vpp.gen,
                                   from |-> driver[p], named |-> named]]
  /\ record' = Consulted({p})
  /\ history' = [history EXCEPT !.blind = IF op = "unbind" /\ ~Asked(p) THEN @ \cup {p} ELSE @,
                                !.unnamed = IF op = "bind" /\ ~named THEN @ \cup {p} ELSE @,
                                !.cut = @ \/ \E d \in Client : req[d].port = p]
  /\ UNCHANGED <<committed, driver, conf, pool, vpp, mgr, recovery>>

\* A request about a card that nothing resolves is refused, after the record was looked at.
Refused(c) ==
  /\ req[c] = Idle /\ (\E p \in Port \ {Mgmt} : ~Resolvable(p)) /\ Event(1)
  /\ record' = Loaded(record)
  /\ UNCHANGED <<committed, driver, conf, pool, vpp, mgr, req, recovery, history>>

\* The request ends; nothing was changed.
GiveUp(c) == req' = [req EXCEPT ![c] = Idle] /\ UNCHANGED driver

\* The driver that had the card lets it go; it is an error if it has it no more.  Writing
\* to sysfs can block and fail; a card that VPP took since the guard is blind too.
Release(c) ==
  /\ req[c].at = "release"
  /\ LET p == req[c].port
     IN \/ /\ driver[p] = req[c].from
           /\ driver' = [driver EXCEPT ![p] = "none"]
           /\ req' = [req EXCEPT ![c].at = "attach"]
           /\ history' = [history EXCEPT !.blind = IF req[c].op = "unbind" /\ req[c].gen # vpp.gen
                                                   THEN @ \cup {p} ELSE @]
           /\ UNCHANGED events
        \/ driver[p] # req[c].from /\ GiveUp(c) /\ Quiet
        \/ Fault /\ GiveUp(c)
  /\ UNCHANGED <<committed, record, conf, pool, vpp, mgr, recovery>>

\* The kernel gives a card without a driver the one that is asked for.
Attached(c) == [driver EXCEPT ![req[c].port] = IF req[c].op = "bind" THEN "dpdk" ELSE "kernel"]

\* The other driver takes the card; what fails here leaves it without one.  A card that
\* has a driver by then keeps it: an error, but for a release that leaves the choice of
\* the driver to the kernel.
Attach(c) ==
  /\ req[c].at = "attach"
  /\ \/ /\ driver[req[c].port] = "none"
        /\ driver' = Attached(c) /\ req' = [req EXCEPT ![c].at = "record"] /\ Quiet
     \/ /\ driver[req[c].port] # "none" /\ req[c].op = "unbind"
        /\ req' = [req EXCEPT ![c].at = "record"] /\ UNCHANGED driver /\ Quiet
     \/ driver[req[c].port] # "none" /\ GiveUp(c) /\ Quiet
     \/ Fault /\ GiveUp(c)
  /\ UNCHANGED <<committed, record, conf, pool, vpp, mgr, recovery>>

\* The record follows, under the name that was given: under an address it resolves
\* nothing.  A failure to write it is only logged.
Note(c) ==
  /\ req[c].at = "record"
  /\ LET p   == req[c].port
         had == Loaded(record).map
         map == IF req[c].op = "unbind" THEN had \ {p} ELSE IF req[c].named THEN had \cup {p} ELSE had
     IN \/ ~LoadFails(record) /\ record' = Record(record, map) /\ Quiet
        \/ LoadFails(record) /\ record' = Loaded(record) /\ Quiet
        \/ ~LoadFails(record) /\ map # had /\ record' = RecordUnwritten(record, map) /\ Fault
  /\ req' = [req EXCEPT ![c] = Idle]
  /\ UNCHANGED <<committed, driver, conf, pool, vpp, mgr, recovery>>

-----------------------------------------------------------------------------
(* The manager and the recoveries (vpp.go, main.go) *)

\* A connection to a VPP of another version ends the manager for good.
ConnectOnce ==
  /\ mgr.running /\ mgr.session = 0 /\ vpp.up
  /\ IF vpp.good
     THEN /\ mgr' = [mgr EXCEPT !.session = vpp.gen]
          /\ recovery' = [recovery EXCEPT !.waiting = @ + 1]
     ELSE mgr' = [mgr EXCEPT !.running = FALSE] /\ UNCHANGED recovery
  /\ Quiet /\ UNCHANGED <<committed, driver, record, conf, pool, vpp, req>>

\* Mutant: only a VPP that is down breaks the connection.
SlipWatch ==
  /\ mgr.session # 0 /\ ~vpp.up
  /\ mgr' = [mgr EXCEPT !.session = 0]
  /\ Quiet /\ UNCHANGED <<committed, driver, record, conf, pool, vpp, req, recovery>>

\* watch: the connection breaks with the process.
Watch ==
  /\ mgr.session # 0 /\ (mgr.session # vpp.gen \/ ~vpp.up)
  /\ mgr' = [mgr EXCEPT !.session = 0]
  /\ Quiet /\ UNCHANGED <<committed, driver, record, conf, pool, vpp, req, recovery>>

\* The connection is lost although VPP runs.
Disconnect ==
  /\ mgr.session # 0 /\ Event(1) /\ mgr' = [mgr EXCEPT !.session = 0]
  /\ UNCHANGED <<committed, driver, record, conf, pool, vpp, req, recovery, history>>

\* Recoveries take turns; each works on the VPP it finds.
RecoveryBegin ==
  /\ recovery.waiting > 0 /\ recovery.active = 0 /\ mgr.session # 0
  /\ recovery' = [recovery EXCEPT !.waiting = @ - 1, !.active = mgr.session]
  /\ Quiet /\ UNCHANGED <<committed, driver, record, conf, pool, vpp, mgr, req>>

\* One that finds no connection ends at once, with everything unconverged.
RecoveryVoid ==
  /\ recovery.waiting > 0 /\ recovery.active = 0 /\ mgr.session = 0
  /\ recovery' = [recovery EXCEPT !.waiting = @ - 1]
  /\ Quiet /\ UNCHANGED <<committed, driver, record, conf, pool, vpp, mgr, req>>

\* What was done counts for the process it was done to.
Recovered == IF mgr.session = recovery.active THEN recovery.active ELSE recovery.done

RecoveryEnd ==
  /\ recovery.active # 0
  /\ recovery' = [recovery EXCEPT !.active = 0, !.done = Recovered]
  /\ Quiet /\ UNCHANGED <<committed, driver, record, conf, pool, vpp, mgr, req>>

-----------------------------------------------------------------------------
(* Everything else *)

Commit(s) ==
  /\ s # committed /\ Mgmt \notin s.devs /\ Event(1)
  /\ committed' = s
  /\ UNCHANGED <<driver, record, conf, pool, vpp, mgr, req, recovery, history>>

\* VPP crashes or is updated, and systemd starts it again with what is on disk.
VppRestart ==
  /\ Event(1) /\ \E good \in BOOLEAN : Start(good)
  /\ UNCHANGED <<committed, driver, record, conf, pool, mgr, req, recovery, history>>

PoolChanges ==
  /\ Event(1) /\ pool' = ~pool
  /\ history' = [history EXCEPT !.drained = @ \/ \E c \in Client : req[c].op = "restart"]
  /\ UNCHANGED <<committed, driver, record, conf, vpp, mgr, req, recovery>>

\* The record on disk is damaged.
Damage ==
  /\ record.file # None /\ Fault /\ record' = [record EXCEPT !.file = None]
  /\ UNCHANGED <<committed, driver, conf, pool, vpp, mgr, req, recovery>>

\* ImportStartupConf: the cards named in startup.conf are taken into the record, except
\* that the access which finds the file unreadable takes nothing.
Imported(r) ==
  LET have == IF r.file = None THEN {} ELSE r.file
      missed == IF r.file # None \/ conf.devs = {} THEN {{}} ELSE {{p} : p \in conf.devs}
  IN {[loaded |-> conf.devs # {},
       map |-> IF conf.devs = {} THEN {} ELSE have \cup (conf.devs \ m),
       file |-> IF conf.devs \ m \subseteq have THEN r.file ELSE have \cup (conf.devs \ m)] : m \in missed}

\* The daemon ends in the middle of whatever it does and starts again.
DaemonRestart ==
  /\ Event(1)
  /\ record' \in Imported(record)
  /\ mgr' = [session |-> 0, applied |-> None, running |-> TRUE]
  /\ req' = [c \in Client |-> Idle]
  /\ recovery' = [waiting |-> 0, active |-> 0, done |-> 0]
  /\ history' = [history EXCEPT !.marked = FALSE, !.cut = @ \/ \E c \in Client : req[c].op # "idle",
                                !.overlap = @ \/ \E c \in Client : req[c].op = "restart"]
  /\ UNCHANGED <<committed, driver, conf, pool, vpp>>

-----------------------------------------------------------------------------

\* At the start the committed section is running; its cards are DPDK's and recorded.
Init ==
  /\ committed = Init0 /\ conf = Init0 /\ pool = TRUE
  /\ driver = [p \in Port |-> IF p \in Init0.devs THEN "dpdk" ELSE "kernel"]
  /\ record = [loaded |-> FALSE, map |-> {}, file |-> Init0.devs]
  /\ vpp = [gen |-> 1, up |-> TRUE, devs |-> Init0.devs, conf |-> Init0, good |-> TRUE]
  /\ mgr = [session |-> 0, applied |-> None, running |-> TRUE]
  /\ req = [c \in Client |-> Idle] /\ recovery = [waiting |-> 0, active |-> 0, done |-> 0]
  \* fault: a step failed or the record was damaged; overlap: two restarts were under way
  \* at once, or one was cut short; cut: a request was, or two for one card
  \* were under way at once; marked: this process has applied a section; drained: the
  \* hugepages changed under a restart; blind: cards unbound without a look at the VPP that
  \* runs; unnamed: cards bound by their address
  /\ history = [fault |-> FALSE, overlap |-> FALSE, cut |-> FALSE, marked |-> FALSE,
                 drained |-> FALSE, blind |-> {}, unnamed |-> {}]
  /\ events = 0

Requests ==
  \E c \in Client :
    \/ Restart(c) \/ WriteConf(c) \/ Systemctl(c) \/ MarkApplied(c) \/ WaitHealthy(c)
    \/ \E p \in Port, op \in {"bind", "unbind"}, named \in BOOLEAN : SetDPDKBound(c, p, op, named)
    \/ Refused(c) \/ Release(c) \/ Attach(c) \/ Note(c)

Manager == ConnectOnce \/ Watch
Recovery == RecoveryBegin \/ RecoveryVoid \/ RecoveryEnd

Next ==
  \/ Requests \/ Manager \/ Recovery \/ Disconnect
  \/ (\E s \in Cfg : Commit(s)) \/ VppRestart \/ PoolChanges \/ Damage \/ DaemonRestart

\* The loops of the manager and of the recoveries go on by themselves.
Spec == Init /\ [][Next]_vars /\ WF_vars(Manager) /\ WF_vars(Recovery)

-----------------------------------------------------------------------------
(* Properties *)

\* While no restart is pending, VPP's file is the one of the committed section: neither
\* a commit nor a restart in between goes unnoticed.  But for restarts that overlap or
\* fail, and for a process that has not applied anything itself.
PendingHonest ==
  /\ ~history.overlap /\ ~history.fault /\ history.marked /\ ~PendingRestart
  /\ \A c \in Client : req[c].op # "restart"
  => conf = committed

\* VPP never loses a card it has taken, as long as every unbinding saw the VPP that runs.
CardsKept ==
  \A p \in vpp.devs : driver[p] = "dpdk" \/ p \in history.blind

\* The record on disk has every card that DPDK has, but for the one of a request under
\* way and for those bound by address: the next restart finds its address, even if the
\* daemon restarts in between.
CardsRecorded ==
  ~history.fault /\ ~history.cut =>
    \A p \in Port : driver[p] = "dpdk" =>
      p \in record.file \cup history.unnamed \/ \E c \in Client : req[c].port = p

\* A request never takes VPP down for hugepages that were missing when it was made.
RestartComesUp ==
  [][\A c \in Client : req[c].at = "systemctl" /\ req'[c].at = "applied" =>
       vpp'.up \/ history.drained \/ history.overlap]_vars

\* Whenever VPP has started anew, a recovery is carried out on that very process, as
\* long as its version is accepted and it stays up.
RestartRecovered == []<>(vpp.up /\ mgr.running => recovery.done = vpp.gen)

=============================================================================
