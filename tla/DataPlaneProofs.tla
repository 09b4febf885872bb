-------------------------- MODULE DataPlaneProofs ---------------------------
(***************************************************************************)
(* Theorems about DataPlane, for any number of cards and clients, every    *)
(* set of sections and every number of commits, requests and faults.       *)
(***************************************************************************)
EXTENDS DataPlane, TLAPS

Restarting(c) == req[c].op = "restart"
Binding(c) == req[c].op \in {"bind", "unbind"}

\* A request is idle, restarts VPP or is about one card.
ShapeInv ==
  \A c \in Client :
    \/ req[c] = Idle
    \/ /\ Restarting(c) /\ req[c].at \in {"write", "systemctl", "applied", "wait"}
       /\ req[c].cfg \in Cfg /\ req[c].port = None
    \/ /\ Binding(c) /\ req[c].at \in {"release", "attach", "record"}
       /\ req[c].port \in Port \ {Mgmt}

\* A card that is to be unbound was not in the VPP that ran when it was asked for; one
\* that is to be bound was not DPDK's.
GuardInv ==
  \A c \in Client :
    /\ req[c].gen <= vpp.gen
    /\ req[c].at = "release" =>
         IF req[c].op = "bind" THEN req[c].from # "dpdk"
         ELSE req[c].gen = vpp.gen => req[c].port \notin vpp.devs \ history.blind

\* Restarts that do not overlap: the hugepages were there, the file on disk is the one
\* written, and at the end it is the applied one.
RestartInv ==
  /\ \A c \in Client : Restarting(c) /\ req[c].at \in {"write", "systemctl"} /\ req[c].cfg.huge =>
       pool \/ history.drained
  /\ ~history.overlap => \A c \in Client : Restarting(c) =>
       /\ \A d \in Client : Restarting(d) => d = c
       /\ req[c].at # "write" => conf = req[c].cfg

MarkedInv ==
  history.marked =>
    /\ mgr.applied # None
    /\ ~history.overlap /\ ~history.fault /\ (\A c \in Client : req[c].at \notin {"systemctl", "applied"}) =>
         conf = mgr.applied

RecordInv == ~history.fault => record.file # None /\ (record.loaded => record.map = record.file)

\* A card that is bound by its address is in the history.
NamedInv ==
  \A c \in Client : req[c].op = "bind" /\ ~req[c].named => req[c].port \in history.unnamed

\* Requests that do not overlap on a card find the card as they left it.
CardInv ==
  ~history.cut => \A c \in Client : Binding(c) =>
    LET p == req[c].port
    IN /\ \A d \in Client \ {c} : req[d].port # p
       /\ req[c].at = "release" => driver[p] = req[c].from
       /\ req[c].at = "attach" => driver[p] = "none"
       /\ req[c].at = "record" => (driver[p] = "dpdk" <=> req[c].op = "bind")

IInv == /\ TypeOK /\ ShapeInv /\ GuardInv /\ CardsKept /\ RestartInv /\ MarkedInv
        /\ RecordInv /\ NamedInv /\ CardInv /\ CardsRecorded

-----------------------------------------------------------------------------
(* Types *)

LEMMA TypesOfParts ==
  /\ NoSection \in Section /\ Idle.op = "idle" /\ Idle.port = None /\ Idle.at = "" /\ Idle.gen = 0
  /\ Idle \in RequestStates
BY DataPlaneAssumption DEF Idle, NoSection, Section, RequestStates, Driver

LEMMA RecordType ==
  ASSUME NEW r \in Records, NEW map \in SUBSET Port, ~r.loaded => r.map = {}
  PROVE  /\ Loaded(r) \in Records /\ Loaded(r).loaded /\ Loaded(r).file = r.file
         /\ Loaded(r).map = IF r.loaded THEN r.map ELSE IF r.file = None THEN {} ELSE r.file
         /\ Record(r, map) \in Records /\ Record(r, map).loaded
         /\ Loaded(r).map = map => Record(r, map) = Loaded(r)
         /\ Loaded(r).map # map => Record(r, map).map = map /\ Record(r, map).file = map
         /\ RecordUnwritten(r, map) \in Records /\ RecordUnwritten(r, map).loaded
<1>1. /\ Loaded(r) \in Records /\ Loaded(r).loaded /\ Loaded(r).file = r.file
      /\ Loaded(r).map = IF r.loaded THEN r.map ELSE IF r.file = None THEN {} ELSE r.file
  <2>1. CASE r.loaded
    BY <2>1 DEF Loaded, Records
  <2>2. CASE ~r.loaded
    <3> DEFINE m == IF r.file = None THEN {} ELSE r.file
               a == [r EXCEPT !.loaded = TRUE]
    <3>1. m \in SUBSET Port /\ a \in Records /\ a.loaded /\ a.file = r.file
      BY DEF Records
    <3>2. Loaded(r) = [a EXCEPT !.map = m]
      BY <2>2 DEF Loaded
    <3> HIDE DEF a, m
    <3>3. [a EXCEPT !.map = m] \in Records /\ [a EXCEPT !.map = m].map = m
          /\ [a EXCEPT !.map = m].loaded /\ [a EXCEPT !.map = m].file = r.file
      BY <3>1 DEF Records
    <3> QED
      BY <2>2, <3>2, <3>3 DEF m
  <2> QED
    BY <2>1, <2>2
<1>2. /\ Record(r, map) \in Records /\ Record(r, map).loaded
      /\ Loaded(r).map = map => Record(r, map) = Loaded(r)
      /\ Loaded(r).map # map => Record(r, map).map = map /\ Record(r, map).file = map
  BY <1>1 DEF Record, Records
<1>3. RecordUnwritten(r, map) \in Records /\ RecordUnwritten(r, map).loaded
  BY <1>1 DEF RecordUnwritten, Records
<1> QED
  BY <1>1, <1>2, <1>3

LEMMA ConsultedType ==
  ASSUME TypeOK, NEW cards
  PROVE  /\ Consulted(cards) \in Records /\ Consulted(cards).file = record.file
         /\ Consulted(cards).loaded => Consulted(cards).map = Loaded(record).map
         /\ ~Consulted(cards).loaded => Consulted(cards).map = {}
<1>1. record \in Records /\ (~record.loaded => record.map = {})
  BY DEF TypeOK
<1>2. /\ Loaded(record) \in Records /\ Loaded(record).file = record.file /\ Loaded(record).loaded
      /\ record.loaded => Loaded(record).map = record.map
  BY <1>1, RecordType
<1> QED
  BY <1>1, <1>2 DEF Consulted

LEMMA StartType ==
  ASSUME TypeOK, NEW good \in BOOLEAN, Start(good)
  PROVE  /\ vpp' \in Processes /\ vpp'.gen = vpp.gen + 1 /\ vpp'.conf = conf
         /\ vpp'.up <=> (conf.huge => pool)
         /\ \A p \in vpp'.devs : p \in Port /\ driver[p] = "dpdk"
         /\ ~vpp'.up => vpp'.devs = {}
<1>1. conf \in Cfg /\ conf \in Section /\ vpp \in Processes /\ pool \in BOOLEAN
  BY DataPlaneAssumption DEF TypeOK
<1>2. vpp.gen + 1 \in Nat /\ conf.huge \in BOOLEAN /\ conf.devs \subseteq Port
  BY <1>1 DEF Processes, Section
<1> QED
  BY <1>1, <1>2 DEF Start, Processes

LEMMA Grown ==
  ASSUME TypeOK, NEW n \in Nat, vpp.gen <= n
  PROVE  /\ mgr \in [session : 0..n, applied : Cfg \cup {None}, running : BOOLEAN]
         /\ recovery \in [waiting : Nat, active : 0..n, done : 0..n]
<1>1. 0..vpp.gen \subseteq 0..n
  BY DEF TypeOK, Processes
<1> QED
  BY <1>1 DEF TypeOK

\* What the steps do that can change the driver of a card, the record or VPP.
RequestStep(c) ==
  \/ Restart(c) \/ WriteConf(c) \/ Systemctl(c) \/ MarkApplied(c) \/ WaitHealthy(c)
  \/ \E p \in Port, op \in {"bind", "unbind"}, named \in BOOLEAN : SetDPDKBound(c, p, op, named)
  \/ Refused(c) \/ Release(c) \/ Attach(c) \/ Note(c)

\* Changes of one field.
LEMMA HistoryFields ==
  ASSUME TypeOK
  PROVE  /\ history \in Histories
         /\ [history EXCEPT !.fault = TRUE] \in Histories
         /\ [history EXCEPT !.marked = TRUE] \in Histories
         /\ \A b \in BOOLEAN : /\ [history EXCEPT !.overlap = b] \in Histories
                               /\ [history EXCEPT !.drained = b] \in Histories
         /\ \A S \in SUBSET Port : [history EXCEPT !.blind = S] \in Histories
BY DEF TypeOK, Histories

LEMMA RequestFields ==
  ASSUME TypeOK, NEW c \in Client
  PROVE  /\ req[c] \in RequestStates
         /\ \A q \in RequestStates : [req EXCEPT ![c] = q] \in [Client -> RequestStates]
         /\ req[c].cfg \in Cfg \cup {None} /\ req[c].port \in Port \cup {None}
         /\ [req EXCEPT ![c] = Idle] \in [Client -> RequestStates]
         /\ [req EXCEPT ![c].at = "systemctl"] \in [Client -> RequestStates]
         /\ [req EXCEPT ![c].at = "applied"] \in [Client -> RequestStates]
         /\ [req EXCEPT ![c].at = "wait"] \in [Client -> RequestStates]
         /\ [req EXCEPT ![c].at = "attach"] \in [Client -> RequestStates]
         /\ [req EXCEPT ![c].at = "record"] \in [Client -> RequestStates]
<1>1. req \in [Client -> RequestStates] /\ req[c] \in RequestStates
  BY DEF TypeOK
<1>2. ASSUME NEW q \in RequestStates PROVE [req EXCEPT ![c] = q] \in [Client -> RequestStates]
  BY <1>1
<1>3. ASSUME NEW at \in {"systemctl", "applied", "wait", "attach", "record"}
      PROVE  [req[c] EXCEPT !.at = at] \in RequestStates
  BY <1>1 DEF RequestStates
<1>4. ASSUME NEW at \in {"systemctl", "applied", "wait", "attach", "record"}
      PROVE  [req EXCEPT ![c].at = at] \in [Client -> RequestStates]
  <2>1. [req EXCEPT ![c].at = at] = [req EXCEPT ![c] = [req[c] EXCEPT !.at = at]]
    OBVIOUS
  <2> QED
    BY <1>2, <1>3, <2>1
<1>5. req[c].cfg \in Cfg \cup {None} /\ req[c].port \in Port \cup {None}
  BY <1>1 DEF RequestStates
<1> QED
  BY <1>1, <1>2, <1>4, <1>5, TypesOfParts

LEMMA RequestType ==
  ASSUME TypeOK, ShapeInv, NEW c \in Client, RequestStep(c)
  PROVE  TypeOK'
<1>1. CASE Restart(c)
  <2>1. [Idle EXCEPT !.op = "restart", !.at = "write", !.cfg = committed] \in RequestStates
    BY TypesOfParts DEF TypeOK, Idle, RequestStates, Driver
  <2>2. /\ req' \in [Client -> RequestStates] /\ history' \in Histories
        /\ record' \in Records /\ (~record'.loaded => record'.map = {})
    BY <1>1, <2>1, RequestFields, HistoryFields, ConsultedType DEF Restart
  <2> QED
    BY <1>1, <2>2 DEF TypeOK, Restart, Event
<1>2. CASE WriteConf(c)
  <2>1. req[c].cfg \in Cfg
    BY <1>2, TypesOfParts DEF WriteConf, ShapeInv
  <2>2. req' \in [Client -> RequestStates] /\ conf' \in Cfg
    BY <1>2, <2>1, RequestFields DEF WriteConf
  <2> QED
    BY <1>2, <2>2 DEF TypeOK, WriteConf, Quiet
<1>3. CASE Systemctl(c)
  <2>1. req' \in [Client -> RequestStates]
    <3>1. req' = [req EXCEPT ![c].at = "applied"] \/ req' = [req EXCEPT ![c] = Idle]
      BY <1>3 DEF Systemctl
    <3>2. /\ [req EXCEPT ![c].at = "applied"] \in [Client -> RequestStates]
          /\ [req EXCEPT ![c] = Idle] \in [Client -> RequestStates]
      BY RequestFields
    <3> QED
      BY ONLY <3>1, <3>2
  <2>2. history' \in Histories /\ events' \in Nat
    <3>1. /\ events' = events \/ events' = events + 1
          /\ history' = history \/ history' = [history EXCEPT !.fault = TRUE]
      BY <1>3 DEF Systemctl, Fault, Event, Quiet
    <3>2. history' \in Histories
      BY <3>1, HistoryFields
    <3>3. events' \in Nat
      BY <3>1 DEF TypeOK
    <3> QED
      BY <3>2, <3>3
  <2>3. CASE UNCHANGED vpp
    BY <1>3, <2>1, <2>2, <2>3 DEF TypeOK, Systemctl
  <2>4. CASE Start(vpp.good)
    <3>1. vpp.good \in BOOLEAN /\ vpp.gen \in Nat
      BY DEF TypeOK, Processes
    <3>2. vpp' \in Processes /\ vpp'.gen = vpp.gen + 1 /\ (~vpp'.up => vpp'.devs = {})
      BY <2>4, <3>1, StartType
    <3>3. vpp'.gen \in Nat /\ vpp.gen <= vpp'.gen
      BY <3>1, <3>2
    <3>4. /\ mgr' \in [session : 0..vpp'.gen, applied : Cfg \cup {None}, running : BOOLEAN]
          /\ recovery' \in [waiting : Nat, active : 0..vpp'.gen, done : 0..vpp'.gen]
      BY <1>3, <3>3, Grown DEF Systemctl
    <3> QED
      BY <1>3, <2>1, <2>2, <3>2, <3>4 DEF TypeOK, Systemctl
  <2> QED
    BY <1>3, <2>3, <2>4 DEF Systemctl
<1>4. CASE MarkApplied(c)
  <2>1. req' \in [Client -> RequestStates] /\ history' \in Histories
    BY <1>4, RequestFields, HistoryFields DEF MarkApplied
  <2>2. mgr' = [mgr EXCEPT !.applied = req[c].cfg] /\ req[c].cfg \in Cfg \cup {None}
    BY <1>4, RequestFields DEF MarkApplied, SetApplied
  <2> QED
    BY <1>4, <2>1, <2>2 DEF TypeOK, MarkApplied
<1>5. CASE WaitHealthy(c)
  BY <1>5, TypesOfParts, RequestFields DEF TypeOK, WaitHealthy, Quiet
<1>6. ASSUME NEW p \in Port, NEW op \in {"bind", "unbind"}, NEW named \in BOOLEAN,
             SetDPDKBound(c, p, op, named)
      PROVE  TypeOK'
  <2>1. req' \in [Client -> RequestStates]
    <3> DEFINE at == IF op = "bind" /\ driver[p] = "dpdk" THEN "record"
                     ELSE IF driver[p] = "none" THEN "attach" ELSE "release"
               q == [op |-> op, port |-> p, at |-> at, cfg |-> None, gen |-> vpp.gen,
                     from |-> driver[p], named |-> named]
    <3>1. driver[p] \in Driver /\ vpp.gen \in Nat
      BY DEF TypeOK, Processes
    <3>2. at \in {"record", "attach", "release"}
      OBVIOUS
    <3>3. req' = [req EXCEPT ![c] = q]
      BY <1>6 DEF SetDPDKBound
    <3> HIDE DEF at
    <3>4. q \in RequestStates
      BY <3>1, <3>2 DEF RequestStates
    <3> QED
      BY <3>3, <3>4, RequestFields
  <2>2. history' \in Histories
    <3>1. PICK B \in SUBSET Port, U \in SUBSET Port, cut \in BOOLEAN :
            history' = [history EXCEPT !.blind = B, !.unnamed = U, !.cut = cut]
      <4>1. /\ history.blind \in SUBSET Port /\ history.unnamed \in SUBSET Port
            /\ history.cut \in BOOLEAN
        BY HistoryFields DEF Histories
      <4> QED
        BY <1>6, <4>1, ZenonT(30) DEF SetDPDKBound
    <3> QED
      BY <3>1, HistoryFields DEF Histories
  <2>3. record' \in Records /\ (~record'.loaded => record'.map = {})
    BY <1>6, ConsultedType DEF SetDPDKBound
  <2>4. events' = events + 1 /\ UNCHANGED <<committed, driver, conf, pool, vpp, mgr, recovery>>
    BY <1>6 DEF SetDPDKBound, Event
  <2> QED
    BY <2>1, <2>2, <2>3, <2>4 DEF TypeOK
<1>7. CASE Refused(c)
  <2>1. record' \in Records /\ (~record'.loaded => record'.map = {})
    BY <1>7, RecordType DEF Refused, TypeOK
  <2> QED
    BY <1>7, <2>1 DEF TypeOK, Refused, Event
<1>8. CASE Release(c)
  <2>1. req' \in [Client -> RequestStates]
    <3>1. req' = [req EXCEPT ![c].at = "attach"] \/ req' = [req EXCEPT ![c] = Idle]
      BY <1>8 DEF Release, GiveUp
    <3>2. /\ [req EXCEPT ![c].at = "attach"] \in [Client -> RequestStates]
          /\ [req EXCEPT ![c] = Idle] \in [Client -> RequestStates]
      BY RequestFields
    <3> QED
      BY ONLY <3>1, <3>2
  <2>2. history' \in Histories
    <3>1. history.blind \in SUBSET Port /\ req[c].port \in Port
      BY <1>8, TypesOfParts DEF Release, ShapeInv, TypeOK, Histories
    <3>2. \/ history' = history \/ history' = [history EXCEPT !.fault = TRUE]
          \/ history' = [history EXCEPT !.blind = history.blind \cup {req[c].port}]
          \/ history' = [history EXCEPT !.blind = history.blind]
      BY <1>8 DEF Release, Fault, Quiet
    <3> QED
      BY <3>1, <3>2, HistoryFields
  <2>3. driver' \in [Port -> Driver]
    BY <1>8 DEF Release, GiveUp, TypeOK, Driver
  <2>4. events' \in Nat
    BY <1>8 DEF Release, Fault, Event, Quiet, TypeOK
  <2> QED
    BY <1>8, <2>1, <2>2, <2>3, <2>4 DEF TypeOK, Release
<1>9. CASE Attach(c)
  <2>1. req' \in [Client -> RequestStates]
    <3>1. req' = [req EXCEPT ![c].at = "record"] \/ req' = [req EXCEPT ![c] = Idle]
      BY <1>9 DEF Attach, GiveUp
    <3>2. /\ [req EXCEPT ![c].at = "record"] \in [Client -> RequestStates]
          /\ [req EXCEPT ![c] = Idle] \in [Client -> RequestStates]
      BY RequestFields
    <3> QED
      BY ONLY <3>1, <3>2
  <2>2. history' \in Histories
    BY <1>9, HistoryFields DEF Attach, Fault, Quiet
  <2>3. driver' \in [Port -> Driver]
    BY <1>9 DEF Attach, Attached, GiveUp, TypeOK, Driver
  <2>4. events' \in Nat
    BY <1>9 DEF Attach, Fault, Event, Quiet, TypeOK
  <2> QED
    BY <1>9, <2>1, <2>2, <2>3, <2>4 DEF TypeOK, Attach
<1>10. CASE Note(c)
  <2>1. req' \in [Client -> RequestStates]
    BY <1>10, TypesOfParts, RequestFields DEF Note
  <2>2. history' \in Histories
    BY <1>10, HistoryFields DEF Note, Fault, Quiet
  <2>3. record' \in Records /\ (~record'.loaded => record'.map = {})
    <3> DEFINE had == Loaded(record).map
               map == IF req[c].op = "unbind" THEN had \ {req[c].port}
                      ELSE IF req[c].named THEN had \cup {req[c].port} ELSE had
    <3>1. record \in Records /\ (~record.loaded => record.map = {})
      BY DEF TypeOK
    <3>2. had \in SUBSET Port
      BY <3>1, RecordType DEF Records
    <3>3. req[c].port \in Port
      BY <1>10, TypesOfParts DEF Note, ShapeInv
    <3>4. map \in SUBSET Port
      BY <3>2, <3>3
    <3>5. record' \in {Record(record, map), Loaded(record), RecordUnwritten(record, map)}
      BY <1>10 DEF Note
    <3> HIDE DEF had, map
    <3> QED
      BY <3>1, <3>4, <3>5, RecordType
  <2>4. events' \in Nat
    BY <1>10 DEF Note, Fault, Event, Quiet, TypeOK
  <2> QED
    BY <1>10, <2>1, <2>2, <2>3, <2>4 DEF TypeOK, Note
<1> QED
  BY <1>1, <1>2, <1>3, <1>4, <1>5, <1>6, <1>7, <1>8, <1>9, <1>10 DEF RequestStep
LEMMA OtherType ==
  ASSUME TypeOK, Manager \/ Recovery \/ Disconnect \/ (\E s \in Cfg : Commit(s)) \/ VppRestart
                 \/ PoolChanges \/ Damage \/ DaemonRestart
  PROVE  TypeOK'
<1>0. vpp.gen \in Nat /\ vpp.gen \in 0..vpp.gen /\ 0 \in 0..vpp.gen /\ events \in Nat /\ events + 1 \in Nat
  BY DEF TypeOK, Processes
<1>1. CASE ConnectOnce
  <2>1. mgr' \in [session : 0..vpp.gen, applied : Cfg \cup {None}, running : BOOLEAN]
    BY <1>0, <1>1 DEF TypeOK, ConnectOnce
  <2>2. recovery' \in [waiting : Nat, active : 0..vpp.gen, done : 0..vpp.gen]
    <3>1. recovery.waiting + 1 \in Nat
      BY DEF TypeOK
    <3> QED
      BY <1>1, <3>1 DEF TypeOK, ConnectOnce
  <2> QED
    BY <1>1, <2>1, <2>2 DEF TypeOK, ConnectOnce, Quiet
<1>2. CASE Watch \/ Disconnect
  BY <1>0, <1>2 DEF TypeOK, Watch, Disconnect, Quiet, Event
<1>3. CASE RecoveryBegin
  <2>1. recovery.waiting - 1 \in Nat /\ mgr.session \in 0..vpp.gen
    BY <1>3 DEF TypeOK, RecoveryBegin
  <2>2. recovery' \in [waiting : Nat, active : 0..vpp.gen, done : 0..vpp.gen]
    <3> DEFINE a == [recovery EXCEPT !.waiting = recovery.waiting - 1]
    <3>1. a \in [waiting : Nat, active : 0..vpp.gen, done : 0..vpp.gen]
      BY <2>1 DEF TypeOK
    <3>2. recovery' = [a EXCEPT !.active = mgr.session]
      BY <1>3 DEF RecoveryBegin
    <3> HIDE DEF a
    <3> QED
      BY <2>1, <3>1, <3>2
  <2> QED
    BY <1>3, <2>2 DEF TypeOK, RecoveryBegin, Quiet
<1>4. CASE RecoveryVoid
  BY <1>0, <1>4 DEF TypeOK, RecoveryVoid, Quiet
<1>5. CASE RecoveryEnd
  BY <1>0, <1>5 DEF TypeOK, RecoveryEnd, Recovered, Quiet
<1>6. CASE \E s \in Cfg : Commit(s)
  BY <1>0, <1>6 DEF TypeOK, Commit, Event
<1>7. CASE VppRestart
  <2>1. PICK good \in BOOLEAN : Start(good)
    BY <1>7 DEF VppRestart
  <2>2. vpp' \in Processes /\ vpp'.gen = vpp.gen + 1 /\ (~vpp'.up => vpp'.devs = {})
    BY <2>1, StartType
  <2>3. vpp'.gen \in Nat /\ vpp.gen <= vpp'.gen
    BY <1>0, <2>2
  <2>4. /\ mgr' \in [session : 0..vpp'.gen, applied : Cfg \cup {None}, running : BOOLEAN]
        /\ recovery' \in [waiting : Nat, active : 0..vpp'.gen, done : 0..vpp'.gen]
    BY <1>7, <2>3, Grown DEF VppRestart
  <2> QED
    BY <1>0, <1>7, <2>2, <2>4 DEF TypeOK, VppRestart, Event
<1>8. CASE PoolChanges
  <2>1. history.drained \in BOOLEAN
    BY DEF TypeOK, Histories
  <2>2. history' \in Histories
    BY <1>8, <2>1, HistoryFields DEF PoolChanges
  <2> QED
    BY <1>0, <1>8, <2>2 DEF TypeOK, PoolChanges, Event
<1>9. CASE Damage
  <2>1. history' \in Histories
    BY <1>9, HistoryFields DEF Damage, Fault
  <2>2. record' \in Records /\ (~record'.loaded => record'.map = {})
    BY <1>9 DEF TypeOK, Damage, Records
  <2> QED
    BY <1>0, <1>9, <2>1, <2>2 DEF TypeOK, Damage, Fault, Event
<1>10. CASE DaemonRestart
  <2>1. record' \in Records /\ (~record'.loaded => record'.map = {})
    <3> DEFINE have == IF record.file = None THEN {} ELSE record.file
               missed == IF record.file # None \/ conf.devs = {} THEN {{}} ELSE {{p} : p \in conf.devs}
    <3>1. PICK m \in missed :
            record' = [loaded |-> conf.devs # {},
                       map |-> IF conf.devs = {} THEN {} ELSE have \cup (conf.devs \ m),
                       file |-> IF conf.devs \ m \subseteq have THEN record.file ELSE have \cup (conf.devs \ m)]
      BY <1>10 DEF DaemonRestart, Imported
    <3>2. /\ have \in SUBSET Port /\ conf.devs \in SUBSET Port
          /\ record.file \in (SUBSET Port) \cup {None}
      BY DataPlaneAssumption DEF TypeOK, Records, Section
    <3> HIDE DEF have, missed
    <3> QED
      BY <3>1, <3>2 DEF Records
  <2>2. req' \in [Client -> RequestStates]
    BY <1>10, TypesOfParts DEF DaemonRestart
  <2>3. history' \in Histories
    <3>1. PICK cut \in BOOLEAN, overlap \in BOOLEAN :
            history' = [history EXCEPT !.marked = FALSE, !.cut = cut, !.overlap = overlap]
      <4>1. history.cut \in BOOLEAN /\ history.overlap \in BOOLEAN
        BY DEF TypeOK, Histories
      <4> QED
        BY <1>10, <4>1 DEF DaemonRestart
    <3> DEFINE a == [history EXCEPT !.marked = FALSE]
               b == [a EXCEPT !.cut = cut]
               d == [b EXCEPT !.overlap = overlap]
    <3>2. history' = d
      BY <3>1
    <3>3. a \in Histories
      BY HistoryFields DEF Histories
    <3> HIDE DEF a
    <3>4. b \in Histories
      BY <3>3 DEF Histories
    <3> HIDE DEF b
    <3>5. d \in Histories
      BY <3>4 DEF Histories
    <3> QED
      BY <3>2, <3>5
  <2>4. mgr' \in [session : 0..vpp.gen, applied : Cfg \cup {None}, running : BOOLEAN]
    BY <1>0, <1>10 DEF DaemonRestart
  <2>5. recovery' \in [waiting : Nat, active : 0..vpp.gen, done : 0..vpp.gen]
    BY <1>0, <1>10 DEF DaemonRestart
  <2>6. events' = events + 1 /\ UNCHANGED <<committed, driver, conf, pool, vpp>>
    BY <1>10 DEF DaemonRestart, Event
  <2> QED
    BY <1>0, <2>1, <2>2, <2>3, <2>4, <2>5, <2>6 DEF TypeOK
<1> QED
  BY <1>1, <1>2, <1>3, <1>4, <1>5, <1>6, <1>7, <1>8, <1>9, <1>10 DEF Manager, Recovery

LEMMA TypeStep == TypeOK /\ ShapeInv /\ [Next]_vars => TypeOK'
<1> SUFFICES ASSUME TypeOK, ShapeInv, [Next]_vars PROVE TypeOK'
  OBVIOUS
<1>1. CASE Requests
  <2>1. PICK c \in Client : RequestStep(c)
    BY <1>1 DEF Requests, RequestStep
  <2> QED
    BY <2>1, RequestType
<1>2. CASE UNCHANGED vars
  BY <1>2 DEF vars, TypeOK
<1> QED
  BY <1>1, <1>2, OtherType DEF Next

-----------------------------------------------------------------------------
(* What a step does to the requests *)

\* Where a request of a client may go; from its step the others stay as they are.
Goes(c, at, next) ==
  /\ req[c].at = at /\ req' = [req EXCEPT ![c].at = next]
  /\ req'[c].op = req[c].op /\ req'[c].port = req[c].port /\ req'[c].cfg = req[c].cfg
  /\ req'[c].gen = req[c].gen /\ req'[c].from = req[c].from /\ req'[c].at = next
  /\ req'[c].named = req[c].named

LEMMA OthersStay ==
  ASSUME TypeOK, NEW c \in Client, RequestStep(c)
  PROVE  \A d \in Client \ {c} : req'[d] = req[d]
<1>1. \E q : req' = [req EXCEPT ![c] = q]
  <2>1. CASE Restart(c) \/ WaitHealthy(c) \/ Note(c)
    BY <2>1 DEF Restart, WaitHealthy, Note
  <2>2. CASE WriteConf(c) \/ Systemctl(c) \/ MarkApplied(c)
    BY <2>2 DEF WriteConf, Systemctl, MarkApplied
  <2>3. ASSUME NEW p \in Port, NEW op \in {"bind", "unbind"}, NEW named \in BOOLEAN,
               SetDPDKBound(c, p, op, named)
        PROVE  \E q : req' = [req EXCEPT ![c] = q]
    BY <2>3 DEF SetDPDKBound
  <2>4. CASE Release(c) \/ Attach(c)
    BY <2>4 DEF Release, Attach, GiveUp
  <2>5. CASE Refused(c)
    <3>1. req = [req EXCEPT ![c] = req[c]]
      BY DEF TypeOK
    <3> QED
      BY <2>5, <3>1 DEF Refused
  <2> QED
    BY <2>1, <2>2, <2>3, <2>4, <2>5 DEF RequestStep
<1>2. req \in [Client -> RequestStates]
  BY DEF TypeOK
<1> QED
  BY <1>1, <1>2

LEMMA NextAt ==
  ASSUME TypeOK, NEW c \in Client, NEW next, req' = [req EXCEPT ![c].at = next]
  PROVE  Goes(c, req[c].at, next)
<1>1. req \in [Client -> RequestStates] /\ req[c] \in RequestStates
  BY DEF TypeOK
<1>2. req'[c] = [req[c] EXCEPT !.at = next]
  BY <1>1
<1>3. /\ req'[c].at = next /\ req'[c].op = req[c].op /\ req'[c].port = req[c].port
      /\ req'[c].cfg = req[c].cfg /\ req'[c].gen = req[c].gen /\ req'[c].from = req[c].from
      /\ req'[c].named = req[c].named
  BY <1>1, <1>2 DEF RequestStates
<1> QED
  BY <1>3 DEF Goes

LEMMA EndsAt ==
  ASSUME TypeOK, NEW c \in Client, req' = [req EXCEPT ![c] = Idle]
  PROVE  req'[c] = Idle
BY DEF TypeOK

LEMMA RestartMoves ==
  ASSUME TypeOK, NEW c \in Client
  PROVE  /\ Restart(c) => /\ req'[c].op = "restart" /\ req'[c].at = "write" /\ req'[c].cfg = committed
                          /\ req'[c].port = None /\ req'[c].gen = 0
         /\ WriteConf(c) => Goes(c, "write", "systemctl")
         /\ Systemctl(c) => Goes(c, "systemctl", "applied") \/ req'[c] = Idle
         /\ MarkApplied(c) => Goes(c, "applied", "wait")
         /\ WaitHealthy(c) => req'[c] = Idle
<1>1. ASSUME Restart(c)
      PROVE  /\ req'[c].op = "restart" /\ req'[c].at = "write" /\ req'[c].cfg = committed
             /\ req'[c].port = None /\ req'[c].gen = 0
  BY <1>1 DEF TypeOK, Restart, Idle
<1>2. ASSUME WriteConf(c) PROVE Goes(c, "write", "systemctl")
  BY <1>2, NextAt DEF WriteConf
<1>3. ASSUME Systemctl(c) PROVE Goes(c, "systemctl", "applied") \/ req'[c] = Idle
  <2>1. /\ req[c].at = "systemctl"
        /\ req' = [req EXCEPT ![c].at = "applied"] \/ req' = [req EXCEPT ![c] = Idle]
    BY <1>3 DEF Systemctl
  <2> QED
    BY <2>1, NextAt, EndsAt
<1>4. ASSUME MarkApplied(c) PROVE Goes(c, "applied", "wait")
  BY <1>4, NextAt DEF MarkApplied
<1>5. ASSUME WaitHealthy(c) PROVE req'[c] = Idle
  BY <1>5, EndsAt DEF WaitHealthy
<1> QED
  BY <1>1, <1>2, <1>3, <1>4, <1>5

LEMMA BindingMoves ==
  ASSUME TypeOK, NEW c \in Client
  PROVE  /\ \A p \in Port, op \in {"bind", "unbind"}, named \in BOOLEAN : SetDPDKBound(c, p, op, named) =>
              /\ req'[c].op = op /\ req'[c].port = p /\ req'[c].gen = vpp.gen
              /\ req'[c].from = driver[p] /\ req'[c].named = named
              /\ req'[c].at = IF op = "bind" /\ driver[p] = "dpdk" THEN "record"
                              ELSE IF driver[p] = "none" THEN "attach" ELSE "release"
         /\ Refused(c) => req' = req
         /\ Release(c) => Goes(c, "release", "attach") \/ req'[c] = Idle
         /\ Attach(c) => Goes(c, "attach", "record") \/ req'[c] = Idle
         /\ Note(c) => req'[c] = Idle
<1>1. ASSUME NEW p \in Port, NEW op \in {"bind", "unbind"}, NEW named \in BOOLEAN,
             SetDPDKBound(c, p, op, named)
      PROVE  /\ req'[c].op = op /\ req'[c].port = p /\ req'[c].gen = vpp.gen
             /\ req'[c].from = driver[p] /\ req'[c].named = named
             /\ req'[c].at = IF op = "bind" /\ driver[p] = "dpdk" THEN "record"
                             ELSE IF driver[p] = "none" THEN "attach" ELSE "release"
  BY <1>1 DEF TypeOK, SetDPDKBound
<1>2. ASSUME Refused(c) PROVE req' = req
  BY <1>2 DEF Refused
<1>3. ASSUME Release(c) PROVE Goes(c, "release", "attach") \/ req'[c] = Idle
  <2>1. /\ req[c].at = "release"
        /\ req' = [req EXCEPT ![c].at = "attach"] \/ req' = [req EXCEPT ![c] = Idle]
    BY <1>3 DEF Release, GiveUp
  <2> QED
    BY <2>1, NextAt, EndsAt
<1>4. ASSUME Attach(c) PROVE Goes(c, "attach", "record") \/ req'[c] = Idle
  <2>1. /\ req[c].at = "attach"
        /\ req' = [req EXCEPT ![c].at = "record"] \/ req' = [req EXCEPT ![c] = Idle]
    BY <1>4 DEF Attach, GiveUp
  <2> QED
    BY <2>1, NextAt, EndsAt
<1>5. ASSUME Note(c) PROVE req'[c] = Idle
  BY <1>5, EndsAt DEF Note
<1> QED
  BY <1>1, <1>2, <1>3, <1>4, <1>5

\* The steps that are not of a request leave the requests alone, or end them all.
Elsewhere ==
  \/ Manager \/ Recovery \/ Disconnect \/ (\E s \in Cfg : Commit(s))
  \/ VppRestart \/ PoolChanges \/ Damage \/ DaemonRestart \/ UNCHANGED vars

LEMMA Steps == [Next]_vars => Elsewhere \/ \E c \in Client : RequestStep(c)
BY DEF Next, Requests, RequestStep, Elsewhere

LEMMA ElsewhereStays ==
  ASSUME TypeOK, Elsewhere
  PROVE  \/ UNCHANGED req /\ ~DaemonRestart
         \/ DaemonRestart /\ \A c \in Client : req'[c] = Idle
<1>1. CASE DaemonRestart
  BY <1>1 DEF DaemonRestart
<1>2. CASE ~DaemonRestart
  BY <1>2 DEF Elsewhere, Manager, Recovery, ConnectOnce, Watch, RecoveryBegin, RecoveryVoid, RecoveryEnd,
              Disconnect, Commit, VppRestart, PoolChanges, Damage, vars
<1> QED
  BY <1>1, <1>2

LEMMA ShapeStep == TypeOK /\ ShapeInv /\ [Next]_vars => ShapeInv'
<1> SUFFICES ASSUME TypeOK, ShapeInv, [Next]_vars PROVE ShapeInv'
  OBVIOUS
<1>1. ASSUME NEW c \in Client, RequestStep(c) PROVE ShapeInv'
  <2>1. \A d \in Client \ {c} : req'[d] = req[d]
    BY <1>1, OthersStay
  <2>2. \/ req'[c] = Idle
        \/ /\ req'[c].op = "restart" /\ req'[c].at \in {"write", "systemctl", "applied", "wait"}
           /\ req'[c].cfg \in Cfg /\ req'[c].port = None
        \/ /\ req'[c].op \in {"bind", "unbind"} /\ req'[c].at \in {"release", "attach", "record"}
           /\ req'[c].port \in Port \ {Mgmt}
    <3>1. CASE Restart(c)
      BY <3>1, RestartMoves DEF TypeOK
    <3>2. CASE WriteConf(c) \/ Systemctl(c) \/ MarkApplied(c) \/ WaitHealthy(c)
      BY <3>2, RestartMoves, TypesOfParts DEF ShapeInv, Goes, Restarting, Binding
    <3>3. ASSUME NEW p \in Port, NEW op \in {"bind", "unbind"}, NEW named \in BOOLEAN,
                 SetDPDKBound(c, p, op, named)
          PROVE  /\ req'[c].op \in {"bind", "unbind"} /\ req'[c].at \in {"release", "attach", "record"}
                 /\ req'[c].port \in Port \ {Mgmt}
      <4>1. p # Mgmt
        BY <3>3 DEF SetDPDKBound
      <4> QED
        BY <3>3, <4>1, BindingMoves
    <3>4. CASE Refused(c)
      BY <3>4, BindingMoves DEF ShapeInv, Restarting, Binding
    <3>5. CASE Release(c) \/ Attach(c) \/ Note(c)
      BY <3>5, BindingMoves, TypesOfParts DEF ShapeInv, Goes, Restarting, Binding
    <3> QED
      BY <1>1, <3>1, <3>2, <3>3, <3>4, <3>5 DEF RequestStep
  <2> QED
    BY <2>1, <2>2 DEF ShapeInv, Restarting, Binding
<1>2. CASE Elsewhere
  BY <1>2, ElsewhereStays DEF ShapeInv, Restarting, Binding
<1> QED
  BY <1>1, <1>2, Steps

-----------------------------------------------------------------------------
(* The cards that VPP has *)

\* Of the history, blind changes in two actions only.
LEMMA BlindStays ==
  ASSUME TypeOK, NEW c \in Client,
         \/ Restart(c) \/ WriteConf(c) \/ Systemctl(c) \/ MarkApplied(c) \/ WaitHealthy(c)
         \/ Refused(c) \/ Attach(c) \/ Note(c)
  PROVE  history'.blind = history.blind
<1>1. \/ UNCHANGED history \/ history' = [history EXCEPT !.fault = TRUE]
      \/ history' = [history EXCEPT !.marked = TRUE]
      \/ history' = [history EXCEPT !.overlap = history.overlap \/ \E d \in Client : req[d].op = "restart"]
  BY DEF Restart, WriteConf, Systemctl, MarkApplied, WaitHealthy, Refused, Attach, Note, Fault, Quiet
<1> QED
  BY <1>1 DEF TypeOK, Histories

LEMMA BlindStaysElsewhere ==
  ASSUME TypeOK, Elsewhere
  PROVE  history'.blind = history.blind
<1>1. CASE DaemonRestart
  BY <1>1 DEF TypeOK, Histories, DaemonRestart
<1>2. CASE ~DaemonRestart
  <2>1. \/ UNCHANGED history \/ history' = [history EXCEPT !.fault = TRUE]
        \/ history' = [history EXCEPT !.drained = history.drained \/ \E d \in Client : req[d].op = "restart"]
    BY <1>2 DEF Elsewhere, Manager, Recovery, ConnectOnce, Watch, RecoveryBegin, RecoveryVoid, RecoveryEnd,
                Disconnect, Commit, VppRestart, PoolChanges, Damage, vars, Fault, Quiet
  <2> QED
    BY <2>1 DEF TypeOK, Histories
<1> QED
  BY <1>1, <1>2

\* A card that VPP has loses its driver only by an unbinding that asked no one, or
\* asked another process; and a new process takes only what is DPDK's.
LEMMA CardsKeptByRequest ==
  ASSUME TypeOK, ShapeInv, GuardInv, CardsKept, NEW c \in Client, RequestStep(c)
  PROVE  GuardInv' /\ CardsKept'
<1>0. /\ vpp.gen \in Nat /\ vpp.devs \subseteq Port /\ history.blind \subseteq Port
      /\ driver \in [Port -> Driver]
  BY DEF TypeOK, Processes, Histories
<1>1. \A d \in Client \ {c} : req'[d] = req[d]
  BY OthersStay
<1>2. ASSUME UNCHANGED vpp, history'.blind = history.blind,
             req'[c].at # "release", req'[c].gen <= vpp.gen
      PROVE  GuardInv'
  BY <1>1, <1>2 DEF GuardInv
<1>3. ASSUME UNCHANGED <<vpp, driver>>, history'.blind = history.blind
      PROVE  CardsKept'
  BY <1>3 DEF CardsKept
<1>4. Idle.gen <= vpp.gen /\ Idle.at # "release"
  BY <1>0 DEF Idle
<1>5. req[c].gen <= vpp.gen
  BY DEF GuardInv
<1>6. CASE Restart(c) \/ WriteConf(c) \/ MarkApplied(c) \/ WaitHealthy(c) \/ Note(c)
  <2>1. UNCHANGED <<vpp, driver>> /\ history'.blind = history.blind
    BY <1>6, BlindStays DEF Restart, WriteConf, MarkApplied, WaitHealthy, Note
  <2>2. req'[c].at # "release" /\ req'[c].gen <= vpp.gen
    BY <1>0, <1>4, <1>5, <1>6, RestartMoves, BindingMoves DEF Goes
  <2> QED
    BY <1>2, <1>3, <2>1, <2>2
<1>7. CASE Systemctl(c)
  <2>1. history'.blind = history.blind /\ UNCHANGED driver
    BY <1>7, BlindStays DEF Systemctl
  <2>2. req'[c].at # "release" /\ req'[c].gen <= vpp.gen
    BY <1>4, <1>5, <1>7, RestartMoves DEF Goes
  <2>3. CASE UNCHANGED vpp
    BY <1>2, <1>3, <2>1, <2>2, <2>3
  <2>4. CASE Start(vpp.good)
    <3>1. vpp'.gen = vpp.gen + 1 /\ \A p \in vpp'.devs : p \in Port /\ driver[p] = "dpdk"
      BY <2>4, StartType DEF TypeOK, Processes
    <3>2. \A d \in Client : req'[d].gen <= vpp.gen
      BY <1>1, <2>2 DEF GuardInv
    <3>3. \A d \in Client : req'[d].gen \in Nat
      BY TypeStep, <1>7 DEF TypeOK, RequestStates, Next, Requests
    <3>4. GuardInv'
      <4>1. ASSUME NEW d \in Client PROVE req'[d].gen <= vpp'.gen /\ req'[d].gen # vpp'.gen
        BY <1>0, <3>1, <3>2, <3>3
      <4>2. \A d \in Client : req'[d].at = "release" /\ req'[d].op = "bind" => req'[d].from # "dpdk"
        BY <1>1, <2>2 DEF GuardInv
      <4> QED
        BY <4>1, <4>2 DEF GuardInv
    <3>5. CardsKept'
      BY <2>1, <3>1 DEF CardsKept
    <3> QED
      BY <3>4, <3>5
  <2> QED
    BY <1>7, <2>3, <2>4 DEF Systemctl
<1>8. ASSUME NEW p \in Port, NEW op \in {"bind", "unbind"}, NEW named \in BOOLEAN,
             SetDPDKBound(c, p, op, named)
      PROVE  GuardInv' /\ CardsKept'
  <2>1. /\ req'[c].op = op /\ req'[c].port = p /\ req'[c].gen = vpp.gen /\ req'[c].from = driver[p]
        /\ req'[c].at = IF op = "bind" /\ driver[p] = "dpdk" THEN "record"
                        ELSE IF driver[p] = "none" THEN "attach" ELSE "release"
    BY <1>8, BindingMoves
  <2>2. /\ UNCHANGED <<vpp, driver>>
        /\ history'.blind = IF op = "unbind" /\ ~Asked(p) THEN history.blind \cup {p} ELSE history.blind
    BY <1>8 DEF SetDPDKBound, TypeOK, Histories
  <2>3. op = "unbind" => p \notin vpp.devs \ history'.blind
    <3>1. CASE ~Asked(p)
      BY <2>2, <3>1
    <3>2. CASE Asked(p) /\ op = "unbind"
      <4>1. ~(vpp.up /\ p \in vpp.devs)
        BY <1>8, <3>2 DEF SetDPDKBound, InDataplane
      <4> QED
        BY <4>1 DEF TypeOK
    <3> QED
      BY <3>1, <3>2
  <2>4. GuardInv'
    <3>1. ASSUME NEW d \in Client, d # c
          PROVE  /\ req'[d].gen <= vpp'.gen
                 /\ req'[d].at = "release" =>
                      IF req'[d].op = "bind" THEN req'[d].from # "dpdk"
                      ELSE req'[d].gen = vpp'.gen => req'[d].port \notin vpp'.devs \ history'.blind
      BY <1>1, <2>2, <3>1 DEF GuardInv
    <3>2. /\ req'[c].gen <= vpp'.gen
          /\ req'[c].at = "release" =>
               IF req'[c].op = "bind" THEN req'[c].from # "dpdk"
               ELSE req'[c].gen = vpp'.gen => req'[c].port \notin vpp'.devs \ history'.blind
      BY <1>0, <2>1, <2>2, <2>3
    <3> QED
      BY <3>1, <3>2 DEF GuardInv
  <2>5. CardsKept'
    BY <2>2 DEF CardsKept
  <2> QED
    BY <2>4, <2>5
<1>9. CASE Refused(c)
  BY <1>9, BlindStays DEF Refused, GuardInv, CardsKept
<1>10. CASE Release(c)
  <2>1. UNCHANGED vpp /\ req'[c].at # "release" /\ req'[c].gen <= vpp.gen
    BY <1>4, <1>5, <1>10, BindingMoves DEF Goes, Release
  <2>2. /\ req[c].at = "release" /\ req[c].port \in Port
        /\ req[c].op = "bind" \/ req[c].op = "unbind"
    BY <1>10, TypesOfParts DEF Release, ShapeInv, Restarting, Binding
  <2>3. CASE UNCHANGED driver /\ history'.blind = history.blind
    BY <1>2, <1>3, <2>1, <2>3
  <2>4. CASE /\ driver[req[c].port] = req[c].from
             /\ driver' = [driver EXCEPT ![req[c].port] = "none"]
             /\ history' = [history EXCEPT !.blind = IF req[c].op = "unbind" /\ req[c].gen # vpp.gen
                                                     THEN @ \cup {req[c].port} ELSE @]
    <3>1. history'.blind = IF req[c].op = "unbind" /\ req[c].gen # vpp.gen
                           THEN history.blind \cup {req[c].port} ELSE history.blind
      BY <2>4 DEF TypeOK, Histories
    <3>2. \A d \in Client : req'[d].gen <= vpp'.gen
      BY <1>1, <2>1 DEF GuardInv
    <3>3. ASSUME NEW d \in Client, req'[d].at = "release"
          PROVE  IF req'[d].op = "bind" THEN req'[d].from # "dpdk"
                 ELSE req'[d].gen = vpp'.gen => req'[d].port \notin vpp'.devs \ history'.blind
      <4>1. d # c /\ req'[d] = req[d]
        BY <1>1, <2>1, <3>3
      <4> QED
        BY <2>1, <3>1, <3>3, <4>1 DEF GuardInv
    <3>4. GuardInv'
      BY <3>2, <3>3 DEF GuardInv
    <3>5. req[c].port \in vpp.devs => req[c].port \in history'.blind
      <4>1. CASE req[c].op = "bind"
        BY <2>2, <2>4, <3>1, <4>1 DEF GuardInv, CardsKept
      <4>2. CASE req[c].op = "unbind"
        BY <2>2, <3>1, <4>2 DEF GuardInv
      <4> QED
        BY <2>2, <4>1, <4>2
    <3>6. CardsKept'
      BY <1>0, <2>1, <2>4, <3>1, <3>5 DEF CardsKept
    <3> QED
      BY <3>4, <3>6
  <2> QED
    <3>1. Fault => history'.blind = history.blind
      BY DEF Fault, TypeOK, Histories
    <3> QED
      BY <1>10, <2>3, <2>4, <3>1 DEF Release, GiveUp, Quiet
<1>11. CASE Attach(c)
  <2>1. UNCHANGED vpp /\ history'.blind = history.blind
    BY <1>11, BlindStays DEF Attach
  <2>2. req'[c].at # "release" /\ req'[c].gen <= vpp.gen
    BY <1>4, <1>5, <1>11, BindingMoves DEF Goes
  <2>3. CASE UNCHANGED driver
    BY <1>2, <1>3, <2>1, <2>2, <2>3
  <2>4. CASE driver[req[c].port] = "none" /\ driver' = Attached(c)
    BY <1>0, <1>2, <2>1, <2>2, <2>4 DEF CardsKept, Attached
  <2> QED
    BY <1>11, <2>3, <2>4 DEF Attach, GiveUp
<1> QED
  BY <1>6, <1>7, <1>8, <1>9, <1>10, <1>11 DEF RequestStep

LEMMA CardsKeptElsewhere ==
  ASSUME TypeOK, GuardInv, CardsKept, Elsewhere
  PROVE  GuardInv' /\ CardsKept'
<1>0. /\ vpp.gen \in Nat /\ vpp.devs \subseteq Port /\ Idle.gen = 0 /\ Idle.at # "release"
      /\ history'.blind = history.blind
  BY TypesOfParts, BlindStaysElsewhere DEF TypeOK, Processes
<1>1. CASE VppRestart
  <2>1. PICK good \in BOOLEAN : Start(good)
    BY <1>1 DEF VppRestart
  <2>2. vpp'.gen = vpp.gen + 1 /\ \A p \in vpp'.devs : p \in Port /\ driver[p] = "dpdk"
    BY <2>1, StartType
  <2>3. UNCHANGED <<req, driver>>
    BY <1>1 DEF VppRestart
  <2>4. \A d \in Client : req[d].gen \in Nat /\ req[d].gen <= vpp.gen
    BY DEF TypeOK, RequestStates, GuardInv
  <2>5. \A d \in Client : req'[d].gen <= vpp'.gen /\ req'[d].gen # vpp'.gen
    BY <1>0, <2>2, <2>3, <2>4
  <2>6. GuardInv'
    BY <2>3, <2>5 DEF GuardInv
  <2>7. CardsKept'
    BY <2>2, <2>3 DEF CardsKept
  <2> QED
    BY <2>6, <2>7
<1>2. CASE ~VppRestart
  <2>1. UNCHANGED <<vpp, driver>>
    BY <1>2 DEF Elsewhere, Manager, Recovery, ConnectOnce, Watch, RecoveryBegin, RecoveryVoid, RecoveryEnd,
                Disconnect, Commit, PoolChanges, Damage, DaemonRestart, vars
  <2>2. UNCHANGED req \/ \A d \in Client : req'[d] = Idle
    BY ElsewhereStays
  <2> QED
    BY <1>0, <2>1, <2>2 DEF GuardInv, CardsKept
<1> QED
  BY <1>1, <1>2

-----------------------------------------------------------------------------
(* What a step does to the history *)

LEMMA HistoryFieldsOf ==
  ASSUME TypeOK, NEW b \in BOOLEAN
  PROVE  /\ history' = [history EXCEPT !.overlap = b] =>
              /\ history'.overlap = b /\ history'.fault = history.fault /\ history'.cut = history.cut
              /\ history'.marked = history.marked /\ history'.drained = history.drained
              /\ history'.unnamed = history.unnamed
         /\ history' = [history EXCEPT !.drained = b] =>
              /\ history'.drained = b /\ history'.fault = history.fault /\ history'.cut = history.cut
              /\ history'.marked = history.marked /\ history'.overlap = history.overlap
              /\ history'.unnamed = history.unnamed
BY DEF TypeOK, Histories

LEMMA HistoryByRequest ==
  ASSUME TypeOK, NEW c \in Client, RequestStep(c)
  PROVE  /\ history'.drained = history.drained
         /\ history.fault => history'.fault
         /\ history.cut => history'.cut
         /\ history.unnamed \subseteq history'.unnamed
         /\ ~Restart(c) => history'.overlap = history.overlap
         /\ Restart(c) => (~history'.overlap => ~history.overlap /\ \A d \in Client : ~Restarting(d))
         /\ ~MarkApplied(c) => history'.marked = history.marked
<1>1. CASE Restart(c)
  <2>1. PICK b \in BOOLEAN : b = (history.overlap \/ \E d \in Client : Restarting(d))
    OBVIOUS
  <2>2. history' = [history EXCEPT !.overlap = b]
    BY <1>1, <2>1 DEF Restart, Restarting
  <2>3. /\ history'.overlap = b /\ history'.fault = history.fault /\ history'.cut = history.cut
        /\ history'.marked = history.marked /\ history'.drained = history.drained
        /\ history'.unnamed = history.unnamed
    BY <2>2, HistoryFieldsOf
  <2> QED
    BY <1>1, <2>1, <2>3
<1>2. CASE ~Restart(c) /\ MarkApplied(c)
  <2>1. history' = [history EXCEPT !.marked = TRUE]
    BY <1>2 DEF MarkApplied
  <2> QED
    BY <1>2, <2>1 DEF TypeOK, Histories
<1>3. CASE ~Restart(c) /\ ~MarkApplied(c)
  <2>1. CASE history' = history
    BY <1>3, <2>1
  <2>2. CASE history' = [history EXCEPT !.fault = TRUE]
    BY <1>3, <2>2 DEF TypeOK, Histories
  <2>3. ASSUME NEW p \in Port, NEW op \in {"bind", "unbind"}, NEW named \in BOOLEAN,
               SetDPDKBound(c, p, op, named)
        PROVE  /\ history'.drained = history.drained /\ history'.fault = history.fault
               /\ history.cut => history'.cut
               /\ history.unnamed \subseteq history'.unnamed
               /\ history'.overlap = history.overlap /\ history'.marked = history.marked
    BY <2>3 DEF SetDPDKBound, TypeOK, Histories
  <2>4. ASSUME NEW S, history' = [history EXCEPT !.blind = S]
        PROVE  /\ history'.drained = history.drained /\ history'.fault = history.fault
               /\ history'.cut = history.cut /\ history'.unnamed = history.unnamed
               /\ history'.overlap = history.overlap /\ history'.marked = history.marked
    BY <2>4 DEF TypeOK, Histories
  <2>5. CASE Release(c)
    <3>1. \/ history' = [history EXCEPT !.blind = IF req[c].op = "unbind" /\ req[c].gen # vpp.gen
                                                  THEN history.blind \cup {req[c].port}
                                                  ELSE history.blind]
          \/ history' = history \/ history' = [history EXCEPT !.fault = TRUE]
      BY <2>5 DEF Release, Fault, Quiet
    <3> QED
      BY <1>3, <2>1, <2>2, <2>4, <3>1
  <2>6. CASE WriteConf(c) \/ Systemctl(c) \/ WaitHealthy(c) \/ Refused(c) \/ Attach(c) \/ Note(c)
    BY <2>1, <2>2, <2>6 DEF WriteConf, Systemctl, WaitHealthy, Refused, Attach, Note, Fault, Quiet
  <2> QED
    BY <1>3, <2>3, <2>5, <2>6 DEF RequestStep
<1> QED
  BY <1>1, <1>2, <1>3

LEMMA HistoryElsewhere ==
  ASSUME TypeOK, Elsewhere
  PROVE  /\ history.fault => history'.fault
         /\ history'.unnamed = history.unnamed
         /\ history.overlap => history'.overlap
         /\ history.cut => history'.cut
         /\ DaemonRestart => ~history'.marked
         /\ DaemonRestart /\ ~history'.cut => \A d \in Client : req[d].op = "idle"
         /\ history'.marked => history.marked
         /\ history.drained => history'.drained
         /\ pool' # pool /\ ~history'.drained => \A d \in Client : ~Restarting(d)
<1>1. CASE DaemonRestart
  <2>1. PICK a \in BOOLEAN, b \in BOOLEAN :
          /\ a = (history.cut \/ \E d \in Client : req[d].op # "idle")
          /\ b = (history.overlap \/ \E d \in Client : req[d].op = "restart")
    OBVIOUS
  <2>2. history' = [history EXCEPT !.marked = FALSE, !.cut = a, !.overlap = b] /\ pool' = pool
    BY <1>1, <2>1 DEF DaemonRestart
  <2>3. /\ history'.overlap = b /\ history'.cut = a /\ history'.marked = FALSE
        /\ history'.fault = history.fault /\ history'.drained = history.drained
        /\ history'.unnamed = history.unnamed
    BY <2>2 DEF TypeOK, Histories
  <2> QED
    BY <1>1, <2>1, <2>2, <2>3
<1>2. CASE ~DaemonRestart /\ PoolChanges
  <2>1. PICK b \in BOOLEAN : b = (history.drained \/ \E d \in Client : Restarting(d))
    OBVIOUS
  <2>2. history' = [history EXCEPT !.drained = b]
    BY <1>2, <2>1 DEF PoolChanges, Restarting
  <2>3. /\ history'.drained = b /\ history'.fault = history.fault /\ history'.cut = history.cut
        /\ history'.marked = history.marked /\ history'.overlap = history.overlap
        /\ history'.unnamed = history.unnamed
    BY <2>2, HistoryFieldsOf
  <2> QED
    BY <1>2, <2>1, <2>3
<1>3. CASE ~DaemonRestart /\ ~PoolChanges
  <2>1. /\ pool' = pool
        /\ UNCHANGED history \/ history' = [history EXCEPT !.fault = TRUE]
    BY <1>3 DEF Elsewhere, Manager, Recovery, ConnectOnce, Watch, RecoveryBegin, RecoveryVoid, RecoveryEnd,
                Disconnect, Commit, VppRestart, Damage, vars, Fault, Quiet
  <2>2. /\ history.fault => history'.fault
        /\ history'.unnamed = history.unnamed /\ history'.overlap = history.overlap
        /\ history'.cut = history.cut /\ history'.marked = history.marked
        /\ history'.drained = history.drained
    BY <2>1 DEF TypeOK, Histories
  <2> QED
    BY <1>3, <2>1, <2>2
<1> QED
  BY <1>1, <1>2, <1>3

-----------------------------------------------------------------------------
(* The file and the section applied *)

\* Restarts that do not overlap leave the file that they wrote, applied at the end.
LEMMA RestartByRequest ==
  ASSUME TypeOK, ShapeInv, RestartInv, MarkedInv, NEW c \in Client, RequestStep(c)
  PROVE  RestartInv' /\ MarkedInv'
<1>0. \A d \in Client \ {c} : req'[d] = req[d]
  BY OthersStay
<1>1. /\ history'.drained = history.drained
      /\ history.fault => history'.fault
      /\ ~Restart(c) => history'.overlap = history.overlap
      /\ Restart(c) => (~history'.overlap => ~history.overlap /\ \A d \in Client : ~Restarting(d))
      /\ ~MarkApplied(c) => history'.marked = history.marked
  BY HistoryByRequest
<1>2. pool' = pool
  BY DEF RequestStep, Restart, WriteConf, Systemctl, MarkApplied, WaitHealthy, SetDPDKBound, Refused,
         Release, Attach, Note
<1>3. Idle.op = "idle" /\ Idle.at = ""
  BY TypesOfParts
<1>4. CASE Restart(c)
  <2>1. /\ req'[c].op = "restart" /\ req'[c].at = "write" /\ req'[c].cfg = committed
        /\ UNCHANGED <<conf, mgr>> /\ req[c] = Idle /\ (committed.huge => pool)
    BY <1>4, RestartMoves DEF Restart, Precheck
  <2>2. ~history'.overlap => ~history.overlap /\ \A d \in Client : ~Restarting(d)
    BY <1>1, <1>4
  <2>3. RestartInv'
    <3>1. ASSUME NEW d \in Client, Restarting(d)', req'[d].at \in {"write", "systemctl"}, req'[d].cfg.huge
          PROVE  (pool \/ history.drained)'
      BY <1>0, <1>1, <1>2, <2>1, <3>1 DEF RestartInv, Restarting
    <3>2. ASSUME ~history'.overlap, NEW d \in Client, Restarting(d)'
          PROVE  /\ \A e \in Client : Restarting(e)' => e = d
                 /\ req'[d].at # "write" => conf' = req'[d].cfg
      BY <1>0, <2>1, <2>2, <3>2 DEF Restarting
    <3> QED
      BY <3>1, <3>2 DEF RestartInv
  <2>4. MarkedInv'
    <3>1. history'.marked = history.marked
      BY <1>1, <1>4 DEF Restart, MarkApplied, Idle, TypeOK, Histories
    <3>2. (\A d \in Client : req'[d].at \notin {"systemctl", "applied"}) =>
            (\A d \in Client : req[d].at \notin {"systemctl", "applied"})
      BY <1>0, <1>3, <2>1
    <3> QED
      BY <1>1, <2>1, <2>2, <3>1, <3>2 DEF MarkedInv
  <2> QED
    BY <2>3, <2>4
<1>5. CASE WriteConf(c)
  <2>1. Goes(c, "write", "systemctl") /\ conf' = req[c].cfg /\ UNCHANGED <<mgr, history>>
    BY <1>5, RestartMoves DEF WriteConf, Quiet
  <2>2. Restarting(c)
    BY <1>3, <2>1 DEF ShapeInv, Goes
  <2>3. RestartInv'
    <3>1. ASSUME NEW d \in Client, Restarting(d)', req'[d].at \in {"write", "systemctl"}, req'[d].cfg.huge
          PROVE  (pool \/ history.drained)'
      BY <1>0, <1>1, <1>2, <2>1, <2>2, <3>1 DEF RestartInv, Restarting, Goes
    <3>2. ASSUME ~history'.overlap, NEW d \in Client, Restarting(d)'
          PROVE  /\ \A e \in Client : Restarting(e)' => e = d
                 /\ req'[d].at # "write" => conf' = req'[d].cfg
      <4>1. ~history.overlap
        BY <2>1, <3>2
      <4>2. \A e \in Client : Restarting(e)' => e = c
        BY <1>0, <2>2, <4>1 DEF RestartInv, Restarting
      <4> QED
        BY <2>1, <3>2, <4>2 DEF Goes
    <3> QED
      BY <3>1, <3>2 DEF RestartInv
  <2>4. MarkedInv'
    <3>1. req'[c].at = "systemctl"
      BY <2>1 DEF Goes
    <3> QED
      BY <2>1, <3>1 DEF MarkedInv
  <2> QED
    BY <2>3, <2>4
<1>6. CASE Systemctl(c)
  <2>1. /\ Goes(c, "systemctl", "applied") \/ (req'[c] = Idle /\ history'.fault)
        /\ UNCHANGED <<conf, mgr>>
    <3>1. \/ req' = [req EXCEPT ![c].at = "applied"]
          \/ (req' = [req EXCEPT ![c] = Idle] /\ history' = [history EXCEPT !.fault = TRUE])
      BY <1>6 DEF Systemctl, Fault
    <3>2. history' = [history EXCEPT !.fault = TRUE] => history'.fault
      BY DEF TypeOK, Histories
    <3>3. req[c].at = "systemctl"
      BY <1>6 DEF Systemctl
    <3> QED
      BY <1>6, <3>1, <3>2, <3>3, NextAt, EndsAt DEF Systemctl
  <2>2. history'.overlap = history.overlap /\ history'.marked = history.marked
    BY <1>6 DEF TypeOK, Histories, Systemctl, Fault, Quiet
  <2>3. /\ req'[c].op = "restart" => Restarting(c) /\ req'[c].cfg = req[c].cfg /\ req[c].at # "write"
        /\ req'[c].at \notin {"write", "systemctl"}
    BY <1>3, <2>1 DEF Goes, Restarting
  <2>4. RestartInv'
    <3>1. ASSUME NEW d \in Client, Restarting(d)', req'[d].at \in {"write", "systemctl"}, req'[d].cfg.huge
          PROVE  (pool \/ history.drained)'
      BY <1>0, <1>1, <1>2, <2>3, <3>1 DEF RestartInv, Restarting
    <3>2. ASSUME ~history'.overlap, NEW d \in Client, Restarting(d)'
          PROVE  /\ \A e \in Client : Restarting(e)' => e = d
                 /\ req'[d].at # "write" => conf' = req'[d].cfg
      <4>1. ~history.overlap /\ \A e \in Client : Restarting(e)' => Restarting(e)
        BY <1>0, <2>2, <2>3, <3>2 DEF Restarting
      <4>2. \A e \in Client : Restarting(e)' => e = d
        BY <3>2, <4>1 DEF RestartInv
      <4>3. req'[d].at # "write" => conf' = req'[d].cfg
        BY <1>0, <2>1, <2>3, <3>2, <4>1 DEF RestartInv, Restarting
      <4> QED
        BY <4>2, <4>3
    <3> QED
      BY <3>1, <3>2 DEF RestartInv
  <2>5. MarkedInv'
    <3>1. req'[c].at = "applied" \/ history'.fault
      BY <2>1 DEF Goes
    <3> QED
      BY <2>1, <2>2, <3>1 DEF MarkedInv
  <2> QED
    BY <2>4, <2>5
<1>7. CASE MarkApplied(c)
  <2>1. Goes(c, "applied", "wait") /\ UNCHANGED conf /\ mgr' = [mgr EXCEPT !.applied = req[c].cfg]
    BY <1>7, RestartMoves DEF MarkApplied, SetApplied
  <2>2. Restarting(c) /\ req[c].cfg \in Cfg
    BY <1>3, <2>1 DEF ShapeInv, Goes
  <2>3. history'.overlap = history.overlap
    BY <1>7 DEF MarkApplied, TypeOK, Histories
  <2>4. RestartInv'
    <3>1. ASSUME NEW d \in Client, Restarting(d)', req'[d].at \in {"write", "systemctl"}, req'[d].cfg.huge
          PROVE  (pool \/ history.drained)'
      BY <1>0, <1>1, <1>2, <2>1, <3>1 DEF RestartInv, Restarting, Goes
    <3>2. ASSUME ~history'.overlap, NEW d \in Client, Restarting(d)'
          PROVE  /\ \A e \in Client : Restarting(e)' => e = d
                 /\ req'[d].at # "write" => conf' = req'[d].cfg
      <4>1. ~history.overlap /\ \A e \in Client : Restarting(e)' => Restarting(e)
        BY <1>0, <2>2, <2>3, <3>2 DEF Restarting
      <4>2. d = c
        BY <2>2, <3>2, <4>1 DEF RestartInv
      <4>3. conf = req[c].cfg
        BY <2>1, <2>2, <4>1 DEF RestartInv, Goes
      <4>4. \A e \in Client : Restarting(e)' => e = d
        BY <3>2, <4>1 DEF RestartInv
      <4> QED
        BY <2>1, <4>2, <4>3, <4>4 DEF Goes
    <3> QED
      BY <3>1, <3>2 DEF RestartInv
  <2>5. MarkedInv'
    <3>1. mgr'.applied = req[c].cfg
      BY <2>1 DEF TypeOK
    <3>2. mgr'.applied # None
      BY <2>2, <3>1, DataPlaneAssumption
    <3>3. ~history'.overlap => conf' = mgr'.applied
      BY <2>1, <2>2, <2>3, <3>1 DEF RestartInv, Goes
    <3> QED
      BY <3>2, <3>3 DEF MarkedInv
  <2> QED
    BY <2>4, <2>5
<1>8. CASE /\ ~Restart(c) /\ ~WriteConf(c) /\ ~Systemctl(c) /\ ~MarkApplied(c)
  <2>1. UNCHANGED <<conf, mgr>>
    BY <1>8 DEF RequestStep, WaitHealthy, SetDPDKBound, Refused, Release, Attach, Note
  <2>2. /\ req'[c].op # "restart" \/ req'[c] = req[c]
        /\ req'[c].at \notin {"systemctl", "applied"} \/ req'[c] = req[c]
        /\ req[c].at \notin {"systemctl", "applied"} \/ req'[c] = req[c]
    <3>1. CASE WaitHealthy(c)
      BY <1>3, <3>1, RestartMoves DEF WaitHealthy
    <3>2. ASSUME NEW p \in Port, NEW op \in {"bind", "unbind"}, NEW named \in BOOLEAN,
                 SetDPDKBound(c, p, op, named)
          PROVE  /\ req'[c].op # "restart" /\ req'[c].at \notin {"systemctl", "applied"}
                 /\ req[c].at \notin {"systemctl", "applied"}
      <4>1. req[c] = Idle
        BY <3>2 DEF SetDPDKBound
      <4> QED
        BY <1>3, <3>2, <4>1, BindingMoves
    <3>3. CASE Refused(c)
      BY <3>3, BindingMoves
    <3>4. CASE Release(c)
      <4>1. req[c].at = "release" /\ req[c].op # "restart"
        BY <1>3, <3>4 DEF Release, ShapeInv, Restarting, Binding
      <4> QED
        BY <1>3, <3>4, <4>1, BindingMoves DEF Goes
    <3>5. CASE Attach(c)
      <4>1. req[c].at = "attach" /\ req[c].op # "restart"
        BY <1>3, <3>5 DEF Attach, ShapeInv, Restarting, Binding
      <4> QED
        BY <1>3, <3>5, <4>1, BindingMoves DEF Goes
    <3>6. CASE Note(c)
      BY <1>3, <3>6, BindingMoves DEF Note
    <3> QED
      BY <1>8, <3>1, <3>2, <3>3, <3>4, <3>5, <3>6 DEF RequestStep
  <2>3. \A d \in Client : Restarting(d)' => Restarting(d) /\ req'[d] = req[d]
    BY <1>0, <2>2 DEF Restarting
  <2>4. history'.overlap = history.overlap /\ history'.marked = history.marked
    BY <1>1, <1>8
  <2>5. RestartInv'
    BY <1>1, <1>2, <2>1, <2>3, <2>4 DEF RestartInv
  <2>6. MarkedInv'
    <3>1. (\A d \in Client : req'[d].at \notin {"systemctl", "applied"}) =>
            (\A d \in Client : req[d].at \notin {"systemctl", "applied"})
      BY <1>0, <2>2
    <3> QED
      BY <1>1, <2>1, <2>4, <3>1 DEF MarkedInv
  <2> QED
    BY <2>5, <2>6
<1> QED
  BY <1>4, <1>5, <1>6, <1>7, <1>8

LEMMA RestartElsewhere ==
  ASSUME TypeOK, ShapeInv, RestartInv, MarkedInv, Elsewhere
  PROVE  RestartInv' /\ MarkedInv'
<1>0. Idle.op = "idle" /\ Idle.at = ""
  BY TypesOfParts
<1>1. /\ history.fault => history'.fault
      /\ history.overlap => history'.overlap
      /\ DaemonRestart => ~history'.marked
      /\ history'.marked => history.marked
      /\ history.drained => history'.drained
      /\ pool' # pool /\ ~history'.drained => \A d \in Client : ~Restarting(d)
  BY HistoryElsewhere
<1>2. CASE DaemonRestart
  <2>1. \A d \in Client : req'[d] = Idle
    BY <1>2, ElsewhereStays
  <2> QED
    BY <1>0, <1>1, <1>2, <2>1 DEF RestartInv, MarkedInv, Restarting
<1>3. CASE ~DaemonRestart
  <2>1. UNCHANGED req
    BY <1>3, ElsewhereStays
  <2>2. conf' = conf /\ mgr'.applied = mgr.applied
    BY <1>3 DEF Elsewhere, Manager, Recovery, ConnectOnce, Watch, RecoveryBegin, RecoveryVoid, RecoveryEnd,
                Disconnect, Commit, VppRestart, PoolChanges, Damage, vars, TypeOK
  <2>3. RestartInv'
    BY <1>1, <1>3, <2>1, <2>2 DEF RestartInv, Restarting
  <2>4. MarkedInv'
    BY <1>1, <1>3, <2>1, <2>2 DEF MarkedInv
  <2> QED
    BY <2>3, <2>4
<1> QED
  BY <1>2, <1>3

-----------------------------------------------------------------------------
(* The cards that DPDK has are recorded *)

\* Without faults the record in memory is the one on disk, and only a request that ends
\* changes it.
LEMMA RecordByRequest ==
  ASSUME TypeOK, ShapeInv, RecordInv, NEW c \in Client, RequestStep(c), ~history'.fault
  PROVE  /\ RecordInv' /\ record.file \in SUBSET Port
         /\ ~Note(c) => record'.file = record.file
         /\ Note(c) => record'.file = IF req[c].op = "unbind" THEN record.file \ {req[c].port}
                                      ELSE IF req[c].named THEN record.file \cup {req[c].port}
                                      ELSE record.file
<1>1. ~history.fault
  BY HistoryByRequest
<1>2. /\ record \in Records /\ (~record.loaded => record.map = {})
      /\ record.file # None /\ (record.loaded => record.map = record.file)
  BY <1>1 DEF TypeOK, RecordInv
<1>3. record.file \in SUBSET Port
  BY <1>2 DEF Records
<1>4. /\ Loaded(record).loaded /\ Loaded(record).file = record.file /\ Loaded(record).map = record.file
  BY <1>2, <1>3, RecordType
<1>5. ASSUME NEW cards
      PROVE  /\ Consulted(cards).file = record.file
             /\ Consulted(cards).loaded => Consulted(cards).map = record.file
  BY <1>4, ConsultedType
<1>6. CASE Note(c)
  <2> DEFINE had == Loaded(record).map
             map == IF req[c].op = "unbind" THEN had \ {req[c].port}
                    ELSE IF req[c].named THEN had \cup {req[c].port} ELSE had
  <2>1. req[c].port \in Port
    BY <1>6, TypesOfParts DEF Note, ShapeInv
  <2>2. map \in SUBSET Port /\ map # None
    BY <1>3, <1>4, <2>1, DataPlaneAssumption
  <2>3. ~LoadFails(record)
    BY <1>2 DEF LoadFails
  <2>4. Fault => history'.fault
    BY DEF Fault, TypeOK, Histories
  <2>5. record' = Record(record, map)
    BY <1>6, <2>3, <2>4 DEF Note
  <2> HIDE DEF map
  <2>6. record'.file = map /\ record'.map = map
    BY <1>2, <1>4, <2>2, <2>5, RecordType
  <2>7. RecordInv'
    BY <2>2, <2>6 DEF RecordInv
  <2> QED
    BY <1>3, <1>4, <1>6, <2>6, <2>7 DEF map
<1>7. CASE ~Note(c)
  <2>1. record' = record \/ record' = Loaded(record) \/ \E cards : record' = Consulted(cards)
    BY <1>7 DEF RequestStep, Restart, WriteConf, Systemctl, MarkApplied, WaitHealthy, SetDPDKBound,
               Refused, Release, Attach
  <2>2. record'.file = record.file /\ (record'.loaded => record'.map = record.file)
    BY <1>2, <1>4, <1>5, <2>1
  <2> QED
    BY <1>2, <1>3, <1>7, <2>2 DEF RecordInv
<1> QED
  BY <1>6, <1>7

LEMMA RecordElsewhere ==
  ASSUME TypeOK, RecordInv, Elsewhere, ~history'.fault
  PROVE  /\ RecordInv' /\ record.file \in SUBSET Port
         /\ record'.file \in SUBSET Port /\ record.file \subseteq record'.file
<1>1. ~history.fault
  BY HistoryElsewhere
<1>2. /\ record \in Records /\ (~record.loaded => record.map = {})
      /\ record.file # None /\ (record.loaded => record.map = record.file)
  BY <1>1 DEF TypeOK, RecordInv
<1>3. record.file \in SUBSET Port
  BY <1>2 DEF Records
<1>4. CASE DaemonRestart
  <2>1. /\ record'.loaded = (conf.devs # {})
        /\ record'.map = IF conf.devs = {} THEN {} ELSE record.file \cup conf.devs
        /\ record'.file = IF conf.devs \subseteq record.file THEN record.file
                          ELSE record.file \cup conf.devs
    <3> DEFINE want(m) == conf.devs \ m
    <3>1. record' \in {[loaded |-> conf.devs # {},
                        map |-> IF conf.devs = {} THEN {} ELSE record.file \cup want(m),
                        file |-> IF want(m) \subseteq record.file THEN record.file
                                 ELSE record.file \cup want(m)] : m \in {{}}}
      BY <1>2, <1>4 DEF DaemonRestart, Imported
    <3>2. want({}) = conf.devs
      OBVIOUS
    <3> HIDE DEF want
    <3> QED
      BY <3>1, <3>2
  <2>2. conf.devs \in SUBSET Port
    BY DataPlaneAssumption DEF TypeOK, Section
  <2>3. record'.file \in SUBSET Port /\ record.file \subseteq record'.file
    BY <1>3, <2>1, <2>2
  <2>4. record'.loaded => record'.map = record'.file
    BY <2>1
  <2> QED
    BY <1>3, <2>3, <2>4, DataPlaneAssumption DEF RecordInv
<1>5. CASE ~DaemonRestart
  <2>1. Fault => history'.fault
    BY DEF Fault, TypeOK, Histories
  <2>2. record' = record
    BY <1>5, <2>1 DEF Elsewhere, Manager, Recovery, ConnectOnce, Watch, RecoveryBegin, RecoveryVoid, RecoveryEnd,
                Disconnect, Commit, VppRestart, PoolChanges, Damage, vars
  <2> QED
    BY <1>2, <1>3, <2>2 DEF RecordInv
<1> QED
  BY <1>4, <1>5

LEMMA RecordStep ==
  ASSUME TypeOK, ShapeInv, RecordInv, [Next]_vars
  PROVE  RecordInv'
<1>1. CASE history'.fault
  BY <1>1 DEF RecordInv
<1>2. CASE ~history'.fault
  BY <1>2, Steps, RecordByRequest, RecordElsewhere
<1> QED
  BY <1>1, <1>2

LEMMA NamedStep ==
  ASSUME TypeOK, ShapeInv, NamedInv, [Next]_vars
  PROVE  NamedInv'
<1>0. Idle.op = "idle"
  BY TypesOfParts
<1>1. ASSUME NEW c \in Client, RequestStep(c) PROVE NamedInv'
  <2>1. /\ \A d \in Client \ {c} : req'[d] = req[d]
        /\ history.unnamed \subseteq history'.unnamed
    BY <1>1, OthersStay, HistoryByRequest
  <2>2. req'[c].op = "bind" /\ ~req'[c].named => req'[c].port \in history'.unnamed
    <3>1. ASSUME NEW p \in Port, NEW op \in {"bind", "unbind"}, NEW named \in BOOLEAN,
                 SetDPDKBound(c, p, op, named)
          PROVE  req'[c].op = "bind" /\ ~req'[c].named => req'[c].port \in history'.unnamed
      <4>1. req'[c].op = op /\ req'[c].port = p /\ req'[c].named = named
        BY <3>1, BindingMoves
      <4>2. history'.unnamed = IF op = "bind" /\ ~named THEN history.unnamed \cup {p} ELSE history.unnamed
        BY <3>1 DEF SetDPDKBound, TypeOK, Histories
      <4> QED
        BY <4>1, <4>2
    <3>2. CASE \E p \in Port, op \in {"bind", "unbind"}, named \in BOOLEAN : SetDPDKBound(c, p, op, named)
      BY <3>1, <3>2
    <3>3. CASE \/ Restart(c) \/ WriteConf(c) \/ Systemctl(c) \/ MarkApplied(c) \/ WaitHealthy(c)
               \/ Refused(c) \/ Release(c) \/ Attach(c) \/ Note(c)
      <4>1. \/ req'[c].op # "bind"
            \/ /\ req'[c].op = req[c].op /\ req'[c].named = req[c].named /\ req'[c].port = req[c].port
        BY <1>0, <3>3, RestartMoves, BindingMoves DEF Goes
      <4> QED
        BY <2>1, <4>1 DEF NamedInv
    <3> QED
      BY <1>1, <3>2, <3>3 DEF RequestStep
  <2> QED
    BY <2>1, <2>2 DEF NamedInv
<1>2. CASE Elsewhere
  BY <1>0, <1>2, ElsewhereStays, HistoryElsewhere DEF NamedInv
<1> QED
  BY <1>1, <1>2, Steps

\* While requests for a card do not overlap, each finds the card as its last step left it.
LEMMA CardByRequest ==
  ASSUME TypeOK, ShapeInv, CardInv, NEW c \in Client, RequestStep(c)
  PROVE  CardInv'
<1> SUFFICES ASSUME ~history'.cut PROVE CardInv'
  BY DEF CardInv
<1>0. /\ Idle.op = "idle" /\ Idle.port = None /\ None \notin Port
      /\ driver \in [Port -> Driver] /\ ~history.cut
  BY TypesOfParts, HistoryByRequest, DataPlaneAssumption DEF TypeOK
<1>1. \A d \in Client \ {c} : req'[d] = req[d]
  BY OthersStay
<1>2. \A d \in Client : Binding(d) => req[d].port \in Port
  BY <1>0 DEF ShapeInv, Binding, Restarting
\* A step that ends the request or is not about a card.
<1>3. ASSUME UNCHANGED driver, req'[c].port = None, req'[c].op \notin {"bind", "unbind"}
      PROVE  CardInv'
  BY <1>0, <1>1, <1>2, <1>3 DEF CardInv, Binding
\* The next step of a request about a card.
<1>4. ASSUME Binding(c), Binding(c)', req'[c].port = req[c].port,
             \A p \in Port \ {req[c].port} : driver'[p] = driver[p],
             req'[c].at # "release",
             req'[c].at = "attach" => driver'[req[c].port] = "none",
             req'[c].at = "record" => (driver'[req[c].port] = "dpdk" <=> req'[c].op = "bind")
      PROVE  CardInv'
  <2>1. \A d \in Client \ {c} : req[d].port # req[c].port
    BY <1>0, <1>4 DEF CardInv
  <2>2. ASSUME NEW d \in Client, d # c, Binding(d)'
        PROVE  /\ \A e \in Client \ {d} : req'[e].port # req'[d].port
               /\ req'[d].at = "release" => driver'[req'[d].port] = req'[d].from
               /\ req'[d].at = "attach" => driver'[req'[d].port] = "none"
               /\ req'[d].at = "record" => (driver'[req'[d].port] = "dpdk" <=> req'[d].op = "bind")
    <3>1. req'[d] = req[d] /\ Binding(d) /\ req[d].port \in Port \ {req[c].port}
      BY <1>1, <1>2, <2>1, <2>2 DEF Binding
    <3>2. driver'[req[d].port] = driver[req[d].port]
      BY <1>4, <3>1
    <3>3. /\ \A e \in Client \ {d} : req[e].port # req[d].port
          /\ req[d].at = "release" => driver[req[d].port] = req[d].from
          /\ req[d].at = "attach" => driver[req[d].port] = "none"
          /\ req[d].at = "record" => (driver[req[d].port] = "dpdk" <=> req[d].op = "bind")
      BY <1>0, <3>1 DEF CardInv
    <3>4. \A e \in Client \ {d} : req'[e].port # req[d].port
      BY <1>1, <1>4, <2>1, <3>1, <3>3
    <3> QED
      BY <3>1, <3>2, <3>3, <3>4
  <2>3. \A e \in Client \ {c} : req'[e].port # req'[c].port
    BY <1>1, <1>4, <2>1
  <2> QED
    BY <1>4, <2>2, <2>3 DEF CardInv
<1>5. CASE Restart(c)
  BY <1>3, <1>5, RestartMoves DEF Restart
<1>6. CASE WriteConf(c) \/ Systemctl(c) \/ MarkApplied(c) \/ WaitHealthy(c)
  <2>1. UNCHANGED driver /\ req[c].at \in {"write", "systemctl", "applied", "wait"}
    BY <1>6 DEF WriteConf, Systemctl, MarkApplied, WaitHealthy
  <2>2. Restarting(c) /\ req[c].port = None
    BY <2>1, TypesOfParts DEF ShapeInv
  <2> QED
    BY <1>0, <1>3, <1>6, <2>1, <2>2, RestartMoves DEF Goes, Restarting
<1>7. ASSUME NEW p \in Port, NEW op \in {"bind", "unbind"}, NEW named \in BOOLEAN,
             SetDPDKBound(c, p, op, named)
      PROVE  CardInv'
  <2>1. /\ req'[c].op = op /\ req'[c].port = p /\ req'[c].from = driver[p]
        /\ req'[c].at = IF op = "bind" /\ driver[p] = "dpdk" THEN "record"
                        ELSE IF driver[p] = "none" THEN "attach" ELSE "release"
    BY <1>7, BindingMoves
  <2>2. UNCHANGED driver /\ \A d \in Client : req[d].port # p
    <3>1. PICK b \in BOOLEAN : b = (history.cut \/ \E d \in Client : req[d].port = p)
      OBVIOUS
    <3>2. history'.cut = b
      BY <1>7, <3>1 DEF SetDPDKBound, TypeOK, Histories
    <3> QED
      BY <1>7, <3>1, <3>2 DEF SetDPDKBound
  <2>3. ASSUME NEW d \in Client, d # c, Binding(d)'
        PROVE  /\ \A e \in Client \ {d} : req'[e].port # req'[d].port
               /\ req'[d].at = "release" => driver'[req'[d].port] = req'[d].from
               /\ req'[d].at = "attach" => driver'[req'[d].port] = "none"
               /\ req'[d].at = "record" => (driver'[req'[d].port] = "dpdk" <=> req'[d].op = "bind")
    <3>1. req'[d] = req[d] /\ Binding(d) /\ req[d].port # p
      BY <1>1, <2>2, <2>3 DEF Binding
    <3>2. /\ \A e \in Client \ {d} : req[e].port # req[d].port
          /\ req[d].at = "release" => driver[req[d].port] = req[d].from
          /\ req[d].at = "attach" => driver[req[d].port] = "none"
          /\ req[d].at = "record" => (driver[req[d].port] = "dpdk" <=> req[d].op = "bind")
      BY <1>0, <3>1 DEF CardInv
    <3>3. \A e \in Client \ {d} : req'[e].port # req[d].port
      BY <1>1, <2>1, <3>1, <3>2
    <3> QED
      BY <2>2, <3>1, <3>2, <3>3
  <2>4. /\ \A e \in Client \ {c} : req'[e].port # req'[c].port
        /\ req'[c].at = "release" => driver'[req'[c].port] = req'[c].from
        /\ req'[c].at = "attach" => driver'[req'[c].port] = "none"
        /\ req'[c].at = "record" => (driver'[req'[c].port] = "dpdk" <=> req'[c].op = "bind")
    BY <1>1, <2>1, <2>2
  <2> QED
    BY <2>3, <2>4 DEF CardInv
<1>8. CASE Refused(c)
  BY <1>0, <1>8 DEF Refused, CardInv, Binding
<1>9. CASE Release(c)
  <2>1. /\ req[c].at = "release" /\ Binding(c) /\ req[c].port \in Port
        /\ driver[req[c].port] = req[c].from
    BY <1>0, <1>9, TypesOfParts DEF Release, ShapeInv, CardInv
  <2>2. \/ req'[c] = Idle /\ UNCHANGED driver
        \/ Goes(c, "release", "attach") /\ driver' = [driver EXCEPT ![req[c].port] = "none"]
    <3>1. \/ req' = [req EXCEPT ![c] = Idle] /\ UNCHANGED driver
          \/ /\ req' = [req EXCEPT ![c].at = "attach"]
             /\ driver' = [driver EXCEPT ![req[c].port] = "none"]
      BY <1>9 DEF Release, GiveUp
    <3> QED
      BY <2>1, <3>1, NextAt, EndsAt
  <2>3. CASE req'[c] = Idle /\ UNCHANGED driver
    BY <1>0, <1>3, <2>3
  <2>4. CASE Goes(c, "release", "attach") /\ driver' = [driver EXCEPT ![req[c].port] = "none"]
    BY <1>0, <1>4, <2>1, <2>4 DEF Goes, Binding
  <2> QED
    BY <2>2, <2>3, <2>4
<1>10. CASE Attach(c)
  <2>1. /\ req[c].at = "attach" /\ Binding(c) /\ req[c].port \in Port
        /\ driver[req[c].port] = "none"
    BY <1>0, <1>10, TypesOfParts DEF Attach, ShapeInv, CardInv
  <2>2. \/ req'[c] = Idle /\ UNCHANGED driver
        \/ Goes(c, "attach", "record") /\ driver' = Attached(c)
    <3>1. \/ req' = [req EXCEPT ![c] = Idle] /\ UNCHANGED driver
          \/ req' = [req EXCEPT ![c].at = "record"] /\ driver' = Attached(c)
      BY <1>10, <2>1 DEF Attach, GiveUp
    <3> QED
      BY <2>1, <3>1, NextAt, EndsAt
  <2>3. CASE req'[c] = Idle /\ UNCHANGED driver
    BY <1>0, <1>3, <2>3
  <2>4. CASE Goes(c, "attach", "record") /\ driver' = Attached(c)
    BY <1>0, <1>4, <2>1, <2>4 DEF Goes, Binding, Attached
  <2> QED
    BY <2>2, <2>3, <2>4
<1>11. CASE Note(c)
  BY <1>0, <1>3, <1>11, BindingMoves DEF Note
<1> QED
  BY <1>5, <1>6, <1>7, <1>8, <1>9, <1>10, <1>11 DEF RequestStep

LEMMA CardElsewhere ==
  ASSUME TypeOK, CardInv, Elsewhere
  PROVE  CardInv' /\ UNCHANGED driver
<1>1. UNCHANGED driver
  BY DEF Elsewhere, Manager, Recovery, ConnectOnce, Watch, RecoveryBegin, RecoveryVoid, RecoveryEnd,
         Disconnect, Commit, VppRestart, PoolChanges, Damage, DaemonRestart, vars
<1>2. CASE DaemonRestart
  <2>1. \A c \in Client : req'[c] = Idle
    BY <1>2, ElsewhereStays
  <2>2. Idle.op = "idle"
    BY TypesOfParts
  <2> QED
    BY <1>1, <2>1, <2>2 DEF CardInv, Binding
<1>3. CASE UNCHANGED req
  <2>1. history.cut => history'.cut
    BY HistoryElsewhere
  <2> QED
    BY <1>1, <1>3, <2>1 DEF CardInv, Binding
<1> QED
  BY <1>2, <1>3, ElsewhereStays

\* A card goes to DPDK only with a request that then records it.
LEMMA CardsRecordedByRequest ==
  ASSUME TypeOK, ShapeInv, RecordInv, NamedInv, CardInv, CardsRecorded, NEW c \in Client, RequestStep(c)
  PROVE  CardsRecorded'
<1> SUFFICES ASSUME ~history'.fault, ~history'.cut, NEW p \in Port, driver'[p] = "dpdk"
             PROVE  p \in record'.file \cup history'.unnamed \/ \E d \in Client : req'[d].port = p
  BY DEF CardsRecorded
<1>0. /\ Idle.port = None /\ None \notin Port /\ driver \in [Port -> Driver]
      /\ ~history.cut /\ ~history.fault /\ history.unnamed \subseteq history'.unnamed
  BY TypesOfParts, HistoryByRequest, DataPlaneAssumption DEF TypeOK
<1>1. \A d \in Client \ {c} : req'[d] = req[d]
  BY OthersStay
<1>2. /\ record.file \in SUBSET Port
      /\ ~Note(c) => record'.file = record.file
      /\ Note(c) => record'.file = IF req[c].op = "unbind" THEN record.file \ {req[c].port}
                                   ELSE IF req[c].named THEN record.file \cup {req[c].port}
                                   ELSE record.file
  BY RecordByRequest
<1>3. CASE Note(c)
  <2>1. /\ req[c].at = "record" /\ Binding(c) /\ UNCHANGED driver
        /\ driver[req[c].port] = "dpdk" <=> req[c].op = "bind"
    BY <1>0, <1>3, TypesOfParts DEF Note, ShapeInv, CardInv
  <2>2. CASE p = req[c].port
    BY <1>0, <1>2, <1>3, <2>1, <2>2 DEF NamedInv
  <2>3. CASE p # req[c].port
    <3>1. p \in record.file \cup history.unnamed \/ \E d \in Client : req[d].port = p
      BY <1>0, <2>1 DEF CardsRecorded
    <3> QED
      BY <1>0, <1>1, <1>2, <1>3, <2>3, <3>1
  <2> QED
    BY <2>2, <2>3
<1>4. CASE ~Note(c)
  <2>1. CASE req'[c].port = p
    BY <2>1
  <2>2. CASE req'[c].port # p /\ driver[p] = "dpdk" /\ req[c].port # p
    <3>1. p \in record.file \cup history.unnamed \/ \E d \in Client : req[d].port = p
      BY <1>0, <2>2 DEF CardsRecorded
    <3> QED
      BY <1>0, <1>1, <1>2, <1>4, <2>2, <3>1
  <2>3. \/ req'[c].port = p
        \/ driver[p] = "dpdk" /\ req[c].port # p
    <3>1. CASE Restart(c) \/ Refused(c)
      <4>1. UNCHANGED driver /\ req[c] = Idle
        BY <3>1 DEF Restart, Refused
      <4> QED
        BY <1>0, <4>1
    <3>2. CASE WriteConf(c) \/ Systemctl(c) \/ MarkApplied(c) \/ WaitHealthy(c)
      <4>1. UNCHANGED driver /\ req[c].at \in {"write", "systemctl", "applied", "wait"}
        BY <3>2 DEF WriteConf, Systemctl, MarkApplied, WaitHealthy
      <4>2. req[c].port = None
        BY <4>1, TypesOfParts DEF ShapeInv
      <4> QED
        BY <1>0, <4>1, <4>2
    <3>3. ASSUME NEW q \in Port, NEW op \in {"bind", "unbind"}, NEW named \in BOOLEAN,
                 SetDPDKBound(c, q, op, named)
          PROVE  driver[p] = "dpdk" /\ req[c].port # p
      <4>1. UNCHANGED driver /\ req[c] = Idle
        BY <3>3 DEF SetDPDKBound
      <4> QED
        BY <1>0, <4>1
    <3>4. CASE Release(c) \/ Attach(c)
      <4>1. req[c].at \in {"release", "attach"} /\ Binding(c) /\ req[c].port \in Port
        BY <3>4, TypesOfParts DEF Release, Attach, ShapeInv
      <4>2. /\ req[c].at = "release" => driver[req[c].port] = req[c].from
            /\ req[c].at = "attach" => driver[req[c].port] = "none"
        BY <1>0, <4>1 DEF CardInv
      <4>3. Fault => history'.fault
        BY DEF Fault, TypeOK, Histories
      <4>4. /\ req' = [req EXCEPT ![c].at = "attach"] \/ req' = [req EXCEPT ![c].at = "record"]
            /\ \A q \in Port \ {req[c].port} : driver'[q] = driver[q]
        BY <1>0, <3>4, <4>1, <4>2, <4>3 DEF Release, Attach, Attached
      <4>5. req'[c].port = req[c].port
        BY <4>4, NextAt DEF Goes
      <4> QED
        BY <4>4, <4>5
    <3> QED
      BY <1>4, <3>1, <3>2, <3>3, <3>4 DEF RequestStep
  <2> QED
    BY <2>1, <2>2, <2>3
<1> QED
  BY <1>3, <1>4

LEMMA CardsRecordedElsewhere ==
  ASSUME TypeOK, ShapeInv, RecordInv, CardInv, CardsRecorded, Elsewhere
  PROVE  CardsRecorded'
<1> SUFFICES ASSUME ~history'.fault, ~history'.cut, NEW p \in Port, driver'[p] = "dpdk"
             PROVE  p \in record'.file \cup history'.unnamed \/ \E d \in Client : req'[d].port = p
  BY DEF CardsRecorded
<1>1. /\ Idle.port = None /\ None \notin Port
      /\ ~history.cut /\ ~history.fault /\ history'.unnamed = history.unnamed
      /\ DaemonRestart => \A d \in Client : req[d].op = "idle"
  BY TypesOfParts, HistoryElsewhere, DataPlaneAssumption
<1>2. record.file \subseteq record'.file /\ driver'[p] = driver[p]
  BY RecordElsewhere, CardElsewhere
<1>3. p \in record.file \cup history.unnamed \/ \E d \in Client : req[d].port = p
  BY <1>1, <1>2 DEF CardsRecorded
<1>4. ASSUME NEW d \in Client, req[d].port = p, DaemonRestart PROVE FALSE
  BY <1>1, <1>4, TypesOfParts DEF ShapeInv, Restarting, Binding
<1> QED
  BY <1>1, <1>2, <1>3, <1>4, ElsewhereStays

-----------------------------------------------------------------------------
(* The theorems *)

LEMMA InitIInv == Init => IInv
<1> SUFFICES ASSUME Init PROVE IInv
  OBVIOUS
<1>0. Init0 \in Cfg /\ Init0 \in Section /\ Init0.devs \subseteq Port
  BY DataPlaneAssumption DEF Section
<1>1. \A c \in Client : req[c] = Idle
  BY DEF Init
<1>2. /\ Idle.op = "idle" /\ Idle.port = None /\ Idle.at = "" /\ Idle.gen = 0 /\ Idle \in RequestStates
      /\ Idle.op # "bind"
  BY TypesOfParts
<1>3. vpp.gen = 1 /\ vpp.devs = Init0.devs /\ vpp.up = TRUE
  BY DEF Init
<1>4. TypeOK
  <2>1. req \in [Client -> RequestStates] /\ driver \in [Port -> Driver]
    BY <1>2 DEF Init, Driver
  <2>2. vpp \in Processes /\ record \in Records /\ history \in Histories
    BY <1>0 DEF Init, Processes, Records, Histories
  <2>3. /\ mgr \in [session : 0..vpp.gen, applied : Cfg \cup {None}, running : BOOLEAN]
        /\ recovery \in [waiting : Nat, active : 0..vpp.gen, done : 0..vpp.gen]
    BY <1>3 DEF Init
  <2>4. /\ committed \in Cfg /\ conf \in Cfg /\ pool \in BOOLEAN /\ events \in Nat
        /\ (~record.loaded => record.map = {}) /\ (~vpp.up => vpp.devs = {})
    BY <1>0, <1>3 DEF Init
  <2> QED
    BY <2>1, <2>2, <2>3, <2>4 DEF TypeOK
<1>5. ShapeInv /\ NamedInv /\ CardInv /\ RestartInv
  BY <1>1, <1>2 DEF ShapeInv, NamedInv, CardInv, RestartInv, Restarting, Binding
<1>6. GuardInv /\ CardsKept
  <2>1. GuardInv
    <3>1. \A c \in Client : req[c].gen = 0 /\ req[c].at = ""
      BY <1>1, <1>2, Zenon
    <3>2. \A c \in Client : req[c].gen <= vpp.gen
      <4>1. vpp.gen \in Nat
        BY <1>3
      <4>2. 0 <= vpp.gen
        BY <4>1
      <4> QED
        BY <3>1, <4>2, Zenon
    <3>3. \A c \in Client : req[c].at # "release"
      BY <3>1
    <3> QED
      BY <3>2, <3>3 DEF GuardInv
  <2>2. \A p \in Init0.devs : driver[p] = "dpdk"
    BY <1>0 DEF Init
  <2> QED
    BY <1>3, <2>1, <2>2 DEF CardsKept
<1>7. MarkedInv /\ RecordInv
  <2>1. None # Init0.devs
    BY <1>0, DataPlaneAssumption
  <2> QED
    BY <2>1 DEF Init, MarkedInv, RecordInv
<1>8. CardsRecorded
  BY <1>0 DEF Init, CardsRecorded
<1> QED
  BY <1>4, <1>5, <1>6, <1>7, <1>8 DEF IInv

LEMMA NextIInv == IInv /\ [Next]_vars => IInv'
<1> SUFFICES ASSUME IInv, [Next]_vars PROVE IInv'
  OBVIOUS
<1> USE DEF IInv
<1>1. TypeOK' /\ ShapeInv' /\ RecordInv' /\ NamedInv'
  BY TypeStep, ShapeStep, RecordStep, NamedStep
<1>2. CASE \E c \in Client : RequestStep(c)
  <2>1. PICK c \in Client : RequestStep(c)
    BY <1>2
  <2>2. GuardInv' /\ CardsKept'
    BY <2>1, CardsKeptByRequest
  <2>3. RestartInv' /\ MarkedInv'
    BY <2>1, RestartByRequest
  <2>4. CardInv' /\ CardsRecorded'
    BY <2>1, CardByRequest, CardsRecordedByRequest
  <2> QED
    BY <1>1, <2>2, <2>3, <2>4
<1>3. CASE Elsewhere
  BY <1>1, <1>3, CardsKeptElsewhere, RestartElsewhere, CardElsewhere, CardsRecordedElsewhere
<1> QED
  BY <1>2, <1>3, Steps

\* The parts of the invariant hold together in every state of every run: the requests in
\* their order, the guards that they passed, the file, the record and the cards.
THEOREM InductiveInvariant == Spec => []IInv
<1>1. Init => IInv
  BY InitIInv
<1>2. IInv /\ [Next]_vars => IInv'
  BY NextIInv
<1> QED
  BY <1>1, <1>2, PTL DEF Spec

\* Every variable keeps its type.
THEOREM TypeCorrect == Spec => []TypeOK
<1>1. IInv => TypeOK
  BY DEF IInv
<1> QED
  BY <1>1, InductiveInvariant, PTL

\* A card that VPP has taken stays with DPDK, whatever the requests that interleave,
\* unless it was unbound without a look at the VPP that runs (dpdkController's guard).
THEOREM CardsAreKept == Spec => []CardsKept
<1>1. IInv => CardsKept
  BY DEF IInv
<1> QED
  BY <1>1, InductiveInvariant, PTL

\* When no restart is pending, startup.conf is the one of the committed section
\* (vppController's pendingRestart against the file on disk).
THEOREM PendingIsHonest == Spec => []PendingHonest
<1>1. IInv => PendingHonest
  <2> SUFFICES ASSUME IInv, ~history.overlap, ~history.fault, history.marked, ~PendingRestart,
                      \A c \in Client : req[c].op # "restart"
               PROVE  conf = committed
    BY DEF PendingHonest
  <2>1. mgr.applied # None /\ mgr.applied = committed
    BY DEF IInv, MarkedInv, PendingRestart
  <2>2. \A c \in Client : req[c].at \notin {"systemctl", "applied"}
    BY TypesOfParts DEF IInv, ShapeInv, Restarting
  <2> QED
    BY <2>1, <2>2 DEF IInv, MarkedInv
<1> QED
  BY <1>1, InductiveInvariant, PTL

\* Every card of DPDK is in the record on disk, or a request about it is under way, or it
\* was bound by its address: the record outlives the daemon (bindings.go).
THEOREM CardsAreRecorded == Spec => []CardsRecorded
<1>1. IInv => CardsRecorded
  BY DEF IInv
<1> QED
  BY <1>1, InductiveInvariant, PTL

\* A restart that succeeds brings VPP up, unless the hugepages changed under it or two
\* restarts overlapped (vppController's check of the hugepages before it writes).
THEOREM RestartIsUp == Spec => RestartComesUp
<1> DEFINE Up == \A c \in Client : req[c].at = "systemctl" /\ req'[c].at = "applied" =>
                   vpp'.up \/ history.drained \/ history.overlap
<1>1. IInv /\ [Next]_vars => [Up]_vars
  <2> SUFFICES ASSUME IInv, [Next]_vars, NEW c \in Client, req[c].at = "systemctl", req'[c].at = "applied",
                      ~history.drained, ~history.overlap
               PROVE  vpp'.up
    OBVIOUS
  <2> USE DEF IInv
  <2>1. CASE Elsewhere
    BY <2>1, ElsewhereStays, TypesOfParts
  <2>2. ASSUME NEW d \in Client, RequestStep(d) PROVE vpp'.up
    <3>1. d = c
      BY <2>2, OthersStay
    <3>2. Systemctl(c)
      BY <2>2, <3>1, RestartMoves, BindingMoves, TypesOfParts
         DEF RequestStep, Goes, Restart, Refused, SetDPDKBound
    <3>3. Start(vpp.good)
      <4>1. req' # [req EXCEPT ![c] = Idle]
        BY EndsAt, TypesOfParts
      <4> QED
        BY <3>2, <4>1 DEF Systemctl
    <3>4. Restarting(c)
      BY TypesOfParts DEF ShapeInv
    <3>5. conf.huge => pool
      BY <3>4 DEF RestartInv
    <3> QED
      BY <3>3, <3>5, StartType DEF TypeOK, Processes
  <2> QED
    BY <2>1, <2>2, Steps
<1> QED
  BY <1>1, InductiveInvariant, PTL DEF Spec, RestartComesUp
=============================================================================
