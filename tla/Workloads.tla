----------------------------- MODULE Workloads ------------------------------
(***************************************************************************)
(* Virtual machines and containers: internal/orchestrator/compute and      *)
(* container, the part of a commit that concerns them (apply.go), their    *)
(* recovery and inspection (main.go), the alarms these raise, and the      *)
(* image store the disks are cloned from (Images).                         *)
(*                                                                         *)
(* The two providers hold their mutex through a whole operation, so an     *)
(* operation is one step with the effects it had when it failed; a commit, *)
(* a recovery, an inspection and a deletion of an image are several steps  *)
(* and interleave, each with the configuration it read when it began.      *)
(***************************************************************************)
EXTENDS Images, SequencesExt

CONSTANTS
    VMs, Containers,
    Configs,       \* configurations that may be committed
    Stored,        \* the images in the store at the start
    Config0        \* the one committed and applied at the start

Absent == [image |-> None]     \* a VM or container that is not declared

\* What a configuration says of a VM and of a container; the data disk is made from
\* an image or blank.  A VM and a container of one name are different objects.
Objects == VMs \cup Containers
VmConf == {Absent} \cup [image : ImageNames, extra : ImageNames \cup {None, "blank"}, auto : BOOLEAN]
CtConf == {Absent} \cup [image : ImageNames, auto : BOOLEAN]
Config == [vm : [VMs -> VmConf], ct : [Containers -> CtConf], net : Nat]

ASSUME WorkloadsAssumption ==
    /\ IsFiniteSet(VMs) /\ IsFiniteSet(Containers)
    /\ VMs \cap Containers = {} /\ "net" \notin Objects
    /\ Configs \subseteq Config /\ Config0 \in Configs
    /\ \A v \in VMs : Config0.vm[v] = Absent
    /\ \A c \in Containers : Config0.ct[c] = Absent
    /\ Stored \subseteq ImageNames

VARIABLES
    committed,   \* the committed configuration: vm, ct, net (other objects)
    dom,         \* libvirt: state and definition of each domain
    disk,        \* qcow2 files of each VM: main and data disk
    ct,          \* Docker: state of each container
    alarms,      \* active alarms
    txn,         \* the commit in progress; it holds the mutex of the engine
    insp,        \* the holder of recoveryMu: a recovery or an inspection
    doomed,      \* images whose deletion has passed the reference check
    raced,       \* images that passed it before a commit that refers to them, or that
                 \* were gone when a commit named them again for a disk made before
    scarred,     \* objects an operation failed on, or two actors crossed on
    serial       \* disks made so far

hostVars == <<dom, disk, ct>>
wlVars == <<committed, hostVars, alarms, txn, insp, doomed, raced, scarred, serial>>
vars == <<wlVars, imgVars, events>>

NoDom == [state |-> "absent", conf |-> Absent]
NoDisk == [main |-> Absent, extra |-> Absent]
NoTxn == [pc |-> "idle", new |-> Config0, ops |-> <<>>, k |-> 1, disks |-> <<>>]
NoInsp == [cfg |-> Config0, todo |-> <<>>, errs |-> FALSE]

IsActive(v) == dom[v].state = "running"
DiskOf(i) == [image |-> i, serial |-> serial]
Declared(cfg) == {v \in VMs : cfg.vm[v] # Absent} \cup {c \in Containers : cfg.ct[c] # Absent}

\* checkImages: the image of a VM and of a container must be in the store, and of
\* its type.  The images of data disks are not looked at.
Valid(cfg) ==
    /\ \A v \in VMs : cfg.vm[v] # Absent =>
         cfg.vm[v].image \in VmImages /\ Lookup(cfg.vm[v].image)
    /\ \A c \in Containers : cfg.ct[c] # Absent =>
         cfg.ct[c].image \in CtImages /\ Lookup(cfg.ct[c].image)

SlipRefCount(cfg, i) == Cardinality({c \in Containers : cfg.ct[c].image = i})

\* RefCount: neither are they here.
RefCount(cfg, i) == Cardinality({v \in VMs : cfg.vm[v].image = i}
                                \cup {c \in Containers : cfg.ct[c].image = i})

Raise(code, x) == alarms' = alarms \cup {<<code, x>>}
Resolve(code, x) == alarms' = alarms \ {<<code, x>>}
-----------------------------------------------------------------------------
\* DefineVM: disks that are missing are made, the domain is defined and, with
\* autostart, started.  reach: 0 no disk, 1 the main disk, 2 both disks,
\* 3 the definition, 4 everything; what was reached stays.
DefineVM(v, c, ok) ==
    LET mainLess == disk[v].main = Absent /\ file[c.image] = None
        extraLess == disk[v].extra = Absent /\ c.extra \in ImageNames /\ file[c.extra] = None
        Made(d, i) == IF d = Absent THEN DiskOf(i) ELSE d
    IN \E reach \in 0 .. 4 :
        /\ mainLess => reach = 0
        /\ extraLess => reach <= 1
        /\ ok = (reach = 4)
        /\ Fault(~ok /\ ~(mainLess /\ reach = 0) /\ ~(extraLess /\ reach = 1))
        /\ disk' = [disk EXCEPT ![v] =
             [main |-> IF reach >= 1 THEN Made(@.main, c.image) ELSE @.main,
              extra |-> IF reach >= 2 /\ c.extra # None THEN Made(@.extra, c.extra) ELSE @.extra]]
        /\ dom' = IF reach < 3 THEN dom
                  ELSE [dom EXCEPT ![v] =
                    [conf |-> c,
                     state |-> IF reach = 4 /\ c.auto THEN "running"
                               ELSE IF @.state = "absent" THEN "shutoff" ELSE @.state]]
        /\ serial' = serial + 1
        /\ UNCHANGED ct

\* DeleteVM: stop, undefine, remove the disks.  reach: 0 nothing, 1 stopped,
\* 2 undefined, 3 everything.
DeleteVM(v, ok) ==
    \E reach \in 0 .. 3 :
        /\ ok = (reach = 3) /\ Fault(~ok)
        /\ dom' = [dom EXCEPT ![v] =
             IF reach >= 2 THEN NoDom
             ELSE IF reach = 1 /\ IsActive(v) THEN [@ EXCEPT !.state = "shutoff"] ELSE @]
        /\ disk' = IF reach = 3 THEN [disk EXCEPT ![v] = NoDisk] ELSE disk
        /\ UNCHANGED <<ct, serial>>

\* ApplyContainer: one that runs is left as it is; one that does not exist is
\* created, from an image Docker must hold; autostart starts it.
ApplyContainer(c, conf, ok) ==
    /\ \E created, started \in BOOLEAN :
        /\ ct[c] = "absent" /\ conf.image \notin docker => ~created
        /\ started => created /\ conf.auto
        /\ ok = (ct[c] = "running" \/ (created /\ (conf.auto => started)))
        /\ Fault(~ok /\ ~(ct[c] = "absent" /\ conf.image \notin docker))
        /\ ct' = [ct EXCEPT ![c] = IF @ = "running" \/ started THEN "running"
                                   ELSE IF created /\ @ = "absent" THEN "stopped" ELSE @]
    /\ UNCHANGED <<dom, disk, serial>>

DeleteContainer(c, ok) ==
    /\ Fault(~ok)
    /\ ct' = IF ok THEN [ct EXCEPT ![c] = "absent"] ELSE ct
    /\ UNCHANGED <<dom, disk, serial>>
-----------------------------------------------------------------------------
\* Brings one object to what cfg says of it: an operation of a plan, and the
\* undo of one.  Other objects of the network may refuse to be deleted.
Bring(x, cfg, ok) ==
    CASE x \in VMs /\ cfg.vm[x] # Absent -> DefineVM(x, cfg.vm[x], ok)
      [] x \in VMs /\ cfg.vm[x] = Absent -> DeleteVM(x, ok)
      [] x \in Containers /\ cfg.ct[x] # Absent -> ApplyContainer(x, cfg.ct[x], ok)
      [] x \in Containers /\ cfg.ct[x] = Absent -> DeleteContainer(x, ok)
      [] x = "net" -> Fault(~ok) /\ UNCHANGED <<hostVars, serial>>

\* plan: what is declared anew or changed (VMs, containers), then what is
\* not declared any more (containers, VMs, networks).
Plan(old, new) ==
    LET changed == {v \in VMs : new.vm[v] # Absent /\ new.vm[v] # old.vm[v]}
        changedCt == {c \in Containers : new.ct[c] # Absent /\ new.ct[c] # old.ct[c]}
        gone == {v \in VMs : new.vm[v] = Absent /\ old.vm[v] # Absent}
        goneCt == {c \in Containers : new.ct[c] = Absent /\ old.ct[c] # Absent}
    IN (IF new.net > old.net THEN <<"net">> ELSE <<>>)
       \o SetToSeq(changed) \o SetToSeq(changedCt)
       \o SetToSeq(goneCt) \o SetToSeq(gone)
       \o (IF new.net < old.net THEN <<"net">> ELSE <<>>)

\* Images that a main disk was made from, and that are not there when cfg names them
\* for that disk: one that is being downloaded again is accepted by checkImages.
Orphaning(cfg) ==
    {i \in VmImages : file[i] = None /\ \E v \in VMs : i = disk[v].main.image /\ i = cfg.vm[v].image}

CommitStart(new) ==
    /\ txn.pc = "idle" /\ new # committed /\ Valid(new)
    /\ Spend
    /\ txn' = [pc |-> "apply", new |-> new, ops |-> Plan(committed, new), k |-> 1,
               disks |-> disk]
    /\ raced' = raced \cup {i \in doomed \cup {deleting} : i # None /\ RefCount(new, i) > 0}
                    \cup Orphaning(new)
    /\ UNCHANGED <<committed, hostVars, alarms, insp, doomed, scarred, serial, imgVars>>

\* The object of an operation that failed is not restored by the commit.
Scar(x, ok) == scarred' = IF ok THEN scarred \ {x} ELSE scarred \cup {x}

ApplyStep ==
    LET x == txn.ops[txn.k]
    IN /\ txn.pc = "apply" /\ txn.k <= Len(txn.ops)
       /\ \E ok \in BOOLEAN :
            /\ Bring(x, txn.new, ok)
            /\ Scar(x, ok)
            /\ txn' = IF ok THEN [txn EXCEPT !.k = @ + 1]
                            ELSE [txn EXCEPT !.pc = "undo", !.k = @ - 1]
       /\ UNCHANGED <<committed, alarms, insp, doomed, raced, imgVars>>

\* An undo that leaves out the operation done last.
SlipUndoStep ==
    /\ txn.pc = "undo" /\ txn.k >= 1
    /\ txn' = [txn EXCEPT !.k = @ - 1]
    /\ UNCHANGED <<committed, hostVars, alarms, insp, doomed, raced, scarred,
                   serial, imgVars, events>>

UndoStep ==
    LET x == txn.ops[txn.k]
    IN /\ txn.pc = "undo" /\ txn.k >= 1
       /\ \E ok \in BOOLEAN : Bring(x, committed, ok) /\ Scar(x, ok)
       /\ txn' = [txn EXCEPT !.k = @ - 1]
       /\ UNCHANGED <<committed, alarms, insp, doomed, raced, imgVars>>

UndoDone ==
    /\ txn.pc = "undo" /\ txn.k = 0
    /\ txn' = NoTxn
    /\ UNCHANGED <<committed, hostVars, alarms, insp, doomed, raced, scarred,
                   serial, imgVars, events>>

\* Zeroize commits an empty configuration and deletes every image, unchecked.
Zeroized(new) == IF Declared(new) = {} /\ new.net = 0
                 THEN {i \in ImageNames : index[i] # "none"} ELSE {}

\* The revision is stored.
CommitDone ==
    /\ txn.pc = "apply" /\ txn.k > Len(txn.ops)
    /\ committed' = txn.new
    /\ txn' = NoTxn
    /\ \E wiped \in {{}, Zeroized(txn.new)} : doomed' = doomed \cup wiped
    /\ UNCHANGED <<hostVars, alarms, insp, raced, scarred, serial, imgVars, events>>
-----------------------------------------------------------------------------
\* runRecovery and the inspection every 15 seconds read the configuration
\* (waiting for a commit to end) and go through it under recoveryMu.
InspectStart(recovering) ==
    LET each(kind, names) == [n \in DOMAIN SetToSeq(names) |-> <<kind, SetToSeq(names)[n]>>]
        vms == {v \in VMs : committed.vm[v] # Absent}
        cts == {c \in Containers : committed.ct[c] # Absent}
    IN /\ insp.todo = <<>> /\ txn.pc = "idle"
       /\ IF recovering THEN Spend ELSE UNCHANGED events
       /\ insp' = [cfg |-> committed, errs |-> FALSE,
                   todo |-> (IF recovering THEN each("recover", vms) \o each("recover", cts)
                                           ELSE <<>>)
                            \o each("check", vms) \o each("check", cts)
                            \o <<<<"stale", "">>>>]
       /\ UNCHANGED <<committed, hostVars, alarms, txn, doomed, raced, scarred, serial, imgVars>>

Todo(kind) == insp.todo # <<>> /\ insp.todo[1][1] = kind
Subject == insp.todo[1][2]
Advance == insp' = [insp EXCEPT !.todo = Tail(@)]

\* EnsureConsistent.  A commit that meanwhile says otherwise of the object is
\* overrun by what the recovery read before.
RecoverStep ==
    LET x == Subject
        overrun == insp.cfg.vm # committed.vm \/ insp.cfg.ct # committed.ct
                   \/ (txn.pc # "idle" /\ x \in Range(txn.ops))
    IN /\ Todo("recover")
       /\ \E ok \in BOOLEAN :
            /\ Bring(x, insp.cfg, ok)
            /\ IF ok THEN Resolve("RECOVERY_UNCONVERGED", x)
                     ELSE Raise("RECOVERY_UNCONVERGED", x)
            /\ Scar(x, ok /\ ~overrun)
       /\ Advance
       /\ UNCHANGED <<committed, txn, doomed, raced, imgVars>>

\* An inspection that leaves the alarm of a VM that is well again.
SlipCheckVM ==
    LET v == Subject
    IN /\ Todo("check") /\ v \in VMs
       /\ IF dom[v].state = "crashed" THEN Raise("VM_CRASHED", v) ELSE UNCHANGED alarms
       /\ Advance
       /\ UNCHANGED <<committed, hostVars, txn, doomed, raced, scarred, serial, imgVars, events>>

\* CheckVMAlarms: the state may be unknown; a crash is raised, else resolved.
CheckVM ==
    LET v == Subject
    IN /\ Todo("check") /\ v \in VMs
       /\ \E known \in BOOLEAN :
            /\ Fault(~known)
            /\ IF ~known THEN UNCHANGED alarms
               ELSE IF dom[v].state = "crashed" THEN Raise("VM_CRASHED", v)
               ELSE Resolve("VM_CRASHED", v)
       /\ Advance
       /\ UNCHANGED <<committed, hostVars, txn, doomed, raced, scarred, serial, imgVars>>

\* CheckContainerAlarms; one that does not exist keeps the alarm it has.
CheckContainer ==
    LET c == Subject
    IN /\ Todo("check") /\ c \in Containers
       /\ \E known \in BOOLEAN :
            /\ Fault(~known)
            /\ IF ~known \/ ct[c] = "absent" THEN UNCHANGED alarms
               ELSE IF ct[c] = "failed" THEN Raise("CONTAINER_EXITED", c)
               ELSE Resolve("CONTAINER_EXITED", c)
            /\ insp' = [insp EXCEPT !.todo = Tail(@), !.errs = @ \/ ~known]
       /\ UNCHANGED <<committed, hostVars, txn, doomed, raced, scarred, serial, imgVars>>

\* ResolveStale: if every container answered, alarms of containers that are
\* not declared are resolved.  There is no such step for VMs.
CheckStale ==
    /\ Todo("stale")
    /\ alarms' = IF insp.errs THEN alarms
                 ELSE {a \in alarms : a[2] \in Containers => a[2] \in Declared(insp.cfg)}
    /\ Advance
    /\ UNCHANGED <<committed, hostVars, txn, doomed, raced, scarred, serial, imgVars, events>>

Inspect == RecoverStep \/ CheckVM \/ CheckContainer \/ CheckStale
-----------------------------------------------------------------------------
\* StartVM, StopVM, RestartVM and the same of containers: on what exists.
\* Stopping asks the guest and, when it has not stopped in time, forces it.
StartStop(x) ==
    LET stop == IF x \in VMs THEN "shutoff" ELSE "stopped"
    IN /\ Spend
       /\ \E state \in {"running", stop} :
            IF x \in VMs
            THEN /\ dom[x].state \notin {"absent", state}
                 /\ state = stop => IsActive(x)
                 /\ dom' = [dom EXCEPT ![x].state = state] /\ UNCHANGED <<disk, ct>>
            ELSE /\ ct[x] \notin {"absent", state}
                 /\ state = stop => ct[x] = "running"
                 /\ ct' = [ct EXCEPT ![x] = state] /\ UNCHANGED <<dom, disk>>
       /\ UNCHANGED <<committed, alarms, txn, insp, doomed, raced, scarred, serial, imgVars>>

\* A guest powers off or crashes; a container ends, by itself or abnormally.
GuestEnds(x) ==
    /\ Spend
    /\ IF x \in VMs
       THEN /\ IsActive(x)
            /\ \E s \in {"shutoff", "crashed"} : dom' = [dom EXCEPT ![x].state = s]
            /\ UNCHANGED <<disk, ct>>
       ELSE /\ ct[x] = "running"
            /\ \E s \in {"stopped", "failed"} : ct' = [ct EXCEPT ![x] = s]
            /\ UNCHANGED <<dom, disk>>
    /\ UNCHANGED <<committed, alarms, txn, insp, doomed, raced, scarred, serial, imgVars>>

\* handleDeleteImage, imagesDelete: references are counted in the committed
\* configuration, the image is deleted afterwards.
DeleteImage(i) ==
    /\ txn.pc = "idle" /\ RefCount(committed, i) = 0 /\ index[i] # "none"
    /\ doomed' = doomed \cup {i}
    /\ raced' = raced \ {i}
    /\ UNCHANGED <<committed, hostVars, alarms, txn, insp, scarred, serial, imgVars, events>>

ImageStep ==
    /\ \/ \E j \in Jobs : DownloadStep(j) \/ \E i \in ImageNames : DownloadStart(j, i)
       \/ \E i \in ImageNames : Import(i)
       \/ DeleteEntry
    /\ UNCHANGED wlVars

DeleteDoomed(i) ==
    /\ i \in doomed /\ DeleteFile(i)
    /\ doomed' = doomed \ {i}
    /\ UNCHANGED <<committed, hostVars, alarms, txn, insp, raced, scarred, serial>>

\* The daemon stops: requests, a commit, a recovery and the alarms are gone.
Crash ==
    /\ Spend /\ Restart
    /\ txn' = NoTxn /\ insp' = NoInsp /\ doomed' = {} /\ alarms' = {}
    /\ scarred' = scarred \cup Range(txn.ops)
    /\ UNCHANGED <<committed, hostVars, raced, serial>>

Init ==
    /\ ImagesInit(Stored) /\ events = 0
    /\ committed = Config0 /\ serial = 0
    /\ dom = [v \in VMs |-> NoDom] /\ disk = [v \in VMs |-> NoDisk]
    /\ ct = [c \in Containers |-> "absent"]
    /\ alarms = {} /\ txn = NoTxn /\ insp = NoInsp
    /\ doomed = {} /\ raced = {} /\ scarred = {}

Commit == (\E new \in Configs : CommitStart(new)) \/ ApplyStep \/ UndoStep \/ UndoDone \/ CommitDone

Next ==
    \/ Commit
    \/ \E recovering \in BOOLEAN : InspectStart(recovering)
    \/ Inspect
    \/ \E x \in VMs \cup Containers : StartStop(x) \/ GuestEnds(x)
    \/ \E i \in ImageNames : DeleteImage(i) \/ DeleteDoomed(i)
    \/ ImageStep
    \/ Crash

Spec == /\ Init /\ [][Next]_vars
        /\ WF_vars(ApplyStep \/ UndoStep \/ UndoDone \/ CommitDone)
        /\ WF_vars(InspectStart(FALSE)) /\ WF_vars(Inspect)
-----------------------------------------------------------------------------
Disk == {Absent} \cup [image : ImageNames \cup {"blank"}, serial : Nat]
Disks == [VMs -> [main : Disk, extra : Disk]]
Chore == ({"recover", "check"} \X Objects) \cup {<<"stale", "">>}

TypeOK ==
    /\ ImagesTypeOK
    /\ committed \in Configs
    /\ dom \in [VMs -> [state : {"absent", "shutoff", "running", "crashed"}, conf : VmConf]]
    /\ disk \in Disks /\ serial \in Nat
    /\ ct \in [Containers -> {"absent", "stopped", "running", "failed"}]
    /\ txn \in [pc : {"idle", "apply", "undo"}, new : Configs, ops : Seq(Objects \cup {"net"}),
               k : Nat, disks : {<<>>} \cup Disks]
    /\ txn.k \in 0 .. Len(txn.ops) + 1
    /\ insp \in [cfg : Configs, todo : Seq(Chore), errs : BOOLEAN]
    /\ doomed \cup raced \subseteq ImageNames
    /\ scarred \subseteq Objects \cup {"net"}

(***************************************************************************)
(* When no commit is running, a declared VM has its domain, as declared,   *)
(* and its disks; one that is not declared has left neither domain nor     *)
(* disk; the same of containers.  This holds after commits that succeed,   *)
(* after commits that were undone, and with recoveries, requests and       *)
(* guests in between; a recovery that succeeds re-establishes it.          *)
(* Excepted is what an operation failed on (apply.go does not undo the     *)
(* operation that failed), what a crash cut short, and what a recovery     *)
(* overran with a configuration it had read before a commit.               *)
(***************************************************************************)
Converged ==
    txn.pc = "idle" =>
      /\ \A v \in VMs \ scarred :
           IF committed.vm[v] = Absent THEN dom[v] = NoDom /\ disk[v] = NoDisk
           ELSE /\ dom[v].state # "absent" /\ dom[v].conf = committed.vm[v]
                /\ disk[v].main # Absent
                /\ committed.vm[v].extra # None => disk[v].extra # Absent
      /\ \A c \in Containers \ scarred :
           (committed.ct[c] = Absent) = (ct[c] = "absent")

(***************************************************************************)
(* The image a declared VM's main disk was cloned from, and that the       *)
(* configuration still names, is there: the disk is a qcow2 overlay and    *)
(* unusable without it.  No deletion of an image removes it, and no step   *)
(* of a commit, a recovery or a download.  Excepted are images whose       *)
(* deletion had passed the reference check before a commit referred to     *)
(* them, and those that were gone when a commit named them again.          *)
(***************************************************************************)
MainBacked ==
    txn.pc = "idle" =>
      \A v \in VMs :
        LET i == committed.vm[v].image
        IN i # None /\ disk[v].main.image = i /\ i \notin raced => file[i] # None

(***************************************************************************)
(* Alarms tell the truth in the end: once libvirt and Docker answer, a     *)
(* declared VM or container that crashed has its alarm, one that is well   *)
(* has none, and the alarm of a container no longer declared goes away.    *)
(***************************************************************************)
AlarmsSettle ==
    /\ \A v \in VMs : committed.vm[v] # Absent
         ~> \/ committed.vm[v] = Absent
            \/ (<<"VM_CRASHED", v>> \in alarms) = (dom[v].state = "crashed")
    /\ \A c \in Containers : TRUE
         ~> \/ committed.ct[c] # Absent /\ ct[c] = "absent"
            \/ (<<"CONTAINER_EXITED", c>> \in alarms)
                 = (committed.ct[c] # Absent /\ ct[c] = "failed")

(***************************************************************************)
(* "When any step fails, the operations done are compensated in reverse    *)
(* order and the substrate is back in the state before the change"         *)
(* (apply.go): after an undo in which nothing failed, VMs have the disks   *)
(* they had.                                                               *)
(***************************************************************************)
UndoKeepsDisks ==
    [][txn.pc = "undo" /\ txn'.pc = "idle" /\ scarred' \subseteq {"net"}
         => \A v \in VMs : disk'[v].main = txn.disks[v].main]_vars
=============================================================================
