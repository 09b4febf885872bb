------------------------------- MODULE Images -------------------------------
(***************************************************************************)
(* The image store, internal/images: the index kept in memory and in       *)
(* index.json, the files of the store directory and the downloads that     *)
(* write them.                                                             *)
(*                                                                         *)
(* A file is an inode holding blocks; an image is Whole when it holds      *)
(* blocks 1 .. Blocks in order, which is what its sha256 stands for.  A    *)
(* download writes to the name <image>.part and renames it.  What a        *)
(* handle writes goes to the inode it opened, whatever name that inode     *)
(* has by then, and what a path names is looked up at each call.           *)
(***************************************************************************)
EXTENDS Integers, FiniteSets, Sequences, Functions

CONSTANTS
    VmImages,      \* names of images of type vm-image
    CtImages,      \* names of images of type container-image
    Jobs,          \* download goroutines
    Blocks,        \* blocks of an image
    MaxEvents,     \* bound: requests, faults and restarts of a behaviour
    None

ASSUME ImagesAssumption ==
    /\ Blocks \in Nat \ {0} /\ MaxEvents \in Nat
    /\ IsFiniteSet(VmImages) /\ IsFiniteSet(CtImages) /\ IsFiniteSet(Jobs)
    /\ VmImages \cap CtImages = {} /\ None \notin VmImages \cup CtImages \cup Nat

ImageNames == VmImages \cup CtImages
Inodes == 1 .. Cardinality(Jobs) + 2 * Cardinality(ImageNames) + 1
Whole == [k \in 1 .. Blocks |-> k]
States == {"none", "downloading", "ready", "failed"}

VARIABLES
    index,     \* Store.index: state of each image ("none": no entry)
    saved,     \* index.json
    data,      \* blocks of each inode (0: a block of something else)
    file,      \* inode under the image's own name in the store
    part,      \* inode under <image>.part
    docker,    \* images Docker holds
    job,       \* the downloads
    deleting,  \* the image whose file is removed and whose entry is not yet
    loose,     \* images two operations overlapped on, or whose deletion tore
    events

imgVars == <<index, saved, data, file, part, docker, job, deleting, loose>>

Idle == [image |-> None, pc |-> "idle", offset |-> 0, inode |-> None,
         append |-> FALSE, hash |-> <<>>, fault |-> FALSE]

\* A store that holds the images of stored.
ImagesInit(stored) ==
    /\ index = [i \in ImageNames |-> IF i \in stored THEN "ready" ELSE "none"]
    /\ saved = index
    /\ LET inode == CHOOSE f \in [VmImages -> Inodes] : IsInjective(f)
       IN file = [i \in ImageNames |-> IF i \in stored \cap VmImages THEN inode[i] ELSE None]
    /\ data = [n \in Inodes |-> IF n \in Range(file) THEN Whole ELSE <<>>]
    /\ part = [i \in ImageNames |-> None]
    /\ docker = stored \cap CtImages /\ deleting = None /\ loose = {}
    /\ job = [j \in Jobs |-> Idle]

Spend == events < MaxEvents /\ events' = events + 1
Fault(faulty) == IF faulty THEN Spend ELSE UNCHANGED events

\* setMeta: the entry is replaced in memory, then the whole index is written;
\* a write that fails leaves memory ahead of the file.
SetMeta(i, state, ok) ==
    /\ index' = [index EXCEPT ![i] = state]
    /\ saved' = IF ok THEN index' ELSE saved

Held == {job[j].inode : j \in Jobs} \cup Range(file) \cup Range(part)
Fresh == CHOOSE n \in Inodes : n \notin Held

Active(i) == {j \in Jobs : job[j].image = i}
Overlaps(i, j) == Active(i) \ {j} # {} \/ deleting = i

\* Lookup: what the engine accepts as an image of the store.
Lookup(i) == index[i] \in {"downloading", "ready"}
-----------------------------------------------------------------------------
\* handlePostImage, imagesDownload: a goroutine is started; Download records
\* the image as downloading, and gives up at once when that cannot be saved.
DownloadStart(j, i) ==
    /\ job[j] = Idle
    /\ \E ok \in BOOLEAN :
        /\ IF ok THEN Spend ELSE events + 1 < MaxEvents /\ events' = events + 2
        /\ SetMeta(i, "downloading", ok)
        /\ job' = IF ok THEN [job EXCEPT ![j] = [Idle EXCEPT !.image = i, !.pc = "stat"]]
                        ELSE job
        /\ loose' = IF Overlaps(i, j) THEN loose \cup {i}
                    ELSE IF i \in CtImages \/ ~ok THEN loose ELSE loose \ {i}
    /\ UNCHANGED <<data, file, part, docker, deleting>>

\* downloadFile: the length of an existing .part is where to go on.
StatPart(j) ==
    /\ job[j].pc = "stat"
    /\ job' = [job EXCEPT ![j].pc = "open",
                          ![j].offset = LET n == part[job[j].image]
                                        IN IF n = None THEN 0 ELSE Len(data[n])]
    /\ UNCHANGED <<index, saved, data, file, part, docker, deleting, loose, events>>

\* fail: the image is recorded as failed; what was written stays in .part.
Failed(j, ok) == /\ SetMeta(job[j].image, "failed", ok)
                 /\ job' = [job EXCEPT ![j] = Idle]

\* The server refuses or the connection breaks; ok: the failure is saved.
Break(j) ==
    /\ job[j].pc \in {"open", "read"}
    /\ \E ok \in BOOLEAN : Fault(TRUE) /\ Failed(j, ok)
    /\ UNCHANGED <<data, file, part, docker, deleting, loose>>

\* A range that starts at the end of the image is answered 416, which is an
\* error like any other.
NothingLeft(j) ==
    /\ job[j].pc = "open" /\ job[j].offset >= Blocks
    /\ Failed(j, TRUE)
    /\ UNCHANGED <<data, file, part, docker, deleting, loose, events>>

\* The .part is opened by name: to append when the server grants the range,
\* from the start otherwise.  What it already holds is hashed again.
OpenPart(j) ==
    LET i == job[j].image
        n == IF part[i] = None THEN Fresh ELSE part[i]
        old == IF part[i] = None THEN <<>> ELSE data[n]
    IN /\ job[j].pc = "open"
       /\ part' = [part EXCEPT ![i] = n]
       /\ \E resuming \in BOOLEAN :
            /\ resuming => job[j].offset \in 1 .. Blocks - 1
            /\ data' = [data EXCEPT ![n] = IF resuming THEN old ELSE <<>>]
            /\ IF resuming /\ Len(old) < job[j].offset
               THEN Failed(j, TRUE)
               ELSE /\ job' = [job EXCEPT ![j].pc = "read", ![j].inode = n,
                            ![j].append = resuming,
                            ![j].hash = IF resuming THEN SubSeq(old, 1, job[j].offset)
                                                    ELSE <<>>]
                    /\ UNCHANGED <<index, saved>>
       /\ UNCHANGED <<file, docker, deleting, loose, events>>

\* A block arrives (faulty: of other content), is written at the end of the
\* file or at the handle's position, hashed, and the progress is saved.
ReadBlock(j) ==
    LET k == Len(job[j].hash) + 1
        n == job[j].inode
    IN /\ job[j].pc = "read" /\ k <= Blocks
       /\ \E faulty \in BOOLEAN :
            LET b == IF faulty THEN 0 ELSE k
                gap == [m \in 1 .. k |-> IF m <= Len(data[n]) THEN data[n][m] ELSE 0]
            IN /\ Fault(faulty)
               /\ data' = [data EXCEPT ![n] =
                    IF job[j].append THEN Append(data[n], b)
                    ELSE IF k <= Len(data[n]) THEN [data[n] EXCEPT ![k] = b]
                    ELSE [gap EXCEPT ![k] = b]]
               /\ job' = [job EXCEPT ![j].hash = Append(@, b),
                                     ![j].fault = @ \/ faulty]
       /\ SetMeta(job[j].image, "downloading", TRUE)
       /\ UNCHANGED <<file, part, docker, deleting, loose>>

\* Finish without the comparison of the checksum.
SlipUnverified(j) ==
    LET i == job[j].image
    IN /\ job[j].pc = "read" /\ Len(job[j].hash) >= Blocks /\ part[i] # None
       /\ file' = [file EXCEPT ![i] = part[i]]
       /\ job' = [job EXCEPT ![j].pc = "stored"]
       /\ part' = [part EXCEPT ![i] = None]
       /\ UNCHANGED <<index, saved, data, docker, deleting, loose, events>>

\* End of the body: a wrong sha256 removes the .part, a right one renames it.
Finish(j) ==
    LET i == job[j].image
    IN /\ job[j].pc = "read" /\ Len(job[j].hash) >= Blocks
       /\ IF job[j].hash = Whole /\ part[i] # None
          THEN /\ file' = [file EXCEPT ![i] = part[i]]
               /\ job' = [job EXCEPT ![j].pc = "stored"]
               /\ UNCHANGED <<index, saved>>
          ELSE Failed(j, TRUE) /\ UNCHANGED file
       /\ part' = [part EXCEPT ![i] = None]
       /\ UNCHANGED <<data, docker, deleting, loose, events>>

\* The archive of a container image is loaded and removed (a load that fails
\* leaves it); then the image is recorded as ready.
Register(j) ==
    LET i == job[j].image
    IN /\ job[j].pc = "stored"
       /\ \E ok, loads \in BOOLEAN :
            /\ i \in VmImages => loads
            /\ file[i] = None => (i \in VmImages \/ ~loads)
            /\ Fault(~ok \/ (~loads /\ file[i] # None))
            /\ IF loads THEN SetMeta(i, "ready", ok) /\ job' = [job EXCEPT ![j] = Idle]
                        ELSE Failed(j, ok)
            /\ docker' = IF i \in CtImages /\ loads THEN docker \cup {i} ELSE docker
            /\ file' = IF i \in CtImages /\ loads THEN [file EXCEPT ![i] = None] ELSE file
       /\ UNCHANGED <<data, part, deleting, loose>>

\* ImportIncoming: an uploaded file is renamed into the store, or loaded.
Import(i) ==
    /\ Spend
    /\ \E ok \in BOOLEAN : SetMeta(i, "ready", ok)
    /\ IF i \in VmImages
       THEN /\ file' = [file EXCEPT ![i] = Fresh]
            /\ data' = [data EXCEPT ![Fresh] = Whole]
            /\ UNCHANGED docker
       ELSE docker' = docker \cup {i} /\ UNCHANGED <<file, data>>
    /\ loose' = IF Active(i) # {} \/ deleting = i THEN loose \cup {i} ELSE loose \ {i}
    /\ UNCHANGED <<part, job, deleting>>

\* Delete: first the file (or the image in Docker), then the entry.
DeleteFile(i) ==
    /\ deleting = None /\ index[i] # "none"
    /\ Spend
    /\ deleting' = i
    /\ file' = IF i \in VmImages THEN [file EXCEPT ![i] = None] ELSE file
    /\ docker' = docker \ {i}
    /\ loose' = IF Active(i) # {} THEN loose \cup {i} ELSE loose
    /\ UNCHANGED <<index, saved, data, part, job>>

DeleteEntry ==
    /\ deleting # None
    /\ \E ok \in BOOLEAN : /\ Fault(~ok)
                           /\ SetMeta(deleting, "none", ok)
                           /\ loose' = IF ok THEN loose ELSE loose \cup {deleting}
    /\ deleting' = None
    /\ UNCHANGED <<data, file, part, docker, job>>

\* The daemon stops.  Open: index.json is read again and a download it still
\* shows as running is recorded as failed.
Restart ==
    /\ index' = [i \in ImageNames |-> IF saved[i] = "downloading" THEN "failed" ELSE saved[i]]
    /\ saved' = index'
    /\ job' = [j \in Jobs |-> Idle]
    /\ deleting' = None
    /\ loose' = IF deleting = None THEN loose ELSE loose \cup {deleting}
    /\ UNCHANGED <<data, file, part, docker>>

DownloadStep(j) ==
    \/ StatPart(j) \/ Break(j) \/ NothingLeft(j) \/ OpenPart(j)
    \/ ReadBlock(j) \/ Finish(j) \/ Register(j)

ImagesNext ==
    \/ \E j \in Jobs : DownloadStep(j) \/ \E i \in ImageNames : DownloadStart(j, i)
    \/ \E i \in ImageNames : Import(i) \/ DeleteFile(i)
    \/ DeleteEntry
    \/ Spend /\ Restart

ImagesSpec == /\ ImagesInit({}) /\ events = 0
              /\ [][ImagesNext]_<<imgVars, events>>
-----------------------------------------------------------------------------
Job == [image : ImageNames \cup {None}, pc : {"idle", "stat", "open", "read", "stored"},
        offset : Nat, inode : Inodes \cup {None}, append : BOOLEAN,
        hash : Seq(0 .. Blocks), fault : BOOLEAN]

ImagesTypeOK ==
    /\ index \in [ImageNames -> States] /\ saved \in [ImageNames -> States]
    /\ data \in [Inodes -> Seq(0 .. Blocks)]
    /\ file \in [ImageNames -> Inodes \cup {None}]
    /\ part \in [ImageNames -> Inodes \cup {None}]
    /\ docker \subseteq CtImages /\ loose \subseteq ImageNames
    /\ deleting \in ImageNames \cup {None} /\ events \in 0 .. MaxEvents
    /\ job \in [Jobs -> Job]

(***************************************************************************)
(* An image shown as ready is complete and has the content its sha256      *)
(* promises, across broken and resumed downloads, wrong content, restarts  *)
(* and failures to save the index.  Excepted are the images of loose: two  *)
(* operations on one name overlapped (nothing excludes them: both write    *)
(* one .part, and each hashes what it received, not what the file holds),  *)
(* or a deletion stopped between the file and the entry.                   *)
(***************************************************************************)
ReadyVerified ==
    \A i \in VmImages :
        index[i] = "ready" /\ i \notin loose \cup {deleting}
            => file[i] # None /\ data[file[i]] = Whole

(***************************************************************************)
(* "The part already downloaded is kept in .part; running the same command *)
(* again resumes from there" (download.go): a download that meets no       *)
(* fault, and no other operation on its image, does not fail.              *)
(***************************************************************************)
RetryResumes ==
    [][\A j \in Jobs :
          job[j] # Idle /\ job'[j] = Idle /\ index'[job[j].image] = "failed"
             => events' # events \/ job[j].fault \/ job[j].image \in loose]_<<imgVars, events>>

=============================================================================
