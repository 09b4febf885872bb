--------------------------- MODULE WorkloadsProofs --------------------------
(***************************************************************************)
(* Theorems about Images and about Workloads, for any number of machines,  *)
(* containers, images, downloads and blocks, every set of configurations,  *)
(* and any number of commits, recoveries, requests, faults and crashes.    *)
(***************************************************************************)
EXTENDS Workloads, FiniteSetTheorems, FunctionTheorems, SequenceTheorems, TLAPS

-----------------------------------------------------------------------------
(* The image store: Images by itself *)

Reading(j) == job[j].pc = "read"

\* A download that nothing overlaps is alone with its image, continues where its
\* .part ends, and has hashed what the .part holds.
JobOK(j) ==
    /\ job[j] = Idle \/ (job[j].pc # "idle" /\ job[j].image \in ImageNames)
    /\ job[j].image \in ImageNames \ loose =>
         /\ Active(job[j].image) = {j} /\ deleting # job[j].image
         /\ job[j].pc = "open" =>
              job[j].offset = IF part[job[j].image] = None THEN 0
                              ELSE Len(data[part[job[j].image]])
         /\ Reading(j) => /\ part[job[j].image] = job[j].inode
                          /\ data[job[j].inode] = job[j].hash

JobInv == \A j \in Jobs : JobOK(j)

\* No inode is under two names, and what a download writes is of its own image.
InodeInv ==
    /\ \A x, y \in ImageNames : part[x] # None =>
         (x # y => part[x] # part[y]) /\ part[x] # file[y]
    /\ \A j \in Jobs : Reading(j) =>
         /\ job[j].inode \in Inodes
         /\ \A x \in ImageNames : job[j].inode \in {part[x], file[x]} => x = job[j].image
         /\ \A k \in Jobs : Reading(k) /\ job[k].inode = job[j].inode => job[k].image = job[j].image

Arrived(i) == \E j \in Jobs : job[j].image = i /\ job[j].pc = "stored"
Good(i) == file[i] # None /\ data[file[i]] = Whole

\* What is ready, is about to be, or would be after a restart, is in the store.
ReadyInv ==
    \A i \in VmImages \ (loose \cup {deleting}) :
        index[i] = "ready" \/ saved[i] = "ready" \/ Arrived(i) => Good(i)

IInv == ImagesTypeOK /\ JobInv /\ InodeInv /\ ReadyInv

-----------------------------------------------------------------------------
(* A new file *)

\* There is an inode that no name and no handle refers to.
LEMMA FreshInode ==
    ASSUME ImagesTypeOK
    PROVE  /\ Fresh \in Inodes /\ Fresh # None
           /\ \A i \in ImageNames : file[i] # Fresh /\ part[i] # Fresh
           /\ \A j \in Jobs : job[j].inode # Fresh
<1> DEFINE J == {job[j].inode : j \in Jobs}
           f == [j \in Jobs |-> job[j].inode]
<1>1. IsFiniteSet(Jobs) /\ Cardinality(Jobs) \in Nat
    BY ImagesAssumption, FS_CardinalityType
<1>2. IsFiniteSet(ImageNames) /\ Cardinality(ImageNames) \in Nat
    <2>1. IsFiniteSet(ImageNames)
        BY ImagesAssumption, FS_Union DEF ImageNames
    <2> QED
        BY <2>1, FS_CardinalityType
<1>3. IsFiniteSet(J) /\ Cardinality(J) <= Cardinality(Jobs)
    <2>1. f \in Surjection(Jobs, J)
        BY DEF Surjection
    <2> QED
        BY <1>1, <2>1, FS_Surjection
<1>4. \A g \in [ImageNames -> Inodes \cup {None}] :
        IsFiniteSet(Range(g)) /\ Cardinality(Range(g)) <= Cardinality(ImageNames)
    <2> SUFFICES ASSUME NEW g \in [ImageNames -> Inodes \cup {None}]
                 PROVE  IsFiniteSet(Range(g)) /\ Cardinality(Range(g)) <= Cardinality(ImageNames)
        OBVIOUS
    <2>1. g \in Surjection(ImageNames, Range(g))
        BY DEF Surjection, Range
    <2> QED
        BY <1>2, <2>1, FS_Surjection
<1>5. /\ IsFiniteSet(Range(file)) /\ Cardinality(Range(file)) <= Cardinality(ImageNames)
      /\ IsFiniteSet(Range(part)) /\ Cardinality(Range(part)) <= Cardinality(ImageNames)
    BY <1>4 DEF ImagesTypeOK
<1>6. IsFiniteSet(Held) /\ Cardinality(Held) <= Cardinality(Jobs) + 2 * Cardinality(ImageNames)
    <2>1. /\ IsFiniteSet(J \cup Range(file))
          /\ Cardinality(J \cup Range(file)) <= Cardinality(Jobs) + Cardinality(ImageNames)
        <3>1. IsFiniteSet(J \cap Range(file))
            BY <1>3, FS_Subset
        <3>2. /\ Cardinality(J) \in Nat /\ Cardinality(Range(file)) \in Nat
              /\ Cardinality(J \cap Range(file)) \in Nat
            BY <1>3, <1>5, <3>1, FS_CardinalityType
        <3>3. /\ IsFiniteSet(J \cup Range(file))
              /\ Cardinality(J \cup Range(file)) =
                   Cardinality(J) + Cardinality(Range(file)) - Cardinality(J \cap Range(file))
            BY <1>3, <1>5, FS_Union
        <3> QED
            BY <1>1, <1>2, <1>3, <1>5, <3>2, <3>3
    <2>2. /\ IsFiniteSet(J \cup Range(file) \cup Range(part))
          /\ Cardinality(J \cup Range(file) \cup Range(part)) <=
               Cardinality(J \cup Range(file)) + Cardinality(Range(part))
        <3> DEFINE A == J \cup Range(file)
        <3>0. IsFiniteSet(A)
            BY <2>1
        <3> HIDE DEF A
        <3>1. IsFiniteSet(A \cap Range(part))
            BY <3>0, FS_Subset
        <3>2. /\ Cardinality(A) \in Nat /\ Cardinality(Range(part)) \in Nat
              /\ Cardinality(A \cap Range(part)) \in Nat
            BY <3>0, <1>5, <3>1, FS_CardinalityType
        <3>3. /\ IsFiniteSet(A \cup Range(part))
              /\ Cardinality(A \cup Range(part)) =
                   Cardinality(A) + Cardinality(Range(part)) - Cardinality(A \cap Range(part))
            BY <3>0, <1>5, FS_Union
        <3>4. /\ IsFiniteSet(A \cup Range(part))
              /\ Cardinality(A \cup Range(part)) <= Cardinality(A) + Cardinality(Range(part))
            BY <3>2, <3>3
        <3> QED
            BY <3>4 DEF A
    <2>3. Held = J \cup Range(file) \cup Range(part)
        BY DEF Held
    <2>4. /\ Cardinality(J \cup Range(file)) \in Nat /\ Cardinality(Range(part)) \in Nat
          /\ Cardinality(Held) \in Nat
        BY <1>5, <2>1, <2>2, <2>3, FS_CardinalityType
    <2> QED
        BY <1>1, <1>2, <1>5, <2>1, <2>2, <2>3, <2>4
<1>7. IsFiniteSet(Inodes)
      /\ Cardinality(Inodes) = Cardinality(Jobs) + 2 * Cardinality(ImageNames) + 1
    <2>1. Cardinality(Jobs) + 2 * Cardinality(ImageNames) + 1 \in Nat
        BY <1>1, <1>2
    <2> QED
        BY <2>1, <1>1, <1>2, FS_Interval DEF Inodes
<1>8. \E n \in Inodes : n \notin Held
    <2> SUFFICES ASSUME Inodes \subseteq Held PROVE FALSE
        OBVIOUS
    <2>1. Cardinality(Inodes) <= Cardinality(Held)
        BY <1>6, FS_Subset
    <2>2. Cardinality(Held) \in Nat
        BY <1>6, FS_CardinalityType
    <2> QED
        BY <1>1, <1>2, <1>6, <1>7, <2>1, <2>2
<1>9. Fresh \in Inodes /\ Fresh \notin Held
    BY <1>8 DEF Fresh
<1>10. \A i \in ImageNames : file[i] \in Held /\ part[i] \in Held
    BY DEF Held, Range, ImagesTypeOK
<1>11. \A j \in Jobs : job[j].inode \in Held
    BY DEF Held
<1>12. Inodes \subseteq Nat
    BY <1>1, <1>2 DEF Inodes
<1> QED
    BY <1>9, <1>10, <1>11, <1>12, ImagesAssumption

-----------------------------------------------------------------------------
(* Type correctness *)

LEMMA NoneInode == None \notin Inodes
<1>1. IsFiniteSet(ImageNames)
    BY ImagesAssumption, FS_Union DEF ImageNames
<1>2. Cardinality(Jobs) \in Nat /\ Cardinality(ImageNames) \in Nat
    BY <1>1, ImagesAssumption, FS_CardinalityType
<1> QED
    BY <1>2, ImagesAssumption DEF Inodes

LEMMA PrefixType ==
    ASSUME NEW S, NEW s \in Seq(S), NEW k \in 0 .. Len(s)
    PROVE  SubSeq(s, 1, k) \in Seq(S) /\ (k = Len(s) => SubSeq(s, 1, k) = s)
<1>1. k \in Nat /\ Len(s) \in Nat /\ k <= Len(s)
    BY LenProperties
<1>2. \A m \in 1 .. k : s[m] \in S
    BY <1>1
<1> QED
    BY <1>1, <1>2, SubSeqProperties, SubSeqFull

LEMMA WholeType == Whole \in Seq(0 .. Blocks) /\ Len(Whole) = Blocks
<1>1. Blocks \in Nat /\ \A k \in 1 .. Blocks : k \in 0 .. Blocks
    BY ImagesAssumption
<1> QED
    BY <1>1 DEF Whole

LEMMA IdleType == Idle \in Job /\ Idle.pc = "idle" /\ Idle.image = None /\ Idle.inode = None
<1>1. << >> \in Seq(0 .. Blocks)
    OBVIOUS
<1> QED
    BY <1>1 DEF Idle, Job

LEMMA SetMetaType ==
    ASSUME ImagesTypeOK, NEW i \in ImageNames, NEW state \in States, NEW ok \in BOOLEAN,
           SetMeta(i, state, ok)
    PROVE  index' \in [ImageNames -> States] /\ saved' \in [ImageNames -> States]
BY DEF ImagesTypeOK, SetMeta

LEMMA SpendType ==
    ASSUME events \in 0 .. MaxEvents, Spend \/ UNCHANGED events
    PROVE  events' \in 0 .. MaxEvents
BY ImagesAssumption DEF Spend

LEMMA FailedType ==
    ASSUME ImagesTypeOK, NEW j \in Jobs, job[j].image \in ImageNames, NEW ok \in BOOLEAN, Failed(j, ok)
    PROVE  /\ index' \in [ImageNames -> States] /\ saved' \in [ImageNames -> States]
           /\ job' \in [Jobs -> Job]
<1>1. "failed" \in States
    BY DEF States
<1> QED
    BY <1>1, SetMetaType, IdleType DEF Failed, ImagesTypeOK

\* A download at work has an image.
LEMMA JobImage ==
    ASSUME ImagesTypeOK, JobInv, NEW j \in Jobs, job[j].pc # "idle"
    PROVE  job[j].image \in ImageNames
BY IdleType DEF JobInv, JobOK

LEMMA OpenType ==
    ASSUME ImagesTypeOK, JobInv, NEW j \in Jobs, OpenPart(j)
    PROVE  ImagesTypeOK'
<1> DEFINE i == job[j].image
           n == IF part[i] = None THEN Fresh ELSE part[i]
           old == IF part[i] = None THEN << >> ELSE data[n]
<1>1. i \in ImageNames /\ job[j] \in Job
    BY JobImage DEF OpenPart, ImagesTypeOK
<1>2. n \in Inodes /\ old \in Seq(0 .. Blocks) /\ << >> \in Seq(0 .. Blocks)
    <2>1. << >> \in Seq(0 .. Blocks)
        OBVIOUS
    <2>2. part[i] = None => n = Fresh /\ old = << >>
        OBVIOUS
    <2>3. part[i] # None => n = part[i] /\ n \in Inodes /\ old = data[n]
        BY <1>1 DEF ImagesTypeOK
    <2>4. data \in [Inodes -> Seq(0 .. Blocks)]
        BY DEF ImagesTypeOK
    <2> HIDE DEF n, old
    <2> QED
        BY <2>1, <2>2, <2>3, <2>4, FreshInode
<1>3. PICK resuming \in BOOLEAN :
        /\ resuming => job[j].offset \in 1 .. Blocks - 1
        /\ data' = [data EXCEPT ![n] = IF resuming THEN old ELSE <<>>]
        /\ IF resuming /\ Len(old) < job[j].offset
           THEN Failed(j, TRUE)
           ELSE /\ job' = [job EXCEPT ![j].pc = "read", ![j].inode = n, ![j].append = resuming,
                                      ![j].hash = IF resuming THEN SubSeq(old, 1, job[j].offset)
                                                              ELSE <<>>]
                /\ UNCHANGED <<index, saved>>
    BY DEF OpenPart
<1>4. part' = [part EXCEPT ![i] = n]
    BY DEF OpenPart
<1>5. data' \in [Inodes -> Seq(0 .. Blocks)] /\ part' \in [ImageNames -> Inodes \cup {None}]
    BY <1>1, <1>2, <1>3, <1>4 DEF ImagesTypeOK
<1>6. /\ index' \in [ImageNames -> States] /\ saved' \in [ImageNames -> States]
      /\ job' \in [Jobs -> Job]
    <2>1. CASE resuming /\ Len(old) < job[j].offset
        BY <1>1, <1>3, <2>1, FailedType
    <2>2. CASE ~(resuming /\ Len(old) < job[j].offset)
        <3> DEFINE h == IF resuming THEN SubSeq(old, 1, job[j].offset) ELSE <<>>
        <3>1. h \in Seq(0 .. Blocks)
            <4>1. CASE resuming
                <5>1. job[j].offset \in 0 .. Len(old) /\ Len(old) \in Nat
                    BY <1>2, <1>3, <2>2, <4>1, ImagesAssumption
                <5>2. \A k \in 0 .. Len(old) : SubSeq(old, 1, k) \in Seq(0 .. Blocks)
                    <6> HIDE DEF old
                    <6> QED
                        BY <1>2, PrefixType
                <5> QED
                    BY <4>1, <5>1, <5>2
            <4> QED
                BY <1>2, <4>1
        <3>2. job' = [job EXCEPT ![j].pc = "read", ![j].inode = n, ![j].append = resuming,
                                 ![j].hash = h]
            BY <1>3, <2>2
        <3>3. UNCHANGED <<index, saved>>
            BY <1>3, <2>2
        <3>4. job' \in [Jobs -> Job]
            <4> HIDE DEF h, n
            <4>1. [job[j] EXCEPT !.pc = "read", !.inode = n, !.append = resuming, !.hash = h] \in Job
                BY <1>1, <1>2, <3>1 DEF Job
            <4>2. job' = [job EXCEPT ![j] = [job[j] EXCEPT !.pc = "read", !.inode = n,
                                                           !.append = resuming, !.hash = h]]
                BY <1>1, <3>2 DEF ImagesTypeOK
            <4> QED
                BY <4>1, <4>2 DEF ImagesTypeOK
        <3> QED
            BY <3>3, <3>4 DEF ImagesTypeOK
    <2> QED
        BY <2>1, <2>2
<1> QED
    BY <1>5, <1>6 DEF OpenPart, ImagesTypeOK

\* What a block that arrives does to the file, wherever the handle is.
LEMMA BlockType ==
    ASSUME Blocks \in Nat, NEW d \in Seq(0 .. Blocks), NEW k \in Nat \ {0}, NEW b \in 0 .. Blocks
    PROVE  /\ Append(d, b) \in Seq(0 .. Blocks)
           /\ k <= Len(d) => [d EXCEPT ![k] = b] \in Seq(0 .. Blocks)
           /\ [[m \in 1 .. k |-> IF m <= Len(d) THEN d[m] ELSE 0] EXCEPT ![k] = b]
                \in Seq(0 .. Blocks)
           /\ k = Len(d) + 1 =>
                [[m \in 1 .. k |-> IF m <= Len(d) THEN d[m] ELSE 0] EXCEPT ![k] = b] = Append(d, b)
<1>1. Append(d, b) \in Seq(0 .. Blocks)
    BY AppendProperties
<1>2. ASSUME k <= Len(d) PROVE [d EXCEPT ![k] = b] \in Seq(0 .. Blocks)
    BY <1>2, ExceptSeq
<1>3. [[m \in 1 .. k |-> IF m <= Len(d) THEN d[m] ELSE 0] EXCEPT ![k] = b] \in Seq(0 .. Blocks)
    <2> DEFINE gap == [m \in 1 .. k |-> IF m <= Len(d) THEN d[m] ELSE 0]
    <2>1. gap \in [1 .. k -> 0 .. Blocks]
        <3>1. \A m \in 1 .. k : m <= Len(d) => d[m] \in 0 .. Blocks
            BY ElementOfSeq
        <3> QED
            BY <3>1
    <2>2. [gap EXCEPT ![k] = b] \in [1 .. k -> 0 .. Blocks]
        <3> HIDE DEF gap
        <3> QED
            BY <2>1
    <2> QED
        BY <2>2, IsASeq
<1>4. ASSUME k = Len(d) + 1
      PROVE  [[m \in 1 .. k |-> IF m <= Len(d) THEN d[m] ELSE 0] EXCEPT ![k] = b] = Append(d, b)
    <2> DEFINE g == [[m \in 1 .. k |-> IF m <= Len(d) THEN d[m] ELSE 0] EXCEPT ![k] = b]
    <2>1. Len(d) \in Nat
        BY LenProperties
    <2>2. g \in Seq(0 .. Blocks) /\ DOMAIN g = 1 .. k
        BY <1>3
    <2>3. Len(g) = k
        <3> HIDE DEF g
        <3> QED
            BY <2>2, LenProperties
    <2>4. g[k] = b /\ \A m \in 1 .. Len(d) : g[m] = d[m]
        BY <1>4, <2>1
    <2> HIDE DEF g
    <2>5. \A m \in 1 .. Len(g) : g[m] = Append(d, b)[m]
        BY <1>4, <2>1, <2>3, <2>4, AppendProperties
    <2>6. Len(Append(d, b)) = Len(g)
        BY <1>4, <2>3, AppendProperties
    <2> QED
        BY <1>1, <2>2, <2>5, <2>6, SeqEqual DEF g
<1> QED
    BY <1>1, <1>2, <1>3, <1>4

LEMMA ReadType ==
    ASSUME ImagesTypeOK, JobInv, InodeInv, NEW j \in Jobs, ReadBlock(j)
    PROVE  ImagesTypeOK'
<1> DEFINE k == Len(job[j].hash) + 1
           n == job[j].inode
           gap == [m \in 1 .. k |-> IF m <= Len(data[n]) THEN data[n][m] ELSE 0]
<1>1. job[j].pc = "read" /\ k <= Blocks
    BY DEF ReadBlock
<1>2. job[j].image \in ImageNames /\ job[j] \in Job /\ n \in Inodes /\ Blocks \in Nat
    BY <1>1, JobImage, ImagesAssumption DEF ImagesTypeOK, InodeInv, Reading
<1>3. job[j].hash \in Seq(0 .. Blocks) /\ k \in Nat \ {0} /\ data[n] \in Seq(0 .. Blocks)
    BY <1>2 DEF ImagesTypeOK, Job
<1>4. PICK faulty \in BOOLEAN :
        LET b == IF faulty THEN 0 ELSE k
        IN /\ Fault(faulty)
           /\ data' = [data EXCEPT ![n] =
                IF job[j].append THEN Append(data[n], b)
                ELSE IF k <= Len(data[n]) THEN [data[n] EXCEPT ![k] = b]
                ELSE [gap EXCEPT ![k] = b]]
           /\ job' = [job EXCEPT ![j].hash = Append(@, b), ![j].fault = @ \/ faulty]
    BY DEF ReadBlock
<1> DEFINE b == IF faulty THEN 0 ELSE k
<1>5. b \in 0 .. Blocks
    BY <1>1, <1>2, <1>3
<1>6. data' \in [Inodes -> Seq(0 .. Blocks)]
    <2> DEFINE w == IF job[j].append THEN Append(data[n], b)
                    ELSE IF k <= Len(data[n]) THEN [data[n] EXCEPT ![k] = b]
                    ELSE [gap EXCEPT ![k] = b]
    <2>1. w \in Seq(0 .. Blocks)
        <3> HIDE DEF b, n, k
        <3> QED
            BY <1>2, <1>3, <1>5, BlockType
    <2>2. data' = [data EXCEPT ![n] = w]
        BY <1>4
    <2> HIDE DEF w, n
    <2> QED
        BY <1>2, <2>1, <2>2 DEF ImagesTypeOK
<1>7. job' \in [Jobs -> Job]
    <2> HIDE DEF b
    <2>1. Append(job[j].hash, b) \in Seq(0 .. Blocks)
        BY <1>3, <1>5, AppendProperties
    <2>2. (job[j].fault \/ faulty) \in BOOLEAN
        BY <1>2 DEF Job
    <2>3. job' = [job EXCEPT ![j].hash = Append(@, b), ![j].fault = @ \/ faulty]
        BY <1>4 DEF b
    <2>4. [job[j] EXCEPT !.hash = Append(job[j].hash, b), !.fault = job[j].fault \/ faulty] \in Job
        BY <1>2, <2>1, <2>2 DEF Job
    <2>5. job' = [job EXCEPT ![j] = [job[j] EXCEPT !.hash = Append(job[j].hash, b),
                                                   !.fault = job[j].fault \/ faulty]]
        BY <2>3 DEF ImagesTypeOK
    <2> QED
        BY <2>4, <2>5 DEF ImagesTypeOK
<1>8. events' \in 0 .. MaxEvents
    BY <1>4, SpendType DEF Fault, ImagesTypeOK
<1>9. index' \in [ImageNames -> States] /\ saved' \in [ImageNames -> States]
    <2>1. SetMeta(job[j].image, "downloading", TRUE) /\ "downloading" \in States
        BY DEF ReadBlock, States
    <2> QED
        BY <1>2, <2>1, SetMetaType
<1> QED
    BY <1>6, <1>7, <1>8, <1>9 DEF ReadBlock, ImagesTypeOK

LEMMA StartType ==
    ASSUME ImagesTypeOK, NEW j \in Jobs, NEW i \in ImageNames, DownloadStart(j, i)
    PROVE  ImagesTypeOK'
<1>1. PICK ok \in BOOLEAN :
        /\ IF ok THEN Spend ELSE events + 1 < MaxEvents /\ events' = events + 2
        /\ SetMeta(i, "downloading", ok)
        /\ job' = IF ok THEN [job EXCEPT ![j] = [Idle EXCEPT !.image = i, !.pc = "stat"]] ELSE job
        /\ loose' = IF Overlaps(i, j) THEN loose \cup {i}
                    ELSE IF i \in CtImages \/ ~ok THEN loose ELSE loose \ {i}
    BY DEF DownloadStart
<1>2. index' \in [ImageNames -> States] /\ saved' \in [ImageNames -> States]
    <2>1. "downloading" \in States
        BY DEF States
    <2> QED
        BY <1>1, <2>1, SetMetaType
<1>3. [Idle EXCEPT !.image = i, !.pc = "stat"] \in Job
    BY IdleType DEF Idle, Job
<1>4. job' \in [Jobs -> Job]
    BY <1>1, <1>3 DEF ImagesTypeOK
<1>5. events' \in 0 .. MaxEvents
    <2>1. CASE ok
        BY <1>1, <2>1, SpendType DEF ImagesTypeOK
    <2>2. CASE ~ok
        BY <1>1, <2>2, ImagesAssumption DEF ImagesTypeOK
    <2> QED
        BY <2>1, <2>2
<1>6. loose' \subseteq ImageNames
    BY <1>1 DEF ImagesTypeOK
<1> QED
    BY <1>2, <1>4, <1>5, <1>6 DEF DownloadStart, ImagesTypeOK

LEMMA OtherTypes ==
    ASSUME ImagesTypeOK, JobInv, NEW j \in Jobs,
           StatPart(j) \/ Break(j) \/ NothingLeft(j) \/ Finish(j) \/ Register(j)
    PROVE  ImagesTypeOK'
<1> USE DEF ImagesTypeOK
<1>1. job[j].image \in ImageNames /\ job[j] \in Job
    BY JobImage DEF StatPart, Break, NothingLeft, Finish, Register
<1>2. CASE StatPart(j)
    <2> DEFINE off == LET n == part[job[j].image] IN IF n = None THEN 0 ELSE Len(data[n])
    <2>1. off \in Nat
        <3>1. part[job[j].image] # None => data[part[job[j].image]] \in Seq(0 .. Blocks)
            BY <1>1
        <3> QED
            BY <3>1, LenProperties
    <2>2. job' = [job EXCEPT ![j].pc = "open", ![j].offset = off]
        BY <1>2 DEF StatPart
    <2> HIDE DEF off
    <2>3. [job[j] EXCEPT !.pc = "open", !.offset = off] \in Job
        BY <1>1, <2>1 DEF Job
    <2>4. job' = [job EXCEPT ![j] = [job[j] EXCEPT !.pc = "open", !.offset = off]]
        BY <2>2
    <2>5. job' \in [Jobs -> Job]
        BY <2>3, <2>4
    <2> QED
        BY <1>2, <2>5 DEF StatPart
<1>3. CASE Break(j)
    BY <1>1, <1>3, FailedType, SpendType DEF Break, Fault
<1>4. CASE NothingLeft(j)
    BY <1>1, <1>4, FailedType DEF NothingLeft
<1>5. CASE Finish(j)
    <2>1. part' \in [ImageNames -> Inodes \cup {None}]
        BY <1>5 DEF Finish
    <2>2. file' \in [ImageNames -> Inodes \cup {None}]
        BY <1>1, <1>5 DEF Finish
    <2>3. /\ index' \in [ImageNames -> States] /\ saved' \in [ImageNames -> States]
          /\ job' \in [Jobs -> Job]
        <3>1. CASE Failed(j, TRUE)
            BY <1>1, <3>1, FailedType
        <3>2. CASE job' = [job EXCEPT ![j].pc = "stored"] /\ UNCHANGED <<index, saved>>
            <4>1. [job[j] EXCEPT !.pc = "stored"] \in Job
                BY <1>1 DEF Job
            <4>2. job' = [job EXCEPT ![j] = [job[j] EXCEPT !.pc = "stored"]]
                BY <3>2
            <4> QED
                BY <3>2, <4>1, <4>2
        <3> QED
            BY <1>5, <3>1, <3>2 DEF Finish
    <2> QED
        BY <1>5, <2>1, <2>2, <2>3 DEF Finish
<1>6. CASE Register(j)
    <2>1. PICK ok \in BOOLEAN, loads \in BOOLEAN :
            /\ Fault(~ok \/ (~loads /\ file[job[j].image] # None))
            /\ IF loads THEN SetMeta(job[j].image, "ready", ok) /\ job' = [job EXCEPT ![j] = Idle]
                        ELSE Failed(j, ok)
            /\ docker' = IF job[j].image \in CtImages /\ loads
                         THEN docker \cup {job[j].image} ELSE docker
            /\ file' = IF job[j].image \in CtImages /\ loads
                       THEN [file EXCEPT ![job[j].image] = None] ELSE file
        BY <1>6 DEF Register
    <2>2. /\ index' \in [ImageNames -> States] /\ saved' \in [ImageNames -> States]
          /\ job' \in [Jobs -> Job]
        <3>1. CASE loads
            <4>1. "ready" \in States
                BY DEF States
            <4>2. SetMeta(job[j].image, "ready", ok) /\ job' = [job EXCEPT ![j] = Idle]
                BY <2>1, <3>1
            <4> QED
                BY <1>1, <4>1, <4>2, SetMetaType, IdleType
        <3>2. CASE ~loads
            BY <1>1, <2>1, <3>2, FailedType
        <3> QED
            BY <3>1, <3>2
    <2>3. docker' \subseteq CtImages /\ file' \in [ImageNames -> Inodes \cup {None}]
        BY <2>1
    <2>4. events' \in 0 .. MaxEvents
        BY <2>1, SpendType DEF Fault
    <2> QED
        BY <1>6, <2>2, <2>3, <2>4 DEF Register
<1> QED
    BY <1>2, <1>3, <1>4, <1>5, <1>6

\* There are more inodes than images: a store can hold any of them.
LEMMA InodesSuffice == \E f \in [VmImages -> Inodes] : IsInjective(f)
<1> DEFINE n == Cardinality(VmImages)
<1>1. IsFiniteSet(ImageNames) /\ VmImages \in SUBSET ImageNames
    BY ImagesAssumption, FS_Union DEF ImageNames
<1>2. n \in Nat /\ Cardinality(ImageNames) \in Nat /\ n <= Cardinality(ImageNames)
    BY <1>1, FS_Subset, FS_CardinalityType, ImagesAssumption
<1>3. Cardinality(Jobs) \in Nat
    BY ImagesAssumption, FS_CardinalityType
<1>4. PICK g \in Bijection(1 .. n, VmImages) : TRUE
    BY ImagesAssumption, FS_CardinalityType, Fun_ExistsBij
<1>5. PICK f \in Bijection(VmImages, 1 .. n) : TRUE
    BY <1>4, Fun_BijInverse
<1>6. f \in [VmImages -> 1 .. n] /\ IsInjective(f)
    BY <1>5 DEF Bijection, Injection
<1>7. \A k \in 1 .. n : k \in Inodes
    BY <1>2, <1>3 DEF Inodes
<1> QED
    BY <1>6, <1>7

LEMMA InitTypeOK ==
    ASSUME NEW S \in SUBSET ImageNames, ImagesInit(S), events = 0
    PROVE  /\ ImagesTypeOK
           /\ \A i \in S \cap VmImages : file[i] \in Inodes /\ data[file[i]] = Whole
<1> DEFINE inode == CHOOSE f \in [VmImages -> Inodes] : IsInjective(f)
<1>0. inode \in [VmImages -> Inodes]
    BY InodesSuffice
<1>1. /\ file = [i \in ImageNames |-> IF i \in S \cap VmImages THEN inode[i] ELSE None]
      /\ data = [n \in Inodes |-> IF n \in Range(file) THEN Whole ELSE << >>]
    BY DEF ImagesInit
<1>2. file \in [ImageNames -> Inodes \cup {None}]
    BY <1>0, <1>1
<1>3. data \in [Inodes -> Seq(0 .. Blocks)]
    <2>1. << >> \in Seq(0 .. Blocks)
        OBVIOUS
    <2> QED
        BY <1>1, <2>1, WholeType
<1>4. \A i \in S \cap VmImages : file[i] \in Inodes /\ data[file[i]] = Whole
    BY <1>0, <1>1 DEF ImageNames, Range
<1>5. job \in [Jobs -> Job]
    BY IdleType DEF ImagesInit
<1>6. index \in [ImageNames -> States] /\ saved \in [ImageNames -> States]
    BY DEF ImagesInit, States
<1>7. part \in [ImageNames -> Inodes \cup {None}] /\ docker \subseteq CtImages
      /\ loose \subseteq ImageNames /\ deleting \in ImageNames \cup {None} /\ events \in 0 .. MaxEvents
    BY ImagesAssumption DEF ImagesInit
<1> QED
    BY <1>2, <1>3, <1>4, <1>5, <1>6, <1>7 DEF ImagesTypeOK

LEMMA TypeStep ==
    ImagesTypeOK /\ JobInv /\ InodeInv /\ [ImagesNext]_<<imgVars, events>> => ImagesTypeOK'
<1> SUFFICES ASSUME ImagesTypeOK, JobInv, InodeInv, [ImagesNext]_<<imgVars, events>>
             PROVE  ImagesTypeOK'
    OBVIOUS
<1>1. ASSUME NEW j \in Jobs, DownloadStep(j) PROVE ImagesTypeOK'
    BY <1>1, OpenType, ReadType, OtherTypes DEF DownloadStep
<1>2. ASSUME NEW j \in Jobs, NEW i \in ImageNames, DownloadStart(j, i) PROVE ImagesTypeOK'
    BY <1>2, StartType
<1>3. ASSUME NEW i \in ImageNames, Import(i) PROVE ImagesTypeOK'
    <2>1. index' \in [ImageNames -> States] /\ saved' \in [ImageNames -> States]
        <3>1. "ready" \in States
            BY DEF States
        <3> QED
            BY <1>3, <3>1, SetMetaType DEF Import
    <2>2. file' \in [ImageNames -> Inodes \cup {None}] /\ data' \in [Inodes -> Seq(0 .. Blocks)]
        BY <1>3, FreshInode, WholeType DEF Import, ImagesTypeOK
    <2>3. events' \in 0 .. MaxEvents
        BY <1>3, SpendType DEF Import, ImagesTypeOK
    <2>4. docker' \subseteq CtImages /\ loose' \subseteq ImageNames
        BY <1>3 DEF Import, ImagesTypeOK, ImageNames
    <2> QED
        BY <1>3, <2>1, <2>2, <2>3, <2>4 DEF Import, ImagesTypeOK
<1>4. ASSUME NEW i \in ImageNames, DeleteFile(i) PROVE ImagesTypeOK'
    <2>1. events' \in 0 .. MaxEvents
        BY <1>4, SpendType DEF DeleteFile, ImagesTypeOK
    <2> QED
        BY <1>4, <2>1 DEF DeleteFile, ImagesTypeOK
<1>5. CASE DeleteEntry
    <2>1. PICK ok \in BOOLEAN : /\ Fault(~ok)
                                /\ SetMeta(deleting, "none", ok)
                                /\ loose' = IF ok THEN loose ELSE loose \cup {deleting}
        BY <1>5 DEF DeleteEntry
    <2>2. deleting \in ImageNames /\ "none" \in States
        BY <1>5 DEF DeleteEntry, ImagesTypeOK, States
    <2>3. index' \in [ImageNames -> States] /\ saved' \in [ImageNames -> States]
        BY <2>1, <2>2, SetMetaType
    <2>4. events' \in 0 .. MaxEvents
        BY <2>1, SpendType DEF Fault, ImagesTypeOK
    <2> QED
        BY <1>5, <2>1, <2>2, <2>3, <2>4 DEF DeleteEntry, ImagesTypeOK
<1>6. CASE Spend /\ Restart
    <2>1. events' \in 0 .. MaxEvents
        BY <1>6, SpendType DEF ImagesTypeOK
    <2>2. index' \in [ImageNames -> States] /\ saved' \in [ImageNames -> States]
        BY <1>6 DEF Restart, ImagesTypeOK, States
    <2> QED
        BY <1>6, <2>1, <2>2, IdleType DEF Restart, ImagesTypeOK
<1>7. CASE UNCHANGED <<imgVars, events>>
    BY <1>7 DEF imgVars, ImagesTypeOK
<1> QED
    BY <1>1, <1>2, <1>3, <1>4, <1>5, <1>6, <1>7 DEF ImagesNext

-----------------------------------------------------------------------------
(* JobInv *)

\* A job that does not move, and whose image nobody else works on.
LEMMA KeptJob ==
    ASSUME ImagesTypeOK, JobInv, InodeInv, NEW k \in Jobs, job'[k] = job[k],
           job[k].image \in ImageNames \ loose' =>
             /\ job[k].image \notin loose /\ deleting' # job[k].image
             /\ part'[job[k].image] = part[job[k].image]
             /\ part[job[k].image] # None =>
                  data'[part[job[k].image]] = data[part[job[k].image]]
             /\ \A m \in Jobs : job'[m].image = job[k].image => job[m].image = job[k].image
    PROVE  JobOK(k)'
<1>1. JobOK(k)
    BY DEF JobInv
<1>2. job'[k] = Idle \/ (job'[k].pc # "idle" /\ job'[k].image \in ImageNames)
    BY <1>1 DEF JobOK
<1>3. ASSUME job[k].image \in ImageNames \ loose'
      PROVE  /\ Active(job[k].image)' = {k} /\ deleting' # job[k].image
             /\ job[k].pc = "open" =>
                  job[k].offset = IF part'[job[k].image] = None THEN 0
                                  ELSE Len(data'[part'[job[k].image]])
             /\ job[k].pc = "read" => /\ part'[job[k].image] = job[k].inode
                                      /\ data'[job[k].inode] = job[k].hash
    <2>1. Active(job[k].image)' = {k}
        BY <1>1, <1>3 DEF JobOK, Active
    <2>2. job[k].pc = "read" => part[job[k].image] # None
        BY <1>1, <1>3, NoneInode DEF JobOK, InodeInv, Reading
    <2> QED
        BY <1>1, <1>3, <2>1, <2>2 DEF JobOK, Reading
<1> QED
    BY <1>2, <1>3 DEF JobOK, Reading, Active

LEMMA IdleJob ==
    ASSUME NEW k \in Jobs, job'[k] = Idle
    PROVE  JobOK(k)'
<1>1. job'[k].image = None /\ job'[k].image \notin ImageNames
    BY IdleType, ImagesAssumption DEF ImageNames
<1> QED
    BY <1>1 DEF JobOK

\* A download never writes to the .part of another image.
LEMMA Foreign ==
    ASSUME ImagesTypeOK, InodeInv, NEW x \in ImageNames, NEW j \in Jobs,
           job[j].image \in ImageNames \ {x}, part[x] # None
    PROVE  /\ part[x] # part[job[j].image] /\ part[x] # Fresh
           /\ Reading(j) => job[j].inode # part[x]
BY FreshInode DEF InodeInv

\* The other jobs, while j moves and stays with its image or ends.
LEMMA OtherJobs ==
    ASSUME ImagesTypeOK, JobInv, InodeInv, NEW j \in Jobs, job[j].image \in ImageNames,
           \A k \in Jobs \ {j} : job'[k] = job[k],
           job'[j].image \in {job[j].image, None}, UNCHANGED <<deleting, loose>>,
           \A x \in ImageNames \ {job[j].image} :
             /\ part'[x] = part[x]
             /\ part[x] # None => data'[part[x]] = data[part[x]],
           NEW k \in Jobs \ {j}
    PROVE  JobOK(k)'
<1> SUFFICES ASSUME job[k].image \in ImageNames \ loose
             PROVE  /\ deleting # job[k].image
                    /\ part'[job[k].image] = part[job[k].image]
                    /\ part[job[k].image] # None =>
                         data'[part[job[k].image]] = data[part[job[k].image]]
                    /\ \A m \in Jobs : job'[m].image = job[k].image => job[m].image = job[k].image
    BY KeptJob
<1>1. Active(job[k].image) = {k} /\ deleting # job[k].image
    BY DEF JobInv, JobOK
<1>2. job[j].image # job[k].image
    BY <1>1 DEF Active
<1>3. None \notin ImageNames
    BY ImagesAssumption DEF ImageNames
<1> QED
    BY <1>1, <1>2, <1>3

LEMMA OpenJob ==
    ASSUME ImagesTypeOK, JobInv, InodeInv, NEW j \in Jobs, OpenPart(j)
    PROVE  JobInv'
<1> DEFINE i == job[j].image
           n == IF part[i] = None THEN Fresh ELSE part[i]
           old == IF part[i] = None THEN << >> ELSE data[n]
<1>1. i \in ImageNames /\ job[j].pc = "open" /\ job[j] \in Job
    BY JobImage DEF OpenPart, ImagesTypeOK
<1>2. PICK resuming \in BOOLEAN :
        /\ resuming => job[j].offset \in 1 .. Blocks - 1
        /\ data' = [data EXCEPT ![n] = IF resuming THEN old ELSE <<>>]
        /\ IF resuming /\ Len(old) < job[j].offset
           THEN Failed(j, TRUE)
           ELSE /\ job' = [job EXCEPT ![j].pc = "read", ![j].inode = n, ![j].append = resuming,
                                      ![j].hash = IF resuming THEN SubSeq(old, 1, job[j].offset)
                                                              ELSE <<>>]
                /\ UNCHANGED <<index, saved>>
    BY DEF OpenPart
<1>3. part' = [part EXCEPT ![i] = n] /\ UNCHANGED <<deleting, loose>>
    BY DEF OpenPart
<1>4. n \in Inodes /\ n # None
    BY <1>1, FreshInode, NoneInode DEF ImagesTypeOK
<1>5. \A x \in ImageNames \ {i} :
        part'[x] = part[x] /\ (part[x] # None => data'[part[x]] = data[part[x]])
    <2> SUFFICES ASSUME NEW x \in ImageNames \ {i}
                 PROVE  part'[x] = part[x] /\ (part[x] # None => data'[part[x]] = data[part[x]])
        OBVIOUS
    <2>1. part[x] # None => part[x] # n
        BY <1>1, Foreign
    <2> HIDE DEF n, old
    <2> QED
        BY <1>2, <1>3, <2>1 DEF ImagesTypeOK
<1>6. CASE resuming /\ Len(old) < job[j].offset
    <2>1. job' = [job EXCEPT ![j] = Idle]
        BY <1>2, <1>6 DEF Failed
    <2>2. job'[j] = Idle /\ \A k \in Jobs \ {j} : job'[k] = job[k]
        BY <2>1 DEF ImagesTypeOK
    <2>3. \A k \in Jobs \ {j} : JobOK(k)'
        BY <1>1, <1>3, <1>5, <2>2, IdleType, OtherJobs
    <2> QED
        BY <2>2, <2>3, IdleJob DEF JobInv
<1>7. CASE ~(resuming /\ Len(old) < job[j].offset)
    <2> DEFINE h == IF resuming THEN SubSeq(old, 1, job[j].offset) ELSE <<>>
    <2>1. job' = [job EXCEPT ![j] = [job[j] EXCEPT !.pc = "read", !.inode = n,
                                                   !.append = resuming, !.hash = h]]
        BY <1>2, <1>7 DEF ImagesTypeOK
    <2>2. /\ job'[j].pc = "read" /\ job'[j].inode = n /\ job'[j].hash = h /\ job'[j].image = i
          /\ \A k \in Jobs \ {j} : job'[k] = job[k]
        <3> HIDE DEF h, n
        <3> QED
            BY <1>1, <2>1 DEF ImagesTypeOK, Job
    <2>3. \A k \in Jobs \ {j} : JobOK(k)'
        BY <1>1, <1>3, <1>5, <2>2, OtherJobs
    <2>4. ASSUME i \notin loose PROVE data'[n] = h
        <3>1. CASE ~resuming
            <4> HIDE DEF n, old
            <4> QED
                BY <1>2, <1>4, <3>1 DEF ImagesTypeOK
        <3>2. CASE resuming
            <4>1. job[j].offset = IF part[i] = None THEN 0 ELSE Len(data[part[i]])
                BY <1>1, <2>4 DEF JobInv, JobOK
            <4>2. part[i] # None /\ old \in Seq(0 .. Blocks) /\ job[j].offset = Len(old)
                BY <1>1, <1>2, <3>2, <4>1, ImagesAssumption DEF ImagesTypeOK
            <4>3. h = old
                <5> HIDE DEF old
                <5>1. Len(old) \in 0 .. Len(old)
                    BY <4>2, LenProperties
                <5> QED
                    BY <3>2, <4>2, <5>1, PrefixType
            <4>4. data'[n] = old
                <5> HIDE DEF n, old
                <5> QED
                    BY <1>2, <1>4, <3>2 DEF ImagesTypeOK
            <4> QED
                BY <4>3, <4>4
        <3> QED
            BY <3>1, <3>2
    <2>5. JobOK(j)'
        <3>1. part'[i] = n
            BY <1>1, <1>3 DEF ImagesTypeOK
        <3>2. i \notin loose => Active(i)' = {j} /\ deleting # i
            <4>1. i \notin loose => Active(i) = {j} /\ deleting # i
                BY <1>1 DEF JobInv, JobOK
            <4> QED
                BY <2>2, <4>1 DEF Active
        <3> HIDE DEF n, h, i
        <3> QED
            BY <1>1, <1>3, <2>2, <2>4, <3>1, <3>2 DEF JobOK, Reading, Active
    <2> QED
        BY <2>3, <2>5 DEF JobInv
<1> QED
    BY <1>6, <1>7

LEMMA ReadJob ==
    ASSUME ImagesTypeOK, JobInv, InodeInv, NEW j \in Jobs, ReadBlock(j)
    PROVE  JobInv'
<1> DEFINE i == job[j].image
           n == job[j].inode
           k == Len(job[j].hash) + 1
           gap == [m \in 1 .. k |-> IF m <= Len(data[n]) THEN data[n][m] ELSE 0]
<1>1. /\ i \in ImageNames /\ job[j].pc = "read" /\ job[j] \in Job /\ n \in Inodes
      /\ UNCHANGED <<part, deleting, loose>>
    BY JobImage DEF ReadBlock, ImagesTypeOK, InodeInv, Reading
<1>2. PICK faulty \in BOOLEAN :
        LET b == IF faulty THEN 0 ELSE k
        IN /\ Fault(faulty)
           /\ data' = [data EXCEPT ![n] =
                IF job[j].append THEN Append(data[n], b)
                ELSE IF k <= Len(data[n]) THEN [data[n] EXCEPT ![k] = b]
                ELSE [gap EXCEPT ![k] = b]]
           /\ job' = [job EXCEPT ![j].hash = Append(@, b), ![j].fault = @ \/ faulty]
    BY DEF ReadBlock
<1> DEFINE b == IF faulty THEN 0 ELSE k
           w == IF job[j].append THEN Append(data[n], b)
                ELSE IF k <= Len(data[n]) THEN [data[n] EXCEPT ![k] = b]
                ELSE [gap EXCEPT ![k] = b]
<1>3. /\ job'[j].pc = "read" /\ job'[j].inode = n /\ job'[j].image = i
      /\ job'[j].hash = Append(job[j].hash, b)
      /\ \A m \in Jobs \ {j} : job'[m] = job[m]
    <2> HIDE DEF b
    <2>1. job' = [job EXCEPT ![j].hash = Append(@, b), ![j].fault = @ \/ faulty]
        BY <1>2 DEF b
    <2> QED
        BY <1>1, <2>1 DEF ImagesTypeOK, Job
<1>4. data' = [data EXCEPT ![n] = w]
    BY <1>2
<1>5. \A x \in ImageNames \ {i} : part[x] # None => data'[part[x]] = data[part[x]]
    <2> HIDE DEF w
    <2>1. \A x \in ImageNames \ {i} : part[x] # None => part[x] # n
        BY <1>1, Foreign DEF Reading
    <2> QED
        BY <1>1, <1>4, <2>1 DEF ImagesTypeOK
<1>6. \A m \in Jobs \ {j} : JobOK(m)'
    BY <1>1, <1>3, <1>5, OtherJobs
<1>7. ASSUME i \notin loose
      PROVE  /\ Active(i) = {j} /\ deleting # i /\ part[i] = n /\ data[n] = job[j].hash
    BY <1>1, <1>7 DEF JobInv, JobOK, Reading
<1>8. ASSUME i \notin loose PROVE data'[n] = Append(job[j].hash, b)
    <2>1. data[n] \in Seq(0 .. Blocks) /\ Len(data[n]) \in Nat /\ k = Len(data[n]) + 1
        BY <1>1, <1>7, <1>8 DEF ImagesTypeOK
    <2>2. w = Append(data[n], b)
        <3>1. CASE job[j].append
            BY <3>1
        <3>2. CASE ~job[j].append
            <4>1. w = [gap EXCEPT ![k] = b]
                BY <2>1, <3>2
            <4>2. b \in 0 .. Blocks
                BY <2>1, ImagesAssumption DEF ReadBlock
            <4>3. k \in Nat \ {0}
                BY <2>1
            <4>4. [gap EXCEPT ![k] = b] = Append(data[n], b)
                <5> HIDE DEF b, n, k, w
                <5> QED
                    BY <2>1, <4>2, <4>3, BlockType, ImagesAssumption
            <4> QED
                BY <4>1, <4>4
        <3> QED
            BY <3>1, <3>2
    <2>3. data'[n] = w
        <3> HIDE DEF w
        <3> QED
            BY <1>1, <1>4 DEF ImagesTypeOK
    <2> QED
        BY <1>7, <1>8, <2>2, <2>3
<1>9. JobOK(j)'
    <2>1. i \notin loose => Active(i)' = {j}
        BY <1>3, <1>7 DEF Active
    <2> HIDE DEF n, i, b, k
    <2> QED
        BY <1>1, <1>3, <1>7, <1>8, <2>1 DEF JobOK, Reading, Active
<1> QED
    BY <1>6, <1>9 DEF JobInv

\* The other steps of a download leave the files alone, but for the .part that is
\* renamed or removed.
LEMMA MovedJob ==
    ASSUME ImagesTypeOK, JobInv, InodeInv, NEW j \in Jobs,
           StatPart(j) \/ Break(j) \/ NothingLeft(j) \/ Finish(j) \/ Register(j)
    PROVE  JobInv'
<1>1. job[j].image \in ImageNames /\ job[j] \in Job /\ UNCHANGED <<deleting, loose, data>>
    BY JobImage DEF StatPart, Break, NothingLeft, Finish, Register, ImagesTypeOK
<1>2. \A x \in ImageNames \ {job[j].image} : part'[x] = part[x]
    BY DEF StatPart, Break, NothingLeft, Finish, Register, ImagesTypeOK
<1>3. CASE job' = [job EXCEPT ![j] = Idle]
    <2>1. job'[j] = Idle /\ \A k \in Jobs \ {j} : job'[k] = job[k]
        BY <1>3 DEF ImagesTypeOK
    <2>2. \A k \in Jobs \ {j} : JobOK(k)'
        BY <1>1, <1>2, <2>1, IdleType, OtherJobs
    <2> QED
        BY <2>1, <2>2, IdleJob DEF JobInv
<1>4. CASE Finish(j) /\ job' = [job EXCEPT ![j].pc = "stored"]
    <2>1. job'[j] = [job[j] EXCEPT !.pc = "stored"] /\ \A k \in Jobs \ {j} : job'[k] = job[k]
        BY <1>4 DEF ImagesTypeOK
    <2>2. job'[j].image = job[j].image /\ job'[j].pc = "stored"
        BY <1>1, <2>1 DEF Job
    <2>3. \A k \in Jobs \ {j} : JobOK(k)'
        BY <1>1, <1>2, <2>1, <2>2, OtherJobs
    <2>4. job[j].image \notin loose => Active(job[j].image)' = {j} /\ deleting # job[j].image
        <3>1. job[j].image \notin loose => Active(job[j].image) = {j} /\ deleting # job[j].image
            BY <1>1 DEF JobInv, JobOK
        <3> QED
            BY <2>1, <2>2, <3>1 DEF Active
    <2>5. JobOK(j)'
        BY <1>1, <2>2, <2>4 DEF JobOK, Reading, Active
    <2> QED
        BY <2>3, <2>5 DEF JobInv
<1>5. CASE StatPart(j)
    <2> DEFINE off == LET n == part[job[j].image] IN IF n = None THEN 0 ELSE Len(data[n])
    <2>1. job' = [job EXCEPT ![j].pc = "open", ![j].offset = off] /\ UNCHANGED part
        BY <1>5 DEF StatPart
    <2>2. /\ job'[j].image = job[j].image /\ job'[j].pc = "open" /\ job'[j].offset = off
          /\ \A k \in Jobs \ {j} : job'[k] = job[k]
        <3> HIDE DEF off
        <3> QED
            BY <1>1, <2>1 DEF ImagesTypeOK, Job
    <2>3. \A k \in Jobs \ {j} : JobOK(k)'
        BY <1>1, <1>2, <2>2, OtherJobs
    <2>4. job[j].image \notin loose => Active(job[j].image)' = {j} /\ deleting # job[j].image
        <3>1. job[j].image \notin loose => Active(job[j].image) = {j} /\ deleting # job[j].image
            BY <1>1 DEF JobInv, JobOK
        <3> QED
            BY <2>2, <3>1 DEF Active
    <2>5. off = IF part'[job[j].image] = None THEN 0 ELSE Len(data'[part'[job[j].image]])
        BY <1>1, <2>1
    <2> HIDE DEF off
    <2>6. JobOK(j)'
        BY <1>1, <2>2, <2>4, <2>5 DEF JobOK, Reading, Active
    <2> QED
        BY <2>3, <2>6 DEF JobInv
<1> QED
    BY <1>3, <1>4, <1>5 DEF Break, NothingLeft, Finish, Register, Failed

LEMMA JobStep ==
    ImagesTypeOK /\ JobInv /\ InodeInv /\ [ImagesNext]_<<imgVars, events>> => JobInv'
<1> SUFFICES ASSUME ImagesTypeOK, JobInv, InodeInv, [ImagesNext]_<<imgVars, events>>
             PROVE  JobInv'
    OBVIOUS
<1>0. None \notin ImageNames
    BY ImagesAssumption DEF ImageNames
<1>1. ASSUME NEW j \in Jobs, DownloadStep(j) PROVE JobInv'
    BY <1>1, OpenJob, ReadJob, MovedJob DEF DownloadStep
<1>2. ASSUME NEW j \in Jobs, NEW i \in ImageNames, DownloadStart(j, i) PROVE JobInv'
    <2>1. PICK ok \in BOOLEAN :
            /\ job' = IF ok THEN [job EXCEPT ![j] = [Idle EXCEPT !.image = i, !.pc = "stat"]] ELSE job
            /\ loose' = IF Overlaps(i, j) THEN loose \cup {i}
                        ELSE IF i \in CtImages \/ ~ok THEN loose ELSE loose \ {i}
        BY <1>2 DEF DownloadStart
    <2>2. job[j] = Idle /\ UNCHANGED <<data, part, deleting>>
        BY <1>2 DEF DownloadStart
    <2>3. \A k \in Jobs \ {j} : job'[k] = job[k]
        BY <2>1 DEF ImagesTypeOK
    <2>4. ASSUME NEW k \in Jobs, job'[k] = job[k] PROVE JobOK(k)'
        <3> SUFFICES ASSUME job[k].image \in ImageNames \ loose'
                     PROVE  /\ job[k].image \notin loose /\ deleting # job[k].image
                            /\ \A m \in Jobs : job'[m].image = job[k].image
                                 => job[m].image = job[k].image
            BY <2>2, <2>4, KeptJob
        <3>1. k # j
            BY <1>0, <2>2, IdleType
        <3>2. job[k].image # i
            <4> SUFFICES ASSUME job[k].image = i PROVE FALSE
                OBVIOUS
            <4>1. Overlaps(i, j)
                BY <3>1 DEF Overlaps, Active
            <4> QED
                BY <2>1, <4>1
        <3>3. job[k].image \notin loose
            BY <2>1, <3>2
        <3>4. deleting # job[k].image
            BY <3>3 DEF JobInv, JobOK
        <3>5. job'[j] = Idle \/ job'[j].image = i
            BY <2>1, <2>2 DEF ImagesTypeOK, Idle
        <3> QED
            BY <1>0, <2>3, <3>2, <3>3, <3>4, <3>5, IdleType
    <2>5. CASE ~ok
        BY <2>1, <2>4, <2>5 DEF JobInv
    <2>6. CASE ok
        <3>1. job'[j].image = i /\ job'[j].pc = "stat"
            BY <2>1, <2>6 DEF ImagesTypeOK, Idle
        <3>2. i \notin loose' => ~Overlaps(i, j)
            BY <2>1
        <3>3. i \notin loose' => deleting # i /\ Active(i)' = {j}
            <4>1. Active(i)' = (Active(i) \ {j}) \cup {j}
                BY <2>3, <3>1 DEF Active
            <4> QED
                BY <3>2, <4>1 DEF Overlaps
        <3>4. JobOK(j)'
            BY <2>2, <3>1, <3>3 DEF JobOK, Reading, Active
        <3> QED
            BY <2>3, <2>4, <3>4 DEF JobInv
    <2> QED
        BY <2>5, <2>6
<1>3. ASSUME NEW i \in ImageNames, Import(i) PROVE JobInv'
    <2>1. UNCHANGED <<part, job, deleting>>
        BY <1>3 DEF Import
    <2>2. \A x \in ImageNames : part[x] # None => data'[part[x]] = data[part[x]]
        <3>1. \A x \in ImageNames : part[x] # None => part[x] # Fresh /\ part[x] \in Inodes
            BY FreshInode DEF ImagesTypeOK
        <3> QED
            BY <1>3, <3>1 DEF Import, ImagesTypeOK
    <2>3. ASSUME NEW k \in Jobs PROVE JobOK(k)'
        <3> SUFFICES ASSUME job[k].image \in ImageNames \ loose'
                     PROVE  job[k].image \notin loose /\ deleting # job[k].image
            BY <2>1, <2>2, KeptJob
        <3>1. job[k].image # i
            BY <1>3 DEF Import, Active
        <3>2. job[k].image \notin loose
            BY <1>3, <3>1 DEF Import
        <3> QED
            BY <3>2 DEF JobInv, JobOK
    <2> QED
        BY <2>3 DEF JobInv
<1>4. ASSUME NEW i \in ImageNames, DeleteFile(i) PROVE JobInv'
    <2>1. UNCHANGED <<part, job, data>> /\ deleting' = i
        BY <1>4 DEF DeleteFile
    <2>2. ASSUME NEW k \in Jobs PROVE JobOK(k)'
        <3> SUFFICES ASSUME job[k].image \in ImageNames \ loose'
                     PROVE  job[k].image \notin loose /\ i # job[k].image
            BY <2>1, KeptJob
        <3> QED
            BY <1>4 DEF DeleteFile, Active
    <2> QED
        BY <2>2 DEF JobInv
<1>5. CASE DeleteEntry
    <2>1. UNCHANGED <<part, job, data>> /\ deleting' = None /\ loose \subseteq loose'
        BY <1>5 DEF DeleteEntry
    <2>2. ASSUME NEW k \in Jobs PROVE JobOK(k)'
        BY <1>0, <2>1, KeptJob
    <2> QED
        BY <2>2 DEF JobInv
<1>6. CASE Spend /\ Restart
    BY <1>6, IdleJob DEF Restart, JobInv
<1>7. CASE UNCHANGED <<imgVars, events>>
    BY <1>7 DEF imgVars, JobInv, JobOK, Reading, Active
<1> QED
    BY <1>1, <1>2, <1>3, <1>4, <1>5, <1>6, <1>7 DEF ImagesNext

-----------------------------------------------------------------------------
(* Whose inode is whose *)

\* A step that gives no name and no handle an inode.
LEMMA KeptInodes ==
    ASSUME ImagesTypeOK, InodeInv,
           \A x \in ImageNames : part'[x] \in {part[x], None} /\ file'[x] \in {file[x], None},
           \A k \in Jobs : Reading(k)' => /\ Reading(k) /\ job'[k].inode = job[k].inode
                                          /\ job'[k].image = job[k].image
    PROVE  InodeInv'
<1>1. ASSUME NEW x \in ImageNames, NEW y \in ImageNames, part'[x] # None
      PROVE  (x # y => part'[x] # part'[y]) /\ part'[x] # file'[y]
    BY <1>1 DEF InodeInv
<1>2. ASSUME NEW j \in Jobs, Reading(j)'
      PROVE  /\ job'[j].inode \in Inodes
             /\ \A x \in ImageNames : job'[j].inode \in {part'[x], file'[x]} => x = job'[j].image
             /\ \A k \in Jobs : Reading(k)' /\ job'[k].inode = job'[j].inode
                                  => job'[k].image = job'[j].image
    <2>1. job'[j].inode = job[j].inode /\ job'[j].image = job[j].image /\ Reading(j)
        BY <1>2
    <2>2. job[j].inode \in Inodes /\ job[j].inode # None
        BY <2>1, NoneInode DEF InodeInv
    <2>3. \A x \in ImageNames : job[j].inode \in {part[x], file[x]} => x = job[j].image
        BY <2>1 DEF InodeInv
    <2>4. \A k \in Jobs : Reading(k) /\ job[k].inode = job[j].inode => job[k].image = job[j].image
        BY <2>1 DEF InodeInv
    <2> QED
        BY <2>1, <2>2, <2>3, <2>4
<1> QED
    BY <1>1, <1>2 DEF InodeInv

LEMMA OpenInode ==
    ASSUME ImagesTypeOK, JobInv, InodeInv, NEW j \in Jobs, OpenPart(j)
    PROVE  InodeInv'
<1> DEFINE i == job[j].image
           n == IF part[i] = None THEN Fresh ELSE part[i]
<1>1. i \in ImageNames /\ job[j] \in Job /\ file' = file /\ part' = [part EXCEPT ![i] = n]
    BY JobImage DEF OpenPart, ImagesTypeOK
<1>2. part'[i] = n /\ \A x \in ImageNames \ {i} : part'[x] = part[x]
    <2> HIDE DEF n
    <2> QED
        BY <1>1 DEF ImagesTypeOK
\* n is no other image's
<1>3. /\ n \in Inodes /\ n # None
      /\ \A x \in ImageNames : file[x] # n /\ (x # i => part[x] # n)
      /\ \A k \in Jobs : Reading(k) /\ job[k].inode = n => job[k].image = i
    <2>1. CASE part[i] = None
        BY <1>1, <2>1, FreshInode
    <2>2. CASE part[i] # None
        <3>1. n = part[i]
            BY <2>2
        <3>2. n \in Inodes /\ \A x \in ImageNames : file[x] # n /\ (x # i => part[x] # n)
            BY <1>1, <2>2, <3>1 DEF InodeInv, ImagesTypeOK
        <3>3. \A k \in Jobs : Reading(k) /\ job[k].inode = n => job[k].image = i
            BY <1>1, <3>1 DEF InodeInv
        <3> QED
            BY <2>2, <3>1, <3>2, <3>3
    <2> QED
        BY <2>1, <2>2
<1>4. /\ \A k \in Jobs \ {j} : job'[k] = job[k]
      /\ job'[j].pc = "idle" \/ (job'[j].image = i /\ job'[j].inode = n)
    <2>1. CASE job' = [job EXCEPT ![j] = Idle]
        BY <1>1, <2>1, IdleType DEF ImagesTypeOK
    <2>2. CASE \E r, h : job' = [job EXCEPT ![j].pc = "read", ![j].inode = n, ![j].append = r,
                                            ![j].hash = h]
        <3> HIDE DEF n
        <3>1. PICK r, h : job' = [job EXCEPT ![j].pc = "read", ![j].inode = n, ![j].append = r,
                                             ![j].hash = h]
            BY <2>2
        <3>2. job' = [job EXCEPT ![j] = [job[j] EXCEPT !.pc = "read", !.inode = n,
                                                       !.append = r, !.hash = h]]
            BY <1>1, <3>1 DEF ImagesTypeOK
        <3> QED
            BY <1>1, <3>2 DEF ImagesTypeOK, Job
    <2>3. \/ Failed(j, TRUE)
          \/ \E r \in BOOLEAN :
                job' = [job EXCEPT ![j].pc = "read", ![j].inode = n, ![j].append = r,
                                   ![j].hash = IF r THEN SubSeq(IF part[i] = None THEN << >> ELSE data[n],
                                                                1, job[j].offset) ELSE << >>]
        BY DEF OpenPart
    <2> QED
        <3> HIDE DEF n
        <3> QED
            BY <2>1, <2>2, <2>3 DEF Failed
<1> HIDE DEF n, i
<1>5. ASSUME NEW x \in ImageNames, NEW y \in ImageNames, part'[x] # None
      PROVE  (x # y => part'[x] # part'[y]) /\ part'[x] # file'[y]
    BY <1>1, <1>2, <1>3, <1>5 DEF InodeInv
<1>6. ASSUME NEW k \in Jobs, Reading(k)'
      PROVE  \/ job'[k].inode = n /\ job'[k].image = i
             \/ Reading(k) /\ job'[k] = job[k]
    BY <1>4, <1>6 DEF Reading
<1>7. ASSUME NEW k \in Jobs, Reading(k)'
      PROVE  /\ job'[k].inode \in Inodes
             /\ \A x \in ImageNames : job'[k].inode \in {part'[x], file'[x]} => x = job'[k].image
    <2>1. CASE job'[k].inode = n /\ job'[k].image = i
        BY <1>1, <1>2, <1>3, <2>1
    <2>2. CASE Reading(k) /\ job'[k] = job[k]
        BY <1>1, <1>2, <1>3, <2>2 DEF InodeInv
    <2> QED
        BY <1>6, <1>7, <2>1, <2>2
<1>8. ASSUME NEW k \in Jobs, NEW m \in Jobs, Reading(k)', Reading(m)', job'[k].inode = job'[m].inode
      PROVE  job'[k].image = job'[m].image
    BY <1>3, <1>6, <1>8 DEF InodeInv
<1> QED
    BY <1>5, <1>7, <1>8 DEF InodeInv

\* A finished .part takes the image's own name.
LEMMA FinishInode ==
    ASSUME ImagesTypeOK, JobInv, InodeInv, NEW j \in Jobs, Finish(j)
    PROVE  InodeInv'
<1> DEFINE i == job[j].image
<1>1. i \in ImageNames /\ job[j] \in Job /\ part' = [part EXCEPT ![i] = None]
    BY JobImage DEF Finish, ImagesTypeOK
<1>2. part'[i] = None /\ \A x \in ImageNames \ {i} : part'[x] = part[x]
    BY <1>1 DEF ImagesTypeOK
<1>3. \A k \in Jobs : Reading(k)' => Reading(k) /\ job'[k] = job[k]
    <2>1. CASE job' = [job EXCEPT ![j] = Idle]
        BY <1>1, <2>1, IdleType DEF ImagesTypeOK, Reading
    <2>2. CASE job' = [job EXCEPT ![j].pc = "stored"]
        BY <1>1, <2>2 DEF ImagesTypeOK, Reading, Job
    <2> QED
        BY <2>1, <2>2 DEF Finish, Failed
<1>4. CASE file' = file
    BY <1>2, <1>3, <1>4, KeptInodes
<1>5. CASE part[i] # None /\ file' = [file EXCEPT ![i] = part[i]]
    <2>1. file'[i] = part[i] /\ \A x \in ImageNames \ {i} : file'[x] = file[x]
        BY <1>1, <1>5 DEF ImagesTypeOK
    <2> HIDE DEF i
    <2>2. ASSUME NEW x \in ImageNames, NEW y \in ImageNames, part'[x] # None
          PROVE  (x # y => part'[x] # part'[y]) /\ part'[x] # file'[y]
        BY <1>1, <1>2, <1>5, <2>1, <2>2 DEF InodeInv
    <2>3. ASSUME NEW k \in Jobs, Reading(k)'
          PROVE  /\ job'[k].inode \in Inodes
                 /\ \A x \in ImageNames : job'[k].inode \in {part'[x], file'[x]} => x = job'[k].image
                 /\ \A m \in Jobs : Reading(m)' /\ job'[m].inode = job'[k].inode
                                      => job'[m].image = job'[k].image
        BY <1>1, <1>2, <1>3, <2>1, <2>3, NoneInode DEF InodeInv
    <2> QED
        BY <2>2, <2>3 DEF InodeInv
<1> QED
    BY <1>4, <1>5 DEF Finish

LEMMA InodeStep ==
    ImagesTypeOK /\ JobInv /\ InodeInv /\ [ImagesNext]_<<imgVars, events>> => InodeInv'
<1> SUFFICES ASSUME ImagesTypeOK, JobInv, InodeInv, [ImagesNext]_<<imgVars, events>>
             PROVE  InodeInv'
    OBVIOUS
<1>1. ASSUME NEW j \in Jobs, StatPart(j) \/ Break(j) \/ NothingLeft(j) \/ Register(j)
      PROVE  InodeInv'
    <2>1. \A x \in ImageNames : part'[x] = part[x] /\ file'[x] \in {file[x], None}
        BY <1>1 DEF StatPart, Break, NothingLeft, Register, ImagesTypeOK
    <2>2. \A k \in Jobs : Reading(k)' => Reading(k) /\ job'[k] = job[k]
        <3>1. CASE job' = [job EXCEPT ![j] = Idle]
            BY <3>1, IdleType DEF ImagesTypeOK, Reading
        <3>2. CASE StatPart(j)
            <4>1. PICK o : job' = [job EXCEPT ![j].pc = "open", ![j].offset = o]
                BY <3>2 DEF StatPart
            <4> QED
                BY <4>1 DEF ImagesTypeOK, Reading, Job
        <3> QED
            BY <1>1, <3>1, <3>2 DEF Break, NothingLeft, Register, Failed
    <2> QED
        BY <2>1, <2>2, KeptInodes
<1>2. ASSUME NEW j \in Jobs, ReadBlock(j) PROVE InodeInv'
    <2>1. PICK h, f : job' = [job EXCEPT ![j].hash = h, ![j].fault = f]
        BY <1>2 DEF ReadBlock
    <2>2. \A k \in Jobs : job'[k].pc = job[k].pc /\ job'[k].inode = job[k].inode
                          /\ job'[k].image = job[k].image
        BY <2>1 DEF ImagesTypeOK, Job
    <2>3. UNCHANGED <<file, part>>
        BY <1>2 DEF ReadBlock
    <2> QED
        BY <2>2, <2>3, KeptInodes DEF Reading
<1>3. ASSUME NEW j \in Jobs, DownloadStep(j) PROVE InodeInv'
    BY <1>1, <1>2, <1>3, OpenInode, FinishInode DEF DownloadStep
<1>4. ASSUME NEW j \in Jobs, NEW i \in ImageNames, DownloadStart(j, i) PROVE InodeInv'
    <2>1. \/ job' = job
          \/ job' = [job EXCEPT ![j] = [Idle EXCEPT !.image = i, !.pc = "stat"]]
        BY <1>4 DEF DownloadStart
    <2>2. \A k \in Jobs : Reading(k)' => Reading(k) /\ job'[k] = job[k]
        BY <2>1 DEF ImagesTypeOK, Reading, Idle
    <2>3. UNCHANGED <<file, part>>
        BY <1>4 DEF DownloadStart
    <2> QED
        BY <2>2, <2>3, KeptInodes
<1>5. ASSUME NEW i \in ImageNames, Import(i) PROVE InodeInv'
    <2>1. UNCHANGED <<part, job>>
        BY <1>5 DEF Import
    <2>2. \A x \in ImageNames : file'[x] = file[x] \/ file'[x] = Fresh
        BY <1>5 DEF Import, ImagesTypeOK
    <2>3. /\ \A x \in ImageNames : part[x] # Fresh
          /\ \A k \in Jobs : job[k].inode # Fresh
        BY FreshInode
    <2>4. \A x, y \in ImageNames : part'[x] # None =>
             (x # y => part'[x] # part'[y]) /\ part'[x] # file'[y]
        BY <2>1, <2>2, <2>3 DEF InodeInv
    <2>5. ASSUME NEW k \in Jobs, Reading(k)'
          PROVE  /\ job'[k].inode \in Inodes
                 /\ \A x \in ImageNames : job'[k].inode \in {part'[x], file'[x]} => x = job'[k].image
                 /\ \A m \in Jobs : Reading(m)' /\ job'[m].inode = job'[k].inode
                                      => job'[m].image = job'[k].image
        BY <2>1, <2>2, <2>3, <2>5 DEF InodeInv, Reading
    <2> QED
        BY <2>4, <2>5 DEF InodeInv
<1>6. ASSUME NEW i \in ImageNames, DeleteFile(i) PROVE InodeInv'
    <2>1. UNCHANGED <<part, job>> /\ \A x \in ImageNames : file'[x] \in {file[x], None}
        BY <1>6 DEF DeleteFile, ImagesTypeOK
    <2> QED
        BY <2>1, KeptInodes DEF Reading
<1>7. CASE DeleteEntry \/ UNCHANGED <<imgVars, events>>
    <2>1. UNCHANGED <<part, job, file>>
        BY <1>7 DEF DeleteEntry, imgVars
    <2> QED
        BY <2>1, KeptInodes DEF Reading
<1>8. CASE Spend /\ Restart
    <2>1. UNCHANGED <<part, file>> /\ \A k \in Jobs : ~Reading(k)'
        BY <1>8, IdleType DEF Restart, Reading
    <2> QED
        BY <2>1, KeptInodes
<1> QED
    BY <1>3, <1>4, <1>5, <1>6, <1>7, <1>8 DEF ImagesNext

-----------------------------------------------------------------------------
(* What is ready is in the store *)

\* Ready in memory, in index.json or as soon as its download registers it.
Promised(i) == index[i] = "ready" \/ saved[i] = "ready" \/ Arrived(i)

\* No handle writes to the file an image has under its own name.
LEMMA WrittenElsewhere ==
    ASSUME ImagesTypeOK, JobInv, InodeInv, NEW i \in ImageNames \ loose, NEW j \in Jobs, Reading(j)
    PROVE  job[j].inode # file[i]
<1> SUFFICES ASSUME job[j].inode = file[i] PROVE FALSE
    OBVIOUS
<1>1. job[j].inode \in Inodes /\ job[j].image = i
    BY DEF InodeInv
<1>2. part[i] = job[j].inode
    BY <1>1 DEF JobInv, JobOK
<1> QED
    BY <1>1, <1>2, NoneInode DEF InodeInv

\* An image that is promised no more than before, and whose file is not touched.
LEMMA KeptReady ==
    ASSUME ReadyInv, NEW i \in VmImages \ (loose \cup {deleting}),
           Promised(i)' => Promised(i), file'[i] = file[i],
           file[i] # None => data'[file[i]] = data[file[i]]
    PROVE  Promised(i)' => Good(i)'
<1>1. Promised(i) => Good(i)
    BY DEF ReadyInv, Promised
<1> QED
    BY <1>1 DEF Good

\* An entry that is written with another state promises nothing.
LEMMA KeptPromise ==
    ASSUME ImagesTypeOK, NEW i \in ImageNames, NEW x \in ImageNames, NEW state, NEW ok \in BOOLEAN,
           SetMeta(x, state, ok), state # "ready" \/ i # x \/ Promised(i),
           Arrived(i)' => Arrived(i)
    PROVE  Promised(i)' => Promised(i)
<1>1. index'[i] = "ready" => index[i] = "ready" \/ Promised(i)
    BY DEF SetMeta, ImagesTypeOK
<1>2. saved' = index' \/ saved' = saved
    BY DEF SetMeta
<1> QED
    BY <1>1, <1>2 DEF Promised

\* A download that becomes idle, or goes on without being stored, stores nothing.
LEMMA KeptStored ==
    ASSUME ImagesTypeOK, NEW i \in ImageNames,
           \A k \in Jobs : job'[k].pc = "stored" =>
                             job[k].pc = "stored" /\ job'[k].image = job[k].image
    PROVE  Arrived(i)' => Arrived(i)
BY DEF Arrived

LEMMA ReadyDownload ==
    ASSUME ImagesTypeOK, JobInv, InodeInv, ReadyInv, NEW j \in Jobs, DownloadStep(j)
    PROVE  ReadyInv'
<1> DEFINE x == job[j].image
<1>1. x \in ImageNames /\ job[j] \in Job /\ UNCHANGED <<deleting, loose>>
    BY JobImage DEF DownloadStep, StatPart, Break, NothingLeft, OpenPart, ReadBlock, Finish,
                    Register, ImagesTypeOK
<1> SUFFICES ASSUME NEW i \in VmImages \ (loose \cup {deleting})
             PROVE  Promised(i)' => Good(i)'
    BY <1>1 DEF ReadyInv, Promised
<1>2. i \in ImageNames /\ i \notin CtImages
    BY ImagesAssumption DEF ImageNames
<1>3. ASSUME job' = [job EXCEPT ![j] = Idle] PROVE Arrived(i)' => Arrived(i)
    <2>1. \A k \in Jobs : job'[k] = Idle \/ job'[k] = job[k]
        BY <1>3 DEF ImagesTypeOK
    <2> QED
        BY <1>2, <2>1, KeptStored, IdleType
<1>4. CASE StatPart(j)
    <2>1. PICK o : job' = [job EXCEPT ![j].pc = "open", ![j].offset = o]
        BY <1>4 DEF StatPart
    <2>2. \A k \in Jobs : job'[k].pc = "stored" => job'[k] = job[k]
        BY <1>1, <2>1 DEF ImagesTypeOK, Job
    <2>3. Promised(i)' => Promised(i) /\ UNCHANGED <<file, data>>
        BY <1>2, <1>4, <2>2, KeptStored DEF StatPart, Promised
    <2> QED
        BY <1>4, <2>3, KeptReady DEF StatPart
<1>5. CASE Break(j) \/ NothingLeft(j)
    <2>1. PICK ok \in BOOLEAN : Failed(j, ok)
        BY <1>5 DEF Break, NothingLeft
    <2>2. Promised(i)' => Promised(i)
        BY <1>1, <1>2, <1>3, <2>1, KeptPromise DEF Failed
    <2> QED
        BY <1>5, <2>2, KeptReady DEF Break, NothingLeft
<1>6. CASE OpenPart(j)
    <2> DEFINE n == IF part[x] = None THEN Fresh ELSE part[x]
    <2>1. \E d : data' = [data EXCEPT ![n] = d]
        BY <1>6 DEF OpenPart
    <2>2. file[i] # n
        <3>1. part[x] = None => file[i] # n
            BY <1>2, FreshInode
        <3>2. part[x] # None => file[i] # n
            BY <1>1, <1>2 DEF InodeInv
        <3> QED
            BY <3>1, <3>2
    <2>3. Promised(i)' => Promised(i)
        <3>1. CASE Failed(j, TRUE)
            BY <1>1, <1>2, <1>3, <3>1, KeptPromise DEF Failed
        <3>2. CASE ~Failed(j, TRUE)
            <4>1. \E r \in BOOLEAN :
                     LET a == IF part[x] = None THEN Fresh ELSE part[x]
                         old == IF part[x] = None THEN <<>> ELSE data[a]
                     IN job' = [job EXCEPT ![j].pc = "read", ![j].inode = a, ![j].append = r,
                                ![j].hash = IF r THEN SubSeq(old, 1, job[j].offset) ELSE <<>>]
                BY <1>6, <3>2 DEF OpenPart
            <4>2. PICK a, r, h : job' = [job EXCEPT ![j].pc = "read", ![j].inode = a,
                                                    ![j].append = r, ![j].hash = h]
                BY <4>1
            <4>3. job' = [job EXCEPT ![j] = [job[j] EXCEPT !.pc = "read", !.inode = a,
                                                           !.append = r, !.hash = h]]
                BY <1>1, <4>2 DEF ImagesTypeOK
            <4>4. \A k \in Jobs : job'[k].pc = "stored" => job'[k] = job[k]
                BY <1>1, <4>3 DEF ImagesTypeOK, Job
            <4>5. UNCHANGED <<index, saved>>
                BY <1>6, <3>2 DEF OpenPart
            <4> QED
                BY <1>2, <4>4, <4>5, KeptStored DEF Promised
        <3> QED
            BY <3>1, <3>2
    <2>4. file' = file
        BY <1>6 DEF OpenPart
    <2>5. file[i] # None => data'[file[i]] = data[file[i]]
        <3> HIDE DEF n
        <3> QED
            BY <1>2, <2>1, <2>2 DEF ImagesTypeOK
    <2> QED
        BY <2>3, <2>4, <2>5, KeptReady
<1>7. CASE ReadBlock(j)
    <2>1. /\ \E d : data' = [data EXCEPT ![job[j].inode] = d]
          /\ \E h, f : job' = [job EXCEPT ![j].hash = h, ![j].fault = f]
          /\ SetMeta(x, "downloading", TRUE) /\ file' = file /\ Reading(j)
        BY <1>7 DEF ReadBlock, Reading
    <2>2. PICK h, f : job' = [job EXCEPT ![j].hash = h, ![j].fault = f]
        BY <2>1
    <2>3. \A k \in Jobs : job'[k].pc = job[k].pc /\ job'[k].image = job[k].image
        BY <2>2 DEF ImagesTypeOK, Job
    <2>4. Arrived(i)' => Arrived(i)
        BY <1>2, <2>3, KeptStored
    <2>5. Promised(i)' => Promised(i)
        BY <1>1, <1>2, <2>1, <2>4, KeptPromise
    <2>6. file[i] # job[j].inode
        BY <1>2, <2>1, WrittenElsewhere
    <2>7. file[i] # None => data'[file[i]] = data[file[i]]
        BY <1>2, <2>1, <2>6 DEF ImagesTypeOK
    <2> QED
        BY <2>1, <2>5, <2>7, KeptReady
<1>8. CASE Finish(j)
    <2>1. data' = data
        BY <1>8 DEF Finish
    <2>2. CASE job[j].hash = Whole /\ part[x] # None
        <3>1. /\ file' = [file EXCEPT ![x] = part[x]] /\ job' = [job EXCEPT ![j].pc = "stored"]
              /\ UNCHANGED <<index, saved>>
            BY <1>8, <2>2 DEF Finish
        <3>2. CASE i = x
            <4>1. part[i] = job[j].inode /\ data[job[j].inode] = job[j].hash
                BY <1>2, <1>8, <3>2 DEF JobInv, JobOK, Finish, Reading
            <4>2. file'[i] = part[i]
                BY <1>2, <3>1, <3>2 DEF ImagesTypeOK
            <4> QED
                BY <2>1, <2>2, <3>2, <4>1, <4>2 DEF Good
        <3>3. CASE i # x
            <4>1. file'[i] = file[i]
                BY <3>1, <3>3, <1>2 DEF ImagesTypeOK
            <4>2. \A k \in Jobs : job'[k].image = i => job'[k] = job[k]
                BY <1>1, <3>1, <3>3 DEF ImagesTypeOK, Job
            <4>3. Promised(i)' => Promised(i)
                BY <3>1, <4>2 DEF Promised, Arrived
            <4> QED
                BY <2>1, <4>1, <4>3, KeptReady
        <3> QED
            BY <3>2, <3>3
    <2>3. CASE ~(job[j].hash = Whole /\ part[x] # None)
        <3>1. Failed(j, TRUE) /\ file' = file
            BY <1>8, <2>3 DEF Finish
        <3>2. Promised(i)' => Promised(i)
            BY <1>1, <1>2, <1>3, <3>1, KeptPromise DEF Failed
        <3> QED
            BY <2>1, <3>1, <3>2, KeptReady
    <2> QED
        BY <2>2, <2>3
<1>9. CASE Register(j)
    <2>1. PICK ok \in BOOLEAN, loads \in BOOLEAN :
            /\ IF loads THEN SetMeta(x, "ready", ok) /\ job' = [job EXCEPT ![j] = Idle]
                        ELSE Failed(j, ok)
            /\ file' = IF x \in CtImages /\ loads THEN [file EXCEPT ![x] = None] ELSE file
        BY <1>9 DEF Register
    <2>2. job' = [job EXCEPT ![j] = Idle]
        BY <2>1 DEF Failed
    <2>3. i = x => Promised(i)
        BY <1>9 DEF Register, Promised, Arrived
    <2>4. Promised(i)' => Promised(i)
        <3>1. \E state : SetMeta(x, state, ok) /\ (state # "ready" \/ i # x \/ Promised(i))
            BY <2>1, <2>3 DEF Failed
        <3> QED
            BY <1>1, <1>2, <1>3, <2>2, <3>1, KeptPromise
    <2>5. file'[i] = file[i] /\ data' = data
        BY <1>2, <1>9, <2>1 DEF Register, ImagesTypeOK
    <2> QED
        BY <2>4, <2>5, KeptReady
<1> QED
    BY <1>4, <1>5, <1>6, <1>7, <1>8, <1>9 DEF DownloadStep

LEMMA ReadyStep ==
    ImagesTypeOK /\ JobInv /\ InodeInv /\ ReadyInv /\ [ImagesNext]_<<imgVars, events>> => ReadyInv'
<1> SUFFICES ASSUME ImagesTypeOK, JobInv, InodeInv, ReadyInv, [ImagesNext]_<<imgVars, events>>
             PROVE  ReadyInv'
    OBVIOUS
<1>0. VmImages \subseteq ImageNames /\ VmImages \cap CtImages = {} /\ None \notin VmImages
    BY ImagesAssumption DEF ImageNames
<1>a. ReadyInv' <=> \A i \in VmImages \ (loose' \cup {deleting'}) : Promised(i)' => Good(i)'
    BY DEF ReadyInv, Promised
<1>1. ASSUME NEW j \in Jobs, DownloadStep(j) PROVE ReadyInv'
    BY <1>1, ReadyDownload
<1>2. ASSUME NEW j \in Jobs, NEW x \in ImageNames, DownloadStart(j, x),
             NEW i \in VmImages \ (loose' \cup {deleting'})
      PROVE  Promised(i)' => Good(i)'
    <2>1. PICK ok \in BOOLEAN :
            /\ SetMeta(x, "downloading", ok)
            /\ job' = IF ok THEN [job EXCEPT ![j] = [Idle EXCEPT !.image = x, !.pc = "stat"]] ELSE job
            /\ loose' = IF Overlaps(x, j) THEN loose \cup {x}
                        ELSE IF x \in CtImages \/ ~ok THEN loose ELSE loose \ {x}
        BY <1>2 DEF DownloadStart
    <2>2. UNCHANGED <<file, data, deleting>>
        BY <1>2 DEF DownloadStart
    <2>3. \A k \in Jobs : job'[k].pc = "stored" => k # j /\ job'[k] = job[k]
        BY <1>2, <2>1, IdleType DEF ImagesTypeOK, Idle, DownloadStart
    <2>4. Arrived(i)' => Arrived(i)
        BY <1>0, <2>3, KeptStored
    <2>5. Promised(i)' => Promised(i)
        BY <1>0, <2>1, <2>4, KeptPromise
    <2>6. CASE i \in loose
        <3>1. i = x /\ ok /\ ~Overlaps(x, j)
            BY <2>1, <2>6
        <3>2. index'[i] = "downloading" /\ saved'[i] = "downloading"
            BY <1>0, <2>1, <3>1 DEF SetMeta, ImagesTypeOK
        <3>3. ~Arrived(i)'
            BY <2>3, <3>1 DEF Arrived, Overlaps, Active
        <3> QED
            BY <3>2, <3>3 DEF Promised
    <2>7. CASE i \notin loose
        BY <2>2, <2>5, <2>7, KeptReady
    <2> QED
        BY <2>6, <2>7
<1>3. ASSUME NEW x \in ImageNames, Import(x), NEW i \in VmImages \ (loose' \cup {deleting'})
      PROVE  Promised(i)' => Good(i)'
    <2>1. UNCHANGED <<job, deleting>> /\ \E ok \in BOOLEAN : SetMeta(x, "ready", ok)
        BY <1>3 DEF Import
    <2>2. Fresh \in Inodes /\ Fresh # None /\ file[i] # Fresh
        BY <1>0, FreshInode
    <2>3. CASE i = x
        <3>1. file'[i] = Fresh /\ data'[Fresh] = Whole
            BY <1>0, <1>3, <2>2, <2>3 DEF Import, ImagesTypeOK
        <3> QED
            BY <2>2, <3>1 DEF Good
    <2>4. CASE i # x
        <3>1. i \notin loose
            BY <1>3, <2>4 DEF Import
        <3>2. file'[i] = file[i] /\ (file[i] # None => data'[file[i]] = data[file[i]])
            BY <1>0, <1>3, <2>2, <2>4 DEF Import, ImagesTypeOK
        <3>3. Promised(i)' => Promised(i)
            BY <1>0, <2>1, <2>4, KeptPromise DEF Arrived
        <3> QED
            BY <2>1, <3>1, <3>2, <3>3, KeptReady
    <2> QED
        BY <2>3, <2>4
<1>4. ASSUME NEW x \in ImageNames, DeleteFile(x), NEW i \in VmImages \ (loose' \cup {deleting'})
      PROVE  Promised(i)' => Good(i)'
    <2>1. UNCHANGED <<index, saved, data, job>> /\ i # x /\ i # deleting /\ i \notin loose
        BY <1>0, <1>4 DEF DeleteFile
    <2>2. file'[i] = file[i]
        BY <1>0, <1>4, <2>1 DEF DeleteFile, ImagesTypeOK
    <2> QED
        BY <2>1, <2>2, KeptReady DEF Promised, Arrived
<1>5. ASSUME DeleteEntry, NEW i \in VmImages \ (loose' \cup {deleting'})
      PROVE  Promised(i)' => Good(i)'
    <2>1. PICK ok \in BOOLEAN : /\ SetMeta(deleting, "none", ok)
                                /\ loose' = IF ok THEN loose ELSE loose \cup {deleting}
        BY <1>5 DEF DeleteEntry
    <2>2. UNCHANGED <<data, file, job>> /\ deleting \in ImageNames /\ i \notin loose
        BY <1>5, <2>1 DEF DeleteEntry, ImagesTypeOK
    <2>3. CASE i = deleting
        <3>1. index'[i] = "none" /\ saved'[i] = "none"
            BY <1>0, <2>1, <2>2, <2>3 DEF SetMeta, ImagesTypeOK
        <3>2. ~Arrived(i)'
            BY <1>0, <2>2, <2>3 DEF Arrived, JobInv, JobOK
        <3> QED
            BY <3>1, <3>2 DEF Promised
    <2>4. CASE i # deleting
        <3>1. Promised(i)' => Promised(i)
            BY <1>0, <2>1, <2>2, KeptPromise DEF Arrived
        <3> QED
            BY <2>2, <2>4, <3>1, KeptReady
    <2> QED
        BY <2>3, <2>4
<1>6. ASSUME Spend /\ Restart, NEW i \in VmImages \ (loose' \cup {deleting'})
      PROVE  Promised(i)' => Good(i)'
    <2>1. i \notin loose \cup {deleting} /\ UNCHANGED <<data, file>>
        BY <1>0, <1>6 DEF Restart
    <2>2. ~Arrived(i)'
        BY <1>6, IdleType DEF Restart, Arrived
    <2>3. saved' = index' /\ (index'[i] = "ready" => saved[i] = "ready")
        BY <1>0, <1>6 DEF Restart
    <2>4. Promised(i)' => Promised(i)
        BY <2>2, <2>3 DEF Promised
    <2> QED
        BY <2>1, <2>4, KeptReady
<1>7. CASE UNCHANGED <<imgVars, events>>
    BY <1>7 DEF imgVars, ReadyInv, Arrived, Good
<1> QED
    BY <1>a, <1>1, <1>2, <1>3, <1>4, <1>5, <1>6, <1>7 DEF ImagesNext

-----------------------------------------------------------------------------
(* The theorems *)

\* A store that holds some images satisfies the invariant.
LEMMA InitIInv ==
    ASSUME NEW S \in SUBSET ImageNames, ImagesInit(S), events = 0
    PROVE  IInv
<1>1. ImagesTypeOK /\ \A i \in S \cap VmImages : file[i] \in Inodes /\ data[file[i]] = Whole
    BY InitTypeOK
<1>2. /\ \A j \in Jobs : job[j] = Idle
      /\ \A i \in ImageNames : /\ part[i] = None
                               /\ index[i] = "ready" \/ saved[i] = "ready" => i \in S
    BY DEF ImagesInit
<1>3. None \notin ImageNames
    BY ImagesAssumption DEF ImageNames
<1>4. JobInv
    BY <1>2, <1>3, IdleType DEF JobInv, JobOK
<1>5. InodeInv
    BY <1>2, IdleType DEF InodeInv, Reading
<1>6. \A i \in VmImages : ~Arrived(i)
    BY <1>2, IdleType DEF Arrived
<1>7. ReadyInv
    BY <1>1, <1>2, <1>6, NoneInode DEF ReadyInv, Good, ImageNames
<1> QED
    BY <1>1, <1>4, <1>5, <1>7 DEF IInv

\* Every reachable state of the image store satisfies the inductive invariant: a
\* download nothing overlaps has hashed what its .part holds, no inode is under two
\* names, and what is shown, saved or about to be registered as ready is in the store.
THEOREM InductiveInvariant == ImagesSpec => []IInv
<1>1. IInv /\ [ImagesNext]_<<imgVars, events>> => IInv'
    BY TypeStep, JobStep, InodeStep, ReadyStep DEF IInv
<1>2. ImagesInit({}) /\ events = 0 => IInv
    BY InitIInv
<1> QED
    BY <1>1, <1>2, PTL DEF ImagesSpec

\* The variables of the store keep their types: there is always an inode for a new
\* file, and every download at work belongs to an image.
THEOREM TypeCorrect == ImagesSpec => []ImagesTypeOK
<1>1. IInv => ImagesTypeOK
    BY DEF IInv
<1> QED
    BY <1>1, InductiveInvariant, PTL

\* A vm-image shown as ready has a complete file of the content its sha256 promises,
\* after any number of broken, resumed or wrong downloads, imports, deletions, failures
\* to save index.json and restarts, unless operations on that image overlapped or its
\* deletion tore.
THEOREM ReadyIsVerified == ImagesSpec => []ReadyVerified
<1>1. IInv => ReadyVerified
    BY DEF IInv, ReadyInv, ReadyVerified, Good
<1> QED
    BY <1>1, InductiveInvariant, PTL

-----------------------------------------------------------------------------
(* Workloads: the inductive invariant *)

\* Object x is on the host as cfg wants it.
Follows(x, cfg, doms, disks, cts) ==
    /\ x \in VMs =>
         IF cfg.vm[x] = Absent THEN doms[x] = NoDom /\ disks[x] = NoDisk
         ELSE /\ doms[x].state # "absent" /\ doms[x].conf = cfg.vm[x]
              /\ disks[x].main # Absent
              /\ cfg.vm[x].extra # None => disks[x].extra # Absent
    /\ x \in Containers => (cfg.ct[x] = Absent) = (cts[x] = "absent")

\* The operations of a commit are those of its plan; an undo starts within it.
PlanInv ==
    /\ txn.pc # "idle" => txn.ops = Plan(committed, txn.new)
    /\ txn.pc = "apply" => txn.k >= 1
    /\ txn.pc = "undo" => txn.k <= Len(txn.ops)

\* Whether the n-th operation of the commit is done and not undone.
Done(n) == IF txn.pc = "apply" THEN n < txn.k ELSE n <= txn.k

\* An object the commit does not touch is as committed; one that it touches is as its new
\* configuration wants it from its operation on, until the undo of that operation.
ProgressInv ==
    \A x \in Objects \ scarred :
        /\ txn.pc = "idle" \/ x \notin Range(txn.ops) => Follows(x, committed, dom, disk, ct)
        /\ txn.pc # "idle" =>
             \A n \in 1 .. Len(txn.ops) : txn.ops[n] = x =>
                 Follows(x, IF Done(n) THEN txn.new ELSE committed, dom, disk, ct)

Names(cfg, i) == \E v \in VMs : cfg.vm[v].image = i

\* Machines are made from images of machines (checkImages).
ValidInv ==
    \A v \in VMs : /\ committed.vm[v] # Absent => committed.vm[v].image \in VmImages
                   /\ txn.pc # "idle" /\ txn.new.vm[v] # Absent => txn.new.vm[v].image \in VmImages

\* An image on its way out is one that no machine names, unless a commit came between.
DoomInv ==
    \A i \in (doomed \cup {deleting}) \ {None} :
        i \in raced \/ (~Names(committed, i) /\ (txn.pc # "idle" => ~Names(txn.new, i)))

\* A main disk whose image is gone is of an image its machine does not name any more.
BackInv ==
    \A v \in VMs :
        LET i == disk[v].main.image
        IN i \in VmImages \ raced /\ file[i] = None =>
             committed.vm[v].image # i /\ (txn.pc # "idle" => txn.new.vm[v].image # i)

WorkloadsInv == IInv /\ TypeOK /\ PlanInv /\ ProgressInv /\ ValidInv /\ DoomInv /\ BackInv

-----------------------------------------------------------------------------
(* The plan *)

\* s has every element of S, once.
Lists(s, S) == s \in Seq(S) /\ Range(s) = S /\ IsInjective(s)

LEMMA SetListed ==
    ASSUME NEW S, IsFiniteSet(S)
    PROVE  Lists(SetToSeq(S), S)
<1> DEFINE n == Cardinality(S)
           s == SetToSeq(S)
<1>1. n \in Nat /\ \E f \in [1 .. n -> S] : IsInjective(f)
    BY FS_CardinalityType, Fun_ExistsBij DEF Bijection, Injection
<1>2. s \in [1 .. n -> S] /\ IsInjective(s)
    BY <1>1 DEF SetToSeq
<1>3. s \in Injection(1 .. n, S)
    BY <1>2 DEF Injection
<1>4. Cardinality(1 .. n) = n
    BY <1>1, FS_Interval
<1>5. s \in Surjection(1 .. n, S)
    BY <1>3, <1>4, FS_Injection
<1>6. Range(s) = S
    BY <1>2, <1>5 DEF Surjection, Range
<1>7. s \in Seq(S)
    BY <1>1, <1>2
<1> QED
    BY <1>2, <1>6, <1>7 DEF Lists

LEMMA Joined ==
    ASSUME NEW S, NEW T, NEW s, NEW t, Lists(s, S), Lists(t, T), S \cap T = {}
    PROVE  Lists(s \o t, S \cup T)
<1> DEFINE m == Len(s)
           r == s \o t
<1>1. s \in Seq(S \cup T) /\ t \in Seq(S \cup T)
    BY SeqMonotonic DEF Lists
<1>2. /\ m \in Nat /\ Len(t) \in Nat /\ DOMAIN s = 1 .. m /\ DOMAIN t = 1 .. Len(t)
      /\ \A k \in 1 .. m : s[k] \in S
      /\ \A k \in 1 .. Len(t) : t[k] \in T
    BY LenProperties, ElementOfSeq DEF Lists
<1>3. /\ r \in Seq(S \cup T) /\ DOMAIN r = 1 .. m + Len(t)
      /\ \A k \in 1 .. m + Len(t) : r[k] = IF k <= m THEN s[k] ELSE t[k - m]
    BY <1>1, ConcatProperties, LenProperties
<1>4. IsInjective(r)
    <2> SUFFICES ASSUME NEW a \in 1 .. m + Len(t), NEW b \in 1 .. m + Len(t), r[a] = r[b]
                 PROVE  a = b
        BY <1>3 DEF IsInjective
    <2>1. CASE a <= m /\ b <= m
        <3>1. a \in DOMAIN s /\ b \in DOMAIN s /\ s[a] = s[b]
            BY <1>2, <1>3, <2>1
        <3> QED
            BY <3>1 DEF Lists, IsInjective
    <2>2. CASE a > m /\ b > m
        <3>1. a - m \in DOMAIN t /\ b - m \in DOMAIN t /\ t[a - m] = t[b - m]
            BY <1>2, <1>3, <2>2
        <3>2. a - m = b - m
            BY <3>1 DEF Lists, IsInjective
        <3> QED
            BY <1>2, <3>2
    <2>3. CASE a <= m /\ b > m
        <3>1. r[a] \in S /\ r[b] \in T
            <4>1. a \in 1 .. m /\ b - m \in 1 .. Len(t)
                BY <1>2, <2>3
            <4> QED
                BY <1>2, <1>3, <2>3, <4>1
        <3> QED
            BY <3>1
    <2>4. CASE a > m /\ b <= m
        <3>1. r[b] \in S /\ r[a] \in T
            <4>1. b \in 1 .. m /\ a - m \in 1 .. Len(t)
                BY <1>2, <2>4
            <4> QED
                BY <1>2, <1>3, <2>4, <4>1
        <3> QED
            BY <3>1
    <2> QED
        BY <1>2, <2>1, <2>2, <2>3, <2>4
<1>5. Range(r) = S \cup T
    <2>1. Range(r) \subseteq S \cup T
        BY <1>3, ElementOfSeq, LenProperties DEF Range
    <2>2. \A x \in S : x \in Range(r)
        <3> SUFFICES ASSUME NEW x \in S PROVE x \in Range(r)
            OBVIOUS
        <3>1. PICK k \in 1 .. m : s[k] = x
            BY <1>2 DEF Lists, Range
        <3>2. k \in 1 .. m + Len(t) /\ r[k] = x
            BY <1>2, <1>3, <3>1
        <3> QED
            BY <1>3, <3>2 DEF Range
    <2>3. \A x \in T : x \in Range(r)
        <3> SUFFICES ASSUME NEW x \in T PROVE x \in Range(r)
            OBVIOUS
        <3>1. PICK k \in 1 .. Len(t) : t[k] = x
            BY <1>2 DEF Lists, Range
        <3>2. k + m \in 1 .. m + Len(t) /\ k + m > m /\ k + m - m = k
            BY <1>2
        <3>3. r[k + m] = x
            BY <1>2, <1>3, <3>1, <3>2
        <3> QED
            BY <1>3, <3>2, <3>3 DEF Range
    <2> QED
        BY <2>1, <2>2, <2>3
<1> QED
    BY <1>3, <1>4, <1>5 DEF Lists

\* A plan touches each object at most once, and every object it does not touch is the
\* same in both configurations.
LEMMA PlanTouches ==
    ASSUME NEW old \in Configs, NEW new \in Configs
    PROVE  LET p == Plan(old, new)
           IN /\ p \in Seq(Objects \cup {"net"}) /\ IsInjective(p)
              /\ \A v \in VMs \ Range(p) : new.vm[v] = old.vm[v]
              /\ \A c \in Containers \ Range(p) : (new.ct[c] = Absent) = (old.ct[c] = Absent)
<1> DEFINE changed == {v \in VMs : new.vm[v] # Absent /\ new.vm[v] # old.vm[v]}
           changedCt == {c \in Containers : new.ct[c] # Absent /\ new.ct[c] # old.ct[c]}
           gone == {v \in VMs : new.vm[v] = Absent /\ old.vm[v] # Absent}
           goneCt == {c \in Containers : new.ct[c] = Absent /\ old.ct[c] # Absent}
           first == IF new.net > old.net THEN <<"net">> ELSE <<>>
           last == IF new.net < old.net THEN <<"net">> ELSE <<>>
           A == IF new.net > old.net THEN {"net"} ELSE {}
           B == IF new.net < old.net THEN {"net"} ELSE {}
<1>1. /\ Lists(SetToSeq(changed), changed) /\ Lists(SetToSeq(changedCt), changedCt)
      /\ Lists(SetToSeq(gone), gone) /\ Lists(SetToSeq(goneCt), goneCt)
    BY FS_Subset, SetListed, WorkloadsAssumption
<1>2. Lists(<<>>, {}) /\ Lists(<<"net">>, {"net"})
    BY DEF Lists, Range, IsInjective
<1>3. Lists(first, A) /\ Lists(last, B)
    BY <1>2
<1>4. /\ changed \cap gone = {} /\ changedCt \cap goneCt = {} /\ A \cap B = {}
      /\ \A S \in {changed, gone}, T \in {changedCt, goneCt} : S \cap T = {}
      /\ \A S \in {changed, gone, changedCt, goneCt} : S \cap A = {} /\ S \cap B = {}
    <2>1. new.net \in Nat /\ old.net \in Nat
        BY WorkloadsAssumption DEF Config
    <2> QED
        BY <2>1, WorkloadsAssumption DEF Objects
<1> HIDE DEF changed, changedCt, gone, goneCt, first, last, A, B
<1>5. Lists(first \o SetToSeq(changed), A \cup changed)
    BY <1>1, <1>3, <1>4, Joined
<1>6. Lists(first \o SetToSeq(changed) \o SetToSeq(changedCt), A \cup changed \cup changedCt)
    BY <1>1, <1>4, <1>5, Joined
<1>7. Lists(first \o SetToSeq(changed) \o SetToSeq(changedCt) \o SetToSeq(goneCt),
            A \cup changed \cup changedCt \cup goneCt)
    BY <1>1, <1>4, <1>6, Joined
<1>8. Lists(first \o SetToSeq(changed) \o SetToSeq(changedCt) \o SetToSeq(goneCt) \o SetToSeq(gone),
            A \cup changed \cup changedCt \cup goneCt \cup gone)
    BY <1>1, <1>4, <1>7, Joined
<1>9. Lists(first \o SetToSeq(changed) \o SetToSeq(changedCt) \o SetToSeq(goneCt)
              \o SetToSeq(gone) \o last,
            A \cup changed \cup changedCt \cup goneCt \cup gone \cup B)
    BY <1>3, <1>4, <1>8, Joined
<1>10. Plan(old, new) = first \o SetToSeq(changed) \o SetToSeq(changedCt) \o SetToSeq(goneCt)
                          \o SetToSeq(gone) \o last
    BY DEF Plan, changed, changedCt, gone, goneCt, first, last
<1>11. A \cup changed \cup changedCt \cup goneCt \cup gone \cup B \subseteq Objects \cup {"net"}
    BY DEF A, B, changed, changedCt, gone, goneCt, Objects
<1>12. Plan(old, new) \in Seq(Objects \cup {"net"}) /\ IsInjective(Plan(old, new))
    BY <1>9, <1>10, <1>11, SeqMonotonic DEF Lists
<1>13. Range(Plan(old, new)) = A \cup changed \cup changedCt \cup goneCt \cup gone \cup B
    BY <1>9, <1>10 DEF Lists
<1>14. \A v \in VMs \ Range(Plan(old, new)) : new.vm[v] = old.vm[v]
    BY <1>13 DEF changed, gone
<1>15. \A c \in Containers \ Range(Plan(old, new)) : (new.ct[c] = Absent) = (old.ct[c] = Absent)
    BY <1>13 DEF changedCt, goneCt
<1> QED
    BY <1>12, <1>14, <1>15

-----------------------------------------------------------------------------
(* One object *)

HostOK ==
    /\ dom \in [VMs -> [state : {"absent", "shutoff", "running", "crashed"}, conf : VmConf]]
    /\ disk \in Disks /\ serial \in Nat
    /\ ct \in [Containers -> {"absent", "stopped", "running", "failed"}]

LEMMA FaultType ==
    ASSUME events \in 0 .. MaxEvents, NEW faulty \in BOOLEAN, Fault(faulty)
    PROVE  events' \in 0 .. MaxEvents
BY SpendType DEF Fault

LEMMA DiskType ==
    /\ NoDisk \in [main : Disk, extra : Disk] /\ NoDom.conf = Absent /\ NoDom.state = "absent"
    /\ NoDom \in [state : {"absent", "shutoff", "running", "crashed"}, conf : VmConf]
    /\ serial \in Nat => \A i \in ImageNames \cup {"blank"} :
         DiskOf(i) \in Disk /\ DiskOf(i).image = i /\ DiskOf(i) # Absent
BY DEF NoDisk, Disk, NoDom, VmConf, DiskOf, Absent

\* DefineVM leaves the other machines alone, and makes a main disk only from an image
\* that is there.
LEMMA Defined ==
    ASSUME HostOK, events \in 0 .. MaxEvents, NEW v \in VMs, NEW c \in VmConf \ {Absent},
           NEW ok \in BOOLEAN, DefineVM(v, c, ok)
    PROVE  /\ HostOK' /\ events' \in 0 .. MaxEvents /\ ct' = ct
           /\ \A w \in VMs \ {v} : dom'[w] = dom[w] /\ disk'[w] = disk[w]
           /\ \/ disk'[v].main = disk[v].main
              \/ disk'[v].main.image = c.image /\ file[c.image] # None
           /\ ok => /\ dom'[v].state # "absent" /\ dom'[v].conf = c /\ disk'[v].main # Absent
                    /\ c.extra # None => disk'[v].extra # Absent
<1> DEFINE mainLess == disk[v].main = Absent /\ file[c.image] = None
           extraLess == disk[v].extra = Absent /\ c.extra \in ImageNames /\ file[c.extra] = None
           Made(d, i) == IF d = Absent THEN DiskOf(i) ELSE d
<1>1. PICK reach \in 0 .. 4 :
        /\ mainLess => reach = 0
        /\ extraLess => reach <= 1
        /\ ok = (reach = 4)
        /\ Fault(~ok /\ ~(mainLess /\ reach = 0) /\ ~(extraLess /\ reach = 1))
        /\ disk' = [disk EXCEPT ![v] =
             [main |-> IF reach >= 1 THEN Made(@.main, c.image) ELSE @.main,
              extra |-> IF reach >= 2 /\ c.extra # None THEN Made(@.extra, c.extra) ELSE @.extra]]
        /\ dom' = IF reach < 3 THEN dom
                  ELSE [dom EXCEPT ![v] =
                    [conf |-> c,
                     state |-> IF reach = 4 /\ c.auto THEN "running"
                               ELSE IF @.state = "absent" THEN "shutoff" ELSE @.state]]
        /\ serial' = serial + 1
        /\ UNCHANGED ct
    BY DEF DefineVM
<1>2. c \in [image : ImageNames, extra : ImageNames \cup {None, "blank"}, auto : BOOLEAN]
    BY DEF VmConf
<1>3. /\ disk[v] \in [main : Disk, extra : Disk]
      /\ dom[v] \in [state : {"absent", "shutoff", "running", "crashed"}, conf : VmConf]
    BY DEF HostOK, Disks
<1>4. /\ Made(disk[v].main, c.image) \in Disk /\ Made(disk[v].main, c.image) # Absent
      /\ c.extra # None => Made(disk[v].extra, c.extra) \in Disk /\ Made(disk[v].extra, c.extra) # Absent
      /\ Made(disk[v].main, c.image) # disk[v].main =>
           Made(disk[v].main, c.image).image = c.image /\ disk[v].main = Absent
    BY <1>2, <1>3, DiskType DEF HostOK
<1> DEFINE main == IF reach >= 1 THEN Made(disk[v].main, c.image) ELSE disk[v].main
           extra == IF reach >= 2 /\ c.extra # None THEN Made(disk[v].extra, c.extra) ELSE disk[v].extra
           state == IF reach = 4 /\ c.auto THEN "running"
                    ELSE IF dom[v].state = "absent" THEN "shutoff" ELSE dom[v].state
<1> HIDE DEF Made
<1>5. main \in Disk /\ extra \in Disk /\ state \in {"shutoff", "running", "crashed"}
    BY <1>3, <1>4
<1>6. disk' \in Disks /\ disk'[v] = [main |-> main, extra |-> extra]
      /\ \A w \in VMs \ {v} : disk'[w] = disk[w]
    <2>1. disk' = [disk EXCEPT ![v] = [main |-> main, extra |-> extra]]
        BY <1>1
    <2> HIDE DEF main, extra
    <2> QED
        BY <1>5, <2>1 DEF HostOK, Disks
<1>7. /\ dom' \in [VMs -> [state : {"absent", "shutoff", "running", "crashed"}, conf : VmConf]]
      /\ \A w \in VMs \ {v} : dom'[w] = dom[w]
      /\ reach >= 3 => dom'[v].conf = c /\ dom'[v].state = state
    <2>1. reach < 3 => dom' = dom
        BY <1>1
    <2>2. reach >= 3 => dom' = [dom EXCEPT ![v] = [conf |-> c, state |-> state]]
        BY <1>1
    <2>3. [conf |-> c, state |-> state]
            \in [state : {"absent", "shutoff", "running", "crashed"}, conf : VmConf]
        BY <1>5
    <2> HIDE DEF state
    <2> QED
        BY <2>1, <2>2, <2>3 DEF HostOK
<1>8. HostOK' /\ events' \in 0 .. MaxEvents /\ ct' = ct
    <2>1. serial' \in Nat /\ ct' = ct
        BY <1>1 DEF HostOK
    <2>2. events' \in 0 .. MaxEvents
        BY <1>1, FaultType
    <2> QED
        BY <1>6, <1>7, <2>1, <2>2 DEF HostOK
<1>9. ok => /\ dom'[v].state # "absent" /\ dom'[v].conf = c /\ disk'[v].main # Absent
            /\ c.extra # None => disk'[v].extra # Absent
    <2>1. ok => reach = 4
        BY <1>1
    <2>2. reach = 4 => state # "absent" /\ main = Made(disk[v].main, c.image)
                       /\ (c.extra # None => extra = Made(disk[v].extra, c.extra))
        BY <1>5
    <2> QED
        BY <1>4, <1>6, <1>7, <2>1, <2>2
<1>10. \/ disk'[v].main = disk[v].main
       \/ disk'[v].main.image = c.image /\ file[c.image] # None
    BY <1>1, <1>4, <1>6
<1> QED
    BY <1>6, <1>7, <1>8, <1>9, <1>10

\* DeleteVM leaves the other machines alone, and removes the domain and the disks.
LEMMA Deleted ==
    ASSUME HostOK, events \in 0 .. MaxEvents, NEW v \in VMs, NEW ok \in BOOLEAN, DeleteVM(v, ok)
    PROVE  /\ HostOK' /\ events' \in 0 .. MaxEvents /\ ct' = ct
           /\ \A w \in VMs \ {v} : dom'[w] = dom[w] /\ disk'[w] = disk[w]
           /\ disk'[v].main \in {disk[v].main, Absent}
           /\ ok => dom'[v] = NoDom /\ disk'[v] = NoDisk
<1>1. PICK reach \in 0 .. 3 :
        /\ ok = (reach = 3) /\ Fault(~ok)
        /\ dom' = [dom EXCEPT ![v] =
             IF reach >= 2 THEN NoDom
             ELSE IF reach = 1 /\ IsActive(v) THEN [@ EXCEPT !.state = "shutoff"] ELSE @]
        /\ disk' = IF reach = 3 THEN [disk EXCEPT ![v] = NoDisk] ELSE disk
        /\ UNCHANGED <<ct, serial>>
    BY DEF DeleteVM
<1>2. [dom[v] EXCEPT !.state = "shutoff"]
        \in [state : {"absent", "shutoff", "running", "crashed"}, conf : VmConf]
    BY DEF HostOK
<1>3. dom' \in [VMs -> [state : {"absent", "shutoff", "running", "crashed"}, conf : VmConf]]
    BY <1>1, <1>2, DiskType DEF HostOK
<1>4. disk' \in Disks
    BY <1>1, DiskType DEF HostOK, Disks
<1>5. events' \in 0 .. MaxEvents
    BY <1>1, FaultType
<1>6. \A w \in VMs \ {v} : dom'[w] = dom[w] /\ disk'[w] = disk[w]
    BY <1>1 DEF HostOK, Disks
<1>7. ok => dom'[v] = NoDom /\ disk'[v] = NoDisk
    <2>1. ok => reach = 3
        BY <1>1
    <2>2. reach = 3 => dom' = [dom EXCEPT ![v] = NoDom] /\ disk' = [disk EXCEPT ![v] = NoDisk]
        BY <1>1
    <2> QED
        BY <2>1, <2>2 DEF HostOK, Disks
<1>8. disk'[v].main \in {disk[v].main, Absent}
    BY <1>1 DEF HostOK, Disks, NoDisk
<1> QED
    BY <1>1, <1>3, <1>4, <1>5, <1>6, <1>7, <1>8 DEF HostOK

\* So do the operations on containers.
LEMMA ContainerStep ==
    ASSUME HostOK, events \in 0 .. MaxEvents, NEW c \in Containers, NEW conf, NEW ok \in BOOLEAN,
           ApplyContainer(c, conf, ok) \/ DeleteContainer(c, ok)
    PROVE  /\ HostOK' /\ events' \in 0 .. MaxEvents /\ dom' = dom /\ disk' = disk
           /\ \A b \in Containers \ {c} : ct'[b] = ct[b]
           /\ ok /\ ApplyContainer(c, conf, ok) => ct'[c] # "absent"
           /\ ok /\ DeleteContainer(c, ok) => ct'[c] = "absent"
<1>1. ASSUME ApplyContainer(c, conf, ok)
      PROVE  /\ HostOK' /\ events' \in 0 .. MaxEvents /\ dom' = dom /\ disk' = disk
             /\ \A b \in Containers \ {c} : ct'[b] = ct[b]
             /\ ok => ct'[c] # "absent"
    <2>1. PICK created \in BOOLEAN, started \in BOOLEAN :
            /\ started => created /\ conf.auto
            /\ ok = (ct[c] = "running" \/ (created /\ (conf.auto => started)))
            /\ Fault(~ok /\ ~(ct[c] = "absent" /\ conf.image \notin docker))
            /\ ct' = [ct EXCEPT ![c] = IF @ = "running" \/ started THEN "running"
                                       ELSE IF created /\ @ = "absent" THEN "stopped" ELSE @]
        BY <1>1 DEF ApplyContainer
    <2>2. events' \in 0 .. MaxEvents
        BY <2>1, FaultType
    <2>3. ct' \in [Containers -> {"absent", "stopped", "running", "failed"}]
        BY <2>1 DEF HostOK
    <2>4. \A b \in Containers \ {c} : ct'[b] = ct[b]
        BY <2>1 DEF HostOK
    <2>5. ok => ct'[c] # "absent"
        BY <2>1 DEF HostOK
    <2> QED
        BY <1>1, <2>2, <2>3, <2>4, <2>5 DEF ApplyContainer, HostOK
<1>2. ASSUME DeleteContainer(c, ok)
      PROVE  /\ HostOK' /\ events' \in 0 .. MaxEvents /\ dom' = dom /\ disk' = disk
             /\ \A b \in Containers \ {c} : ct'[b] = ct[b]
             /\ ok => ct'[c] = "absent"
    <2>1. events' \in 0 .. MaxEvents
        BY <1>2, FaultType DEF DeleteContainer
    <2> QED
        BY <1>2, <2>1 DEF DeleteContainer, HostOK
<1> QED
    BY <1>1, <1>2

LEMMA ConfigType ==
    ASSUME NEW cfg \in Configs
    PROVE  /\ \A v \in VMs : cfg.vm[v] \in VmConf
           /\ \A c \in Containers : cfg.ct[c] \in CtConf
BY WorkloadsAssumption DEF Config

\* Bring leaves the other objects alone, brings its own to the configuration if it
\* succeeds, and makes a main disk only from an image that is there.
LEMMA Brought ==
    ASSUME HostOK, events \in 0 .. MaxEvents, NEW x \in Objects \cup {"net"}, NEW cfg \in Configs,
           NEW ok \in BOOLEAN, Bring(x, cfg, ok)
    PROVE  /\ HostOK' /\ events' \in 0 .. MaxEvents
           /\ \A y \in Objects \ {x}, c \in Configs :
                Follows(y, c, dom, disk, ct) => Follows(y, c, dom', disk', ct')
           /\ ok => Follows(x, cfg, dom', disk', ct')
           /\ \A v \in VMs : \/ disk'[v].main \in {disk[v].main, Absent}
                             \/ file[disk'[v].main.image] # None
<1>0. VMs \cap Containers = {} /\ "net" \notin Objects
    BY WorkloadsAssumption
<1> DEFINE Rest == /\ \A v \in VMs \ {x} : dom'[v] = dom[v] /\ disk'[v] = disk[v]
                   /\ \A c \in Containers \ {x} : ct'[c] = ct[c]
<1>1. Rest => \A y \in Objects \ {x}, c \in Configs :
                Follows(y, c, dom, disk, ct) => Follows(y, c, dom', disk', ct')
    BY DEF Follows, Objects
<1>2. CASE x \in VMs /\ cfg.vm[x] # Absent
    <2>a. x \notin Containers /\ x # "net"
        BY <1>0, <1>2 DEF Objects
    <2>b. DefineVM(x, cfg.vm[x], ok)
        BY <1>2, <2>a DEF Bring
    <2>1. DefineVM(x, cfg.vm[x], ok) /\ cfg.vm[x] \in VmConf \ {Absent}
        BY <1>2, <2>b, ConfigType
    <2>2. /\ HostOK' /\ events' \in 0 .. MaxEvents /\ Rest
          /\ \/ disk'[x].main = disk[x].main
             \/ file[disk'[x].main.image] # None
          /\ ok => Follows(x, cfg, dom', disk', ct')
        <3> HIDE DEF Rest
        <3>1. /\ HostOK' /\ events' \in 0 .. MaxEvents /\ ct' = ct
              /\ \A w \in VMs \ {x} : dom'[w] = dom[w] /\ disk'[w] = disk[w]
              /\ \/ disk'[x].main = disk[x].main
                 \/ disk'[x].main.image = cfg.vm[x].image /\ file[cfg.vm[x].image] # None
              /\ ok => /\ dom'[x].state # "absent" /\ dom'[x].conf = cfg.vm[x] /\ disk'[x].main # Absent
                       /\ cfg.vm[x].extra # None => disk'[x].extra # Absent
            BY <1>2, <2>1, Defined
        <3> QED
            BY <1>0, <1>2, <3>1 DEF Follows, Rest
    <2> QED
        BY <1>1, <2>2
<1>3. CASE x \in VMs /\ cfg.vm[x] = Absent
    <2>a. x \notin Containers /\ x # "net"
        BY <1>0, <1>3 DEF Objects
    <2>1. DeleteVM(x, ok)
        BY <1>3, <2>a DEF Bring
    <2>2. /\ HostOK' /\ events' \in 0 .. MaxEvents /\ Rest
          /\ disk'[x].main \in {disk[x].main, Absent}
          /\ ok => Follows(x, cfg, dom', disk', ct')
        BY <1>0, <1>3, <2>1, Deleted DEF Follows
    <2> QED
        BY <1>1, <2>2
<1>4. CASE x \in Containers
    <2>a. x \notin VMs /\ x # "net"
        BY <1>0, <1>4 DEF Objects
    <2>1. \/ cfg.ct[x] # Absent /\ ApplyContainer(x, cfg.ct[x], ok)
          \/ cfg.ct[x] = Absent /\ DeleteContainer(x, ok)
        <3>1. CASE cfg.ct[x] # Absent
            BY <1>4, <2>a, <3>1 DEF Bring
        <3>2. CASE cfg.ct[x] = Absent
            BY <1>4, <2>a, <3>2 DEF Bring
        <3> QED
            BY <3>1, <3>2
    <2>2. /\ HostOK' /\ events' \in 0 .. MaxEvents /\ Rest /\ disk' = disk
          /\ ok => Follows(x, cfg, dom', disk', ct')
        BY <1>0, <1>4, <2>1, ContainerStep DEF Follows
    <2> QED
        BY <1>1, <2>2
<1>5. CASE x = "net"
    <2>1. Fault(~ok) /\ UNCHANGED <<hostVars, serial>>
        BY <1>0, <1>5 DEF Bring, Objects
    <2>2. HostOK' /\ events' \in 0 .. MaxEvents /\ Rest /\ disk' = disk
        BY <2>1, FaultType DEF HostOK, hostVars
    <2> QED
        BY <1>0, <1>1, <1>5, <2>2 DEF Follows, Objects
<1> QED
    BY <1>2, <1>3, <1>4, <1>5 DEF Objects

-----------------------------------------------------------------------------
(* Types *)

\* Steps that leave the store alone keep its invariant, and so do those of the store.
LEMMA StoreKept ==
    ASSUME IInv, UNCHANGED imgVars, events' \in 0 .. MaxEvents
    PROVE  IInv'
BY DEF imgVars, IInv, ImagesTypeOK, JobInv, JobOK, InodeInv, ReadyInv, Active, Reading, Arrived, Good

LEMMA StoreStep == IInv /\ [ImagesNext]_<<imgVars, events>> => IInv'
BY TypeStep, JobStep, InodeStep, ReadyStep DEF IInv

TxnType == [pc : {"idle", "apply", "undo"}, new : Configs, ops : Seq(Objects \cup {"net"}),
            k : Nat, disks : {<<>>} \cup Disks]
InspType == [cfg : Configs, todo : Seq(Chore), errs : BOOLEAN]
TxnOK == txn \in TxnType /\ txn.k \in 0 .. Len(txn.ops) + 1

LEMMA TypeParts ==
    TypeOK <=> /\ ImagesTypeOK /\ HostOK /\ committed \in Configs /\ TxnOK /\ insp \in InspType
               /\ doomed \cup raced \subseteq ImageNames /\ scarred \subseteq Objects \cup {"net"}
BY DEF TypeOK, HostOK, TxnOK, TxnType, InspType

LEMMA NoTxnType == NoTxn \in TxnType /\ NoTxn.k \in 0 .. Len(NoTxn.ops) + 1 /\ NoTxn.pc = "idle"
BY WorkloadsAssumption DEF NoTxn, TxnType

LEMMA EachType ==
    ASSUME NEW S \in SUBSET Objects, NEW kind \in {"recover", "check"}
    PROVE  [n \in DOMAIN SetToSeq(S) |-> <<kind, SetToSeq(S)[n]>>] \in Seq(Chore)
<1>1. IsFiniteSet(S)
    BY FS_Union, FS_Subset, WorkloadsAssumption DEF Objects
<1>2. SetToSeq(S) \in Seq(S)
    BY <1>1, SetListed DEF Lists
<1> DEFINE s == SetToSeq(S)
<1> HIDE DEF s
<1>3. s \in Seq(S)
    BY <1>2 DEF s
<1>4. Len(s) \in Nat /\ DOMAIN s = 1 .. Len(s) /\ \A n \in 1 .. Len(s) : <<kind, s[n]>> \in Chore
    BY <1>3, LenProperties, ElementOfSeq DEF Chore
<1>5. [n \in 1 .. Len(s) |-> <<kind, s[n]>>] \in Seq(Chore)
    BY <1>4, IsASeq
<1> QED
    BY <1>4, <1>5 DEF s

\* The recovery goes on with what is left, which is about objects.
LEMMA ChoreType ==
    ASSUME insp \in InspType, insp.todo # <<>>
    PROVE  /\ Tail(insp.todo) \in Seq(Chore) /\ insp.todo[1] \in Chore
           /\ Advance => insp' \in InspType
           /\ insp.todo[1][1] = "recover" => insp.todo[1][2] \in Objects
<1>1. insp.todo \in Seq(Chore) /\ insp.cfg \in Configs /\ insp.errs \in BOOLEAN
    BY DEF InspType
<1>2. Tail(insp.todo) \in Seq(Chore) /\ insp.todo[1] \in Chore
    BY <1>1, HeadTailProperties, EmptySeq, ElementOfSeq
<1>3. [insp EXCEPT !.todo = Tail(insp.todo)] \in InspType
    BY <1>2 DEF InspType
<1>4. ASSUME insp.todo[1][1] = "recover" PROVE insp.todo[1][2] \in Objects
    <2>1. PICK e \in Chore : e = insp.todo[1]
        BY <1>2
    <2>2. e[1] = "recover"
        BY <1>4, <2>1
    <2>3. e \in {"recover", "check"} \X Objects
        <3>1. <<"stale", "">>[1] # "recover"
            OBVIOUS
        <3>2. e # <<"stale", "">>
            BY <2>2, <3>1
        <3> QED
            BY <3>2 DEF Chore
    <2>4. e[2] \in Objects
        BY <2>3
    <2> QED
        BY <2>1, <2>4
<1>5. Advance => insp' \in InspType
    BY <1>3 DEF Advance
<1> QED
    BY <1>2, <1>4, <1>5

LEMMA TypeNext ==
    ASSUME IInv', HostOK', committed' \in Configs, TxnOK', insp' \in InspType,
           doomed' \cup raced' \subseteq ImageNames, scarred' \subseteq Objects \cup {"net"}
    PROVE  IInv' /\ TypeOK'
BY DEF IInv, TypeOK, HostOK, TxnOK, TxnType, InspType

LEMMA StartTypes ==
    ASSUME IInv, TypeOK, NEW new \in Configs, CommitStart(new)
    PROVE  IInv' /\ TypeOK'
<1>1. IInv'
    BY StoreKept, SpendType, TypeParts DEF CommitStart, ImagesTypeOK
<1>2. HostOK' /\ insp' \in InspType /\ committed' \in Configs
    BY TypeParts DEF CommitStart, hostVars, HostOK
<1>3. TxnOK'
    <2>1. Plan(committed, new) \in Seq(Objects \cup {"net"}) /\ committed \in Configs
        BY PlanTouches, TypeParts
    <2>2. Len(Plan(committed, new)) \in Nat
        BY <2>1, LenProperties
    <2>3. disk \in Disks
        BY TypeParts DEF HostOK
    <2>4. [pc |-> "apply", new |-> new, ops |-> Plan(committed, new), k |-> 1, disks |-> disk]
            \in TxnType
        BY <2>1, <2>3 DEF TxnType
    <2> QED
        BY <2>2, <2>4 DEF CommitStart, TxnOK
<1>4. raced' \cup doomed' \subseteq ImageNames
    BY TypeParts DEF CommitStart, ImagesTypeOK, Orphaning, ImageNames
<1>5. scarred' \subseteq Objects \cup {"net"}
    BY TypeParts DEF CommitStart
<1> QED
    BY <1>1, <1>2, <1>3, <1>4, <1>5, TypeNext

\* The steps of a commit and of its undo.
LEMMA OperationTypes ==
    ASSUME IInv, TypeOK, PlanInv, ApplyStep \/ UndoStep
    PROVE  IInv' /\ TypeOK'
<1> DEFINE x == txn.ops[txn.k]
<1>1. /\ txn \in TxnType /\ txn.new \in Configs /\ committed \in Configs
      /\ txn.ops \in Seq(Objects \cup {"net"}) /\ Len(txn.ops) \in Nat
      /\ txn.k \in 1 .. Len(txn.ops) /\ txn.k - 1 \in Nat /\ txn.k + 1 \in Nat
    <2>1. txn \in TxnType /\ committed \in Configs /\ txn.ops \in Seq(Objects \cup {"net"})
          /\ txn.new \in Configs /\ txn.k \in Nat
        BY TypeParts DEF TxnOK, TxnType
    <2> QED
        BY <2>1, LenProperties DEF PlanInv, ApplyStep, UndoStep
<1>2. x \in Objects \cup {"net"}
    BY <1>1, ElementOfSeq
<1>3. /\ IInv' /\ HostOK' /\ scarred' \subseteq Objects \cup {"net"}
    <2>1. PICK ok \in BOOLEAN, cfg \in Configs : Bring(x, cfg, ok) /\ Scar(x, ok)
        BY <1>1 DEF ApplyStep, UndoStep
    <2>2. HostOK' /\ events' \in 0 .. MaxEvents
        BY <1>2, <2>1, Brought, TypeParts DEF ImagesTypeOK
    <2>3. UNCHANGED imgVars
        BY DEF ApplyStep, UndoStep
    <2>4. scarred' \subseteq Objects \cup {"net"}
        BY <1>2, <2>1, TypeParts DEF Scar
    <2> QED
        BY <2>2, <2>3, <2>4, StoreKept
<1>4. TxnOK'
    <2>1. \/ txn' = [txn EXCEPT !.k = txn.k + 1]
          \/ txn' = [txn EXCEPT !.pc = "undo", !.k = txn.k - 1]
          \/ txn' = [txn EXCEPT !.k = txn.k - 1]
        BY DEF ApplyStep, UndoStep
    <2>2. txn' \in TxnType /\ txn'.ops = txn.ops /\ txn'.k \in {txn.k + 1, txn.k - 1}
        BY <1>1, <2>1 DEF TxnType
    <2> QED
        BY <1>1, <2>2 DEF TxnOK
<1>5. committed' \in Configs /\ insp' \in InspType /\ doomed' \cup raced' \subseteq ImageNames
    BY TypeParts DEF ApplyStep, UndoStep
<1> QED
    BY <1>3, <1>4, <1>5, TypeNext

LEMMA EndTypes ==
    ASSUME IInv, TypeOK, UndoDone \/ CommitDone
    PROVE  IInv' /\ TypeOK'
<1>1. IInv'
    BY StoreKept, TypeParts DEF UndoDone, CommitDone, ImagesTypeOK
<1>2. TxnOK'
    BY NoTxnType DEF UndoDone, CommitDone, TxnOK
<1>3. HostOK' /\ insp' \in InspType /\ scarred' \subseteq Objects \cup {"net"}
    BY TypeParts DEF UndoDone, CommitDone, hostVars, HostOK
<1>4. committed' \in Configs
    BY TypeParts DEF UndoDone, CommitDone, TxnOK, TxnType
<1>5. doomed' \cup raced' \subseteq ImageNames
    BY TypeParts DEF UndoDone, CommitDone, Zeroized
<1> QED
    BY <1>1, <1>2, <1>3, <1>4, <1>5, TypeNext

LEMMA InspectTypes ==
    ASSUME IInv, TypeOK, (\E recovering \in BOOLEAN : InspectStart(recovering)) \/ Inspect
    PROVE  IInv' /\ TypeOK'
<1>0. /\ insp \in InspType /\ committed \in Configs /\ TxnOK /\ HostOK /\ events \in 0 .. MaxEvents
      /\ doomed \cup raced \subseteq ImageNames /\ scarred \subseteq Objects \cup {"net"}
    BY TypeParts DEF ImagesTypeOK
<1>1. /\ UNCHANGED imgVars /\ committed' \in Configs /\ TxnOK'
      /\ doomed' \cup raced' \subseteq ImageNames
    BY <1>0 DEF InspectStart, Inspect, RecoverStep, CheckVM, CheckContainer, CheckStale, TxnOK
<1>2. CASE \E recovering \in BOOLEAN : InspectStart(recovering)
    <2> DEFINE vms == {v \in VMs : committed.vm[v] # Absent}
               cts == {c \in Containers : committed.ct[c] # Absent}
               each(kind, names) == [n \in DOMAIN SetToSeq(names) |-> <<kind, SetToSeq(names)[n]>>]
    <2>1. PICK recovering \in BOOLEAN : InspectStart(recovering)
        BY <1>2
    <2>2. /\ each("recover", vms) \in Seq(Chore) /\ each("recover", cts) \in Seq(Chore)
          /\ each("check", vms) \in Seq(Chore) /\ each("check", cts) \in Seq(Chore)
        <3>1. vms \in SUBSET Objects /\ cts \in SUBSET Objects
            BY DEF Objects
        <3> QED
            BY <3>1, EachType
    <2>3. <<>> \in Seq(Chore) /\ <<<<"stale", "">>>> \in Seq(Chore)
        BY DEF Chore
    <2>4. insp' = [cfg |-> committed, errs |-> FALSE,
                   todo |-> (IF recovering THEN each("recover", vms) \o each("recover", cts)
                                           ELSE <<>>)
                            \o each("check", vms) \o each("check", cts)
                            \o <<<<"stale", "">>>>]
        BY <2>1 DEF InspectStart
    <2> HIDE DEF each
    <2>5. insp'.todo \in Seq(Chore)
        BY <2>2, <2>3, <2>4, ConcatProperties
    <2>6. insp' \in InspType
        BY <1>0, <2>4, <2>5 DEF InspType
    <2>7. HostOK' /\ scarred' \subseteq Objects \cup {"net"}
        BY <1>0, <2>1 DEF InspectStart, hostVars, HostOK
    <2>8. events' \in 0 .. MaxEvents
        BY <1>0, <2>1, SpendType DEF InspectStart
    <2> QED
        BY <1>1, <2>6, <2>7, <2>8, StoreKept, TypeNext
<1>3. CASE RecoverStep
    <2> DEFINE x == Subject
    <2>1. PICK ok \in BOOLEAN, scar \in BOOLEAN : Bring(x, insp.cfg, ok) /\ Scar(x, scar)
        BY <1>3 DEF RecoverStep
    <2>2. x \in Objects /\ insp' \in InspType /\ insp.cfg \in Configs
        BY <1>0, <1>3, ChoreType DEF RecoverStep, Todo, Subject, InspType
    <2>3. HostOK' /\ events' \in 0 .. MaxEvents
        BY <1>0, <2>1, <2>2, Brought
    <2>4. scarred' \subseteq Objects \cup {"net"}
        BY <1>0, <2>1, <2>2 DEF Scar
    <2> QED
        BY <1>1, <2>2, <2>3, <2>4, StoreKept, TypeNext
<1>4. CASE CheckVM \/ CheckStale
    <2>1. insp' \in InspType
        BY <1>0, <1>4, ChoreType DEF CheckVM, CheckStale, Todo
    <2>2. events' \in 0 .. MaxEvents
        BY <1>0, <1>4, FaultType DEF CheckVM, CheckStale
    <2>3. HostOK' /\ scarred' \subseteq Objects \cup {"net"}
        BY <1>0, <1>4 DEF CheckVM, CheckStale, hostVars, HostOK
    <2> QED
        BY <1>1, <2>1, <2>2, <2>3, StoreKept, TypeNext
<1>5. CASE CheckContainer
    <2>1. PICK known \in BOOLEAN :
            Fault(~known) /\ insp' = [insp EXCEPT !.todo = Tail(insp.todo), !.errs = @ \/ ~known]
        BY <1>5 DEF CheckContainer
    <2>2. insp' \in InspType
        <3>1. Tail(insp.todo) \in Seq(Chore) /\ (insp.errs \/ ~known) \in BOOLEAN
            BY <1>0, <1>5, ChoreType DEF CheckContainer, Todo, InspType
        <3> QED
            BY <1>0, <2>1, <3>1 DEF InspType
    <2>3. events' \in 0 .. MaxEvents
        BY <1>0, <2>1, FaultType
    <2>4. HostOK' /\ scarred' \subseteq Objects \cup {"net"}
        BY <1>0, <1>5 DEF CheckContainer, hostVars, HostOK
    <2> QED
        BY <1>1, <2>2, <2>3, <2>4, StoreKept, TypeNext
<1> QED
    BY <1>2, <1>3, <1>4, <1>5 DEF Inspect

\* Requests and guests change the state of a domain or container that is there.
LEMMA GuestTypes ==
    ASSUME IInv, TypeOK, NEW x \in Objects, StartStop(x) \/ GuestEnds(x)
    PROVE  /\ IInv' /\ TypeOK' /\ disk' = disk
           /\ \A v \in VMs : /\ dom'[v].conf = dom[v].conf
                             /\ dom'[v] # dom[v] => dom[v].state # "absent" /\ dom'[v].state # "absent"
           /\ \A c \in Containers : (ct'[c] = "absent") = (ct[c] = "absent")
<1>0. HostOK /\ (x \in VMs \/ x \in Containers)
    BY TypeParts DEF Objects
<1>1. /\ UNCHANGED <<committed, alarms, txn, insp, doomed, raced, scarred, serial, imgVars>>
      /\ disk' = disk /\ Spend
    BY DEF StartStop, GuestEnds
<1>2. \/ x \in VMs /\ ct' = ct /\ dom[x].state # "absent"
         /\ \E s \in {"running", "shutoff", "crashed"} : dom' = [dom EXCEPT ![x].state = s]
      \/ x \in Containers /\ dom' = dom /\ ct[x] # "absent"
         /\ \E s \in {"running", "stopped", "failed"} : ct' = [ct EXCEPT ![x] = s]
    BY <1>0 DEF StartStop, GuestEnds, IsActive
<1>3. HostOK' /\ \A v \in VMs : /\ dom'[v].conf = dom[v].conf
                                /\ dom'[v] # dom[v] => dom[v].state # "absent" /\ dom'[v].state # "absent"
    <2>1. CASE dom' = dom
        BY <1>0, <1>1, <1>2, <2>1 DEF HostOK
    <2>2. CASE x \in VMs /\ ct' = ct /\ dom[x].state # "absent"
               /\ \E s \in {"running", "shutoff", "crashed"} : dom' = [dom EXCEPT ![x].state = s]
        <3>1. PICK s \in {"running", "shutoff", "crashed"} : dom' = [dom EXCEPT ![x].state = s]
            BY <2>2
        <3>2. dom \in [VMs -> [state : {"absent", "shutoff", "running", "crashed"}, conf : VmConf]]
            BY <1>0 DEF HostOK
        <3>3. dom' \in [VMs -> [state : {"absent", "shutoff", "running", "crashed"}, conf : VmConf]]
            BY <3>1, <3>2
        <3>4. \A v \in VMs \ {x} : dom'[v] = dom[v]
            BY <3>1, <3>2
        <3>5. dom'[x].conf = dom[x].conf /\ dom'[x].state = s
            BY <2>2, <3>1, <3>2
        <3> QED
            BY <1>0, <1>1, <2>2, <3>3, <3>4, <3>5 DEF HostOK
    <2> QED
        BY <1>2, <2>1, <2>2
<1>4. \A c \in Containers : (ct'[c] = "absent") = (ct[c] = "absent")
    BY <1>0, <1>2 DEF HostOK
<1>5. IInv'
    BY <1>1, StoreKept, SpendType, TypeParts DEF ImagesTypeOK
<1>6. TxnOK' /\ insp' \in InspType /\ committed' \in Configs
    BY <1>1, TypeParts DEF TxnOK
<1>7. doomed' \cup raced' \subseteq ImageNames /\ scarred' \subseteq Objects \cup {"net"}
    BY <1>1, TypeParts
<1> QED
    BY <1>1, <1>3, <1>4, <1>5, <1>6, <1>7, TypeNext

\* What the steps of the store do to the rest: nothing.
LEMMA StoreTypes ==
    ASSUME IInv, TypeOK, (\E i \in ImageNames : DeleteImage(i) \/ DeleteDoomed(i)) \/ ImageStep
    PROVE  IInv' /\ TypeOK'
<1>0. /\ HostOK /\ TxnOK /\ insp \in InspType /\ committed \in Configs /\ ImagesTypeOK
      /\ doomed \cup raced \subseteq ImageNames /\ scarred \subseteq Objects \cup {"net"}
    BY TypeParts
<1>1. /\ UNCHANGED <<committed, hostVars, txn, insp, scarred, serial>>
      /\ doomed' \cup raced' \subseteq ImageNames
    <2>1. CASE \E i \in ImageNames : DeleteImage(i) \/ DeleteDoomed(i)
        BY <1>0, <2>1 DEF DeleteImage, DeleteDoomed
    <2>2. CASE ImageStep
        BY <1>0, <2>2 DEF ImageStep, wlVars
    <2> QED
        BY <2>1, <2>2
<1>2. IInv'
    <2>1. CASE \E i \in ImageNames : DeleteImage(i)
        BY <1>0, <2>1, StoreKept DEF DeleteImage, ImagesTypeOK
    <2>2. CASE \E i \in ImageNames : DeleteDoomed(i)
        <3>1. ImagesNext
            BY <2>2 DEF DeleteDoomed, ImagesNext
        <3> QED
            BY <3>1, StoreStep
    <2>3. CASE ImageStep
        <3>1. ImagesNext
            BY <2>3 DEF ImageStep, ImagesNext
        <3> QED
            BY <3>1, StoreStep
    <2> QED
        BY <2>1, <2>2, <2>3
<1>3. HostOK' /\ TxnOK' /\ insp' \in InspType /\ committed' \in Configs
      /\ scarred' \subseteq Objects \cup {"net"}
    BY <1>0, <1>1 DEF HostOK, TxnOK, hostVars
<1> QED
    BY <1>1, <1>2, <1>3, TypeNext

LEMMA CrashTypes ==
    ASSUME IInv, TypeOK, Crash
    PROVE  IInv' /\ TypeOK'
<1>0. /\ HostOK /\ TxnOK /\ committed \in Configs
      /\ doomed \cup raced \subseteq ImageNames /\ scarred \subseteq Objects \cup {"net"}
    BY TypeParts
<1>1. IInv'
    <2>1. ImagesNext
        BY DEF Crash, ImagesNext
    <2> QED
        BY <2>1, StoreStep
<1>2. TxnOK'
    BY NoTxnType DEF Crash, TxnOK
<1>3. insp' \in InspType
    BY WorkloadsAssumption DEF Crash, NoInsp, InspType
<1>4. scarred' \subseteq Objects \cup {"net"}
    <2>1. txn.ops \in Seq(Objects \cup {"net"})
        BY <1>0 DEF TxnOK, TxnType
    <2>2. Range(txn.ops) \subseteq Objects \cup {"net"}
        BY <2>1, LenProperties, ElementOfSeq DEF Range
    <2> QED
        BY <1>0, <2>2 DEF Crash
<1>5. HostOK' /\ committed' \in Configs /\ doomed' \cup raced' \subseteq ImageNames
    BY <1>0 DEF Crash, hostVars, HostOK
<1> QED
    BY <1>1, <1>2, <1>3, <1>4, <1>5, TypeNext

\* Every variable keeps its type, and the store its invariant.
LEMMA TypesKept == IInv /\ TypeOK /\ PlanInv /\ [Next]_vars => IInv' /\ TypeOK'
<1> SUFFICES ASSUME IInv, TypeOK, PlanInv, [Next]_vars PROVE IInv' /\ TypeOK'
    OBVIOUS
<1>1. CASE Commit
    BY <1>1, StartTypes, OperationTypes, EndTypes DEF Commit
<1>2. CASE (\E recovering \in BOOLEAN : InspectStart(recovering)) \/ Inspect
    BY <1>2, InspectTypes
<1>3. CASE \E x \in VMs \cup Containers : StartStop(x) \/ GuestEnds(x)
    BY <1>3, GuestTypes DEF Objects
<1>4. CASE (\E i \in ImageNames : DeleteImage(i) \/ DeleteDoomed(i)) \/ ImageStep
    BY <1>4, StoreTypes
<1>5. CASE Crash
    BY <1>5, CrashTypes
<1>6. CASE UNCHANGED vars
    <2>1. events \in 0 .. MaxEvents
        BY TypeParts DEF ImagesTypeOK
    <2>2. IInv'
        BY <1>6, <2>1, StoreKept DEF vars
    <2> QED
        BY <1>6, <2>2 DEF vars, wlVars, hostVars, IInv, TypeOK
<1> QED
    BY <1>1, <1>2, <1>3, <1>4, <1>5, <1>6 DEF Next

-----------------------------------------------------------------------------
(* The progress of a commit *)

\* The steps that are neither of a commit nor a crash.
Other ==
    \/ (\E recovering \in BOOLEAN : InspectStart(recovering)) \/ Inspect
    \/ \E x \in Objects : StartStop(x) \/ GuestEnds(x)
    \/ \E i \in ImageNames : DeleteImage(i) \/ DeleteDoomed(i)
    \/ ImageStep
    \/ UNCHANGED vars

LEMMA Cases == [Next]_vars => Commit \/ Other \/ Crash
BY DEF Next, Other, Objects

LEMMA OtherQuiet == Other => UNCHANGED <<committed, txn>>
BY DEF Other, InspectStart, Inspect, RecoverStep, CheckVM, CheckContainer, CheckStale, StartStop,
       GuestEnds, DeleteImage, DeleteDoomed, ImageStep, wlVars, vars

LEMMA PlanStep == TypeOK /\ PlanInv /\ [Next]_vars => PlanInv'
<1> SUFFICES ASSUME TypeOK, PlanInv, [Next]_vars PROVE PlanInv'
    OBVIOUS
<1>1. /\ txn \in TxnType /\ txn.k \in Nat /\ Len(txn.ops) \in Nat
      /\ committed \in Configs /\ txn.k <= Len(txn.ops) + 1
    BY TypeParts, LenProperties DEF TxnOK, TxnType
<1>2. CASE \E new \in Configs : CommitStart(new)
    BY <1>2 DEF CommitStart, PlanInv
<1>3. CASE ApplyStep \/ UndoStep
    <2>1. /\ txn'.ops = txn.ops /\ txn'.new = txn.new /\ txn.pc # "idle" /\ committed' = committed
          /\ \/ txn'.pc = "apply" /\ txn.pc = "apply" /\ txn'.k = txn.k + 1
             \/ txn'.pc = "undo" /\ txn'.k = txn.k - 1
        BY <1>1, <1>3 DEF ApplyStep, UndoStep, TxnType
    <2> QED
        BY <1>1, <2>1 DEF PlanInv
<1>4. CASE UndoDone \/ CommitDone \/ Crash
    BY <1>4, NoTxnType DEF UndoDone, CommitDone, Crash, PlanInv
<1>5. CASE Other
    BY <1>5, OtherQuiet DEF PlanInv
<1> QED
    BY <1>2, <1>3, <1>4, <1>5, Cases DEF Commit

\* What the plan of the commit in progress is.
LEMMA Planned ==
    ASSUME TypeOK, PlanInv, txn.pc # "idle"
    PROVE  /\ txn.pc \in {"apply", "undo"} /\ txn.new \in Configs /\ committed \in Configs
           /\ txn.ops \in Seq(Objects \cup {"net"}) /\ Len(txn.ops) \in Nat /\ txn.k \in Nat
           /\ DOMAIN txn.ops = 1 .. Len(txn.ops)
           /\ \A m, n \in 1 .. Len(txn.ops) : txn.ops[m] = txn.ops[n] => m = n
           /\ \A n \in 1 .. Len(txn.ops) : txn.ops[n] \in Range(txn.ops)
           /\ \A x \in Range(txn.ops) : \E n \in 1 .. Len(txn.ops) : txn.ops[n] = x
           /\ \A x \in Objects \ Range(txn.ops) :
                Follows(x, committed, dom, disk, ct) => Follows(x, txn.new, dom, disk, ct)
<1>1. /\ txn.pc \in {"apply", "undo"} /\ txn.new \in Configs /\ committed \in Configs
      /\ txn.ops \in Seq(Objects \cup {"net"}) /\ txn.k \in Nat
    BY TypeParts DEF TxnOK, TxnType
<1>2. txn.ops = Plan(committed, txn.new)
    BY DEF PlanInv
<1>3. Len(txn.ops) \in Nat /\ DOMAIN txn.ops = 1 .. Len(txn.ops)
    BY <1>1, LenProperties
<1>4. /\ IsInjective(txn.ops)
      /\ \A v \in VMs \ Range(txn.ops) : txn.new.vm[v] = committed.vm[v]
      /\ \A c \in Containers \ Range(txn.ops) : (txn.new.ct[c] = Absent) = (committed.ct[c] = Absent)
    BY <1>1, <1>2, PlanTouches
<1>5. \A x \in Objects \ Range(txn.ops) :
        Follows(x, committed, dom, disk, ct) => Follows(x, txn.new, dom, disk, ct)
    BY <1>4 DEF Follows
<1>6. \A m, n \in 1 .. Len(txn.ops) : txn.ops[m] = txn.ops[n] => m = n
    BY <1>3, <1>4 DEF IsInjective
<1> QED
    BY <1>1, <1>3, <1>5, <1>6 DEF Range

\* A commit begins where the one before it ended.
LEMMA StartProgress ==
    ASSUME TypeOK, ProgressInv, NEW new \in Configs, CommitStart(new)
    PROVE  ProgressInv'
<1>1. /\ txn.pc = "idle" /\ UNCHANGED <<committed, dom, disk, ct, scarred>>
      /\ txn'.pc = "apply" /\ txn'.k = 1 /\ txn'.ops = Plan(committed, new)
    BY DEF CommitStart, hostVars
<1>2. Len(txn'.ops) \in Nat
    BY <1>1, PlanTouches, TypeParts, LenProperties
<1>3. \A n \in 1 .. Len(txn'.ops) : ~Done(n)'
    BY <1>1, <1>2 DEF Done
<1>4. \A x \in Objects \ scarred : Follows(x, committed, dom, disk, ct)
    BY <1>1 DEF ProgressInv
<1> QED
    BY <1>1, <1>3, <1>4 DEF ProgressInv

\* The operation a commit does, or undoes, moves its own object and no other.
LEMMA OperationProgress ==
    ASSUME TypeOK, PlanInv, ProgressInv, ApplyStep \/ UndoStep
    PROVE  ProgressInv'
<1> DEFINE y == txn.ops[txn.k]
<1>1. txn.pc # "idle" /\ committed' = committed
    BY DEF ApplyStep, UndoStep
<1>2. txn.k \in 1 .. Len(txn.ops)
    BY <1>1, Planned DEF PlanInv, ApplyStep, UndoStep
<1>3. y \in Objects \cup {"net"} /\ y \in Range(txn.ops)
    BY <1>1, <1>2, Planned, ElementOfSeq
<1>4. PICK ok \in BOOLEAN, cfg \in Configs :
        /\ Bring(y, cfg, ok) /\ Scar(y, ok)
        /\ \/ /\ txn.pc = "apply" /\ cfg = txn.new
              /\ txn' = IF ok THEN [txn EXCEPT !.k = txn.k + 1]
                              ELSE [txn EXCEPT !.pc = "undo", !.k = txn.k - 1]
           \/ txn.pc = "undo" /\ cfg = committed /\ txn' = [txn EXCEPT !.k = txn.k - 1]
    BY <1>1, Planned DEF ApplyStep, UndoStep
<1>5. /\ txn'.ops = txn.ops /\ txn'.new = txn.new /\ txn'.pc # "idle"
      /\ \A n \in 1 .. Len(txn.ops) : IF n = txn.k THEN ok => Done(n)' = (txn.pc = "apply")
                                                   ELSE Done(n)' = Done(n)
    <2>1. txn \in TxnType /\ txn.k \in Nat /\ Len(txn.ops) \in Nat
        BY <1>1, Planned, TypeParts DEF TxnOK
    <2>2. \/ txn.pc = "apply" /\ cfg = txn.new /\ ok /\ txn'.pc = "apply" /\ txn'.k = txn.k + 1
          \/ txn.pc = "apply" /\ ~ok /\ txn'.pc = "undo" /\ txn'.k = txn.k - 1
          \/ txn.pc = "undo" /\ txn'.pc = "undo" /\ txn'.k = txn.k - 1
        BY <1>4, <2>1 DEF TxnType
    <2>3. txn'.ops = txn.ops /\ txn'.new = txn.new /\ txn'.pc # "idle"
        BY <1>4, <2>1 DEF TxnType
    <2>4. \A n \in 1 .. Len(txn.ops) : n = txn.k /\ ok => Done(n)' = (txn.pc = "apply")
        BY <2>1, <2>2 DEF Done
    <2>5. \A n \in 1 .. Len(txn.ops) : n # txn.k => Done(n)' = Done(n)
        BY <2>1, <2>2 DEF Done
    <2> QED
        BY <2>3, <2>4, <2>5
<1>6. /\ \A x \in Objects \ {y}, c \in Configs :
           Follows(x, c, dom, disk, ct) => Follows(x, c, dom', disk', ct')
      /\ ok => Follows(y, cfg, dom', disk', ct')
    <2>1. HostOK /\ events \in 0 .. MaxEvents
        BY TypeParts DEF ImagesTypeOK
    <2>2. Bring(y, cfg, ok)
        BY <1>4
    <2> HIDE DEF y
    <2> QED
        BY <1>3, <2>1, <2>2, Brought
<1> SUFFICES ASSUME NEW x \in Objects \ scarred'
             PROVE  /\ x \notin Range(txn.ops) => Follows(x, committed, dom', disk', ct')
                    /\ \A n \in 1 .. Len(txn.ops) : txn.ops[n] = x =>
                         Follows(x, IF Done(n)' THEN txn.new ELSE committed, dom', disk', ct')
    BY <1>1, <1>5 DEF ProgressInv
<1>7. CASE x = y
    <2>1. ok
        BY <1>4, <1>7 DEF Scar
    <2>2. \A n \in 1 .. Len(txn.ops) : txn.ops[n] = x => n = txn.k
        BY <1>1, <1>2, <1>7, Planned
    <2>3. \A n \in 1 .. Len(txn.ops) :
            n = txn.k => cfg = IF Done(n)' THEN txn.new ELSE committed
        BY <1>4, <1>5, <2>1
    <2>4. Follows(x, cfg, dom', disk', ct')
        BY <1>6, <1>7, <2>1
    <2> QED
        BY <1>3, <1>7, <2>2, <2>3, <2>4
<1>8. CASE x # y
    <2>1. x \in Objects \ scarred
        BY <1>4, <1>8 DEF Scar
    <2>2. committed \in Configs /\ txn.new \in Configs
        BY <1>1, Planned
    <2>3. x \notin Range(txn.ops) => Follows(x, committed, dom', disk', ct')
        BY <1>6, <1>8, <2>1, <2>2 DEF ProgressInv
    <2>4. ASSUME NEW n \in 1 .. Len(txn.ops), txn.ops[n] = x
          PROVE  Follows(x, IF Done(n)' THEN txn.new ELSE committed, dom', disk', ct')
        <3>1. Done(n)' = Done(n)
            BY <1>5, <1>8, <2>4
        <3>2. Follows(x, IF Done(n) THEN txn.new ELSE committed, dom, disk, ct)
            BY <1>1, <2>1, <2>4 DEF ProgressInv
        <3>3. (IF Done(n) THEN txn.new ELSE committed) \in Configs
            BY <2>2
        <3> QED
            BY <1>6, <1>8, <3>1, <3>2, <3>3
    <2> QED
        BY <2>3, <2>4
<1> QED
    BY <1>7, <1>8

\* A commit ends with every operation done, or with every operation undone.
LEMMA EndProgress ==
    ASSUME TypeOK, PlanInv, ProgressInv, UndoDone \/ CommitDone
    PROVE  ProgressInv'
<1>1. /\ txn.pc # "idle" /\ txn'.pc = "idle" /\ UNCHANGED <<dom, disk, ct, scarred>>
      /\ \/ UndoDone /\ committed' = committed
         \/ CommitDone /\ committed' = txn.new
    BY NoTxnType DEF UndoDone, CommitDone, hostVars
<1> SUFFICES ASSUME NEW x \in Objects \ scarred
             PROVE  Follows(x, committed', dom, disk, ct)
    BY <1>1 DEF ProgressInv
<1>2. CASE x \notin Range(txn.ops)
    BY <1>1, <1>2, Planned DEF ProgressInv
<1>3. CASE x \in Range(txn.ops)
    <2>1. PICK n \in 1 .. Len(txn.ops) : txn.ops[n] = x
        BY <1>1, <1>3, Planned
    <2>2. Follows(x, IF Done(n) THEN txn.new ELSE committed, dom, disk, ct)
        BY <1>1, <2>1 DEF ProgressInv
    <2>3. UndoDone => ~Done(n)
        BY <1>1, Planned DEF UndoDone, Done
    <2>4. CommitDone => Done(n)
        BY <1>1, Planned DEF CommitDone, Done
    <2> QED
        BY <1>1, <2>2, <2>3, <2>4
<1> QED
    BY <1>2, <1>3

\* What keeps every object as it was wanted keeps the progress.
LEMMA Undisturbed ==
    ASSUME TypeOK, ProgressInv, UNCHANGED <<committed, txn>>, scarred \subseteq scarred',
           \A x \in Objects \ scarred', c \in Configs :
             Follows(x, c, dom, disk, ct) => Follows(x, c, dom', disk', ct')
    PROVE  ProgressInv'
<1>1. committed \in Configs /\ txn.new \in Configs
    BY TypeParts DEF TxnOK, TxnType
<1>2. \A n : Done(n)' = Done(n)
    BY DEF Done
<1> SUFFICES ASSUME NEW x \in Objects \ scarred'
             PROVE  /\ txn.pc = "idle" \/ x \notin Range(txn.ops) => Follows(x, committed, dom', disk', ct')
                    /\ txn.pc # "idle" =>
                         \A n \in 1 .. Len(txn.ops) : txn.ops[n] = x =>
                           Follows(x, IF Done(n) THEN txn.new ELSE committed, dom', disk', ct')
    BY <1>2 DEF ProgressInv
<1>3. x \in Objects \ scarred
    OBVIOUS
<1>4. txn.pc = "idle" \/ x \notin Range(txn.ops) => Follows(x, committed, dom', disk', ct')
    BY <1>1, <1>3 DEF ProgressInv
<1>5. ASSUME txn.pc # "idle", NEW n \in 1 .. Len(txn.ops), txn.ops[n] = x
      PROVE  Follows(x, IF Done(n) THEN txn.new ELSE committed, dom', disk', ct')
    <2>1. Follows(x, IF Done(n) THEN txn.new ELSE committed, dom, disk, ct)
        BY <1>3, <1>5 DEF ProgressInv
    <2>2. (IF Done(n) THEN txn.new ELSE committed) \in Configs
        BY <1>1
    <2> QED
        BY <2>1, <2>2
<1> QED
    BY <1>4, <1>5

\* A recovery restores what the commit does not touch, and marks what it overran.
LEMMA RecoverProgress ==
    ASSUME TypeOK, ProgressInv, RecoverStep
    PROVE  ProgressInv'
<1> DEFINE y == Subject
           overrun == insp.cfg.vm # committed.vm \/ insp.cfg.ct # committed.ct
                      \/ (txn.pc # "idle" /\ y \in Range(txn.ops))
<1>1. PICK ok \in BOOLEAN : Bring(y, insp.cfg, ok) /\ Scar(y, ok /\ ~overrun)
    BY DEF RecoverStep
<1>2. y \in Objects /\ insp.cfg \in Configs /\ committed \in Configs /\ txn.new \in Configs
      /\ UNCHANGED <<committed, txn>> /\ Len(txn.ops) \in Nat /\ DOMAIN txn.ops = 1 .. Len(txn.ops)
    BY ChoreType, TypeParts, LenProperties
       DEF RecoverStep, Todo, Subject, InspType, TxnOK, TxnType
<1>3. /\ \A x \in Objects \ {y}, c \in Configs :
           Follows(x, c, dom, disk, ct) => Follows(x, c, dom', disk', ct')
      /\ ok => Follows(y, insp.cfg, dom', disk', ct')
    BY <1>1, <1>2, Brought, TypeParts DEF ImagesTypeOK
<1>4. CASE ok /\ ~overrun
    <2>1. Follows(y, committed, dom', disk', ct')
        BY <1>3, <1>4 DEF Follows
    <2>2. \A x \in Objects \ scarred' : x = y \/ x \in Objects \ scarred
        BY <1>1, <1>4 DEF Scar
    <2>3. \A n : Done(n)' = Done(n)
        BY <1>2 DEF Done
    <2> SUFFICES ASSUME NEW x \in Objects \ scarred'
                 PROVE  /\ txn.pc = "idle" \/ x \notin Range(txn.ops) => Follows(x, committed, dom', disk', ct')
                        /\ txn.pc # "idle" =>
                             \A n \in 1 .. Len(txn.ops) : txn.ops[n] = x =>
                               Follows(x, IF Done(n) THEN txn.new ELSE committed, dom', disk', ct')
        BY <1>2, <2>3 DEF ProgressInv
    <2>4. CASE x = y
        BY <1>2, <1>4, <2>1, <2>4 DEF Range
    <2>5. CASE x # y
        <3>1. x \in Objects \ scarred
            BY <2>2, <2>5
        <3>2. txn.pc = "idle" \/ x \notin Range(txn.ops) => Follows(x, committed, dom', disk', ct')
            BY <1>2, <1>3, <2>5, <3>1 DEF ProgressInv
        <3>3. ASSUME txn.pc # "idle", NEW n \in 1 .. Len(txn.ops), txn.ops[n] = x
              PROVE  Follows(x, IF Done(n) THEN txn.new ELSE committed, dom', disk', ct')
            <4>1. Follows(x, IF Done(n) THEN txn.new ELSE committed, dom, disk, ct)
                BY <3>1, <3>3 DEF ProgressInv
            <4>2. (IF Done(n) THEN txn.new ELSE committed) \in Configs
                BY <1>2
            <4> QED
                BY <1>3, <2>5, <4>1, <4>2
        <3> QED
            BY <3>2, <3>3
    <2> QED
        BY <2>4, <2>5
<1>5. CASE ~(ok /\ ~overrun)
    <2>1. scarred' = scarred \cup {y}
        BY <1>1, <1>5 DEF Scar
    <2> QED
        BY <1>2, <1>3, <2>1, Undisturbed
<1> QED
    BY <1>4, <1>5

LEMMA ProgressStep == TypeOK /\ PlanInv /\ ProgressInv /\ IInv /\ [Next]_vars => ProgressInv'
<1> SUFFICES ASSUME TypeOK, PlanInv, ProgressInv, IInv, [Next]_vars PROVE ProgressInv'
    OBVIOUS
<1>1. CASE Commit
    BY <1>1, StartProgress, OperationProgress, EndProgress DEF Commit
<1>2. CASE Other
    <2>0. UNCHANGED <<committed, txn>>
        BY <1>2, OtherQuiet
    <2>1. CASE RecoverStep
        BY <2>1, RecoverProgress
    <2>2. CASE \E x \in Objects : StartStop(x) \/ GuestEnds(x)
        <3>1. PICK y \in Objects : StartStop(y) \/ GuestEnds(y)
            BY <2>2
        <3>2. scarred' = scarred
            BY <3>1 DEF StartStop, GuestEnds
        <3>3. \A x \in Objects, c \in Configs :
                Follows(x, c, dom, disk, ct) => Follows(x, c, dom', disk', ct')
            <4>1. /\ disk' = disk
                  /\ \A v \in VMs : /\ dom'[v].conf = dom[v].conf
                                    /\ dom'[v] # dom[v] => dom[v].state # "absent" /\ dom'[v].state # "absent"
                  /\ \A c \in Containers : (ct'[c] = "absent") = (ct[c] = "absent")
                BY <3>1, GuestTypes
            <4> QED
                BY <4>1, DiskType DEF Follows
        <3> QED
            BY <2>0, <3>2, <3>3, Undisturbed
    <2>3. CASE UNCHANGED <<dom, disk, ct, scarred>>
        BY <2>0, <2>3, Undisturbed
    <2> QED
        BY <1>2, <2>1, <2>2, <2>3
        DEF Other, InspectStart, Inspect, CheckVM, CheckContainer, CheckStale,
            DeleteImage, DeleteDoomed, ImageStep, wlVars, hostVars, vars
<1>3. CASE Crash
    <2>1. /\ txn'.pc = "idle" /\ UNCHANGED <<committed, dom, disk, ct>>
          /\ scarred' = scarred \cup Range(txn.ops)
        BY <1>3, NoTxnType DEF Crash, hostVars
    <2>2. \A x \in Objects \ scarred' : Follows(x, committed, dom, disk, ct)
        BY <2>1 DEF ProgressInv
    <2> QED
        BY <2>1, <2>2 DEF ProgressInv
<1> QED
    BY <1>1, <1>2, <1>3, Cases

-----------------------------------------------------------------------------
(* Images and the disks made from them *)

LEMMA ValidStep == TypeOK /\ ValidInv /\ [Next]_vars => ValidInv'
<1> SUFFICES ASSUME TypeOK, ValidInv, [Next]_vars PROVE ValidInv'
    OBVIOUS
<1>1. CASE \E new \in Configs : CommitStart(new)
    BY <1>1 DEF CommitStart, ValidInv, Valid
<1>2. CASE ApplyStep \/ UndoStep
    <2>1. txn'.new = txn.new /\ txn.pc # "idle" /\ committed' = committed
        BY <1>2, TypeParts DEF ApplyStep, UndoStep, TxnOK, TxnType
    <2> QED
        BY <2>1 DEF ValidInv
<1>3. CASE UndoDone \/ CommitDone \/ Crash
    BY <1>3, NoTxnType DEF UndoDone, CommitDone, Crash, ValidInv
<1>4. CASE Other
    BY <1>4, OtherQuiet DEF ValidInv
<1> QED
    BY <1>1, <1>2, <1>3, <1>4, Cases DEF Commit

\* The reference check sees every machine.
LEMMA Counted ==
    ASSUME NEW cfg, NEW i, Names(cfg, i)
    PROVE  RefCount(cfg, i) > 0
<1> DEFINE S == {v \in VMs : cfg.vm[v].image = i} \cup {c \in Containers : cfg.ct[c].image = i}
<1>1. IsFiniteSet(S) /\ S # {}
    <2>1. S \subseteq VMs \cup Containers
        OBVIOUS
    <2>2. IsFiniteSet(VMs \cup Containers)
        BY FS_Union, WorkloadsAssumption
    <2> QED
        BY <2>1, <2>2, FS_Subset DEF Names
<1>2. Cardinality(S) \in Nat /\ Cardinality(S) # 0
    BY <1>1, FS_CardinalityType, FS_EmptySet
<1> QED
    BY <1>2 DEF RefCount

LEMMA NoneNamed == Absent.image = None /\ None \notin ImageNames /\ VmImages \cap CtImages = {}
BY ImagesAssumption DEF Absent, ImageNames

LEMMA DoomStep == TypeOK /\ DoomInv /\ [Next]_vars => DoomInv'
<1> SUFFICES ASSUME TypeOK, DoomInv, [Next]_vars PROVE DoomInv'
    OBVIOUS
<1>1. CASE \E new \in Configs : CommitStart(new)
    <2>1. PICK new \in Configs : CommitStart(new)
        BY <1>1
    <2>2. /\ UNCHANGED <<committed, doomed, deleting>> /\ txn'.new = new
          /\ raced \subseteq raced'
          /\ \A i \in (doomed \cup {deleting}) \ {None} : RefCount(new, i) > 0 => i \in raced'
        BY <2>1 DEF CommitStart, imgVars
    <2>3. \A i \in (doomed \cup {deleting}) \ {None} : i \in raced' \/ ~Names(new, i)
        BY <2>2, Counted
    <2> QED
        BY <2>2, <2>3 DEF DoomInv
<1>2. CASE ApplyStep \/ UndoStep
    <2>1. txn'.new = txn.new /\ txn.pc # "idle" /\ UNCHANGED <<committed, doomed, deleting, raced>>
        BY <1>2, TypeParts DEF ApplyStep, UndoStep, TxnOK, TxnType, imgVars
    <2> QED
        BY <2>1 DEF DoomInv
<1>3. CASE UndoDone
    BY <1>3, NoTxnType DEF UndoDone, DoomInv, imgVars
<1>4. CASE CommitDone
    <2>1. /\ txn.pc # "idle" /\ txn'.pc = "idle" /\ committed' = txn.new
          /\ UNCHANGED <<deleting, raced>>
          /\ doomed' \subseteq doomed \cup Zeroized(txn.new)
        BY <1>4, NoTxnType DEF CommitDone, imgVars
    <2>2. \A i \in Zeroized(txn.new) : ~Names(txn.new, i)
        BY NoneNamed DEF Zeroized, Declared, Names
    <2> QED
        BY <2>1, <2>2 DEF DoomInv
<1>5. CASE Crash
    BY <1>5 DEF Crash, Restart, DoomInv
<1>6. CASE \E i \in ImageNames : DeleteImage(i)
    <2>1. PICK i \in ImageNames : DeleteImage(i)
        BY <1>6
    <2>2. /\ txn.pc = "idle" /\ doomed' = doomed \cup {i} /\ raced' = raced \ {i}
          /\ UNCHANGED <<committed, txn, deleting>> /\ ~(RefCount(committed, i) > 0)
        BY <2>1 DEF DeleteImage, imgVars
    <2>3. ~Names(committed, i)
        BY <2>2, Counted
    <2> QED
        BY <2>2, <2>3 DEF DoomInv
<1>7. CASE \E i \in ImageNames : DeleteDoomed(i)
    BY <1>7 DEF DeleteDoomed, DeleteFile, DoomInv
<1>8. CASE ImageStep
    <2>1. UNCHANGED <<committed, txn, doomed, raced>> /\ deleting' \in {deleting, None}
        BY <1>8 DEF ImageStep, wlVars, DownloadStep, StatPart, Break, NothingLeft, OpenPart, ReadBlock,
                    Finish, Register, DownloadStart, Import, DeleteEntry
    <2> QED
        BY <2>1 DEF DoomInv
<1>9. CASE UNCHANGED <<committed, txn, doomed, raced, deleting>>
    BY <1>9 DEF DoomInv
<1>10. CASE Other
    BY <1>6, <1>7, <1>8, <1>9, <1>10
    DEF Other, InspectStart, Inspect, RecoverStep, CheckVM, CheckContainer, CheckStale, StartStop,
        GuestEnds, imgVars, wlVars, vars
<1> QED
    BY <1>1, <1>2, <1>3, <1>4, <1>5, <1>10, Cases DEF Commit

\* Downloads and uploads replace the file of a machine's image, and do not remove it.
LEMMA FileStays ==
    ASSUME IInv, ImageStep, NEW i \in VmImages, file[i] # None
    PROVE  file'[i] # None
<1>0. /\ file \in [ImageNames -> Inodes \cup {None}] /\ i \in ImageNames /\ i \notin CtImages
    BY ImagesAssumption DEF IInv, ImagesTypeOK, ImageNames
<1>1. CASE \E j \in Jobs : Finish(j) \/ Register(j)
    <2>1. PICK j \in Jobs : Finish(j) \/ Register(j)
        BY <1>1
    <2>2. \/ file' = file
          \/ part[job[j].image] # None /\ file' = [file EXCEPT ![job[j].image] = part[job[j].image]]
          \/ job[j].image \in CtImages /\ file' = [file EXCEPT ![job[j].image] = None]
        BY <2>1 DEF Finish, Register
    <2> QED
        BY <1>0, <2>2
<1>2. CASE \E n \in ImageNames : Import(n)
    <2>1. PICK n \in ImageNames : Import(n)
        BY <1>2
    <2>2. Fresh # None
        BY FreshInode, ImagesAssumption DEF IInv, Inodes
    <2>3. file' = file \/ file' = [file EXCEPT ![n] = Fresh]
        BY <2>1 DEF Import
    <2> QED
        BY <1>0, <2>2, <2>3
<1>3. CASE file' = file
    BY <1>3
<1> QED
    BY <1>1, <1>2, <1>3
    DEF ImageStep, DownloadStep, StatPart, Break, NothingLeft, OpenPart, ReadBlock, DownloadStart,
        DeleteEntry

LEMMA BackStep == IInv /\ TypeOK /\ PlanInv /\ DoomInv /\ BackInv /\ [Next]_vars => BackInv'
<1> SUFFICES ASSUME IInv, TypeOK, PlanInv, DoomInv, BackInv, [Next]_vars PROVE BackInv'
    OBVIOUS
<1>0. /\ None \notin VmImages /\ HostOK /\ events \in 0 .. MaxEvents
      /\ file \in [ImageNames -> Inodes \cup {None}]
    BY NoneNamed, TypeParts DEF ImagesTypeOK, ImageNames
\* An operation on one object.
<1>1. ASSUME NEW x \in Objects \cup {"net"}, NEW cfg \in Configs, NEW ok \in BOOLEAN, Bring(x, cfg, ok),
             UNCHANGED <<committed, raced, file>>, txn'.new = txn.new,
             txn'.pc # "idle" => txn.pc # "idle"
      PROVE  BackInv'
    <2>1. \A v \in VMs : disk'[v].main \in {disk[v].main, Absent} \/ file[disk'[v].main.image] # None
        BY <1>0, <1>1, Brought
    <2> QED
        BY <1>0, <1>1, <2>1, NoneNamed DEF BackInv
<1>2. CASE \E new \in Configs : CommitStart(new)
    <2>1. PICK new \in Configs : CommitStart(new)
        BY <1>2
    <2>2. /\ UNCHANGED <<committed, disk, file>> /\ txn'.new = new
          /\ raced \cup Orphaning(new) \subseteq raced'
        BY <2>1 DEF CommitStart, hostVars, imgVars
    <2> QED
        BY <2>2 DEF BackInv, Orphaning
<1>3. CASE ApplyStep \/ UndoStep
    <2>1. txn.pc # "idle" /\ txn.k \in 1 .. Len(txn.ops)
        BY <1>3, Planned DEF PlanInv, ApplyStep, UndoStep
    <2>2. /\ txn.ops[txn.k] \in Objects \cup {"net"}
          /\ \E ok \in BOOLEAN, cfg \in Configs : Bring(txn.ops[txn.k], cfg, ok)
        BY <1>3, <2>1, Planned, ElementOfSeq DEF ApplyStep, UndoStep
    <2>3. UNCHANGED <<committed, raced, file>> /\ txn'.new = txn.new
        BY <1>3, TypeParts DEF ApplyStep, UndoStep, imgVars, TxnOK, TxnType
    <2> QED
        BY <1>1, <2>1, <2>2, <2>3
<1>4. CASE UndoDone \/ CommitDone
    <2>1. /\ UNCHANGED <<disk, file, raced>> /\ txn.pc # "idle" /\ txn'.pc = "idle"
          /\ committed' \in {committed, txn.new}
        BY <1>4, NoTxnType DEF UndoDone, CommitDone, hostVars, imgVars
    <2> QED
        BY <2>1 DEF BackInv
<1>5. CASE Crash
    BY <1>5, NoTxnType DEF Crash, Restart, hostVars, BackInv
<1>6. CASE RecoverStep
    <2>1. Subject \in Objects /\ insp.cfg \in Configs
        BY <1>6, ChoreType, TypeParts DEF RecoverStep, Todo, Subject, InspType
    <2>2. /\ \E ok \in BOOLEAN : Bring(Subject, insp.cfg, ok)
          /\ UNCHANGED <<committed, raced, txn, file>>
        BY <1>6 DEF RecoverStep, imgVars
    <2> QED
        BY <1>1, <2>1, <2>2
<1>7. CASE \E i \in ImageNames : DeleteImage(i)
    <2>1. PICK i \in ImageNames : DeleteImage(i)
        BY <1>7
    <2>2. /\ txn.pc = "idle" /\ raced' = raced \ {i} /\ UNCHANGED <<committed, txn, disk, file>>
          /\ ~(RefCount(committed, i) > 0)
        BY <2>1 DEF DeleteImage, hostVars, imgVars
    <2>3. \A v \in VMs : committed.vm[v].image # i
        BY <2>2, Counted DEF Names
    <2> QED
        BY <2>2, <2>3 DEF BackInv
<1>8. CASE \E i \in ImageNames : DeleteDoomed(i)
    <2>1. PICK i \in ImageNames : DeleteDoomed(i)
        BY <1>8
    <2>2. /\ i \in doomed /\ i # None /\ UNCHANGED <<committed, txn, disk, raced>>
          /\ \A n \in VmImages \ {i} : file'[n] = file[n]
        BY <1>0, <2>1, NoneNamed DEF DeleteDoomed, DeleteFile, hostVars
    <2>3. i \in raced \/ \A v \in VMs : committed.vm[v].image # i
                                        /\ (txn.pc # "idle" => txn.new.vm[v].image # i)
        BY <2>2 DEF DoomInv, Names
    <2> QED
        BY <2>2, <2>3 DEF BackInv
<1>9. CASE ImageStep
    <2>1. UNCHANGED <<committed, txn, disk, raced>>
        BY <1>9 DEF ImageStep, wlVars, hostVars
    <2>2. \A i \in VmImages : file[i] # None => file'[i] # None
        BY <1>9, FileStays
    <2> QED
        BY <2>1, <2>2 DEF BackInv
<1>10. CASE UNCHANGED <<committed, txn, disk, raced, file>>
    BY <1>10 DEF BackInv
<1>11. CASE \E x \in Objects : StartStop(x) \/ GuestEnds(x)
    <2>1. disk' = disk
        BY <1>11 DEF StartStop, GuestEnds
    <2> QED
        BY <1>10, <1>11, <2>1 DEF StartStop, GuestEnds, imgVars
<1>12. CASE Other
    BY <1>6, <1>7, <1>8, <1>9, <1>10, <1>11, <1>12
    DEF Other, InspectStart, Inspect, CheckVM, CheckContainer, CheckStale, hostVars, imgVars, wlVars, vars
<1> QED
    BY <1>2, <1>3, <1>4, <1>5, <1>12, Cases DEF Commit

-----------------------------------------------------------------------------
(* The theorems *)

LEMMA WorkloadsStart == Init => WorkloadsInv
<1> SUFFICES ASSUME Init PROVE WorkloadsInv
    OBVIOUS
<1>1. IInv
    BY InitIInv, WorkloadsAssumption DEF Init
<1>2. HostOK
    BY DiskType DEF Init, HostOK, Disks
<1>3. TypeOK
    <2>1. TxnOK /\ insp \in InspType
        BY NoTxnType, WorkloadsAssumption DEF Init, TxnOK, NoInsp, InspType
    <2> QED
        BY <1>1, <1>2, <2>1, TypeParts, WorkloadsAssumption DEF Init, IInv
<1>4. txn.pc = "idle" /\ deleting = None /\ doomed = {}
    BY NoTxnType DEF Init, ImagesInit
<1>5. \A x \in Objects : Follows(x, committed, dom, disk, ct)
    BY WorkloadsAssumption DEF Init, Follows
<1>6. \A v \in VMs : disk[v].main.image \notin VmImages
    BY NoneNamed DEF Init, NoDisk, ImageNames
<1> QED
    BY <1>1, <1>3, <1>4, <1>5, <1>6, WorkloadsAssumption
    DEF WorkloadsInv, PlanInv, ProgressInv, ValidInv, DoomInv, BackInv, Init

(***************************************************************************)
(* The inductive invariant of machines, containers and images, through     *)
(* commits and their undo, recoveries, deletions, guests and crashes.      *)
(***************************************************************************)
THEOREM WorkloadsInvariant == Spec => []WorkloadsInv
<1>1. WorkloadsInv /\ [Next]_vars => WorkloadsInv'
    BY TypesKept, PlanStep, ProgressStep, ValidStep, DoomStep, BackStep DEF WorkloadsInv
<1> QED
    BY <1>1, WorkloadsStart, PTL DEF Spec

(***************************************************************************)
(* Every variable of the machines, the containers and the image store has  *)
(* its type: a recovery works through objects there are, and a commit      *)
(* never leaves its plan.                                                  *)
(***************************************************************************)
THEOREM WorkloadsTypeCorrect == Spec => []TypeOK
<1>1. WorkloadsInv => TypeOK
    BY DEF WorkloadsInv
<1> QED
    BY <1>1, WorkloadsInvariant, PTL

(***************************************************************************)
(* Between commits every machine and container is on the host as the       *)
(* committed configuration says, but for what an operation failed on, a    *)
(* crash cut short or a recovery overran (apply.go, EnsureConsistent).     *)
(***************************************************************************)
THEOREM WorkloadsConverge == Spec => []Converged
<1>1. WorkloadsInv => Converged
    <2> SUFFICES ASSUME WorkloadsInv, txn.pc = "idle",
                        NEW x \in Objects \ scarred
                 PROVE  Follows(x, committed, dom, disk, ct)
        BY DEF Converged, Follows, Objects
    <2> QED
        BY DEF WorkloadsInv, ProgressInv
<1> QED
    BY <1>1, WorkloadsInvariant, PTL

(***************************************************************************)
(* Between commits the image under the main disk of a machine is there,    *)
(* as long as the machine names it and no deletion of it that had passed   *)
(* the reference check came after the commit (handleDeleteImage, DefineVM).*)
(***************************************************************************)
THEOREM DisksAreBacked == Spec => []MainBacked
<1>1. WorkloadsInv => MainBacked
    <2> SUFFICES ASSUME WorkloadsInv, txn.pc = "idle", NEW v \in VMs,
                        committed.vm[v].image # None,
                        disk[v].main.image = committed.vm[v].image,
                        committed.vm[v].image \notin raced
                 PROVE  file[committed.vm[v].image] # None
        BY DEF MainBacked
    <2>1. committed.vm[v].image \in VmImages
        BY NoneNamed DEF WorkloadsInv, ValidInv
    <2> QED
        BY <2>1 DEF WorkloadsInv, BackInv
<1> QED
    BY <1>1, WorkloadsInvariant, PTL
=============================================================================
