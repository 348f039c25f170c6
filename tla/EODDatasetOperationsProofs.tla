---------------------- MODULE EODDatasetOperationsProofs ----------------------
(***************************************************************************)
(* Proofs about EODDatasetOperations and EODMaintenanceRecords, for any    *)
(* threads, generations and contents and any limits of maintenance.        *)
(*                                                                         *)
(* The lock is what the threads know of each other: whoever is not idle    *)
(* holds it, so that what an update or a cleanup found stays so until it   *)
(* ends.  The directory itself is sound whoever holds the lock.  The last  *)
(* section has the proofs about EODFileRepository by itself.               *)
(***************************************************************************)
EXTENDS EODMaintenanceRecords, FiniteSetTheorems, WellFoundedInduction, TLAPS

-----------------------------------------------------------------------------
(* The inductive invariant                                                 *)

Maintenance ==
  [state : {"idle", "inspecting", "deleting", "releasing", "unverified"},
   candidates : SUBSET Artifact, todo : SUBSET Artifact,
   fingerprint : [current  : MaybeGeneration,
                  complete : [GenerationIds -> Directory]]]

Typing == /\ DatasetTypeOK
          /\ maintenance \in [Maintainers -> Maintenance]

\* Whoever works on the dataset holds its lock.
Locked ==
  /\ \A p \in Publishers : update[p].state # "idle" => holder = p
  /\ \A m \in Maintainers : maintenance[m].state # "idle" => holder = m

\* What an update knows: its base is still the current generation, and its
\* files are as far as its publication is.
Updating(p) ==
  LET call == publisher[p] IN
  /\ update[p].state # "mismatch"
  /\ update[p].state \in {"merging", "publishing"} => update[p].base = pointer
  /\ call.state # "idle" =>
       /\ update[p].state = "publishing"
       /\ call.previous = pointer
       /\ call.generation \in GenerationIds /\ call.bars \in Contents
  /\ staging[p].exists <=> call.state \in {"parquet", "manifest", "rename"}
  /\ call.state = "rename" => /\ Verified(staging[p])
                              /\ staging[p].previous = pointer
  /\ call.state \in {"temporary", "replace"} =>
       /\ generations[call.generation].exists
       /\ generations[call.generation].previous = pointer
  /\ temporary[p] = IF call.state = "replace" THEN call.generation ELSE NoGeneration

\* The stale artifacts of a kind that are still there.
StaleOf(kind) ==
  {kind} \X (1..(IF kind = "staging" THEN stale.staging ELSE stale.temporaries))

\* What a cleanup knows: nothing but its candidates changed, and of each kind
\* it deletes either every artifact or none.
Cleaning(m) ==
  LET job == maintenance[m] IN
  /\ job.state # "unverified"
  /\ job.state \in {"idle", "inspecting"} => job.candidates = {}
  /\ job.state \in {"deleting", "releasing"} =>
       job.candidates \cap Artifacts \subseteq job.todo
  /\ job.state = "deleting" \/ job.candidates # {} => ~Blocked
  /\ job.state = "deleting" =>
       /\ job.fingerprint = Fingerprint
       /\ \A kind \in Kinds :
            \/ job.todo \cap ({kind} \X Owners) = StaleOf(kind)
            \/ job.candidates \cap ({kind} \X Owners) = {}

\* Every generation is whole and replaced an earlier one, or none.
Whole(g) ==
  LET dir == generations[g] IN
  /\ dir.exists =>
       /\ Verified(dir)
       /\ dir.previous # NoGeneration => generations[dir.previous].exists
  /\ ~dir.exists => dir.parquet = NoContent

Unlooped ==
  \A G \in SUBSET Present : G # {} => \E g \in G : generations[g].previous \notin G

Sound ==
  /\ \A g \in GenerationIds : Whole(g)
  /\ pointer # NoGeneration => generations[pointer].exists
  /\ Unlooped
  /\ IsFiniteSet(Present)

IInv ==
  /\ Typing /\ Locked /\ Sound
  /\ \A p \in Publishers : Updating(p)
  /\ \A m \in Maintainers : Cleaning(m)

-----------------------------------------------------------------------------
(* Updates                                                                 *)

\* The variables, each with its type.
LEMMA Parts ==
  ASSUME Typing
  PROVE  /\ generations \in [GenerationIds -> Directory]
         /\ pointer \in MaybeGeneration
         /\ staging \in [Publishers -> Directory]
         /\ temporary \in [Publishers -> MaybeGeneration]
         /\ stale \in [staging : 0..MaxStale, temporaries : 0..MaxStale]
         /\ publisher \in [Publishers -> Publisher]
         /\ reader \in [Readers -> Reader]
         /\ holder \in Threads \cup {NoThread}
         /\ update \in [Publishers -> Update]
         /\ maintenance \in [Maintainers -> Maintenance]
  BY DEF Typing, DatasetTypeOK, TypeOK

\* The steps of publish keep the types of the files.
LEMMA PublishTypes ==
  ASSUME TypeOK, NEW p \in Publishers,
         \/ PublishStep(p)
         \/ \E g \in GenerationIds, bars \in Contents : BeginPublish(p, g, bars)
  PROVE  TypeOK'
  <1> USE DEF TypeOK, Directory, NoDirectory, Publisher,
              NotPublishing, Step, MaybeGeneration,
              MaybeContent, disk
  <1>0. ASSUME NEW g \in GenerationIds, NEW bars \in Contents, BeginPublish(p, g, bars)
        PROVE  TypeOK'
    BY <1>0 DEF BeginPublish
  <1>1. CASE CreateStaging(p)
    BY <1>1 DEF CreateStaging
  <1>2. CASE WriteParquet(p)
    BY <1>2 DEF WriteParquet
  <1>3. CASE WriteManifest(p)
    BY <1>3 DEF WriteManifest
  <1>4. CASE PublishStaging(p)
    BY <1>4 DEF PublishStaging
  <1>5. CASE WriteTemporary(p)
    BY <1>5 DEF WriteTemporary
  <1>6. CASE ReplaceCurrentPointer(p)
    BY <1>6 DEF ReplaceCurrentPointer
  <1>7. CASE PublishFails(p)
    BY <1>7 DEF PublishFails, Abandons
  <1> QED BY <1>0, <1>1, <1>2, <1>3, <1>4, <1>5, <1>6, <1>7 DEF PublishStep

LEMMA CrashTypes ==
  ASSUME TypeOK, NEW p \in Publishers, Crash(p)
  PROVE  TypeOK'
  <1> DEFINE m == Count(staging[p].exists)
             n == Count(temporary[p] # NoGeneration)
  <1>a. m \in Nat /\ n \in Nat
    BY DEF Count
  <1>b. stale.staging \in Nat /\ stale.temporaries \in Nat /\ MaxStale \in Nat
    BY MaintenanceAssumption DEF TypeOK, RepositoryAssumption
  <1>c. /\ stale' = [staging |-> stale.staging + m,
                     temporaries |-> stale.temporaries + n]
        /\ stale'.staging <= MaxStale /\ stale'.temporaries <= MaxStale
    BY DEF Crash, Abandons
  <1> HIDE DEF m, n
  <1>1. stale' \in [staging : 0..MaxStale, temporaries : 0..MaxStale]
    BY <1>a, <1>b, <1>c
  <1>2. /\ publisher' = [publisher EXCEPT ![p] = NotPublishing]
        /\ staging' = [staging EXCEPT ![p] = NoDirectory]
        /\ temporary' = [temporary EXCEPT ![p] = NoGeneration]
        /\ UNCHANGED <<generations, pointer, reader>>
    BY DEF Crash, Abandons
  <1>3. NoDirectory \in Directory /\ NotPublishing \in Publisher
    BY DEF Directory, NoDirectory, Publisher, NotPublishing,
           MaybeGeneration, MaybeContent
  <1> QED BY <1>1, <1>2, <1>3 DEF TypeOK, MaybeGeneration

LEMMA UpdateTypes ==
  ASSUME Typing, NEW p \in Publishers, UpdateNext(p)
  PROVE  Typing'
  <1>0. /\ update \in [Publishers -> Update] /\ UNCHANGED maintenance
        /\ holder \in Threads \cup {NoThread} /\ TypeOK
        /\ pointer \in GenerationIds \cup {NoGeneration}
    BY Parts
    DEF Typing, DatasetTypeOK, MaybeGeneration, UpdateNext, BeginUpdate, LoadCurrent,
        EndsUnpublished, Publish, WriteFiles, Activate, PublicationFails, EndUpdate
  <1>1. holder' \in Threads \cup {NoThread}
    BY <1>0 DEF UpdateNext, BeginUpdate, LoadCurrent, EndsUnpublished, Publish,
                WriteFiles, Activate, PublicationFails, EndUpdate, Acquire, Release, Threads
  <1>2. update' \in [Publishers -> Update]
    <2>1. ASSUME NEW from, NEW to \in {"loading", "merging", "publishing", "releasing", "mismatch"},
                 UpdateStep(p, from, to)
          PROVE  update' \in [Publishers -> Update]
      BY <1>0, <2>1 DEF UpdateStep, Update
    <2>2. CASE LoadCurrent(p)
      BY <1>0, <2>2 DEF LoadCurrent, Update
    <2>3. CASE EndUpdate(p)
      BY <1>0, <2>3 DEF EndUpdate, NoUpdate, Update
    <2>4. CASE WriteFiles(p)
      BY <1>0, <2>4 DEF WriteFiles
    <2>5. CASE Activate(p)
      <3>1. (IF publisher[p].previous = update[p].base THEN "releasing" ELSE "mismatch")
              \in {"releasing", "mismatch"}
        OBVIOUS
      <3> QED BY <2>1, <2>5, <3>1 DEF Activate
    <2> QED BY <2>1, <2>2, <2>3, <2>4, <2>5
            DEF UpdateNext, BeginUpdate, EndsUnpublished, Publish, PublicationFails
  <1>3. TypeOK'
    <2>1. CASE UNCHANGED vars
      BY <1>0, <2>1 DEF vars, disk, TypeOK
    <2> QED BY <1>0, <2>1, PublishTypes, CrashTypes
            DEF UpdateNext, BeginUpdate, LoadCurrent, EndsUnpublished, Publish,
                WriteFiles, Activate, PublicationFails, EndUpdate, PublishStep
  <1> QED BY <1>0, <1>1, <1>2, <1>3 DEF Typing, DatasetTypeOK

\* Whoever updates holds the lock; the other threads do nothing.
LEMMA UpdateAlone ==
  ASSUME IInv, NEW p \in Publishers, UpdateNext(p)
  PROVE  /\ holder \in {p, NoThread}
         /\ holder' = IF update'[p].state = "idle" THEN NoThread ELSE p
         /\ \A q \in Publishers \ {p} :
              /\ update[q].state = "idle" /\ update'[q] = update[q]
              /\ publisher'[q] = publisher[q] /\ staging'[q] = staging[q]
              /\ temporary'[q] = temporary[q]
         /\ \A m \in Maintainers : maintenance[m].state = "idle"
         /\ UNCHANGED maintenance
  <1>0. /\ update \in [Publishers -> Update] /\ publisher \in [Publishers -> Publisher]
        /\ staging \in [Publishers -> Directory]
        /\ temporary \in [Publishers -> MaybeGeneration]
    BY Parts DEF IInv
  <1>1. BeginUpdate(p) => /\ holder = NoThread /\ holder' = p
                          /\ update'[p].state = "loading"
    BY <1>0 DEF BeginUpdate, Acquire, UpdateStep, Update
  <1>2. ~BeginUpdate(p) => update[p].state # "idle" /\ holder = p
    BY DEF UpdateNext, LoadCurrent, EndsUnpublished, Publish, WriteFiles, Activate,
           PublicationFails, EndUpdate, UpdateStep, IInv, Locked
  <1>3. ~BeginUpdate(p) /\ ~EndUpdate(p) => holder' = holder /\ update'[p].state # "idle"
    BY <1>0, <1>2
    DEF UpdateNext, LoadCurrent, EndsUnpublished, Publish, WriteFiles, Activate,
        PublicationFails, UpdateStep, Update
  <1>4. EndUpdate(p) => holder' = NoThread /\ update'[p].state = "idle"
    BY <1>0 DEF EndUpdate, Release, NoUpdate
  <1>5. ASSUME NEW q \in Publishers \ {p}
        PROVE  update[q].state = "idle" /\ update'[q] = update[q]
    BY <1>0, <1>1, <1>2, MaintenanceAssumption
    DEF UpdateNext, BeginUpdate, LoadCurrent, EndsUnpublished, Publish, WriteFiles,
        Activate, PublicationFails, EndUpdate, UpdateStep, IInv, Locked
  <1>6. ASSUME NEW q \in Publishers \ {p}
        PROVE  /\ publisher'[q] = publisher[q] /\ staging'[q] = staging[q]
               /\ temporary'[q] = temporary[q]
    <2>1. CASE UNCHANGED vars
      BY <2>1 DEF vars, disk
    <2>2. ASSUME NEW g, NEW bars, BeginPublish(p, g, bars) PROVE
               /\ publisher'[q] = publisher[q] /\ staging'[q] = staging[q]
               /\ temporary'[q] = temporary[q]
      BY <1>0, <2>2 DEF BeginPublish, disk
    <2>3. CASE WriteFiles(p) \/ ReplaceCurrentPointer(p)
      BY <1>0, <2>3
      DEF WriteFiles, CreateStaging, WriteParquet, WriteManifest,
          PublishStaging, WriteTemporary, ReplaceCurrentPointer, Step
    <2>4. CASE PublishFails(p) \/ Crash(p)
      BY <1>0, <2>4 DEF PublishFails, Crash, Abandons
    <2> QED BY <2>1, <2>2, <2>3, <2>4
            DEF UpdateNext, BeginUpdate, LoadCurrent, EndsUnpublished, Publish,
                Activate, PublicationFails, EndUpdate
  <1>7. \A m \in Maintainers : maintenance[m].state = "idle"
    BY <1>1, <1>2, MaintenanceAssumption DEF IInv, Locked
  <1>8. UNCHANGED maintenance
    BY DEF UpdateNext, BeginUpdate, LoadCurrent, EndsUnpublished, Publish, WriteFiles,
           Activate, PublicationFails, EndUpdate
  <1> QED BY <1>1, <1>2, <1>3, <1>4, <1>5, <1>6, <1>7, <1>8

\* The updating thread knows what it needs for its next step.
LEMMA UpdaterKnows ==
  ASSUME IInv, NEW p \in Publishers, UpdateNext(p)
  PROVE  Updating(p)'
  <1>0. /\ update \in [Publishers -> Update] /\ publisher \in [Publishers -> Publisher]
        /\ staging \in [Publishers -> Directory]
        /\ temporary \in [Publishers -> MaybeGeneration]
        /\ generations \in [GenerationIds -> Directory]
        /\ NoGeneration \notin GenerationIds /\ NoContent \notin Contents
    BY Parts, MaintenanceAssumption DEF IInv, RepositoryAssumption
  <1>i. Updating(p)
    BY DEF IInv
  <1>1. CASE BeginUpdate(p) \/ EndsUnpublished(p) \/ LoadCurrent(p) \/ EndUpdate(p)
    <2>1. /\ UNCHANGED vars
          /\ update[p].state # "publishing"
          /\ update'[p].state \in {"idle", "loading", "releasing", "merging"}
          /\ update'[p].state = "merging" => update'[p].base = pointer
      BY <1>0, <1>1, <1>i
      DEF BeginUpdate, EndsUnpublished, LoadCurrent, EndUpdate, UpdateStep, Update,
          NoUpdate, Updating
    <2> QED BY <1>i, <2>1 DEF Updating, vars, disk, Verified
  <1>2. CASE Publish(p)
    <2>1. PICK g \in GenerationIds, bars \in Contents : BeginPublish(p, g, bars)
      BY <1>2 DEF Publish
    <2>2. /\ publisher[p].state = "idle" /\ UNCHANGED <<generations, pointer, staging, temporary>>
          /\ publisher'[p] = [state |-> "staging", generation |-> g, bars |-> bars,
                              previous |-> pointer]
      BY <1>0, <2>1 DEF BeginPublish, disk
    <2>3. update'[p].state = "publishing" /\ update'[p].base = update[p].base
          /\ update[p].state = "merging"
      BY <1>0, <1>2 DEF Publish, UpdateStep, Update
    <2> QED BY <1>i, <2>2, <2>3 DEF Updating, Verified
  <1>3. CASE WriteFiles(p)
    <2>0. UNCHANGED update /\ update[p].state = "publishing" /\ UNCHANGED pointer
      BY <1>3 DEF WriteFiles, CreateStaging, WriteParquet,
                  WriteManifest, PublishStaging, WriteTemporary
    <2>t. ASSUME NEW from, NEW to, Step(p, from, to)
          PROVE  /\ publisher[p].state = from /\ publisher'[p].state = to
                 /\ publisher'[p].generation = publisher[p].generation
                 /\ publisher'[p].bars = publisher[p].bars
                 /\ publisher'[p].previous = publisher[p].previous
      BY <1>0, <2>t DEF Step, Publisher
    <2>1. CASE CreateStaging(p)
      <3>1. staging'[p].exists
        BY <1>0, <2>1 DEF CreateStaging, NoDirectory
      <3>2. Step(p, "staging", "parquet") /\ UNCHANGED <<temporary, generations>>
        BY <2>1 DEF CreateStaging
      <3>3. publisher[p].state = "staging" /\ publisher'[p].state = "parquet"
        BY <2>t, <3>2
      <3> QED BY <1>0, <1>i, <2>0, <2>t, <3>1, <3>2, <3>3 DEF Updating
    <2>2. CASE WriteParquet(p)
      <3>1. staging'[p].exists = staging[p].exists
        BY <1>0, <2>2 DEF WriteParquet, Directory
      <3>2. Step(p, "parquet", "manifest") /\ UNCHANGED <<temporary, generations>>
        BY <2>2 DEF WriteParquet
      <3>3. publisher[p].state = "parquet" /\ publisher'[p].state = "manifest"
        BY <2>t, <3>2
      <3> QED BY <1>0, <1>i, <2>0, <2>t, <3>1, <3>2, <3>3 DEF Updating
    <2>3. CASE WriteManifest(p)
      <3>1. /\ staging'[p].exists = staging[p].exists
            /\ staging'[p].parquet = staging[p].parquet
            /\ staging'[p].manifest = publisher[p].bars
            /\ staging'[p].previous = publisher[p].previous
            /\ staging[p].parquet = publisher[p].bars
        BY <1>0, <2>3 DEF WriteManifest, Directory
      <3>2. Step(p, "manifest", "rename") /\ UNCHANGED <<temporary, generations>>
        BY <2>3 DEF WriteManifest
      <3>3. publisher[p].state = "manifest" /\ publisher'[p].state = "rename"
        BY <2>t, <3>2
      <3> QED BY <1>0, <1>i, <2>0, <2>t, <3>1, <3>2, <3>3 DEF Updating, Verified
    <2>4. CASE PublishStaging(p)
      <3>1. ~staging'[p].exists
        BY <1>0, <2>4 DEF PublishStaging, NoDirectory
      <3>2. Step(p, "rename", "temporary") /\ UNCHANGED temporary
        BY <2>4 DEF PublishStaging
      <3>3. publisher[p].state = "rename" /\ publisher'[p].state = "temporary"
        BY <2>t, <3>2
      <3>4. /\ staging[p].exists /\ staging[p].previous = pointer
            /\ publisher[p].generation \in GenerationIds
        BY <1>i, <3>3 DEF Updating, Verified
      <3>5. generations'[publisher[p].generation] = staging[p]
        BY <1>0, <2>4, <3>4 DEF PublishStaging
      <3> QED BY <1>0, <1>i, <2>0, <2>t, <3>1, <3>2, <3>3, <3>4, <3>5 DEF Updating
    <2>5. CASE WriteTemporary(p)
      <3>1. temporary'[p] = publisher[p].generation
        BY <1>0, <2>5 DEF WriteTemporary
      <3>2. Step(p, "temporary", "replace") /\ UNCHANGED <<staging, generations>>
        BY <2>5 DEF WriteTemporary
      <3>3. publisher[p].state = "temporary" /\ publisher'[p].state = "replace"
        BY <2>t, <3>2
      <3> QED BY <1>0, <1>i, <2>0, <2>t, <3>1, <3>2, <3>3 DEF Updating
    <2> QED BY <1>3, <2>1, <2>2, <2>3, <2>4, <2>5 DEF WriteFiles
  <1>4. CASE Activate(p)
    <2>1. /\ publisher[p].state = "replace" /\ publisher'[p] = NotPublishing
          /\ temporary'[p] = NoGeneration /\ UNCHANGED staging
      BY <1>0, <1>4 DEF Activate, ReplaceCurrentPointer
    <2>2. publisher[p].previous = update[p].base
      BY <1>i, <2>1 DEF Updating
    <2>3. update'[p].state = "releasing"
      BY <1>0, <1>4, <2>2 DEF Activate, UpdateStep, Update
    <2> QED BY <1>i, <2>1, <2>3 DEF Updating, NotPublishing
  <1>5. CASE PublicationFails(p)
    <2>1. /\ publisher'[p] = NotPublishing /\ staging'[p] = NoDirectory
          /\ temporary'[p] = NoGeneration
      BY <1>0, <1>5 DEF PublicationFails, PublishFails, Crash, Abandons
    <2>2. update'[p].state = "releasing"
      BY <1>0, <1>5 DEF PublicationFails, UpdateStep, Update
    <2> QED BY <2>1, <2>2 DEF Updating, NotPublishing, NoDirectory
  <1> QED BY <1>1, <1>2, <1>3, <1>4, <1>5 DEF UpdateNext

\* A new generation, which replaces the current one, keeps the directory sound.
LEMMA RenameSound ==
  ASSUME IInv, NEW p \in Publishers, PublishStaging(p)
  PROVE  Sound'
  <1> DEFINE new == publisher[p].generation
  <1>0. /\ generations \in [GenerationIds -> Directory]
        /\ publisher[p].state = "rename"
        /\ pointer \in GenerationIds \cup {NoGeneration}
        /\ NoGeneration \notin GenerationIds
    BY Parts, MaintenanceAssumption
    DEF IInv, PublishStaging, Step, RepositoryAssumption,
        MaybeGeneration
  <1>1. /\ new \in GenerationIds /\ ~generations[new].exists
        /\ Verified(staging[p]) /\ staging[p].previous = pointer
        /\ UNCHANGED pointer /\ pointer # new
        /\ pointer # NoGeneration => generations[pointer].exists
    BY <1>0 DEF IInv, Updating, Sound, PublishStaging, GenerationExists
  <1>2. \A g \in GenerationIds :
          generations'[g] = IF g = new THEN staging[p] ELSE generations[g]
    BY <1>0, <1>1 DEF PublishStaging
  <1>3. staging[p].exists
    BY <1>1 DEF Verified
  <1> HIDE DEF new
  <1>4. \A g \in GenerationIds : Whole(g)'
    <2> SUFFICES ASSUME NEW g \in GenerationIds PROVE Whole(g)'
      OBVIOUS
    <2>1. generations[g].exists => generations[g].previous \in GenerationIds \cup {NoGeneration}
      BY <1>0 DEF Directory, MaybeGeneration
    <2>2. Whole(g)
      BY DEF IInv, Sound
    <2>3. CASE g = new
      BY <1>0, <1>1, <1>2, <1>3, <2>3 DEF Whole, Verified
    <2>4. CASE g # new
      BY <1>1, <1>2, <1>3, <2>1, <2>2, <2>4 DEF Whole, Verified
    <2> QED BY <2>3, <2>4
  <1>5. Unlooped'
    <2> SUFFICES ASSUME NEW G \in SUBSET GenerationIds, G # {},
                        \A g \in G : generations'[g].exists
                 PROVE  \E g \in G : generations'[g].previous \notin G
      BY DEF Unlooped, Present
    <2> DEFINE H == G \ {new}
    <2>1. H \in SUBSET Present
      BY <1>2 DEF Present
    <2>2. CASE H = {}
      BY <1>1, <1>2, <2>2
    <2>3. CASE H # {}
      <3>1. PICK g \in H : generations[g].previous \notin H
        BY <2>1, <2>3 DEF IInv, Sound, Unlooped
      <3>2. generations[g].exists
        BY <2>1, <3>1 DEF Present
      <3>3. generations[g].previous # new
        BY <1>0, <1>1, <3>1, <3>2 DEF IInv, Sound, Whole
      <3> QED BY <1>2, <3>1, <3>3
    <2> QED BY <2>2, <2>3
  <1>6. IsFiniteSet(Present')
    <2>1. Present' = Present \cup {new}
      BY <1>1, <1>2, <1>3 DEF Present
    <2> QED BY <2>1, FS_AddElement DEF IInv, Sound
  <1> QED BY <1>0, <1>1, <1>2, <1>3, <1>4, <1>5, <1>6 DEF Sound

LEMMA StillSound ==
  ASSUME IInv, UNCHANGED generations,
         pointer' = pointer \/ generations[pointer'].exists
  PROVE  Sound'
  <1>1. \A g \in GenerationIds : Whole(g)'
    BY DEF IInv, Sound, Whole, Verified
  <1>2. Unlooped'
    BY DEF IInv, Sound, Unlooped, Present
  <1>3. Present' = Present
    BY DEF Present
  <1> QED BY <1>1, <1>2, <1>3 DEF IInv, Sound

LEMMA UpdateSound ==
  ASSUME IInv, NEW p \in Publishers, UpdateNext(p)
  PROVE  Sound'
  <1>1. CASE PublishStaging(p)
    BY <1>1, RenameSound
  <1>2. CASE Activate(p)
    <2>1. publisher[p].state = "replace" /\ pointer' = temporary[p] /\ UNCHANGED generations
      BY <1>2 DEF Activate, ReplaceCurrentPointer
    <2>2. generations[pointer'].exists
      BY <2>1 DEF IInv, Updating
    <2> QED BY <2>1, <2>2, StillSound
  <1>3. CASE UNCHANGED <<generations, pointer>>
    BY <1>3, StillSound
  <1>4. CASE WriteFiles(p)
    BY <1>1, <1>3, <1>4
    DEF WriteFiles, CreateStaging, WriteParquet, WriteManifest,
        WriteTemporary
  <1>5. ASSUME NEW g, NEW bars, BeginPublish(p, g, bars) PROVE Sound'
    BY <1>3, <1>5 DEF BeginPublish, disk
  <1>6. CASE PublicationFails(p)
    BY <1>3, <1>6 DEF PublicationFails, PublishFails, Crash, Abandons
  <1> QED BY <1>2, <1>3, <1>4, <1>5, <1>6
          DEF UpdateNext, BeginUpdate, LoadCurrent, EndsUnpublished, Publish, EndUpdate,
              vars, disk

LEMMA UpdateKeeps ==
  ASSUME IInv, NEW p \in Publishers, UpdateNext(p)
  PROVE  IInv'
  <1>1. Typing'
    BY UpdateTypes DEF IInv
  <1>2. Locked'
    BY UpdateAlone DEF Locked
  <1>3. ASSUME NEW q \in Publishers PROVE Updating(q)'
    <2>1. CASE q = p
      BY <2>1, UpdaterKnows
    <2>2. CASE q # p
      <3>1. Updating(q) /\ update[q].state = "idle" /\ publisher[q].state = "idle"
        BY <2>2, UpdateAlone DEF IInv, Updating
      <3> QED BY <2>2, <3>1, UpdateAlone DEF Updating
    <2> QED BY <2>1, <2>2
  <1>4. ASSUME NEW m \in Maintainers PROVE Cleaning(m)'
    <2>1. maintenance[m].state = "idle" /\ maintenance'[m] = maintenance[m] /\ Cleaning(m)
      BY UpdateAlone DEF IInv
    <2> QED BY <2>1 DEF Cleaning
  <1> QED BY <1>1, <1>2, <1>3, <1>4, UpdateSound DEF IInv

-----------------------------------------------------------------------------
(* Maintenance                                                             *)

\* Whoever cleans up holds the lock; the other threads do nothing.
LEMMA MaintenanceAlone ==
  ASSUME IInv, NEW m \in Maintainers, MaintenanceNext(m)
  PROVE  /\ holder \in {m, NoThread}
         /\ holder' = IF maintenance'[m].state = "idle" THEN NoThread ELSE m
         /\ \A n \in Maintainers \ {m} :
              maintenance[n].state = "idle" /\ maintenance'[n] = maintenance[n]
         /\ \A p \in Publishers : update[p].state = "idle" /\ publisher[p].state = "idle"
         /\ UNCHANGED <<update, publisher, generations, pointer, reader>>
  <1>0. maintenance \in [Maintainers -> Maintenance]
    BY Parts DEF IInv
  <1>1. BeginMaintenance(m) => /\ holder = NoThread /\ holder' = m
                               /\ maintenance'[m].state = "inspecting"
    BY <1>0 DEF BeginMaintenance, Acquire, MaintenanceStep, Maintenance
  <1>2. ~BeginMaintenance(m) => maintenance[m].state # "idle" /\ holder = m
    BY DEF MaintenanceNext, InspectBlocked, Inspect, Delete, DeleteFails, Verify,
           EndMaintenance, MaintenanceStep, IInv, Locked
  <1>3. ~BeginMaintenance(m) /\ ~EndMaintenance(m) =>
          holder' = holder /\ maintenance'[m].state # "idle"
    BY <1>0, <1>2
    DEF MaintenanceNext, InspectBlocked, Inspect, Delete, DeleteFails, Verify,
        MaintenanceStep, Maintenance
  <1>4. EndMaintenance(m) => holder' = NoThread /\ maintenance'[m].state = "idle"
    BY <1>0 DEF EndMaintenance, Release, NoMaintenance
  <1>5. ASSUME NEW n \in Maintainers \ {m}
        PROVE  maintenance[n].state = "idle" /\ maintenance'[n] = maintenance[n]
    BY <1>0, <1>1, <1>2, MaintenanceAssumption
    DEF MaintenanceNext, BeginMaintenance, InspectBlocked, Inspect, Delete, DeleteFails,
        Verify, EndMaintenance, MaintenanceStep, IInv, Locked
  <1>6. \A p \in Publishers : update[p].state = "idle" /\ publisher[p].state = "idle"
    BY <1>1, <1>2, MaintenanceAssumption DEF IInv, Locked, Updating
  <1>7. UNCHANGED <<update, publisher, generations, pointer, reader>>
    BY DEF MaintenanceNext, BeginMaintenance, InspectBlocked, Inspect, Delete,
           DeleteFails, Verify, EndMaintenance, vars, disk
  <1> QED BY <1>1, <1>2, <1>3, <1>4, <1>5, <1>6, <1>7

LEMMA StaleBounds ==
  ASSUME Typing
  PROVE  /\ stale.staging \in 0..MaxStale /\ stale.temporaries \in 0..MaxStale
         /\ MaxStale \in Nat
         /\ \A kind \in Kinds : StaleOf(kind) \subseteq Artifact
  BY Parts, MaintenanceAssumption
  DEF RepositoryAssumption, StaleOf, Kinds, Artifact, Owners

\* When nobody publishes, every artifact is stale.
LEMMA OnlyStale ==
  ASSUME Typing, \A p \in Publishers : Updating(p) /\ publisher[p].state = "idle"
  PROVE  Artifacts = StaleOf("staging") \cup StaleOf("temporary")
  <1>1. \A p \in Publishers : ~staging[p].exists /\ temporary[p] = NoGeneration
    BY DEF Updating
  <1> QED BY <1>1, StaleBounds DEF Artifacts, StaleOf

LEMMA ArtifactsFinite ==
  ASSUME Typing, Artifacts = StaleOf("staging") \cup StaleOf("temporary")
  PROVE  IsFiniteSet(Artifacts)
  <1>1. ASSUME NEW n \in 0..MaxStale, NEW kind PROVE IsFiniteSet({kind} \X (1..n))
    <2>1. n \in Int /\ 1 \in Int
      BY <1>1, StaleBounds
    <2>2. IsFiniteSet(1..n) /\ IsFiniteSet({kind})
      BY <2>1, FS_Interval, FS_Singleton
    <2> QED BY <2>2, FS_Product
  <1>2. IsFiniteSet(StaleOf("staging")) /\ IsFiniteSet(StaleOf("temporary"))
    BY <1>1, StaleBounds DEF StaleOf
  <1> QED BY <1>2, FS_Union

\* A dataset with fewer artifacts is not blocked either.
LEMMA StaysUnblocked ==
  ASSUME ~Blocked, UNCHANGED <<generations, pointer>>, Artifacts' \subseteq Artifacts,
         IsFiniteSet(Artifacts), IsFiniteSet(Present)
  PROVE  ~Blocked'
  <1>1. /\ Cardinality(Artifacts') \in Nat /\ Cardinality(Artifacts) \in Nat
        /\ Cardinality(Artifacts') <= Cardinality(Artifacts)
        /\ Cardinality(Present) \in Nat /\ Count(pointer # NoGeneration) \in Nat
    BY FS_Subset, FS_CardinalityType DEF Count
  <1>2. Present' = Present /\ WholeLineage' = WholeLineage
    BY DEF Present, WholeLineage, Lineage, Verified
  <1>3. ~TooMany'
    BY <1>1, <1>2, MaintenanceAssumption DEF Blocked, TooMany
  <1> QED BY <1>2, <1>3 DEF Blocked, Verified

\* What one deletion does: the last stale artifact of a kind is gone.
LEMMA DeletesStale ==
  ASSUME IInv, NEW m \in Maintainers, Delete(m)
  PROVE  \E kind \in Kinds, n \in 1..MaxStale :
           /\ stale' = [staging     |-> IF kind = "staging" THEN n - 1 ELSE stale.staging,
                        temporaries |-> IF kind = "staging" THEN stale.temporaries ELSE n - 1]
           /\ n = IF kind = "staging" THEN stale.staging ELSE stale.temporaries
           /\ maintenance' = [maintenance EXCEPT ![m].todo = @ \ {<<kind, n>>}]
           /\ UNCHANGED <<staging, temporary>>
  <1>0. /\ maintenance[m] \in Maintenance
        /\ maintenance[m].todo \subseteq maintenance[m].candidates
        /\ stale \in [staging : 0..MaxStale, temporaries : 0..MaxStale]
    BY Parts DEF IInv, Typing, DatasetTypeOK
  <1>1. PICK a \in maintenance[m].todo :
          /\ a[2] \notin Publishers =>
               \A n \in (a[2]+1)..MaxStale : <<a[1], n>> \notin maintenance[m].todo
          /\ Remove(a)
          /\ maintenance' = [maintenance EXCEPT ![m].todo = @ \ {a}]
    BY DEF Delete
  <1>2. PICK kind \in Kinds, o \in Owners : a = <<kind, o>>
    BY <1>0 DEF Maintenance, Artifact, Kinds
  <1>3. maintenance[m].todo \cap ({kind} \X Owners) = StaleOf(kind)
    BY <1>0, <1>1, <1>2 DEF IInv, Cleaning, Delete
  <1> DEFINE n == IF kind = "staging" THEN stale.staging ELSE stale.temporaries
  <1>4. n \in 0..MaxStale /\ MaxStale \in Nat
    BY StaleBounds DEF IInv
  <1>5. o \in 1..n
    BY <1>1, <1>2, <1>3 DEF StaleOf
  <1>6. o \notin Publishers
    BY <1>4, <1>5, MaintenanceAssumption
  <1>7. \A i \in 1..n : <<kind, i>> \in maintenance[m].todo
    BY <1>3 DEF StaleOf
  <1> HIDE DEF n
  <1>8. o = n
    <2>1. \A i \in (o+1)..MaxStale : <<kind, i>> \notin maintenance[m].todo
      BY <1>1, <1>2, <1>6
    <2> SUFFICES ASSUME o # n PROVE FALSE
      OBVIOUS
    <2>2. n \in (o+1)..MaxStale /\ n \in 1..n
      BY <1>4, <1>5
    <2> QED BY <1>7, <2>1, <2>2
  <1>9. /\ UNCHANGED <<staging, temporary>>
        /\ stale' = [stale EXCEPT
             !.staging     = IF a = <<"staging", @>> THEN @ - 1 ELSE @,
             !.temporaries = IF a = <<"temporary", @>> THEN @ - 1 ELSE @]
    BY <1>1, <1>2, <1>6 DEF Remove
  <1>10. stale' = [staging     |-> IF kind = "staging" THEN n - 1 ELSE stale.staging,
                   temporaries |-> IF kind = "staging" THEN stale.temporaries ELSE n - 1]
    BY <1>0, <1>2, <1>8, <1>9 DEF Kinds, n
  <1>11. n \in 1..MaxStale /\ a = <<kind, n>>
    BY <1>2, <1>4, <1>5, <1>8
  <1> QED BY <1>1, <1>9, <1>10, <1>11 DEF n

LEMMA MaintenanceTypes ==
  ASSUME IInv, NEW m \in Maintainers, MaintenanceNext(m)
  PROVE  Typing'
  <1>0. /\ maintenance \in [Maintainers -> Maintenance] /\ maintenance[m] \in Maintenance
        /\ stale \in [staging : 0..MaxStale, temporaries : 0..MaxStale]
        /\ MaxStale \in Nat
        /\ TypeOK /\ Typing
    BY Parts, StaleBounds DEF IInv, Typing, DatasetTypeOK
  <1>1. maintenance' \in [Maintainers -> Maintenance]
    <2>1. ASSUME NEW from, NEW to \in {"inspecting", "deleting", "releasing", "unverified"},
                 MaintenanceStep(m, from, to)
          PROVE  maintenance' \in [Maintainers -> Maintenance]
      BY <1>0, <2>1 DEF MaintenanceStep, Maintenance
    <2>2. ASSUME NEW kinds, Inspect(m, kinds) PROVE maintenance' \in [Maintainers -> Maintenance]
      <3>1. Artifacts \subseteq Artifact
        BY <1>0 DEF Artifacts, Artifact, Owners
      <3>2. Fingerprint \in [current  : MaybeGeneration,
                             complete : [GenerationIds -> Directory]]
        BY <1>0, Parts DEF Fingerprint
      <3> QED BY <1>0, <2>2, <3>1, <3>2 DEF Inspect, Maintenance
    <2>3. CASE Delete(m)
      <3>1. PICK a : maintenance' = [maintenance EXCEPT ![m] =
                                       [maintenance[m] EXCEPT !.todo = @ \ {a}]]
        BY <2>3 DEF Delete
      <3>2. [maintenance[m] EXCEPT !.todo = @ \ {a}] \in Maintenance
        BY <1>0 DEF Maintenance
      <3> QED BY <1>0, <3>1, <3>2
    <2>4. CASE EndMaintenance(m)
      <3>1. NoMaintenance \in Maintenance
        BY DEF NoMaintenance, Maintenance, NoFingerprint, MaybeGeneration,
               MaybeContent, NoDirectory, Directory
      <3> QED BY <1>0, <2>4, <3>1 DEF EndMaintenance
    <2>5. CASE Verify(m)
      <3>1. PICK to \in {"releasing", "unverified"} : MaintenanceStep(m, "deleting", to)
        BY <2>5 DEF Verify
      <3> QED BY <2>1, <3>1
    <2> QED BY <2>1, <2>2, <2>3, <2>4, <2>5
            DEF MaintenanceNext, BeginMaintenance, InspectBlocked, DeleteFails
  <1>2. \A n \in Maintainers : maintenance'[n].todo \subseteq maintenance'[n].candidates
    <2>1. maintenance'[m].todo \subseteq maintenance'[m].candidates
      <3>0. maintenance[m].todo \subseteq maintenance[m].candidates
        BY <1>0 DEF Typing, DatasetTypeOK
      <3>1. CASE \E kinds : Inspect(m, kinds)
        BY <1>0, <3>1 DEF Inspect
      <3>2. CASE Delete(m)
        <4>1. PICK a : maintenance' = [maintenance EXCEPT ![m] =
                                         [maintenance[m] EXCEPT !.todo = @ \ {a}]]
          BY <3>2 DEF Delete
        <4>2. /\ maintenance'[m].todo = maintenance[m].todo \ {a}
              /\ maintenance'[m].candidates = maintenance[m].candidates
          BY <1>0, <4>1 DEF Maintenance
        <4> QED BY <3>0, <4>2
      <3>3. CASE EndMaintenance(m)
        BY <1>0, <3>3 DEF EndMaintenance, NoMaintenance
      <3>4. ASSUME NEW from, NEW to, MaintenanceStep(m, from, to)
            PROVE  maintenance'[m].todo \subseteq maintenance'[m].candidates
        BY <1>0, <3>0, <3>4 DEF MaintenanceStep, Maintenance
      <3> QED BY <3>1, <3>2, <3>3, <3>4
              DEF MaintenanceNext, BeginMaintenance, InspectBlocked, DeleteFails, Verify
    <2> QED BY <1>0, <2>1, MaintenanceAlone DEF Typing, DatasetTypeOK
  <1>3. TypeOK'
    <2>1. stale' \in [staging : 0..MaxStale, temporaries : 0..MaxStale]
          /\ UNCHANGED <<staging, temporary>>
      <3>1. CASE Delete(m)
        BY <1>0, <3>1, DeletesStale
      <3>2. CASE ~Delete(m)
        BY <1>0, <3>2
        DEF MaintenanceNext, BeginMaintenance, InspectBlocked, Inspect, DeleteFails,
            Verify, EndMaintenance, vars, disk
      <3> QED BY <3>1, <3>2
    <2> QED BY <1>0, <2>1, MaintenanceAlone DEF TypeOK
  <1>4. holder' \in Threads \cup {NoThread} /\ update' \in [Publishers -> Update]
    BY MaintenanceAlone DEF IInv, Typing, DatasetTypeOK, Threads
  <1> QED BY <1>1, <1>2, <1>3, <1>4 DEF Typing, DatasetTypeOK, Maintenance

LEMMA CleanerKnows ==
  ASSUME IInv, NEW m \in Maintainers, MaintenanceNext(m)
  PROVE  Cleaning(m)'
  <1>0. /\ maintenance \in [Maintainers -> Maintenance] /\ maintenance[m] \in Maintenance
        /\ maintenance[m].todo \subseteq maintenance[m].candidates
        /\ Typing /\ Cleaning(m)
    BY Parts DEF IInv, Typing, DatasetTypeOK
  <1>a. Artifacts = StaleOf("staging") \cup StaleOf("temporary")
    BY MaintenanceAlone, OnlyStale DEF IInv
  <1>f. IsFiniteSet(Artifacts) /\ IsFiniteSet(Present)
    BY <1>a, ArtifactsFinite DEF IInv, Sound
  <1>s. ASSUME UNCHANGED vars PROVE Artifacts' = Artifacts /\ Fingerprint' = Fingerprint
    BY <1>s DEF Artifacts, Fingerprint, vars, disk
  <1>b. ASSUME UNCHANGED vars, ~Blocked PROVE ~Blocked'
    BY <1>b, <1>f, <1>s, StaysUnblocked DEF vars, disk
  <1>m. ASSUME NEW from, NEW to, MaintenanceStep(m, from, to)
        PROVE  /\ maintenance[m].state = from /\ maintenance'[m].state = to
               /\ maintenance'[m].candidates = maintenance[m].candidates
               /\ maintenance'[m].todo = maintenance[m].todo
    BY <1>0, <1>m DEF MaintenanceStep, Maintenance
  <1>1. CASE BeginMaintenance(m) \/ InspectBlocked(m) \/ DeleteFails(m)
    <2>1. /\ maintenance[m].state \in {"idle", "inspecting", "deleting"}
          /\ maintenance'[m].state \in {"inspecting", "releasing"}
          /\ maintenance'[m].candidates = maintenance[m].candidates
          /\ maintenance'[m].todo = maintenance[m].todo
          /\ UNCHANGED vars
      BY <1>1, <1>m DEF BeginMaintenance, InspectBlocked, DeleteFails
    <2>2. maintenance'[m].state = "inspecting" => maintenance[m].state = "idle"
      BY <1>1, <1>m DEF BeginMaintenance, InspectBlocked, DeleteFails
    <2> QED BY <1>0, <1>s, <1>b, <2>1, <2>2 DEF Cleaning
  <1>e. CASE EndMaintenance(m)
    <2>1. maintenance'[m].state = "idle" /\ maintenance'[m].candidates = {}
      BY <1>0, <1>e DEF EndMaintenance, NoMaintenance
    <2> QED BY <2>1 DEF Cleaning
  <1>2. ASSUME NEW kinds, Inspect(m, kinds) PROVE Cleaning(m)'
    <2> DEFINE chosen == {a \in Artifacts : a[1] \in kinds}
    <2>1. /\ maintenance'[m] = [state |-> "deleting", candidates |-> chosen,
                                todo |-> chosen, fingerprint |-> Fingerprint]
          /\ UNCHANGED vars /\ ~Blocked
      BY <1>0, <1>2 DEF Inspect
    <2>2. Artifacts' = Artifacts /\ Fingerprint' = Fingerprint
      BY <2>1 DEF Artifacts, Fingerprint, vars, disk
    <2>3. ~Blocked'
      BY <1>f, <2>1, <2>2, StaysUnblocked DEF vars, disk
    <2>4. ASSUME NEW kind \in Kinds
          PROVE  \/ chosen \cap ({kind} \X Owners) = StaleOf(kind)'
                 \/ chosen \cap ({kind} \X Owners) = {}
      <3>1. StaleOf(kind)' = StaleOf(kind)
        BY <2>1 DEF StaleOf, vars, disk
      <3>2. \A a \in StaleOf(kind) : a[1] = kind /\ a \in {kind} \X Owners
        BY <1>0, StaleBounds DEF StaleOf, Owners, Kinds
      <3>3. Artifacts \cap ({kind} \X Owners) = StaleOf(kind)
        BY <1>a, <3>2 DEF StaleOf, Kinds
      <3>4. \A a \in {kind} \X Owners : a[1] = kind
        OBVIOUS
      <3>5. CASE kind \in kinds
        BY <3>1, <3>3, <3>4, <3>5
      <3>6. CASE kind \notin kinds
        BY <3>4, <3>6
      <3> QED BY <3>5, <3>6
    <2> HIDE DEF chosen
    <2> QED BY <2>1, <2>2, <2>3, <2>4 DEF Cleaning
  <1>3. CASE Delete(m)
    <2>1. PICK kind \in Kinds, n \in 1..MaxStale :
           /\ stale' = [staging     |-> IF kind = "staging" THEN n - 1 ELSE stale.staging,
                        temporaries |-> IF kind = "staging" THEN stale.temporaries ELSE n - 1]
           /\ n = IF kind = "staging" THEN stale.staging ELSE stale.temporaries
           /\ maintenance' = [maintenance EXCEPT ![m].todo = @ \ {<<kind, n>>}]
           /\ UNCHANGED <<staging, temporary>>
      BY <1>3, DeletesStale
    <2>2. /\ maintenance'[m].todo = maintenance[m].todo \ {<<kind, n>>}
          /\ maintenance'[m].candidates = maintenance[m].candidates
          /\ maintenance'[m].fingerprint = maintenance[m].fingerprint
          /\ maintenance'[m].state = "deleting" /\ maintenance[m].state = "deleting"
      BY <1>0, <1>3, <2>1 DEF Maintenance, Delete
    <2>n. n \in Nat /\ n # 0
      BY StaleBounds, <1>0
    <2>3. StaleOf(kind)' = StaleOf(kind) \ {<<kind, n>>}
      BY <2>1, <2>n DEF StaleOf, Kinds
    <2>4. \A other \in Kinds \ {kind} : StaleOf(other)' = StaleOf(other)
      BY <2>1 DEF StaleOf, Kinds
    <2>5. Artifacts' = Artifacts \ {<<kind, n>>}
      <3>1. Artifacts' = StaleOf("staging")' \cup StaleOf("temporary")'
        BY <1>3, <2>1, MaintenanceTypes, MaintenanceAlone, OnlyStale
        DEF MaintenanceNext, IInv, Updating, Artifacts, StaleOf
      <3> QED BY <1>a, <2>3, <2>4, <3>1 DEF StaleOf, Kinds
    <2>6. ~Blocked'
      BY <1>0, <1>f, <2>2, <2>5, StaysUnblocked, MaintenanceAlone DEF Cleaning
    <2>7. Fingerprint' = Fingerprint
      BY MaintenanceAlone DEF Fingerprint
    <2>8. ASSUME NEW other \in Kinds
          PROVE  \/ maintenance'[m].todo \cap ({other} \X Owners) = StaleOf(other)'
                 \/ maintenance'[m].candidates \cap ({other} \X Owners) = {}
      BY <1>0, <2>2, <2>3, <2>4 DEF Cleaning, StaleOf
    <2> QED BY <1>0, <2>2, <2>5, <2>6, <2>7, <2>8 DEF Cleaning
  <1>4. CASE Verify(m)
    <2>1. maintenance[m].state = "deleting" /\ maintenance[m].todo = {}
      BY <1>4 DEF Verify, MaintenanceStep
    <2>2. /\ ~Blocked /\ Fingerprint = maintenance[m].fingerprint
          /\ maintenance[m].candidates \cap Artifacts = {}
      BY <1>0, <2>1 DEF Cleaning
    <2>3. MaintenanceStep(m, "deleting", "releasing")
      BY <1>4, <2>2 DEF Verify
    <2>4. /\ maintenance'[m].state = "releasing"
          /\ maintenance'[m].candidates = maintenance[m].candidates
          /\ maintenance'[m].todo = maintenance[m].todo
          /\ UNCHANGED vars
      BY <1>4, <1>m, <2>3 DEF Verify
    <2> QED BY <1>0, <1>s, <1>b, <2>1, <2>2, <2>4 DEF Cleaning
  <1> QED BY <1>1, <1>e, <1>2, <1>3, <1>4 DEF MaintenanceNext

LEMMA MaintenanceKeeps ==
  ASSUME IInv, NEW m \in Maintainers, MaintenanceNext(m)
  PROVE  IInv'
  <1>1. Typing'
    BY MaintenanceTypes
  <1>2. Locked'
    BY MaintenanceAlone DEF Locked
  <1>3. UNCHANGED <<staging, temporary>>
    <2>1. CASE Delete(m)
      BY <2>1, DeletesStale
    <2>2. CASE ~Delete(m)
      BY <2>2
      DEF MaintenanceNext, BeginMaintenance, InspectBlocked, Inspect, DeleteFails,
          Verify, EndMaintenance, vars, disk
    <2> QED BY <2>1, <2>2
  <1>4. ASSUME NEW p \in Publishers PROVE Updating(p)'
    BY <1>3, MaintenanceAlone DEF IInv, Updating
  <1>5. ASSUME NEW n \in Maintainers PROVE Cleaning(n)'
    <2>1. CASE n = m
      BY <2>1, CleanerKnows
    <2>2. CASE n # m
      <3>1. maintenance[n].state = "idle" /\ maintenance'[n] = maintenance[n] /\ Cleaning(n)
        BY <2>2, MaintenanceAlone DEF IInv
      <3> QED BY <3>1 DEF Cleaning
    <2> QED BY <2>1, <2>2
  <1>6. Sound'
    BY MaintenanceAlone, StillSound
  <1> QED BY <1>1, <1>2, <1>4, <1>5, <1>6 DEF IInv

-----------------------------------------------------------------------------
(* The whole process                                                       *)

\* At most one call is cut short, that of the holder.
LEMMA DeathTypes ==
  ASSUME IInv, ProcessDies
  PROVE  Typing'
  <1>0. /\ stale.staging \in Nat /\ stale.temporaries \in Nat /\ MaxStale \in Nat
        /\ TypeOK
    BY StaleBounds DEF IInv, Typing, DatasetTypeOK
  <1>1. \A S \in SUBSET Publishers :
          (\A p \in S : publisher[p].state # "idle") => Cardinality(S) \in Nat
    <2> SUFFICES ASSUME NEW S \in SUBSET Publishers,
                        \A p \in S : publisher[p].state # "idle"
                 PROVE  Cardinality(S) \in Nat
      OBVIOUS
    <2>1. \A p \in S : p = holder
      BY DEF IInv, Locked, Updating
    <2>2. S = {} \/ S = {holder}
      BY <2>1
    <2>3. IsFiniteSet(S)
      BY <2>2, FS_EmptySet, FS_Singleton
    <2> QED BY <2>3, FS_CardinalityType
  <1> DEFINE S == {p \in Publishers : staging[p].exists}
             T == {p \in Publishers : temporary[p] # NoGeneration}
  <1>2. Cardinality(S) \in Nat /\ Cardinality(T) \in Nat
    BY <1>1 DEF IInv, Updating
  <1>3. /\ stale' = [staging |-> stale.staging + Cardinality(S),
                     temporaries |-> stale.temporaries + Cardinality(T)]
        /\ stale'.staging <= MaxStale /\ stale'.temporaries <= MaxStale
    BY DEF ProcessDies
  <1> HIDE DEF S, T
  <1>4. stale' \in [staging : 0..MaxStale, temporaries : 0..MaxStale]
    BY <1>0, <1>2, <1>3
  <1>5. /\ NoDirectory \in Directory /\ NotPublishing \in Publisher
        /\ NoUpdate \in Update /\ NoMaintenance \in Maintenance
        /\ NoGeneration \in MaybeGeneration
        /\ NoMaintenance.todo \subseteq NoMaintenance.candidates
    BY DEF Directory, NoDirectory, Publisher, NotPublishing,
           MaybeGeneration, MaybeContent, NoUpdate, Update, NoMaintenance,
           Maintenance, NoFingerprint
  <1>6. /\ holder' = NoThread
        /\ update' = [p \in Publishers |-> NoUpdate]
        /\ maintenance' = [m \in Maintainers |-> NoMaintenance]
        /\ publisher' = [p \in Publishers |-> NotPublishing]
        /\ staging' = [p \in Publishers |-> NoDirectory]
        /\ temporary' = [p \in Publishers |-> NoGeneration]
        /\ UNCHANGED <<generations, pointer, reader>>
    BY DEF ProcessDies
  <1>7. TypeOK'
    BY <1>0, <1>4, <1>5, <1>6 DEF TypeOK
  <1> QED BY <1>5, <1>6, <1>7 DEF Typing, DatasetTypeOK, Maintenance

LEMMA DeathKeeps ==
  ASSUME IInv, ProcessDies
  PROVE  IInv'
  <1>1. Typing'
    BY DeathTypes
  <1>2. Sound'
    BY StillSound DEF ProcessDies
  <1>3. Locked' /\ (\A m \in Maintainers : Cleaning(m)')
    BY DEF ProcessDies, Locked, Cleaning, NoUpdate, NoMaintenance
  <1>4. ASSUME NEW p \in Publishers PROVE Updating(p)'
    BY DEF ProcessDies, Updating, NoUpdate, NotPublishing, NoDirectory
  <1> QED BY <1>1, <1>2, <1>3, <1>4 DEF IInv

LEMMA InvStep == IInv /\ [DatasetNext]_datasetVars => IInv'
  <1> SUFFICES ASSUME IInv, [DatasetNext]_datasetVars PROVE IInv'
    OBVIOUS
  <1>1. CASE UNCHANGED datasetVars
    <2>0. /\ UNCHANGED <<generations, pointer, staging, temporary, stale, publisher, reader>>
          /\ UNCHANGED <<holder, update, maintenance>>
      BY <1>1 DEF datasetVars, vars, disk
    <2>1. Typing'
      BY <2>0 DEF IInv, Typing, DatasetTypeOK, TypeOK
    <2>2. Sound' /\ Locked'
      BY <2>0, StillSound DEF IInv, Locked
    <2>3. ASSUME NEW p \in Publishers PROVE Updating(p)'
      BY <2>0 DEF IInv, Updating, Verified
    <2>4. Artifacts' = Artifacts /\ Fingerprint' = Fingerprint
      BY <2>0 DEF Artifacts, Fingerprint
    <2>5. Blocked' = Blocked
      BY <2>0, <2>4 DEF Blocked, TooMany, Present, WholeLineage, Lineage, Verified
    <2>6. ASSUME NEW m \in Maintainers PROVE Cleaning(m)'
      BY <2>0, <2>4, <2>5 DEF IInv, Cleaning, StaleOf
    <2> QED BY <2>1, <2>2, <2>3, <2>6 DEF IInv
  <1> QED BY <1>1, UpdateKeeps, MaintenanceKeeps, DeathKeeps DEF DatasetNext

LEMMA InvInit == DatasetInit => IInv
  <1> SUFFICES ASSUME DatasetInit PROVE IInv
    OBVIOUS
  <1>0. /\ NoDirectory \in Directory /\ NotPublishing \in Publisher
        /\ NotReading \in Reader
        /\ NoUpdate \in Update /\ NoMaintenance \in Maintenance
        /\ NoGeneration \in MaybeGeneration /\ MaxStale \in Nat
        /\ NoMaintenance.todo \subseteq NoMaintenance.candidates
    BY MaintenanceAssumption
    DEF Directory, NoDirectory, Publisher, NotPublishing,
        Reader, NotReading, RepositoryAssumption,
        MaybeGeneration, MaybeContent, NoUpdate, Update, NoMaintenance,
        Maintenance, NoFingerprint
  <1>1. Typing
    BY <1>0 DEF DatasetInit, Init, Typing, DatasetTypeOK, TypeOK, Maintenance
  <1>2. Present = {}
    BY DEF DatasetInit, Init, Present, NoDirectory
  <1>3. Sound
    BY <1>2, FS_EmptySet
    DEF DatasetInit, Init, Sound, Whole, Unlooped, NoDirectory, Verified
  <1>4. Locked /\ \A m \in Maintainers : Cleaning(m)
    BY DEF DatasetInit, Locked, Cleaning, NoUpdate, NoMaintenance
  <1>5. \A p \in Publishers : Updating(p)
    BY DEF DatasetInit, Init, Updating, NoUpdate, NotPublishing, NoDirectory
  <1> QED BY <1>1, <1>3, <1>4, <1>5 DEF IInv

-----------------------------------------------------------------------------
(* Theorems                                                                *)

\* The lock, the files and what every thread knows of them stay consistent.
THEOREM Invariant == DatasetSpec => []IInv
  BY InvInit, InvStep, PTL DEF DatasetSpec

\* Types, for any number of threads and any limits.
THEOREM TypeCorrect == DatasetSpec => []DatasetTypeOK
  BY Invariant, PTL DEF IInv, Typing

\* Whatever updates, cleanups, failures and crashes there are, every generation
\* that can be listed can be loaded, and so can the current one.
THEOREM FilesSound == DatasetSpec => [](EveryGenerationComplete /\ CurrentComplete)
  <1>1. IInv => EveryGenerationComplete /\ CurrentComplete
    BY Parts DEF IInv, Sound, Whole, EveryGenerationComplete,
                 CurrentComplete, MaybeGeneration
  <1> QED BY <1>1, Invariant, PTL

\* No update is lost: an activation replaces the generation that it was made of.
THEOREM NoLostUpdate == DatasetSpec => UpdatesBuildOnCurrent
  <1> DEFINE Builds == pointer' # pointer =>
               /\ generations'[pointer'].previous = pointer
               /\ \E p \in Publishers : /\ update[p].state = "publishing"
                                        /\ update[p].base = pointer
  <1>1. ASSUME IInv, NEW p \in Publishers, UpdateNext(p) PROVE Builds
    <2>1. CASE Activate(p)
      <3>1. /\ publisher[p].state = "replace" /\ pointer' = temporary[p]
            /\ UNCHANGED generations /\ update[p].state = "publishing"
        BY <2>1 DEF Activate, ReplaceCurrentPointer, UpdateStep
      <3> QED BY <1>1, <3>1 DEF IInv, Updating
    <2>2. CASE UNCHANGED pointer
      BY <2>2
    <2>3. ASSUME NEW g, NEW bars, BeginPublish(p, g, bars) PROVE UNCHANGED pointer
      BY <2>3 DEF BeginPublish, disk
    <2> QED BY <1>1, <2>1, <2>2, <2>3
            DEF UpdateNext, BeginUpdate, LoadCurrent, EndsUnpublished, Publish, WriteFiles,
                PublicationFails, EndUpdate, vars, disk, CreateStaging,
                WriteParquet, WriteManifest, PublishStaging,
                WriteTemporary, PublishFails, Crash, Abandons
  <1>2. IInv /\ [DatasetNext]_datasetVars => Builds
    <2>1. UNCHANGED datasetVars \/ ProcessDies => UNCHANGED pointer
      BY DEF datasetVars, vars, disk, ProcessDies
    <2> QED BY <1>1, <2>1, MaintenanceAlone DEF DatasetNext
  <1>3. IInv /\ [DatasetNext]_datasetVars => [Builds]_datasetVars
    BY <1>2
  <1> QED BY <1>3, Invariant, PTL DEF DatasetSpec, UpdatesBuildOnCurrent

\* Maintenance never takes the files of a publication that is going on.
THEOREM PublicationsSpared == DatasetSpec => MaintenanceSparesPublications
  <1> DEFINE Spared == \A p \in Publishers : UNCHANGED publisher[p] =>
               /\ staging[p].exists => staging'[p].exists
               /\ temporary[p] # NoGeneration => temporary'[p] # NoGeneration
  <1>1. ASSUME IInv, IInv', NEW p \in Publishers, UNCHANGED publisher[p]
        PROVE  /\ staging[p].exists => staging'[p].exists
               /\ temporary[p] # NoGeneration => temporary'[p] # NoGeneration
    BY <1>1, MaintenanceAssumption
    DEF IInv, Updating, RepositoryAssumption
  <1>2. IInv /\ [DatasetNext]_datasetVars => [Spared]_datasetVars
    BY <1>1, InvStep
  <1> QED BY <1>2, Invariant, PTL DEF DatasetSpec, MaintenanceSparesPublications

-----------------------------------------------------------------------------
(* The directory stays the register of generations that readers see        *)

\* A step leaves generations/ and current.json alone, renames one staging
\* directory into generations/, or activates one generation.
LEMMA FileSteps ==
  ASSUME IInv, [DatasetNext]_datasetVars
  PROVE  \/ UNCHANGED <<generations, pointer>>
         \/ \E p \in Publishers : PublishStaging(p) \/ ReplaceCurrentPointer(p)
  <1>1. ASSUME NEW p \in Publishers, UpdateNext(p)
        PROVE  \/ UNCHANGED <<generations, pointer>>
               \/ PublishStaging(p) \/ ReplaceCurrentPointer(p)
    <2>1. ASSUME NEW g, NEW bars, BeginPublish(p, g, bars)
          PROVE  UNCHANGED <<generations, pointer>>
      BY <2>1 DEF BeginPublish, disk
    <2> QED BY <1>1, <2>1
            DEF UpdateNext, BeginUpdate, LoadCurrent, EndsUnpublished, Publish, WriteFiles,
                Activate, PublicationFails, EndUpdate, vars, disk, CreateStaging,
                WriteParquet, WriteManifest, WriteTemporary,
                PublishFails, Crash, Abandons
  <1>2. ProcessDies \/ UNCHANGED datasetVars => UNCHANGED <<generations, pointer>>
    BY DEF ProcessDies, datasetVars, vars, disk
  <1> QED BY <1>1, <1>2, MaintenanceAlone DEF DatasetNext

\* No step changes or removes a generation.
LEMMA Grows ==
  ASSUME IInv, [DatasetNext]_datasetVars, NEW g \in GenerationIds, generations[g].exists
  PROVE  generations'[g] = generations[g]
  <1>1. generations \in [GenerationIds -> Directory]
    BY Parts DEF IInv
  <1> QED BY <1>1, FileSteps
          DEF PublishStaging, GenerationExists, ReplaceCurrentPointer

\* To those who read it, the dataset is a register of immutable generations,
\* whatever is updated and cleaned up by any number of threads.
THEOREM Implements == DatasetSpec => ImplementsStore
  <1>1. DatasetInit => Store!Init
    BY DEF DatasetInit, Init, Store!Init, NoDirectory
  <1>2. ASSUME IInv, NEW p \in Publishers, PublishStaging(p)
        PROVE  Store!Next
    <2>0. /\ generations \in [GenerationIds -> Directory]
          /\ staging[p] \in Directory /\ publisher[p].state = "rename"
      BY <1>2, Parts DEF IInv, PublishStaging, Step
    <2>1. publisher[p].generation \in GenerationIds /\ Verified(staging[p])
      BY <1>2, <2>0 DEF IInv, Updating
    <2>2. staging[p].parquet \in Contents
      BY <2>0, <2>1 DEF Directory, MaybeContent, Verified
    <2>3. PICK g \in GenerationIds, bars \in Contents :
            g = publisher[p].generation /\ bars = staging[p].parquet
      BY <2>1, <2>2
    <2>4. generations[g].parquet = NoContent
      BY <1>2, <2>3 DEF PublishStaging, GenerationExists, IInv, Sound, Whole
    <2>5. generations' = [generations EXCEPT ![g] = staging[p]] /\ UNCHANGED pointer
      BY <1>2, <2>3 DEF PublishStaging
    <2>6. Store!Store(g, bars)
      BY <2>0, <2>3, <2>4, <2>5 DEF Store!Store
    <2> QED BY <2>6 DEF Store!Next
  <1>3. ASSUME IInv, NEW p \in Publishers, ReplaceCurrentPointer(p)
        PROVE  Store!Next
    <2>1. temporary[p] \in GenerationIds /\ generations[temporary[p]].exists
      BY <1>3 DEF ReplaceCurrentPointer, IInv, Updating
    <2>2. PICK g \in GenerationIds : g = temporary[p] /\ generations[g].exists
      BY <2>1
    <2>3. generations[g].parquet # NoContent
      BY <1>3, <2>2 DEF IInv, Sound, Whole, Verified
    <2>4. g # pointer
      <3>1. publisher[p].state = "replace" /\ generations[g].previous = pointer
        BY <1>3, <2>2 DEF ReplaceCurrentPointer, Step, IInv, Updating
      <3>2. {g} \in SUBSET Present
        BY <2>2 DEF Present
      <3>3. generations[g].previous # g
        BY <1>3, <3>2 DEF IInv, Sound, Unlooped
      <3> QED BY <3>1, <3>3
    <2>5. Store!Activate(g)
      BY <1>3, <2>2, <2>3, <2>4 DEF ReplaceCurrentPointer, Store!Activate
    <2> QED BY <2>5 DEF Store!Next
  <1>4. IInv /\ [DatasetNext]_datasetVars => [Store!Next]_(Store!vars)
    BY <1>2, <1>3, FileSteps DEF Store!vars
  <1> QED BY <1>1, <1>4, Invariant, PTL DEF DatasetSpec, ImplementsStore, Store!Spec

-----------------------------------------------------------------------------
(* The walk back through the lineage                                       *)

LEMMA NatMinimum ==
  ASSUME NEW T \in SUBSET Nat, T # {}
  PROVE  \E x \in T : \A y \in T : x <= y
  <1>1. IsWellFoundedOn(OpToRel(<, Nat), Nat)
    BY NatLessThanWellFounded
  <1>2. PICK x \in T : \A y \in T : <<y, x>> \notin OpToRel(<, Nat)
    BY <1>1, WFMin
  <1>3. \A y \in T : ~(y < x)
    BY <1>2 DEF OpToRel
  <1> QED BY <1>3

\* f tells the walk after every number of steps up to n.
WalkTable(L, c, n, f) ==
  f = [k \in 0..n |-> IF k = 0 THEN <<>> ELSE Further(L, c, f[k - 1])]

\* w is what n steps back from c inside L come to: a stretch of the lineage
\* without repetition, stopped early only where the lineage leaves L or
\* returns to it.
IsWalk(L, c, n, w) ==
  /\ w \in Seq(L)
  /\ Len(w) <= n
  /\ w # <<>> => w[1] = c
  /\ \A i \in 1..Len(w) - 1 : w[i + 1] = generations[w[i]].previous
  /\ \A i, j \in 1..Len(w) : w[i] = w[j] => i = j
  /\ Len(w) = n \/ Beyond(w, c) \notin L \ Range(w)

LEMMA TablesExist ==
  ASSUME NEW L, NEW c, NEW n \in Nat
  PROVE  \E f : WalkTable(L, c, n, f)
  <1> DEFINE T == {k \in Nat : ~\E f : WalkTable(L, c, k, f)}
  <1> SUFFICES ASSUME T # {} PROVE FALSE
    OBVIOUS
  <1>1. PICK k \in T : \A y \in T : k <= y
    <2>1. T \in SUBSET Nat
      OBVIOUS
    <2> HIDE DEF T
    <2> QED BY <2>1, NatMinimum
  <1>2. k \in Nat /\ ~\E f : WalkTable(L, c, k, f)
    OBVIOUS
  <1>3. CASE k = 0
    <2> DEFINE f == [j \in 0..0 |-> <<>>]
    <2>1. f = [j \in 0..0 |-> IF j = 0 THEN <<>> ELSE Further(L, c, f[j - 1])]
      OBVIOUS
    <2> HIDE DEF f
    <2> QED BY <2>1, <1>2, <1>3 DEF WalkTable
  <1>4. CASE k # 0
    <2>1. k - 1 \in Nat /\ k - 1 \notin T
      BY <1>1, <1>2, <1>4
    <2>2. PICK f : WalkTable(L, c, k - 1, f)
      BY <2>1
    <2> DEFINE g == [j \in 0..k |-> IF j = k THEN Further(L, c, f[k - 1]) ELSE f[j]]
    <2>3. ASSUME NEW j \in 0..k
          PROVE  g[j] = IF j = 0 THEN <<>> ELSE Further(L, c, g[j - 1])
      <3>1. CASE j = k
        <4>1. k - 1 \in 0..k /\ k - 1 # k
          BY <1>2, <1>4
        <4>2. g[k - 1] = f[k - 1]
          BY <4>1
        <4> QED BY <3>1, <4>2, <1>4
      <3>2. CASE j # k
        <4>1. j \in 0..k - 1
          BY <3>2, <1>2
        <4>2. f[j] = IF j = 0 THEN <<>> ELSE Further(L, c, f[j - 1])
          BY <4>1, <2>2 DEF WalkTable
        <4>3. j # 0 => g[j - 1] = f[j - 1]
          BY <4>1, <1>2
        <4> QED BY <3>2, <4>2, <4>3
      <3> QED BY <3>1, <3>2
    <2>4. g = [j \in 0..k |-> g[j]]
      OBVIOUS
    <2> HIDE DEF g
    <2>5. WalkTable(L, c, k, g)
      BY <2>3, <2>4 DEF WalkTable
    <2> QED BY <2>5, <1>2
  <1> QED BY <1>3, <1>4

LEMMA WalkGoesOn ==
  ASSUME NEW L, NEW c, NEW n \in Nat, NEW w, IsWalk(L, c, n, w)
  PROVE  IsWalk(L, c, n + 1, Further(L, c, w))
  <1> DEFINE b == Beyond(w, c)
  <1>1. w \in Seq(L) /\ Len(w) \in Nat /\ Len(w) <= n
    BY DEF IsWalk
  <1>2. CASE b \notin L \ Range(w)
    <2>1. Further(L, c, w) = w
      BY <1>2 DEF Further
    <2> QED BY <1>1, <1>2, <2>1 DEF IsWalk
  <1>3. CASE b \in L \ Range(w)
    <2> DEFINE v == Append(w, b)
    <2>0. Further(L, c, w) = v
      BY <1>3 DEF Further
    <2>1. Len(w) = n
      BY <1>3 DEF IsWalk
    <2> HIDE DEF b
    <2>2. /\ v \in Seq(L) /\ Len(v) = n + 1
          /\ \A i \in 1..n : v[i] = w[i]
          /\ v[n + 1] = b /\ v # <<>>
      <3>1. b \in L /\ w \in Seq(L) /\ Len(w) = n
        BY <1>1, <1>3, <2>1
      <3>2. v \in Seq(L) /\ Len(v) = n + 1 /\ v[n + 1] = b
        BY <3>1
      <3>3. \A i \in 1..n : v[i] = w[i]
        BY <3>1
      <3> HIDE DEF v
      <3> QED BY <3>2, <3>3
    <2>3. \A i \in 1..n : w[i] # b
      BY <1>1, <1>3, <2>1 DEF Range
    <2> HIDE DEF v
    <2>4. v[1] = c
      <3>1. CASE n = 0
        <4>1. w = <<>>
          BY <1>1, <2>1, <3>1
        <4> QED BY <2>2, <3>1, <4>1 DEF b, Beyond
      <3>2. CASE n # 0
        BY <1>1, <2>1, <2>2, <3>2 DEF IsWalk
      <3> QED BY <3>1, <3>2
    <2>5. ASSUME NEW i \in 1..n PROVE v[i + 1] = generations[v[i]].previous
      <3>1. CASE i = n
        BY <1>1, <2>1, <2>2, <3>1 DEF b, Beyond
      <3>2. CASE i # n
        <4>1. i \in 1..n - 1 /\ i \in 1..n /\ i + 1 \in 1..n
          BY <3>2
        <4> QED BY <4>1, <2>1, <2>2 DEF IsWalk
      <3> QED BY <3>1, <3>2
    <2>6. ASSUME NEW i \in 1..n + 1, NEW j \in 1..n + 1, v[i] = v[j] PROVE i = j
      <3>1. CASE i \in 1..n /\ j \in 1..n
        BY <3>1, <2>1, <2>2, <2>6 DEF IsWalk
      <3>2. CASE i = n + 1 /\ j \in 1..n
        BY <3>2, <2>2, <2>3, <2>6
      <3>3. CASE i \in 1..n /\ j = n + 1
        BY <3>3, <2>2, <2>3, <2>6
      <3>4. CASE i = n + 1 /\ j = n + 1
        BY <3>4
      <3>5. \A k \in 1..n + 1 : k \in 1..n \/ k = n + 1
        OBVIOUS
      <3> QED BY <3>1, <3>2, <3>3, <3>4, <3>5
    <2>7. Len(v) - 1 = n
      BY <2>2
    <2>8. IsWalk(L, c, n + 1, v)
      BY <2>2, <2>4, <2>5, <2>6, <2>7 DEF IsWalk
    <2> QED BY <2>0, <2>8
  <1> QED BY <1>2, <1>3

LEMMA WalkIsWalk ==
  ASSUME NEW L, NEW c
  PROVE  IsWalk(L, c, MaxLineage, Walk(L, c))
  <1> DEFINE f == CHOOSE f : WalkTable(L, c, MaxLineage, f)
  <1>0. MaxLineage \in Nat
    BY MaintenanceAssumption
  <1>1. WalkTable(L, c, MaxLineage, f)
    BY <1>0, TablesExist
  <1>2. Walk(L, c) = f[MaxLineage]
    BY DEF Walk, WalkTable
  <1> HIDE DEF f
  <1> DEFINE T == {k \in 0..MaxLineage : ~IsWalk(L, c, k, f[k])}
  <1>3. T = {}
    <2> SUFFICES ASSUME T # {} PROVE FALSE
      OBVIOUS
    <2>1. PICK k \in T : \A y \in T : k <= y
      <3>1. T \in SUBSET Nat
        OBVIOUS
      <3> HIDE DEF T
      <3> QED BY <3>1, NatMinimum
    <2>2. k \in 0..MaxLineage /\ ~IsWalk(L, c, k, f[k])
      OBVIOUS
    <2>3. f[k] = IF k = 0 THEN <<>> ELSE Further(L, c, f[k - 1])
      BY <1>1, <2>2 DEF WalkTable
    <2>4. CASE k = 0
      <3>1. IsWalk(L, c, 0, <<>>)
        BY DEF IsWalk
      <3> QED BY <2>2, <2>3, <2>4, <3>1
    <2>5. CASE k # 0
      <3>1. k - 1 \in Nat /\ k - 1 \in 0..MaxLineage /\ k - 1 \notin T /\ (k - 1) + 1 = k
        BY <1>0, <2>1, <2>2, <2>5
      <3>2. IsWalk(L, c, k - 1, f[k - 1])
        BY <3>1
      <3>3. IsWalk(L, c, k, Further(L, c, f[k - 1]))
        BY <3>1, <3>2, WalkGoesOn
      <3> QED BY <2>2, <2>3, <2>5, <3>3
    <2> QED BY <2>4, <2>5
  <1>4. MaxLineage \in 0..MaxLineage
    BY <1>0
  <1> QED BY <1>2, <1>3, <1>4

-----------------------------------------------------------------------------
(* What a listing still says when its dry run goes on                      *)

\* The generations it loaded are there, with all that they replaced.
KnownListing(l) ==
  /\ l.artifacts \subseteq Artifact
  /\ l.loaded \subseteq Present
  /\ l.invalid = {}
  /\ \A g \in l.loaded :
       generations[g].previous # NoGeneration => generations[g].previous \in l.loaded

Listing ==
  [state : {"idle", "root", "entries", "listed"}, artifacts : SUBSET Artifact,
   full : BOOLEAN, available : BOOLEAN, own : SUBSET Artifact, stale : [Kinds -> Int],
   unsafe : BOOLEAN, can_load : BOOLEAN, overflow : BOOLEAN,
   loaded : SUBSET GenerationIds, invalid : SUBSET GenerationIds, quiet : BOOLEAN]

\* What it read while no thread held the lock is what an inspection finds now.
Undisturbed(l) ==
  l.quiet =>
    /\ l.state # "idle" /\ holder = NoThread /\ ~l.unsafe
    /\ l.full <=> Listed.full
    /\ l.full => l.state = "listed"
    /\ l.state = "root" => (l.can_load <=> pointer # NoGeneration)
    /\ ~l.full => /\ l.artifacts = Artifacts
                  /\ l.available \/ NothingThere
                  /\ l.state \in {"entries", "listed"} => l.can_load
                  /\ l.state = "listed" => /\ l.overflow <=> Listed.overflow
                                           /\ l.loaded = Present

ListingInv(l) == l \in Listing /\ KnownListing(l) /\ Undisturbed(l)

RecordInv == IInv /\ ListingInv(listing)

LEMMA ListedKnown ==
  ASSUME IInv
  PROVE  KnownListing(Listed) /\ Listed.loaded = Present
  <1>1. \A g \in Present : Verified(generations[g])
    BY DEF IInv, Sound, Whole, Present
  <1>2. Listed.loaded = Present /\ Listed.invalid = {}
    BY <1>1 DEF Listed
  <1>3. ASSUME NEW g \in Present, generations[g].previous # NoGeneration
        PROVE  generations[g].previous \in Present
    <2>1. generations[g].previous \in GenerationIds
      BY <1>3, Parts DEF IInv, Present, Directory, MaybeGeneration
    <2> QED BY <1>3, <2>1 DEF IInv, Sound, Whole, Present
  <1>4. Artifacts \subseteq Artifact
    BY Parts, MaintenanceAssumption
    DEF Artifacts, Artifact, Owners, IInv, RepositoryAssumption
  <1>5. Listed.artifacts = Artifacts
    BY DEF Listed
  <1> QED BY <1>2, <1>3, <1>4, <1>5 DEF KnownListing

LEMMA ListingStays ==
  ASSUME IInv, [DatasetNext]_datasetVars, NEW l, KnownListing(l)
  PROVE  KnownListing(l)'
  <1>1. \A g \in Present : generations'[g] = generations[g]
    BY Grows DEF Present
  <1>2. Present \subseteq Present'
    BY <1>1 DEF Present
  <1> QED BY <1>1, <1>2 DEF KnownListing

LEMMA RecordStepIsStep ==
  ASSUME RecordNext
  PROVE  [DatasetNext]_datasetVars
  <1>1. ASSUME NEW m \in Maintainers, TellUnlocked(m) \/ TellEnd(m) PROVE [DatasetNext]_datasetVars
    BY <1>1 DEF TellUnlocked, TellEnd, recordVars, DatasetNext, MaintenanceNext
  <1>2. CASE \/ FindNothing \/ ListRoot \/ LookForCurrent \/ LookAt \/ ListGenerations
             \/ TellDryRun \/ RecordDies
    BY <1>2 DEF FindNothing, ListRoot, LookForCurrent, LookAt, ListGenerations, TellDryRun,
                RecordDies, DatasetNext, recordVars
  <1>3. CASE Silent
    BY <1>3 DEF Silent, DatasetNext, MaintenanceNext
  <1> QED BY <1>1, <1>2, <1>3 DEF RecordNext

\* Whoever changes the files holds the lock before or after it.
LEMMA SilentLocked ==
  ASSUME IInv, Silent
  PROVE  holder # NoThread \/ holder' # NoThread
  <1>1. NoThread \notin Publishers \cup Maintainers
    BY MaintenanceAssumption
  <1>2. ASSUME NEW p \in Publishers, UpdateNext(p)
        PROVE  holder # NoThread \/ holder' # NoThread
    <2>1. CASE BeginUpdate(p)
      BY <1>1, <2>1 DEF BeginUpdate, Acquire
    <2>2. CASE ~BeginUpdate(p)
      <3>1. update[p].state # "idle"
        BY <1>2, <2>2
        DEF UpdateNext, LoadCurrent, EndsUnpublished, Publish, WriteFiles, Activate,
            PublicationFails, EndUpdate, UpdateStep
      <3> QED BY <1>1, <3>1 DEF IInv, Locked
    <2> QED BY <2>1, <2>2
  <1>3. ASSUME NEW m \in Maintainers,
               \/ BeginMaintenance(m) \/ InspectBlocked(m)
               \/ \E kinds \in SUBSET {"staging", "temporary"} : Inspect(m, kinds)
               \/ Delete(m) \/ DeleteFails(m) \/ Verify(m)
        PROVE  holder # NoThread \/ holder' # NoThread
    <2>1. CASE BeginMaintenance(m)
      BY <1>1, <2>1 DEF BeginMaintenance, Acquire
    <2>2. CASE ~BeginMaintenance(m)
      <3>1. maintenance[m].state # "idle"
        BY <1>3, <2>2 DEF InspectBlocked, Inspect, Delete, DeleteFails, Verify, MaintenanceStep
      <3> QED BY <1>1, <3>1 DEF IInv, Locked
    <2> QED BY <2>1, <2>2
  <1> QED BY <1>2, <1>3 DEF Silent

\* A dry run that has not read anything.
LEMMA NotListedOK == ListingInv(NotListed)
  BY DEF ListingInv, NotListed, Listing, KnownListing, Undisturbed

\* A read by the dry run itself changes no file.
LEMMA ReadingStays ==
  ASSUME NEW l, ListingInv(l), UNCHANGED datasetVars, listing' = l
  PROVE  ListingInv(listing)'
  <1>1. /\ Artifacts' = Artifacts /\ Present' = Present
        /\ Listed' = Listed /\ NothingThere' = NothingThere
    BY DEF Listed, NothingThere, Artifacts, Present, Verified, datasetVars, vars, disk
  <1>2. UNCHANGED <<holder, pointer, generations>>
    BY DEF datasetVars, vars, disk
  <1>3. listing' \in Listing
    BY DEF ListingInv
  <1>4. KnownListing(listing)'
    BY <1>1, <1>2 DEF ListingInv, KnownListing
  <1>5. Undisturbed(listing)'
    BY <1>1, <1>2 DEF ListingInv, Undisturbed
  <1> QED BY <1>3, <1>4, <1>5 DEF ListingInv

LEMMA ListRootOK ==
  ASSUME RecordInv, ListRoot
  PROVE  ListingInv(listing)'
  <1>0. Typing /\ Artifacts \subseteq Artifact
    BY Parts, MaintenanceAssumption
    DEF Artifacts, Artifact, Owners, RecordInv, IInv, RepositoryAssumption
  <1>1. PICK available \in BOOLEAN :
          /\ available \/ NothingThere
          /\ LET full == Cardinality(Artifacts) + Count(pointer # NoGeneration)
                           + Count(available) > MaxArtifacts
                 quiet == holder = NoThread
             IN listing' =
                  IF full
                  THEN [NotListed EXCEPT !.state = "listed", !.full = TRUE, !.quiet = quiet]
                  ELSE [NotListed EXCEPT
                          !.state = "root", !.artifacts = Artifacts,
                          !.available = available,
                          !.own = {a \in Artifacts : a[2] \in Publishers},
                          !.stale = [kind \in Kinds |-> StaleCount(kind)],
                          !.can_load = pointer # NoGeneration, !.quiet = quiet]
    BY DEF ListRoot
  <1> DEFINE full == Cardinality(Artifacts) + Count(pointer # NoGeneration)
                       + Count(available) > MaxArtifacts
             quiet == holder = NoThread
  <1>2. full <=> Listed.full
    <2>1. Listed.full <=> Cardinality(Artifacts) + Count(pointer # NoGeneration) + 1
                            > MaxArtifacts
      BY DEF Listed
    <2>2. CASE available
      BY <2>1, <2>2 DEF Count
    <2>3. CASE ~available
      <3>1. Cardinality(Artifacts) = 0 /\ pointer = NoGeneration
        BY <1>1, <2>3, FS_EmptySet DEF NothingThere
      <3> QED BY <2>1, <2>3, <3>1, MaintenanceAssumption DEF Count
    <2> QED BY <2>2, <2>3
  <1>3. \A kind \in Kinds : StaleCount(kind) \in Int
    BY <1>0, Parts, MaintenanceAssumption DEF StaleCount, RepositoryAssumption
  <1>4. UNCHANGED datasetVars
    BY DEF ListRoot
  <1>5. PICK l : l = listing'
    OBVIOUS
  <1>6. CASE full
    <2>1. l = [NotListed EXCEPT !.state = "listed", !.full = TRUE, !.quiet = quiet]
      BY <1>1, <1>5, <1>6
    <2>2. quiet \in BOOLEAN /\ (quiet => holder = NoThread)
      OBVIOUS
    <2>6. Listed.full
      BY <1>2, <1>6, Zenon
    <2> HIDE DEF full, quiet
    <2>3. l \in Listing
      <3>1. NotListed \in Listing
        BY NotListedOK DEF ListingInv
      <3> QED BY <2>1, <2>2, <3>1 DEF Listing
    <2>4. KnownListing(l)
      BY <2>1 DEF NotListed, KnownListing
    <2>5. Undisturbed(l)
      BY <2>1, <2>2, <2>6 DEF NotListed, Undisturbed
    <2> QED BY <1>4, <1>5, <2>3, <2>4, <2>5, ReadingStays DEF ListingInv
  <1>7. CASE ~full
    <2>1. l = [NotListed EXCEPT
                 !.state = "root", !.artifacts = Artifacts, !.available = available,
                 !.own = {a \in Artifacts : a[2] \in Publishers},
                 !.stale = [kind \in Kinds |-> StaleCount(kind)],
                 !.can_load = pointer # NoGeneration, !.quiet = quiet]
      BY <1>1, <1>5, <1>7
    <2>2. l \in Listing
      BY <2>1, <1>0, <1>3 DEF NotListed, Listing
    <2>3. KnownListing(l)
      BY <2>1, <1>0 DEF NotListed, KnownListing
    <2>4. Undisturbed(l)
      BY <2>1, <1>1, <1>2, <1>7 DEF NotListed, Undisturbed
    <2> QED BY <1>4, <1>5, <2>2, <2>3, <2>4, ReadingStays DEF ListingInv
  <1> QED BY <1>6, <1>7

LEMMA LookingOK ==
  ASSUME RecordInv, LookForCurrent \/ LookAt
  PROVE  ListingInv(listing)'
  <1>0. UNCHANGED datasetVars /\ ListingInv(listing)
    BY DEF LookForCurrent, LookAt, RecordInv
  <1>1. PICK l : l = listing'
    OBVIOUS
  <1>2. CASE LookForCurrent
    <2>1. /\ l = [listing EXCEPT !.state = "entries",
                                 !.can_load = @ \/ pointer = NoGeneration]
          /\ listing.state = "root"
      BY <1>1, <1>2 DEF LookForCurrent
    <2>2. l \in Listing
      BY <1>0, <2>1 DEF ListingInv, Listing
    <2>3. KnownListing(l) /\ Undisturbed(l)
      BY <1>0, <2>1 DEF ListingInv, Listing, KnownListing, Undisturbed
    <2> QED BY <1>0, <1>1, <2>2, <2>3, ReadingStays DEF ListingInv
  <1>3. CASE LookAt
    <2>1. \/ \E a \in listing.own : l = [listing EXCEPT !.own = @ \ {a}]
          \/ \E kind \in Kinds : l = [listing EXCEPT !.stale[kind] = @ - 1]
      BY <1>1, <1>3 DEF LookAt
    <2>2. l \in Listing
      BY <1>0, <2>1 DEF ListingInv, Listing
    <2>3. KnownListing(l) /\ Undisturbed(l)
      BY <1>0, <2>1 DEF ListingInv, Listing, KnownListing, Undisturbed
    <2> QED BY <1>0, <1>1, <2>2, <2>3, ReadingStays DEF ListingInv
  <1> QED BY <1>2, <1>3

LEMMA ListGenerationsOK ==
  ASSUME RecordInv, ListGenerations
  PROVE  ListingInv(listing)'
  <1> DEFINE found == IF listing.available THEN Present ELSE {}
  <1>0. UNCHANGED datasetVars /\ ListingInv(listing) /\ IInv /\ listing.state = "entries"
    BY DEF ListGenerations, RecordInv
  <1>1. PICK l : l = listing'
    OBVIOUS
  <1>2. l = [listing EXCEPT
              !.state    = "listed",
              !.overflow = Cardinality(listing.artifacts) + Cardinality(found) > MaxArtifacts,
              !.loaded   = {g \in found : Verified(generations[g])},
              !.invalid  = {g \in found : ~Verified(generations[g])}]
    BY <1>1 DEF ListGenerations
  <1> DEFINE over == Cardinality(listing.artifacts) + Cardinality(found) > MaxArtifacts
  <1>3. \A g \in found : Verified(generations[g])
    BY <1>0 DEF IInv, Sound, Whole, Present
  <1>4. {g \in found : Verified(generations[g])} = found
        /\ {g \in found : ~Verified(generations[g])} = {} /\ found \subseteq GenerationIds
    BY <1>3 DEF Present
  <1>5. l \in Listing
    <2>1. l = [listing EXCEPT !.state = "listed", !.overflow = over, !.loaded = found,
                              !.invalid = {}]
      BY <1>2, <1>4
    <2>2. over \in BOOLEAN
      OBVIOUS
    <2> HIDE DEF found, over
    <2> QED BY <1>0, <1>4, <2>1, <2>2 DEF ListingInv, Listing
  <1> HIDE DEF found, over
  <1>6. KnownListing(l)
    <2>1. \A g \in Present : generations[g].previous # NoGeneration =>
                               generations[g].previous \in Present
      BY <1>0, ListedKnown DEF KnownListing
    <2>2. l.artifacts = listing.artifacts /\ l.loaded = found /\ l.invalid = {}
      BY <1>0, <1>2, <1>4 DEF ListingInv, Listing
    <2> QED BY <1>0, <2>1, <2>2 DEF ListingInv, KnownListing, found
  <1>7. Undisturbed(l)
    <2> SUFFICES ASSUME l.quiet PROVE Undisturbed(l)
      BY DEF Undisturbed
    <2>1. /\ l.state = "listed" /\ l.loaded = found /\ ~l.unsafe /\ l.can_load
          /\ l.full = listing.full /\ l.artifacts = listing.artifacts
          /\ l.available = listing.available
          /\ l.overflow = (Cardinality(listing.artifacts) + Cardinality(found) > MaxArtifacts)
          /\ holder = NoThread /\ ~listing.full /\ ~Listed.full
          /\ listing.artifacts = Artifacts /\ (listing.available \/ NothingThere)
      BY <1>0, <1>2, <1>4 DEF ListingInv, Listing, Undisturbed
    <2>2. found = Present
      BY <2>1 DEF NothingThere, found
    <2>3. Listed.overflow = (Cardinality(Artifacts) + Cardinality(Present) > MaxArtifacts)
      BY DEF Listed
    <2> QED BY <2>1, <2>2, <2>3 DEF Undisturbed
  <1> QED BY <1>0, <1>1, <1>5, <1>6, <1>7, ReadingStays DEF ListingInv

\* What other threads do in the meantime is not quiet.
LEMMA FollowOK ==
  ASSUME RecordInv, Silent, IInv'
  PROVE  ListingInv(listing)'
  <1>0. [DatasetNext]_datasetVars /\ ListingInv(listing) /\ IInv /\ Follow
    BY DEF Silent, DatasetNext, MaintenanceNext, RecordInv
  <1>1. PICK l : l = listing'
    OBVIOUS
  <1>2. PICK left \in [Kinds -> Int], unsafe \in BOOLEAN :
          l = [listing EXCEPT !.own = @ \ Vanished, !.stale = left, !.unsafe = unsafe,
                              !.quiet = @ /\ holder' = NoThread]
    <2>1. PICK removed : 
            LET left == [kind \in Kinds |->
                   listing.stale[kind] + Cardinality({a \in Abandoned : a[1] = kind})
                     - Count(kind \in removed)]
            IN /\ \A kind \in Kinds : left[kind] \in 0..StaleCount(kind)'
               /\ listing' = [listing EXCEPT
                    !.own    = @ \ Vanished,
                    !.stale  = left,
                    !.unsafe = @ \/ Vanished # Abandoned \/ removed # {},
                    !.quiet  = @ /\ holder' = NoThread]
      BY <1>0 DEF Follow
    <2> DEFINE left == [kind \in Kinds |->
                   listing.stale[kind] + Cardinality({a \in Abandoned : a[1] = kind})
                     - Count(kind \in removed)]
               unsafe == listing.unsafe \/ Vanished # Abandoned \/ removed # {}
    <2>2. \A kind \in Kinds : left[kind] \in Int
      BY <2>1
    <2>3. left \in [Kinds -> Int]
      <3>1. left = [kind \in Kinds |-> left[kind]]
        OBVIOUS
      <3> HIDE DEF left
      <3> QED BY <2>2, <3>1
    <2>4. unsafe \in BOOLEAN
      OBVIOUS
    <2>5. l = [listing EXCEPT !.own = @ \ Vanished, !.stale = left, !.unsafe = unsafe,
                              !.quiet = @ /\ holder' = NoThread]
      BY <1>1, <2>1
    <2> HIDE DEF left, unsafe
    <2> QED BY <2>3, <2>4, <2>5
  <1>3. /\ l \in Listing /\ l.quiet = (listing.quiet /\ holder' = NoThread)
        /\ l.artifacts = listing.artifacts /\ l.loaded = listing.loaded
        /\ l.invalid = listing.invalid
    BY <1>0, <1>2 DEF ListingInv, Listing
  <1>4. KnownListing(l)
    BY <1>0, <1>3 DEF ListingInv, KnownListing
  <1>5. KnownListing(l)'
    BY <1>0, <1>4, ListingStays
  <1>6. ~l.quiet
    BY <1>0, <1>3, SilentLocked DEF ListingInv, Undisturbed
  <1>7. Undisturbed(listing)'
    BY <1>1, <1>6 DEF Undisturbed
  <1>8. KnownListing(listing)'
    BY <1>1, <1>5
  <1> QED BY <1>1, <1>3, <1>7, <1>8 DEF ListingInv

LEMMA RecordInvStep == RecordInv /\ [RecordNext]_<<recordVars, told>> => RecordInv'
  <1> SUFFICES ASSUME RecordInv, [RecordNext]_<<recordVars, told>> PROVE RecordInv'
    OBVIOUS
  <1>1. [DatasetNext]_datasetVars
    BY RecordStepIsStep DEF recordVars
  <1>2. IInv /\ IInv' /\ ListingInv(listing)
    BY <1>1, InvStep DEF RecordInv
  <1>3. CASE UNCHANGED recordVars
    BY <1>2, <1>3, ReadingStays DEF RecordInv, recordVars
  <1>4. CASE listing' = NotListed
    <2>1. ListingInv(NotListed)'
      BY NotListedOK, PTL
    <2>2. NotListed' = NotListed
      BY DEF NotListed
    <2> QED BY <1>2, <1>4, <2>1, <2>2 DEF RecordInv
  <1>5. ASSUME NEW m \in Maintainers, TellEnd(m) PROVE RecordInv'
    <2>1. listing' = listing /\ holder # NoThread
      BY <1>2, <1>5, MaintenanceAssumption DEF TellEnd, EndMaintenance, IInv, Locked
    <2>2. ~listing.quiet
      BY <1>2, <2>1 DEF ListingInv, Undisturbed
    <2>3. listing' \in Listing /\ KnownListing(listing)
      BY <1>2, <2>1 DEF ListingInv
    <2>4. PICK l : l = listing
      OBVIOUS
    <2>5. KnownListing(l)'
      BY <1>1, <1>2, <2>3, <2>4, ListingStays
    <2>6. KnownListing(listing)'
      BY <2>1, <2>4, <2>5
    <2>7. Undisturbed(listing)'
      BY <2>1, <2>2 DEF Undisturbed
    <2> QED BY <1>2, <2>3, <2>6, <2>7 DEF RecordInv, ListingInv
  <1>6. CASE ListRoot \/ LookForCurrent \/ LookAt \/ ListGenerations
    BY <1>2, <1>6, ListRootOK, LookingOK, ListGenerationsOK DEF RecordInv
  <1>7. CASE Silent
    BY <1>2, <1>7, FollowOK DEF RecordInv
  <1> QED BY <1>3, <1>4, <1>5, <1>6, <1>7
          DEF RecordNext, TellUnlocked, FindNothing, TellDryRun, RecordDies

-----------------------------------------------------------------------------
(* The inspection                                                          *)

\* A walk inside a known listing ends where the lineage ends, or at its limit.
LEMMA WalkEnds ==
  ASSUME IInv, NEW L \in SUBSET Present, NEW c \in L \cup {NoGeneration},
         \A g \in L : generations[g].previous # NoGeneration =>
                        generations[g].previous \in L
  PROVE  /\ LineageWarnings(Walk(L, c), c) \subseteq {"generation_lineage_limit_exceeded"}
         /\ LineageWarnings(Walk(L, c), c) # {} => Len(Walk(L, c)) = MaxLineage
  <1> DEFINE w == Walk(L, c)
             b == Beyond(w, c)
  <1>1. IsWalk(L, c, MaxLineage, w)
    BY WalkIsWalk
  <1> HIDE DEF w
  <1>2. w \in Seq(L) /\ Len(w) \in Nat /\ DOMAIN w = 1..Len(w)
    BY <1>1 DEF IsWalk
  <1>3. b \notin Range(w)
    <2> SUFFICES ASSUME b \in Range(w) PROVE FALSE
      OBVIOUS
    <2> DEFINE G == Range(w)
    <2>1. w # <<>> /\ G # {} /\ Len(w) >= 1
      BY <1>2 DEF Range
    <2>2. G \in SUBSET Present
      BY <1>2 DEF Range
    <2>3. b = generations[w[Len(w)]].previous
      BY <2>1 DEF Beyond
    <2>4. ASSUME NEW g \in G PROVE generations[g].previous \in G
      <3>1. PICK i \in 1..Len(w) : g = w[i]
        BY <1>2 DEF Range
      <3>2. CASE i = Len(w)
        BY <2>3, <3>1, <3>2
      <3>3. CASE i # Len(w)
        <4>0. \A n \in Nat : \A j \in 1..n :
                j # n => j \in 1..n - 1 /\ j + 1 \in 1..n
          OBVIOUS
        <4>1. i \in 1..Len(w) - 1 /\ i + 1 \in 1..Len(w)
          BY <1>2, <3>1, <3>3, <4>0
        <4>2. w[i + 1] = generations[w[i]].previous
          BY <1>1, <4>1 DEF IsWalk
        <4> QED BY <1>2, <3>1, <4>1, <4>2 DEF Range
      <3> QED BY <3>2, <3>3
    <2> HIDE DEF G
    <2> QED BY <2>1, <2>2, <2>4 DEF IInv, Sound, Unlooped
  <1>4. b # NoGeneration => Len(w) = MaxLineage
    <2> SUFFICES ASSUME b # NoGeneration, Len(w) # MaxLineage PROVE FALSE
      OBVIOUS
    <2>1. b \notin L
      BY <1>1, <1>3 DEF IsWalk
    <2>2. CASE w = <<>>
      BY <2>1, <2>2 DEF Beyond
    <2>3. CASE w # <<>>
      <3>1. Len(w) \in 1..Len(w) /\ w[Len(w)] \in L
        BY <1>2, <2>3
      <3> QED BY <2>1, <2>3, <3>1 DEF Beyond
    <2> QED BY <2>2, <2>3
  <1>5. LineageWarnings(w, c) \subseteq {"generation_lineage_limit_exceeded"}
    BY <1>3, <1>4 DEF LineageWarnings
  <1>6. LineageWarnings(w, c) # {} => Len(w) = MaxLineage
    BY <1>4 DEF LineageWarnings
  <1> QED BY <1>5, <1>6 DEF w

\* The listing of generations/ is cut, or older than the current generation.
Cut(l, c) ==
  /\ ~l.full
  /\ c # NoGeneration
  /\ l.overflow \/ c \notin l.loaded

Limits == {"artifact_limit_exceeded", "generation_lineage_limit_exceeded"}

\* What an inspection of known files can and cannot find, whether it loads the
\* current generation c or none.
LEMMA InspectionFinds ==
  ASSUME IInv, NEW l, KnownListing(l), NEW c \in {pointer, NoGeneration},
         NEW i, i = Inspection(l, c)
  PROVE  /\ Range(i.reachable) \cap i.unreachable = {}
         /\ i.current \in {NoGeneration, c}
         /\ i.current = NoGeneration => i.reachable = <<>>
         /\ i.reachable # <<>> =>
              Head(i.reachable) = i.current /\ Range(i.reachable) # {}
         /\ i.reachable = <<>> /\ i.current # NoGeneration <=> Cut(l, c)
         /\ i.artifacts = IF l.full THEN {} ELSE l.artifacts
         /\ l.full => "artifact_limit_exceeded" \in i.warnings
         /\ i.blocked /\ ~Cut(l, c) =>
              i.warnings \cap Limits # {} \/ c = NoGeneration \/ l.unsafe
         /\ ~i.blocked /\ i.current # NoGeneration =>
              Beyond(i.reachable, i.current) = NoGeneration
         /\ ~i.blocked => /\ Range(i.reachable) \cup i.unreachable = l.loaded
                          /\ i.current = c
         /\ i.unreachable \cup Range(i.reachable) \subseteq l.loaded
  <1>0. pointer \in MaybeGeneration /\ NoGeneration \notin Present
    BY Parts, MaintenanceAssumption DEF IInv, Present, RepositoryAssumption
  <1>1. CASE l.full
    <2>1. i = FullInspection
      BY <1>1 DEF Inspection
    <2>2. Range(<<>>) = {}
      BY DEF Range
    <2> QED BY <1>1, <2>1, <2>2 DEF FullInspection, Cut, Limits
  <1>2. CASE ~l.full
    <2> DEFINE L == IF l.overflow THEN {} ELSE l.loaded
               w == Walk(L, c)
               blocking ==
                 (IF l.unsafe THEN {"unsafe_artifact_detected"} ELSE {}) \cup
                 (IF l.overflow THEN {"artifact_limit_exceeded"} ELSE {}) \cup
                 (IF ~l.overflow /\ l.invalid # {}
                  THEN {"invalid_generation_artifact"} ELSE {}) \cup
                 (IF c = NoGeneration /\ L # {}
                  THEN {"ambiguous_generations_without_current"} ELSE {}) \cup
                 LineageWarnings(w, c)
    <2>1. /\ i.blocked = (blocking # {})
          /\ i.artifacts = l.artifacts /\ i.current = c
          /\ i.reachable = w /\ i.unreachable = L \ Range(w)
          /\ blocking \subseteq i.warnings
      BY <1>2 DEF Inspection
    <2>2. L \subseteq Present /\ L \subseteq l.loaded
      BY DEF KnownListing
    <2>3. IsWalk(L, c, MaxLineage, w)
      BY WalkIsWalk
    <2>4. L \in SUBSET Present /\ \A g \in L : generations[g].previous # NoGeneration =>
                                                 generations[g].previous \in L
      BY <2>2 DEF KnownListing
    <2> HIDE DEF L
    <2>5. c \in L \cup {NoGeneration} =>
            /\ LineageWarnings(w, c) \subseteq {"generation_lineage_limit_exceeded"}
      BY <2>4, WalkEnds
    <2> HIDE DEF w
    <2>6. /\ w \in Seq(L) /\ Range(w) \subseteq L
          /\ w # <<>> => Head(w) = c /\ Range(w) # {}
      <3>1. w \in Seq(L) /\ DOMAIN w = 1..Len(w)
        BY <2>3 DEF IsWalk
      <3> QED BY <2>3, <3>1 DEF IsWalk, Range
    <2>7. w = <<>> <=> c \notin L
      <3>1. CASE w = <<>>
        <4>1. Len(w) # MaxLineage /\ Range(w) = {}
          BY <3>1, MaintenanceAssumption DEF Range
        <4> QED BY <2>3, <3>1, <4>1 DEF IsWalk, Beyond
      <3>2. CASE w # <<>>
        <4>1. w[1] = c /\ w[1] \in L
          BY <2>3, <2>6, <3>2 DEF IsWalk
        <4> QED BY <3>2, <4>1
      <3> QED BY <3>1, <3>2
    <2>8. c \notin L <=> c = NoGeneration \/ Cut(l, c)
      BY <1>0, <1>2, <2>2 DEF Cut, L
    <2>9. c = NoGeneration => w = <<>>
      BY <2>7, <2>8
    <2>10. w = <<>> /\ c # NoGeneration <=> Cut(l, c)
      BY <2>7, <2>8 DEF Cut
    <2>11. ASSUME i.blocked, ~Cut(l, c), c # NoGeneration, ~l.unsafe
           PROVE  i.warnings \cap Limits # {}
      <3>1. l.invalid = {}
        BY DEF KnownListing
      <3>2. LineageWarnings(w, c) \subseteq {"generation_lineage_limit_exceeded"}
        BY <2>5, <2>8, <2>11
      <3>3. PICK x \in blocking : TRUE
        BY <2>1, <2>11
      <3>4. x \in Limits
        BY <2>11, <3>1, <3>2, <3>3 DEF Limits
      <3> HIDE DEF blocking
      <3> QED BY <2>1, <3>3, <3>4
    <2>12. ASSUME ~i.blocked
           PROVE  /\ LineageWarnings(w, c) = {}
                  /\ L = l.loaded
      BY <2>1, <2>12 DEF L
    <2>13. LineageWarnings(w, c) = {} => Beyond(w, c) = NoGeneration
      BY DEF LineageWarnings
    <2> HIDE DEF blocking
    <2> QED BY <1>2, <2>1, <2>2, <2>6, <2>9, <2>10, <2>11, <2>12, <2>13
  <1> QED BY <1>1, <1>2

\* v goes n generations back from c.
GoesBack(c, n, v) ==
  v[1] = c /\ \A i \in 1..n - 1 : v[i + 1] = generations[v[i]].previous

\* Two ways back from c agree as far as both go.
LEMMA WalksAgree ==
  ASSUME NEW L, NEW c, NEW k \in Nat, NEW w, IsWalk(L, c, k, w), w # <<>>,
         NEW n \in Nat, NEW v, GoesBack(c, n, v)
  PROVE  \A i \in 1..n : i <= Len(w) => v[i] = w[i]
  <1> DEFINE T == {i \in 1..n : i <= Len(w) /\ v[i] # w[i]}
  <1> SUFFICES ASSUME T # {} PROVE FALSE
    OBVIOUS
  <1>1. PICK i \in T : \A y \in T : i <= y
    <2>1. T \in SUBSET Nat
      OBVIOUS
    <2> HIDE DEF T
    <2> QED BY <2>1, NatMinimum
  <1>2. i \in 1..n /\ i <= Len(w) /\ v[i] # w[i] /\ Len(w) \in Nat
    BY DEF IsWalk
  <1>3. i # 1
    BY <1>2 DEF IsWalk, GoesBack
  <1> DEFINE j == i - 1
  <1>4. j \in 1..n - 1 /\ j \in 1..n /\ j \in 1..Len(w) - 1 /\ j + 1 = i /\ j < i
    BY <1>2, <1>3
  <1>5. j \notin T
    BY <1>1, <1>4
  <1> HIDE DEF j
  <1>6. v[j] = w[j]
    BY <1>2, <1>4, <1>5
  <1>7. v[j + 1] = generations[v[j]].previous /\ w[j + 1] = generations[w[j]].previous
    BY <1>4 DEF IsWalk, GoesBack
  <1> QED BY <1>2, <1>4, <1>6, <1>7

\* A cleanup that would pass its inspection passes the one that tells it.
LEMMA UnblockedPasses ==
  ASSUME IInv, ~Blocked
  PROVE  ~Inspection(Listed, pointer).blocked
  <1> DEFINE L == Listed.loaded
             w == Walk(L, pointer)
  <1>1. ~Listed.full /\ ~Listed.overflow
    BY DEF Listed, Blocked, TooMany
  <1>2. Listed.invalid = {} /\ L = Present /\ KnownListing(Listed)
    BY ListedKnown DEF KnownListing
  <1>3. pointer = NoGeneration => L = {}
    BY <1>2 DEF Blocked
  <1>4. LineageWarnings(w, pointer) = {}
    <2>1. IsWalk(L, pointer, MaxLineage, w)
      BY WalkIsWalk
    <2>2. /\ LineageWarnings(w, pointer) # {} => Len(w) = MaxLineage
          /\ pointer # NoGeneration => pointer \in L
      <3>1. pointer # NoGeneration => pointer \in L
        BY <1>2, Parts DEF IInv, Sound, Present, MaybeGeneration
      <3>2. L \in SUBSET Present /\ pointer \in L \cup {NoGeneration}
        BY <1>2, <3>1
      <3>3. \A g \in L : generations[g].previous # NoGeneration =>
                           generations[g].previous \in L
        BY <1>2 DEF KnownListing
      <3> HIDE DEF L
      <3> QED BY <3>1, <3>2, <3>3, WalkEnds
    <2> HIDE DEF w
    <2> SUFFICES ASSUME LineageWarnings(w, pointer) # {} PROVE FALSE
      OBVIOUS
    <2>3. Len(w) = MaxLineage /\ MaxLineage \in Nat \ {0} /\ w \in Seq(L)
      BY <2>1, <2>2, MaintenanceAssumption DEF IsWalk
    <2>4. w # <<>> /\ w[1] = pointer /\ w[1] \in L
      BY <2>1, <2>3 DEF IsWalk
    <2>5. pointer # NoGeneration /\ NoGeneration \notin L
      BY <1>2, <2>4, MaintenanceAssumption DEF Present, RepositoryAssumption
    <2>6. PICK n \in 1..MaxLineage :
            \E v \in Lineage(n) : generations[v[n]].previous = NoGeneration
      BY <2>5 DEF Blocked, WholeLineage
    <2>7. PICK v \in Lineage(n) : generations[v[n]].previous = NoGeneration
      BY <2>6
    <2>8. n \in Nat /\ n >= 1 /\ n <= Len(w)
      BY <2>3, <2>6
    <2>9. v[n] = w[n]
      <3>1. GoesBack(pointer, n, v)
        BY <2>7 DEF Lineage, GoesBack
      <3>2. \A i \in 1..n : i <= Len(w) => v[i] = w[i]
        <4> HIDE DEF L
        <4>1. MaxLineage \in Nat /\ n \in Nat /\ w # <<>>
          BY <2>3, <2>4, <2>8
        <4> QED BY <2>1, <3>1, <4>1, WalksAgree
      <3> QED BY <2>8, <3>2
    <2>10. CASE n = Len(w)
      <3>1. Beyond(w, pointer) = NoGeneration
        BY <2>4, <2>7, <2>9, <2>10 DEF Beyond
      <3> QED BY <3>1 DEF LineageWarnings
    <2>11. CASE n # Len(w)
      <3>1. n \in 1..Len(w) - 1 /\ n + 1 \in 1..Len(w)
        BY <2>3, <2>8, <2>11
      <3>2. w[n + 1] = NoGeneration
        BY <2>1, <2>7, <2>9, <3>1 DEF IsWalk
      <3>3. w[n + 1] \in L
        BY <2>3, <3>1
      <3> QED BY <2>5, <3>2, <3>3
    <2> QED BY <2>10, <2>11
  <1>5. (IF Listed.overflow THEN {} ELSE Listed.loaded) = L
    BY <1>1
  <1>6. ~Listed.unsafe
    BY DEF Listed
  <1> QED BY <1>1, <1>2, <1>3, <1>4, <1>5, <1>6 DEF Inspection

LEMMA InspectionFields ==
  ASSUME NEW l, NEW c, NEW i, i = Inspection(l, c)
  PROVE  i = [blocked |-> i.blocked, artifacts |-> i.artifacts, current |-> i.current,
              reachable |-> i.reachable, unreachable |-> i.unreachable,
              warnings |-> i.warnings]
  BY DEF Inspection, FullInspection

\* With nothing to report there is no generation at all.
LEMMA NothingReported ==
  ASSUME IInv, NEW l, KnownListing(l), NEW c \in {pointer, NoGeneration},
         NEW i, i = Inspection(l, c), ~Cut(l, c),
         NEW j, j.reachable = i.reachable, j.unreachable = i.unreachable, Reported(j) = {}
  PROVE  i.current = NoGeneration /\ i.reachable = <<>> /\ i.unreachable = {}
  <1>1. ASSUME NEW S, {"generation"} \X S = {} PROVE S = {}
    <2>1. \A s \in S : <<"generation", s>> \in {"generation"} \X S
      OBVIOUS
    <2> QED BY <1>1, <2>1
  <1>2. {"generation"} \X (Range(i.reachable) \cup i.unreachable) = {}
    BY DEF Reported
  <1>3. Range(i.reachable) \cup i.unreachable = {}
    BY <1>1, <1>2
  <1>4. i.reachable = <<>>
    BY <1>3, InspectionFinds
  <1>5. ~(i.reachable = <<>> /\ i.current # NoGeneration)
    BY InspectionFinds
  <1> QED BY <1>3, <1>4, <1>5

\* The five things that are promised of every step.
ToldTruly ==
  AnswersUnlessCut /\ DeletionsTold /\ LineageTold /\ CleansUpToLimits
       /\ UndisturbedTold

\* A dry run tells the truth about what it listed, or is refused when what it
\* listed was cut or overtaken.
LEMMA DryRunTrue ==
  ASSUME RecordInv, TellDryRun
  PROVE  ToldTruly
  <1>0. /\ IInv /\ KnownListing(listing) /\ Undisturbed(listing) /\ listing \in Listing
        /\ listing.state = "listed" /\ UNCHANGED maintenance
    BY DEF RecordInv, ListingInv, TellDryRun, datasetVars
  <1>1. PICK c : c = IF listing.can_load THEN pointer ELSE NoGeneration
    OBVIOUS
  <1>2. PICK j : j = Inspection(listing, c)
    OBVIOUS
  <1>3. PICK kinds \in SUBSET Kinds :
          told' = Result(TRUE, j, IF j.blocked THEN "blocked" ELSE "inspected",
                         IF j.blocked THEN {} ELSE {a \in j.artifacts : a[1] \in kinds},
                         {}, Reported(j))
    BY <1>1, <1>2 DEF TellDryRun
  <1> DEFINE chosen == IF j.blocked THEN {} ELSE {a \in j.artifacts : a[1] \in kinds}
             status == IF j.blocked THEN "blocked" ELSE "inspected"
             x == [kind |-> "result", dry_run |-> TRUE, locked |-> ~TRUE,
                   status |-> status, artifacts |-> Reported(j),
                   candidates |-> chosen, deleted |-> {},
                   remaining |-> Reported(j), current |-> j.current,
                   reachable |-> j.reachable, unreachable |-> j.unreachable,
                   warnings |-> j.warnings]
  <1>4. IF ResultAccepted(x) THEN told' = x ELSE told' = Refused
    BY <1>3 DEF Result
  <1>5. c \in {pointer, NoGeneration}
    BY <1>1
  <1>6. /\ Range(j.reachable) \cap j.unreachable = {}
        /\ j.current = NoGeneration => j.reachable = <<>>
        /\ j.reachable # <<>> => Head(j.reachable) = j.current
        /\ j.reachable = <<>> /\ j.current # NoGeneration <=> Cut(listing, c)
        /\ j.blocked /\ ~Cut(listing, c) =>
              j.warnings \cap Limits # {} \/ c = NoGeneration \/ listing.unsafe
        /\ ~j.blocked /\ j.current # NoGeneration =>
              Beyond(j.reachable, j.current) = NoGeneration
    BY <1>0, <1>2, <1>5, InspectionFinds
  <1>7. status \in {"blocked", "inspected"} /\ (status = "blocked" => j.blocked)
    OBVIOUS
  <1>8. chosen \subseteq Reported(j) /\ (\A a \in chosen : a[1] \in Kinds)
        /\ (j.blocked => chosen = {})
    BY DEF Reported
  <1> HIDE DEF chosen, status
  <1>10. ~Cut(listing, c) <=> ResultAccepted(x)
    BY <1>6, <1>7, <1>8 DEF ResultAccepted
  <1>11. Cut(listing, c) => Overtaken
    <2> SUFFICES ASSUME Cut(listing, c) PROVE Overtaken
      OBVIOUS
    <2>1. listing.can_load /\ c = pointer /\ pointer # NoGeneration /\ ~listing.full
      BY <1>1 DEF Cut
    <2>2. pointer \in Present
      BY <1>0, <2>1, Parts DEF IInv, Sound, Present, MaybeGeneration
    <2>3. listing.quiet => pointer \in listing.loaded
      BY <1>0, <2>1, <2>2 DEF Undisturbed
    <2> QED BY <1>0, <2>1, <2>3 DEF Cut, Overtaken
  <1>12. AnswersUnlessCut
    BY <1>4, <1>10, <1>11 DEF AnswersUnlessCut
  <1>13. DeletionsTold
    BY <1>0 DEF DeletionsTold
  <1>14. told'.kind = "result" => told' = x /\ ~Cut(listing, c)
    BY <1>4, <1>10 DEF Refused
  <1>15. LineageTold
    BY <1>6, <1>7, <1>14 DEF LineageTold, status
  <1>16. listing.quiet => /\ ~listing.unsafe
                          /\ ~listing.full => c = pointer
    BY <1>0, <1>1 DEF Undisturbed
  <1>17. CleansUpToLimits
    <2>1. told'.kind # "error"
      BY <1>4 DEF Refused
    <2>2. j.blocked /\ listing.full => "artifact_limit_exceeded" \in j.warnings
      BY <1>0, <1>2, <1>5, InspectionFinds
    <2>3. ASSUME j.blocked, ~Cut(listing, c), listing.quiet
          PROVE  j.warnings \cap Limits # {} \/ pointer = NoGeneration
      <3>1. CASE listing.full
        BY <2>2, <2>3, <3>1 DEF Limits
      <3>2. CASE ~listing.full
        BY <1>6, <1>16, <2>3, <3>2
      <3> QED BY <3>1, <3>2
    <2> QED BY <2>1, <2>3, <1>7, <1>14 DEF CleansUpToLimits, Limits
  <1>18. UndisturbedTold
    <2> DEFINE i == Inspection(Listed, pointer)
    <2>1. ASSUME listing.quiet PROVE j = i
      <3>1. CASE listing.full
        BY <1>0, <1>2, <2>1, <3>1 DEF Undisturbed, Inspection
      <3>2. CASE ~listing.full
        <4>1. /\ listing.overflow = Listed.overflow /\ listing.loaded = Listed.loaded
              /\ listing.artifacts = Listed.artifacts
              /\ listing.invalid = Listed.invalid /\ listing.unsafe = Listed.unsafe
              /\ ~Listed.full
          <5>1. /\ listing.overflow <=> Listed.overflow
                /\ listing.loaded = Present /\ listing.artifacts = Artifacts /\ ~Listed.full
                /\ ~listing.unsafe /\ listing.invalid = {}
            BY <1>0, <2>1, <3>2 DEF Undisturbed, KnownListing
          <5>2. /\ Listed.loaded = Present /\ Listed.invalid = {} /\ ~Listed.unsafe
                /\ Listed.overflow \in BOOLEAN /\ Listed.unsafe \in BOOLEAN
                /\ Listed.artifacts = Artifacts
            BY <1>0, ListedKnown DEF KnownListing, Listed
          <5>3. listing.overflow \in BOOLEAN /\ listing.unsafe \in BOOLEAN
            BY <1>0 DEF Listing
          <5> QED BY <5>1, <5>2, <5>3
        <4>2. j = Inspection(listing, pointer)
          BY <1>2, <1>16, <2>1, <3>2
        <4> QED BY <3>2, <4>1, <4>2 DEF Inspection
      <3> QED BY <3>1, <3>2
    <2> HIDE DEF i
    <2>2. told'.kind = "result" =>
            /\ told'.current = j.current /\ told'.artifacts = Reported(j)
            /\ told'.warnings = j.warnings
            /\ told'.status = "blocked" <=> j.blocked
      BY <1>14 DEF status
    <2> QED BY <2>1, <2>2 DEF UndisturbedTold, i
  <1> QED BY <1>12, <1>13, <1>15, <1>17, <1>18 DEF ToldTruly

\* A dataset without a directory is empty.
LEMMA NothingTrue ==
  ASSUME RecordInv, FindNothing
  PROVE  ToldTruly
  <1>1. /\ IInv /\ UNCHANGED maintenance /\ listing.state = "idle"
        /\ Artifacts = {} /\ Present = {} /\ pointer = NoGeneration
    BY DEF RecordInv, FindNothing, NothingThere, recordVars, datasetVars
  <1>2. PICK i : i = Inspection(Listed, NoGeneration)
    OBVIOUS
  <1>3. KnownListing(Listed) /\ Listed.loaded = {} /\ Listed.artifacts = {}
    BY <1>1, ListedKnown DEF Listed
  <1>4. ~Cut(Listed, NoGeneration)
    BY DEF Cut
  <1>5. /\ i.current = NoGeneration /\ i.reachable = <<>>
        /\ i.unreachable = {} /\ i.artifacts = {} /\ Range(i.reachable) = {}
    <2>1. /\ i.current \in {NoGeneration} /\ (i.current = NoGeneration => i.reachable = <<>>)
          /\ i.unreachable \cup Range(i.reachable) \subseteq {}
          /\ i.artifacts = IF Listed.full THEN {} ELSE Listed.artifacts
      BY <1>1, <1>2, <1>3, InspectionFinds
    <2> QED BY <1>3, <2>1
  <1>6. Reported(i) = {}
    <2>1. {"generation"} \X {} = {}
      OBVIOUS
    <2> QED BY <1>5, <2>1 DEF Reported
  <1> DEFINE x == [kind |-> "result", dry_run |-> TRUE, locked |-> ~TRUE,
                   status |-> "empty", artifacts |-> Reported(i),
                   candidates |-> {}, deleted |-> {},
                   remaining |-> {}, current |-> i.current,
                   reachable |-> i.reachable, unreachable |-> i.unreachable,
                   warnings |-> i.warnings]
  <1>7. told' = IF ResultAccepted(x) THEN x ELSE Refused
    BY <1>2 DEF FindNothing, Result
  <1>8. ResultAccepted(x)
    BY <1>5, <1>6 DEF ResultAccepted
  <1>9. told'.kind = "result" /\ told'.status = "empty"
    BY <1>7, <1>8
  <1> QED BY <1>1, <1>9 DEF ToldTruly, AnswersUnlessCut, DeletionsTold, LineageTold,
                            CleansUpToLimits, UndisturbedTold

\* What a cleanup that did not fail says of the files it leaves.
LEMMA VerifiedTrue ==
  ASSUME IInv, NEW m \in Maintainers, maintenance[m].state = "releasing",
         maintenance[m].todo = {}, NEW y \in Verification(m)
  PROVE  /\ y.kind \in {"result", "refused"}
         /\ y.kind = "refused" => Overflowing
         /\ y.kind = "result" =>
              /\ ~y.dry_run
              /\ y.deleted = Deleted(m) /\ y.deleted \cap Artifacts = {}
              /\ Artifacts \subseteq y.remaining \/ "artifact_limit_exceeded" \in y.warnings
              /\ y.status \notin {"blocked", "empty"} /\ y.current # NoGeneration =>
                   /\ Beyond(y.reachable, y.current) = NoGeneration
                   /\ Range(y.reachable) \cup y.unreachable = Present
              /\ y.status = "blocked" => y.warnings \cap Limits # {} \/ pointer = NoGeneration
  <1> DEFINE D == Deleted(m)
             first == FirstInspection(m)
             remaining == Reported(Inspection(Listed, pointer))
  <1>1. PICK i : i = Inspection(Listed, pointer)
    OBVIOUS
  <1>2. /\ D = maintenance[m].candidates /\ D \subseteq Artifact
        /\ D \cap Artifacts = {} /\ (D # {} => ~Blocked)
    BY Parts DEF IInv, Deleted, Cleaning, Maintenance
  <1>3. KnownListing(Listed) /\ Listed.loaded = Present /\ Listed.artifacts = Artifacts
    BY ListedKnown DEF Listed
  <1>4. D # {} => ~i.blocked
    BY <1>1, <1>2, UnblockedPasses
  <1>5. /\ Range(i.reachable) \cap i.unreachable = {}
        /\ i.current = NoGeneration => i.reachable = <<>>
        /\ i.reachable # <<>> => Head(i.reachable) = i.current
        /\ i.reachable = <<>> /\ i.current # NoGeneration <=> Cut(Listed, pointer)
        /\ i.artifacts = IF Listed.full THEN {} ELSE Listed.artifacts
        /\ Listed.full => "artifact_limit_exceeded" \in i.warnings
        /\ i.blocked /\ ~Cut(Listed, pointer) =>
              i.warnings \cap Limits # {} \/ pointer = NoGeneration \/ Listed.unsafe
        /\ ~i.blocked /\ i.current # NoGeneration =>
              Beyond(i.reachable, i.current) = NoGeneration
        /\ ~i.blocked => Range(i.reachable) \cup i.unreachable = Listed.loaded
    BY <1>1, <1>3, InspectionFinds
  <1>u. ~Listed.unsafe
    BY DEF Listed
  <1>6. Cut(Listed, pointer) => Overflowing
    BY <1>3, Parts DEF Cut, Overflowing, IInv, Sound, Present, MaybeGeneration
  <1>7. remaining = Reported(i)
    BY <1>1
  <1>8. Artifacts \subseteq remaining \/ "artifact_limit_exceeded" \in i.warnings
    BY <1>3, <1>5, <1>7 DEF Reported
  <1>9. D \cap remaining = {}
    <2>1. i.artifacts \subseteq Artifacts
      BY <1>3, <1>5
    <2>2. \A a \in Artifact : a[1] # "generation"
      BY DEF Artifact
    <2>3. \A S : \A a \in {"generation"} \X S : a[1] = "generation"
      OBVIOUS
    <2> QED BY <1>2, <1>7, <2>1, <2>2, <2>3 DEF Reported
  <1>10. y \in IF first.blocked
               THEN {Result(FALSE, first, "blocked", {}, {}, remaining)}
               ELSE {Result(FALSE, first, status, maintenance[m].candidates, D, remaining) :
                       status \in IF D # {} THEN {"cleaned"} ELSE InspectionStatuses(first)}
    BY DEF Verification
  <1>11. CASE i.blocked
    <2>1. first = i /\ D = {}
      BY <1>1, <1>4, <1>11 DEF FirstInspection
    <2> HIDE DEF D, first, remaining
    <2> DEFINE x == [kind |-> "result", dry_run |-> FALSE, locked |-> ~FALSE,
                     status |-> "blocked", artifacts |-> Reported(i),
                     candidates |-> {}, deleted |-> {}, remaining |-> remaining,
                     current |-> i.current, reachable |-> i.reachable,
                     unreachable |-> i.unreachable, warnings |-> i.warnings]
    <2>2. IF ResultAccepted(x) THEN y = x ELSE y = Refused
      BY <1>10, <1>11, <2>1 DEF Result
    <2>3. ~Cut(Listed, pointer) <=> ResultAccepted(x)
      BY <1>5 DEF ResultAccepted
    <2>4. y.kind = "result" => y = x /\ ~Cut(Listed, pointer)
      BY <2>2, <2>3 DEF Refused
    <2>5. y.kind \in {"result", "refused"} /\ (y.kind = "refused" => Overflowing)
      BY <2>2, <2>3, <1>6 DEF Refused
    <2> QED BY <2>1, <2>4, <2>5, <1>5, <1>u, <1>8, <1>11 DEF D
  <1>12. CASE ~i.blocked
    <2>1. /\ first.blocked = i.blocked /\ first.artifacts = i.artifacts \cup D
          /\ first.current = i.current /\ first.reachable = i.reachable
          /\ first.unreachable = i.unreachable /\ first.warnings = i.warnings
      <3>1. first = [i EXCEPT !.artifacts = @ \cup D]
        BY <1>1, <1>12 DEF FirstInspection
      <3> HIDE DEF first, D
      <3>2. i = [blocked |-> i.blocked, artifacts |-> i.artifacts, current |-> i.current,
                 reachable |-> i.reachable, unreachable |-> i.unreachable,
                 warnings |-> i.warnings]
        BY <1>1, InspectionFields
      <3> QED BY <3>1, <3>2
    <2>2. PICK j : j = first
      OBVIOUS
    <2> HIDE DEF D, first, remaining
    <2>3. PICK status \in IF D # {} THEN {"cleaned"} ELSE InspectionStatuses(j) :
            y = Result(FALSE, j, status, D, D, remaining)
      BY <1>2, <1>10, <1>12, <2>1, <2>2
    <2> DEFINE x == [kind |-> "result", dry_run |-> FALSE, locked |-> ~FALSE,
                     status |-> status, artifacts |-> Reported(j),
                     candidates |-> D, deleted |-> D, remaining |-> remaining,
                     current |-> j.current, reachable |-> j.reachable,
                     unreachable |-> j.unreachable, warnings |-> j.warnings]
    <2>4. IF ResultAccepted(x) THEN y = x ELSE y = Refused
      BY <2>3 DEF Result
    <2>5. /\ status \in {"cleaned", "empty", "inspected"}
          /\ status = "cleaned" <=> D # {}
          /\ status = "empty" => Reported(j) = {}
      BY <1>12, <2>1, <2>2, <2>3 DEF InspectionStatuses
    <2>6. D \subseteq Reported(j)
      BY <2>1, <2>2 DEF Reported
    <2>7. \A a \in D : a[1] \in Kinds
      BY <1>2 DEF Artifact, Kinds
    <2>8. status = "empty" /\ ~Cut(Listed, pointer) =>
            i.current = NoGeneration /\ i.reachable = <<>> /\ i.unreachable = {}
      BY <1>1, <1>3, <2>1, <2>2, <2>5, NothingReported
    <2>9. ~Cut(Listed, pointer) <=> ResultAccepted(x)
      BY <1>5, <1>9, <2>1, <2>2, <2>5, <2>6, <2>7, <2>8 DEF ResultAccepted
    <2>10. y.kind = "result" => y = x /\ ~Cut(Listed, pointer)
      BY <2>4, <2>9 DEF Refused
    <2>11. y.kind \in {"result", "refused"} /\ (y.kind = "refused" => Overflowing)
      BY <2>4, <2>9, <1>6 DEF Refused
    <2>12. D = Deleted(m)
      BY DEF D
    <2> QED BY <1>2, <1>3, <1>5, <1>u, <1>8, <1>12, <2>1, <2>2, <2>5, <2>10, <2>11, <2>12
  <1> QED BY <1>11, <1>12

\* What the end of a cleanup tells is true, also when it failed or could not
\* give the lock back.
LEMMA EndTrue ==
  ASSUME RecordInv, NEW m \in Maintainers, TellEnd(m)
  PROVE  ToldTruly
  <1> DEFINE job == maintenance[m]
             D == Deleted(m)
  <1>1. /\ IInv /\ maintenance \in [Maintainers -> Maintenance]
        /\ maintenance' = [maintenance EXCEPT ![m] = NoMaintenance]
    BY Parts DEF RecordInv, TellEnd, EndMaintenance, IInv
  <1>2. job.state = "releasing" /\ job.todo \subseteq job.candidates
    BY <1>1 DEF TellEnd, EndMaintenance, IInv, Cleaning, Typing, DatasetTypeOK
  <1>3. PICK y \in Outcomes(m) : told' = y \/ told' = ReleaseFailed(y)
    BY DEF TellEnd
  <1>4. D \cup job.todo = job.candidates
    BY <1>2 DEF Deleted
  <1>5. \A n \in Maintainers :
          maintenance[n].state # "idle" /\ maintenance'[n].state = "idle" => n = m
    BY <1>1
  <1>6. CASE job.todo # {}
    <2>1. y = Error("cleanup_failed", D, job.todo) \/ y = Stopped
      BY <1>3, <1>6 DEF Outcomes, CleanupFailed
    <2>2. \/ told' = Error("cleanup_failed", D, job.todo) \/ told' = Stopped
          \/ told' = Error("lock_release_failed", D, job.todo)
          \/ told' = Error("lock_release_failed", {}, {})
      BY <1>3, <2>1 DEF ReleaseFailed, Error, Stopped
    <2> HIDE DEF D, job
    <2>3. \/ told'.kind = "stopped"
          \/ /\ told'.kind = "error" /\ told'.code = "cleanup_failed"
             /\ told'.deleted = D /\ told'.remaining = job.todo
          \/ /\ told'.kind = "error" /\ told'.code = "lock_release_failed"
             /\ told'.deleted \in {D, {}} /\ ~told'.retryable
      <3>1. ASSUME NEW code, NEW deleted, NEW remaining, told' = Error(code, deleted, remaining)
            PROVE  /\ told'.kind = "error" /\ told'.code = code /\ told'.deleted = deleted
                   /\ told'.remaining = remaining
                   /\ told'.retryable = (code = "lock_unavailable")
        BY <3>1 DEF Error
      <3>2. CASE told' = Error("cleanup_failed", D, job.todo)
        BY <3>1, <3>2
      <3>3. CASE \/ told' = Error("lock_release_failed", D, job.todo)
                 \/ told' = Error("lock_release_failed", {}, {})
        <4>1. told'.retryable = ("lock_release_failed" = "lock_unavailable")
          BY <3>1, <3>3
        <4> QED BY <3>1, <3>3, <4>1
      <3>4. CASE told' = Stopped
        BY <3>4 DEF Stopped
      <3> QED BY <2>2, <3>2, <3>3, <3>4
    <2>4. told'.kind \notin {"refused", "result"}
      BY <2>3
    <2>5. AnswersUnlessCut /\ LineageTold /\ CleansUpToLimits /\ UndisturbedTold
      BY <2>3, <2>4 DEF AnswersUnlessCut, LineageTold, CleansUpToLimits, UndisturbedTold
    <2>6. DeletionsTold
      BY <1>4, <1>5, <2>3 DEF DeletionsTold, D, job
    <2> QED BY <2>5, <2>6 DEF ToldTruly
  <1>7. CASE job.todo = {}
    <2>1. y \in Verification(m)
      BY <1>3, <1>7 DEF Outcomes
    <2>2. /\ y.kind \in {"result", "refused"}
          /\ y.kind = "refused" => Overflowing
          /\ y.kind = "result" =>
               /\ ~y.dry_run
               /\ y.deleted = Deleted(m) /\ y.deleted \cap Artifacts = {}
               /\ Artifacts \subseteq y.remaining \/ "artifact_limit_exceeded" \in y.warnings
               /\ y.status \notin {"blocked", "empty"} /\ y.current # NoGeneration =>
                    /\ Beyond(y.reachable, y.current) = NoGeneration
                    /\ Range(y.reachable) \cup y.unreachable = Present
               /\ y.status = "blocked" => y.warnings \cap Limits # {} \/ pointer = NoGeneration
      BY <1>1, <1>2, <1>7, <2>1, VerifiedTrue
    <2> HIDE DEF D, job
    <2>3. CASE told' = y
      <3>1. AnswersUnlessCut /\ LineageTold /\ CleansUpToLimits /\ UndisturbedTold
        BY <2>2, <2>3 DEF AnswersUnlessCut, LineageTold, CleansUpToLimits, Limits,
                          UndisturbedTold
      <3>2. DeletionsTold
        BY <1>5, <2>2, <2>3 DEF DeletionsTold
      <3> QED BY <3>1, <3>2 DEF ToldTruly
    <2>4. CASE told' = ReleaseFailed(y)
      <3>1. /\ told'.kind = "error" /\ told'.code = "lock_release_failed"
            /\ told'.deleted \in {D, {}} /\ ~told'.retryable
        BY <2>2, <2>4 DEF ReleaseFailed, Error, D
      <3>2. AnswersUnlessCut /\ LineageTold /\ CleansUpToLimits /\ UndisturbedTold
        BY <3>1 DEF AnswersUnlessCut, LineageTold, CleansUpToLimits, UndisturbedTold
      <3>3. DeletionsTold
        BY <1>5, <3>1 DEF DeletionsTold, D
      <3> QED BY <3>2, <3>3 DEF ToldTruly
    <2> QED BY <1>3, <2>3, <2>4
  <1> QED BY <1>6, <1>7

\* No other step tells of a cleanup.
LEMMA OthersTrue ==
  ASSUME RecordInv,
         \/ \E m \in Maintainers : TellUnlocked(m)
         \/ ListRoot \/ LookForCurrent \/ LookAt \/ ListGenerations
         \/ Silent \/ RecordDies
  PROVE  ToldTruly
  <1>1. ASSUME NEW m \in Maintainers, TellUnlocked(m) PROVE ToldTruly
    <2>1. /\ told'.kind = "error" /\ UNCHANGED maintenance
          /\ told'.code \in {"lock_unavailable", "lock_acquisition_failed",
                             "lock_contract_violation"}
      BY <1>1 DEF TellUnlocked, Error, recordVars, datasetVars
    <2> QED BY <2>1 DEF ToldTruly, AnswersUnlessCut, DeletionsTold, LineageTold,
                        CleansUpToLimits, UndisturbedTold
  <1>2. CASE told' = Silence
    <2>1. told'.kind = "none"
      BY <1>2 DEF Silence
    <2> QED BY <2>1 DEF ToldTruly, AnswersUnlessCut, DeletionsTold, LineageTold,
                        CleansUpToLimits, UndisturbedTold
  <1> QED BY <1>1, <1>2 DEF ListRoot, LookForCurrent, LookAt, ListGenerations, Silent, RecordDies

\* Listing and telling change nothing of what the operations do.
THEOREM RecordsFollow == RecordSpec => DatasetSpec
  <1>1. RecordInit => DatasetInit
    BY DEF RecordInit
  <1>2. [RecordNext]_<<recordVars, told>> => [DatasetNext]_datasetVars
    BY RecordStepIsStep DEF recordVars
  <1> QED BY <1>1, <1>2, PTL DEF RecordSpec, DatasetSpec

\* What maintenance tells is what it found and did: it is refused by its own
\* record only after a cut listing or an overtaken dry run, it names what was
\* deleted, accounts for every generation, and a cleanup blocks at its limits
\* only; so does a dry run that nobody disturbed, which tells just what an
\* inspection under the lock would.
THEOREM MaintenanceTellsTruly == RecordSpec => MaintenanceToldTruly
  <1>1. RecordInit => RecordInv
    BY InvInit, NotListedOK DEF RecordInit, RecordInv
  <1>2. RecordInv /\ [RecordNext]_<<recordVars, told>> => [ToldTruly]_<<recordVars, told>>
    BY EndTrue, DryRunTrue, NothingTrue, OthersTrue DEF RecordNext
  <1>3. RecordSpec => [][ToldTruly]_<<recordVars, told>>
    BY <1>1, <1>2, RecordInvStep, PTL DEF RecordSpec
  <1> QED BY <1>3 DEF MaintenanceToldTruly, ToldTruly

-----------------------------------------------------------------------------
(* The file repository alone, with readers and without locks               *)

USE DEF disk, MaybeGeneration, MaybeContent

-----------------------------------------------------------------------------
(* Type correctness                                                        *)

\* TypeOK, and that a reader in a call has a generation.
FilesTyping ==
  /\ TypeOK
  /\ \A r \in Readers :
       reader[r].state # "idle" => reader[r].generation \in GenerationIds

LEMMA TypeInit == Init => FilesTyping
  BY RepositoryAssumption
  DEF Init, FilesTyping, TypeOK, Directory, NoDirectory, Publisher, NotPublishing, Reader,
      NotReading

LEMMA PublishType ==
  ASSUME TypeOK, NEW p \in Publishers, PublishStep(p)
  PROVE  TypeOK'
  <1> USE DEF TypeOK, Directory, NoDirectory, Publisher, NotPublishing, Step
  <1>1. CASE CreateStaging(p)
    BY <1>1 DEF CreateStaging
  <1>2. CASE WriteParquet(p)
    BY <1>2 DEF WriteParquet
  <1>3. CASE WriteManifest(p)
    BY <1>3 DEF WriteManifest
  <1>4. CASE PublishStaging(p)
    BY <1>4 DEF PublishStaging
  <1>5. CASE WriteTemporary(p)
    BY <1>5 DEF WriteTemporary
  <1>6. CASE ReplaceCurrentPointer(p)
    BY <1>6 DEF ReplaceCurrentPointer
  <1>7. CASE PublishFails(p)
    BY <1>7 DEF PublishFails, Abandons
  <1> QED BY <1>1, <1>2, <1>3, <1>4, <1>5, <1>6, <1>7 DEF PublishStep

LEMMA CrashType ==
  ASSUME TypeOK, NEW p \in Publishers, Crash(p)
  PROVE  TypeOK'
  <1> DEFINE m == Count(staging[p].exists)
             n == Count(temporary[p] # NoGeneration)
  <1>a. m \in Nat /\ n \in Nat
    BY DEF Count
  <1>b. stale.staging \in Nat /\ stale.temporaries \in Nat
    BY RepositoryAssumption DEF TypeOK
  <1>c. /\ stale' = [staging |-> stale.staging + m,
                     temporaries |-> stale.temporaries + n]
        /\ stale'.staging <= MaxStale /\ stale'.temporaries <= MaxStale
    BY DEF Crash, Abandons
  <1> HIDE DEF m, n
  <1>1. stale' \in [staging : 0..MaxStale, temporaries : 0..MaxStale]
    BY <1>a, <1>b, <1>c, RepositoryAssumption
  <1>2. /\ publisher' = [publisher EXCEPT ![p] = NotPublishing]
        /\ staging' = [staging EXCEPT ![p] = NoDirectory]
        /\ temporary' = [temporary EXCEPT ![p] = NoGeneration]
        /\ UNCHANGED <<generations, pointer, reader>>
    BY DEF Crash, Abandons
  <1>3. NoDirectory \in Directory /\ NotPublishing \in Publisher
    BY DEF Directory, NoDirectory, Publisher, NotPublishing
  <1> QED BY <1>1, <1>2, <1>3 DEF TypeOK

LEMMA ReadType ==
  ASSUME FilesTyping, NEW r \in Readers, ReadStep(r)
  PROVE  FilesTyping'
  <1> USE DEF FilesTyping, TypeOK, Directory, Reader, NotReading
  <1>1. CASE ReadPointer(r)
    BY <1>1 DEF ReadPointer
  <1>2. CASE ReadManifest(r)
    <2> DEFINE dir == generations[reader[r].generation]
               good == [reader[r] EXCEPT !.state = "parquet",
                                         !.manifest = dir.manifest]
               bad  == [reader[r] EXCEPT !.state = "failed"]
    <2>1. reader[r].generation \in GenerationIds /\ dir.manifest \in MaybeContent
      BY <1>2 DEF ReadManifest
    <2>2. good \in Reader /\ good.generation = reader[r].generation
      BY <2>1
    <2>3. bad \in Reader /\ bad.generation = reader[r].generation
      OBVIOUS
    <2>4. \/ reader' = [reader EXCEPT ![r] = good]
          \/ reader' = [reader EXCEPT ![r] = bad]
      BY <1>2 DEF ReadManifest
    <2> HIDE DEF good, bad
    <2> QED BY <1>2, <2>1, <2>2, <2>3, <2>4 DEF ReadManifest
  <1>3. CASE ReadParquet(r)
    BY <1>3 DEF ReadParquet
  <1> QED BY <1>1, <1>2, <1>3 DEF ReadStep

LEMMA TypeStep == FilesTyping /\ [Next]_vars => FilesTyping'
  <1> SUFFICES ASSUME FilesTyping, [Next]_vars PROVE FilesTyping'
    OBVIOUS
  <1>1. ASSUME NEW p \in Publishers, NEW g \in GenerationIds,
               NEW bars \in Contents, BeginPublish(p, g, bars)
        PROVE  FilesTyping'
    BY <1>1 DEF FilesTyping, TypeOK, BeginPublish, Publisher
  <1>2. ASSUME NEW p \in Publishers, PublishStep(p)
        PROVE  FilesTyping'
    <2>1. UNCHANGED reader
      BY <1>2 DEF PublishStep, CreateStaging, WriteParquet, WriteManifest,
                  PublishStaging, WriteTemporary, ReplaceCurrentPointer,
                  PublishFails, Abandons
    <2> QED BY <1>2, <2>1, PublishType DEF FilesTyping
  <1>3. ASSUME NEW p \in Publishers, Crash(p)
        PROVE  FilesTyping'
    BY <1>3, CrashType DEF FilesTyping, Crash, Abandons
  <1>4. CASE UNCHANGED vars
    BY <1>4 DEF FilesTyping, TypeOK, vars
  <1> QED BY <1>1, <1>2, <1>3, <1>4, ReadType DEF Next

\* Whatever fails or crashes, the directory and the calls keep their shape.
THEOREM FilesTypeCorrect == Spec => []TypeOK
  <1>1. FilesTyping => TypeOK
    BY DEF FilesTyping
  <1> QED BY TypeInit, TypeStep, <1>1, PTL DEF Spec

-----------------------------------------------------------------------------
(* The inductive invariant                                                 *)

\* What publisher p knows of the disk at each step of publish.
Publishing(p) ==
  /\ publisher[p].state # "idle" =>
       publisher[p].generation \in GenerationIds /\ publisher[p].bars \in Contents
  /\ publisher[p].state \in {"parquet", "manifest"} => staging[p].exists
  /\ publisher[p].state = "rename" => Verified(staging[p])
  /\ publisher[p].state \in {"temporary", "replace"} =>
       generations[publisher[p].generation].exists
  /\ temporary[p] # NoGeneration => generations[temporary[p]].exists

\* A directory under generations/ is whole or not there at all.
FilesWhole(g) ==
  /\ generations[g].exists => Verified(generations[g])
  /\ ~generations[g].exists => generations[g].parquet = NoContent

\* What reader r has read so far is still there.
Reading(r) ==
  /\ reader[r].state # "failed"
  /\ reader[r].state # "idle" => generations[reader[r].generation].exists
  /\ reader[r].state = "parquet" =>
       reader[r].manifest = generations[reader[r].generation].manifest

PublishersKnow == \A p \in Publishers : Publishing(p)
AllWhole       == \A g \in GenerationIds : FilesWhole(g)
PointerThere   == pointer # NoGeneration => generations[pointer].exists
ReadersKnow    == \A r \in Readers : Reading(r)

FilesIInv == FilesTyping /\ PublishersKnow /\ AllWhole /\ PointerThere /\ ReadersKnow

\* No step removes or changes a directory that is there.
FilesGrow == \A g \in GenerationIds :
           generations[g].exists => generations'[g] = generations[g]

LEMMA FilesInitIInv == Init => FilesIInv
  BY TypeInit
  DEF Init, FilesIInv, PublishersKnow, Publishing, NotPublishing, AllWhole, FilesWhole,
      NoDirectory, PointerThere, ReadersKnow, Reading, NotReading

\* Only the renaming of a staging directory touches generations/.
LEMMA PublishGrows ==
  ASSUME FilesIInv, NEW p \in Publishers, PublishStep(p)
  PROVE  FilesGrow
  <1> USE DEF FilesGrow
  <1>1. CASE PublishStaging(p)
    BY <1>1 DEF PublishStaging, GenerationExists, FilesIInv, FilesTyping, TypeOK
  <1>2. CASE UNCHANGED generations
    BY <1>2
  <1> QED
    BY <1>1, <1>2
    DEF PublishStep, CreateStaging, WriteParquet, WriteManifest, WriteTemporary,
        ReplaceCurrentPointer, PublishFails, Abandons

\* What a publisher knows outlives the steps of the others.
LEMMA OthersKnow ==
  ASSUME FilesIInv, FilesGrow, NEW q \in Publishers,
         publisher'[q] = publisher[q], staging'[q] = staging[q],
         temporary'[q] = temporary[q]
  PROVE  Publishing(q)'
  <1>1. temporary[q] # NoGeneration => temporary[q] \in GenerationIds
    BY DEF FilesIInv, FilesTyping, TypeOK
  <1> QED BY <1>1 DEF FilesIInv, PublishersKnow, Publishing, FilesGrow, Verified

\* And so does what a reader knows.
LEMMA ReadersStill ==
  ASSUME FilesIInv, FilesGrow, UNCHANGED reader
  PROVE  ReadersKnow'
  BY DEF FilesIInv, FilesTyping, FilesGrow, ReadersKnow, Reading

\* A step of publish leaves the publisher with what the next one needs.
LEMMA PublisherKnows ==
  ASSUME FilesIInv, NEW p \in Publishers, PublishStep(p)
  PROVE  Publishing(p)'
  <1> USE DEF Step, Publishing
  <1>1. /\ Publishing(p)
        /\ publisher \in [Publishers -> Publisher]
        /\ staging \in [Publishers -> Directory]
        /\ temporary \in [Publishers -> MaybeGeneration]
        /\ generations \in [GenerationIds -> Directory]
    BY DEF FilesIInv, PublishersKnow, FilesTyping, TypeOK
  <1>2. CASE CreateStaging(p)
    BY <1>1, <1>2
    DEF CreateStaging, Publisher, Directory, NoDirectory, Verified
  <1>3. CASE WriteParquet(p)
    BY <1>1, <1>3 DEF WriteParquet, Publisher, Directory, Verified
  <1>4. CASE WriteManifest(p)
    BY <1>1, <1>4, RepositoryAssumption
    DEF WriteManifest, Publisher, Directory, Verified
  <1>5. CASE PublishStaging(p)
    BY <1>1, <1>5, PublishGrows
    DEF PublishStaging, Publisher, Directory, NoDirectory, Verified, FilesGrow
  <1>6. CASE WriteTemporary(p)
    BY <1>1, <1>6 DEF WriteTemporary, Publisher, Verified
  <1>7. CASE ReplaceCurrentPointer(p)
    BY <1>1, <1>7 DEF ReplaceCurrentPointer, Publisher, NotPublishing, Verified
  <1>8. CASE PublishFails(p)
    BY <1>1, <1>8 DEF PublishFails, Abandons, Publisher, NotPublishing, Verified
  <1> QED
    BY <1>2, <1>3, <1>4, <1>5, <1>6, <1>7, <1>8 DEF PublishStep

\* What becomes visible under generations/ is whole.
LEMMA PublishWhole ==
  ASSUME FilesIInv, NEW p \in Publishers, PublishStep(p)
  PROVE  AllWhole'
  <1>1. CASE PublishStaging(p)
    <2>1. Verified(staging[p]) /\ publisher[p].generation \in GenerationIds
      BY <1>1 DEF FilesIInv, PublishersKnow, Publishing, PublishStaging, Step
    <2> QED
      BY <1>1, <2>1
      DEF PublishStaging, FilesIInv, AllWhole, FilesWhole, FilesTyping, TypeOK, Verified
  <1>2. CASE UNCHANGED generations
    BY <1>2 DEF FilesIInv, AllWhole, FilesWhole, Verified
  <1> QED
    BY <1>1, <1>2
    DEF PublishStep, CreateStaging, WriteParquet, WriteManifest, WriteTemporary,
        ReplaceCurrentPointer, PublishFails, Abandons

\* The pointer is replaced by a generation that is there.
LEMMA PublishPointer ==
  ASSUME FilesIInv, NEW p \in Publishers, PublishStep(p)
  PROVE  PointerThere'
  <1>1. pointer # NoGeneration => pointer \in GenerationIds
    BY DEF FilesIInv, FilesTyping, TypeOK
  <1>2. CASE UNCHANGED pointer
    BY <1>1, <1>2, PublishGrows DEF FilesIInv, PointerThere, FilesGrow
  <1>3. CASE ReplaceCurrentPointer(p)
    BY <1>3
    DEF ReplaceCurrentPointer, FilesIInv, PublishersKnow, Publishing, PointerThere
  <1> QED
    BY <1>2, <1>3
    DEF PublishStep, CreateStaging, WriteParquet, WriteManifest, PublishStaging,
        WriteTemporary, PublishFails, Abandons

\* A step of publish is invisible to the other calls but for what it adds.
LEMMA PublishFrame ==
  ASSUME FilesIInv, NEW p \in Publishers, PublishStep(p)
  PROVE  /\ UNCHANGED reader
         /\ \A q \in Publishers \ {p} :
              /\ publisher'[q] = publisher[q]
              /\ staging'[q] = staging[q]
              /\ temporary'[q] = temporary[q]
  BY DEF FilesIInv, FilesTyping, TypeOK, Step, PublishStep, CreateStaging, WriteParquet,
         WriteManifest, PublishStaging, WriteTemporary, ReplaceCurrentPointer,
         PublishFails, Abandons

LEMMA PublishStepIInv ==
  ASSUME FilesIInv, NEW p \in Publishers, PublishStep(p)
  PROVE  FilesIInv'
  <1>1. FilesTyping'
    BY TypeStep DEF FilesIInv, Next
  <1>2. PublishersKnow'
    BY PublishGrows, PublisherKnows, PublishFrame, OthersKnow DEF PublishersKnow
  <1>3. ReadersKnow'
    BY PublishGrows, PublishFrame, ReadersStill
  <1> QED BY <1>1, <1>2, <1>3, PublishWhole, PublishPointer DEF FilesIInv

\* A crash leaves generations/ and current.json as they are.
LEMMA CrashIInv ==
  ASSUME FilesIInv, NEW p \in Publishers, Crash(p)
  PROVE  FilesIInv'
  <1>1. FilesTyping'
    BY TypeStep DEF FilesIInv, Next
  <1>2. UNCHANGED <<generations, pointer, reader>>
    BY DEF Crash, Abandons
  <1>3. Publishing(p)'
    BY DEF Crash, Abandons, Publishing, NotPublishing, FilesIInv, FilesTyping, TypeOK
  <1>4. ASSUME NEW q \in Publishers \ {p} PROVE Publishing(q)'
    BY <1>2, OthersKnow DEF Crash, Abandons, FilesIInv, FilesTyping, TypeOK, FilesGrow
  <1>5. AllWhole' /\ PointerThere' /\ ReadersKnow'
    BY <1>2
    DEF FilesIInv, AllWhole, FilesWhole, Verified, PointerThere, ReadersKnow, Reading
  <1> QED BY <1>1, <1>3, <1>4, <1>5 DEF FilesIInv, PublishersKnow

LEMMA BeginIInv ==
  ASSUME FilesIInv, NEW p \in Publishers, NEW g \in GenerationIds,
         NEW bars \in Contents, BeginPublish(p, g, bars)
  PROVE  FilesIInv'
  <1>1. FilesTyping'
    BY TypeStep DEF FilesIInv, Next
  <1>2. UNCHANGED <<disk, reader>>
    BY DEF BeginPublish
  <1>3. Publishing(p)'
    BY <1>2
    DEF BeginPublish, Publishing, FilesIInv, PublishersKnow, FilesTyping, TypeOK
  <1>4. ASSUME NEW q \in Publishers \ {p} PROVE Publishing(q)'
    BY <1>2, OthersKnow DEF BeginPublish, FilesIInv, FilesTyping, TypeOK, FilesGrow
  <1>5. AllWhole' /\ PointerThere' /\ ReadersKnow'
    BY <1>2
    DEF FilesIInv, AllWhole, FilesWhole, Verified, PointerThere, ReadersKnow, Reading
  <1> QED BY <1>1, <1>3, <1>4, <1>5 DEF FilesIInv, PublishersKnow

\* A reader finds what the pointer, and then the manifest, promised.
LEMMA ReaderKnows ==
  ASSUME FilesIInv, NEW r \in Readers, ReadStep(r)
  PROVE  Reading(r)'
  <1> USE DEF Reading, NotReading
  <1>1. /\ reader \in [Readers -> Reader]
        /\ Reading(r)
        /\ reader[r].state # "idle" => reader[r].generation \in GenerationIds
    BY DEF FilesIInv, FilesTyping, TypeOK, ReadersKnow
  <1>2. UNCHANGED generations
    BY DEF ReadStep, ReadPointer, ReadManifest, ReadParquet
  <1>3. CASE ReadPointer(r)
    BY <1>1, <1>2, <1>3 DEF ReadPointer, FilesIInv, PointerThere
  <1>4. ASSUME reader[r].state \in {"manifest", "parquet"}
        PROVE  Verified(generations[reader[r].generation])
    BY <1>1, <1>4 DEF FilesIInv, AllWhole, FilesWhole
  <1>5. CASE ReadManifest(r)
    <2> DEFINE good == [reader[r] EXCEPT
                          !.state = "parquet",
                          !.manifest = generations[reader[r].generation].manifest]
    <2>1. reader' = [reader EXCEPT ![r] = good]
      BY <1>4, <1>5 DEF ReadManifest, Verified
    <2>2. /\ good.state = "parquet"
          /\ good.generation = reader[r].generation
          /\ good.manifest = generations[reader[r].generation].manifest
      BY <1>1 DEF Reader
    <2>3. reader'[r] = good
      BY <1>1, <2>1
    <2> HIDE DEF good
    <2> QED BY <1>1, <1>2, <1>5, <2>2, <2>3 DEF ReadManifest
  <1>6. CASE ReadParquet(r)
    BY <1>1, <1>4, <1>6 DEF ReadParquet, Verified
  <1> QED BY <1>3, <1>5, <1>6 DEF ReadStep

LEMMA ReadIInv ==
  ASSUME FilesIInv, NEW r \in Readers, ReadStep(r)
  PROVE  FilesIInv'
  <1>1. FilesTyping'
    BY TypeStep DEF FilesIInv, Next
  <1>2. UNCHANGED <<disk, publisher>>
    BY DEF ReadStep, ReadPointer, ReadManifest, ReadParquet
  <1>3. ASSUME NEW q \in Readers \ {r} PROVE reader'[q] = reader[q]
    BY DEF ReadStep, ReadPointer, ReadManifest, ReadParquet, FilesIInv, FilesTyping, TypeOK
  <1>4. ReadersKnow'
    BY <1>2, <1>3, ReaderKnows DEF FilesIInv, ReadersKnow, Reading
  <1>5. PublishersKnow' /\ AllWhole' /\ PointerThere'
    BY <1>2
    DEF FilesIInv, PublishersKnow, Publishing, AllWhole, FilesWhole, Verified, PointerThere
  <1> QED BY <1>1, <1>4, <1>5 DEF FilesIInv

LEMMA FilesNextIInv == FilesIInv /\ [Next]_vars => FilesIInv'
  <1> SUFFICES ASSUME FilesIInv, [Next]_vars PROVE FilesIInv'
    OBVIOUS
  <1>1. CASE UNCHANGED vars
    <2>1. FilesTyping'
      BY TypeStep DEF FilesIInv
    <2> QED
      BY <1>1, <2>1
      DEF vars, FilesIInv, PublishersKnow, Publishing, AllWhole, FilesWhole, Verified,
          PointerThere, ReadersKnow, Reading
  <1>2. CASE Next
    BY <1>2, BeginIInv, PublishStepIInv, CrashIInv, ReadIInv DEF Next
  <1> QED BY <1>1, <1>2

THEOREM FilesInvariant == Spec => []FilesIInv
  BY FilesInitIInv, FilesNextIInv, PTL DEF Spec

-----------------------------------------------------------------------------
(* What it gives                                                           *)

\* A generation that can be listed can be loaded, at every step of every
\* publication and after every crash.
THEOREM GenerationsComplete == Spec => []EveryGenerationComplete
  <1>1. FilesIInv => EveryGenerationComplete
    BY DEF FilesIInv, AllWhole, FilesWhole, EveryGenerationComplete
  <1> QED BY FilesInvariant, <1>1, PTL

\* current.json never names a generation that cannot be loaded.
THEOREM PointerSound == Spec => []CurrentComplete
  <1>1. FilesIInv => CurrentComplete
    BY DEF FilesIInv, FilesTyping, TypeOK, AllWhole, FilesWhole, PointerThere, CurrentComplete
  <1> QED BY FilesInvariant, <1>1, PTL

\* load_current never fails because someone publishes while it reads.
THEOREM ReadersNeverFail == Spec => []ReadsSucceed
  <1>1. FilesIInv => ReadsSucceed
    BY DEF FilesIInv, ReadersKnow, Reading, ReadsSucceed
  <1> QED BY FilesInvariant, <1>1, PTL

-----------------------------------------------------------------------------
(* The directory implements the register of generations                    *)

\* Init of the directory is Init of the register.
LEMMA StoreInit == Init => Store!Init
  BY DEF Init, Store!Init, NoDirectory

\* The two steps a reader can see; every other step is a stutter.
LEMMA StoreStep == FilesIInv /\ [Next]_vars => [Store!Next]_(Store!vars)
  <1> SUFFICES ASSUME FilesIInv, [Next]_vars PROVE [Store!Next]_(Store!vars)
    OBVIOUS
  <1> USE DEF Store!vars
  <1>1. CASE UNCHANGED <<generations, pointer>>
    BY <1>1
  <1>2. ASSUME NEW p \in Publishers, PublishStaging(p)
        PROVE  Store!Next
    <2>1. publisher[p].generation \in GenerationIds /\ Verified(staging[p])
      BY <1>2 DEF FilesIInv, PublishersKnow, Publishing, PublishStaging, Step
    <2>2. staging[p].parquet \in Contents
      BY <2>1 DEF FilesIInv, FilesTyping, TypeOK, Directory, Verified
    <2>3. PICK g \in GenerationIds, bars \in Contents :
            g = publisher[p].generation /\ bars = staging[p].parquet
      BY <2>1, <2>2
    <2>4. generations[g].parquet = NoContent
      BY <1>2, <2>3
      DEF PublishStaging, GenerationExists, FilesIInv, AllWhole, FilesWhole
    <2>5. generations' = [generations EXCEPT ![g] = staging[p]]
          /\ UNCHANGED pointer
      BY <1>2, <2>3 DEF PublishStaging
    <2>6. Store!Store(g, bars)
      BY <2>3, <2>4, <2>5 DEF Store!Store, FilesIInv, FilesTyping, TypeOK
    <2> QED BY <2>6 DEF Store!Next
  <1>3. ASSUME NEW p \in Publishers, ReplaceCurrentPointer(p), pointer' # pointer
        PROVE  Store!Next
    <2>1. temporary[p] \in GenerationIds /\ generations[temporary[p]].exists
      BY <1>3
      DEF ReplaceCurrentPointer, FilesIInv, PublishersKnow, Publishing, FilesTyping, TypeOK
    <2>2. PICK g \in GenerationIds : g = temporary[p] /\ generations[g].exists
      BY <2>1
    <2>3. generations[g].parquet # NoContent
      BY <2>2, RepositoryAssumption DEF FilesIInv, AllWhole, FilesWhole, Verified
    <2>4. Store!Activate(g)
      BY <1>3, <2>2, <2>3 DEF ReplaceCurrentPointer, Store!Activate
    <2> QED BY <2>4 DEF Store!Next
  <1>4. ASSUME NEW p \in Publishers, PublishStep(p)
        PROVE  [Store!Next]_(Store!vars)
    <2>1. CASE ReplaceCurrentPointer(p)
      BY <1>1, <1>3, <2>1 DEF ReplaceCurrentPointer
    <2> QED
      BY <1>1, <1>2, <1>4, <2>1
      DEF PublishStep, CreateStaging, WriteParquet, WriteManifest,
          WriteTemporary, PublishFails, Abandons
  <1>5. ASSUME NEW p \in Publishers, Crash(p)
        PROVE  UNCHANGED <<generations, pointer>>
    BY <1>5 DEF Crash, Abandons
  <1>6. ASSUME NEW p \in Publishers, NEW g \in GenerationIds,
               NEW bars \in Contents, BeginPublish(p, g, bars)
        PROVE  UNCHANGED <<generations, pointer>>
    BY <1>6 DEF BeginPublish
  <1>7. ASSUME NEW r \in Readers, ReadStep(r)
        PROVE  UNCHANGED <<generations, pointer>>
    BY <1>7 DEF ReadStep, ReadPointer, ReadManifest, ReadParquet
  <1>8. CASE UNCHANGED vars
    BY <1>1, <1>8 DEF vars
  <1> QED BY <1>1, <1>4, <1>5, <1>6, <1>7, <1>8 DEF Next

\* To its readers the directory is a register of immutable generations, each
\* of which appears at once and is activated at once.
THEOREM FilesImplement == Spec => ImplementsStore
  BY FilesInvariant, StoreInit, StoreStep, PTL DEF Spec, ImplementsStore, Store!Spec
=============================================================================
