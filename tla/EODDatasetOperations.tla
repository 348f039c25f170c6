------------------------ MODULE EODDatasetOperations ------------------------
(***************************************************************************)
(* The operations of one process on one EOD dataset: updates (the batch    *)
(* coordinator around the incremental coordinator, the full refresh; in    *)
(* market_data/batch.py, coordinator.py, full_refresh.py) and repository   *)
(* maintenance (maintenance.py).  They run in threads that share an        *)
(* InProcessEODDatasetLockManager, on the files of EODFileRepository.      *)
(*                                                                         *)
(* What an update computes its bars from is the generation it loaded (its  *)
(* base); planning, fetching and merging between the load and the          *)
(* publication are one step that yields some content or fails.  What       *)
(* maintenance tells, and its dry runs, are in EODMaintenanceRecords.      *)
(***************************************************************************)
EXTENDS EODFileRepository

CONSTANTS
  Maintainers,    \* threads that run repository maintenance
  NoThread,
  MaxArtifacts,   \* MAX_EOD_REPOSITORY_MAINTENANCE_ARTIFACTS
  MaxLineage      \* MAX_EOD_GENERATION_LINEAGE_DEPTH

VARIABLES
  holder,        \* the thread whose acquire put the key into _held_keys
  update,        \* update[p]: the update that thread p executes
  maintenance    \* maintenance[m]: the maintenance that thread m executes

datasetVars == <<vars, holder, update, maintenance>>

\* Stale artifacts are numbered; those of a publisher bear its name.
ASSUME MaintenanceAssumption ==
  /\ RepositoryAssumption
  /\ Publishers \cap Maintainers = {}
  /\ NoThread \notin Publishers \cup Maintainers
  /\ Publishers \cap 1..MaxStale = {}
  /\ MaxArtifacts \in Nat \ {0} /\ MaxLineage \in Nat \ {0}

Threads == Publishers \cup Maintainers

Update == [state : {"idle", "loading", "merging", "publishing", "releasing",
                    "mismatch"},
           base : GenerationIds \cup {NoGeneration}]
NoUpdate == [state |-> "idle", base |-> NoGeneration]

\* A staging directory or a pointer temporary: that of a publisher, or the
\* n-th one that no call owns any more.
Owners   == Publishers \cup 1..MaxStale
Artifact == {"staging", "temporary"} \X Owners

Artifacts ==
  {<<"staging", p>>   : p \in {p \in Publishers : staging[p].exists}} \cup
  {<<"temporary", p>> : p \in {p \in Publishers : temporary[p] # NoGeneration}} \cup
  {<<"staging", n>>   : n \in 1..stale.staging} \cup
  {<<"temporary", n>> : n \in 1..stale.temporaries}

\* The protected fingerprint: current.json and the files of every generation.
Fingerprint == [current |-> pointer, complete |-> generations]
NoFingerprint == [current |-> NoGeneration,
                  complete |-> [g \in GenerationIds |-> NoDirectory]]

NoMaintenance == [state |-> "idle", candidates |-> {}, todo |-> {},
                  fingerprint |-> NoFingerprint]

DatasetTypeOK ==
  /\ TypeOK
  /\ holder \in Threads \cup {NoThread}
  /\ update \in [Publishers -> Update]
  /\ \A m \in Maintainers :
       /\ maintenance[m].state \in {"idle", "inspecting", "deleting",
                                    "releasing", "unverified"}
       /\ maintenance[m].candidates \subseteq Artifact
       /\ maintenance[m].todo \subseteq maintenance[m].candidates

DatasetInit ==
  /\ Init
  /\ holder = NoThread
  /\ update = [p \in Publishers |-> NoUpdate]
  /\ maintenance = [m \in Maintainers |-> NoMaintenance]

-----------------------------------------------------------------------------
(* The dataset lock: acquire never waits; release does not look at who     *)
(* acquired.                                                               *)

Acquire(t) == holder = NoThread /\ holder' = t

Release == holder # NoThread /\ holder' = NoThread

-----------------------------------------------------------------------------
(* Updates                                                                 *)

UpdateStep(p, from, to) ==
  /\ update[p].state = from
  /\ update' = [update EXCEPT ![p].state = to]

BeginUpdate(p) ==
  /\ UpdateStep(p, "idle", "loading")
  /\ Acquire(p)
  /\ UNCHANGED <<vars, maintenance>>

\* Mutant of LoadCurrent: the lock is held for the load alone.
LoadCurrent_Releases(p) ==
  /\ update[p].state = "loading"
  /\ update' = [update EXCEPT ![p] = [state |-> "merging", base |-> pointer]]
  /\ Release
  /\ UNCHANGED <<vars, maintenance>>

LoadCurrent(p) ==
  /\ update[p].state = "loading"
  /\ update' = [update EXCEPT ![p] = [state |-> "merging", base |-> pointer]]
  /\ UNCHANGED <<vars, holder, maintenance>>

\* Loading, planning, fetching or validating fails, nothing needs to be
\* fetched, the content is unchanged, or a checkpoint refuses to go on.
EndsUnpublished(p) ==
  /\ UpdateStep(p, "loading", "releasing") \/ UpdateStep(p, "merging", "releasing")
  /\ UNCHANGED <<vars, holder, maintenance>>

\* A candidate with the content of its base is not published.
Publish(p) ==
  /\ UpdateStep(p, "merging", "publishing")
  /\ \E g \in GenerationIds, bars \in Contents :
       /\ update[p].base # NoGeneration =>
            bars # generations[update[p].base].manifest
       /\ BeginPublish(p, g, bars)
  /\ UNCHANGED <<holder, maintenance>>

WriteFiles(p) ==
  /\ update[p].state = "publishing"
  /\ \/ CreateStaging(p) \/ WriteParquet(p) \/ WriteManifest(p)
     \/ PublishStaging(p) \/ WriteTemporary(p)
  /\ UNCHANGED <<holder, update, maintenance>>

\* _validate_published_manifest comes after the activation.
Activate(p) ==
  /\ ReplaceCurrentPointer(p)
  /\ UpdateStep(p, "publishing",
        IF publisher[p].previous = update[p].base THEN "releasing" ELSE "mismatch")
  /\ UNCHANGED <<holder, maintenance>>

PublicationFails(p) ==
  /\ UpdateStep(p, "publishing", "releasing")
  /\ PublishFails(p) \/ Crash(p)
  /\ UNCHANGED <<holder, maintenance>>

EndUpdate(p) ==
  /\ update[p].state \in {"releasing", "mismatch"}
  /\ update' = [update EXCEPT ![p] = NoUpdate]
  /\ Release
  /\ UNCHANGED <<vars, maintenance>>

-----------------------------------------------------------------------------
(* Maintenance                                                             *)

\* The first n generations on the way back from the current one; every one
\* was loaded, and none is met twice.
Lineage(n) ==
  {c \in [1..n -> {g \in GenerationIds : Verified(generations[g])}] :
     /\ c[1] = pointer
     /\ \A i \in 1..(n-1) : c[i+1] = generations[c[i]].previous
     /\ \A i, j \in 1..n : c[i] = c[j] => i = j}

WholeLineage ==
  \E n \in 1..MaxLineage : \E c \in Lineage(n) :
    generations[c[n]].previous = NoGeneration

Present == {g \in GenerationIds : generations[g].exists}

\* The children of the dataset directory, with generations/ and current.json,
\* and those of generations/, are counted against one limit.
TooMany ==
  \/ Cardinality(Artifacts) + Count(pointer # NoGeneration) + 1 > MaxArtifacts
  \/ Cardinality(Artifacts) + Cardinality(Present) > MaxArtifacts

Blocked ==
  \/ TooMany
  \/ \E g \in Present : ~Verified(generations[g])
  \/ pointer = NoGeneration /\ Present # {}
  \/ pointer # NoGeneration /\ ~WholeLineage

MaintenanceStep(m, from, to) ==
  /\ maintenance[m].state = from
  /\ maintenance' = [maintenance EXCEPT ![m].state = to]

\* Mutant of BeginMaintenance: runs without the lock of the dataset.
BeginMaintenance_Unlocked(m) ==
  /\ MaintenanceStep(m, "idle", "inspecting")
  /\ UNCHANGED <<vars, holder, update>>

BeginMaintenance(m) ==
  /\ MaintenanceStep(m, "idle", "inspecting")
  /\ Acquire(m)
  /\ UNCHANGED <<vars, update>>

\* `kinds` is what the request asks to clean up.
Inspect(m, kinds) ==
  /\ ~Blocked
  /\ maintenance[m].state = "inspecting"
  /\ LET chosen == {a \in Artifacts : a[1] \in kinds} IN
       maintenance' = [maintenance EXCEPT ![m] =
         [state |-> "deleting", candidates |-> chosen, todo |-> chosen,
          fingerprint |-> Fingerprint]]
  /\ UNCHANGED <<vars, holder, update>>

InspectBlocked(m) ==
  /\ Blocked
  /\ MaintenanceStep(m, "inspecting", "releasing")
  /\ UNCHANGED <<vars, holder, update>>

\* An artifact that is not there any more is passed over.
Remove(a) ==
  /\ staging' = IF a[1] = "staging" /\ a[2] \in Publishers
                THEN [staging EXCEPT ![a[2]] = NoDirectory] ELSE staging
  /\ temporary' = IF a[1] = "temporary" /\ a[2] \in Publishers
                  THEN [temporary EXCEPT ![a[2]] = NoGeneration] ELSE temporary
  /\ stale' = [stale EXCEPT
         !.staging     = IF a = <<"staging", @>> THEN @ - 1 ELSE @,
         !.temporaries = IF a = <<"temporary", @>> THEN @ - 1 ELSE @]

\* Stale artifacts are interchangeable: the highest number goes first.
Delete(m) ==
  /\ maintenance[m].state = "deleting"
  /\ \E a \in maintenance[m].todo :
       /\ a[2] \notin Publishers =>
            \A n \in (a[2]+1)..MaxStale : <<a[1], n>> \notin maintenance[m].todo
       /\ Remove(a)
       /\ maintenance' = [maintenance EXCEPT ![m].todo = @ \ {a}]
  /\ UNCHANGED <<generations, pointer, publisher, reader, holder, update>>

\* A checkpoint refuses the next deletion, or it fails.
DeleteFails(m) ==
  /\ maintenance[m].todo # {}
  /\ MaintenanceStep(m, "deleting", "releasing")
  /\ UNCHANGED <<vars, holder, update>>

\* The second inspection: nothing but the candidates may have changed.
Verify(m) ==
  /\ maintenance[m].todo = {}
  /\ MaintenanceStep(m, "deleting",
       IF /\ ~Blocked
          /\ Fingerprint = maintenance[m].fingerprint
          /\ maintenance[m].candidates \cap Artifacts = {}
       THEN "releasing" ELSE "unverified")
  /\ UNCHANGED <<vars, holder, update>>

EndMaintenance(m) ==
  /\ maintenance[m].state \in {"releasing", "unverified"}
  /\ maintenance' = [maintenance EXCEPT ![m] = NoMaintenance]
  /\ Release
  /\ UNCHANGED <<vars, update>>

-----------------------------------------------------------------------------

\* Every thread ends, the lock is forgotten, the files stay.
ProcessDies ==
  /\ holder # NoThread
  /\ holder' = NoThread
  /\ update' = [p \in Publishers |-> NoUpdate]
  /\ maintenance' = [m \in Maintainers |-> NoMaintenance]
  /\ publisher' = [p \in Publishers |-> NotPublishing]
  /\ staging' = [p \in Publishers |-> NoDirectory]
  /\ temporary' = [p \in Publishers |-> NoGeneration]
  /\ stale' = [staging     |-> stale.staging +
                 Cardinality({p \in Publishers : staging[p].exists}),
               temporaries |-> stale.temporaries +
                 Cardinality({p \in Publishers : temporary[p] # NoGeneration})]
  /\ stale'.staging <= MaxStale /\ stale'.temporaries <= MaxStale
  /\ UNCHANGED <<generations, pointer, reader>>

UpdateNext(p) ==
  \/ BeginUpdate(p) \/ LoadCurrent(p) \/ EndsUnpublished(p) \/ Publish(p)
  \/ WriteFiles(p) \/ Activate(p) \/ PublicationFails(p) \/ EndUpdate(p)

MaintenanceNext(m) ==
  \/ BeginMaintenance(m) \/ InspectBlocked(m)
  \/ \E kinds \in SUBSET {"staging", "temporary"} : Inspect(m, kinds)
  \/ Delete(m) \/ DeleteFails(m) \/ Verify(m) \/ EndMaintenance(m)

DatasetNext ==
  \/ \E p \in Publishers : UpdateNext(p)
  \/ \E m \in Maintainers : MaintenanceNext(m)
  \/ ProcessDies

DatasetSpec == DatasetInit /\ [][DatasetNext]_datasetVars
-----------------------------------------------------------------------------
(* Properties                                                              *)

\* No update of the process is lost: an activation replaces the very
\* generation that its bars were merged with, and names it as the previous.
UpdatesBuildOnCurrent ==
  [][pointer' # pointer =>
       /\ generations'[pointer'].previous = pointer
       /\ \E p \in Publishers : /\ update[p].state = "publishing"
                                /\ update[p].base = pointer]_datasetVars

\* Maintenance removes what failed calls left behind, never the staging
\* directory or the temporary of a publication that is going on.
MaintenanceSparesPublications ==
  [][\A p \in Publishers : UNCHANGED publisher[p] =>
       /\ staging[p].exists => staging'[p].exists
       /\ temporary[p] # NoGeneration => temporary'[p] # NoGeneration]_datasetVars
=============================================================================
