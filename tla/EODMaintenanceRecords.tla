------------------------ MODULE EODMaintenanceRecords ------------------------
(***************************************************************************)
(* What repository maintenance tells about a dataset                       *)
(* (market_data/maintenance.py): the inspection, the result of a cleanup,  *)
(* its errors, and the dry run, which takes no lock and reads the          *)
(* directories of EODDatasetOperations, one read after the other, while    *)
(* updates and cleanups change them.  A result that its constructor        *)
(* refuses is a ValueError that leaves execute.                            *)
(*                                                                         *)
(* The lock keeps the files as the inspection found them but for the       *)
(* deleted artifacts, so what a cleanup tells is made from the files when  *)
(* it ends.  Dry runs change nothing: one at a time meets every step of    *)
(* the others.  They run in the process of the others.  One listing of one *)
(* directory (os.listdir) is one step.  Symbolic links and foreign files   *)
(* are left out.                                                           *)
(***************************************************************************)
EXTENDS EODDatasetOperations, Sequences, Functions

VARIABLES
  told,     \* what the last call told
  listing   \* what the dry run has read so far; the current one is loaded last

recordVars == <<datasetVars, listing>>

Silence == [kind |-> "none"]
Refused == [kind |-> "refused"]

Kinds == {"staging", "temporary"}

StaleCount(kind) == IF kind = "staging" THEN stale.staging ELSE stale.temporaries

\* A dry run before its first read.  `own` and `stale` are the entries of the
\* dataset directory that it listed and has not looked at: those of publishers,
\* and how many that no call owns.  `unsafe`: one of them went away.  `quiet`:
\* no thread has held the lock since it began.
NotListed ==
  [state |-> "idle", artifacts |-> {}, full |-> FALSE, available |-> FALSE,
   own |-> {}, stale |-> [kind \in Kinds |-> 0], unsafe |-> FALSE,
   can_load |-> FALSE, overflow |-> FALSE, loaded |-> {}, invalid |-> {},
   quiet |-> FALSE]

-----------------------------------------------------------------------------
(* The inspection                                                          *)

\* What comes after the walk w: NoGeneration when it is at the end.
Beyond(w, current) ==
  IF w = <<>> THEN current ELSE generations[w[Len(w)]].previous

Further(loaded, current, w) ==
  IF Beyond(w, current) \in loaded \ Range(w)
  THEN Append(w, Beyond(w, current)) ELSE w

\* The lineage as far back from `current` as it can be followed.
Walk(loaded, current) ==
  LET walk[n \in 0..MaxLineage] ==
        IF n = 0 THEN <<>> ELSE Further(loaded, current, walk[n - 1])
  IN  walk[MaxLineage]

LineageWarnings(w, current) ==
  IF Beyond(w, current) = NoGeneration THEN {}
  ELSE IF Beyond(w, current) \in Range(w) THEN {"generation_lineage_cycle"}
  ELSE IF Len(w) = MaxLineage THEN {"generation_lineage_limit_exceeded"}
  ELSE {"broken_generation_lineage"}

\* What an inspection under the lock, where nothing moves, lists and loads.
Listed ==
  [artifacts |-> Artifacts, unsafe |-> FALSE,
   full |-> Cardinality(Artifacts) + Count(pointer # NoGeneration) + 1
              > MaxArtifacts,
   overflow |-> Cardinality(Artifacts) + Cardinality(Present) > MaxArtifacts,
   loaded |-> {g \in Present : Verified(generations[g])},
   invalid |-> {g \in Present : ~Verified(generations[g])}]

\* Too many children of the dataset directory: nothing else is looked at.
FullInspection ==
  [blocked |-> TRUE, artifacts |-> {}, current |-> NoGeneration,
   reachable |-> <<>>, unreachable |-> {},
   warnings |-> {"artifact_limit_exceeded"}]

\* `current` is the generation that load_current verified, if it was called.
Inspection(l, current) ==
  IF l.full THEN FullInspection
  ELSE LET loaded == IF l.overflow THEN {} ELSE l.loaded
           w == Walk(loaded, current)
           unreachable == loaded \ Range(w)
           blocking ==
             (IF l.unsafe THEN {"unsafe_artifact_detected"} ELSE {}) \cup
             (IF l.overflow THEN {"artifact_limit_exceeded"} ELSE {}) \cup
             (IF ~l.overflow /\ l.invalid # {}
              THEN {"invalid_generation_artifact"} ELSE {}) \cup
             (IF current = NoGeneration /\ loaded # {}
              THEN {"ambiguous_generations_without_current"} ELSE {}) \cup
             LineageWarnings(w, current)
       IN  [blocked |-> blocking # {},
            artifacts |-> l.artifacts,
            current |-> current, reachable |-> w, unreachable |-> unreachable,
            warnings |-> blocking \cup
              IF unreachable # {}
              THEN {"unreachable_complete_generation_preserved"} ELSE {}]

\* The children of the dataset and of generations/ in a result.
Reported(i) ==
  i.artifacts \cup ({"generation"} \X (Range(i.reachable) \cup i.unreachable))

-----------------------------------------------------------------------------
(* Results and errors                                                      *)

\* EODRepositoryMaintenanceResult.__post_init__
ResultAccepted(x) ==
  /\ x.candidates \subseteq x.artifacts
  /\ x.deleted \subseteq x.candidates
  /\ x.deleted \cap x.remaining = {}
  /\ \A a \in x.candidates : a[1] \in Kinds
  /\ Range(x.reachable) \cap x.unreachable = {}
  /\ IF x.current = NoGeneration THEN x.reachable = <<>>
     ELSE x.reachable # <<>> /\ Head(x.reachable) = x.current
  /\ x.dry_run => ~x.locked /\ x.deleted = {} /\ x.status # "cleaned"
  /\ ~x.dry_run => x.locked
  /\ x.status = "blocked" => x.candidates = {} /\ x.deleted = {}
  /\ x.status = "cleaned" <=> x.deleted # {}
  /\ x.status = "empty" =>
       /\ x.artifacts = {} /\ x.current = NoGeneration
       /\ x.reachable = <<>> /\ x.unreachable = {}

\* _result: `i` is the first inspection, `remaining` what the last one lists.
Result(dry_run, i, status, candidates, deleted, remaining) ==
  LET x == [kind |-> "result", dry_run |-> dry_run, locked |-> ~dry_run,
            status |-> status, artifacts |-> Reported(i),
            candidates |-> candidates, deleted |-> deleted,
            remaining |-> remaining, current |-> i.current,
            reachable |-> i.reachable, unreachable |-> i.unreachable,
            warnings |-> i.warnings]
  IN  IF ResultAccepted(x) THEN x ELSE Refused

Error(code, deleted, remaining) ==
  [kind |-> "error", code |-> code, retryable |-> code = "lock_unavailable",
   deleted |-> deleted, remaining |-> remaining]

\* A checkpoint's error leaves execute as it is, without a record.
Stopped == [kind |-> "stopped"]

\* A dataset that has no directory is empty, one without children inspected.
InspectionStatuses(i) ==
  IF i.blocked THEN {"blocked"}
  ELSE IF Reported(i) = {} THEN {"empty", "inspected"} ELSE {"inspected"}

Deleted(m) == maintenance[m].candidates \ maintenance[m].todo

\* Mutant of CleanupFailed: the artifact that was not deleted is left out.
CleanupFailed_SkipsFailed(m) ==
  {Error("cleanup_failed", Deleted(m), maintenance[m].todo \ {a}) :
     a \in maintenance[m].todo}

CleanupFailed(m) == {Error("cleanup_failed", Deleted(m), maintenance[m].todo)}

\* The artifacts of the first inspection: those deleted since are added back.
FirstInspection(m) ==
  LET i == Inspection(Listed, pointer) IN
  IF i.blocked THEN i
  ELSE [i EXCEPT !.artifacts = @ \cup Deleted(m)]

Verification(m) ==
  IF maintenance[m].state = "unverified"
  THEN {Error("verification_failed", Deleted(m),
              maintenance[m].candidates \cap Artifacts)}
  ELSE LET first == FirstInspection(m)
           remaining == Reported(Inspection(Listed, pointer)) IN
       IF first.blocked
       THEN {Result(FALSE, first, "blocked", {}, {}, remaining)}
       ELSE {Result(FALSE, first, status, maintenance[m].candidates,
                    Deleted(m), remaining) :
               status \in IF Deleted(m) # {} THEN {"cleaned"}
                          ELSE InspectionStatuses(first)}

\* What _execute_locked returns or raises.
Outcomes(m) ==
  IF maintenance[m].todo # {} THEN CleanupFailed(m) \cup {Stopped}
  ELSE Verification(m)

\* The release fails after the cleanup: what remains is known only from an
\* error that named it.
ReleaseFailed(x) ==
  CASE x.kind = "error"  -> Error("lock_release_failed", x.deleted, x.remaining)
    [] x.kind = "result" -> Error("lock_release_failed", x.deleted, {})
    [] OTHER             -> Error("lock_release_failed", {}, {})

-----------------------------------------------------------------------------
(* The steps that tell something                                           *)

TellUnlocked(m) ==
  /\ maintenance[m].state = "idle"
  /\ \E code \in {"lock_unavailable", "lock_acquisition_failed",
                  "lock_contract_violation"} :
       /\ code = "lock_unavailable" => holder # NoThread
       /\ told' = Error(code, {}, {})
  /\ UNCHANGED recordVars

\* A release that fails may have freed the key.
TellEnd(m) ==
  /\ EndMaintenance(m)
  /\ \E x \in Outcomes(m) : told' \in {x, ReleaseFailed(x)}
  /\ UNCHANGED listing

NothingThere == Artifacts = {} /\ Present = {} /\ pointer = NoGeneration

\* The dataset has no directory: that of an earlier failure may be there.
FindNothing ==
  /\ listing.state = "idle" /\ NothingThere
  /\ told' = Result(TRUE, Inspection(Listed, NoGeneration), "empty", {}, {}, {})
  /\ UNCHANGED recordVars

\* The names of the children of the dataset directory.  With any of them there
\* is generations/, which publish makes first and nothing removes.
ListRoot ==
  /\ listing.state = "idle"
  /\ \E available \in BOOLEAN :
       /\ available \/ NothingThere
       /\ LET full == Cardinality(Artifacts) + Count(pointer # NoGeneration)
                        + Count(available) > MaxArtifacts
              quiet == holder = NoThread
          IN listing' =
               IF full
               THEN [NotListed EXCEPT !.state = "listed", !.full = TRUE, !.quiet = quiet]
               ELSE [NotListed EXCEPT
                       !.state = "root", !.artifacts = Artifacts,
                       !.available = available,
                       !.own = {a \in Artifacts : a[2] \in Publishers},
                       !.stale = [kind \in Kinds |-> StaleCount(kind)],
                       !.can_load = pointer # NoGeneration, !.quiet = quiet]
  /\ told' = Silence
  /\ UNCHANGED datasetVars

\* current.json is loaded in the end if it was listed, or is not there now.
LookForCurrent ==
  /\ listing.state = "root"
  /\ listing' = [listing EXCEPT !.state = "entries",
                                !.can_load = @ \/ pointer = NoGeneration]
  /\ told' = Silence
  /\ UNCHANGED datasetVars

\* is_dir or is_file of one entry, in the arbitrary order of the names.
LookAt ==
  /\ listing.state = "entries"
  /\ \/ \E a \in listing.own : listing' = [listing EXCEPT !.own = @ \ {a}]
     \/ \E kind \in Kinds :
          /\ listing.stale[kind] > 0
          /\ listing' = [listing EXCEPT !.stale[kind] = @ - 1]
  /\ told' = Silence
  /\ UNCHANGED datasetVars

\* A generation that is listed never changes: listing and loading are one step.
ListGenerations ==
  /\ listing.state = "entries"
  /\ listing.own = {} /\ \A kind \in Kinds : listing.stale[kind] = 0
  /\ LET found == IF listing.available THEN Present ELSE {} IN
     listing' = [listing EXCEPT
       !.state    = "listed",
       !.overflow = Cardinality(listing.artifacts) + Cardinality(found) > MaxArtifacts,
       !.loaded   = {g \in found : Verified(generations[g])},
       !.invalid  = {g \in found : ~Verified(generations[g])}]
  /\ told' = Silence
  /\ UNCHANGED datasetVars

\* load_current comes last; a dry run may ask for anything.
TellDryRun ==
  /\ listing.state = "listed"
  /\ LET i == Inspection(listing, IF listing.can_load THEN pointer ELSE NoGeneration) IN
     \E kinds \in SUBSET Kinds :
       told' = Result(TRUE, i, IF i.blocked THEN "blocked" ELSE "inspected",
                      IF i.blocked THEN {} ELSE {a \in i.artifacts : a[1] \in kinds},
                      {}, Reported(i))
  /\ listing' = NotListed
  /\ UNCHANGED datasetVars

\* The entries of publishers that a dry run still has to look at and will not
\* find, and those of them that stay there without an owner.
Vanished  == listing.own \ Artifacts'
Abandoned == {a \in Vanished : StaleCount(a[1])' > StaleCount(a[1])}

\* What a step of another thread does to a dry run: an entry that was renamed
\* or deleted before it is looked at will be neither a directory nor a file.
\* One that had no owner may have been listed and looked at, or not.
Follow ==
  \E removed \in SUBSET {kind \in Kinds : StaleCount(kind)' < StaleCount(kind)} :
    LET left == [kind \in Kinds |->
                   listing.stale[kind] + Cardinality({a \in Abandoned : a[1] = kind})
                     - Count(kind \in removed)]
    IN /\ \A kind \in Kinds : left[kind] \in 0..StaleCount(kind)'
       /\ listing' = [listing EXCEPT
            !.own    = @ \ Vanished,
            !.stale  = left,
            !.unsafe = @ \/ Vanished # Abandoned \/ removed # {},
            !.quiet  = @ /\ holder' = NoThread]

Silent ==
  /\ \/ \E p \in Publishers : UpdateNext(p)
     \/ \E m \in Maintainers :
          \/ BeginMaintenance(m) \/ InspectBlocked(m)
          \/ \E kinds \in SUBSET {"staging", "temporary"} : Inspect(m, kinds)
          \/ Delete(m) \/ DeleteFails(m) \/ Verify(m)
  /\ told' = Silence
  /\ Follow

RecordDies == ProcessDies /\ told' = Silence /\ listing' = NotListed

RecordInit == DatasetInit /\ told = Silence /\ listing = NotListed

RecordNext ==
  \/ \E m \in Maintainers : TellUnlocked(m) \/ TellEnd(m)
  \/ FindNothing \/ ListRoot \/ LookForCurrent \/ LookAt \/ ListGenerations
  \/ TellDryRun
  \/ Silent
  \/ RecordDies

RecordSpec == RecordInit /\ [][RecordNext]_<<recordVars, told>>

-----------------------------------------------------------------------------
(* What the operator can rely on                                           *)

\* A cleanup under the lock whose listing of generations/ is cut at its limit.
Overflowing == pointer # NoGeneration /\ Listed.overflow /\ ~Listed.full

\* A dry run whose listing is cut, or whose current generation was published
\* by another thread after it listed generations/.
Overtaken ==
  /\ listing.state = "listed" /\ ~listing.full
  /\ listing.can_load /\ pointer # NoGeneration
  /\ listing.overflow \/ (~listing.quiet /\ pointer \notin listing.loaded)

\* Maintenance answers with a result or with one of its own errors, but in
\* two cases: a generations/ directory that outgrew the artifact limit, where
\* a blocked result is meant, and a publication between the two reads of a
\* dry run, both of which end in a ValueError.
AnswersUnlessCut ==
  told'.kind = "refused" => Overflowing \/ Overtaken

\* Every artifact that a cleanup removed is named to the caller, with what
\* it left of its candidates, unless a checkpoint stopped it; what is offered
\* for a retry removed nothing.
DeletionsTold ==
  LET x == told' IN
  \A m \in Maintainers :
    maintenance[m].state # "idle" /\ maintenance'[m].state = "idle" =>
      CASE x.kind = "result" ->
             /\ x.deleted = Deleted(m)
             /\ x.deleted \cap Artifacts = {}
             /\ Artifacts \subseteq x.remaining \/ "artifact_limit_exceeded" \in x.warnings
        [] x.kind = "error" /\ x.code = "cleanup_failed" ->
             x.deleted \cup x.remaining = maintenance[m].candidates
        [] x.kind = "error" /\ x.code = "lock_release_failed" ->
             x.deleted \in {Deleted(m), {}} /\ ~x.retryable
        [] OTHER -> TRUE

\* An unblocked result accounts for every generation it loaded, and its
\* lineage goes back from the current generation to one that replaced nothing.
LineageTold ==
  LET x == told' IN
  x.kind = "result" /\ x.status \notin {"blocked", "empty"} /\ x.current # NoGeneration =>
    /\ Beyond(x.reachable, x.current) = NoGeneration
    /\ ~x.dry_run => Range(x.reachable) \cup x.unreachable = Present

\* Once a generation was activated, no failure or crash leaves a dataset that
\* maintenance refuses to clean, short of its own two limits, and nothing ever
\* changes the files of a cleanup under its hands.  A dry run says otherwise
\* only when another thread held the lock while it read.
CleansUpToLimits ==
  LET x == told' IN
  /\ x.kind = "result" /\ x.status = "blocked" =>
       \/ x.warnings \cap {"artifact_limit_exceeded",
                            "generation_lineage_limit_exceeded"} # {}
       \/ pointer = NoGeneration
       \/ x.dry_run /\ ~listing.quiet
  /\ x.kind = "error" => x.code # "verification_failed"

\* However many reads it takes, a dry run during which no thread held the lock
\* says just what an inspection under the lock would say when it ends.
UndisturbedTold ==
  LET x == told'
      i == Inspection(Listed, pointer)
  IN  x.kind = "result" /\ x.dry_run /\ listing.state = "listed" /\ listing.quiet =>
        /\ x.current = i.current /\ x.artifacts = Reported(i)
        /\ x.warnings = i.warnings
        /\ x.status = "blocked" <=> i.blocked

\* What maintenance tells is what it found and did, whatever updates, crashes
\* and failures surround it.
MaintenanceToldTruly ==
  [][AnswersUnlessCut /\ DeletionsTold /\ LineageTold /\ CleansUpToLimits
       /\ UndisturbedTold]_<<recordVars, told>>
=============================================================================
