--------------------------- MODULE EODUpdateRecords ---------------------------
(***************************************************************************)
(* What the calls of EODIncrementalUpdate tell their caller: the results   *)
(* and errors of EODIncrementalCoordinator (market_data/coordinator.py)    *)
(* and EODFullRefreshExecutor (market_data/full_refresh.py), in the order  *)
(* of their early returns.  Each is a record whose constructor checks it,  *)
(* and a record it refuses surfaces as a ValueError, after a publication   *)
(* as well as before one.                                                  *)
(*                                                                         *)
(* The lock of a dataset is one of its process.  A rival in another one    *)
(* may publish between the load and the publication of a call: what it     *)
(* published is then replaced, and the call must not call that a success.  *)
(***************************************************************************)
EXTENDS EODIncrementalUpdate

CONSTANTS NoManifest, Rival

Manifests == [rows : Nat, content : [Days -> MaybeBar]]

ASSUME ManifestAssumption ==
  NoManifest \notin Manifests \cup
    [rows : Nat, content : [Days -> MaybeBar],
     previous : Manifests \cup {NoManifest, Rival}]

VARIABLE
  report   \* what the last call returned or raised

-----------------------------------------------------------------------------
(* The records                                                             *)

\* A generation is known by its content: one with the same is not published.
Manifest(b) == [rows |-> Cardinality(Stored(b)), content |-> b]

CurrentManifest == IF Stored(bars) = {} THEN NoManifest ELSE Manifest(bars)

NoReport == [kind |-> "none"]
Refused  == [kind |-> "refused"]   \* the ValueError of a constructor
Raised   == [kind |-> "raised"]    \* an exception that passes through
Stopped  == [kind |-> "stopped"]   \* the EODOperationControlError of a checkpoint

Built(accepted, x) == IF accepted THEN x ELSE Refused

PublishedStatuses ==
  {"initial_import_published", "incremental_published",
   "overlap_refresh_published"}
PlannedStatuses ==
  {"initial_import_planned", "incremental_planned", "overlap_refresh_planned"}
NoFetchStatuses ==
  {"already_current", "no_trading_days", "no_expected_observations",
   "full_refresh_required"}
DryRunStatuses == PlannedStatuses \cup NoFetchStatuses

PublishedStatus(status) ==
  CASE status = "initial_import"  -> "initial_import_published"
    [] status = "incremental"     -> "incremental_published"
    [] status = "overlap_refresh" -> "overlap_refresh_published"

PlannedStatus(status) ==
  CASE status = "initial_import"  -> "initial_import_planned"
    [] status = "incremental"     -> "incremental_planned"
    [] status = "overlap_refresh" -> "overlap_refresh_planned"

UpdateResultAccepted(x) ==
  /\ (x.status \in PublishedStatuses) <=> (x.published # NoManifest)
  /\ x.status = "initial_import_published" => x.previous = NoManifest
  /\ x.status \in PlannedStatuses => x.dry
  /\ x.dry => x.status \in DryRunStatuses
  /\ x.published # NoManifest => x.published.rows = x.rows

UpdateResult(plan, status, dry, published, attempts, rows, added, replaced) ==
  LET x == [kind |-> "update", status |-> status, plan |-> plan,
            previous |-> CurrentManifest, published |-> published,
            attempts |-> attempts, rows |-> rows, added |-> added,
            replaced |-> replaced, dry |-> dry]
  IN  Built(UpdateResultAccepted(x), x)

Stages ==
  {"load_current", "planning", "provider_chain", "merge", "replacement",
   "validation", "publication_context", "publish", "publish_response"}

\* The code of the chain's error: whether it is retried is all that is told
\* apart.
ProviderCodes == {"temporary_provider_failure", "permanent"}

ErrorAccepted(x) ==
  /\ x.stage \in Stages
  /\ x.retryable <=>
       \/ x.code = "partial_result_not_publishable"
       \/ /\ x.code = "provider_chain_failed"
          /\ x.provider = "temporary_provider_failure"

CoordinatorError(code, stage, attempts, provider, retryable) ==
  LET x == [kind |-> "error", code |-> code, stage |-> stage,
            attempts |-> attempts, provider |-> provider,
            retryable |-> retryable]
  IN  Built(ErrorAccepted(x), x)

\* An error of the coordinator with nothing more to say.
Error(code, stage, attempts) ==
  CoordinatorError(code, stage, attempts, "none", FALSE)

\* EODFullRefreshExecutorError; only a lock that is held may be tried again.
LockError(code) ==
  [kind |-> "lock_error", code |-> code,
   retryable |-> code = "lock_unavailable"]

FullRefreshResultAccepted(x) ==
  LET eligible  == x.plan.status = "full_refresh_required"
      published == x.status = "full_refresh_published"
      executed  == x.status \in {"full_refresh_published", "unchanged_content"}
      current   == IF x.previous = NoManifest THEN 0 ELSE x.previous.rows
  IN
  /\ x.locked <=> ~x.dry
  /\ (x.status = "not_eligible") <=> ~eligible
  /\ IF eligible
     THEN /\ x.previous # NoManifest
          /\ x.request # NoRange
          /\ x.request = x.plan.effective
          /\ (x.status = "full_refresh_planned") <=> x.dry
     ELSE x.request = NoRange
  /\ executed <=> x.attempts
  /\ published <=> (x.published # NoManifest)
  /\ x.rows = (IF published THEN x.published.rows ELSE current)
  /\ x.replaced = (IF published THEN current ELSE 0)
  /\ published => x.published.previous = x.previous

FullRefreshResult(plan, status, dry, published, attempts, rows, replaced) ==
  LET eligible == plan.status = "full_refresh_required"
      x == [kind |-> "full_refresh", status |-> status, plan |-> plan,
            request |-> IF eligible THEN plan.effective ELSE NoRange,
            previous |-> CurrentManifest, published |-> published,
            attempts |-> attempts, rows |-> rows, replaced |-> replaced,
            dry |-> dry, locked |-> ~dry]
  IN  Built(FullRefreshResultAccepted(x), x)

-----------------------------------------------------------------------------
(* What a call meets on its way to a publication                           *)

\* The chain fails, raises, answers something else or only a part, or is
\* stopped between two attempts.
FetchFailures(propagate_unknown) ==
  {CoordinatorError("provider_chain_failed", "provider_chain", TRUE, code,
                    code = "temporary_provider_failure") :
     code \in ProviderCodes}
  \cup {IF propagate_unknown THEN Raised
        ELSE Error("provider_chain_failed", "provider_chain", FALSE)}
  \cup {Error("provider_result_mismatch", "provider_chain", attempts) :
          attempts \in BOOLEAN}
  \cup {CoordinatorError("partial_result_not_publishable", "provider_chain",
                         TRUE, "none", TRUE), Stopped}

\* A success without a bar, or with one that was not asked for.
MergeFailures(plan) ==
  {Error("provider_result_mismatch", "merge", TRUE)}
  \cup {Error("merge_conflict", "merge", TRUE) :
          fetched \in {f \in Results(plan.request) : Conflict(plan, f)}}

ValidationFailures == {Error("validation_failed", "validation", TRUE)}

\* There is no generation id or time, the checkpoint stops the call, or the
\* repository raises: then its pointer is as before.
PublicationFailures(propagate_unknown) ==
  {Error("publication_context_invalid", "publication_context", TRUE), Stopped,
   IF propagate_unknown THEN Raised
   ELSE Error("publication_failed", "publish", TRUE)}

\* The manifest that publish returns names the generation it replaced.
PublishedManifest(b, previous) ==
  [rows |-> Cardinality(Stored(b)), content |-> b, previous |-> previous]

\* _validate_published_manifest
ManifestValid(manifest, candidate) ==
  /\ manifest.content = candidate
  /\ manifest.rows = Cardinality(Stored(candidate))
  /\ manifest.previous = CurrentManifest

\* The generation a rival may have published since this call loaded its own.
Rivals == {CurrentManifest, Rival}

AfterPublication(manifest, candidate, result) ==
  IF ManifestValid(manifest, candidate) THEN result
  ELSE Error("repository_contract_violation", "publish_response", TRUE)

-----------------------------------------------------------------------------
(* coordinator.py: update                                                  *)

RowCount == Cardinality(Stored(bars))

\* What the fetched days add to the stored ones, and what they replace.
Added(plan, fetched) ==
  CASE plan.status = "overlap_refresh" -> Cardinality(fetched \ Stored(bars))
    [] OTHER -> Cardinality(fetched)

\* Mutant of Replaced: all that was stored in the window, fetched or not.
Replaced_Window(plan, fetched) ==
  CASE plan.status = "overlap_refresh" ->
         Cardinality(Within(Stored(bars), plan.request))
    [] OTHER -> 0

Replaced(plan, fetched) ==
  CASE plan.status = "overlap_refresh" ->
         Cardinality(fetched \cap Stored(bars))
    [] OTHER -> 0

UpdatePublishes(r, policy) ==
  LET plan    == Plan(Stored(bars), absent, r, policy)
      fetched == Within(Stored(bars'), plan.request)
  IN
  /\ Update(r, policy)
  /\ \E previous \in Rivals :
       LET manifest == PublishedManifest(bars', previous) IN
       report' = AfterPublication(manifest, bars',
         UpdateResult(plan, PublishedStatus(plan.status), FALSE, manifest,
                      TRUE, Cardinality(Stored(bars')),
                      Added(plan, fetched), Replaced(plan, fetched)))

\* A call that returns without a fetch, or finds what is stored.
UpdateReturns(r, policy, dry) ==
  LET plan == Plan(Stored(bars), absent, r, policy)
      Returned(status, attempts) ==
        UpdateResult(plan, status, dry, NoManifest, attempts, RowCount, 0, 0)
  IN
  /\ \/ /\ plan.status \in NoFetchStatuses
        /\ report' = Returned(plan.status, FALSE)
     \/ /\ plan.status \in FetchStatuses
        /\ dry
        /\ report' = Returned(PlannedStatus(plan.status), FALSE)
     \/ /\ plan.status \in FetchStatuses
        /\ ~dry
        /\ Stored(bars) # {}
        /\ \E fetched \in Results(plan.request) :
             /\ ~Conflict(plan, fetched)
             /\ Merge(plan, fetched) = bars
        /\ Publishable(plan, bars)
        /\ report' = Returned("unchanged_content", TRUE)
  /\ UNCHANGED vars

UpdateFails(r, policy, dry) ==
  LET plan == Plan(Stored(bars), absent, r, policy) IN
  /\ \/ report' = Error("publication_context_invalid", "publication_context",
                        FALSE)
     \/ report' \in
          {Error(code, "load_current", FALSE) :
             code \in {"current_generation_invalid",
                       "repository_contract_violation"}}
     \/ /\ plan.status = "invalid"
        /\ report' = Error("planning_failed", "planning", FALSE)
     \/ /\ plan.status \in FetchStatuses
        /\ ~dry
        /\ report' \in FetchFailures(FALSE) \cup MergeFailures(plan)
                       \cup ValidationFailures \cup PublicationFailures(FALSE)
  /\ UNCHANGED vars

-----------------------------------------------------------------------------
(* full_refresh.py: execute                                                *)

\* The lock may fail to be released after the publication.
FullRefreshPublishes(r, policy) ==
  LET plan == Plan(Stored(bars), absent, r, policy) IN
  /\ FullRefresh(r, policy)
  /\ \/ \E previous \in Rivals :
          LET manifest == PublishedManifest(bars', previous) IN
          report' = AfterPublication(manifest, bars',
            FullRefreshResult(plan, "full_refresh_published", FALSE, manifest,
                              TRUE, Cardinality(Stored(bars')), RowCount))
     \/ report' = LockError("lock_release_failed")

FullRefreshReturns(r, policy, dry) ==
  LET plan     == Plan(Stored(bars), absent, r, policy)
      eligible == plan.status = "full_refresh_required"
      Returned(status, attempts) ==
        FullRefreshResult(plan, status, dry, NoManifest, attempts, RowCount, 0)
  IN
  /\ \/ /\ ~eligible
        /\ plan.status # "invalid"
        /\ report' = Returned("not_eligible", FALSE)
     \/ /\ eligible
        /\ dry
        /\ report' = Returned("full_refresh_planned", FALSE)
     \/ /\ eligible
        /\ ~dry
        /\ Stored(bars) \subseteq Within(Days, plan.effective)
        /\ Publishable(plan, bars)
        /\ report' = Returned("unchanged_content", TRUE)
  /\ UNCHANGED vars

FullRefreshFails(r, policy, dry) ==
  LET plan == Plan(Stored(bars), absent, r, policy) IN
  /\ \/ /\ ~dry
        /\ report' \in {LockError(code) :
             code \in {"lock_acquisition_failed", "lock_contract_violation",
                       "lock_unavailable", "lock_release_failed"}}
     \/ report' \in
          {Raised, Error("current_generation_invalid", "load_current", FALSE),
           Error("repository_contract_violation", "load_current", FALSE)}
     \/ /\ plan.status = "invalid"
        /\ report' = Error("planning_failed", "planning", FALSE)
     \/ /\ plan.status = "full_refresh_required"
        /\ ~dry
        /\ report' \in FetchFailures(TRUE) \cup ValidationFailures
             \cup PublicationFailures(TRUE)
             \cup {Error("provider_result_mismatch", "replacement", TRUE)}
  /\ UNCHANGED vars

-----------------------------------------------------------------------------
RecordInit == Init /\ report = NoReport

RecordNext ==
  \/ \E r \in Ranges, policy \in Policies :
       \/ UpdatePublishes(r, policy)
       \/ FullRefreshPublishes(r, policy)
       \/ \E dry \in BOOLEAN :
            \/ UpdateReturns(r, policy, dry)
            \/ UpdateFails(r, policy, dry)
            \/ FullRefreshReturns(r, policy, dry)
            \/ FullRefreshFails(r, policy, dry)
  \/ NewEvidence /\ report' = NoReport

RecordSpec == RecordInit /\ [][RecordNext]_<<vars, report>>

-----------------------------------------------------------------------------
(* What the caller can rely on                                             *)

IsPublication(x) ==
  x.kind \in {"update", "full_refresh"} /\ x.published # NoManifest

\* The counts of a publication against the bars before and after it.
CountsTrue(x) ==
  LET before  == Stored(bars)
      after   == Stored(bars')
      revised == {d \in before \cap after : bars'[d] # bars[d]}
  IN
  /\ x.published.content = bars'
  /\ x.published.previous = CurrentManifest
  /\ x.rows = Cardinality(after)
  /\ IF x.kind = "full_refresh" THEN x.replaced = Cardinality(before)
     ELSE /\ x.added = Cardinality(after \ before)
          /\ x.added + x.replaced = Cardinality(Within(after, x.plan.request))
          /\ revised \subseteq Within(after, x.plan.request)
          /\ Cardinality(revised) <= x.replaced

\* The only errors after which the data may have changed: the manifest of a
\* rival was replaced, or the lock of a full refresh could not be released.
MayHavePublished(x) ==
  \/ x.kind = "error" /\ x.stage = "publish_response"
  \/ x.kind = "lock_error" /\ x.code = "lock_release_failed"

ReportsTruly ==
  LET x == report' IN
  /\ x.kind # "refused"
  /\ IsPublication(x) => CountsTrue(x)
  /\ bars' # bars => IsPublication(x) \/ MayHavePublished(x)
  /\ x.kind \in {"error", "lock_error"} /\ x.retryable => bars' = bars

\* What the operator is told is what happened.  No outcome is one that its own
\* record refuses; data change only under a publication, whose counts are
\* those of the days and whose predecessor is the generation the call read, or
\* under one of two errors; and an error that invites a retry, a dry run and
\* everything else left the data as they were.
CallsReportTruly == [][ReportsTruly]_<<vars, report>>
=============================================================================
