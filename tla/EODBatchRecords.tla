---------------------------- MODULE EODBatchRecords ----------------------------
(***************************************************************************)
(* What the batches of EODBatch tell about each dataset and in the end     *)
(* (market_data/batch.py): the record of every dataset, made from the      *)
(* update's result or error, from the lock or from the stop of the batch,  *)
(* and the counts of the batch.  A record that its constructor refuses is  *)
(* a ValueError that leaves run, and with it the results of all datasets.  *)
(***************************************************************************)
EXTENDS EODBatch

VARIABLE
  told   \* the last record that was made

Silence == [kind |-> "none"]
Refused == [kind |-> "refused"]

-----------------------------------------------------------------------------
(* The records                                                             *)

NoUpdate  == [dry_run |-> FALSE, refresh |-> FALSE, published |-> FALSE,
              present |-> FALSE]
NoFailure == [code |-> "none", source |-> "none", retryable |-> FALSE]

\* The result of the coordinator, when it gave one.
UpdateResult(b) ==
  [dry_run |-> request[b].dry_run,
   refresh |-> answer[b] = "full_refresh_required",
   published |-> at[b] \in moved[b],
   present |-> TRUE]

\* The errors of the coordinator, told apart by when they are raised and by
\* whether they may be retried.
CoordinatorFailures(b) ==
  IF at[b] \in moved[b]
  THEN {[code |-> "repository_contract_violation", source |-> "coordinator",
         retryable |-> FALSE]}
  ELSE {[code |-> "provider_chain_failed", source |-> "coordinator",
         retryable |-> retryable] : retryable \in BOOLEAN}
       \cup {[code |-> code, source |-> "coordinator", retryable |-> FALSE] :
               code \in {"validation_failed", "publication_failed"}}

LockFailure(code) == [code |-> code, source |-> "lock", retryable |-> FALSE]

Stopped == [code |-> "stopped_after_failure", source |-> "batch",
            retryable |-> FALSE]

\* EODBatchDatasetResult.__post_init__
DatasetResultAccepted(x) ==
  /\ IF x.status \in {"success", "dry_run", "full_refresh_required"}
     THEN x.update.present /\ x.failure = NoFailure
     ELSE x.failure # NoFailure
  /\ x.status = "success" => ~x.update.dry_run /\ ~x.update.refresh
  /\ x.status = "dry_run" => x.update.dry_run /\ ~x.update.refresh
  /\ x.status = "full_refresh_required" => x.update.refresh
  /\ x.status = "skipped" => ~x.update.present /\ ~x.locked

DatasetResult(b, d, s, update, failure, locked) ==
  LET x == [kind |-> "dataset", batch |-> b, dataset |-> d, status |-> s,
            update |-> update, failure |-> failure, locked |-> locked]
  IN  IF DatasetResultAccepted(x) THEN x ELSE Refused

FailedResult(b, d, failure, update) ==
  DatasetResult(b, d, "failed", update, failure, ~request[b].dry_run)

SkippedResult(b, d) ==
  DatasetResult(b, d, "skipped", NoUpdate, Stopped, FALSE)

DatasetStatus(b, update) ==
  IF update.refresh THEN "full_refresh_required"
  ELSE IF update.dry_run THEN "dry_run" ELSE "success"

\* What _execute_coordinator makes of the answer.
ExecutedResults(b) ==
  IF answer[b] = "failed"
  THEN {FailedResult(b, at[b], failure, NoUpdate) :
          failure \in CoordinatorFailures(b)}
  ELSE LET update == UpdateResult(b) IN
       {DatasetResult(b, at[b], DatasetStatus(b, update), update, NoFailure,
                      ~request[b].dry_run)}

\* Mutant of ReleaseFailure: the result of the update is dropped.
ReleaseFailure_Bare(b) ==
  FailedResult(b, at[b], LockFailure("lock_release_failed"), NoUpdate)

\* The update's result stays in the record when only the release failed; its
\* error does not.
ReleaseFailure(b) ==
  FailedResult(b, at[b], LockFailure("lock_release_failed"),
               IF answer[b] = "failed" THEN NoUpdate ELSE UpdateResult(b))

Count(b, statuses) == Cardinality(With(b, statuses))

\* EODBatchResult
BatchResult(b) ==
  [kind |-> "batch", batch |-> b, status |-> DerivedStatus(b),
   requested |-> Cardinality(request[b].datasets),
   attempted |-> Cardinality(request[b].datasets \ With(b, {"skipped"})),
   success |-> Count(b, {"success", "dry_run"}),
   failure |-> Count(b, {"failed"}),
   skipped |-> Count(b, {"skipped"}),
   refresh |-> Count(b, {"full_refresh_required"})]

-----------------------------------------------------------------------------
(* The steps of EODBatch that make a record                                *)

TellSkipped(b) ==
  /\ Skip(b)
  /\ \E d \in Remaining(b) \ Remaining(b)' : told' = SkippedResult(b, d)

TellUnlocked(b) ==
  /\ Unlocked(b)
  /\ \E d \in Remaining(b) \ Remaining(b)',
        code \in {"lock_acquisition_failed", "lock_contract_violation",
                  "lock_unavailable"} :
       told' = FailedResult(b, d, LockFailure(code), NoUpdate)

TellReleased(b) ==
  /\ Release(b)
  /\ told' \in IF answer[b] = "raised" THEN {Silence} ELSE ExecutedResults(b)

TellReleaseFails(b) ==
  /\ ReleaseFails(b)
  /\ told' = IF answer[b] = "raised" THEN Silence ELSE ReleaseFailure(b)

TellFinished(b) == Finish(b) /\ told' = BatchResult(b)

Silent(b) ==
  /\ \/ Aborts(b)
     \/ EnterDry(b)
     \/ Acquire(b)
     \/ EndsUnpublished(b)
     \/ EndsUnsafe(b)
     \/ BeginPublication(b)
     \/ Publish(b)
     \/ Revoke(b)
  /\ told' = Silence

RecordInit == Init /\ told = Silence

RecordNext ==
  \E b \in Batches :
    \/ Silent(b)
    \/ TellSkipped(b)
    \/ TellUnlocked(b)
    \/ TellReleased(b)
    \/ TellReleaseFails(b)
    \/ TellFinished(b)

RecordSpec == RecordInit /\ [][RecordNext]_<<vars, told>>

-----------------------------------------------------------------------------
(* What the operator can rely on                                           *)

\* A publication is in the record of its dataset, or there is one of two
\* failures that may follow one; neither is offered for a retry.
PublicationTold(x) ==
  LET published == x.dataset \in moved'[x.batch] IN
  /\ x.update.published => published
  /\ published => \/ x.update.published
                  \/ x.failure.code \in {"repository_contract_violation",
                                         "lock_release_failed"}
  /\ published => ~x.failure.retryable

TellsTruly ==
  LET x == told' IN
  /\ x.kind # "refused"
  /\ x.kind = "dataset" =>
       /\ x.status = outcome'[x.batch][x.dataset]
       /\ PublicationTold(x)
       /\ x.failure.code = "lock_release_failed"
            => x.update.published \/ answer[x.batch] = "failed"
               \/ x.dataset \notin moved'[x.batch]
  /\ x.kind = "batch" =>
       /\ x.success + x.failure + x.refresh = x.attempted
       /\ x.attempted + x.skipped = x.requested
       /\ x.status \in {"success", "dry_run"} /\ x.refresh = 0
            => x.success = x.requested

\* Every dataset gets the record of what happened to it, whatever fails: none
\* is refused by its own constructor, which would lose the results of the whole
\* batch; its status is the one the batch counts; and a publication stays
\* visible in it when the lock is not released.
DatasetsToldTruly == [][TellsTruly]_<<vars, told>>
=============================================================================
