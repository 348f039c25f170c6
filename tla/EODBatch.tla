------------------------------- MODULE EODBatch -------------------------------
(***************************************************************************)
(* Batches of updates over several datasets in one process                 *)
(* (market_data/batch.py), and what the worker makes of their results      *)
(* (market_data/operation_worker.py).  Each runs in a thread of its own;   *)
(* they share the lock manager, which need not be the one that never       *)
(* fails.  What an update does is EODDatasetOperations and                 *)
(* EODIncrementalUpdate; here only whether it moves current.json counts.   *)
(***************************************************************************)
EXTENDS Naturals, FiniteSets

CONSTANTS
  Batches,
  NumDatasets  \* datasets are numbered in the order of their identities

Datasets == 1..NumDatasets

ASSUME BatchAssumption == NumDatasets \in Nat \ {0}

VARIABLES
  request,  \* request[b]: an EODBatchRequest
  pc,       \* pc[b]: where run is
  at,       \* at[b]: the dataset _run_dataset is at, 0 outside of it
  answer,   \* answer[b]: what the coordinator made of it, "none" until then
  outcome,  \* outcome[b][d]: the status of its result for d
  stop,     \* stop[b]: it skips what is left
  status,   \* status[b]: of the batch, or that it raised
  held,     \* the keys of the lock manager
  unsafe,   \* unsafe[b]: the controller refuses checkpoints
  moved,    \* moved[b]: datasets whose pointer it moved (history)
  leaked    \* datasets whose release raised and kept the key (history)

vars == <<request, pc, at, answer, outcome, stop, status, held, unsafe, moved, leaked>>

Requests == [datasets : SUBSET Datasets \ {{}},
             dry_run : BOOLEAN,
             failure_policy : {"stop_on_failure", "continue_on_failure"}]

DatasetStatuses ==
  {"success", "dry_run", "full_refresh_required", "failed", "skipped"}

BatchStatuses ==
  {"success", "partial_success", "failed", "dry_run", "full_refresh_required"}

TypeOK ==
  /\ request \in [Batches -> Requests]
  /\ pc \in [Batches -> {"next", "running", "publishing", "leaving", "ended"}]
  /\ at \in [Batches -> Datasets \cup {0}]
  /\ answer \in [Batches -> (DatasetStatuses \ {"skipped"}) \cup {"none", "raised"}]
  /\ outcome \in [Batches -> [Datasets -> DatasetStatuses \cup {"none"}]]
  /\ stop \in [Batches -> BOOLEAN]
  /\ status \in [Batches -> BatchStatuses \cup {"none", "raised"}]
  /\ held \subseteq Datasets
  /\ unsafe \in [Batches -> BOOLEAN]
  /\ moved \in [Batches -> SUBSET Datasets]
  /\ leaked \subseteq Datasets

Init ==
  /\ request \in [Batches -> Requests]
  /\ pc = [b \in Batches |-> "next"]
  /\ at = [b \in Batches |-> 0]
  /\ answer = [b \in Batches |-> "none"]
  /\ outcome = [b \in Batches |-> [d \in Datasets |-> "none"]]
  /\ stop = [b \in Batches |-> FALSE]
  /\ status = [b \in Batches |-> "none"]
  /\ held = {}
  /\ unsafe = [b \in Batches |-> FALSE]
  /\ moved = [b \in Batches |-> {}]
  /\ leaked = {}

-----------------------------------------------------------------------------
(* From one dataset to the next                                            *)

Remaining(b) == {d \in request[b].datasets : outcome[b][d] = "none"}

\* d is next, and the checkpoint before a second and later dataset passes.
Turn(b, d) ==
  /\ pc[b] = "next"
  /\ d \in Remaining(b)
  /\ \A e \in Remaining(b) : d <= e
  /\ unsafe[b] => Remaining(b) = request[b].datasets

Raise(b) ==
  /\ pc' = [pc EXCEPT ![b] = "ended"]
  /\ status' = [status EXCEPT ![b] = "raised"]

Aborts(b) ==
  /\ pc[b] = "next"
  /\ Remaining(b) \notin {{}, request[b].datasets}
  /\ unsafe[b]
  /\ Raise(b)
  /\ UNCHANGED <<request, at, answer, outcome, stop, held, unsafe, moved, leaked>>

\* The result for d is appended.
Record(b, d, s) ==
  /\ outcome' = [outcome EXCEPT ![b][d] = s]
  /\ pc' = [pc EXCEPT ![b] = "next"]
  /\ stop' = [stop EXCEPT ![b] =
       @ \/ (s = "failed" /\ request[b].failure_policy = "stop_on_failure")]

Skip(b) ==
  /\ stop[b]
  /\ \E d \in Datasets : Turn(b, d) /\ Record(b, d, "skipped")
  /\ UNCHANGED <<request, at, answer, status, held, unsafe, moved, leaked>>

-----------------------------------------------------------------------------
(* One dataset                                                             *)

Enter(b, d) ==
  /\ pc' = [pc EXCEPT ![b] = "running"]
  /\ at' = [at EXCEPT ![b] = d]
  /\ UNCHANGED <<request, answer, outcome, stop, status, unsafe, moved, leaked>>

\* A dry run takes no lock.
EnterDry(b) ==
  /\ request[b].dry_run /\ ~stop[b]
  /\ \E d \in Datasets : Turn(b, d) /\ Enter(b, d)
  /\ UNCHANGED held

Acquire(b) ==
  /\ ~request[b].dry_run /\ ~stop[b]
  /\ \E d \in Datasets \ held : Turn(b, d) /\ Enter(b, d) /\ held' = held \cup {d}

\* The key is held, or the lock manager raises.
Unlocked(b) ==
  /\ ~request[b].dry_run /\ ~stop[b]
  /\ \E d \in Datasets : Turn(b, d) /\ Record(b, d, "failed")
  /\ UNCHANGED <<request, at, answer, status, held, unsafe, moved, leaked>>

Answers(b, s) ==
  /\ pc' = [pc EXCEPT ![b] = "leaving"]
  /\ answer' = [answer EXCEPT ![b] = s]
  /\ UNCHANGED <<request, at, outcome, stop, status, held, unsafe, leaked>>

\* The update ends before a publication: it fails, finds the data current or
\* unchanged, is planned only, or needs a full refresh.
EndsUnpublished(b) ==
  /\ pc[b] = "running"
  /\ \E s \in {"failed", "full_refresh_required",
               IF request[b].dry_run THEN "dry_run" ELSE "success"} : Answers(b, s)
  /\ UNCHANGED moved

\* One of its checkpoints raises; a dry run has none.
EndsUnsafe(b) ==
  /\ pc[b] = "running"
  /\ ~request[b].dry_run
  /\ unsafe[b]
  /\ Answers(b, "raised")
  /\ UNCHANGED moved

\* The checkpoint before the publication passes.
BeginPublication(b) ==
  /\ pc[b] = "running"
  /\ ~request[b].dry_run
  /\ ~unsafe[b]
  /\ pc' = [pc EXCEPT ![b] = "publishing"]
  /\ UNCHANGED <<request, at, answer, outcome, stop, status, held, unsafe, moved, leaked>>

\* The publication fails, or succeeds, or is found wrong when the pointer has
\* been moved.
Publish(b) ==
  /\ pc[b] = "publishing"
  /\ \/ Answers(b, "failed") /\ UNCHANGED moved
     \/ /\ \E s \in {"success", "failed"} : Answers(b, s)
        /\ moved' = [moved EXCEPT ![b] = @ \cup {at[b]}]

\* A control error leaves run, any other answer is recorded as s.
Leave(b, s) ==
  /\ at' = [at EXCEPT ![b] = 0]
  /\ answer' = [answer EXCEPT ![b] = "none"]
  /\ IF answer[b] = "raised"
     THEN Raise(b) /\ UNCHANGED <<outcome, stop>>
     ELSE Record(b, at[b], s) /\ UNCHANGED status

\* Mutant of Release: after an exception the key is kept.
Release_NotWhenRaised(b) ==
  /\ pc[b] = "leaving"
  /\ Leave(b, answer[b])
  /\ held' = IF request[b].dry_run \/ answer[b] = "raised" THEN held ELSE held \ {at[b]}
  /\ UNCHANGED <<request, unsafe, moved, leaked>>

Release(b) ==
  /\ pc[b] = "leaving"
  /\ Leave(b, answer[b])
  /\ held' = IF request[b].dry_run THEN held ELSE held \ {at[b]}
  /\ UNCHANGED <<request, unsafe, moved, leaked>>

\* The lock manager raises, with or without having released the key; the
\* dataset is reported failed whatever it did.
ReleaseFails(b) ==
  /\ pc[b] = "leaving"
  /\ ~request[b].dry_run
  /\ Leave(b, "failed")
  /\ \/ leaked' = leaked \cup {at[b]} /\ UNCHANGED held
     \/ held' = held \ {at[b]} /\ UNCHANGED leaked
  /\ UNCHANGED <<request, unsafe, moved>>

Revoke(b) ==
  /\ ~unsafe[b]
  /\ pc[b] # "ended"
  /\ unsafe' = [unsafe EXCEPT ![b] = TRUE]
  /\ UNCHANGED <<request, pc, at, answer, outcome, stop, status, held, moved, leaked>>

-----------------------------------------------------------------------------
(* The end                                                                 *)

With(b, statuses) == {d \in request[b].datasets : outcome[b][d] \in statuses}

\* Mutant of DerivedStatus: a required refresh does not count.
DerivedStatus_RefreshIgnored(b) ==
  LET good == With(b, {"success", "dry_run"})
      bad == With(b, {"failed", "skipped"})
      refresh == With(b, {"full_refresh_required"}) IN
  IF request[b].dry_run /\ bad = {} THEN "dry_run"
  ELSE IF refresh = request[b].datasets THEN "full_refresh_required"
  ELSE IF bad = {} THEN "success"
  ELSE IF good = {} THEN "failed" ELSE "partial_success"

DerivedStatus(b) ==
  LET good == With(b, {"success", "dry_run"})
      bad == With(b, {"failed", "skipped"})
      refresh == With(b, {"full_refresh_required"}) IN
  IF request[b].dry_run /\ bad = {} THEN "dry_run"
  ELSE IF refresh = request[b].datasets THEN "full_refresh_required"
  ELSE IF bad \cup refresh = {} THEN "success"
  ELSE IF good = {} THEN "failed" ELSE "partial_success"

Finish(b) ==
  /\ pc[b] = "next"
  /\ Remaining(b) = {}
  /\ pc' = [pc EXCEPT ![b] = "ended"]
  /\ status' = [status EXCEPT ![b] = DerivedStatus(b)]
  /\ UNCHANGED <<request, at, answer, outcome, stop, held, unsafe, moved, leaked>>

Run(b) ==
  \/ Aborts(b)
  \/ Skip(b)
  \/ EnterDry(b)
  \/ Acquire(b)
  \/ Unlocked(b)
  \/ EndsUnpublished(b)
  \/ EndsUnsafe(b)
  \/ BeginPublication(b)
  \/ Publish(b)
  \/ Release(b)
  \/ ReleaseFails(b)
  \/ Finish(b)

Next == \E b \in Batches : Run(b) \/ Revoke(b)

Spec == Init /\ [][Next]_vars
-----------------------------------------------------------------------------
(* What a batch promises.                                                  *)

\* A batch that is at a dataset and is to write it.
Working == {b \in Batches : pc[b] \in {"running", "publishing", "leaving"}
                           /\ ~request[b].dry_run}

\* The lock manager holds one key for every batch at work, no two of them are at
\* one dataset, and nothing else but the keys it failed to release: neither an
\* exception nor a stop leaves a key behind.
KeysAccounted ==
  /\ held = leaked \cup {at[b] : b \in Working}
  /\ \A b, c \in Working : b # c => at[b] # at[c]
  /\ \A b \in Working : at[b] \notin leaked

\* Every pointer that a batch moved is of a dataset it reports as success or,
\* when the check or the release failed after it, as failed; a job is completed
\* as success when that is true of all its datasets, and one that is failed, so
\* that it may be retried, has not published what it does not report failed.
ReportTrue ==
  \A b \in Batches : status[b] \in BatchStatuses =>
    /\ moved[b] \subseteq With(b, {"success", "failed"})
    /\ request[b].dry_run => moved[b] = {}
    /\ status[b] = "success" => With(b, {"success"}) = request[b].datasets
    /\ status[b] = "failed" => moved[b] \subseteq With(b, {"failed"})
    /\ status[b] \in {"dry_run", "full_refresh_required"} => moved[b] = {}

\* Under stop_on_failure everything after the first failure is skipped and left
\* untouched, under continue_on_failure nothing is, whatever other batches and
\* the lock manager do.
StopsAtFailure ==
  \A b \in Batches :
    /\ request[b].failure_policy = "continue_on_failure" => With(b, {"skipped"}) = {}
    /\ request[b].failure_policy = "stop_on_failure" =>
         \A d \in With(b, {"failed"}), e \in request[b].datasets : d < e =>
           outcome[b][e] \in {"none", "skipped"} /\ e \notin moved[b]
    /\ \A e \in With(b, {"skipped"}) : \E d \in With(b, {"failed"}) : d < e
=============================================================================
