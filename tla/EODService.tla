------------------------------ MODULE EODService ------------------------------
(***************************************************************************)
(* The EOD service as its operators see it: the commands of the CLI        *)
(* (market_data/operator_cli.py, operation_operator.py) submit jobs and    *)
(* retry them, a worker (operation_worker.py) runs them, and both read     *)
(* what the administrator has on disk at the moment they start.            *)
(*                                                                         *)
(* An action is what happens between two reads of shared state: the setup, *)
(* the job store and the generations.  Leases, locks, idempotency keys and *)
(* the files of a generation have modules of their own.                    *)
(***************************************************************************)
EXTENDS EODCatalog, EODBars, TLC

CONSTANTS
  Setups,    \* what is on disk, before and after each edit of the administrator
  Datasets,  \* all dataset keys, in the order of their identities
  Commands,  \* the submissions that operators try
  Days,
  MaxJobs    \* bound on the jobs that are submitted

VARIABLES
  edits,   \* the number of the setup that is on disk
  jobs,    \* the sequence of all jobs
  call,    \* the operator's command that is running
  worker,  \* the worker that is running
  data     \* data[<<root, dataset>>]: the bars of the current generation

vars == <<edits, jobs, call, worker, data>>

-----------------------------------------------------------------------------
(* The catalogs and runtimes of the setups                                 *)

CatalogError == [i \in DOMAIN Setups |->
  IF ~load_eod_operator_config(Setups[i]) THEN "config_invalid"
  ELSE operator_catalog_error(Setups[i])]

Catalog == [i \in DOMAIN Setups |->
  IF CatalogError[i] = Loaded THEN operator_catalog(Setups[i]) ELSE {}]

Loadable == {i \in DOMAIN Setups : CatalogError[i] = Loaded}

DatasetsOf(i) == {e.runtime.dataset : e \in Catalog[i]}

Context == [i \in Loadable |-> execution_context(Catalog[i])]

RuntimeOf(i, k) == EntryOf(Catalog[i], k).runtime

StoreOf(i, k) == <<RuntimeOf(i, k).root, k>>
Stores == UNION {{StoreOf(i, k) : k \in DatasetsOf(i)} : i \in Loadable}

\* The administrator gives a calendar that says something else a new version:
\* its identity does not cover its days.
ASSUME VersionedCalendars ==
  \A i, j \in Loadable : \A k \in DatasetsOf(i), l \in DatasetsOf(j) :
    RuntimeOf(i, k).calendar.identity = RuntimeOf(j, l).calendar.identity
    => RuntimeOf(i, k).calendar = RuntimeOf(j, l).calendar

\* planning.py: EODRevisionPolicy.__post_init__.
Policies ==
  [strategy : {"append_only", "full_refresh_required"}, overlap : {0}]
    \cup [strategy : {"overlap_window"}, overlap : Nat \ {0}]

\* Lists are finite, Datasets names every dataset, and Days every session.
ASSUME ServiceAssumption ==
  /\ IsSequence(Setups) /\ Setups # <<>>
  /\ \A i \in DOMAIN Setups :
       /\ IsSequence(Setups[i].entries)
       /\ \A file \in DOMAIN Setups[i].configs :
            IsSequence(Setups[i].configs[file].providers)
  /\ IsSequence(Datasets)
  /\ \A command \in Commands :
       /\ {command.dry, command.execute, command.all} \subseteq BOOLEAN
       /\ IsSequence(command.selectors)
       /\ command.policy \in Policies
  /\ Days \subseteq Nat /\ IsFiniteSet(Days)
  /\ \A i \in Loadable : \A k \in DatasetsOf(i) :
       k \in ToSet(Datasets) /\ RuntimeOf(i, k).calendar.open \subseteq Days

-----------------------------------------------------------------------------
(* operator_cli.py: exit codes                                             *)

InputErrors == {"invalid_input", "duplicate_selector",
                "execute_confirmation_required", "config_invalid"}

exit_code(outcome) ==
  CASE outcome \in InputErrors -> 2
    [] outcome \in {Loaded, "no_work", "job_completed"} -> 0
    [] outcome = "worker_unsafe" -> 4
    [] OTHER -> 3   \* the job failed, or an error that is not the input's

-----------------------------------------------------------------------------
(* operation_operator.py: submissions                                      *)

NoRequest == [type |-> "none", datasets |-> <<>>, range |-> AnyRange,
              policy |-> [strategy |-> "append_only", overlap |-> 0],
              stop |-> TRUE, dry |-> TRUE, setup |-> 1]

EntriesNamed(i, storage) == {e \in Catalog[i] : e.storage = storage}

entry_error(i, storage) ==
  IF EntriesNamed(i, storage) = {} THEN "storage_identity_not_found"
  ELSE IF \E e \in EntriesNamed(i, storage) : ~e.enabled THEN "dataset_disabled"
  ELSE Loaded

\* _datasets of a batch; a single selector of the other commands.
selector_error(i, command) ==
  LET wrong == {n \in DOMAIN command.selectors :
                  entry_error(i, command.selectors[n]) # Loaded}
  IN  IF ~NoRepetition(command.selectors) THEN "duplicate_selector"
      ELSE IF command.all = (command.selectors # <<>>) THEN "invalid_input"
      ELSE IF wrong # {} THEN entry_error(i, command.selectors[Min(wrong)])
      ELSE IF command.all /\ EnabledEntries(Catalog[i]) = {} THEN "invalid_input"
      ELSE Loaded

Selected(i, command) ==
  {e.runtime.dataset : e \in {e \in Catalog[i] :
     IF command.all THEN e.enabled ELSE e.storage \in ToSet(command.selectors)}}

\* The request keeps the context of the setup it was made under.
RequestOf(i, command) ==
  [type |-> command.type,
   datasets |-> Picked(Datasets, {n \in DOMAIN Datasets : Datasets[n] \in Selected(i, command)}),
   range |-> command.range, policy |-> command.policy,
   stop |-> command.stop, dry |-> command.dry, setup |-> i]

submission_error(i, command) ==
  IF command.dry = command.execute THEN "invalid_input"
  ELSE IF CatalogError[i] # Loaded THEN CatalogError[i]
  ELSE selector_error(i, command)

NoCall == [state |-> "idle", request |-> NoRequest, retry_of |-> 0,
           execute |-> FALSE, exit |-> 0]

\* A command ends: its exit code is what the operator learns.
Ended(outcome) == [NoCall EXCEPT !.exit = exit_code(outcome)]

CallFree == call.state = "idle" /\ Len(jobs) < MaxJobs

\* submit.*: the catalog is loaded, the selectors looked up and the request made.
SubmitCommand(command) ==
  /\ CallFree
  /\ call' = IF submission_error(edits, command) # Loaded
             THEN Ended(submission_error(edits, command))
             ELSE [NoCall EXCEPT !.state = "storing",
                                 !.request = RequestOf(edits, command),
                                 !.execute = command.execute]
  /\ UNCHANGED <<edits, jobs, worker, data>>

\* Mutant of retry_error: a retry needs no confirmation.
retry_error_Unconfirmed(j, execute) ==
  IF j \notin DOMAIN jobs THEN "job_not_found"
  ELSE IF jobs[j].phase \notin {"failed", "abandoned"} THEN "retry_status_invalid"
  ELSE Loaded

retry_error(j, execute) ==
  IF j \notin DOMAIN jobs THEN "job_not_found"
  ELSE IF jobs[j].phase \notin {"failed", "abandoned"} THEN "retry_status_invalid"
  ELSE IF ~jobs[j].request.dry /\ ~execute THEN "execute_confirmation_required"
  ELSE Loaded

\* jobs.retry: the predecessor is read before the catalog is loaded.
RetryRead(j, execute) ==
  /\ CallFree
  /\ call' = IF retry_error(j, execute) # Loaded
             THEN Ended(retry_error(j, execute))
             ELSE [NoCall EXCEPT !.state = "retrying", !.request = jobs[j].request,
                                 !.retry_of = j, !.execute = execute]
  /\ UNCHANGED <<edits, jobs, worker, data>>

RetryLoadCatalog ==
  /\ call.state = "retrying"
  /\ call' = IF CatalogError[edits] # Loaded THEN Ended(CatalogError[edits])
             ELSE IF Context[call.request.setup] # Context[edits]
             THEN Ended("retry_context_stale")
             ELSE [call EXCEPT !.state = "storing"]
  /\ UNCHANGED <<edits, jobs, worker, data>>

\* Equal requests have one fingerprint, which covers their context.
SameRequest(a, b) ==
  [a EXCEPT !.setup = 1] = [b EXCEPT !.setup = 1] /\ Context[a.setup] = Context[b.setup]

\* A submission of what is queued or running already joins that job.
StoreJob ==
  /\ call.state = "storing"
  /\ jobs' = IF \E j \in DOMAIN jobs : /\ jobs[j].phase \in {"queued", "running"}
                                       /\ SameRequest(jobs[j].request, call.request)
             THEN jobs
             ELSE Append(jobs, [request |-> call.request, retry_of |-> call.retry_of,
                                confirmed |-> call.execute, phase |-> "queued",
                                outcome |-> "none", ran |-> 0])
  /\ call' = Ended(Loaded)
  /\ UNCHANGED <<edits, worker, data>>

-----------------------------------------------------------------------------
(* operation_worker.py: what a job does to one dataset                     *)

Planning(TradingDays, Adjusted, MaxOverlap, NoRange) == INSTANCE EODPlanning

DatesIn(bars) == {bars[n].date : n \in DOMAIN bars}

PlanFor(runtime, expectation, bars, request) ==
  Planning(runtime.calendar.open, runtime.dataset.adjustment # "none",
           request.policy.overlap, AnyRange)
    !Plan(DatesIn(bars), ConfirmedAbsent(expectation), request.range, request.policy)

\* What the endpoints of a provider may answer: any of the days of the
\* calendar, each with the numbers of this provider and of this chain.
Answers(runtime, name) ==
  {[outcome |-> "answer", columns |-> TRUE,
    rows |-> [n \in 1..Cardinality(S) |->
      [symbol |-> runtime.dataset.symbol, fault |-> "none",
       date   |-> Ascending(S)[n],
       close  |-> <<name, runtime.providers>>]]] : S \in SUBSET Days}

\* The results the coordinators accept: those the chain calls complete.
Fetched(runtime, r) ==
  {result.bars : result \in
     {result \in
        UNION {{fetch(name, runtime.dataset, r, runtime.calendar,
                      ProviderExpectation(runtime, name), answer) :
                  answer \in Answers(runtime, name)} :
               name \in ToSet(runtime.providers)} :
      result.error = Loaded /\ result.status = "success"}}

\* Constant, and computed once.
FetchedBars ==
  [key \in UNION {{i} \X DatasetsOf(i) \X {r \in [first : Days, last : Days] :
                                             r.first <= r.last} : i \in Loadable}
     |-> Fetched(RuntimeOf(key[1], key[2]), key[3])]

\* What is stored before the requested days stays, and so does what is after.
Merged(bars, fetched, request) ==
  Picked(bars, {n \in DOMAIN bars : bars[n].date < request.first}) \o fetched
    \o Picked(bars, {n \in DOMAIN bars : bars[n].date > request.last})

\* _validate_candidate: the whole candidate, and its effective range.
CandidateValid(runtime, expectation, plan, candidate) ==
  LET valid(r) == validate_eod_batch(runtime.dataset, candidate, runtime.calendar,
                                     r, expectation)
  IN  /\ \A n \in DOMAIN candidate : candidate[n].date <= plan.effective.last
      /\ valid(AnyRange).errors = {} /\ valid(AnyRange).repeats = {}
      /\ valid(plan.effective).missing_expected_observation_dates = {}

\* complete: whether the providers returned a complete result (history).
Outcome(status, bars, complete) ==
  [status |-> status, bars |-> bars, complete |-> complete]

\* What becomes of fetched bars.
Published(runtime, expectation, plan, bars, candidate) ==
  IF CandidateValid(runtime, expectation, plan, candidate)
  THEN Outcome("success", candidate, TRUE)
  ELSE Outcome("failed", bars, TRUE)

Plannable(runtime, request) == HasTradingDays(runtime.calendar, request.range)

\* EODBatchCoordinator._run_dataset around EODIncrementalCoordinator.update.
UpdateOutcomes(i, k, bars, request) ==
  LET runtime == RuntimeOf(i, k)
      plan    == PlanFor(runtime, runtime.expectation, bars, request)
      quiet   == IF request.dry THEN "dry_run" ELSE "success"
  IN  IF ~Plannable(runtime, request) \/ plan.status = "invalid"
      THEN {Outcome("failed", bars, FALSE)}
      ELSE IF plan.status = "full_refresh_required"
      THEN {Outcome("full_refresh_required", bars, FALSE)}
      ELSE IF plan.request = AnyRange \/ request.dry
      THEN {Outcome(quiet, bars, FALSE)}
      ELSE {Outcome("failed", bars, FALSE)} \cup
           {Published(runtime, runtime.expectation, plan, bars,
                      Merged(bars, fetched, plan.request)) :
              fetched \in FetchedBars[<<i, k, plan.request>>]}

\* EODFullRefreshExecutor as the worker makes it: the evidence of absent days
\* of the runtime is not handed on to it.
WorkerExpectation(runtime) == Strict

RefreshOutcomes(i, k, bars, request) ==
  LET runtime == RuntimeOf(i, k)
      plan    == PlanFor(runtime, WorkerExpectation(runtime), bars, request)
  IN  IF ~Plannable(runtime, request) \/ plan.status = "invalid"
      THEN {Outcome("failed", bars, FALSE)}
      ELSE IF plan.status # "full_refresh_required"
      THEN {Outcome("full_refresh_not_eligible", bars, FALSE)}
      ELSE IF request.dry THEN {Outcome("dry_run", bars, FALSE)}
      ELSE {Outcome("failed", bars, FALSE)} \cup
           {Published(runtime, WorkerExpectation(runtime), plan, bars, fetched) :
              fetched \in FetchedBars[<<i, k, plan.effective>>]}

MaintenanceOutcomes(bars) ==
  {Outcome(status, bars, FALSE) :
     status \in {"maintenance_empty", "maintenance_inspected", "maintenance_cleaned",
                 "maintenance_blocked", "failed"}}

Outcomes(i, k, bars, request) ==
  CASE request.type = "full_refresh" -> RefreshOutcomes(i, k, bars, request)
    [] request.type = "maintenance"  -> MaintenanceOutcomes(bars)
    [] OTHER                         -> UpdateOutcomes(i, k, bars, request)

\* EODBatchResult._derived_status.
batch_status(dry, statuses) ==
  LET all == ToSet(statuses) IN
  IF dry /\ all \cap {"failed", "skipped"} = {} THEN "dry_run"
  ELSE IF all = {"full_refresh_required"} THEN "full_refresh_required"
  ELSE IF all \cap {"success", "dry_run"} = {} THEN "failed"
  ELSE IF all \subseteq {"success", "dry_run"} THEN "success"
  ELSE "partial_success"

\* _map_result: the result code of the job, or "failed".
result_code(request, statuses) ==
  IF request.type \in {"full_refresh", "maintenance"} THEN statuses[1]
  ELSE batch_status(request.dry, statuses)

-----------------------------------------------------------------------------
(* operation_worker.py: run_one and run_forever                            *)

\* last: what run_one returned; job: the job it returned it for.
NoWorker == [state |-> "off", setup |-> 1, job |-> 0, error |-> Loaded,
             statuses |-> <<>>, complete |-> FALSE, last |-> "none"]

Running(job) == [job EXCEPT !.phase = "running", !.ran = worker.setup]

\* worker.run_one without --execute does not get past the parser, and without a
\* catalog it ends at once.
StartWorker ==
  /\ worker.state = "off" /\ CatalogError[edits] = Loaded
  /\ worker' = [NoWorker EXCEPT !.state = "ready", !.setup = edits]
  /\ UNCHANGED <<edits, jobs, call, data>>

\* mark_expired_running_abandoned: no worker that is alive has the job.
RecoverJobs ==
  [j \in DOMAIN jobs |->
     IF jobs[j].phase = "running" THEN [jobs[j] EXCEPT !.phase = "abandoned"]
     ELSE jobs[j]]

Queued == {j \in DOMAIN jobs : jobs[j].phase = "queued"}

\* Mutant of preflight_error: only the datasets are looked up.
preflight_error_NoContext(i, request) ==
  LET wrong == {n \in DOMAIN request.datasets :
                  require_enabled(Catalog[i], request.datasets[n]) # Loaded}
  IN  IF wrong # {} THEN require_enabled(Catalog[i], request.datasets[Min(wrong)])
      ELSE Loaded

preflight_error(i, request) ==
  LET wrong == {n \in DOMAIN request.datasets :
                  require_enabled(Catalog[i], request.datasets[n]) # Loaded}
  IN  IF wrong # {} THEN require_enabled(Catalog[i], request.datasets[Min(wrong)])
      ELSE IF Context[request.setup] # Context[i] THEN "execution_context_mismatch"
      ELSE Loaded

\* The oldest job is claimed; the worker runs it only in the context it was
\* submitted in.
ClaimJob ==
  /\ worker.state = "ready" /\ Queued # {}
  /\ LET j == Min(Queued) IN
     /\ jobs' = [RecoverJobs EXCEPT ![j] = Running(jobs[j])]
     /\ worker' = [worker EXCEPT !.state = "running", !.job = j, !.last = "none",
                                 !.error = preflight_error(worker.setup, jobs[j].request)]
  /\ UNCHANGED <<edits, call, data>>

NoWork ==
  /\ worker.state = "ready" /\ Queued = {}
  /\ jobs' = RecoverJobs
  /\ worker' = [worker EXCEPT !.job = 0, !.last = "no_work"]
  /\ UNCHANGED <<edits, call, data>>

RunDataset ==
  LET request == jobs[worker.job].request
      n       == Len(worker.statuses) + 1
      k       == request.datasets[n]
      store   == StoreOf(worker.setup, k)
      stopped == /\ request.type = "incremental_batch" /\ request.stop
                 /\ "failed" \in ToSet(worker.statuses)
  IN  /\ worker.state = "running" /\ worker.error = Loaded
      /\ n <= Len(request.datasets)
      /\ \E outcome \in
            IF stopped THEN {Outcome("skipped", data[store], FALSE)}
            ELSE Outcomes(worker.setup, k, data[store], request) :
           /\ data' = [data EXCEPT ![store] = outcome.bars]
           /\ worker' = [worker EXCEPT !.statuses = Append(@, outcome.status),
                                       !.complete = outcome.complete]
      /\ UNCHANGED <<edits, jobs, call>>

\* _finish: the terminal transition.
FinishJob ==
  LET request == jobs[worker.job].request
      code    == IF worker.error # Loaded THEN worker.error
                 ELSE result_code(request, worker.statuses)
      failed  == worker.error # Loaded \/ code = "failed"
  IN  /\ worker.state = "running"
      /\ worker.error = Loaded => Len(worker.statuses) = Len(request.datasets)
      /\ jobs' = [jobs EXCEPT
           ![worker.job].phase   = IF failed THEN "failed" ELSE "succeeded",
           ![worker.job].outcome = code]
      /\ worker' = [worker EXCEPT
           !.state = "ready", !.error = Loaded, !.statuses = <<>>, !.complete = FALSE,
           !.last  = IF failed THEN "job_failed" ELSE "job_completed"]
      /\ UNCHANGED <<edits, call, data>>

\* run_one was the command, or the event of run_forever is set.
StopWorker ==
  /\ worker.state = "ready" /\ worker.last # "none"
  /\ worker' = [worker EXCEPT !.state = "off"]
  /\ UNCHANGED <<edits, jobs, call, data>>

\* The worker can no longer trust its lease, or its process dies: the job stays
\* running until a later run finds its lease expired.
LoseWorker ==
  /\ worker.state = "running"
  /\ worker' = [NoWorker EXCEPT !.job = worker.job, !.last = "worker_unsafe"]
  /\ UNCHANGED <<edits, jobs, call, data>>

\* The administrator changes files; what has been loaded stays loaded.
Edit ==
  /\ edits < Len(Setups)
  /\ edits' = edits + 1
  /\ UNCHANGED <<jobs, call, worker, data>>

Init ==
  /\ edits = 1
  /\ jobs = <<>>
  /\ call = NoCall
  /\ worker = NoWorker
  /\ data = [store \in Stores |-> <<>>]

Next ==
  \/ \E command \in Commands : SubmitCommand(command)
  \/ \E j \in 1..MaxJobs, execute \in BOOLEAN : RetryRead(j, execute)
  \/ RetryLoadCatalog \/ StoreJob
  \/ StartWorker \/ ClaimJob \/ NoWork \/ RunDataset \/ FinishJob
  \/ StopWorker \/ LoseWorker
  \/ Edit

Spec == Init /\ [][Next]_vars
-----------------------------------------------------------------------------
(* What operators and the administrator rely on.                           *)

\* What the fingerprint of the context leaves out on purpose: where the
\* generations are stored.
Relocated(runtime) == [runtime EXCEPT !.root = NoPath]

\* A job runs with the calendar, the evidence of absent days, the providers and
\* their policies that it was submitted with, whatever was edited while it was
\* queued, while its worker was running, or before its retry.
RunsAsSubmitted ==
  worker.state = "running" /\ worker.error = Loaded =>
    LET request == jobs[worker.job].request IN
    \A k \in ToSet(request.datasets) :
      Relocated(RuntimeOf(worker.setup, k)) = Relocated(RuntimeOf(request.setup, k))

Entries(i) ==
  {[e EXCEPT !.runtime = Relocated(e.runtime)] : e \in Catalog[i]}

\* The other direction: a job that is refused for its context meets another
\* setup; that generations were moved is no reason.
ContextFailureIsReal ==
  \A j \in DOMAIN jobs :
    jobs[j].outcome = "execution_context_mismatch" =>
      Entries(jobs[j].request.setup) # Entries(jobs[j].ran)

\* Bars are written only by a job that an operator submitted or retried with
\* --execute: no dry run and no unconfirmed retry ever writes.
OnlyConfirmedWorkWrites ==
  [][data' # data =>
       /\ ~jobs[worker.job].request.dry
       /\ jobs[worker.job].confirmed]_vars

\* Bars that one chain of equity providers fetched have the same units: if one
\* of its providers was never compared with the source, no other one of the
\* chain has bars in the same generation.
SameChainSameUnits ==
  \A store \in Stores :
    store[2].asset = "equity" =>
      \A n, m \in DOMAIN data[store] :
        LET a == data[store][n].close
            b == data[store][m].close
        IN  a[2] = b[2] /\ a[1] # b[1] => lookup(a[1]).verified /\ lookup(b[1]).verified

-----------------------------------------------------------------------------
(* Readiness of what is stored                                             *)

LastStored(bars) == IF bars = <<>> THEN NoDate ELSE Max(DatesIn(bars))

\* The sessions of the range up to d that should have brought a bar after the
\* last stored one.
Missed(runtime, bars, d) ==
  {e \in runtime.calendar.open \ ConfirmedAbsent(runtime.expectation) :
     LastStored(bars) < e /\ e <= d}

Assessed(i, d) ==
  LET enabled == {e.runtime.dataset : e \in EnabledEntries(Catalog[i])} IN
  evaluate_eod_provider_readiness(
    (CHOOSE e \in EnabledEntries(Catalog[i]) : TRUE).runtime.calendar, d,
    [k \in enabled |-> LastStored(data[StoreOf(i, k)])],
    [k \in enabled |-> RuntimeOf(i, k).expectation], "none")

\* Readiness counts expected sessions: ready is to have missed none, stale to
\* have missed two or more of a dataset that has bars, however many closed or
\* absent days are among them.
ReadinessCountsMissedSessions ==
  \A d \in Days : \A i \in {edits} \cap Loadable :
    LET enabled   == {e.runtime.dataset : e \in EnabledEntries(Catalog[i])}
        assessed  == Assessed(i, d).status
        missed(k) == Cardinality(Missed(RuntimeOf(i, k), data[StoreOf(i, k)], d))
        dated     == {k \in enabled : data[StoreOf(i, k)] # <<>>}
    IN  assessed \notin {"raises", "not_expected"} =>
          /\ (assessed = "ready") = (\A k \in enabled : k \in dated /\ missed(k) = 0)
          /\ (assessed = "stale") = (\E k \in dated : missed(k) >= 2)

-----------------------------------------------------------------------------
(* docs/data-source-plan.md: provider validation, incremental coordinator, *)
(* explicit full refresh and readiness use the same expectation.           *)

\* A full refresh for which the provider returned all that is expected does not
\* fail.
CompleteRefreshSucceeds ==
  worker.state = "running" /\ worker.complete
    /\ jobs[worker.job].request.type = "full_refresh" =>
      ToSet(worker.statuses) = {"success"}
=============================================================================
