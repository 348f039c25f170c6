# A TLA+ verification of AutoWealth AI

The repository is a Python research platform. Three of its parts are modelled here.

* **The EOD core** (`autowealth/market_data`): a durable queue of operations on
  end-of-day (EOD) price datasets, workers that execute them under a lease, and a
  directory format in which each dataset is published as immutable generations. Its
  correctness depends on the order of events.
* **The EOD service** around it: what operators and the administrator see. Commands,
  configuration files, provider capabilities, calendars and evidence of absent days are
  read at different moments while somebody edits them.
* **The research pipeline** (`autowealth/research` and what it calls): from prices and
  reports through factors, weights and a backtest to a published run, with caches that
  several runs share without a lock.

`PROJECT.json` maps each definition to its source lines.

## Inventory

Paths of the first table are below `src/autowealth/market_data/`.

| component | state it keeps | operations | hard behaviour |
|---|---|---|---|
| job repository (`job_repository.py`, records in `operations.py`) | SQLite tables `jobs` and `idempotency_bindings` | `submit`, `claim_next`, `renew_lease`, `complete`, `fail`, `mark_expired_running_abandoned` | concurrent callers, stale clock readings, repeated submissions, retry chains, lease expiry |
| operation worker (`operation_worker.py`, `operation_control.py`) | per process: lease controller, heartbeat thread, stop event | `run_one`, `run_forever`, `_heartbeat_loop`, `_finish` | two threads over one snapshot, crash and restart, renewals that fail or come late |
| file repository (`repositories.py`) | `generations/<id>/`, `current.json`, staging directories, pointer temporaries | `publish`, `load_current`, `load_generation` | crash between any two file-system steps, readers in between |
| dataset lock and batch (`batch.py`) | `_held_keys` of the process | `acquire`, `release`, `run` | exclusion of updates and maintenance, one dataset of several failing, records of what happened |
| incremental coordinator (`coordinator.py`) | none | `update`: load, plan, fetch, merge, validate, publish, verify | time between load and publish, a rival of another process |
| full refresh (`full_refresh.py`) | none | `execute` | the same, with replacement instead of merge |
| maintenance (`maintenance.py`) | none | `execute`: inspect, delete, verify; dry run | deletes what looks like rubbish while others write; a dry run reads without the lock |
| request planner (`planning.py`) | none | `plan_eod_request_window` | window boundaries |
| provider chain (`provider_chain.py`, `provider_resilience.py`) | limiter: last call per endpoint | `fetch`, `acquire` | bounded retry, fallback, partial results, diagnostics that check themselves |
| operator facade and CLI (`operation_operator.py`, `operator_cli.py`) | none | submit, retry, list, run one worker | read and write in separate transactions |
| configuration and catalog (`operator_config.py`, `operation_catalog.py`, `composition.py`) | files of the administrator | load, compose, fingerprint of the context | edited between submission, claim and retry |
| capabilities (`capability_registry.py`, `providers.py`) | immutable | compatibility of providers | units of one generation |
| adapters, conversion, normalisation, validation | none | frames to bars | rows that lie about symbol, date or number |
| calendar, observation, readiness (`local_calendar.py`, `local_observation.py`, `readiness.py`) | artifacts written by people | load, expect, assess | closed, absent and missed days |

Outside `market_data`, below `src/autowealth/`:

| component | state it keeps | operations | hard behaviour |
|---|---|---|---|
| research pipeline (`research/real_pipeline.py`) | none of its own | `run_real_data_research` | point in time, every stage may lose symbols |
| price and report cache (`data/cache.py`) | a Parquet file and a sidecar per symbol and window | load, store | rows of one writer under the sidecar of another |
| benchmark chain (`data/index_provider_chain.py`, `index_quality.py`, `index_provider.py`) | metadata file, data files of two layouts | `load`, fallback, commit | two writers, crash between data and metadata |
| factors (`factors/`), macro (`macro/`) | none | scores, regime, position multiplier | missing numbers, boundaries, as-of dates |
| portfolio builder (`portfolio/`), backtester (`backtest/`) | none | target weights; trades and values | caps, rounding, cash |
| artifacts and run store (`research/artifacts.py`, `run_store.py`, `warnings.py`) | `runs/<id>/`, staging directories | publish, list, load | crash while writing, readers in between, what one writes and another reads |
| HTTP API, security, localisation, clients, sentiment, NLP, learning, agents, alerts | | | not modelled |

How they interact. A caller (CLI, facade) loads the catalog and submits a request to
the job repository, with the fingerprint of the context it was made in. A worker process
loads the catalog for itself, claims the oldest job, compares the contexts, starts a
heartbeat thread that renews the lease, and runs the batch, full refresh or maintenance the
job asks for. Before every controlled effect the running code calls the lease controller
(a checkpoint). Updates take the dataset lock of the process, load the current
generation, plan and fetch through the provider chain, merge, and publish through the
file repository. Finally the worker joins the heartbeat, renews once more and writes
the terminal status. A worker that loses its lease or dies leaves its job `running`
until some worker's recovery gives it up as `abandoned`. A research run is a process
of its own and knows nothing of the queue: it shares its cache and its output
directory with other runs through the file system only.

What makes each part correct:

* job repository: one active job per request; keys and answers are kept; every
  row written can be read again; statuses only move forward; leases are honoured;
* worker: a snapshot that has not expired means ownership; a failed renewal is
  never turned into a result; every job is settled;
* file repository: generations are whole and immutable; the pointer names a whole
  one; a reader is never disturbed;
* dataset operations: no update of the process is lost; maintenance spares what is
  in use, is blocked by nothing but its limits, and tells what it did;
* planner and coordinator: no sequence of calls loses history or makes a hole that
  nobody asked for; a repeated call finds nothing to do; what the caller is told of a
  publication is true, also when it ended in an error;
* provider chain: a fetch makes the most of what the providers offer, repeats what
  is worth repeating, never outruns the limiter, and tells all of it;
* batch: no key of the lock is left behind, what is reported agrees with what was
  published, the failure policy is kept, and no dataset's record is lost;
* service: a job runs in the context it was submitted in and is refused in no other
  case; a generation has one unit; readiness counts sessions; nothing writes without
  confirmation;
* research: no weight knows the future; what a run claims of its publication dates is true; the
  backtester takes every schedule the pipeline builds; the benchmark's metadata
  names its data; published runs are complete, fixed and readable.

The hazards behind these properties are listed in `PROJECT.json` at their lines.

## Modules

### EODJobRepository, refining EODJobLifecycle

Each public method of `LocalEODOperationJobRepository` is one transaction opened
with `BEGIN IMMEDIATE`, hence one action. `jobs[j]` is a row; an unused identity is
`absent`. `Submit` has one disjunct per outcome of `submit`: a bound key
(replay or conflict), an invalid retry link, an active job to join (with the alias
limit), a new job. `ValidRetry` is the walk of `_validate_retry`: it exists exactly
when the chain ends, without repetition, in jobs that failed or were abandoned
with the same fingerprint; it is stated with a set of visited jobs rather than
recursively so that it can be proved about. The claim validates the record it
stores, so a time before `created_at` raises; `Finish` and `RenewLease` go through
`_owned_running`. A call that raises rolls back and is a stuttering step; the
answers of `submit` are kept in `reply`.

Time: callers read the clock before the transaction gets the write lock. An action
is given any reading `t` with `t + MaxLag >= now`. `claim_version` is always 1 and
is left out. `mark_expired_running_abandoned` takes at most 256 jobs; the model
gives up all expired jobs at once, which is the same as long as no more than 256
are expired together. `EODJobLifecycle` promises the forward-only life of a job
and keys that never move, and knows no clock, lease or worker.

### EODOperationWorker

Several worker processes over one `EODJobRepository` (by INSTANCE). `pc[w]` is the
place of the main thread in `run_one`, `heart[w]` the heartbeat thread,
`control[w]` the `EODLeaseController`. The renewal in the store and the update of
the controller are two actions, as they are in `_renew`. The domain call is
abstracted to any number of checkpoint/effect pairs followed by an outcome. While
`now <= FaultHorizon` transactions fail, heartbeats cannot be started and
processes die at any step; the horizon is the end of the run in the safety
configuration, where faults never stop. `WORKER_UNSAFE` and `WORKER_FATAL` end
`run_forever`; `Restart` is the operator's or the service manager's.

### EODFileRepository, refining EODGenerationStore

`publish` is cut at every step on the file system: staging directory, Parquet,
manifest, rename, temporary, replace. Any step may raise (`PublishFails` is the
`finally` block) and the cleanup itself may fail or the process die (`Crash`
leaves stale artifacts, which are counted). `load_current` is three actions,
pointer, manifest, Parquet. Equal checksums are taken to mean equal bars, so
content is a model value and a directory is verified when its Parquet file is the
one its manifest describes. Reads of one file, `rename` and `replace` are atomic, as
POSIX promises for a local file system. `EODGenerationStore` is a register of
immutable generations with an atomic activation.

### EODDatasetOperations

One process, one dataset, several threads: updates and maintenance under the
non-blocking `InProcessEODDatasetLockManager`, over the file repository. `release`
does not check who acquired, as in the code. An update remembers the generation it
loaded as `base`; after the activation the manifest's previous generation is
compared with it (`_validate_published_manifest`), and a difference is the state
`mismatch`. Maintenance inspects, deletes one artifact at a time, and inspects
again; a difference is the state `unverified`. `Blocked` has the reasons for which
`_inspect` refuses a cleanup that can arise without foreign files: too many
artifacts, an unverified generation, generations without a pointer, a lineage that
is broken, cyclic or too deep. Foreign names and symbolic links are left out.

### EODMaintenanceRecords

What maintenance tells, on top of EODDatasetOperations: the inspection (`Walk` is the
lineage as far as the limit lets it be followed), the result or error of a cleanup, and
the dry run, which takes no lock. A result that its constructor refuses is a `ValueError`
that leaves `execute`; it is the record `Refused`.

A dry run reads one thing after another, each read a step between those of the other
threads: the names in the dataset directory (`ListRoot`), whether the pointer is there
(`LookForCurrent`), what each listed entry is, one at a time (`LookAt`), the generations
(`ListGenerations`) and the current generation (`TellDryRun`). `Follow` is what a step of
another thread does to it: a staging directory or temporary that was listed and is renamed or deleted
before it is looked at is neither a directory nor a file, and becomes an unsafe artifact that blocks.
So a dry run that others disturb may be blocked for no lasting reason, and `CleansUpToLimits` exempts
it; `UndisturbedTold` says that one during which no thread held the lock (`quiet`) tells exactly
what an inspection under the lock would. Taken as one step are the listing of one directory
(`os.listdir`), and the listing of `generations/` with the loading of what it named, because a
generation never changes and is never removed. A dry run begins and ends in the process of the
others, so that a crash ends it too.

### EODPlanning and EODIncrementalUpdate

`EODPlanning` is `plan_eod_request_window` as operators: the outcomes in the order
of the function's returns (`Status`), the range of expected days (`Effective`) and
the range to fetch (`RequestStart`). `EODIncrementalUpdate` puts them to work on
the history of one dataset: `bars` is the current generation, `absent` the days
confirmed absent by the observation artifact. One action is one call under the
dataset lock, from planning to publication: `Update` is
`EODIncrementalCoordinator.update`, `FullRefresh` the locked part of
`EODFullRefreshExecutor`, `NewEvidence` the deployment of another artifact. The
provider's answer is any set of bars in the requested range; `Conflict` and
`Publishable` are the checks of `_merge` and `_validate_candidate`. A call that
raises, plans nothing to fetch or finds the content unchanged stutters.
`unfetched` and `last` are history variables of the model: the days no call was
asked for, and the plan of the last publication under the present evidence.

The code lets a hole arise in one way, and its tests expect it: a range that
begins after the last stored day is fetched from its own beginning, and the
days in between are never asked for (`Jumped`). `already_current` looks only at the
first and last stored day. `HolesExplained` says that there is no other way but
evidence that is withdrawn, and `Repairable` that one overlap refresh can fill
the holes. A full refresh replaces the history by the effective range of the
call, which may begin or end elsewhere, and is exempt from `NothingLost`. Dates
outside the calendar and rows of a day that come twice are errors, and left out.

### EODUpdateRecords

What each of these calls returns or raises, in the order of the early returns of
`update` and `execute`: every result and error is a record whose constructor checks it,
and a refused one would surface as a `ValueError`, after a publication as well as before.
`Rival` is the manifest another process published between the load and the publication of
a call, which the lock of this process cannot prevent: the call replaces it, finds at its
last check that its predecessor is not the one it loaded, and must not call that a success.
`report` is what the last call told.

### EODProviderChain

Several fetches, each in a thread of its own, over one `EODProviderChain` and its
`MinimumIntervalEODProviderRateLimiter`. `pc[c]` is the place of call `c` in `fetch`:
`next` provider, `backoff`, `acquire` and `waiting` in the limiter, `granted` (before the
checkpoint), `cleared`, `invoked`, `stage` (before the last checkpoint), `done`. A
provider answers with one of the error codes, a complete, empty or partial result;
partial results are told apart by a rank that stands for rows, first and last date in
`_partial_rank`. `holder[k]` is the limiter's lock of an endpoint, kept while its holder
sleeps; `WaitFails` is a clock or a sleeper that raises inside it. `Revoke` is the
heartbeat that marks the controller unsafe.

Time is relative: `Tick` shortens every sleep and lengthens `age`, the time since the
last last grant, up to the interval. `started`, `spent` and `late` are history variables.

### EODChainRecords

The diagnostics of the chain, beside each of its actions: a record of every invocation
with the sleeps before it, of every provider with its invocations, and of the whole fetch.
The result's constructor takes exactly one selected provider, the error's none. What
the messages say is left out.

### EODBatch

Several batches in threads of one process, over one lock manager. `pc[b]` is the place
of batch `b` in `EODBatchCoordinator.run`: `next` dataset, `running` the coordinator,
`publishing` (its last checkpoint has passed), `leaving` (the `finally` block), `ended`.
Datasets are numbers in the order of their identities, the order in which
`EODBatchRequest` sorts them. What an update computes is left to `EODDatasetOperations`
and `EODIncrementalUpdate`; here an update fails, succeeds with or without a
publication, needs a full refresh, or raises because a checkpoint does. The lock manager
is any implementation of the protocol: an acquisition may raise, a release may raise
with or without having released the key. `moved` and `leaked` are history variables: the
pointers a batch moved, and the keys whose release failed. A batch that raises has no
result; the worker then stops as `WORKER_UNSAFE` and does not finish the job.

### EODBatchRecords

The record of every dataset, made from the update's result or error, from the lock or
from the stop of the batch, and the counts of the batch. `_execute_coordinator` catches
`EODIncrementalCoordinatorError` only: a record that its constructor refused would take the
results of all datasets with it.

### EODService, over EODCatalog, EODCapabilities, EODBars, EODObservation

The four modules below are operators, one per loader or check of the code, in the
order in which it refuses. `EODObservation` loads calendars and evidence of absent days;
an artifact is a record of what it says, right or wrong. `EODCapabilities` says which
provider can serve which dataset, and in which units. `EODCatalog` goes from the
administrator's files to the catalog of runtimes, and has `execution_context`, of which the
context fingerprint is the digest. `EODBars` goes from the rows of an endpoint to bars.
The second half of `EODObservation` is the readiness of a scope on a day.

`EODService` puts them together. An action is what happens between two reads of shared
state: `SubmitCommand` and `RetryRead`, `RetryLoadCatalog`, `StoreJob` are the commands;
`StartWorker`, `ClaimJob` (with recovery and preflight), `NoWork`, `RunDataset`, `FinishJob`,
`StopWorker` the worker; `LoseWorker` its crash or lost lease; `Edit` the administrator's next
setup. The outcome of one dataset (`Outcomes`) is computed with the planner and the provider
answers of `EODBars`; leases, locks, keys and files are in the modules above.

### ResearchRun, refining RunCatalogue

Whole runs, each a process of its own. `run[r].at` is its place: for every price and report
file `look`, `fetch`, `open`, `write`, `mixed` (Parquet written, sidecar not), `sidecar`; then
`schedule`, `backtest`, `benchmark`, `artifacts` and the ends, with a crash between any two
file operations. Prices and reports come from a Parquet file and a sidecar that may have
been written by different runs, or may be torn; artifacts go one by one into a staging
directory that one rename publishes. `RunCatalogue` promises readers a set of complete runs
that only grows.

The pure parts are modules of operators:

* `ResearchFactors`: the five factors and their composite. Scores are whole numbers
  from 0 to 100; a metric that cannot be computed is `Missing`; volatility and Bollinger
  statistics are tables (`Volatility`, `Bollinger`), since they are not rational.
* `ResearchMacro`: the row that was published by a day, scores, regime and multiplier, with
  `NaN` for an empty field and the comparisons `NaN` fails.
* `PortfolioBuilder`: ranking, weights, position and industry caps, redistribution. A weight is a whole
  number of parts of `One`; the tolerance is `Eps`. Candidates are a function from their places in the
  universe, and the sort by score is stated by rank.
* `ResearchSchedule`: price frames, signal and execution days, candidates, the schedule.
* `PortfolioBacktest`: checks of a schedule, trades, costs and values by the day.
* `BenchmarkCache`: what a benchmark frame must have to be accepted, and the steps of loading one from its cache or through the chain. Metadata and data are two
  files; two layouts of the cache are read, one is written.
* `RunStore`: warnings from where they are raised to the files, `manifest`, `summary` and
  what the store reads back. The files of a run never change, so that reading them is
  told when they are written.

The readers of a run have limits that its writer does not know: on the bytes of a file
(`run_store.py:308`), the number of warnings (771), their text (780), each message (793), the bytes of the
structured warnings (`warnings.py:479`), and, through `sanitize_public_payload`, the depth, width and
size of each structured warning and of the diagnostics of all benchmarks together
(`run_store.py:262`). The first five are constants of the model with sizes that are free operators of a
message or a structured warning, since how long these are is a matter of text; a structured warning
has another length in the indented file than where it is measured. The last two are the free predicates
`EntryFits` and `DiagnosticsFit`. What is written is redacted first, so sizes are those after
redaction; redaction is taken to leave the class and the length of a structured warning, but for its message,
as they are. Beyond a limit the warnings cannot be read, the structured warnings are left out or invalid, or the
diagnostics are invalid, and `RunsReadBack` says exactly when.

A context (`Contexts`) is what else a run has: the warnings of its stages before the benchmark, and the
loads of its other benchmarks, which all had their data and whose warnings are among those of the stages. So
only the modelled benchmark can fail, and the coverage of benchmarks is never "partial". A run
is called readable when `warnings.json` is; manifest and metrics are taken to be within their own limits.
`list_runs` (164) reads every run and fails for all when one cannot be read. What ends a run before its
files are begun is a crash of the model: a load whose diagnostic is refused
(`index_provider_chain.py:771`), or a manifest refused for its width, for instance with more than 64
source records (`real_pipeline.py:2240`).

`NoLookAhead` cuts what lies after the execution day from bars, reports and macro rows, and keeps the
symbols: which symbols a run has at all is decided by their coverage of the whole window
(`real_pipeline.py:669`).

## Runs

| run | instance | states | shows |
|---|---|---|---|
| `job_repository` | 3 jobs, 2 requests, 2 keys, 1 worker, alias limit 1, lag 1, clock to 2 | 495,337 | all safety properties of the store and the refinement of EODJobLifecycle |
| `operation_worker` | 2 workers, 1 job, lease 3, heartbeat 1, lag 1, clock to 8, faults until 4, fair | 134,552 | `SnapshotOwns`, `FailedRenewalNeverTerminal`, `EveryJobSettles` |
| `worker_checkpoint` | 1 worker, 1 job | stops at the violation | what the documentation says of checkpoints is violated |
| `file_repository` | 3 generation ids, 2 contents, 2 publishers, 1 reader, 1 stale artifact of each kind | 257,578 | whole generations, undisturbed readers, refinement of EODGenerationStore |
| `dataset_operations` | 3 generation ids, 2 contents, 2 updaters, 2 maintainers, a dry run, 2 stale artifacts of each kind, limits 5 and 2 | 752,780 | no lost update, maintenance harmless, and what it tells true |
| `incremental_update` | 5 days, 1 of them without trading, 2 prices, overlap to 4, any range and policy, a rival | 10,869 | history kept, holes explained and repairable, repetition harmless, reports true |
| `provider_chain` | 1 fetch, 3 providers, 2 of them under one limit, 3 attempts, interval 1, 2 ranks | 1,023,344 | best offer taken, budget spent, one late invocation, diagnostics true |
| `provider_limiter` | 2 fetches, 1 provider, 2 attempts, interval 2, fair | 58,232 | grants spaced, every fetch ends |
| `batch` | 2 batches, 2 datasets, any requests and policies | 385,150 | keys accounted for, reports true, no record lost |
| `service` | 1 equity and 1 index, 4 days with the third closed, 4 edits, 2 jobs | 602,018 | jobs run as submitted, one unit per generation, readiness counts sessions, writes confirmed |
| `service_refresh` | the same | stops at the violation | a full refresh ignores confirmed absences, against the documentation |
| `research_run` | 2 runs, 2 symbols, 7 days, 3 price frames, dated and undated reports, torn caches, 3 answers of the benchmark chain, 3 states of its cache, 9 contexts of warnings and other benchmarks, limits of the readers | 686,052 | no look-ahead, backtest sound, honest dates, cache sound, refinement of RunCatalogue, runs read back within limits |

Why the bounds are enough. Three jobs are a retry chain of two and a competitor; the
alias limit is reached with two keys; two time values with lag 1 give every order of
`created`, `started`, `finished` and a stale reading. Three heartbeat intervals are
the shortest lease the configuration accepts; clock 8 lets one lease be renewed and
expire and still leaves a whole lease after the last fault, and two workers on one job are
its owner and the one that recovers it. Retried jobs are the business of
`job_repository`. Two publishers given the same generation id, or
racing for the pointer, are the shortest conflict; a third id gives a history. Three
generations exceed the lineage limit of two, and stale artifacts with generations
exceed the artifact limit of five, both with the pointer and without. Four trading days leave room for a hole, a day
before and a day after it and one to append; with a day without trading inside and
an overlap of all four, every boundary of the planner falls once on and once beside
a stored, an absent and a closed day. Three providers with two ranks give a partial
result before, between and after others, equal and unequal; three attempts have a
first, a middle and a last; two fetches and an interval of two are the shortest
sleep into which another thread comes; two datasets have one before and one after a
failure, and two batches are enough to collide on one. In `service` four edits
change, one after the other, evidence, providers, storage and what is enabled, and two jobs
are one and its retry or its competitor; the closed third day makes a missed session
differ from a missed day. In `research_run` seven days hold two signals with the windows
of every factor; with weights up to 60 % each and no minimum of cash two holdings
exceed what there is; two runs are a writer and a reader, or two writers, of every file,
and a third writer's leftovers are in the initial caches. Among the contexts of warnings every limit of
the readers is met on both sides, and exceeded alone.

Symmetry is used in safety runs only. The record modules add a variable (`report`,
`told`) that says what the last call answered and that no action reads; a `VIEW` leaves it out, so
that states are not told apart by it, and the properties about it are action properties,
which TLC evaluates on every transition. `CHECK_DEADLOCK` is off in `job_repository`, where
the bounded store really fills up, and in `batch` and `research_run`, where every batch and
every run really ends.

Bounds in guards: `MaxTime` (clock), `MaxLease` (renewals), `MaxStale` (leftovers),
`MaxJobs` (submissions).

Every property of a passing run has a mutant, a plausible bug next to the
definition it changes, that makes TLC find it violated.

## Fairness

`FairSpec` assumes that the clock advances, that the scheduler runs both threads
of every worker, that a stopped worker is restarted, and that a job's work is
finite (strong fairness of `DomainEnds`, because checkpoints alternate with it).
The first two are what the operating system gives; the code leaves the third to a
service manager (`run_forever` returns after `WORKER_UNSAFE`); the fourth holds as
provider calls are bounded in number by the retry policy. No submission and no
fault is fair. Faults and late clock readings end at `FaultHorizon`: with renewals that
fail for ever nothing could be promised.

In `EODProviderChain` time passes and every thread runs; that includes that providers
answer, since the code sets no timeout of its own and relies on those of the
third-party clients. `threading.Lock` is not fair, but weak fairness of a fetch is
enough: the others make finitely many grants, after which the lock stays free.

## Proofs

`EODJobRepositoryProofs` proves for all job identities, requests, keys, workers and
bounds, from `ConstantsAssumption` alone: type correctness, `OneActivePerRequest`,
`EveryRowReadable`, `BindingsSound`, `ReplyHonoured`, `LeaseHonoured` and
`ImplementsLifecycle`. Sets of identities may be infinite.

`EveryRowReadable` and `BindingsSound` speak of whole retry chains and are not
inductive. The inductive invariant `IInv` has local facts instead: every row is
valid by itself; every retry link, of a row or of a bound key, points to one
failed or abandoned job of the same request; links are acyclic; the aliases of a
job are finite and within the limit. That these give readable chains is
`ChainReadable`, for which `ChainAvoidsSelf` derives from acyclicity that a chain
never comes back to the job it started from. Links stay good when other jobs move,
because failed and abandoned jobs never do. Steps that create no job are treated together through
`Advances`; creation is treated on its own. The refinement needs
`OneActivePerRequest` (the guard of `Accept`) and the constancy of bindings.

`EODOperationWorkerProofs` proves for any jobs, requests, workers, clocks and faults, from
`ConfigAssumption`: type correctness, `SnapshotOwns` and `FailedRenewalNeverTerminal`, and that
the workers are clients of the store (`UsesStore`: `Spec` implies the specification of
`EODJobRepository`), by which the store's theorems hold under them too. `ConfigAssumption` is the
configuration's own check (a lease of at least three heartbeats), the store's assumption, and
a bound of the model: no lease exceeds `MaxLease`, which must be beyond the last reading of
the clock by one lease and one heartbeat. `SnapshotOwns` alone is not inductive: a renewal that the
transaction has returned and the controller has not yet seen is on its way to become a
snapshot. `WorkerInv` has what one worker knows: the main thread, its controller and its
heartbeat agree (`Together`); neither the snapshot nor a renewal on its way is ahead of the store
(`Snapshots`, by `Grips`); a lease is never longer than one that a claim would give now
(`LeaseBounded`), so that a late heartbeat cannot shorten it. It is proved worker by worker:
`Untouched` says that no step of another worker, client or recovery changes a job whose lease
has not run out, and every store operation has it.

The last section of `EODDatasetOperationsProofs` proves of the file repository by itself, for any
generations, contents, publishers, readers and `MaxStale`, from `RepositoryAssumption` alone: type
correctness, `EveryGenerationComplete`, `CurrentComplete`, `ReadsSucceed` and `ImplementsStore`.
None of them is inductive. `FilesIInv` adds what a publisher knows at each step
(`Publishing`: the staging directory it renames is verified; the generation it
will point to, and the one its temporary names, are there) and what a reader has
seen so far (`Reading`). The argument is `FilesGrow`: no step of publish changes a
directory that is there, so what the other calls know stays true (`OthersKnow`,
`ReadersStill`). The refinement maps the renaming of a staging directory to
`Store`, the replacement of the pointer to `Activate` or, when it names the current
generation already, to a stutter, and everything else to a stutter.

`EODDatasetOperationsProofs` proves for any generations, contents, updaters, maintainers and
limits, from `MaintenanceAssumption`: type correctness, `UpdatesBuildOnCurrent`,
`MaintenanceSparesPublications`, that generations and pointer stay whole although maintenance
deletes (`FilesSound`), that the files still implement `EODGenerationStore` (`Implements`) and, in
the specification with records, `MaintenanceToldTruly`. `IInv` has four parts. `Locked`: whoever
works holds the lock; `release` does not look at who acquired, so that this is an argument about
the callers. `Updating`: the base of an update is still the current generation when the pointer
moves. `Cleaning`: the fingerprint of a cleanup is still that of the directory, and of each
kind of artifact it deletes all or none. `Sound`: every generation is whole and names an earlier
one, and no set of generations names only itself (`Unlooped`). Maintenance follows the lineage
by a recursive function (`Walk`); what it computes is needed, and no induction principle is
available. `TablesExist` has one instead: the lineages for which a table of the walk exists
are a set of numbers, whose complement would have a least element. `WalkIsWalk` makes the
table the walk; by `WalkEnds` and `InspectionFinds` the walk ends at the first generation or
at the limit, and by `WalksAgree` the two inspections of a cleanup find the same. A dry run
reads without the lock; `KnownListing` says what holds of what it has read so far, and `Undisturbed` that all of it still
holds as long as no thread held the lock (`SilentLocked`: only a holder moves anything). From that `UndisturbedTold` follows: nothing moves between its reads, so that they
are together what a locked inspection lists.

`EODIncrementalUpdateProofs` proves for any set of days and calendar in which ranges
are finite (`CalendarAssumption`, `DaysAssumption`, `BarsAssumption`): type
correctness, `HolesExplained`, `RepetitionIsCurrent`, `NothingLost` and `Repairable`, and
`CallsReportTruly` of the specification with records. `PlanFacts` says
what a plan that fetches promises (`PlanSound`): its request ends with its
effective range and begins in it, and stored days lie where the status says.
`IInv` adds that stored days trade and, while the evidence is that of the last
publication, that the stored range ends where the published range ended and
begins no later (`LastSound`). A hole below the effective range was there before
the update, because nothing below it is touched; above, `Publishable` leaves
none. `Repairable` has a hypothesis, `Cardinality(TradingDays) <= MaxOverlap`: the code puts no upper
bound on `overlap_trading_days` (`planning.py:107-122`), `MaxOverlap` is the model's, and the run
meets it with equality. `ManifestAssumption` says that the absent manifest is none of the
manifests; the argument for the reports is that each outcome of a call satisfies the constructor
of its record (`Built`), whatever a rival put in between.

`EODProviderChainProofs` proves for any fetches, providers, keys, delays, attempts and
intervals, from `ChainAssumption`: type correctness, `TakesBestOffer`,
`BudgetSpent`, `OneLateInvocation`, `GrantsSpaced` and, from `RetryPolicyAssumption` (the retry policy's
own upper limit of attempts), `DiagnosticsTrue` of the specification with records. `IInv` adds that a fetch has recorded
exactly the providers before its position (`InOrder`), that `tries` counts the
invocations of the present one (`Counted`), that a result waits for the end
(`Concluded`), and that a sleeper in the limiter holds its lock and sleeps at least
until the interval is over (`Locked`), which `LockRespected` keeps from the other threads.
That `_partial_rank` has a maximum is `BestExists`; it uses the well-ordering of the
natural numbers (`NatMinimum`) in place of an induction.

`EODBatchProofs` proves for any batches and any number of datasets, from
`BatchAssumption` alone: type correctness, `KeysAccounted`, `ReportTrue`,
`StopsAtFailure` and `DatasetsToldTruly`. The last two look at a record that grows; `IInv` adds that results are
a prefix of the batch and that the dataset at work comes next (`Ordered`), that `stop`
is set exactly from the first failure on (`Stopping`), and that a moved pointer is
recorded or about to be (`Moving`). `RecordKeeps` is the core: a result for the next
dataset keeps the record good. `KeysAccounted` is inductive beside them, since no step of
one batch moves another (`OthersStand`).

`ResearchRunProofs` proves for any runs, symbols, days, files, benchmark answers and limits,
from the assumptions of its modules on types and ranges: `PointInTimeHonest`, `NoLookAhead`,
`BacktestSound`, `MetadataNamesItsGeneration`, `ImplementsCatalogue` and, of its records,
`RunsReadBack`. `IInv` has three parts.
`RunsOK`: the claim of publication dates is true at each step, not only in the end, a run at
its backtest has the result its inputs give (`Computed`), and one the backtester has refused had a
weight above a limit by rounding (`RoundedOnly`).
`CacheOK`: a frame that is about to be written has passed the checks and has a
source (`LoadOK`), and the metadata do not name the file of a run that has yet to commit its
own (`Uncommitted`), so that nobody changes a file the metadata name. `DirsOK`: a staging
directory holds nothing but files of its run, and a published one belongs to a
run that is done. That the provider chosen has passed is `SelectedPassed`, again from
the well-ordering of the natural numbers. In the refinement a rename maps to the
publication of a run and everything else to a stutter (`StepSeen`).

`NoLookAhead` compares the result of a run with that of its inputs cut off before each execution
day (`CutInputs`). Days of price files are numbers and a row's publication date is a day or
`NoDate` (`DatesAssumption`); the signal day lies before the execution day (`SignalComesBefore`)
and is the same for both inputs (`SameSignal`). At the signal day both have the same frames, reports
and macro row (`SamePrices`, `SameReports`, `SameMacro`), hence the same scores, portfolio and
snapshot. What scores and portfolios are is not needed, only that they are functions of these. A later
signal day would break `SignalComesBefore`, a later cut-off of rows `SameRows`. The cut is made where
the code makes it, behind the removal of duplicates: which of two reports of one publication
supersedes the other depends on when they were fetched, and the rows compared are those that are left.

`BacktestSound` is about what the pipeline computes: a sum over symbols, a ranking, rounds of an allocation
each of which offers every candidate its share, and a portfolio handed from day to day. Its proof goes
through all of it, for any candidates, prices, costs and limits.

* Recursive functions exist (`RecursionExists`) and keep what is handed on (`RecursionKeeps`) wherever an
  argument refers to one of lower rank. Induction is on sets: the least rank outside the set of good
  arguments would have a good argument before it. Sums compare as their parts do (`SumScaled`) by taking
  one element after the other out of a finite set (`SetInduction`).
* The ranking gives candidates (`SelectedAreCandidates`): in a strict order of a finite set some element has
  exactly `k` others ahead of it (`Placed`). In a round the shares of the budget add up to no more than the
  budget (`SharesFit`, `OffersFit`), a gift respects both limits (`GivenFits`), and what is left of the
  budget and what was given stay within it (`RoundKeeps`, `AllocationWithin`). So the weights of any set of symbols
  are at most the whole and each at most the limit on a position (`BuiltWeights`, `PortfolioFits`).
* Every execution day is a day on which all symbols have a bar, hence a row of the price matrix
  (`ExecutionDaysPriced`). What remains of the checks of a schedule is the rounding (`OnlyRoundingRefuses`).
* Sales pay their costs, and purchases are scaled so that they and their costs take no more than the cash
  there is (`ScaledFits`, `RebalancePays`); a revalued portfolio is one again (`RevaluedKeeps`), because closes
  are positive whole numbers, and so on from the first day to the last (`PathPays`).

That closes of a price file are numbers, or missing, is part of `DatesAssumption`; those that are missing or not positive
`prepare_price_frame` drops.

`RunsReadBack` compares what two collections make of one sequence of stages: the raw messages, each where it
was raised first, and the metadata a collector keeps of them.

* Places of messages are ordered by stage and place (`PlacesOrdered`), and each message has one first place
  (`FirstsOfMessages`), so that the list without duplicates, which `authoritative_warnings` states by rank,
  has every message once (`EveryMessageOnce`).
* What the collector holds after each stage can be written down without recursion (`HeldAfter`); a stage takes
  it to the next (`StageCollected`), so that is what it has in the end (`AllCollected`). Hence the file has the classes of
  all messages or of none (`PayloadWritten`), and redacting it once more changes nothing (`PublicIsWritten`).
  The sizes the readers measure are then those of the messages and classes themselves, so that
  what is refused is over a limit (`Moderate`), and what is over one is refused (`ReadBackFaithful`).
* The code counts failed attempts off against messages; that each benchmark warning comes under the class of
  its cause (`StageClassed`) needs of a load that it passed exactly if it has a frame (`Reported`, part of
  `IInv`).

`StoreAssumption` says that warnings come in sequences, that the other benchmarks of a run got their data, and
that as many attempts are written as the store takes: `MAX_BENCHMARK_DIAGNOSTIC_ATTEMPTS` (`index_provider_chain.py:39`) and
`MAX_PUBLIC_BENCHMARK_DIAGNOSTIC_ATTEMPTS` (`run_store.py:42`) are two constants of the code, both 32.
`DiagnosticAccepted` needs them to be equal: with different ones a run of enough attempts would have its own
diagnostics taken for invalid.

`EODServiceProofs` proves for any setups, datasets, commands, days and answers of providers, from
`ServiceAssumption` and `VersionedCalendars`: type correctness and all properties of `EODService` that
its run `service` checks. `ServiceAssumption` says that lists are finite, that policies are ones the
constructor takes, and that the sets the model draws from hold every dataset and session;
`VersionedCalendars`, that the administrator gives a calendar that says something else a new version, for
a context holds a calendar's identity and not its days. `IInv` adds to the types what a job knows of its
past: whatever is stored was confirmed unless it is a dry run, and a job was refused for its context only
when the contexts differed (`JobsSound`); what a command is about to store is of the same kind
(`CallSound`); a worker at work keeps the answer of the comparison it began with (`WorkerSound`).
Of the stored bars the type itself says most (`DataOK`): they belong to their dataset,
and each has the close that some provider of a chain of this dataset returned. `RunsAsSubmitted` is then a
lemma about catalogs, `SameContext`: from equal contexts, of which the code compares digests, follow
equal runtimes, but for where generations are kept. `SameChainSameUnits` is one about capabilities
(`ChainUnits`), carried through adapters, conversion, normalisation, merge and validation by
`FetchedFacts`, `MergedFacts` and `OutcomeFacts`. Readiness never counts: the code walks back from the
as-of day to the day required and on to the threshold. `WalkFacts` says what such a walk finds,
`MissedFacts` that comparing the last stored day with these two is counting the missed sessions, and
`OneCalendar` that one calendar serves all datasets of a scope. Sorting and selecting are
stated by rank in the modules of operators (`InOrder`, `Picked`), not recursively: `Listed` shows by the
pigeonhole principle that every rank is taken once.

Each module of records extends the actions of its component by conjuncts on variables of its
own; that its specification implies that of the component is the theorem `RecordsFollow` of the five
modules of proofs that have one, so that every other theorem holds of it too.

The `TypeOK` of all proved modules but `ResearchRun`, `CurrentComplete` and
`StopsAtFailure` are proved, and left out of the runs, which spend their time on what only they check.
The `TypeOK` of `ResearchRun` documents its variables; it holds in the run's instance.

What is only model-checked, and why:

* `EveryJobSettles` and `EveryFetchEnds`: liveness under fairness is outside the prover's reach.
* `CompleteRefreshSucceeds` of `EODService` does not hold (see Findings).

## Findings

`docs/eod-operation-worker.md:100-101` says checkpoints "prevent a new controlled
side effect after the worker becomes unsafe". The code checks and then acts, with
nothing held in between (`coordinator.py:567`); the heartbeat may mark the worker
unsafe in the window. The run `worker_checkpoint` shows the trace. What does hold is
that the job is then never recorded as completed or failed
(`FailedRenewalNeverTerminal`).

`docs/data-source-plan.md:661-662` says that provider validation, the incremental coordinator,
the explicit full refresh and readiness use the same expectation of absent days.
`composition.py:454-471` passes the expectation on, but the worker builds its
`EODFullRefreshExecutor` itself (`operation_worker.py:350-355`) and leaves it out. The run
`service_refresh` shows a full-refresh job that fails although the provider returned all that is
expected; it will fail whenever it is retried.

Behaviour that contradicts no text but that an operator may not expect, each of it in
the models:

* maintenance (`maintenance.py:345`) answers with a `ValueError` in place of a result in exactly
  two cases (`AnswersUnlessCut`): `generations/` has more than 256 entries and a current
  generation, where "blocked" is meant and which daily updates reach within a year or so; and a
  dry run that a publication overtakes;
* a dry run that meets a publication may report its staging directory as an unsafe artifact and itself
  blocked (`maintenance.py:753`); the next one will not;
* a run may write warnings that its store then refuses to read, for their number or length, and with it
  the list of all runs (`run_store.py:308`, `771`, `781`, `795`, `164`); and many attempts for several
  benchmarks make the diagnostics of all of them invalid (`run_store.py:262`);
* an update that a rival of another process preceded replaces what the rival published; it
  says so (`CallsReportTruly`), but the rival's bars are gone;
* a weight may exceed `max_position_weight` by rounding, for which the backtester refuses the
  schedule and the run fails (`RejectedByRounding` is the one way it can);
* a duplicate report without a fetch date beats dated ones (`fundamental_schema.py:98-100`);
* a broken cache file is never replaced, and two writers of one file may leave the rows of one
  under the sidecar of the other; `PointInTimeHonest` holds because claims are checked;
* the structured warnings of a run are left out altogether when one warning has no class;
* every industry is "unknown" on this path, so that `max_industry_weight` caps the whole portfolio.

## Plan

1. Job store, worker, file repository, dataset operations (done).
2. `EODPlanning` and `EODIncrementalUpdate` (done).
3. `EODBatch`: several datasets, failure policies, failing releases (done).
4. `EODProviderChain`: fallback, bounded retry, partial results, rate limiter (done).
5. What each of them tells: results, errors, diagnostics, maintenance and dry runs (done).
6. `EODService`: commands, configuration, context, readiness, adapters (done).
7. The research pipeline: caches, schedule, portfolio, backtest, artifacts, run store (done).
8. Left, models: the worker over the file repository in two processes (a suspended worker that
   publishes late); the report builder and the macro shadow comparison of a research run; the
   other legacy providers.
9. Proofs of the store, the worker, the files, the dataset operations, the planner and the
   coordinator, the chain, the batch, their records, the service, the research run's files, its schedule,
   its backtest and what it tells of itself (done).

## Not modelled

* Text: formatting, parsing of JSON and dates, schemas of stored rows, hashing (equal digests are taken
  to mean equal contents) and file paths. SQLite and the file system beyond their atomicity.
* Third-party services: what they answer is an environment with any outcome.
* In the research pipeline: the report builder (`real_report.py`), which renders what it is given; the
  macro shadow comparison, which influences nothing; the order in which runs are listed and
  `get_latest`, a sort.
* `valuation_provider.py`, whose contract only tests use; the other legacy providers, which
  translate third-party data.
* HTTP API, security, localisation: stateless handlers and tables. Web and mobile
  clients: presentation. Sentiment, NLP, learning, agents and alerts: numerical or textual
  processing that neither the EOD service nor the research pipeline calls.
