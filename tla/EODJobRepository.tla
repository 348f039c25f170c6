-------------------------- MODULE EODJobRepository --------------------------
(***************************************************************************)
(* LocalEODOperationJobRepository (market_data/job_repository.py): the     *)
(* durable store of EOD operation jobs.  Every public method is one SQLite *)
(* transaction opened with BEGIN IMMEDIATE, so it is one action here; an   *)
(* error rolls the transaction back and is a stuttering step, except that  *)
(* a rejected submission is remembered in `reply`.                         *)
(*                                                                         *)
(* A caller reads the clock before the transaction gets the write lock, so *)
(* the time t an operation works with may be older than the clock: up to   *)
(* MaxLag.  claim_version is 1 for every claimed job (a job is claimed at  *)
(* most once), so the ownership check is the check of the worker.  A job   *)
(* identity ends in random characters: ids break ties of created_at in an  *)
(* arbitrary order, and are not ordered here.                              *)
(***************************************************************************)
EXTENDS Naturals, FiniteSets

CONSTANTS
  JobIds,       \* job identities the generator may return
  Requests,     \* operation requests (a request stands for its fingerprint)
  Keys,         \* idempotency keys
  Workers,      \* worker identities
  MaxAliases,   \* MAX_EOD_JOB_ALIASES
  LeaseTerms,   \* durations a caller may ask a lease to last or be extended by
  MaxLag,       \* bound on how old the time read by a caller may be
  MaxTime,      \* bound on the clock
  MaxLease,     \* bound on how far renewals may push a lease
  NoJob, NoRequest, NoKey, NoWorker

ASSUME ConstantsAssumption ==
  /\ MaxAliases \in Nat \ {0}
  /\ LeaseTerms \subseteq Nat \ {0}
  /\ MaxLag \in Nat /\ MaxTime \in Nat \ {0} /\ MaxLease \in Nat
  /\ NoJob \notin JobIds /\ NoRequest \notin Requests
  /\ NoKey \notin Keys /\ NoWorker \notin Workers

VARIABLES
  jobs,      \* jobs[j]: the row of job j
  bindings,  \* bindings[k]: the row of key k in idempotency_bindings
  reply,     \* what the last submission answered
  now        \* the clock of the callers

repoVars == <<jobs, bindings, reply>>
vars == <<jobs, bindings, reply, now>>

NoTime == 0

ActiveStatuses    == {"queued", "running"}
TerminalStatuses  == {"completed", "failed", "abandoned"}
RetryableStatuses == {"failed", "abandoned"}
Statuses          == {"absent"} \cup ActiveStatuses \cup TerminalStatuses

Job == [status   : Statuses,
        request  : Requests \cup {NoRequest},
        retryOf  : JobIds \cup {NoJob},
        created  : Nat, started : Nat, finished : Nat,
        worker   : Workers \cup {NoWorker},
        lease    : Nat]

Absent == [status |-> "absent", request |-> NoRequest, retryOf |-> NoJob,
           created |-> NoTime, started |-> NoTime, finished |-> NoTime,
           worker |-> NoWorker, lease |-> NoTime]

Binding == [job : JobIds \cup {NoJob}, retryOf : JobIds \cup {NoJob}]
Unbound == [job |-> NoJob, retryOf |-> NoJob]

Accepted == {"created", "existing_active", "idempotent_replay"}
Rejected == {"idempotency_conflict", "invalid_retry_link",
             "idempotency_alias_limit"}
Reply == [outcome : {"none"} \cup Accepted \cup Rejected,
          request : Requests \cup {NoRequest},
          key     : Keys \cup {NoKey},
          job     : JobIds \cup {NoJob}]

TypeOK ==
  /\ jobs \in [JobIds -> Job]
  /\ bindings \in [Keys -> Binding]
  /\ reply \in Reply
  /\ now \in 1..MaxTime

-----------------------------------------------------------------------------
(* What a read of a row checks before it returns the job.                  *)

Present(j) == jobs[j].status # "absent"

\* The walk along retry_of: every job it reaches exists, failed or was
\* abandoned and has the same fingerprint, and it reaches no job twice nor
\* one of the set `seen`.  S is the set of jobs visited.
ValidRetry(p, r, seen) ==
  \/ p = NoJob
  \/ \E S \in SUBSET (JobIds \ seen) :
       /\ p \in S
       /\ \A s \in S : /\ jobs[s].status \in RetryableStatuses
                       /\ jobs[s].request = r
                       /\ jobs[s].retryOf \in S \cup {NoJob}
       /\ \A T \in (SUBSET S) \ {{}} : \E s \in T : jobs[s].retryOf \notin T

\* The record validator of EODOperationJob.
LifecycleValid(job) ==
  /\ job.status = "queued" =>
       /\ job.started = NoTime /\ job.finished = NoTime
       /\ job.worker = NoWorker /\ job.lease = NoTime
  /\ job.status = "running" =>
       /\ job.worker # NoWorker /\ job.finished = NoTime
       /\ job.started >= job.created /\ job.lease > job.started
  /\ job.status \in TerminalStatuses =>
       /\ job.worker # NoWorker /\ job.lease = NoTime
       /\ job.started >= job.created /\ job.finished >= job.started

Readable(j) ==
  /\ LifecycleValid(jobs[j])
  /\ ValidRetry(jobs[j].retryOf, jobs[j].request, {j})

-----------------------------------------------------------------------------
(* submit                                                                  *)

\* Mutant of Active: forgets that a running job is active too.
Active_OnlyQueued(r) == {j \in JobIds : jobs[j].status = "queued"
                                         /\ jobs[j].request = r}

Active(r) == {j \in JobIds : jobs[j].status \in ActiveStatuses
                             /\ jobs[j].request = r}

Aliases(j) == {k \in Keys : bindings[k].job = j}

IsBound(k) == k # NoKey /\ bindings[k].job # NoJob

Bind(k, j, p) ==
  bindings' = IF k = NoKey THEN bindings
              ELSE [bindings EXCEPT ![k] = [job |-> j, retryOf |-> p]]

Answer(outcome, r, k, j) ==
  reply' = [outcome |-> outcome, request |-> r, key |-> k, job |-> j]

\* A rejection raises an error that names no job.
Reject(outcome) ==
  /\ Answer(outcome, NoRequest, NoKey, NoJob)
  /\ UNCHANGED <<jobs, bindings>>

\* A key that is already bound: only the same request and retry link may
\* use it, and they are answered with the job of the first use.
SubmitBoundKey(r, k, p) ==
  /\ IsBound(k)
  /\ LET b == bindings[k] IN
       IF jobs[b.job].request = r /\ b.retryOf = p
       THEN /\ Answer("idempotent_replay", r, k, b.job)
            /\ UNCHANGED <<jobs, bindings>>
       ELSE Reject("idempotency_conflict")

SubmitInvalidRetry(r, k, p) ==
  /\ ~IsBound(k)
  /\ ~ValidRetry(p, r, {})
  /\ Reject("invalid_retry_link")

\* Mutants of SubmitJoinsActive: the key of a joining submission is not bound;
\* the alias limit is not checked.
SubmitJoinsActive_NotBound(r, k, p) ==
  /\ ~IsBound(k)
  /\ ValidRetry(p, r, {})
  /\ \E j \in Active(r) : Answer("existing_active", r, k, j)
  /\ UNCHANGED <<jobs, bindings>>

SubmitJoinsActive_NoLimit(r, k, p) ==
  /\ ~IsBound(k)
  /\ ValidRetry(p, r, {})
  /\ \E j \in Active(r) : /\ Bind(k, j, p)
                          /\ Answer("existing_active", r, k, j)
  /\ UNCHANGED jobs

SubmitJoinsActive(r, k, p) ==
  /\ ~IsBound(k)
  /\ ValidRetry(p, r, {})
  /\ \E j \in Active(r) :
       IF k # NoKey /\ Cardinality(Aliases(j)) >= MaxAliases
       THEN Reject("idempotency_alias_limit")
       ELSE /\ Bind(k, j, p)
            /\ Answer("existing_active", r, k, j)
            /\ UNCHANGED jobs

SubmitCreates(r, k, p, times) ==
  /\ ~IsBound(k)
  /\ ValidRetry(p, r, {})
  /\ Active(r) = {}
  /\ \E j \in JobIds, t \in times :
       /\ ~Present(j)
       /\ jobs' = [jobs EXCEPT ![j] =
                     [Absent EXCEPT !.status = "queued", !.request = r,
                                    !.retryOf = p, !.created = t]]
       /\ Bind(k, j, p)
       /\ Answer("created", r, k, j)

\* `times` are the times the caller may have read.
Submit(r, k, p, times) ==
  \/ SubmitBoundKey(r, k, p)
  \/ SubmitInvalidRetry(r, k, p)
  \/ SubmitJoinsActive(r, k, p)
  \/ SubmitCreates(r, k, p, times)

-----------------------------------------------------------------------------
(* The worker's side: claim, renew, finish, and recovery of expired leases *)

Queued == {j \in JobIds : jobs[j].status = "queued"}

OldestQueued(j) ==
  /\ j \in Queued
  /\ \A i \in Queued : jobs[j].created <= jobs[i].created

\* Mutant of ClaimNext: the claimed record is stored without validation.
ClaimNext_NotValidated(j, w, seconds, t) ==
  /\ OldestQueued(j)
  /\ jobs' = [jobs EXCEPT ![j] =
                [@ EXCEPT !.status = "running", !.started = t,
                          !.worker = w, !.lease = t + seconds]]
  /\ UNCHANGED <<bindings, reply>>

\* The claimed record is validated, so a time before created_at is an error.
ClaimNext(j, w, seconds, t) ==
  /\ OldestQueued(j)
  /\ t >= jobs[j].created
  /\ jobs' = [jobs EXCEPT ![j] =
                [@ EXCEPT !.status = "running", !.started = t,
                          !.worker = w, !.lease = t + seconds]]
  /\ UNCHANGED <<bindings, reply>>

OwnedRunning(j, w, t) ==
  /\ jobs[j].status = "running"
  /\ jobs[j].worker = w
  /\ jobs[j].lease > t

\* Mutant of RenewLease: the new lease is counted from the caller's time.
RenewLease_FromNow(j, w, seconds, t) ==
  /\ OwnedRunning(j, w, t)
  /\ jobs' = [jobs EXCEPT ![j].lease = t + seconds]
  /\ UNCHANGED <<bindings, reply>>

\* A renewal extends the stored expiry, not the caller's time.
RenewLease(j, w, seconds, t) ==
  /\ OwnedRunning(j, w, t)
  /\ jobs' = [jobs EXCEPT ![j].lease = @ + seconds]
  /\ UNCHANGED <<bindings, reply>>

\* complete and fail; the record validator refuses a finish before the start.
Finish(j, w, outcome, t) ==
  /\ OwnedRunning(j, w, t)
  /\ t >= jobs[j].started
  /\ jobs' = [jobs EXCEPT ![j] =
                [@ EXCEPT !.status = outcome, !.finished = t, !.lease = NoTime]]
  /\ UNCHANGED <<bindings, reply>>

\* Mutant of Expired: a lease is given up one unit too early.
Expired_Early(t) == {j \in JobIds : jobs[j].status = "running" /\ jobs[j].lease <= t + 1}

Expired(t) == {j \in JobIds : jobs[j].status = "running" /\ jobs[j].lease <= t}

\* Mutant of MarkExpiredAbandoned: an expired job goes back to the queue.
MarkExpiredAbandoned_Requeues(t) ==
  /\ jobs' = [j \in JobIds |->
                IF j \in Expired(t)
                THEN [jobs[j] EXCEPT !.status = "queued", !.started = NoTime,
                                     !.worker = NoWorker, !.lease = NoTime]
                ELSE jobs[j]]
  /\ UNCHANGED <<bindings, reply>>

MarkExpiredAbandoned(t) ==
  /\ jobs' = [j \in JobIds |->
                IF j \in Expired(t)
                THEN [jobs[j] EXCEPT !.status = "abandoned", !.finished = t,
                                     !.lease = NoTime]
                ELSE jobs[j]]
  /\ UNCHANGED <<bindings, reply>>

-----------------------------------------------------------------------------

Init ==
  /\ jobs = [j \in JobIds |-> Absent]
  /\ bindings = [k \in Keys |-> Unbound]
  /\ reply = [outcome |-> "none", request |-> NoRequest, key |-> NoKey,
              job |-> NoJob]
  /\ now = 1

Tick == now < MaxTime /\ now' = now + 1 /\ UNCHANGED repoVars

\* Times a caller that is about to enter a transaction may have read.
Readings == {t \in 1..now : t + MaxLag >= now}

ClientStep ==
  \E r \in Requests, k \in Keys \cup {NoKey}, p \in JobIds \cup {NoJob} :
    Submit(r, k, p, Readings)

WorkerStep(t) ==
  \/ \E j \in JobIds, w \in Workers, s \in LeaseTerms :
       \/ ClaimNext(j, w, s, t)
       \/ jobs[j].lease + s <= MaxLease /\ RenewLease(j, w, s, t)
  \/ \E j \in JobIds, w \in Workers, outcome \in {"completed", "failed"} :
       Finish(j, w, outcome, t)
  \/ Expired(t) # {} /\ MarkExpiredAbandoned(t)

Next ==
  \/ Tick
  \/ ClientStep /\ UNCHANGED now
  \/ \E t \in Readings : WorkerStep(t) /\ UNCHANGED now

Spec == Init /\ [][Next]_vars
-----------------------------------------------------------------------------
(* What a submitter and an operator rely on.                               *)

\* However submissions, claims, crashes and recoveries interleave, a request
\* is never queued or running twice (the partial unique index, and the
\* branch of submit that joins the active job before it would be needed).
OneActivePerRequest ==
  \A i, j \in JobIds :
    /\ jobs[i].status \in ActiveStatuses
    /\ jobs[j].status \in ActiveStatuses
    /\ jobs[i].request = jobs[j].request
    => i = j

\* No legal sequence of calls, even with times read too early, stores a row
\* that a later read rejects as corrupt: such a row at the head of the queue
\* would stop every claim, and one in a retry chain every retry.
EveryRowReadable ==
  \A j \in JobIds : Present(j) => Readable(j)

\* A key names a job that exists, under a retry link that is sound for that
\* job's request, and no job has more keys than the limit allows.
BindingsSound ==
  /\ \A k \in Keys : IsBound(k) =>
       LET b == bindings[k] IN
         /\ Present(b.job)
         /\ ValidRetry(b.retryOf, jobs[b.job].request, {})
  /\ \A j \in JobIds : Cardinality(Aliases(j)) <= MaxAliases

\* What a submission was answered stays true: the job exists, executes the
\* request that was submitted, and the submitted key names it, so asking again
\* with the key (after a lost answer) gives the same job.
ReplyHonoured ==
  reply.outcome \in Accepted =>
    /\ reply.job \in JobIds /\ Present(reply.job)
    /\ jobs[reply.job].request = reply.request
    /\ reply.key # NoKey => bindings[reply.key].job = reply.job

Leaves(j, outcomes) == /\ jobs[j].status = "running"
                       /\ jobs'[j].status \in outcomes

\* Recovery never takes a job whose lease has not run out by the real clock,
\* and the owner's terminal write comes less than MaxLag after it ran out.
LeaseHonoured ==
  [][\A j \in JobIds :
       /\ Leaves(j, {"abandoned"}) => jobs[j].lease <= now
       /\ Leaves(j, {"completed", "failed"}) => jobs[j].lease + MaxLag > now]_vars

\* The store implements the lifecycle promised to submitters: statuses only
\* move forward, a terminal job never moves, a key names one job for ever.
Lifecycle ==
  INSTANCE EODJobLifecycle WITH
    phase   <- [j \in JobIds |-> jobs[j].status],
    request <- [j \in JobIds |-> jobs[j].request],
    binding <- [k \in Keys |-> bindings[k].job]

ImplementsLifecycle == Lifecycle!Spec
=============================================================================
