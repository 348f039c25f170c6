----------------------- MODULE EODJobRepositoryProofs -----------------------
(***************************************************************************)
(* Proofs about EODJobRepository, for any sets of jobs, requests, keys and *)
(* workers and any lease terms, lag and bounds.                            *)
(*                                                                         *)
(* The invariants of the specification are not inductive: that a row can   *)
(* be read back is a statement about the whole chain of retries behind it. *)
(* IInv replaces it by local facts about one link, plus the absence of     *)
(* cycles; Advances abstracts what every action but a creation does.       *)
(***************************************************************************)
EXTENDS EODJobRepository, TLAPS, FiniteSetTheorems

USE DEF NoTime, ActiveStatuses, TerminalStatuses, RetryableStatuses, Statuses,
        Accepted, Rejected

-----------------------------------------------------------------------------
(* Type correctness                                                        *)

\* A created row is a job.
LEMMA CreatedRowType ==
  ASSUME NEW r \in Requests, NEW p \in JobIds \cup {NoJob}, NEW t \in Nat
  PROVE  [Absent EXCEPT !.status = "queued", !.request = r, !.retryOf = p,
                        !.created = t] \in Job
  BY DEF Absent, Job

\* Submissions keep the types.
LEMMA SubmitType ==
  ASSUME TypeOK, NEW r \in Requests, NEW k \in Keys \cup {NoKey},
         NEW p \in JobIds \cup {NoJob}, Submit(r, k, p, Readings), UNCHANGED now
  PROVE  TypeOK'
  <1>1. CASE SubmitBoundKey(r, k, p)
    BY <1>1, ConstantsAssumption
    DEF TypeOK, SubmitBoundKey, IsBound, Answer, Reject, Reply, Binding
  <1>2. CASE SubmitInvalidRetry(r, k, p)
    BY <1>2 DEF TypeOK, SubmitInvalidRetry, Answer, Reject, Reply
  <1>3. CASE SubmitJoinsActive(r, k, p)
    BY <1>3
    DEF TypeOK, SubmitJoinsActive, Active, Bind, Answer, Reject, Reply, Binding
  <1>4. CASE SubmitCreates(r, k, p, Readings)
    <2>1. PICK j \in JobIds, t \in Readings :
            /\ jobs' = [jobs EXCEPT ![j] =
                          [Absent EXCEPT !.status = "queued", !.request = r,
                                         !.retryOf = p, !.created = t]]
            /\ Bind(k, j, p)
            /\ Answer("created", r, k, j)
      BY <1>4 DEF SubmitCreates
    <2>2. t \in Nat
      BY DEF Readings
    <2>3. jobs' \in [JobIds -> Job]
      BY <2>1, <2>2, CreatedRowType DEF TypeOK
    <2>4. bindings' \in [Keys -> Binding] /\ reply' \in Reply
      BY <2>1 DEF TypeOK, Bind, Binding, Answer, Reply
    <2> QED BY <2>3, <2>4 DEF TypeOK
  <1> QED BY <1>1, <1>2, <1>3, <1>4 DEF Submit

\* The worker's operations keep the types.
LEMMA WorkerType ==
  ASSUME TypeOK, NEW t \in Readings, WorkerStep(t), UNCHANGED now
  PROVE  TypeOK'
  <1>0. t \in Nat
    BY DEF Readings
  <1>1. ASSUME NEW j \in JobIds, NEW w \in Workers, NEW s \in LeaseTerms,
               ClaimNext(j, w, s, t)
        PROVE  TypeOK'
    <2>1. t + s \in Nat
      BY <1>0, ConstantsAssumption
    <2>2. [jobs[j] EXCEPT !.status = "running", !.started = t, !.worker = w,
                          !.lease = t + s] \in Job
      BY <1>0, <2>1 DEF TypeOK, Job
    <2> QED BY <1>1, <2>2 DEF TypeOK, ClaimNext
  <1>2. ASSUME NEW j \in JobIds, NEW w \in Workers, NEW s \in LeaseTerms,
               RenewLease(j, w, s, t)
        PROVE  TypeOK'
    <2>1. jobs[j] \in Job /\ jobs[j].lease + s \in Nat
      BY ConstantsAssumption DEF TypeOK, Job
    <2> QED BY <1>2, <2>1 DEF TypeOK, RenewLease, Job
  <1>3. ASSUME NEW j \in JobIds, NEW w \in Workers,
               NEW outcome \in {"completed", "failed"}, Finish(j, w, outcome, t)
        PROVE  TypeOK'
    <2>1. [jobs[j] EXCEPT !.status = outcome, !.finished = t,
                          !.lease = NoTime] \in Job
      BY <1>0 DEF TypeOK, Job
    <2> QED BY <1>3, <2>1 DEF TypeOK, Finish
  <1>4. ASSUME MarkExpiredAbandoned(t)
        PROVE  TypeOK'
    BY <1>0, <1>4 DEF TypeOK, MarkExpiredAbandoned, Job
  <1> QED BY <1>1, <1>2, <1>3, <1>4 DEF WorkerStep

LEMMA TypeStep == TypeOK /\ [Next]_vars => TypeOK'
  <1> SUFFICES ASSUME TypeOK, [Next]_vars PROVE TypeOK'
    OBVIOUS
  <1>1. CASE Tick
    BY <1>1, ConstantsAssumption DEF TypeOK, Tick, repoVars
  <1>2. CASE ClientStep /\ UNCHANGED now
    BY <1>2, SubmitType DEF ClientStep
  <1>3. CASE \E t \in Readings : WorkerStep(t) /\ UNCHANGED now
    BY <1>3, WorkerType
  <1>4. CASE UNCHANGED vars
    BY <1>4 DEF TypeOK, vars
  <1> QED BY <1>1, <1>2, <1>3, <1>4 DEF Next

LEMMA TypeInit == Init => TypeOK
  BY ConstantsAssumption
  DEF Init, TypeOK, Job, Absent, Binding, Unbound, Reply

\* Whatever the calls, rows, bindings and answers keep their shape.
THEOREM TypeCorrect == Spec => []TypeOK
  BY TypeInit, TypeStep, PTL DEF Spec
-----------------------------------------------------------------------------
(* The inductive invariant                                                 *)

Retryable(j, r) == jobs[j].status \in RetryableStatuses /\ jobs[j].request = r

\* An identity not used yet has the empty row; a used one a validated row.
RowInv ==
  \A j \in JobIds :
    /\ ~Present(j) => jobs[j] = Absent
    /\ Present(j) => jobs[j].request \in Requests
    /\ LifecycleValid(jobs[j])

\* One link of a retry chain.
LinkInv ==
  \A j \in JobIds :
    jobs[j].retryOf # NoJob => Retryable(jobs[j].retryOf, jobs[j].request)

\* No cycle of links: every set of jobs has one whose link leads out of it.
Acyclic ==
  \A T \in SUBSET JobIds : T # {} => \E s \in T : jobs[s].retryOf \notin T

\* Keys name existing jobs, under a link that is good for the job's request.
KeyInv ==
  \A k \in Keys : bindings[k].job # NoJob =>
    LET b == bindings[k] IN
      /\ Present(b.job)
      /\ b.retryOf # NoJob => Retryable(b.retryOf, jobs[b.job].request)

AliasInv ==
  \A j \in JobIds : /\ IsFiniteSet(Aliases(j))
                     /\ Cardinality(Aliases(j)) <= MaxAliases

IInv ==
  /\ TypeOK
  /\ RowInv
  /\ OneActivePerRequest
  /\ LinkInv
  /\ Acyclic
  /\ KeyInv
  /\ AliasInv
  /\ ReplyHonoured

LEMMA InvInit == Init => IInv
  <1> SUFFICES ASSUME Init PROVE IInv
    OBVIOUS
  <1>1. TypeOK
    BY TypeInit
  <1>2. RowInv
    BY DEF Init, RowInv, Present, Absent, LifecycleValid
  <1>3. OneActivePerRequest
    BY DEF Init, OneActivePerRequest, Absent
  <1>4. LinkInv
    BY DEF Init, LinkInv, Absent
  <1>5. Acyclic
    BY ConstantsAssumption DEF Init, Acyclic, Absent
  <1>6. KeyInv
    BY DEF Init, KeyInv, Unbound
  <1>7. AliasInv
    <2>1. ASSUME NEW j \in JobIds PROVE Aliases(j) = {}
      BY ConstantsAssumption DEF Init, Aliases, Unbound
    <2>2. IsFiniteSet({}) /\ Cardinality({}) = 0
      BY FS_EmptySet
    <2> QED BY <2>1, <2>2, ConstantsAssumption DEF AliasInv
  <1>8. ReplyHonoured
    BY DEF Init, ReplyHonoured
  <1> QED BY <1>1, <1>2, <1>3, <1>4, <1>5, <1>6, <1>7, <1>8 DEF IInv

-----------------------------------------------------------------------------
(* Steps that create nothing                                               *)

\* What every operation but a creation may do to the rows: identities, requests
\* and links stay, nothing becomes active again, and a job that failed or was
\* abandoned stays so.
Advances ==
  \A i \in JobIds :
    /\ jobs'[i].request = jobs[i].request
    /\ jobs'[i].retryOf = jobs[i].retryOf
    /\ jobs'[i].status = "absent" <=> jobs[i].status = "absent"
    /\ jobs'[i].status \in ActiveStatuses => jobs[i].status \in ActiveStatuses
    /\ jobs[i].status \in RetryableStatuses => jobs'[i].status = jobs[i].status

\* The invariant but for rows and types survives any such step.
LEMMA AdvancePreserves ==
  ASSUME IInv, Advances, UNCHANGED <<bindings, reply>>
  PROVE  /\ OneActivePerRequest' /\ LinkInv' /\ Acyclic' /\ KeyInv' /\ AliasInv'
         /\ ReplyHonoured'
  <1>1. OneActivePerRequest'
    BY DEF IInv, OneActivePerRequest, Advances
  <1>2. ASSUME NEW i \in JobIds, NEW r, Retryable(i, r)
        PROVE  Retryable(i, r)'
    BY <1>2 DEF Advances, Retryable
  <1>3. LinkInv'
    <2> SUFFICES ASSUME NEW j \in JobIds, jobs'[j].retryOf # NoJob
                 PROVE  Retryable(jobs[j].retryOf, jobs[j].request)'
      BY DEF LinkInv
    <2>1. jobs[j].retryOf \in JobIds
      BY DEF Advances, IInv, TypeOK, Job
    <2>2. Retryable(jobs[j].retryOf, jobs[j].request)
      BY DEF Advances, IInv, LinkInv
    <2> QED BY <2>1, <2>2 DEF Advances, Retryable
  <1>4. Acyclic'
    BY DEF IInv, Acyclic, Advances
  <1>5. KeyInv'
    <2> SUFFICES ASSUME NEW k \in Keys, bindings[k].job # NoJob
                 PROVE  /\ Present(bindings[k].job)'
                        /\ bindings[k].retryOf # NoJob =>
                             Retryable(bindings[k].retryOf,
                                       jobs[bindings[k].job].request)'
      BY DEF KeyInv
    <2>1. /\ bindings[k].job \in JobIds
          /\ bindings[k].retryOf \in JobIds \cup {NoJob}
      BY DEF IInv, TypeOK, Binding
    <2>2. /\ Present(bindings[k].job)
          /\ bindings[k].retryOf # NoJob =>
               Retryable(bindings[k].retryOf, jobs[bindings[k].job].request)
      BY DEF IInv, KeyInv
    <2> QED BY <2>1, <2>2 DEF Advances, Present, Retryable
  <1>6. AliasInv'
    <2>1. \A j \in JobIds : Aliases(j)' = Aliases(j)
      BY DEF Aliases
    <2> QED BY <2>1 DEF IInv, AliasInv
  <1>7. ReplyHonoured'
    BY DEF IInv, ReplyHonoured, Advances, Present, TypeOK, Reply
  <1> QED BY <1>1, <1>3, <1>4, <1>5, <1>6, <1>7

-----------------------------------------------------------------------------
(* The worker's operations                                                 *)

\* A change of one row that keeps request and link and does not leave the
\* lifecycle is an advance.
LEMMA RowStep ==
  ASSUME TypeOK, RowInv, NEW j \in JobIds, NEW row \in Job,
         jobs' = [jobs EXCEPT ![j] = row],
         row.request = jobs[j].request, row.retryOf = jobs[j].retryOf,
         jobs[j].status \in ActiveStatuses, row.status # "absent",
         LifecycleValid(row)
  PROVE  Advances /\ RowInv'
  <1>1. \A i \in JobIds : jobs'[i] = IF i = j THEN row ELSE jobs[i]
    BY DEF TypeOK
  <1>2. Advances
    BY <1>1 DEF Advances
  <1>3. ASSUME NEW i \in JobIds
        PROVE  /\ ~Present(i)' => jobs'[i] = Absent
               /\ Present(i)' => jobs'[i].request \in Requests
               /\ LifecycleValid(jobs'[i])
    <2>1. CASE i = j
      BY <1>1, <2>1 DEF RowInv, Present
    <2>2. CASE i # j
      BY <1>1, <2>2 DEF RowInv, Present
    <2> QED BY <2>1, <2>2
  <1>4. RowInv'
    BY <1>3 DEF RowInv
  <1> QED BY <1>2, <1>4

LEMMA WorkerRows ==
  ASSUME TypeOK, RowInv, NEW t \in Readings, WorkerStep(t)
  PROVE  Advances /\ RowInv' /\ UNCHANGED <<bindings, reply>>
  <1>0. t \in Nat
    BY DEF Readings
  <1>1. ASSUME NEW j \in JobIds, NEW w \in Workers, NEW s \in LeaseTerms,
               ClaimNext(j, w, s, t)
        PROVE  Advances /\ RowInv' /\ UNCHANGED <<bindings, reply>>
    <2> DEFINE row == [jobs[j] EXCEPT !.status = "running", !.started = t,
                                      !.worker = w, !.lease = t + s]
    <2>1. jobs[j] \in Job /\ t + s \in Nat /\ t + s > t /\ w # NoWorker
      BY <1>0, ConstantsAssumption DEF TypeOK
    <2>2. row \in Job
      BY <1>0, <2>1 DEF Job
    <2>3. jobs[j].status = "queued" /\ jobs[j].created <= t /\ LifecycleValid(jobs[j])
      BY <1>0, <1>1, <2>1 DEF ClaimNext, OldestQueued, Queued, RowInv, Job
    <2>4. LifecycleValid(row)
      BY <1>0, <2>1, <2>3 DEF LifecycleValid, Job
    <2>5. /\ row.request = jobs[j].request /\ row.retryOf = jobs[j].retryOf
          /\ row.status # "absent"
      BY <2>1 DEF Job
    <2> HIDE DEF row
    <2>6. Advances /\ RowInv'
      BY <1>1, <2>2, <2>3, <2>4, <2>5, RowStep DEF ClaimNext, row
    <2> QED BY <1>1, <2>6 DEF ClaimNext
  <1>2. ASSUME NEW j \in JobIds, NEW w \in Workers, NEW s \in LeaseTerms,
               RenewLease(j, w, s, t)
        PROVE  Advances /\ RowInv' /\ UNCHANGED <<bindings, reply>>
    <2> DEFINE row == [jobs[j] EXCEPT !.lease = jobs[j].lease + s]
    <2>1. jobs[j] \in Job /\ s \in Nat /\ jobs[j].lease + s \in Nat
      BY ConstantsAssumption DEF TypeOK, Job
    <2>2. row \in Job
      BY <2>1 DEF Job
    <2>3. jobs[j].status = "running" /\ LifecycleValid(jobs[j])
      BY <1>2 DEF RenewLease, OwnedRunning, RowInv
    <2>4. LifecycleValid(row)
      BY <2>1, <2>3 DEF LifecycleValid, Job
    <2>5. /\ row.request = jobs[j].request /\ row.retryOf = jobs[j].retryOf
          /\ row.status # "absent"
      BY <2>1, <2>3 DEF Job
    <2>6. jobs' = [jobs EXCEPT ![j] = row]
      BY <1>2 DEF RenewLease, TypeOK
    <2> HIDE DEF row
    <2>7. Advances /\ RowInv'
      BY <2>2, <2>3, <2>4, <2>5, <2>6, RowStep
    <2> QED BY <1>2, <2>7 DEF RenewLease
  <1>3. ASSUME NEW j \in JobIds, NEW w \in Workers,
               NEW outcome \in {"completed", "failed"}, Finish(j, w, outcome, t)
        PROVE  Advances /\ RowInv' /\ UNCHANGED <<bindings, reply>>
    <2> DEFINE row == [jobs[j] EXCEPT !.status = outcome, !.finished = t,
                                      !.lease = NoTime]
    <2>1. jobs[j] \in Job
      BY DEF TypeOK
    <2>2. row \in Job
      BY <1>0, <2>1 DEF Job
    <2>3. /\ jobs[j].status = "running" /\ jobs[j].started <= t
          /\ LifecycleValid(jobs[j])
      BY <1>0, <1>3, <2>1 DEF Finish, OwnedRunning, RowInv, Job
    <2>4. LifecycleValid(row)
      BY <1>0, <2>1, <2>3 DEF LifecycleValid, Job
    <2>5. /\ row.request = jobs[j].request /\ row.retryOf = jobs[j].retryOf
          /\ row.status # "absent"
      BY <2>1 DEF Job
    <2> HIDE DEF row
    <2>6. Advances /\ RowInv'
      BY <1>3, <2>2, <2>3, <2>4, <2>5, RowStep DEF Finish, row
    <2> QED BY <1>3, <2>6 DEF Finish
  <1>4. ASSUME MarkExpiredAbandoned(t)
        PROVE  Advances /\ RowInv' /\ UNCHANGED <<bindings, reply>>
    <2>1. ASSUME NEW i \in JobIds
          PROVE  jobs'[i] = IF i \in Expired(t)
                            THEN [jobs[i] EXCEPT !.status = "abandoned",
                                                 !.finished = t, !.lease = NoTime]
                            ELSE jobs[i]
      BY <1>4 DEF MarkExpiredAbandoned
    <2>2. ASSUME NEW i \in JobIds, i \in Expired(t)
          PROVE  /\ jobs[i].status = "running" /\ jobs'[i].status = "abandoned"
                 /\ jobs'[i].request = jobs[i].request
                 /\ jobs'[i].retryOf = jobs[i].retryOf
                 /\ LifecycleValid(jobs'[i])
      <3>1. jobs[i] \in Job /\ jobs[i].status = "running" /\ jobs[i].lease <= t
        BY <2>2 DEF Expired, TypeOK
      <3>2. LifecycleValid(jobs[i])
        BY DEF RowInv
      <3>3. LifecycleValid([jobs[i] EXCEPT !.status = "abandoned",
                                           !.finished = t, !.lease = NoTime])
        BY <1>0, <3>1, <3>2 DEF LifecycleValid, Job
      <3> QED BY <2>1, <2>2, <3>1, <3>3 DEF Job
    <2>3. ASSUME NEW i \in JobIds, i \notin Expired(t)
          PROVE  jobs'[i] = jobs[i]
      BY <2>1, <2>3
    <2>4. Advances
      BY <2>2, <2>3 DEF Advances
    <2>5. RowInv'
      BY <2>2, <2>3 DEF RowInv, Present
    <2> QED BY <1>4, <2>4, <2>5 DEF MarkExpiredAbandoned
  <1> QED BY <1>1, <1>2, <1>3, <1>4 DEF WorkerStep

-----------------------------------------------------------------------------
(* Submissions                                                             *)

\* A valid retry link is to a job that can be retried for the request.
LEMMA ValidRetryLink ==
  ASSUME NEW p, NEW r, NEW seen, ValidRetry(p, r, seen), p # NoJob
  PROVE  p \in JobIds /\ Retryable(p, r)
  BY DEF ValidRetry, Retryable

\* The rows after a creation.
LEMMA CreateRows ==
  ASSUME IInv, NEW j \in JobIds, NEW r \in Requests,
         NEW p \in JobIds \cup {NoJob}, NEW t \in Nat,
         ~Present(j), Active(r) = {}, p # NoJob => Retryable(p, r),
         jobs' = [jobs EXCEPT ![j] =
                    [Absent EXCEPT !.status = "queued", !.request = r,
                                   !.retryOf = p, !.created = t]]
  PROVE  /\ RowInv' /\ OneActivePerRequest' /\ LinkInv' /\ Acyclic'
         /\ Present(j)' /\ jobs'[j].request = r
         /\ \A i \in JobIds : Present(i) => jobs'[i] = jobs[i] /\ i # j
  <1> DEFINE row == [Absent EXCEPT !.status = "queued", !.request = r,
                                   !.retryOf = p, !.created = t]
  <1>0. row \in Job
    BY CreatedRowType
  <1>1. /\ row.status = "queued" /\ row.request = r /\ row.retryOf = p
        /\ row.started = NoTime /\ row.finished = NoTime
        /\ row.worker = NoWorker /\ row.lease = NoTime
    BY DEF Absent
  <1> HIDE DEF row
  <1>2. \A i \in JobIds : jobs'[i] = IF i = j THEN row ELSE jobs[i]
    BY DEF IInv, TypeOK, row
  <1>3. RowInv'
    BY <1>1, <1>2 DEF IInv, RowInv, Present, LifecycleValid
  <1>4. OneActivePerRequest'
    BY <1>1, <1>2 DEF IInv, OneActivePerRequest, Active
  <1>5. ASSUME NEW i \in JobIds, NEW x, Retryable(i, x)
        PROVE  i # j /\ Retryable(i, x)'
    BY <1>2, <1>5 DEF Retryable, Present
  <1>6. LinkInv'
    <2> SUFFICES ASSUME NEW i \in JobIds, jobs'[i].retryOf # NoJob
                 PROVE  Retryable(jobs[i].retryOf, jobs[i].request)'
      BY DEF LinkInv
    <2>1. CASE i = j
      <3>1. Retryable(p, r) /\ p \in JobIds /\ jobs'[i] = row
        BY <1>1, <1>2, <2>1
      <3>2. Retryable(p, r)'
        BY <1>5, <3>1
      <3> QED BY <1>1, <3>1, <3>2 DEF Retryable
    <2>2. CASE i # j
      <3>1. jobs'[i] = jobs[i] /\ jobs[i].retryOf \in JobIds
        BY <1>2, <2>2 DEF IInv, TypeOK, Job
      <3>2. Retryable(jobs[i].retryOf, jobs[i].request)
        BY <3>1 DEF IInv, LinkInv
      <3>3. Retryable(jobs[i].retryOf, jobs[i].request)
              => jobs'[jobs[i].retryOf] = jobs[jobs[i].retryOf]
        BY <1>2, <1>5, <3>1
      <3> QED BY <3>1, <3>2, <3>3 DEF Retryable
    <2> QED BY <2>1, <2>2
  <1>7. Acyclic'
    <2> SUFFICES ASSUME NEW T \in SUBSET JobIds, T # {}
                 PROVE  \E s \in T : jobs'[s].retryOf \notin T
      BY DEF Acyclic
    <2>1. CASE T = {j}
      <3>1. p # j
        BY <1>5, ConstantsAssumption
      <3> QED BY <1>1, <1>2, <2>1, <3>1
    <2>2. CASE T # {j}
      <3>1. PICK s \in T \ {j} : jobs[s].retryOf \notin T \ {j}
        BY <2>2 DEF IInv, Acyclic
      <3>2. jobs[s].retryOf # j
        <4>1. CASE jobs[s].retryOf = NoJob
          BY <4>1, ConstantsAssumption
        <4>2. CASE jobs[s].retryOf # NoJob
          <5>1. /\ jobs[s].retryOf \in JobIds
                /\ Retryable(jobs[s].retryOf, jobs[s].request)
            BY <4>2 DEF IInv, TypeOK, Job, LinkInv
          <5> QED BY <1>5, <5>1
        <4> QED BY <4>1, <4>2
      <3> QED BY <1>2, <3>1, <3>2
    <2> QED BY <2>1, <2>2
  <1>8. \A i \in JobIds : Present(i) => jobs'[i] = jobs[i] /\ i # j
    BY <1>2
  <1>9. Present(j)' /\ jobs'[j].request = r
    BY <1>1, <1>2 DEF Present
  <1> QED BY <1>3, <1>4, <1>6, <1>7, <1>8, <1>9

\* Binding a free key to j adds it to the aliases of j alone.
LEMMA BindAliases ==
  ASSUME IInv, NEW k \in Keys, NEW j \in JobIds, NEW p, ~IsBound(k),
         Bind(k, j, p), Cardinality(Aliases(j)) < MaxAliases
  PROVE  AliasInv'
  <1>0. k # NoKey
    BY ConstantsAssumption
  <1>1. \A x \in Keys : bindings'[x] = IF x = k THEN [job |-> j, retryOf |-> p]
                                               ELSE bindings[x]
    BY <1>0 DEF Bind, IInv, TypeOK
  <1>2. Aliases(j)' = Aliases(j) \cup {k} /\ k \notin Aliases(j)
    BY <1>0, <1>1, ConstantsAssumption DEF Aliases, IsBound
  <1>3. ASSUME NEW i \in JobIds, i # j PROVE Aliases(i)' = Aliases(i)
    BY <1>0, <1>1, <1>3, ConstantsAssumption DEF Aliases, IsBound
  <1>4. IsFiniteSet(Aliases(j)) /\ Cardinality(Aliases(j)) \in Nat
    BY FS_CardinalityType DEF IInv, AliasInv
  <1>5. /\ IsFiniteSet(Aliases(j)')
        /\ Cardinality(Aliases(j)') = Cardinality(Aliases(j)) + 1
    BY <1>2, <1>4, FS_AddElement
  <1>6. Cardinality(Aliases(j)') <= MaxAliases
    BY <1>4, <1>5, ConstantsAssumption
  <1> QED BY <1>3, <1>5, <1>6 DEF IInv, AliasInv

\* Binding key k to job j, which exists and can be retried from p.
LEMMA BindKeys ==
  ASSUME IInv, NEW k \in Keys \cup {NoKey}, NEW j \in JobIds,
         NEW p \in JobIds \cup {NoJob}, Bind(k, j, p),
         \A i \in JobIds : Present(i) => jobs'[i] = jobs[i],
         Present(j)', p # NoJob => Retryable(p, jobs'[j].request)
  PROVE  KeyInv'
  <1>1. ASSUME NEW i \in JobIds, NEW x, Retryable(i, x) PROVE Retryable(i, x)'
    BY <1>1 DEF Retryable, Present
  <1>2. ASSUME NEW x \in Keys, bindings'[x] # bindings[x]
        PROVE  bindings'[x] = [job |-> j, retryOf |-> p]
    BY <1>2 DEF Bind, IInv, TypeOK
  <1> SUFFICES ASSUME NEW x \in Keys, bindings'[x].job # NoJob
               PROVE  LET b == bindings[x] IN
                        (/\ Present(b.job)
                         /\ b.retryOf # NoJob =>
                              Retryable(b.retryOf, jobs[b.job].request))'
    BY DEF KeyInv
  <1>3. CASE bindings'[x] = bindings[x]
    <2>1. /\ bindings[x].job \in JobIds
          /\ bindings[x].retryOf \in JobIds \cup {NoJob}
      BY <1>3 DEF IInv, TypeOK, Binding
    <2>2. /\ Present(bindings[x].job)
          /\ bindings[x].retryOf # NoJob =>
               Retryable(bindings[x].retryOf, jobs[bindings[x].job].request)
      BY <1>3 DEF IInv, KeyInv
    <2>3. jobs'[bindings[x].job] = jobs[bindings[x].job]
      BY <2>1, <2>2
    <2>4. bindings[x].retryOf # NoJob =>
            Retryable(bindings[x].retryOf, jobs[bindings[x].job].request)'
      BY <1>1, <1>3, <2>1, <2>2, <2>3 DEF Retryable
    <2> QED BY <1>3, <2>2, <2>3, <2>4 DEF Present, Retryable
  <1>4. CASE bindings'[x] # bindings[x]
    <2>1. bindings'[x].job = j /\ bindings'[x].retryOf = p
      BY <1>2, <1>4
    <2>2. p # NoJob => p \in JobIds /\ jobs'[p] = jobs[p]
      BY DEF Retryable, Present
    <2> QED BY <2>1, <2>2 DEF Present, Retryable
  <1> QED BY <1>3, <1>4

\* No submission leaves the invariant.
LEMMA SubmitStep ==
  ASSUME IInv, NEW r \in Requests, NEW k \in Keys \cup {NoKey},
         NEW p \in JobIds \cup {NoJob}, Submit(r, k, p, Readings), UNCHANGED now
  PROVE  IInv'
  <1>0. TypeOK'
    BY SubmitType DEF IInv
  <1>1. ASSUME UNCHANGED <<jobs, bindings>>, ReplyHonoured' PROVE IInv'
    <2>1. Advances
      BY <1>1 DEF Advances
    <2>2. RowInv' /\ LinkInv' /\ Acyclic' /\ KeyInv' /\ OneActivePerRequest'
      BY <1>1
      DEF IInv, RowInv, LinkInv, Acyclic, KeyInv, OneActivePerRequest, Present,
          Retryable
    <2>3. \A j \in JobIds : Aliases(j)' = Aliases(j)
      BY <1>1 DEF Aliases
    <2>4. AliasInv'
      BY <2>3 DEF IInv, AliasInv
    <2> QED BY <1>0, <1>1, <2>2, <2>4 DEF IInv
  <1>2. ASSUME NEW outcome \in Rejected, Reject(outcome) PROVE IInv'
    <2>1. ReplyHonoured'
      BY <1>2 DEF Reject, Answer, ReplyHonoured
    <2> QED BY <1>1, <1>2, <2>1 DEF Reject
  <1>3. CASE SubmitBoundKey(r, k, p)
    <2>1. k \in Keys /\ bindings[k].job \in JobIds /\ Present(bindings[k].job)
      BY <1>3, ConstantsAssumption
      DEF SubmitBoundKey, IsBound, IInv, TypeOK, Binding, KeyInv
    <2>2. CASE jobs[bindings[k].job].request = r /\ bindings[k].retryOf = p
      <3>1. /\ Answer("idempotent_replay", r, k, bindings[k].job)
            /\ UNCHANGED <<jobs, bindings>>
        BY <1>3, <2>2 DEF SubmitBoundKey
      <3>2. ReplyHonoured'
        BY <2>1, <2>2, <3>1 DEF Answer, ReplyHonoured, Present
      <3> QED BY <1>1, <3>1, <3>2
    <2>3. CASE ~(jobs[bindings[k].job].request = r /\ bindings[k].retryOf = p)
      BY <1>2, <1>3, <2>3 DEF SubmitBoundKey
    <2> QED BY <2>2, <2>3
  <1>4. CASE SubmitInvalidRetry(r, k, p)
    BY <1>2, <1>4 DEF SubmitInvalidRetry
  <1>5. CASE SubmitJoinsActive(r, k, p)
    <2>1. PICK j \in Active(r) :
            IF k # NoKey /\ Cardinality(Aliases(j)) >= MaxAliases
            THEN Reject("idempotency_alias_limit")
            ELSE /\ Bind(k, j, p)
                 /\ Answer("existing_active", r, k, j)
                 /\ UNCHANGED jobs
      BY <1>5 DEF SubmitJoinsActive
    <2>2. j \in JobIds /\ Present(j) /\ jobs[j].request = r
      BY DEF Active, Present
    <2>3. CASE k # NoKey /\ Cardinality(Aliases(j)) >= MaxAliases
      BY <1>2, <2>1, <2>3
    <2>4. CASE k = NoKey
      <3>1. UNCHANGED <<jobs, bindings>> /\ Answer("existing_active", r, k, j)
        BY <2>1, <2>4 DEF Bind
      <3>2. ReplyHonoured'
        BY <2>2, <2>4, <3>1 DEF Answer, ReplyHonoured, Present
      <3> QED BY <1>1, <3>1, <3>2
    <2>5. CASE k # NoKey /\ ~(Cardinality(Aliases(j)) >= MaxAliases)
      <3>1. /\ Bind(k, j, p) /\ Answer("existing_active", r, k, j)
            /\ UNCHANGED jobs /\ k \in Keys /\ ~IsBound(k)
        BY <1>5, <2>1, <2>5 DEF SubmitJoinsActive
      <3>2. Cardinality(Aliases(j)) \in Nat
        BY <2>2, FS_CardinalityType DEF IInv, AliasInv
      <3>3. AliasInv'
        BY <2>2, <2>5, <3>1, <3>2, BindAliases, ConstantsAssumption
      <3>4. p # NoJob => Retryable(p, r)
        BY <1>5, ValidRetryLink DEF SubmitJoinsActive
      <3>5. KeyInv'
        BY <2>2, <3>1, <3>4, BindKeys DEF Present
      <3>6. RowInv' /\ LinkInv' /\ Acyclic' /\ OneActivePerRequest'
        BY <3>1
        DEF IInv, RowInv, LinkInv, Acyclic, OneActivePerRequest, Present,
            Retryable
      <3>7. bindings'[k].job = j
        BY <2>5, <3>1 DEF Bind, IInv, TypeOK
      <3>8. ReplyHonoured'
        BY <2>2, <3>1, <3>7 DEF Answer, ReplyHonoured, Present
      <3> QED BY <1>0, <3>3, <3>5, <3>6, <3>8 DEF IInv
    <2> QED BY <2>3, <2>4, <2>5
  <1>6. CASE SubmitCreates(r, k, p, Readings)
    <2>1. PICK j \in JobIds, t \in Readings :
            /\ ~Present(j)
            /\ jobs' = [jobs EXCEPT ![j] =
                          [Absent EXCEPT !.status = "queued", !.request = r,
                                         !.retryOf = p, !.created = t]]
            /\ Bind(k, j, p)
            /\ Answer("created", r, k, j)
      BY <1>6 DEF SubmitCreates
    <2>2. ~IsBound(k) /\ Active(r) = {} /\ (p # NoJob => Retryable(p, r))
      BY <1>6, ValidRetryLink DEF SubmitCreates
    <2>3. t \in Nat
      BY DEF Readings
    <2>4. /\ RowInv' /\ OneActivePerRequest' /\ LinkInv' /\ Acyclic'
          /\ Present(j)' /\ jobs'[j].request = r
          /\ \A i \in JobIds : Present(i) => jobs'[i] = jobs[i] /\ i # j
      BY <2>1, <2>2, <2>3, CreateRows
    <2>5. KeyInv'
      BY <2>1, <2>2, <2>4, BindKeys
    <2>6. AliasInv'
      <3>1. CASE k = NoKey
        <4>1. \A i \in JobIds : Aliases(i)' = Aliases(i)
          BY <2>1, <3>1 DEF Bind, Aliases
        <4> QED BY <4>1 DEF IInv, AliasInv
      <3>2. CASE k # NoKey
        <4>1. Aliases(j) = {}
          BY <2>1, ConstantsAssumption DEF Aliases, IInv, KeyInv
        <4>2. Cardinality(Aliases(j)) < MaxAliases
          BY <4>1, FS_EmptySet, ConstantsAssumption
        <4> QED BY <2>1, <2>2, <3>2, <4>2, BindAliases
      <3> QED BY <3>1, <3>2
    <2>7. k # NoKey => bindings'[k].job = j
      BY <2>1 DEF Bind, IInv, TypeOK
    <2>8. ReplyHonoured'
      BY <2>1, <2>4, <2>7 DEF Answer, ReplyHonoured
    <2> QED BY <1>0, <2>4, <2>5, <2>6, <2>8 DEF IInv
  <1> QED BY <1>3, <1>4, <1>5, <1>6 DEF Submit

LEMMA InvStep == IInv /\ [Next]_vars => IInv'
  <1> SUFFICES ASSUME IInv, [Next]_vars PROVE IInv'
    OBVIOUS
  <1>0. TypeOK'
    BY TypeStep DEF IInv
  <1>1. ASSUME UNCHANGED repoVars PROVE IInv'
    <2>1. UNCHANGED <<jobs, bindings, reply>>
      BY <1>1 DEF repoVars
    <2>2. Advances /\ RowInv'
      BY <2>1 DEF Advances, IInv, RowInv, Present
    <2> QED BY <1>0, <2>1, <2>2, AdvancePreserves DEF IInv
  <1>2. CASE ClientStep /\ UNCHANGED now
    BY <1>2, SubmitStep DEF ClientStep
  <1>3. CASE \E t \in Readings : WorkerStep(t) /\ UNCHANGED now
    <2>1. Advances /\ RowInv' /\ UNCHANGED <<bindings, reply>>
      BY <1>3, WorkerRows DEF IInv
    <2> QED BY <1>0, <2>1, AdvancePreserves DEF IInv
  <1> QED BY <1>1, <1>2, <1>3 DEF Next, Tick, vars, repoVars

THEOREM Invariant == Spec => []IInv
  BY InvInit, InvStep, PTL DEF Spec

-----------------------------------------------------------------------------
(* What follows from the invariant                                         *)

\* The jobs whose chain of retries leads through j, and j itself.
Successors(j) ==
  {x \in JobIds : \A X \in SUBSET JobIds :
     /\ j \in X
     /\ \A c \in JobIds : jobs[c].retryOf \in X => c \in X
     => x \in X}

\* No job is a retry of one of its own successors.
LEMMA ChainAvoidsSelf ==
  ASSUME IInv, NEW j \in JobIds
  PROVE  /\ j \in Successors(j)
         /\ \A c \in JobIds : jobs[c].retryOf \in Successors(j) =>
              c \in Successors(j)
         /\ jobs[j].retryOf \notin Successors(j)
  <1> DEFINE D == Successors(j)
  <1>1. j \in D /\ D \in SUBSET JobIds
    BY DEF Successors
  <1>2. \A c \in JobIds : jobs[c].retryOf \in D => c \in D
    BY DEF Successors
  <1>3. ASSUME NEW s \in D, s # j PROVE jobs[s].retryOf \in D
    <2> DEFINE X == D \ {s}
    <2>1. j \in X /\ X \in SUBSET JobIds
      BY <1>1, <1>3
    <2>2. ~(\A c \in JobIds : jobs[c].retryOf \in X => c \in X)
      <3>1. s \in JobIds /\ s \in Successors(j) /\ s \notin X
        BY <1>1
      <3> QED BY <2>1, <3>1 DEF Successors
    <2>3. PICK c \in JobIds : jobs[c].retryOf \in X /\ c \notin X
      BY <2>2
    <2>4. c \in D
      BY <1>2, <2>3
    <2>5. c = s
      BY <2>3, <2>4
    <2> QED BY <2>3, <2>5
  <1>4. jobs[j].retryOf \notin D
    <2> SUFFICES ASSUME jobs[j].retryOf \in D PROVE FALSE
      OBVIOUS
    <2>1. \A s \in D : jobs[s].retryOf \in D
      BY <1>3
    <2>2. \E s \in D : jobs[s].retryOf \notin D
      BY <1>1 DEF IInv, Acyclic
    <2> QED BY <2>1, <2>2
  <1> QED BY <1>1, <1>2, <1>4

\* The retry chain behind every job that exists can be walked.
LEMMA ChainReadable ==
  ASSUME IInv, NEW j \in JobIds
  PROVE  ValidRetry(jobs[j].retryOf, jobs[j].request, {j})
  <1> DEFINE p == jobs[j].retryOf
             r == jobs[j].request
             S == {s \in JobIds : Retryable(s, r) /\ s \notin Successors(j)}
  <1>1. CASE p = NoJob
    BY <1>1 DEF ValidRetry
  <1>2. CASE p # NoJob
    <2>1. p \in JobIds /\ Retryable(p, r)
      BY <1>2 DEF IInv, TypeOK, Job, LinkInv
    <2>2. p \in S
      BY <2>1, ChainAvoidsSelf
    <2>3. S \in SUBSET (JobIds \ {j})
      BY ChainAvoidsSelf
    <2>4. ASSUME NEW s \in S
          PROVE  /\ jobs[s].status \in RetryableStatuses
                 /\ jobs[s].request = r
                 /\ jobs[s].retryOf \in S \cup {NoJob}
      <3>1. s \in JobIds /\ Retryable(s, r) /\ s \notin Successors(j)
        OBVIOUS
      <3>2. jobs[s].retryOf \notin Successors(j)
        BY <3>1, ChainAvoidsSelf
      <3>3. jobs[s].retryOf \in JobIds \cup {NoJob}
        BY <3>1 DEF IInv, TypeOK, Job
      <3>4. jobs[s].retryOf # NoJob => Retryable(jobs[s].retryOf, r)
        BY <3>1 DEF IInv, LinkInv, Retryable
      <3> QED BY <3>1, <3>2, <3>3, <3>4 DEF Retryable
    <2>5. \A T \in (SUBSET S) \ {{}} : \E s \in T : jobs[s].retryOf \notin T
      BY DEF IInv, Acyclic
    <2> HIDE DEF S
    <2> QED BY <2>2, <2>3, <2>4, <2>5 DEF ValidRetry
  <1> QED BY <1>1, <1>2

LEMMA RowsReadable == IInv => EveryRowReadable
  BY ChainReadable DEF IInv, RowInv, EveryRowReadable, Readable

\* A link to a retryable job of the request is accepted.
LEMMA RetryAccepted ==
  ASSUME IInv, NEW p \in JobIds, NEW r, Retryable(p, r)
  PROVE  ValidRetry(p, r, {})
  <1> DEFINE S == {s \in JobIds : Retryable(s, r)}
  <1>1. p \in S /\ S \in SUBSET (JobIds \ {})
    OBVIOUS
  <1>2. ASSUME NEW s \in S
        PROVE  /\ jobs[s].status \in RetryableStatuses
               /\ jobs[s].request = r
               /\ jobs[s].retryOf \in S \cup {NoJob}
    <2>1. s \in JobIds /\ Retryable(s, r)
          /\ jobs[s].retryOf \in JobIds \cup {NoJob}
      BY DEF IInv, TypeOK, Job
    <2>2. jobs[s].retryOf # NoJob => Retryable(jobs[s].retryOf, r)
      BY DEF IInv, LinkInv, Retryable
    <2> QED BY <2>1, <2>2 DEF Retryable
  <1>3. \A T \in (SUBSET S) \ {{}} : \E s \in T : jobs[s].retryOf \notin T
    BY DEF IInv, Acyclic
  <1> HIDE DEF S
  <1> QED BY <1>1, <1>2, <1>3 DEF ValidRetry

LEMMA KeysSound == IInv => BindingsSound
  <1> SUFFICES ASSUME IInv PROVE BindingsSound
    OBVIOUS
  <1>1. ASSUME NEW k \in Keys, IsBound(k)
        PROVE  /\ Present(bindings[k].job)
               /\ ValidRetry(bindings[k].retryOf,
                             jobs[bindings[k].job].request, {})
    <2>1. /\ bindings[k].retryOf \in JobIds \cup {NoJob}
          /\ Present(bindings[k].job)
          /\ bindings[k].retryOf # NoJob =>
               Retryable(bindings[k].retryOf, jobs[bindings[k].job].request)
      BY <1>1 DEF IsBound, IInv, TypeOK, Binding, KeyInv
    <2>2. CASE bindings[k].retryOf = NoJob
      BY <2>1, <2>2 DEF ValidRetry
    <2>3. CASE bindings[k].retryOf # NoJob
      BY <2>1, <2>3, RetryAccepted
    <2> QED BY <2>1, <2>2, <2>3
  <1>2. \A j \in JobIds : Cardinality(Aliases(j)) <= MaxAliases
    BY DEF IInv, AliasInv
  <1> QED BY <1>1, <1>2 DEF BindingsSound

\* A request is never queued or running twice, for any number of clients.
THEOREM OneActive == Spec => []OneActivePerRequest
  <1>1. IInv => OneActivePerRequest
    BY DEF IInv
  <1> QED BY <1>1, Invariant, PTL

\* No row that a read would reject is ever stored.
THEOREM AlwaysReadable == Spec => []EveryRowReadable
  BY RowsReadable, Invariant, PTL

\* Keys stay sound and within the alias limit.
THEOREM KeysAlwaysSound == Spec => []BindingsSound
  BY KeysSound, Invariant, PTL

\* The answer to the last submission stays true.
THEOREM AnswersKept == Spec => []ReplyHonoured
  <1>1. IInv => ReplyHonoured
    BY DEF IInv
  <1> QED BY <1>1, Invariant, PTL

-----------------------------------------------------------------------------
(* Leases                                                                  *)

\* One step: recovery and terminal writes respect the stored lease.
LEMMA LeaseStep ==
  ASSUME TypeOK, [Next]_vars, NEW j \in JobIds
  PROVE  /\ Leaves(j, {"abandoned"}) => jobs[j].lease <= now
         /\ Leaves(j, {"completed", "failed"}) => jobs[j].lease + MaxLag > now
  <1> SUFFICES ASSUME jobs[j].status = "running", jobs'[j].status # "running"
               PROVE  /\ jobs'[j].status = "abandoned" => jobs[j].lease <= now
                      /\ jobs'[j].status \in {"completed", "failed"} =>
                           jobs[j].lease + MaxLag > now
    BY DEF Leaves
  <1>0. jobs[j] \in Job /\ now \in Nat /\ jobs[j].lease \in Nat /\ MaxLag \in Nat
    BY ConstantsAssumption DEF TypeOK, Job
  <1>1. CASE UNCHANGED jobs
    BY <1>1
  <1>2. CASE ClientStep /\ UNCHANGED now
    <2>1. PICK r \in Requests, k \in Keys \cup {NoKey}, p \in JobIds \cup {NoJob} :
            Submit(r, k, p, Readings)
      BY <1>2 DEF ClientStep
    <2>2. CASE UNCHANGED jobs
      BY <2>2
    <2>3. CASE SubmitCreates(r, k, p, Readings)
      <3>1. PICK i \in JobIds, t \in Readings :
              /\ ~Present(i)
              /\ jobs' = [jobs EXCEPT ![i] =
                            [Absent EXCEPT !.status = "queued", !.request = r,
                                           !.retryOf = p, !.created = t]]
        BY <2>3 DEF SubmitCreates
      <3> QED BY <3>1 DEF TypeOK, Present
    <2> QED BY <2>1, <2>2, <2>3
        DEF Submit, SubmitBoundKey, SubmitInvalidRetry, SubmitJoinsActive, Reject
  <1>3. CASE \E t \in Readings : WorkerStep(t) /\ UNCHANGED now
    <2>1. PICK t \in Readings : WorkerStep(t)
      BY <1>3
    <2>2. t \in Nat /\ t <= now /\ t + MaxLag >= now
      BY <1>0 DEF Readings
    <2>3. ASSUME NEW i \in JobIds, NEW w \in Workers, NEW s \in LeaseTerms,
                 ClaimNext(i, w, s, t) \/ RenewLease(i, w, s, t)
          PROVE  FALSE
      <3>1. CASE i # j
        BY <2>3, <3>1 DEF ClaimNext, RenewLease, TypeOK
      <3>2. CASE i = j
        <4>1. ~ClaimNext(j, w, s, t)
          BY DEF ClaimNext, OldestQueued, Queued
        <4>2. jobs' = [jobs EXCEPT ![j].lease = @ + s]
          BY <2>3, <3>2, <4>1 DEF RenewLease
        <4> QED BY <1>0, <4>2 DEF TypeOK, Job
      <3> QED BY <3>1, <3>2
    <2>4. ASSUME NEW i \in JobIds, NEW w \in Workers,
                 NEW outcome \in {"completed", "failed"}, Finish(i, w, outcome, t)
          PROVE  jobs'[j].status = outcome /\ jobs[j].lease > t
      <3>1. i = j
        BY <2>4 DEF Finish, TypeOK
      <3>2. jobs' = [jobs EXCEPT ![j] = [@ EXCEPT !.status = outcome,
                                           !.finished = t, !.lease = NoTime]]
        BY <2>4, <3>1 DEF Finish
      <3>3. jobs'[j].status = outcome
        BY <1>0, <3>2 DEF TypeOK, Job
      <3> QED BY <2>4, <3>1, <3>3 DEF Finish, OwnedRunning
    <2>5. ASSUME MarkExpiredAbandoned(t)
          PROVE  jobs'[j].status = "abandoned" /\ jobs[j].lease <= t
      <3>1. jobs'[j] = IF j \in Expired(t)
                       THEN [jobs[j] EXCEPT !.status = "abandoned",
                                            !.finished = t, !.lease = NoTime]
                       ELSE jobs[j]
        BY <2>5 DEF MarkExpiredAbandoned
      <3>2. j \in Expired(t)
        BY <3>1
      <3>3. jobs'[j].status = "abandoned"
        BY <1>0, <3>1, <3>2 DEF Job
      <3> QED BY <3>2, <3>3 DEF Expired
    <2>6. CASE \E i \in JobIds, w \in Workers, s \in LeaseTerms :
                 ClaimNext(i, w, s, t) \/ RenewLease(i, w, s, t)
      BY <2>3, <2>6
    <2>7. CASE \E i \in JobIds, w \in Workers,
                  outcome \in {"completed", "failed"} : Finish(i, w, outcome, t)
      <3>1. jobs'[j].status # "abandoned" /\ jobs[j].lease > t
        BY <2>4, <2>7
      <3> QED BY <1>0, <2>2, <3>1
    <2>8. CASE MarkExpiredAbandoned(t)
      BY <1>0, <2>2, <2>5, <2>8
    <2> QED BY <2>1, <2>6, <2>7, <2>8 DEF WorkerStep
  <1> QED BY <1>1, <1>2, <1>3 DEF Next, Tick, vars, repoVars

\* Leases are honoured whatever the number of workers and the lag.
THEOREM LeasesHonoured == Spec => LeaseHonoured
  <1>1. TypeOK /\ [Next]_vars =>
          [\A j \in JobIds :
             /\ Leaves(j, {"abandoned"}) => jobs[j].lease <= now
             /\ Leaves(j, {"completed", "failed"}) =>
                  jobs[j].lease + MaxLag > now]_vars
    BY LeaseStep
  <1> QED BY <1>1, TypeCorrect, PTL DEF Spec, LeaseHonoured

-----------------------------------------------------------------------------
(* The store implements the lifecycle                                      *)

LEMMA LifecycleInit == Init => Lifecycle!Init
  BY DEF Init, Lifecycle!Init, Absent, Unbound

\* Binding a free key maps to MayBind.
LEMMA BindMaps ==
  ASSUME TypeOK, NEW k \in Keys \cup {NoKey}, NEW j \in JobIds, NEW p,
         ~IsBound(k), Bind(k, j, p)
  PROVE  Lifecycle!MayBind(j)
  <1>1. CASE k = NoKey
    BY <1>1 DEF Bind, Lifecycle!MayBind
  <1>2. CASE k # NoKey
    <2>1. k \in Keys /\ bindings[k].job = NoJob
      BY <1>2 DEF IsBound
    <2>2. \A x \in Keys : bindings'[x].job = IF x = k THEN j ELSE bindings[x].job
      BY <1>2 DEF Bind, TypeOK
    <2>3. [x \in Keys |-> bindings'[x].job]
            = [[x \in Keys |-> bindings[x].job] EXCEPT ![k] = j]
      BY <2>1, <2>2
    <2> QED BY <2>1, <2>3 DEF Lifecycle!MayBind
  <1> QED BY <1>1, <1>2

\* A submission is a stutter, a join or an acceptance.
LEMMA SubmitMaps ==
  ASSUME TypeOK, NEW r \in Requests, NEW k \in Keys \cup {NoKey},
         NEW p \in JobIds \cup {NoJob}, Submit(r, k, p, Readings)
  PROVE  Lifecycle!Next \/ UNCHANGED Lifecycle!vars
  <1>1. CASE UNCHANGED <<jobs, bindings>>
    BY <1>1 DEF Lifecycle!vars
  <1>2. CASE SubmitJoinsActive(r, k, p) /\ ~UNCHANGED <<jobs, bindings>>
    <2>1. PICK j \in Active(r) : Bind(k, j, p) /\ UNCHANGED jobs
      BY <1>2 DEF SubmitJoinsActive, Reject
    <2>2. j \in JobIds /\ jobs[j].status \in ActiveStatuses
      BY DEF Active
    <2>3. Lifecycle!MayBind(j)
      BY <1>2, <2>1, <2>2, BindMaps DEF SubmitJoinsActive
    <2>4. Lifecycle!Join(j)
      BY <2>1, <2>2, <2>3 DEF Lifecycle!Join, Lifecycle!ActiveStatuses
    <2> QED BY <2>2, <2>4 DEF Lifecycle!Next
  <1>3. CASE SubmitCreates(r, k, p, Readings)
    <2>1. PICK j \in JobIds, t \in Readings :
            /\ ~Present(j)
            /\ jobs' = [jobs EXCEPT ![j] =
                          [Absent EXCEPT !.status = "queued", !.request = r,
                                         !.retryOf = p, !.created = t]]
            /\ Bind(k, j, p)
      BY <1>3 DEF SubmitCreates
    <2>2. \A i \in JobIds :
            /\ jobs'[i].status = IF i = j THEN "queued" ELSE jobs[i].status
            /\ jobs'[i].request = IF i = j THEN r ELSE jobs[i].request
      BY <2>1 DEF TypeOK, Absent
    <2>3. /\ [i \in JobIds |-> jobs'[i].status]
               = [[i \in JobIds |-> jobs[i].status] EXCEPT ![j] = "queued"]
          /\ [i \in JobIds |-> jobs'[i].request]
               = [[i \in JobIds |-> jobs[i].request] EXCEPT ![j] = r]
      BY <2>2
    <2>4. \A i \in JobIds : jobs[i].status \in ActiveStatuses => jobs[i].request # r
      BY <1>3 DEF SubmitCreates, Active
    <2>5. Lifecycle!MayBind(j)
      BY <1>3, <2>1, BindMaps DEF SubmitCreates
    <2>6. Lifecycle!Accept(j, r)
      BY <2>1, <2>3, <2>4, <2>5
      DEF Lifecycle!Accept, Lifecycle!ActiveStatuses, Present
    <2> QED BY <2>6 DEF Lifecycle!Next
  <1> QED BY <1>1, <1>2, <1>3
      DEF Submit, SubmitBoundKey, SubmitInvalidRetry, Reject

\* A worker's operation is a start, a finish, a giving up or a stutter.
LEMMA WorkerMaps ==
  ASSUME TypeOK, NEW t \in Readings, WorkerStep(t)
  PROVE  Lifecycle!Next \/ UNCHANGED Lifecycle!vars
  <1>0. jobs \in [JobIds -> Job]
    BY DEF TypeOK
  <1>1. ASSUME NEW j \in JobIds, NEW w \in Workers, NEW s \in LeaseTerms,
               ClaimNext(j, w, s, t)
        PROVE  Lifecycle!Next
    <2>1. jobs'[j].status = "running" /\ jobs'[j].request = jobs[j].request
      BY <1>0, <1>1 DEF ClaimNext, Job
    <2>2. \A i \in JobIds : i # j => jobs'[i] = jobs[i]
      BY <1>0, <1>1 DEF ClaimNext
    <2>3. /\ [i \in JobIds |-> jobs'[i].status]
               = [[i \in JobIds |-> jobs[i].status] EXCEPT ![j] = "running"]
          /\ [i \in JobIds |-> jobs'[i].request]
               = [i \in JobIds |-> jobs[i].request]
      BY <2>1, <2>2
    <2>4. Lifecycle!Start(j)
      BY <1>1, <2>3 DEF ClaimNext, OldestQueued, Queued, Lifecycle!Start
    <2> QED BY <2>4 DEF Lifecycle!Next
  <1>2. ASSUME NEW j \in JobIds, NEW w \in Workers, NEW s \in LeaseTerms,
               RenewLease(j, w, s, t)
        PROVE  UNCHANGED Lifecycle!vars
    <2>1. \A i \in JobIds : /\ jobs'[i].status = jobs[i].status
                             /\ jobs'[i].request = jobs[i].request
      BY <1>0, <1>2 DEF RenewLease, Job
    <2> QED BY <1>2, <2>1 DEF RenewLease, Lifecycle!vars
  <1>3. ASSUME NEW j \in JobIds, NEW w \in Workers,
               NEW outcome \in {"completed", "failed"}, Finish(j, w, outcome, t)
        PROVE  Lifecycle!Next
    <2>1. jobs'[j].status = outcome /\ jobs'[j].request = jobs[j].request
      BY <1>0, <1>3 DEF Finish, Job
    <2>2. \A i \in JobIds : i # j => jobs'[i] = jobs[i]
      BY <1>0, <1>3 DEF Finish
    <2>3. /\ [i \in JobIds |-> jobs'[i].status]
               = [[i \in JobIds |-> jobs[i].status] EXCEPT ![j] = outcome]
          /\ [i \in JobIds |-> jobs'[i].request]
               = [i \in JobIds |-> jobs[i].request]
      BY <2>1, <2>2
    <2>4. Lifecycle!Finish(j, outcome)
      BY <1>3, <2>3 DEF Finish, OwnedRunning, Lifecycle!Finish
    <2> QED BY <2>4 DEF Lifecycle!Next
  <1>4. ASSUME MarkExpiredAbandoned(t)
        PROVE  Lifecycle!Next
    <2>0. Expired(t) \in SUBSET JobIds
      BY DEF Expired
    <2>1. PICK S \in SUBSET JobIds : S = Expired(t)
      BY <2>0
    <2>2. \A i \in JobIds :
            /\ jobs'[i].status = IF i \in S THEN "abandoned" ELSE jobs[i].status
            /\ jobs'[i].request = jobs[i].request
      BY <1>0, <1>4, <2>1 DEF MarkExpiredAbandoned, Job
    <2>3. /\ [i \in JobIds |-> jobs'[i].status]
               = [i \in JobIds |-> IF i \in S THEN "abandoned" ELSE
                                     [x \in JobIds |-> jobs[x].status][i]]
          /\ [i \in JobIds |-> jobs'[i].request]
               = [i \in JobIds |-> jobs[i].request]
      BY <2>2
    <2>4. UNCHANGED bindings
      BY <1>4 DEF MarkExpiredAbandoned
    <2>5. Lifecycle!GiveUp(S)
      BY <2>1, <2>3, <2>4 DEF Expired, Lifecycle!GiveUp
    <2> QED BY <2>5 DEF Lifecycle!Next
  <1> QED BY <1>1, <1>2, <1>3, <1>4 DEF WorkerStep

LEMMA StepMaps == TypeOK /\ [Next]_vars => [Lifecycle!Next]_(Lifecycle!vars)
  <1> SUFFICES ASSUME TypeOK, [Next]_vars
               PROVE  Lifecycle!Next \/ UNCHANGED Lifecycle!vars
    OBVIOUS
  <1>1. CASE UNCHANGED repoVars
    BY <1>1 DEF repoVars, Lifecycle!vars
  <1>2. CASE ClientStep /\ UNCHANGED now
    BY <1>2, SubmitMaps DEF ClientStep
  <1>3. CASE \E t \in Readings : WorkerStep(t) /\ UNCHANGED now
    BY <1>3, WorkerMaps
  <1> QED BY <1>1, <1>2, <1>3 DEF Next, Tick, vars, repoVars

\* The store implements the abstract lifecycle, for every instance.
THEOREM Implements == Spec => ImplementsLifecycle
  BY LifecycleInit, StepMaps, TypeCorrect, PTL
  DEF Spec, ImplementsLifecycle, Lifecycle!Spec
=============================================================================
