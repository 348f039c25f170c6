----------------------- MODULE EODOperationWorkerProofs -----------------------
(***************************************************************************)
(* Proofs about EODOperationWorker, for any sets of jobs, requests and     *)
(* workers, any lease and heartbeat that the configuration accepts, and    *)
(* any bounds on the clock, its lag and the faults.                        *)
(*                                                                         *)
(* WorkerInv is what one worker process knows.  It is proved worker by     *)
(* worker: Untouched says what the rest of the system leaves alone, and    *)
(* Grips that a snapshot is never ahead of the store.  That workers use    *)
(* the store only as EODJobRepository says makes its theorems theirs.      *)
(***************************************************************************)
EXTENDS EODOperationWorker, TLAPS

Store == INSTANCE EODJobRepositoryProofs

-----------------------------------------------------------------------------
(* The inductive invariant                                                 *)

Away    == {"idle", "claiming", "stopped"}
Closing == {"renewing", "finishing"}

\* A lease that has not run out is one the store grants the worker.
Grips(w, lease) ==
  lease > now => LET job == jobs[control[w].job] IN
                   /\ job.status = "running" /\ job.worker = w
                   /\ job.lease >= lease

\* The main thread, its lease controller and its heartbeat agree.
Together(w) ==
  /\ pc[w] \in Away => control[w] = NoControl /\ heart[w] = NoHeart
  /\ pc[w] = "starting" => control[w].state = "active" /\ heart[w] = NoHeart
  /\ pc[w] \notin Away => control[w].job \in JobIds
  /\ pc[w] \notin Away \cup {"starting"} => control[w].state \in {"active", "unsafe"}
  /\ pc[w] = "joining" => outcome[w] # "none"
  /\ pc[w] \in Closing => /\ outcome[w] \in {"completed", "failed"}
                          /\ heart[w].state = "exited"
                          /\ control[w].state = "active"
  /\ heart[w].state = "failed" => control[w].state # "active"

\* The snapshot, and a renewal on its way to it, are not ahead of the store.
Snapshots(w) ==
  control[w].state = "active" =>
    /\ Grips(w, control[w].lease)
    /\ heart[w].state = "updating" => Grips(w, heart[w].lease)

\* Renewals follow the heartbeat: the lease is never longer than the one a
\* claim would give now.
LeaseBounded(w) ==
  LET job == jobs[control[w].job] IN
  control[w].job \in JobIds /\ job.status = "running" /\ job.worker = w =>
    /\ job.lease <= now + LeaseDuration \/ pc[w] = "finishing"
    /\ heart[w].state = "waiting" =>
         /\ job.lease + HeartbeatInterval <= heart[w].due + LeaseDuration
         /\ heart[w].due <= now + HeartbeatInterval
    /\ heart[w].state = "renewing" =>
         job.lease + HeartbeatInterval <= now + LeaseDuration

WorkerInv(w) == Together(w) /\ Snapshots(w) /\ LeaseBounded(w)

IInv == TypeOK /\ \A w \in Workers : WorkerInv(w)

-----------------------------------------------------------------------------
(* The store                                                               *)

\* The job store of the workers is the one its own proofs are about.
LEMMA SameTypes == Repo!TypeOK <=> Store!TypeOK
  BY DEF Repo!TypeOK, Repo!Job, Repo!Binding, Repo!Reply, Repo!Statuses,
         Repo!ActiveStatuses, Repo!TerminalStatuses, Repo!Accepted, Repo!Rejected,
         Store!TypeOK, Store!Job, Store!Binding, Store!Reply, Store!Statuses,
         Store!ActiveStatuses, Store!TerminalStatuses, Store!Accepted, Store!Rejected

LEMMA SameInit == Repo!Init <=> Store!Init
  BY DEF Repo!Init, Repo!Absent, Repo!Unbound, Repo!NoTime,
         Store!Init, Store!Absent, Store!Unbound, Store!NoTime

LEMMA SameSubmit ==
  ASSUME NEW r, NEW k, NEW p, NEW times
  PROVE  Repo!Submit(r, k, p, times) <=> Store!Submit(r, k, p, times)
  <1>1. Repo!IsBound(k) <=> Store!IsBound(k)
    BY DEF Repo!IsBound, Store!IsBound
  <1>2. Repo!ValidRetry(p, r, {}) <=> Store!ValidRetry(p, r, {})
    BY DEF Repo!ValidRetry, Repo!RetryableStatuses,
           Store!ValidRetry, Store!RetryableStatuses
  <1>3. Repo!Active(r) = Store!Active(r)
    BY DEF Repo!Active, Repo!ActiveStatuses, Store!Active, Store!ActiveStatuses
  <1>4. Repo!SubmitBoundKey(r, k, p) <=> Store!SubmitBoundKey(r, k, p)
    BY <1>1 DEF Repo!SubmitBoundKey, Repo!Answer, Repo!Reject,
                Store!SubmitBoundKey, Store!Answer, Store!Reject
  <1>5. Repo!SubmitInvalidRetry(r, k, p) <=> Store!SubmitInvalidRetry(r, k, p)
    BY <1>1, <1>2 DEF Repo!SubmitInvalidRetry, Repo!Answer, Repo!Reject,
                      Store!SubmitInvalidRetry, Store!Answer, Store!Reject
  <1>c. ASSUME NEW S PROVE Repo!Cardinality(S) = Store!Cardinality(S)
    BY DEF Repo!Cardinality, Store!Cardinality
  <1>6. Repo!SubmitJoinsActive(r, k, p) <=> Store!SubmitJoinsActive(r, k, p)
    BY <1>1, <1>2, <1>3, <1>c
    DEF Repo!SubmitJoinsActive, Repo!Answer, Repo!Reject, Repo!Bind, Repo!Aliases,
        Store!SubmitJoinsActive, Store!Answer, Store!Reject, Store!Bind, Store!Aliases
  <1>7. Repo!Absent = Store!Absent
    BY DEF Repo!Absent, Repo!NoTime, Store!Absent, Store!NoTime
  <1>8. Repo!SubmitCreates(r, k, p, times) <=> Store!SubmitCreates(r, k, p, times)
    BY <1>1, <1>2, <1>3, <1>7
    DEF Repo!SubmitCreates, Repo!Present, Repo!Answer, Repo!Bind,
        Store!SubmitCreates, Store!Present, Store!Answer, Store!Bind
  <1> QED BY <1>4, <1>5, <1>6, <1>8 DEF Repo!Submit, Store!Submit

LEMMA SameClientStep == Repo!ClientStep <=> Store!ClientStep
  BY SameSubmit DEF Repo!ClientStep, Repo!Readings, Store!ClientStep, Store!Readings

LEMMA SameWorkerStep == ASSUME NEW t PROVE Repo!WorkerStep(t) <=> Store!WorkerStep(t)
  BY DEF Repo!WorkerStep, Repo!ClaimNext, Repo!RenewLease, Repo!Finish,
         Repo!MarkExpiredAbandoned, Repo!Expired, Repo!OldestQueued, Repo!Queued,
         Repo!OwnedRunning, Repo!NoTime,
         Store!WorkerStep, Store!ClaimNext, Store!RenewLease, Store!Finish,
         Store!MarkExpiredAbandoned, Store!Expired, Store!OldestQueued, Store!Queued,
         Store!OwnedRunning, Store!NoTime

LEMMA SameNext == [Repo!Next]_(Repo!vars) <=> [Store!Next]_(Store!vars)
  BY SameClientStep, SameWorkerStep
  DEF Repo!Next, Repo!Tick, Repo!repoVars, Repo!Readings, Repo!vars,
      Store!Next, Store!Tick, Store!repoVars, Store!Readings, Store!vars

LEMMA StoreTypes == Repo!TypeOK /\ [Repo!Next]_(Repo!vars) => Repo!TypeOK'
  <1>1. Repo!ConstantsAssumption
    BY ConfigAssumption
  <1>2. Store!TypeOK /\ [Store!Next]_(Store!vars) => Store!TypeOK'
    BY <1>1, Store!TypeStep
  <1>3. Repo!TypeOK' <=> Store!TypeOK'
    BY SameTypes, PTL
  <1> QED BY <1>2, <1>3, SameTypes, SameNext
-----------------------------------------------------------------------------
(* What the rest of the system leaves alone                                *)

\* The jobs that w runs under a lease that has not run out stay as they are,
\* and no other job becomes one of w's.
Untouched(w) ==
  \A j \in JobIds :
    /\ jobs'[j].status = "running" /\ jobs'[j].worker = w => jobs'[j] = jobs[j]
    /\ jobs[j].status = "running" /\ jobs[j].worker = w /\ jobs[j].lease > now =>
         jobs'[j] = jobs[j]

LEMMA SubmitTouchesNone ==
  ASSUME TypeOK, NEW w \in Workers, Submits
  PROVE  Untouched(w)
  <1>1. PICK r \in Requests, p \in JobIds \cup {NoJob} :
          Repo!SubmitCreates(r, NoKey, p, Repo!Readings)
    BY DEF Submits
  <1>2. PICK j \in JobIds, t \in Repo!Readings :
          /\ ~Repo!Present(j)
          /\ jobs' = [jobs EXCEPT ![j] =
                        [Repo!Absent EXCEPT !.status = "queued", !.request = r,
                                            !.retryOf = p, !.created = t]]
    BY <1>1 DEF Repo!SubmitCreates
  <1>3. jobs \in [JobIds -> Repo!Job]
    BY DEF TypeOK, Repo!TypeOK
  <1>4. jobs'[j].status = "queued" /\ \A i \in JobIds \ {j} : jobs'[i] = jobs[i]
    BY <1>2, <1>3 DEF Repo!Absent
  <1> QED BY <1>2, <1>4 DEF Untouched, Repo!Present

LEMMA RecoveryTouchesNone ==
  ASSUME TypeOK, NEW w \in Workers, NEW t \in Readings, Repo!MarkExpiredAbandoned(t)
  PROVE  Untouched(w)
  <1>1. t \in Nat /\ now \in Nat /\ t <= now
    BY DEF Readings, Repo!Readings, TypeOK, Repo!TypeOK
  <1> SUFFICES ASSUME NEW j \in JobIds
               PROVE  /\ jobs'[j].status = "running" => jobs'[j] = jobs[j]
                      /\ jobs[j].lease > now => jobs'[j] = jobs[j]
    BY DEF Untouched
  <1>2. jobs[j] \in Repo!Job
    BY DEF TypeOK, Repo!TypeOK
  <1>3. CASE j \in Repo!Expired(t)
    <2>1. jobs'[j] = [jobs[j] EXCEPT !.status = "abandoned", !.finished = t,
                                     !.lease = Repo!NoTime]
      BY <1>3 DEF Repo!MarkExpiredAbandoned
    <2>2. jobs'[j].status = "abandoned"
      BY <1>2, <2>1 DEF Repo!Job
    <2>3. ~ (jobs[j].lease > now)
      BY <1>1, <1>2, <1>3 DEF Repo!Expired, Repo!Job
    <2> QED BY <2>2, <2>3
  <1>4. CASE j \notin Repo!Expired(t)
    BY <1>4 DEF Repo!MarkExpiredAbandoned
  <1> QED BY <1>3, <1>4

\* What a worker does to a job is no business of another worker.
LEMMA OwnerTouchesNone ==
  ASSUME TypeOK, NEW v \in Workers, NEW w \in Workers \ {v}, NEW j, NEW s, NEW t, NEW o,
         \/ j \in JobIds /\ Repo!ClaimNext(j, v, s, t)
         \/ Repo!RenewLease(j, v, s, t)
         \/ Repo!Finish(j, v, o, t)
  PROVE  Untouched(w)
  <1> SUFFICES ASSUME NEW i \in JobIds
               PROVE  /\ jobs'[i].status = "running" /\ jobs'[i].worker = w =>
                           jobs'[i] = jobs[i]
                      /\ jobs[i].status = "running" /\ jobs[i].worker = w =>
                           jobs'[i] = jobs[i]
    BY DEF Untouched
  <1>0. jobs \in [JobIds -> Repo!Job]
    BY DEF TypeOK, Repo!TypeOK
  <1>1. CASE i # j
    BY <1>0, <1>1 DEF Repo!ClaimNext, Repo!RenewLease, Repo!Finish
  <1>2. CASE i = j /\ Repo!ClaimNext(j, v, s, t)
    <2>1. jobs[i].status = "queued"
      BY <1>2 DEF Repo!ClaimNext, Repo!OldestQueued, Repo!Queued
    <2>2. jobs'[i].worker = v
      BY <1>0, <1>2 DEF Repo!ClaimNext, Repo!Job
    <2> QED BY <2>1, <2>2
  <1>3. CASE i = j /\ (Repo!RenewLease(j, v, s, t) \/ Repo!Finish(j, v, o, t))
    <2>1. jobs[i].worker = v
      BY <1>3 DEF Repo!RenewLease, Repo!Finish, Repo!OwnedRunning
    <2>2. jobs'[i].worker = jobs[i].worker
      BY <1>0, <1>3 DEF Repo!RenewLease, Repo!Finish, Repo!Job
    <2> QED BY <2>1, <2>2
  <1> QED BY <1>1, <1>2, <1>3

LEMMA QuietTouchesNone ==
  ASSUME NEW w \in Workers, UNCHANGED jobs
  PROVE  Untouched(w)
  BY DEF Untouched

\* A worker that is not touched, and does nothing, knows what it knew.
LEMMA WorkerStays ==
  ASSUME IInv, TypeOK', NEW w \in Workers, Untouched(w), now' >= now,
         pc'[w] = pc[w], outcome'[w] = outcome[w],
         control'[w] = control[w], heart'[w] = heart[w]
  PROVE  WorkerInv(w)'
  <1>0. /\ now \in Nat /\ now' \in Nat
        /\ jobs \in [JobIds -> Repo!Job] /\ jobs' \in [JobIds -> Repo!Job]
        /\ control[w] \in Control /\ heart[w] \in Heart
    BY DEF IInv, TypeOK, Repo!TypeOK
  <1>1. Together(w)'
    BY DEF IInv, WorkerInv, Together
  <1>2. control[w].state = "active" => control[w].job \in JobIds
    BY DEF IInv, WorkerInv, Together, NoControl
  <1>3. ASSUME NEW lease \in Nat, Grips(w, lease), control[w].job \in JobIds
        PROVE  Grips(w, lease)'
    <2>1. jobs[control[w].job].lease \in Nat
      BY <1>0, <1>3 DEF Repo!Job
    <2> QED BY <1>0, <1>3, <2>1 DEF Grips, Untouched
  <1>4. Snapshots(w)'
    BY <1>0, <1>2, <1>3 DEF IInv, WorkerInv, Snapshots, Control, Heart
  <1>5. LeaseBounded(w)'
    <2> SUFFICES ASSUME control[w].job \in JobIds,
                        jobs'[control[w].job].status = "running",
                        jobs'[control[w].job].worker = w
                 PROVE  LeaseBounded(w)'
      BY DEF LeaseBounded
    <2>1. jobs'[control[w].job] = jobs[control[w].job] /\ jobs[control[w].job].lease \in Nat
      BY <1>0 DEF Untouched, Repo!Job
    <2>2. LeaseBounded(w)
      BY DEF IInv, WorkerInv
    <2>3. heart[w].due \in Nat
      BY <1>0 DEF Heart
    <2> QED BY <1>0, <2>1, <2>2, <2>3, ConfigAssumption DEF LeaseBounded
  <1> QED BY <1>1, <1>4, <1>5 DEF WorkerInv
LEMMA OthersTouchNone ==
  ASSUME TypeOK, NEW v \in Workers, NEW w \in Workers \ {v},
         MainStep(v) \/ HeartStep(v)
  PROVE  Untouched(w)
  <1>1. CASE UNCHANGED repoVars
    BY <1>1, QuietTouchesNone DEF repoVars
  <1>2. ASSUME NEW t \in Readings, Recover(v, t) PROVE Untouched(w)
    BY <1>1, <1>2, RecoveryTouchesNone DEF Recover
  <1>3. ASSUME NEW t \in Readings, Claim(v, t) PROVE Untouched(w)
    BY <1>1, <1>3, OwnerTouchesNone DEF Claim
  <1>4. ASSUME NEW t \in Readings, FinalRenewal(v, t) PROVE Untouched(w)
    BY <1>1, <1>4, OwnerTouchesNone DEF FinalRenewal
  <1>5. ASSUME NEW t \in Readings, Terminate(v, t) PROVE Untouched(w)
    BY <1>1, <1>5, OwnerTouchesNone DEF Terminate
  <1>6. ASSUME NEW t \in Readings, HeartRenews(v, t) PROVE Untouched(w)
    BY <1>6, OwnerTouchesNone DEF HeartRenews
  <1>7. CASE MainStep(v)
    BY <1>1, <1>2, <1>3, <1>4, <1>5, <1>7
    DEF MainStep, StartHeartbeat, HeartbeatStartFails, Checkpoint, Act, DomainEnds, Join
  <1>8. CASE HeartStep(v)
    BY <1>1, <1>6, <1>8 DEF HeartStep, HeartWakes, HeartExits, HeartUpdates, HeartFails
  <1> QED BY <1>7, <1>8

-----------------------------------------------------------------------------
(* What a worker does to itself                                            *)

\* Everything about one worker that its steps work with.
LEMMA Shape ==
  ASSUME TypeOK, NEW w \in Workers
  PROVE  /\ now \in Nat /\ now <= MaxTime /\ jobs \in [JobIds -> Repo!Job]
         /\ pc[w] \in MainStates /\ outcome[w] \in Outcomes
         /\ control[w] \in Control /\ heart[w] \in Heart
         /\ \A j \in JobIds : jobs[j].lease \in Nat
  <1>1. /\ jobs \in [JobIds -> Repo!Job] /\ now \in 1..MaxTime
        /\ MaxTime \in Nat
    BY ConfigAssumption DEF TypeOK, Repo!TypeOK, Repo!ConstantsAssumption
  <1> QED BY <1>1 DEF TypeOK, Repo!Job

\* A worker that is away knows nothing, and is right.
LEMMA AwayKnows ==
  ASSUME NEW w \in Workers, pc'[w] \in Away,
         control'[w] = NoControl, heart'[w] = NoHeart, NoJob \notin JobIds
  PROVE  WorkerInv(w)'
  BY DEF WorkerInv, Together, Snapshots, LeaseBounded, Away, Closing, NoControl, NoHeart

LEMMA MainKeeps ==
  ASSUME IInv, NEW w \in Workers, MainStep(w)
  PROVE  WorkerInv(w)'
  <1>0. /\ now \in Nat /\ now <= MaxTime /\ jobs \in [JobIds -> Repo!Job]
        /\ pc[w] \in MainStates /\ outcome[w] \in Outcomes
        /\ control[w] \in Control /\ heart[w] \in Heart
        /\ \A j \in JobIds : jobs[j].lease \in Nat
    BY Shape DEF IInv
  <1>i. Together(w) /\ Snapshots(w) /\ LeaseBounded(w) /\ TypeOK
    BY DEF IInv, WorkerInv
  <1>j. NoJob \notin JobIds
    BY ConfigAssumption DEF Repo!ConstantsAssumption
  <1>n. now' = now
    BY DEF MainStep
  <1>f. pc \in [Workers -> MainStates] /\ outcome \in [Workers -> Outcomes]
        /\ control \in [Workers -> Control] /\ heart \in [Workers -> Heart]
    BY DEF IInv, TypeOK
  <1>s. ASSUME NEW from, Stops(w, from) PROVE WorkerInv(w)'
    <2>1. pc'[w] = "stopped" /\ control'[w] = NoControl /\ heart'[w] = NoHeart
      BY <1>f, <1>s DEF Stops, Goto
    <2> QED BY <2>1, <1>j, AwayKnows DEF Away
  <1>1. ASSUME NEW t \in Readings, Recover(w, t) PROVE WorkerInv(w)'
    <2>1. /\ pc[w] = "idle" /\ pc'[w] \in Away
          /\ control'[w] = control[w] /\ heart'[w] = heart[w]
      BY <1>f, <1>1 DEF Recover, Goto, Away
    <2> QED BY <2>1, <1>i, <1>j, AwayKnows DEF Together, Away
  <1>2. ASSUME NEW t \in Readings, Claim(w, t) PROVE WorkerInv(w)'
    <2>1. CASE Goto(w, "claiming", "idle") \/ Goto(w, "claiming", "stopped")
      <3>1. /\ pc[w] = "claiming" /\ pc'[w] \in Away
            /\ control'[w] = control[w] /\ heart'[w] = heart[w]
        BY <1>f, <1>2, <2>1 DEF Claim, Goto, Away
      <3> QED BY <3>1, <1>i, <1>j, AwayKnows DEF Together, Away
    <2>2. ASSUME NEW j \in JobIds, Goto(w, "claiming", "starting"),
                 Repo!ClaimNext(j, w, LeaseDuration, t),
                 control' = [control EXCEPT ![w] =
                   [state |-> "active", job |-> j, lease |-> t + LeaseDuration]],
                 UNCHANGED <<outcome, heart>>
          PROVE  WorkerInv(w)'
      <3>1. /\ pc[w] = "claiming" /\ pc'[w] = "starting" /\ heart'[w] = NoHeart
            /\ control'[w].state = "active" /\ control'[w].job = j
            /\ control'[w].lease = t + LeaseDuration
        BY <1>f, <1>i, <2>2 DEF Goto, Together, Away
      <3>2. /\ jobs'[j].status = "running" /\ jobs'[j].worker = w
            /\ jobs'[j].lease = t + LeaseDuration
        BY <1>0, <2>2 DEF Repo!ClaimNext, Repo!Job
      <3>3. t \in Nat /\ t <= now /\ LeaseDuration \in Nat
        BY <1>0, ConfigAssumption DEF Readings, Repo!Readings
      <3> QED BY <1>0, <1>n, <3>1, <3>2, <3>3
              DEF WorkerInv, Together, Snapshots, LeaseBounded, Grips, Away, Closing, NoHeart
    <2> QED BY <1>2, <2>1, <2>2 DEF Claim
  <1>3. CASE HeartbeatStartFails(w)
    <2>1. /\ pc'[w] \in Away /\ control'[w] = NoControl /\ heart'[w] = NoHeart
      BY <1>f, <1>i, <1>3 DEF HeartbeatStartFails, Goto, Away, Together
    <2> QED BY <2>1, <1>j, AwayKnows
  <1>4. CASE StartHeartbeat(w)
    <2>1. /\ pc[w] = "starting" /\ pc'[w] = "executing" /\ heart[w] = NoHeart
          /\ heart'[w].state = "waiting" /\ heart'[w].due = now + HeartbeatInterval
          /\ UNCHANGED jobs /\ control'[w] = control[w]
      BY <1>f, <1>i, <1>4 DEF StartHeartbeat, Goto, NoHeart, Together, repoVars
    <2>2. HeartbeatInterval \in Nat /\ LeaseDuration \in Nat
      BY ConfigAssumption
    <2> QED BY <1>0, <1>i, <1>n, <2>1, <2>2
            DEF WorkerInv, Together, Snapshots, LeaseBounded, Grips, Away, Closing
  <1>5. CASE Checkpoint(w) \/ Act(w)
    <2>1. \/ /\ pc[w] \in {"executing", "acting"} /\ pc'[w] \in {"executing", "acting"}
             /\ heart'[w] = heart[w]
          \/ /\ pc[w] = "executing" /\ pc'[w] = "joining" /\ outcome'[w] = "unsafe"
             /\ heart'[w] = [heart[w] EXCEPT !.stop = TRUE]
      BY <1>f, <1>5 DEF Checkpoint, Act, Goto, StopsHeartbeat
    <2>2. heart'[w].state = heart[w].state /\ heart'[w].due = heart[w].due
          /\ heart'[w].lease = heart[w].lease
      BY <1>0, <2>1 DEF Heart
    <2>3. UNCHANGED jobs /\ control'[w] = control[w]
      BY <1>5 DEF Checkpoint, Act, repoVars
    <2> QED BY <1>0, <1>i, <1>n, <2>1, <2>2, <2>3
            DEF WorkerInv, Together, Snapshots, LeaseBounded, Grips, Away, Closing
  <1>6. ASSUME NEW result \in {"completed", "failed"}, DomainEnds(w, result)
        PROVE  WorkerInv(w)'
    <2>1. /\ pc[w] = "executing" /\ pc'[w] = "joining" /\ outcome'[w] = result
          /\ heart'[w] = [heart[w] EXCEPT !.stop = TRUE]
          /\ UNCHANGED jobs /\ control'[w] = control[w]
      BY <1>f, <1>6 DEF DomainEnds, Goto, StopsHeartbeat, repoVars
    <2>2. heart'[w].state = heart[w].state /\ heart'[w].due = heart[w].due
          /\ heart'[w].lease = heart[w].lease
      BY <1>0, <2>1 DEF Heart
    <2> QED BY <1>0, <1>i, <1>n, <2>1, <2>2
            DEF WorkerInv, Together, Snapshots, LeaseBounded, Grips, Away, Closing
  <1>7. CASE Join(w)
    <2>1. CASE outcome[w] # "unsafe" /\ control[w].state = "active"
      <3>1. /\ pc[w] = "joining" /\ pc'[w] = "renewing" /\ heart[w].state \in {"exited", "failed"}
            /\ UNCHANGED <<jobs, outcome, control, heart>>
        BY <1>f, <1>7, <2>1 DEF Join, Goto, repoVars
      <3> QED BY <1>0, <1>i, <1>n, <2>1, <3>1
              DEF WorkerInv, Together, Snapshots, LeaseBounded, Grips, Away, Closing, Outcomes
    <2> QED BY <1>7, <1>s, <2>1 DEF Join
  <1>8. ASSUME NEW t \in Readings, FinalRenewal(w, t) PROVE WorkerInv(w)'
    <2> DEFINE j == control[w].job
    <2>1. ASSUME Goto(w, "renewing", "finishing"), Repo!RenewLease(j, w, HeartbeatInterval, t),
                 control' = [control EXCEPT ![w].lease = jobs'[j].lease],
                 UNCHANGED <<outcome, heart>>
          PROVE  WorkerInv(w)'
      <3>1. /\ pc[w] = "renewing" /\ pc'[w] = "finishing"
            /\ control'[w].state = control[w].state /\ control'[w].job = j
            /\ control'[w].lease = jobs'[j].lease
            /\ UNCHANGED <<outcome, heart>>
        BY <1>0, <1>f, <2>1 DEF Goto, Control
      <3>2. j \in JobIds
        BY <1>i, <3>1 DEF Together, Away
      <3>3. /\ jobs'[j].status = "running" /\ jobs'[j].worker = w
            /\ jobs'[j].lease = jobs[j].lease + HeartbeatInterval
        BY <1>0, <2>1, <3>2 DEF Repo!RenewLease, Repo!OwnedRunning, Repo!Job
      <3>4. jobs'[j].lease \in Nat
        BY <1>0, <3>2, <3>3, ConfigAssumption
      <3> QED BY <1>0, <1>i, <1>n, <3>1, <3>2, <3>3, <3>4
              DEF WorkerInv, Together, Snapshots, LeaseBounded, Grips, Away, Closing
    <2> QED BY <1>8, <1>s, <2>1 DEF FinalRenewal
  <1>9. ASSUME NEW t \in Readings, Terminate(w, t) PROVE WorkerInv(w)'
    <2>1. CASE Goto(w, "finishing", "idle")
      <3>1. pc'[w] \in Away /\ control'[w] = NoControl /\ heart'[w] = NoHeart
        BY <1>f, <1>9, <2>1 DEF Terminate, Stops, Goto, Away
      <3> QED BY <3>1, <1>j, AwayKnows
    <2> QED BY <1>9, <1>s, <2>1 DEF Terminate
  <1> QED BY <1>1, <1>2, <1>3, <1>4, <1>5, <1>6, <1>7, <1>8, <1>9 DEF MainStep
LEMMA HeartKeeps ==
  ASSUME IInv, NEW w \in Workers, HeartStep(w)
  PROVE  WorkerInv(w)'
  <1>0. /\ now \in Nat /\ now <= MaxTime /\ jobs \in [JobIds -> Repo!Job]
        /\ pc[w] \in MainStates /\ outcome[w] \in Outcomes
        /\ control[w] \in Control /\ heart[w] \in Heart
        /\ \A j \in JobIds : jobs[j].lease \in Nat
    BY Shape DEF IInv
  <1>i. Together(w) /\ Snapshots(w) /\ LeaseBounded(w)
    BY DEF IInv, WorkerInv
  <1>f. /\ control \in [Workers -> Control] /\ heart \in [Workers -> Heart]
        /\ HeartbeatInterval \in Nat /\ LeaseDuration \in Nat
    BY ConfigAssumption DEF IInv, TypeOK
  <1>n. now' = now /\ UNCHANGED <<pc, outcome>>
    BY DEF HeartStep, HeartWakes, HeartExits, HeartUpdates, HeartRenews, HeartFails
  <1>b. heart[w].state # "none" /\ heart[w].state # "exited" =>
          pc[w] \notin Away \cup {"starting"} \cup Closing
    BY <1>i DEF Together, NoHeart
  <1>u. ASSUME MarkedUnsafe(control[w]) = control'[w], pc[w] \notin Away \cup {"starting"}
        PROVE  /\ control'[w].state = "unsafe" /\ control'[w].job = control[w].job
    BY <1>0, <1>i, <1>u DEF MarkedUnsafe, Control, Together
  <1>1. CASE HeartWakes(w)
    <2>1. /\ heart[w].state = "waiting" /\ heart'[w].state = "renewing"
          /\ heart[w].due <= now /\ heart[w].due \in Nat
          /\ UNCHANGED jobs /\ control'[w] = control[w]
      BY <1>0, <1>f, <1>1 DEF HeartWakes, Beats, Heart, repoVars
    <2> QED BY <1>0, <1>f, <1>i, <1>n, <1>b, <2>1
            DEF WorkerInv, Together, Snapshots, LeaseBounded, Grips
  <1>2. CASE HeartExits(w)
    <2>1. /\ heart[w].state = "waiting" /\ heart'[w].state = "exited"
          /\ UNCHANGED jobs /\ control'[w] = control[w]
      BY <1>0, <1>f, <1>2 DEF HeartExits, Beats, Heart, repoVars
    <2> QED BY <1>0, <1>f, <1>i, <1>n, <1>b, <2>1
            DEF WorkerInv, Together, Snapshots, LeaseBounded, Grips
  <1>3. CASE HeartUpdates(w)
    <2>1. CASE AcceptsRenewal(control[w], heart[w].lease)
      <3>1. /\ heart[w].state = "updating" /\ heart'[w].state = "waiting"
            /\ heart'[w].due = now + HeartbeatInterval
            /\ UNCHANGED jobs
            /\ control'[w].state = control[w].state /\ control'[w].job = control[w].job
            /\ control'[w].lease = heart[w].lease
            /\ control[w].state = "active"
        BY <1>0, <1>f, <1>3, <2>1
           DEF HeartUpdates, AcceptsRenewal, Heart, Control, repoVars
      <3>2. /\ control[w].job \in JobIds /\ jobs[control[w].job].lease \in Nat
            /\ pc[w] \notin Closing
        BY <1>0, <1>i, <1>b, <3>1 DEF Together
      <3>3. Together(w)'
        BY <1>i, <1>n, <1>b, <3>1 DEF Together
      <3>4. Snapshots(w)'
        BY <1>i, <1>n, <3>1 DEF Snapshots, Grips
      <3>5. LeaseBounded(w)'
        BY <1>0, <1>f, <1>i, <1>n, <3>1, <3>2 DEF LeaseBounded, Closing
      <3> QED BY <3>3, <3>4, <3>5 DEF WorkerInv
    <2>2. CASE ~AcceptsRenewal(control[w], heart[w].lease)
      <3>1. /\ heart[w].state = "updating" /\ heart'[w].state = "failed"
            /\ UNCHANGED jobs /\ control'[w] = MarkedUnsafe(control[w])
        BY <1>0, <1>f, <1>3, <2>2 DEF HeartUpdates, Beats, Heart, repoVars
      <3> QED BY <1>0, <1>f, <1>i, <1>n, <1>b, <1>u, <3>1
              DEF WorkerInv, Together, Snapshots, LeaseBounded, Grips
    <2> QED BY <2>1, <2>2
  <1>4. ASSUME NEW t \in Readings, HeartRenews(w, t) PROVE WorkerInv(w)'
    <2> DEFINE j == control[w].job
    <2>1. /\ heart[w].state = "renewing" /\ heart'[w].state = "updating"
          /\ heart'[w].lease = jobs'[j].lease /\ control'[w] = control[w]
          /\ Repo!RenewLease(j, w, HeartbeatInterval, t)
      BY <1>0, <1>f, <1>4 DEF HeartRenews, Heart
    <2>2. j \in JobIds
      BY <1>i, <1>b, <2>1 DEF Together
    <2>3. /\ jobs[j].status = "running" /\ jobs[j].worker = w
          /\ jobs'[j].status = "running" /\ jobs'[j].worker = w
          /\ jobs'[j].lease = jobs[j].lease + HeartbeatInterval
          /\ jobs[j].lease \in Nat
      BY <1>0, <2>1, <2>2 DEF Repo!RenewLease, Repo!OwnedRunning, Repo!Job
    <2>4. control[w].lease \in Nat
      BY <1>0 DEF Control
    <2> QED BY <1>0, <1>f, <1>i, <1>n, <1>b, <2>1, <2>2, <2>3, <2>4
            DEF WorkerInv, Together, Snapshots, LeaseBounded, Grips
  <1>5. ASSUME NEW t \in Readings, HeartFails(w, t) PROVE WorkerInv(w)'
    <2>1. /\ heart[w].state = "renewing" /\ heart'[w].state = "failed"
          /\ UNCHANGED jobs /\ control'[w] = MarkedUnsafe(control[w])
      BY <1>0, <1>f, <1>5 DEF HeartFails, Beats, Heart, repoVars
    <2> QED BY <1>0, <1>f, <1>i, <1>n, <1>b, <1>u, <2>1
            DEF WorkerInv, Together, Snapshots, LeaseBounded, Grips
  <1> QED BY <1>1, <1>2, <1>3, <1>4, <1>5 DEF HeartStep

LEMMA DeathKeeps ==
  ASSUME IInv, NEW w \in Workers, Crash(w) \/ Restart(w)
  PROVE  WorkerInv(w)'
  <1>1. /\ pc'[w] \in Away /\ control'[w] = NoControl /\ heart'[w] = NoHeart
    BY DEF IInv, TypeOK, WorkerInv, Together, Crash, Restart, Stops, Goto, Away
  <1> QED BY <1>1, AwayKnows, ConfigAssumption DEF Repo!ConstantsAssumption

-----------------------------------------------------------------------------
(* The workers use the store as EODJobRepository says                      *)

\* A renewal of a worker is one the store's own bound admits.
LEMMA RenewalAdmitted ==
  ASSUME IInv, NEW w \in Workers, NEW t \in Repo!Readings,
         heart[w].state = "renewing" \/ pc[w] = "renewing",
         Repo!RenewLease(control[w].job, w, HeartbeatInterval, t)
  PROVE  Repo!WorkerStep(t)
  <1>0. /\ now \in Nat /\ now <= MaxTime /\ MaxTime \in Nat /\ MaxLease \in Nat
        /\ HeartbeatInterval \in Nat /\ LeaseDuration \in Nat
        /\ MaxLease >= MaxTime + LeaseDuration + HeartbeatInterval
        /\ \A j \in JobIds : jobs[j].lease \in Nat
        /\ HeartbeatInterval \in LeaseTerms
    BY Shape, ConfigAssumption DEF IInv, Repo!ConstantsAssumption, LeaseTerms
  <1>1. Together(w) /\ LeaseBounded(w)
    BY DEF IInv, WorkerInv
  <1>2. control[w].job \in JobIds
    BY <1>1 DEF Together, NoHeart, Away
  <1>3. jobs[control[w].job].status = "running" /\ jobs[control[w].job].worker = w
    BY DEF Repo!RenewLease, Repo!OwnedRunning
  <1>4. jobs[control[w].job].lease + HeartbeatInterval <= MaxLease
    BY <1>0, <1>1, <1>2, <1>3 DEF LeaseBounded
  <1> QED BY <1>0, <1>2, <1>4 DEF Repo!WorkerStep

LEMMA MainUsesStore ==
  ASSUME IInv, NEW w \in Workers, MainStep(w)
  PROVE  [Repo!Next]_(Repo!vars)
  <1>0. /\ now' = now /\ jobs \in [JobIds -> Repo!Job]
        /\ Readings \subseteq Repo!Readings
        /\ LeaseDuration \in LeaseTerms
    BY DEF MainStep, IInv, TypeOK, Repo!TypeOK, Readings, LeaseTerms
  <1>q. CASE UNCHANGED repoVars
    BY <1>0, <1>q DEF repoVars, Repo!vars
  <1>s. ASSUME NEW t \in Readings, Repo!WorkerStep(t) PROVE Repo!Next
    BY <1>0, <1>s DEF Repo!Next
  <1>1. ASSUME NEW t \in Readings, Recover(w, t) PROVE [Repo!Next]_(Repo!vars)
    <2>1. ASSUME Repo!MarkExpiredAbandoned(t), Repo!Expired(t) = {}
          PROVE  UNCHANGED repoVars
      BY <1>0, <2>1 DEF Repo!MarkExpiredAbandoned, repoVars
    <2>2. ASSUME Repo!MarkExpiredAbandoned(t), Repo!Expired(t) # {}
          PROVE  Repo!WorkerStep(t)
      BY <2>2 DEF Repo!WorkerStep
    <2> QED BY <1>1, <1>q, <1>s, <2>1, <2>2 DEF Recover
  <1>2. ASSUME NEW t \in Readings, Claim(w, t) PROVE [Repo!Next]_(Repo!vars)
    <2>1. ASSUME NEW j \in JobIds, Repo!ClaimNext(j, w, LeaseDuration, t)
          PROVE  Repo!WorkerStep(t)
      BY <1>0, <2>1 DEF Repo!WorkerStep
    <2> QED BY <1>2, <1>q, <1>s, <2>1 DEF Claim
  <1>3. ASSUME NEW t \in Readings, FinalRenewal(w, t) PROVE [Repo!Next]_(Repo!vars)
    BY <1>0, <1>3, <1>q, <1>s, RenewalAdmitted DEF FinalRenewal, Goto
  <1>4. ASSUME NEW t \in Readings, Terminate(w, t) PROVE [Repo!Next]_(Repo!vars)
    <2>1. ASSUME pc[w] = "finishing", Repo!Finish(control[w].job, w, outcome[w], t)
          PROVE  Repo!WorkerStep(t)
      <3>1. control[w].job \in JobIds /\ outcome[w] \in {"completed", "failed"}
        BY <2>1 DEF IInv, WorkerInv, Together, Away, Closing
      <3> QED BY <2>1, <3>1 DEF Repo!WorkerStep
    <2> QED BY <1>4, <1>q, <1>s, <2>1 DEF Terminate, Goto
  <1> QED BY <1>1, <1>2, <1>3, <1>4, <1>q
          DEF MainStep, StartHeartbeat, HeartbeatStartFails, Checkpoint, Act,
              DomainEnds, Join

LEMMA StepUsesStore == IInv /\ [Next]_vars => [Repo!Next]_(Repo!vars)
  <1> SUFFICES ASSUME IInv, [Next]_vars PROVE [Repo!Next]_(Repo!vars)
    OBVIOUS
  <1>1. CASE Tick
    BY <1>1 DEF Tick, repoVars, Repo!Next, Repo!Tick, Repo!repoVars
  <1>2. CASE Submits
    BY <1>2 DEF Submits, Repo!Next, Repo!ClientStep, Repo!Submit
  <1>3. ASSUME NEW w \in Workers, HeartStep(w) PROVE [Repo!Next]_(Repo!vars)
    <2>1. CASE UNCHANGED repoVars
      BY <1>3, <2>1 DEF HeartStep, repoVars, Repo!vars
    <2>2. ASSUME NEW t \in Readings, HeartRenews(w, t) PROVE Repo!Next
      <3>1. t \in Repo!Readings /\ Repo!WorkerStep(t)
        BY <2>2, RenewalAdmitted DEF HeartRenews, Readings
      <3> QED BY <1>3, <3>1 DEF HeartStep, Repo!Next
    <2> QED BY <1>3, <2>1, <2>2
            DEF HeartStep, HeartWakes, HeartExits, HeartUpdates, HeartFails
  <1>4. ASSUME NEW w \in Workers, (Crash(w) \/ Restart(w)) /\ UNCHANGED now
        PROVE  [Repo!Next]_(Repo!vars)
    BY <1>4 DEF Crash, Restart, repoVars, Repo!vars
  <1>5. CASE UNCHANGED vars
    BY <1>5 DEF vars, Repo!vars
  <1> QED BY <1>1, <1>2, <1>3, <1>4, <1>5, MainUsesStore DEF Next

-----------------------------------------------------------------------------
(* Every step keeps the invariant                                          *)

LEMMA MainTypes ==
  ASSUME IInv, NEW w \in Workers, MainStep(w)
  PROVE  /\ pc' \in [Workers -> MainStates] /\ outcome' \in [Workers -> Outcomes]
         /\ control' \in [Workers -> Control] /\ heart' \in [Workers -> Heart]
  <1>0. /\ now \in Nat /\ jobs \in [JobIds -> Repo!Job]
        /\ pc \in [Workers -> MainStates] /\ outcome \in [Workers -> Outcomes]
        /\ control \in [Workers -> Control] /\ heart \in [Workers -> Heart]
        /\ HeartbeatInterval \in Nat /\ LeaseDuration \in Nat
        /\ NoControl \in Control /\ NoHeart \in Heart
    BY Shape, ConfigAssumption
    DEF IInv, TypeOK, Repo!TypeOK, NoControl, NoHeart, Control, Heart
  <1>s. ASSUME NEW from, Stops(w, from) PROVE
          /\ pc' \in [Workers -> MainStates] /\ outcome' \in [Workers -> Outcomes]
          /\ control' \in [Workers -> Control] /\ heart' \in [Workers -> Heart]
    BY <1>0, <1>s DEF Stops, Goto, MainStates, Outcomes
  <1>h. ASSUME NEW result \in Outcomes, StopsHeartbeat(w, result)
        PROVE  outcome' \in [Workers -> Outcomes] /\ heart' \in [Workers -> Heart]
    <2>1. [heart[w] EXCEPT !.stop = TRUE] \in Heart
      BY <1>0 DEF Heart
    <2>2. heart' = [heart EXCEPT ![w] = [heart[w] EXCEPT !.stop = TRUE]]
      BY <1>h DEF StopsHeartbeat
    <2> QED BY <1>0, <1>h, <2>1, <2>2 DEF StopsHeartbeat
  <1>1. ASSUME NEW t \in Readings, Claim(w, t)
        PROVE  /\ pc' \in [Workers -> MainStates] /\ outcome' = outcome
               /\ control' \in [Workers -> Control] /\ heart' = heart
    <2>1. \A j \in JobIds :
            [state |-> "active", job |-> j, lease |-> t + LeaseDuration] \in Control
      BY <1>0 DEF Control, Readings, Repo!Readings
    <2> QED BY <1>0, <1>1, <2>1 DEF Claim, Goto, MainStates
  <1>2. ASSUME NEW t \in Readings, FinalRenewal(w, t) PROVE
          /\ pc' \in [Workers -> MainStates] /\ outcome' \in [Workers -> Outcomes]
          /\ control' \in [Workers -> Control] /\ heart' \in [Workers -> Heart]
    <2>1. ASSUME Goto(w, "renewing", "finishing"),
                 Repo!RenewLease(control[w].job, w, HeartbeatInterval, t),
                 control' = [control EXCEPT ![w].lease = jobs'[control[w].job].lease],
                 UNCHANGED <<outcome, heart>>
          PROVE  /\ pc' \in [Workers -> MainStates] /\ outcome' \in [Workers -> Outcomes]
                 /\ control' \in [Workers -> Control] /\ heart' \in [Workers -> Heart]
      <3>1. control[w].job \in JobIds /\ jobs[control[w].job].lease \in Nat
        BY <2>1, Shape DEF IInv, WorkerInv, Together, Goto, Away
      <3>2. jobs'[control[w].job].lease \in Nat
        BY <1>0, <2>1, <3>1 DEF Repo!RenewLease, Repo!Job
      <3>3. control[w] \in Control
        BY <1>0
      <3>4. \A n \in Nat : [control[w] EXCEPT !.lease = n] \in Control
        BY <3>3 DEF Control
      <3> QED BY <1>0, <2>1, <3>2, <3>4 DEF Goto, MainStates
    <2> QED BY <1>2, <1>s, <2>1 DEF FinalRenewal
  <1>3. ASSUME NEW t \in Readings, Terminate(w, t) PROVE
          /\ pc' \in [Workers -> MainStates] /\ outcome' \in [Workers -> Outcomes]
          /\ control' \in [Workers -> Control] /\ heart' \in [Workers -> Heart]
    <2>1. CASE /\ Goto(w, "finishing", "idle")
               /\ outcome' = [outcome EXCEPT ![w] = "none"]
               /\ control' = [control EXCEPT ![w] = NoControl]
               /\ heart' = [heart EXCEPT ![w] = NoHeart]
      BY <1>0, <2>1 DEF Goto, MainStates, Outcomes
    <2> QED BY <1>3, <1>s, <2>1 DEF Terminate
  <1>4. CASE StartHeartbeat(w)
    <2>0. now + HeartbeatInterval \in Nat
      BY <1>0
    <2>1. [NoHeart EXCEPT !.state = "waiting", !.due = now + HeartbeatInterval] \in Heart
      BY <2>0 DEF NoHeart, Heart
    <2> QED BY <1>0, <1>4, <2>1 DEF StartHeartbeat, Goto, MainStates
  <1>5. CASE HeartbeatStartFails(w)
    BY <1>0, <1>5 DEF HeartbeatStartFails, Goto, MainStates
  <1>6. CASE Checkpoint(w) \/ Act(w)
    BY <1>0, <1>6, <1>h DEF Checkpoint, Act, Goto, MainStates, Outcomes
  <1>7. ASSUME NEW result \in {"completed", "failed"}, DomainEnds(w, result) PROVE
          /\ pc' \in [Workers -> MainStates] /\ outcome' \in [Workers -> Outcomes]
          /\ control' \in [Workers -> Control] /\ heart' \in [Workers -> Heart]
    BY <1>0, <1>7, <1>h DEF DomainEnds, Goto, MainStates, Outcomes
  <1>8. CASE Join(w)
    BY <1>0, <1>8, <1>s DEF Join, Goto, MainStates
  <1>9. ASSUME NEW t \in Readings, Recover(w, t) PROVE
          /\ pc' \in [Workers -> MainStates] /\ outcome' \in [Workers -> Outcomes]
          /\ control' \in [Workers -> Control] /\ heart' \in [Workers -> Heart]
    BY <1>0, <1>9 DEF Recover, Goto, MainStates
  <1> QED BY <1>0, <1>1, <1>2, <1>3, <1>4, <1>5, <1>6, <1>7, <1>8, <1>9 DEF MainStep

LEMMA HeartTypes ==
  ASSUME IInv, NEW w \in Workers, HeartStep(w)
  PROVE  control' \in [Workers -> Control] /\ heart' \in [Workers -> Heart]
  <1>0. /\ now \in Nat /\ jobs \in [JobIds -> Repo!Job]
        /\ control \in [Workers -> Control] /\ heart \in [Workers -> Heart]
        /\ control[w] \in Control /\ heart[w] \in Heart /\ HeartbeatInterval \in Nat
    BY Shape, ConfigAssumption DEF IInv, TypeOK
  <1>1. \A to \in {"renewing", "updating", "waiting", "exited", "failed"} :
          \A due \in Nat, lease \in Nat :
            /\ [heart[w] EXCEPT !.state = to] \in Heart
            /\ [heart[w] EXCEPT !.state = to, !.lease = lease] \in Heart
            /\ [heart[w] EXCEPT !.state = to, !.lease = lease, !.due = due] \in Heart
    BY <1>0 DEF Heart
  <1>2. MarkedUnsafe(control[w]) \in Control /\
        \A lease \in Nat : [control[w] EXCEPT !.lease = lease] \in Control
    BY <1>0 DEF MarkedUnsafe, Control
  <1>3. ASSUME NEW from, NEW to \in {"renewing", "exited", "failed"}, Beats(w, from, to)
        PROVE  heart' \in [Workers -> Heart]
    <2>1. heart' = [heart EXCEPT ![w] = [heart[w] EXCEPT !.state = to]]
      BY <1>3 DEF Beats
    <2> QED BY <1>0, <1>1, <2>1
  <1>4. CASE HeartWakes(w) \/ HeartExits(w)
    BY <1>0, <1>3, <1>4 DEF HeartWakes, HeartExits
  <1>5. ASSUME NEW t \in Readings, HeartFails(w, t)
        PROVE  control' \in [Workers -> Control] /\ heart' \in [Workers -> Heart]
    BY <1>0, <1>2, <1>3, <1>5 DEF HeartFails
  <1>6. CASE HeartUpdates(w)
    <2>1. ASSUME heart' = [heart EXCEPT ![w] = [heart[w] EXCEPT !.state = "waiting",
                              !.lease = 0, !.due = now + HeartbeatInterval]]
          PROVE  heart' \in [Workers -> Heart]
      <3>1. 0 \in Nat /\ now + HeartbeatInterval \in Nat
        BY <1>0
      <3>2. [heart[w] EXCEPT !.state = "waiting", !.lease = 0,
                             !.due = now + HeartbeatInterval] \in Heart
        BY <1>1, <3>1
      <3> QED BY <1>0, <2>1, <3>2
    <2>2. ASSUME control' = [control EXCEPT ![w] = [control[w] EXCEPT !.lease = heart[w].lease]]
          PROVE  control' \in [Workers -> Control]
      BY <1>0, <1>2, <2>2 DEF Heart
    <2> QED BY <1>0, <1>2, <1>3, <1>6, <2>1, <2>2 DEF HeartUpdates
  <1>7. ASSUME NEW t \in Readings, HeartRenews(w, t)
        PROVE  control' \in [Workers -> Control] /\ heart' \in [Workers -> Heart]
    <2> DEFINE j == control[w].job
    <2>1. j \in JobIds /\ jobs[j].lease \in Nat
      BY <1>7, Shape DEF IInv, WorkerInv, Together, HeartRenews, NoHeart
    <2>2. jobs'[j].lease \in Nat
      BY <1>0, <1>7, <2>1 DEF HeartRenews, Repo!RenewLease, Repo!Job
    <2>3. heart' = [heart EXCEPT ![w] = [heart[w] EXCEPT !.state = "updating",
                                                         !.lease = jobs'[j].lease]]
      BY <1>7 DEF HeartRenews
    <2>4. [heart[w] EXCEPT !.state = "updating", !.lease = jobs'[j].lease] \in Heart
      BY <1>1, <2>2
    <2>5. control' = control
      BY <1>7 DEF HeartRenews
    <2> QED BY <1>0, <2>3, <2>4, <2>5
  <1> QED BY <1>4, <1>5, <1>6, <1>7 DEF HeartStep

LEMMA TypeStep == IInv /\ [Next]_vars => TypeOK'
  <1> SUFFICES ASSUME IInv, [Next]_vars PROVE TypeOK'
    OBVIOUS
  <1>1. Repo!TypeOK'
    BY StepUsesStore, StoreTypes DEF IInv, TypeOK
  <1>0. /\ pc \in [Workers -> MainStates] /\ outcome \in [Workers -> Outcomes]
        /\ control \in [Workers -> Control] /\ heart \in [Workers -> Heart]
        /\ NoControl \in Control /\ NoHeart \in Heart
    BY DEF IInv, TypeOK, NoControl, NoHeart, Control, Heart
  <1>2. ASSUME UNCHANGED workerVars PROVE TypeOK'
    BY <1>0, <1>1, <1>2 DEF TypeOK, workerVars
  <1>3. ASSUME NEW w \in Workers, MainStep(w) PROVE TypeOK'
    BY <1>1, <1>3, MainTypes DEF TypeOK
  <1>4. ASSUME NEW w \in Workers, HeartStep(w) PROVE TypeOK'
    <2>1. UNCHANGED <<pc, outcome>>
      BY <1>4 DEF HeartStep, HeartWakes, HeartExits, HeartUpdates, HeartRenews, HeartFails
    <2> QED BY <1>0, <1>1, <1>4, <2>1, HeartTypes DEF TypeOK
  <1>5. ASSUME NEW w \in Workers, Crash(w) \/ Restart(w) PROVE TypeOK'
    BY <1>0, <1>1, <1>5 DEF TypeOK, Crash, Restart, Stops, Goto, MainStates, Outcomes
  <1> QED BY <1>2, <1>3, <1>4, <1>5 DEF Next, Tick, Submits, vars, workerVars

\* A step of one worker leaves the threads of another where they are.
LEMMA OthersStay ==
  ASSUME TypeOK, NEW v \in Workers, NEW w \in Workers \ {v},
         MainStep(v) \/ HeartStep(v) \/ Crash(v) \/ Restart(v)
  PROVE  /\ pc'[w] = pc[w] /\ outcome'[w] = outcome[w]
         /\ control'[w] = control[w] /\ heart'[w] = heart[w]
  <1>0. /\ pc \in [Workers -> MainStates] /\ outcome \in [Workers -> Outcomes]
        /\ control \in [Workers -> Control] /\ heart \in [Workers -> Heart]
    BY DEF TypeOK
  <1>1. CASE MainStep(v)
    BY <1>0, <1>1
    DEF MainStep, Recover, Claim, FinalRenewal, Terminate, StartHeartbeat,
        HeartbeatStartFails, Checkpoint, Act, DomainEnds, Join, Stops,
        StopsHeartbeat, Goto
  <1>2. CASE HeartStep(v)
    BY <1>0, <1>2
    DEF HeartStep, HeartWakes, HeartExits, HeartUpdates, HeartRenews, HeartFails, Beats
  <1>3. CASE Crash(v) \/ Restart(v)
    BY <1>0, <1>3 DEF Crash, Restart, Stops, Goto
  <1> QED BY <1>1, <1>2, <1>3

LEMMA InvStep == IInv /\ [Next]_vars => IInv'
  <1> SUFFICES ASSUME IInv, [Next]_vars, TypeOK', NEW w \in Workers
               PROVE  WorkerInv(w)'
    BY TypeStep DEF IInv
  <1>0. TypeOK /\ now \in Nat
    BY Shape DEF IInv
  <1>1. CASE UNCHANGED workerVars /\ now' >= now /\ (Submits \/ UNCHANGED jobs)
    BY <1>0, <1>1, WorkerStays, QuietTouchesNone, SubmitTouchesNone DEF workerVars
  <1>2. ASSUME NEW v \in Workers, MainStep(v) \/ HeartStep(v) PROVE WorkerInv(w)'
    <2>1. now' = now
      BY <1>2 DEF MainStep, HeartStep
    <2>2. CASE v = w
      BY <1>2, <2>2, MainKeeps, HeartKeeps
    <2>3. CASE v # w
      BY <1>0, <1>2, <2>1, <2>3, OthersTouchNone, OthersStay, WorkerStays
    <2> QED BY <2>2, <2>3
  <1>3. ASSUME NEW v \in Workers, Crash(v) \/ Restart(v), UNCHANGED now
        PROVE  WorkerInv(w)'
    <2>1. UNCHANGED jobs
      BY <1>3 DEF Crash, Restart, repoVars
    <2>2. CASE v = w
      BY <1>3, <2>2, DeathKeeps
    <2>3. CASE v # w
      BY <1>0, <1>3, <2>1, <2>3, QuietTouchesNone, OthersStay, WorkerStays
    <2> QED BY <2>2, <2>3
  <1>4. CASE Tick
    BY <1>0, <1>1, <1>4 DEF Tick, repoVars
  <1>5. CASE Submits
    BY <1>0, <1>1, <1>5 DEF Submits
  <1>6. CASE UNCHANGED vars
    BY <1>0, <1>1, <1>6 DEF vars, workerVars
  <1> QED BY <1>2, <1>3, <1>4, <1>5, <1>6 DEF Next

LEMMA InvInit == Init => IInv
  <1> SUFFICES ASSUME Init PROVE IInv
    OBVIOUS
  <1>1. Repo!TypeOK
    BY SameInit, SameTypes, Store!TypeInit, ConfigAssumption DEF Init
  <1>2. TypeOK
    BY <1>1 DEF Init, TypeOK, NoControl, NoHeart, Control, Heart, MainStates, Outcomes
  <1>3. ASSUME NEW w \in Workers PROVE WorkerInv(w)
    BY <1>3, ConfigAssumption
    DEF Init, WorkerInv, Together, Snapshots, LeaseBounded, NoControl, NoHeart,
        Away, Closing, Repo!ConstantsAssumption
  <1> QED BY <1>2, <1>3 DEF IInv

-----------------------------------------------------------------------------
(* Theorems                                                                *)

THEOREM Invariant == Spec => []IInv
  BY InvInit, InvStep, PTL DEF Spec

\* Types, for any number of workers, jobs and renewals.
THEOREM TypeCorrect == Spec => []TypeOK
  BY Invariant, PTL DEF IInv

\* A worker whose snapshot has not run out owns the job in the store.
THEOREM SnapshotsOwn == Spec => []SnapshotOwns
  <1>1. IInv => SnapshotOwns
    BY DEF IInv, WorkerInv, Snapshots, Grips, SnapshotOwns
  <1> QED BY <1>1, Invariant, PTL

\* Only the terminal write of its owner completes or fails a running job.
LEMMA OnlyTerminates ==
  ASSUME IInv, [Next]_vars, NEW j \in JobIds,
         Repo!Leaves(j, {"completed", "failed"})
  PROVE  \E w \in Workers, t \in Readings :
           /\ pc[w] = "finishing" /\ jobs[j].worker = w /\ control[w].job = j
           /\ Repo!Finish(j, w, outcome[w], t)
  <1>0. /\ jobs \in [JobIds -> Repo!Job]
        /\ jobs[j].status = "running" /\ jobs'[j].status \in {"completed", "failed"}
        /\ jobs'[j] # jobs[j]
    BY DEF IInv, TypeOK, Repo!TypeOK, Repo!Leaves
  <1>1. ~ UNCHANGED repoVars
    BY <1>0 DEF repoVars
  <1>2. ~ Submits
    <2> SUFFICES ASSUME Submits PROVE FALSE
      OBVIOUS
    <2>1. PICK r \in Requests, p \in JobIds \cup {NoJob} :
            Repo!SubmitCreates(r, NoKey, p, Repo!Readings)
      BY DEF Submits
    <2>2. PICK i \in JobIds, t \in Repo!Readings :
            /\ ~Repo!Present(i)
            /\ jobs' = [jobs EXCEPT ![i] =
                          [Repo!Absent EXCEPT !.status = "queued", !.request = r,
                                              !.retryOf = p, !.created = t]]
      BY <2>1 DEF Repo!SubmitCreates
    <2> QED BY <1>0, <2>2 DEF Repo!Present
  <1>3. ASSUME NEW t \in Readings, Repo!MarkExpiredAbandoned(t) PROVE FALSE
    <2>1. jobs'[j] \in {jobs[j], [jobs[j] EXCEPT !.status = "abandoned", !.finished = t,
                                                 !.lease = Repo!NoTime]}
      BY <1>3 DEF Repo!MarkExpiredAbandoned
    <2>2. jobs'[j].status \in {"running", "abandoned"}
      BY <1>0, <2>1 DEF Repo!Job
    <2> QED BY <1>0, <2>2
  <1>4. ASSUME NEW i \in JobIds, NEW w \in Workers, NEW t, Repo!ClaimNext(i, w, LeaseDuration, t)
        PROVE  FALSE
    BY <1>0, <1>4 DEF Repo!ClaimNext, Repo!Job
  <1>5. ASSUME NEW w \in Workers, NEW t,
               Repo!RenewLease(control[w].job, w, HeartbeatInterval, t)
        PROVE  FALSE
    BY <1>0, <1>5 DEF Repo!RenewLease, Repo!OwnedRunning, Repo!Job
  <1>6. PICK w \in Workers : MainStep(w)
    BY <1>1, <1>2, <1>5
    DEF Next, Tick, HeartStep, HeartWakes, HeartExits, HeartUpdates, HeartRenews,
        HeartFails, Crash, Restart, vars, repoVars
  <1>7. PICK t \in Readings : Terminate(w, t)
    BY <1>1, <1>3, <1>4, <1>5, <1>6
    DEF MainStep, Recover, Claim, FinalRenewal, StartHeartbeat, HeartbeatStartFails,
        Checkpoint, Act, DomainEnds, Join
  <1>8. pc[w] = "finishing" /\ Repo!Finish(control[w].job, w, outcome[w], t)
    BY <1>1, <1>7 DEF Terminate, Goto
  <1>9. control[w].job = j
    BY <1>0, <1>8 DEF Repo!Finish
  <1> QED BY <1>8, <1>9 DEF Repo!Finish, Repo!OwnedRunning

\* A claim one of whose renewals failed is never recorded as completed or
\* failed: the heartbeat of the worker that records it ended by itself.
THEOREM NeverTerminal == Spec => FailedRenewalNeverTerminal
  <1>1. ASSUME IInv, [Next]_vars, NEW j \in JobIds,
               Repo!Leaves(j, {"completed", "failed"})
        PROVE  heart[jobs[j].worker].state = "exited"
    <2>1. PICK w \in Workers : pc[w] = "finishing" /\ jobs[j].worker = w
      BY <1>1, OnlyTerminates
    <2> QED BY <1>1, <2>1 DEF IInv, WorkerInv, Together, Closing
  <1>2. IInv /\ [Next]_vars =>
          [\A j \in JobIds : Repo!Leaves(j, {"completed", "failed"}) =>
             heart[jobs[j].worker].state = "exited"]_vars
    BY <1>1
  <1> QED BY <1>2, Invariant, PTL DEF Spec, FailedRenewalNeverTerminal

-----------------------------------------------------------------------------
(* What the store promises holds of the system of workers                  *)

\* Every history of the workers is one of the job store: they never ask it for
\* a renewal that its specification leaves out.
THEOREM UsesStore == Spec => Repo!Spec
  <1>1. Init => Repo!Init
    BY DEF Init
  <1> QED BY <1>1, StepUsesStore, Invariant, PTL DEF Spec, Repo!Spec

LEMMA SameSpec == Repo!Spec => Store!Spec
  BY SameInit, SameNext, PTL DEF Repo!Spec, Store!Spec

\* Whatever workers do, a request is never queued or running twice.
THEOREM OneActive == Spec => []Repo!OneActivePerRequest
  <1>1. Store!OneActivePerRequest <=> Repo!OneActivePerRequest
    BY DEF Store!OneActivePerRequest, Store!ActiveStatuses,
           Repo!OneActivePerRequest, Repo!ActiveStatuses
  <1>2. Repo!ConstantsAssumption
    BY ConfigAssumption
  <1>3. Store!Spec => []Store!OneActivePerRequest
    BY <1>2, Store!OneActive
  <1> QED BY <1>1, <1>3, UsesStore, SameSpec, PTL

\* Recovery never takes a job from a worker whose lease has not run out.
THEOREM LeasesHonoured == Spec => Repo!LeaseHonoured
  <1>1. Repo!ConstantsAssumption
    BY ConfigAssumption
  <1>2. Store!Spec => Store!LeaseHonoured
    BY <1>1, Store!LeasesHonoured
  <1>3. ASSUME NEW j PROVE
          /\ Repo!Leaves(j, {"abandoned"}) <=> Store!Leaves(j, {"abandoned"})
          /\ Repo!Leaves(j, {"completed", "failed"}) <=>
               Store!Leaves(j, {"completed", "failed"})
    BY DEF Repo!Leaves, Store!Leaves
  <1>4. [\A j \in JobIds :
           /\ Store!Leaves(j, {"abandoned"}) => jobs[j].lease <= now
           /\ Store!Leaves(j, {"completed", "failed"}) =>
                jobs[j].lease + MaxLag > now]_(Store!vars)
        => [\A j \in JobIds :
              /\ Repo!Leaves(j, {"abandoned"}) => jobs[j].lease <= now
              /\ Repo!Leaves(j, {"completed", "failed"}) =>
                   jobs[j].lease + MaxLag > now]_(Repo!vars)
    BY <1>3 DEF Repo!vars, Store!vars
  <1> QED BY <1>2, <1>4, UsesStore, SameSpec, PTL
          DEF Repo!LeaseHonoured, Store!LeaseHonoured

\* No row that a later read would reject is stored by the workers.
THEOREM AlwaysReadable == Spec => []Repo!EveryRowReadable
  <1>1. Store!EveryRowReadable <=> Repo!EveryRowReadable
    BY DEF Store!EveryRowReadable, Store!Present, Store!Readable, Store!LifecycleValid,
           Store!ValidRetry, Store!TerminalStatuses, Store!RetryableStatuses,
           Store!NoTime, Repo!EveryRowReadable, Repo!Present, Repo!Readable,
           Repo!LifecycleValid, Repo!ValidRetry, Repo!TerminalStatuses,
           Repo!RetryableStatuses, Repo!NoTime
  <1>2. Repo!ConstantsAssumption
    BY ConfigAssumption
  <1>3. Store!Spec => []Store!EveryRowReadable
    BY <1>2, Store!AlwaysReadable
  <1> QED BY <1>1, <1>3, UsesStore, SameSpec, PTL
=============================================================================
