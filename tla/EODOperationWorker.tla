------------------------- MODULE EODOperationWorker -------------------------
(***************************************************************************)
(* EODOperationWorker and EODLeaseController (market_data/                 *)
(* operation_worker.py, operation_control.py): worker processes that claim *)
(* jobs of the shared durable store and execute them, each with a main     *)
(* thread and, while it executes, a heartbeat thread that renews the       *)
(* lease.  The two threads share the lease controller, a snapshot of the   *)
(* claim that the executing code consults at its checkpoints.              *)
(*                                                                         *)
(* What a job does is abstracted to a sequence of controlled effects (a    *)
(* provider call, a publication, a deletion), each behind a checkpoint.    *)
(* A process may die and be started again; a transaction may fail; a       *)
(* thread may be delayed for any time, and clocks may be late.  Faults and  *)
(* late clocks end at FaultHorizon; delays do not.                         *)
(***************************************************************************)
EXTENDS Naturals, FiniteSets

CONSTANTS
  JobIds, Requests, Keys, Workers, MaxAliases, MaxLag, MaxTime, MaxLease,
  NoJob, NoRequest, NoKey, NoWorker,
  LeaseDuration, HeartbeatInterval,   \* EODOperationWorkerConfig
  FaultHorizon                        \* last instant at which a fault happens

LeaseTerms == {LeaseDuration, HeartbeatInterval}

VARIABLES
  jobs, bindings, reply, now,   \* the job store and the clock
  pc,        \* pc[w]: where the main thread of worker w is
  outcome,   \* outcome[w]: what the executed job will be recorded as
  control,   \* control[w]: the lease controller of w
  heart      \* heart[w]: the heartbeat thread of w

repoVars   == <<jobs, bindings, reply>>
workerVars == <<pc, outcome, control, heart>>
vars == <<jobs, bindings, reply, now, pc, outcome, control, heart>>

Repo == INSTANCE EODJobRepository

\* MaxLease bounds the renewals of EODJobRepository: those of a worker that
\* claims no later than MaxTime stay below it.
ASSUME ConfigAssumption ==
  /\ Repo!ConstantsAssumption
  /\ HeartbeatInterval \in Nat \ {0} /\ LeaseDuration \in Nat
  /\ LeaseDuration >= 3 * HeartbeatInterval
  /\ MaxLease >= MaxTime + LeaseDuration + HeartbeatInterval
  /\ FaultHorizon \in Nat

MainStates == {"idle", "claiming", "starting", "executing", "acting",
               "joining", "renewing", "finishing", "stopped"}
Outcomes   == {"none", "completed", "failed", "unsafe"}
Control    == [state : {"none", "active", "unsafe", "terminal"},
               job   : JobIds \cup {NoJob}, lease : Nat]
\* stop is the threading.Event that ends the loop; lease is what the renewal
\* transaction returned and update_ownership has not seen yet.
Heart      == [state : {"none", "waiting", "renewing", "updating", "exited",
                        "failed"},
               due : Nat, lease : Nat, stop : BOOLEAN]

NoControl == [state |-> "none", job |-> NoJob, lease |-> 0]
NoHeart   == [state |-> "none", due |-> 0, lease |-> 0, stop |-> FALSE]

TypeOK ==
  /\ Repo!TypeOK
  /\ pc \in [Workers -> MainStates]
  /\ outcome \in [Workers -> Outcomes]
  /\ control \in [Workers -> Control]
  /\ heart \in [Workers -> Heart]

Init ==
  /\ Repo!Init
  /\ pc = [w \in Workers |-> "idle"]
  /\ outcome = [w \in Workers |-> "none"]
  /\ control = [w \in Workers |-> NoControl]
  /\ heart = [w \in Workers |-> NoHeart]

Goto(w, from, to) == pc[w] = from /\ pc' = [pc EXCEPT ![w] = to]

Faulty == now <= FaultHorizon

\* What the worker's clock may read; a late clock is a fault too.
Readings == {t \in Repo!Readings : Faulty \/ t = now}

-----------------------------------------------------------------------------
(* The lease controller, called by both threads under its lock.            *)

MarkedUnsafe(c) == IF c.state = "terminal" THEN c ELSE [c EXCEPT !.state = "unsafe"]

\* update_ownership accepts only a strictly later expiry of an active claim.
AcceptsRenewal(c, lease) == c.state = "active" /\ lease > c.lease

-----------------------------------------------------------------------------
(* run_one, the main thread                                                *)

\* Mutant of Recover: expired leases are not looked for before a claim.
Recover_Skipped(w, t) ==
  /\ Goto(w, "idle", "claiming")
  /\ UNCHANGED <<repoVars, outcome, control, heart>>

Recover(w, t) ==
  /\ \/ Goto(w, "idle", "claiming") /\ Repo!MarkExpiredAbandoned(t)
     \/ Goto(w, "idle", "stopped") /\ Faulty /\ UNCHANGED repoVars
  /\ UNCHANGED <<outcome, control, heart>>

Claim(w, t) ==
  \/ /\ Goto(w, "claiming", "starting")
     /\ \E j \in JobIds :
          /\ Repo!ClaimNext(j, w, LeaseDuration, t)
          /\ control' = [control EXCEPT ![w] =
                 [state |-> "active", job |-> j, lease |-> t + LeaseDuration]]
     /\ UNCHANGED <<outcome, heart>>
  \/ /\ Goto(w, "claiming", "idle")                          \* no work
     /\ Repo!Queued = {}
     /\ UNCHANGED <<repoVars, outcome, control, heart>>
  \/ /\ Goto(w, "claiming", "stopped")                       \* claim failed
     /\ Faulty \/ \E j \in JobIds : Repo!OldestQueued(j) /\ t < jobs[j].created
     /\ UNCHANGED <<repoVars, outcome, control, heart>>

StartHeartbeat(w) ==
  /\ Goto(w, "starting", "executing")
  /\ heart' = [heart EXCEPT ![w] =
         [NoHeart EXCEPT !.state = "waiting", !.due = now + HeartbeatInterval]]
  /\ UNCHANGED <<repoVars, outcome, control>>

\* The job stays running in the store; nothing is executed.
HeartbeatStartFails(w) ==
  /\ Faulty
  /\ Goto(w, "starting", "stopped")
  /\ control' = [control EXCEPT ![w] = NoControl]
  /\ UNCHANGED <<repoVars, outcome, heart>>

StopsHeartbeat(w, result) ==
  /\ outcome' = [outcome EXCEPT ![w] = result]
  /\ heart' = [heart EXCEPT ![w].stop = TRUE]

\* run_eod_checkpoint: passes while the snapshot is active, whatever the
\* clock says; otherwise the control error ends the execution.
Checkpoint(w) ==
  \/ /\ Goto(w, "executing", "acting")
     /\ control[w].state = "active"
     /\ UNCHANGED <<repoVars, outcome, control, heart>>
  \/ /\ Goto(w, "executing", "joining")
     /\ control[w].state # "active"
     /\ StopsHeartbeat(w, "unsafe")
     /\ UNCHANGED <<repoVars, control>>

Act(w) ==
  /\ Goto(w, "acting", "executing")
  /\ UNCHANGED <<repoVars, outcome, control, heart>>

\* The domain call returns or raises (also before its first checkpoint, when
\* the preflight refuses the job).
DomainEnds(w, result) ==
  /\ Goto(w, "executing", "joining")
  /\ StopsHeartbeat(w, result)
  /\ UNCHANGED <<repoVars, control>>

\* run_one returns WORKER_UNSAFE and the process ends.
Stops(w, from) ==
  /\ Goto(w, from, "stopped")
  /\ outcome' = [outcome EXCEPT ![w] = "none"]
  /\ control' = [control EXCEPT ![w] = NoControl]
  /\ heart' = [heart EXCEPT ![w] = NoHeart]

Join(w) ==
  /\ heart[w].state \in {"exited", "failed"}
  /\ IF outcome[w] # "unsafe" /\ control[w].state = "active"
     THEN /\ Goto(w, "joining", "renewing")
          /\ UNCHANGED <<outcome, control, heart>>
     ELSE Stops(w, "joining")
  /\ UNCHANGED repoVars

FinalRenewal(w, t) ==
  LET j == control[w].job IN
  \/ /\ Goto(w, "renewing", "finishing")
     /\ Repo!RenewLease(j, w, HeartbeatInterval, t)
     /\ AcceptsRenewal(control[w], jobs'[j].lease)
     /\ control' = [control EXCEPT ![w].lease = jobs'[j].lease]
     /\ UNCHANGED <<outcome, heart>>
  \/ /\ Stops(w, "renewing")
     /\ ~Repo!OwnedRunning(j, w, t) \/ Faulty
     /\ UNCHANGED repoVars

\* The last checkpoint and the terminal write; no other thread of w is left
\* that could come between them.
Terminate(w, t) ==
  LET j == control[w].job IN
  \/ /\ Goto(w, "finishing", "idle")
     /\ control[w].state = "active"
     /\ Repo!Finish(j, w, outcome[w], t)
     /\ outcome' = [outcome EXCEPT ![w] = "none"]
     /\ control' = [control EXCEPT ![w] = NoControl]
     /\ heart' = [heart EXCEPT ![w] = NoHeart]
  \/ /\ Stops(w, "finishing")
     /\ ~Repo!OwnedRunning(j, w, t) \/ t < jobs[j].started \/ Faulty
     /\ UNCHANGED repoVars

-----------------------------------------------------------------------------
(* The heartbeat thread                                                    *)

Beats(w, from, to) ==
  /\ heart[w].state = from
  /\ heart' = [heart EXCEPT ![w].state = to]

HeartWakes(w) ==
  /\ ~heart[w].stop /\ heart[w].due <= now
  /\ Beats(w, "waiting", "renewing")
  /\ UNCHANGED <<repoVars, pc, outcome, control>>

HeartExits(w) ==
  /\ heart[w].stop
  /\ Beats(w, "waiting", "exited")
  /\ UNCHANGED <<repoVars, pc, outcome, control>>

HeartRenews(w, t) ==
  /\ heart[w].state = "renewing"
  /\ Repo!RenewLease(control[w].job, w, HeartbeatInterval, t)
  /\ heart' = [heart EXCEPT ![w].state = "updating",
                            ![w].lease = jobs'[control[w].job].lease]
  /\ UNCHANGED <<pc, outcome, control>>

\* Mutant of HeartFails: the failure is not told to the main thread.
HeartFails_Silent(w, t) ==
  /\ Beats(w, "renewing", "failed")
  /\ ~Repo!OwnedRunning(control[w].job, w, t) \/ Faulty
  /\ UNCHANGED <<repoVars, pc, outcome, control>>

HeartFails(w, t) ==
  /\ Beats(w, "renewing", "failed")
  /\ ~Repo!OwnedRunning(control[w].job, w, t) \/ Faulty
  /\ control' = [control EXCEPT ![w] = MarkedUnsafe(@)]
  /\ UNCHANGED <<repoVars, pc, outcome>>

HeartUpdates(w) ==
  /\ IF AcceptsRenewal(control[w], heart[w].lease)
     THEN /\ heart[w].state = "updating"
          /\ heart' = [heart EXCEPT ![w].state = "waiting", ![w].lease = 0,
                                    ![w].due = now + HeartbeatInterval]
          /\ control' = [control EXCEPT ![w].lease = heart[w].lease]
     ELSE /\ Beats(w, "updating", "failed")
          /\ control' = [control EXCEPT ![w] = MarkedUnsafe(@)]
  /\ UNCHANGED <<repoVars, pc, outcome>>

-----------------------------------------------------------------------------
(* The environment: submitters, the clock, process death and restart.      *)

Submits ==
  /\ \E r \in Requests, p \in JobIds \cup {NoJob} :
       Repo!SubmitCreates(r, NoKey, p, Repo!Readings)
  /\ UNCHANGED <<now, workerVars>>

Tick == now < MaxTime /\ now' = now + 1 /\ UNCHANGED <<repoVars, workerVars>>

Crash(w) ==
  /\ Faulty /\ pc[w] \notin {"idle", "stopped"}
  /\ Stops(w, pc[w])
  /\ UNCHANGED repoVars

Restart(w) ==
  /\ Goto(w, "stopped", "idle")
  /\ UNCHANGED <<repoVars, outcome, control, heart>>

MainStep(w) ==
  /\ \/ \E t \in Readings : Recover(w, t) \/ Claim(w, t)
                                 \/ FinalRenewal(w, t) \/ Terminate(w, t)
     \/ StartHeartbeat(w) \/ HeartbeatStartFails(w)
     \/ Checkpoint(w) \/ Act(w)
     \/ \E result \in {"completed", "failed"} : DomainEnds(w, result)
     \/ Join(w)
  /\ UNCHANGED now

HeartStep(w) ==
  /\ \/ HeartWakes(w) \/ HeartExits(w) \/ HeartUpdates(w)
     \/ \E t \in Readings : HeartRenews(w, t) \/ HeartFails(w, t)
  /\ UNCHANGED now

Next ==
  \/ Tick \/ Submits
  \/ \E w \in Workers :
       \/ MainStep(w) \/ HeartStep(w)
       \/ (Crash(w) \/ Restart(w)) /\ UNCHANGED now

Spec == Init /\ [][Next]_vars

\* The schedulers run every thread, the clock goes on, an operator restarts a
\* stopped worker, and the work of a job is finite.  No fault is fair.
Fairness ==
  /\ WF_vars(Tick)
  /\ \A w \in Workers :
       /\ WF_vars(MainStep(w))
       /\ WF_vars(HeartStep(w))
       /\ WF_vars(Restart(w) /\ UNCHANGED now)
       /\ SF_vars(\E result \in {"completed", "failed"} :
                     DomainEnds(w, result) /\ UNCHANGED now)

FairSpec == Spec /\ Fairness
-----------------------------------------------------------------------------
(* Properties                                                              *)

\* While the expiry in a worker's own snapshot has not passed, the store has
\* the job running, owned by that worker, under a lease at least as long: a
\* worker that trusts its snapshot and its clock is never the zombie of a job
\* that recovery gave up, whichever renewals are between the two threads.
SnapshotOwns ==
  \A w \in Workers :
    control[w].state = "active" /\ control[w].lease > now =>
      LET job == jobs[control[w].job] IN
        /\ job.status = "running" /\ job.worker = w
        /\ job.lease >= control[w].lease

\* Once a renewal of a claim failed, whatever the main thread was doing, the
\* job is never recorded as completed or failed by that claim ("never converts
\* an unsafe lease into a successful or failed durable job result").
FailedRenewalNeverTerminal ==
  [][\A j \in JobIds :
       Repo!Leaves(j, {"completed", "failed"}) =>
         heart[jobs[j].worker].state = "exited"]_vars

\* Every submitted job reaches a terminal status although workers crash,
\* renewals fail and threads are delayed: the queue is never blocked for ever.
EveryJobSettles ==
  \A j \in JobIds :
    Repo!Present(j) ~> jobs[j].status \in Repo!TerminalStatuses

\* What docs/eod-operation-worker.md says of checkpoints: "They prevent a new
\* controlled side effect after the worker becomes unsafe".
EffectOnlyWhileActive ==
  [][\A w \in Workers :
       pc[w] = "acting" /\ pc'[w] = "executing" => control[w].state = "active"]_vars
=============================================================================
