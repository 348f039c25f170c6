--------------------------- MODULE EODJobLifecycle ---------------------------
(***************************************************************************)
(* What the durable EOD job store promises to a submitter, without leases, *)
(* clocks or workers: a request that is already queued or running is never *)
(* queued a second time, an idempotency key names one job for ever, and a  *)
(* job goes queued -> running -> one terminal status and stays there.      *)
(*                                                                         *)
(* EODJobRepository implements this specification.                         *)
(***************************************************************************)
CONSTANTS
  JobIds,      \* identities a job can be given
  Requests,    \* operation requests; one stands for one fingerprint
  Keys,        \* idempotency keys
  NoJob,       \* "this key is bound to no job"
  NoRequest    \* the request of a job identity not yet used

VARIABLES
  phase,       \* phase[j]: lifecycle status of job j, "absent" before creation
  request,     \* request[j]: what job j executes
  binding      \* binding[k]: the job that key k names

vars == <<phase, request, binding>>

ActiveStatuses   == {"queued", "running"}
TerminalStatuses == {"completed", "failed", "abandoned"}
Phases           == {"absent"} \cup ActiveStatuses \cup TerminalStatuses

TypeOK ==
  /\ phase \in [JobIds -> Phases]
  /\ request \in [JobIds -> Requests \cup {NoRequest}]
  /\ binding \in [Keys -> JobIds \cup {NoJob}]

Init ==
  /\ phase = [j \in JobIds |-> "absent"]
  /\ request = [j \in JobIds |-> NoRequest]
  /\ binding = [k \in Keys |-> NoJob]

\* At most one unbound key starts to name job j.
MayBind(j) ==
  \/ UNCHANGED binding
  \/ \E k \in Keys : /\ binding[k] = NoJob
                     /\ binding' = [binding EXCEPT ![k] = j]

\* A new job for a request that has no active job.
Accept(j, r) ==
  /\ phase[j] = "absent"
  /\ \A i \in JobIds : phase[i] \in ActiveStatuses => request[i] # r
  /\ phase' = [phase EXCEPT ![j] = "queued"]
  /\ request' = [request EXCEPT ![j] = r]
  /\ MayBind(j)

\* A further submission of an active request joins the job already there.
Join(j) ==
  /\ phase[j] \in ActiveStatuses
  /\ MayBind(j)
  /\ UNCHANGED <<phase, request>>

Start(j) ==
  /\ phase[j] = "queued"
  /\ phase' = [phase EXCEPT ![j] = "running"]
  /\ UNCHANGED <<request, binding>>

Finish(j, outcome) ==
  /\ phase[j] = "running"
  /\ phase' = [phase EXCEPT ![j] = outcome]
  /\ UNCHANGED <<request, binding>>

\* Any set of running jobs is given up at once.
GiveUp(S) ==
  /\ \A j \in S : phase[j] = "running"
  /\ phase' = [j \in JobIds |-> IF j \in S THEN "abandoned" ELSE phase[j]]
  /\ UNCHANGED <<request, binding>>

Next ==
  \/ \E j \in JobIds :
       \/ \E r \in Requests : Accept(j, r)
       \/ Join(j)
       \/ Start(j)
       \/ \E outcome \in {"completed", "failed"} : Finish(j, outcome)
  \/ \E S \in SUBSET JobIds : GiveUp(S)

Spec == Init /\ [][Next]_vars
==============================================================================
