---------------------------- MODULE EODBatchProofs ----------------------------
(***************************************************************************)
(* Proofs about EODBatch and EODBatchRecords, for any batches and any      *)
(* number of datasets.                                                     *)
(***************************************************************************)
EXTENDS EODBatchRecords, FiniteSetTheorems, TLAPS

\* Results are there for a beginning of the batch, and the dataset it is at
\* comes after them.
Ordered(b) ==
  /\ \A d \in Datasets : outcome[b][d] # "none" => d \in request[b].datasets
  /\ \A d, e \in request[b].datasets :
       d < e /\ outcome[b][e] # "none" => outcome[b][d] # "none"
  /\ pc[b] \in {"running", "publishing", "leaving"} =>
       /\ at[b] \in Remaining(b)
       /\ \A e \in Remaining(b) : at[b] <= e
       /\ ~stop[b]
  /\ pc[b] = "publishing" => ~request[b].dry_run
  /\ pc[b] = "leaving" => answer[b] # "none"

Stopping(b) ==
  /\ stop[b] =>
       request[b].failure_policy = "stop_on_failure" /\ With(b, {"failed"}) # {}
  /\ ~stop[b] /\ request[b].failure_policy = "stop_on_failure" =>
       With(b, {"failed", "skipped"}) = {}
  /\ request[b].failure_policy = "continue_on_failure" => With(b, {"skipped"}) = {}
  /\ request[b].failure_policy = "stop_on_failure" =>
       \A d \in With(b, {"failed"}), e \in request[b].datasets : d < e =>
         outcome[b][e] \in {"none", "skipped"}
  /\ \A e \in With(b, {"skipped"}) : \E d \in With(b, {"failed"}) : d < e

\* A pointer that was moved is reported, or about to be.
Moving(b) ==
  /\ moved[b] \subseteq request[b].datasets
  /\ request[b].dry_run => moved[b] = {}
  /\ \A d \in moved[b] :
       \/ outcome[b][d] \in {"success", "failed"}
       \/ pc[b] = "leaving" /\ d = at[b] /\ answer[b] \in {"success", "failed"}
  /\ answer[b] = "dry_run" => request[b].dry_run
  /\ answer[b] = "success" => ~request[b].dry_run
  /\ With(b, {"dry_run"}) # {} => request[b].dry_run

Verdict(b) ==
  /\ pc[b] # "ended" => status[b] = "none"
  /\ status[b] \in BatchStatuses => Remaining(b) = {} /\ status[b] = DerivedStatus(b)

Good(b) == Ordered(b) /\ Stopping(b) /\ Moving(b) /\ Verdict(b)

IInv ==
  /\ TypeOK
  /\ \A b \in Batches : Good(b)
  /\ KeysAccounted

LEMMA InitInv == Init => IInv
  <1> SUFFICES ASSUME Init PROVE IInv
    OBVIOUS
  <1>1. TypeOK
    BY DEF Init, TypeOK
  <1>2. ASSUME NEW b \in Batches PROVE Good(b)
    <2>1. /\ pc[b] = "next" /\ answer[b] = "none" /\ stop[b] = FALSE /\ status[b] = "none"
          /\ moved[b] = {} /\ \A d \in Datasets : outcome[b][d] = "none"
          /\ request[b].datasets \subseteq Datasets
      BY <1>1 DEF Init, TypeOK, Requests
    <2>2. \A S : "none" \notin S => With(b, S) = {}
      BY <2>1 DEF With
    <2>3. Stopping(b)
      BY <2>1, <2>2 DEF Stopping
    <2> QED BY <2>1, <2>2, <2>3 DEF Good, Ordered, Moving, Verdict, BatchStatuses
  <1>3. KeysAccounted
    BY DEF Init, KeysAccounted, Working
  <1> QED BY <1>1, <1>2, <1>3 DEF IInv

-----------------------------------------------------------------------------
(* Types                                                                   *)

LEMMA RecordTypes ==
  ASSUME TypeOK, NEW b \in Batches, NEW d, NEW s \in DatasetStatuses, Record(b, d, s)
  PROVE  /\ pc' \in [Batches -> {"next", "running", "publishing", "leaving", "ended"}]
         /\ outcome' \in [Batches -> [Datasets -> DatasetStatuses \cup {"none"}]]
         /\ stop' \in [Batches -> BOOLEAN]
  BY DEF TypeOK, Record

LEMMA DerivedType == ASSUME NEW b PROVE DerivedStatus(b) \in BatchStatuses
  BY DEF DerivedStatus, BatchStatuses

LEMMA RunTypes ==
  ASSUME IInv, NEW b \in Batches, Run(b)
  PROVE  TypeOK'
  <1>a. TypeOK /\ Ordered(b)
    BY DEF IInv, Good
  <1> USE DEF DatasetStatuses, BatchStatuses
  <1>1. CASE Aborts(b)
    BY <1>1, <1>a DEF Aborts, Raise, TypeOK
  <1>2. CASE Skip(b)
    BY <1>2, <1>a, RecordTypes DEF Skip, TypeOK
  <1>3. CASE EnterDry(b)
    BY <1>3, <1>a DEF EnterDry, Enter, TypeOK
  <1>4. CASE Acquire(b)
    BY <1>4, <1>a DEF Acquire, Enter, TypeOK
  <1>5. CASE Unlocked(b)
    BY <1>5, <1>a, RecordTypes DEF Unlocked, TypeOK
  <1>6. CASE EndsUnpublished(b)
    BY <1>6, <1>a DEF EndsUnpublished, Answers, TypeOK
  <1>7. CASE EndsUnsafe(b)
    BY <1>7, <1>a DEF EndsUnsafe, Answers, TypeOK
  <1>8. CASE BeginPublication(b)
    BY <1>8, <1>a DEF BeginPublication, TypeOK
  <1>9. CASE Publish(b)
    <2>1. at[b] \in Datasets
      BY <1>9, <1>a DEF Publish, Ordered, Remaining, TypeOK, Requests
    <2>2. CASE Answers(b, "failed") /\ UNCHANGED moved
      BY <2>2, <1>a DEF Answers, TypeOK
    <2>3. CASE /\ \E s \in {"success", "failed"} : Answers(b, s)
               /\ moved' = [moved EXCEPT ![b] = @ \cup {at[b]}]
      <3>1. moved' \in [Batches -> SUBSET Datasets]
        BY <2>1, <2>3, <1>a DEF TypeOK
      <3> QED BY <2>3, <3>1, <1>a DEF Answers, TypeOK
    <2> QED BY <1>9, <2>2, <2>3 DEF Publish
  <1>10. CASE Release(b) \/ ReleaseFails(b)
    <2>1. pc[b] = "leaving" /\ at[b] \in Datasets
      BY <1>10, <1>a DEF Release, ReleaseFails, Ordered, Remaining, TypeOK, Requests
    <2>2. PICK s \in {answer[b], "failed"} : Leave(b, s)
      BY <1>10 DEF Release, ReleaseFails
    <2>3. /\ at' \in [Batches -> Datasets \cup {0}]
          /\ answer' \in [Batches -> (DatasetStatuses \ {"skipped"}) \cup {"none", "raised"}]
      BY <2>2, <1>a DEF Leave, TypeOK
    <2>4. /\ pc' \in [Batches -> {"next", "running", "publishing", "leaving", "ended"}]
          /\ outcome' \in [Batches -> [Datasets -> DatasetStatuses \cup {"none"}]]
          /\ stop' \in [Batches -> BOOLEAN]
          /\ status' \in [Batches -> BatchStatuses \cup {"none", "raised"}]
      <3>1. CASE answer[b] = "raised"
        BY <3>1, <2>2, <1>a DEF Leave, Raise, TypeOK
      <3>2. CASE answer[b] # "raised"
        <4>1. s \in DatasetStatuses
          BY <3>2, <2>1, <1>a DEF Ordered, TypeOK
        <4>2. Record(b, at[b], s) /\ UNCHANGED status
          BY <3>2, <2>2 DEF Leave
        <4> QED BY <4>1, <4>2, <1>a, RecordTypes DEF TypeOK
      <3> QED BY <3>1, <3>2
    <2>5. held' \subseteq Datasets /\ leaked' \subseteq Datasets
      BY <1>10, <2>1, <1>a DEF Release, ReleaseFails, TypeOK
    <2> QED BY <1>10, <2>3, <2>4, <2>5, <1>a DEF Release, ReleaseFails, TypeOK
  <1>11. CASE Finish(b)
    BY <1>11, <1>a, DerivedType DEF Finish, TypeOK
  <1> QED BY <1>1, <1>2, <1>3, <1>4, <1>5, <1>6, <1>7, <1>8, <1>9, <1>10, <1>11 DEF Run

LEMMA StepTypes == IInv /\ [Next]_vars => TypeOK'
  <1> SUFFICES ASSUME IInv, [Next]_vars PROVE TypeOK'
    OBVIOUS
  <1>1. TypeOK
    BY DEF IInv
  <1>2. ASSUME NEW b \in Batches, Revoke(b) PROVE TypeOK'
    BY <1>1, <1>2 DEF Revoke, TypeOK
  <1>3. CASE UNCHANGED vars
    BY <1>1, <1>3 DEF vars, TypeOK
  <1> QED BY <1>1, <1>2, <1>3, RunTypes DEF Next

-----------------------------------------------------------------------------
(* One batch                                                               *)

Standing(b) ==
  <<request[b], pc[b], at[b], answer[b], outcome[b], stop[b], status[b], moved[b]>>

LEMMA GoodStays ==
  ASSUME NEW b, Good(b), UNCHANGED Standing(b)
  PROVE  Good(b)'
  <1>1. /\ request'[b] = request[b] /\ pc'[b] = pc[b] /\ at'[b] = at[b]
        /\ answer'[b] = answer[b] /\ outcome'[b] = outcome[b] /\ stop'[b] = stop[b]
        /\ status'[b] = status[b] /\ moved'[b] = moved[b]
    BY DEF Standing
  <1>2. /\ \A S : With(b, S)' = With(b, S)
        /\ Remaining(b)' = Remaining(b)
        /\ DerivedStatus(b)' = DerivedStatus(b)
    BY <1>1 DEF With, Remaining, DerivedStatus
  <1>3. Ordered(b)'
    BY <1>1, <1>2 DEF Good, Ordered
  <1>4. Stopping(b)'
    BY <1>1, <1>2 DEF Good, Stopping, With
  <1>5. Moving(b)'
    BY <1>1, <1>2 DEF Good, Moving, With
  <1>6. Verdict(b)'
    BY <1>1, <1>2 DEF Good, Verdict
  <1> QED BY <1>3, <1>4, <1>5, <1>6 DEF Good

\* A result for the next dataset keeps the record good.
LEMMA RecordKeeps ==
  ASSUME TypeOK, NEW b \in Batches, Good(b), pc[b] # "ended",
         NEW d \in Remaining(b), \A e \in Remaining(b) : d <= e,
         NEW s \in DatasetStatuses, Record(b, d, s),
         s = "skipped" <=> stop[b],
         d \in moved[b] => s \in {"success", "failed"},
         s = "dry_run" => request[b].dry_run,
         pc[b] = "leaving" => d = at[b],
         UNCHANGED <<request, moved, status>>,
         answer'[b] \in {"none", answer[b]}
  PROVE  Good(b)'
  <1>1. /\ pc'[b] = "next"
        /\ stop'[b] = (stop[b] \/ (s = "failed" /\ request[b].failure_policy = "stop_on_failure"))
        /\ outcome'[b][d] = s
        /\ \A e \in Datasets : e # d => outcome'[b][e] = outcome[b][e]
        /\ stop[b] \in BOOLEAN
    BY DEF Record, TypeOK, Remaining, Requests
  <1>2. /\ d \in request[b].datasets /\ outcome[b][d] = "none"
        /\ request[b].datasets \subseteq Datasets /\ Datasets \subseteq Nat
        /\ request[b].failure_policy \in {"stop_on_failure", "continue_on_failure"}
    BY DEF Remaining, TypeOK, Requests, Datasets
  <1>n. d \in Nat /\ \A e \in request[b].datasets : e \in Nat
    BY <1>2
  <1>3. s # "none"
    BY DEF DatasetStatuses
  <1>4. /\ \A e \in request[b].datasets : outcome[b][e] = "none" => d <= e
        /\ \A e \in request[b].datasets : d < e => outcome[b][e] = "none"
    BY <1>2 DEF Remaining, Good, Ordered
  <1>5. \A S : With(b, S)' = IF s \in S THEN With(b, S) \cup {d} ELSE With(b, S) \ {d}
    BY <1>1, <1>2 DEF With
  <1>6. \A S : "none" \notin S => d \notin With(b, S)
    BY <1>2 DEF With
  <1>7. Ordered(b)'
    <2>1. \A e \in Datasets : outcome'[b][e] # "none" => e \in request'[b].datasets
      BY <1>1, <1>2 DEF Good, Ordered
    <2>2. \A e, f \in request[b].datasets :
            e < f /\ outcome'[b][f] # "none" => outcome'[b][e] # "none"
      <3> SUFFICES ASSUME NEW e \in request[b].datasets, NEW f \in request[b].datasets,
                          e < f, outcome'[b][f] # "none", outcome'[b][e] = "none"
                   PROVE  FALSE
        OBVIOUS
      <3>1. e # d /\ outcome[b][e] = "none"
        BY <1>1, <1>2, <1>3
      <3>2. d \in Nat /\ e \in Nat /\ f \in Nat /\ d <= e
        BY <3>1, <1>n, <1>4
      <3>4. d < f /\ f # d
        BY <3>2
      <3>3. outcome[b][f] = "none" /\ outcome'[b][f] = outcome[b][f]
        BY <3>4, <1>1, <1>2, <1>4
      <3> QED BY <3>3
    <2> QED BY <2>1, <2>2, <1>1 DEF Ordered
  <1>8. Stopping(b)'
    <2>1. stop'[b] => request[b].failure_policy = "stop_on_failure" /\ With(b, {"failed"})' # {}
      <3>1. CASE stop[b]
        <4>1. With(b, {"failed"}) # {} /\ d \notin With(b, {"failed"})
          BY <3>1, <1>6 DEF Good, Stopping
        <4>2. request[b].failure_policy = "stop_on_failure"
          BY <3>1 DEF Good, Stopping
        <4> QED BY <4>1, <4>2, <1>5
      <3>2. CASE ~stop[b]
        BY <3>2, <1>1, <1>5
      <3> QED BY <3>1, <3>2
    <2>2. ~stop'[b] /\ request[b].failure_policy = "stop_on_failure" =>
            With(b, {"failed", "skipped"})' = {}
      <3> SUFFICES ASSUME ~stop'[b], request[b].failure_policy = "stop_on_failure"
                   PROVE  With(b, {"failed", "skipped"})' = {}
        OBVIOUS
      <3>1. ~stop[b] /\ s # "failed" /\ s # "skipped"
        BY <1>1
      <3>2. With(b, {"failed", "skipped"}) = {}
        BY <3>1 DEF Good, Stopping
      <3> QED BY <3>1, <3>2, <1>5
    <2>3. request[b].failure_policy = "continue_on_failure" => With(b, {"skipped"})' = {}
      <3> SUFFICES ASSUME request[b].failure_policy = "continue_on_failure"
                   PROVE  With(b, {"skipped"})' = {}
        OBVIOUS
      <3>1. ~stop[b] /\ With(b, {"skipped"}) = {}
        BY DEF Good, Stopping
      <3> QED BY <3>1, <1>5
    <2>4. ASSUME request[b].failure_policy = "stop_on_failure",
                 NEW f \in With(b, {"failed"})', NEW e \in request[b].datasets, f < e
          PROVE  outcome'[b][e] \in {"none", "skipped"}
      <3>1. CASE e = d
        <4>1. f # d
          BY <2>4, <3>1, <1>n
        <4>2. f \in With(b, {"failed"})
          BY <4>1, <1>5, <2>4
        <4>3. stop[b]
          BY <4>2, <2>4, <1>1 DEF Good, Stopping, With
        <4> QED BY <3>1, <4>3, <1>1
      <3>2. CASE e # d
        <4>1. outcome'[b][e] = outcome[b][e]
          BY <3>2, <1>1, <1>2
        <4>2. CASE f = d
          BY <2>4, <4>1, <4>2, <1>4
        <4>3. CASE f # d
          <5>1. f \in With(b, {"failed"})
            BY <4>3, <1>5, <2>4
          <5> QED BY <5>1, <4>1, <2>4 DEF Good, Stopping
        <4> QED BY <4>2, <4>3
      <3> QED BY <3>1, <3>2
    <2>5. ASSUME NEW e \in With(b, {"skipped"})'
          PROVE  \E f \in With(b, {"failed"})' : f < e
      <3>1. CASE e = d
        <4>1. s = "skipped"
          BY <3>1, <2>5, <1>5
        <4>2. PICK f \in With(b, {"failed"}) : TRUE
          BY <4>1 DEF Good, Stopping
        <4>3. f # d /\ f \in request[b].datasets /\ outcome[b][f] # "none"
          BY <4>2, <1>6 DEF With
        <4>4. f < d
          <5>1. f \in Nat /\ d \in Nat
            BY <4>3, <1>n
          <5>2. ~(d < f)
            BY <4>3, <1>4
          <5> QED BY <4>3, <5>1, <5>2
        <4>5. f \in With(b, {"failed"})'
          BY <4>2, <4>3, <1>5
        <4> QED BY <3>1, <4>4, <4>5
      <3>2. CASE e # d
        <4>1. e \in With(b, {"skipped"})
          BY <3>2, <2>5, <1>5
        <4>2. PICK f \in With(b, {"failed"}) : f < e
          BY <4>1 DEF Good, Stopping
        <4>3. f \in With(b, {"failed"})'
          BY <4>2, <1>5, <1>6
        <4> QED BY <4>2, <4>3
      <3> QED BY <3>1, <3>2
    <2> QED BY <2>1, <2>2, <2>3, <2>4, <2>5 DEF Stopping
  <1>9. Moving(b)'
    <2>1. ASSUME NEW e \in moved[b] PROVE outcome'[b][e] \in {"success", "failed"}
      <3>1. e \in Datasets
        BY <1>2 DEF Good, Moving
      <3>2. CASE e = d
        BY <3>2, <1>1
      <3>3. CASE e # d
        <4>1. outcome[b][e] \in {"success", "failed"}
          BY <3>3 DEF Good, Moving
        <4> QED BY <4>1, <3>1, <3>3, <1>1
      <3> QED BY <3>2, <3>3
    <2>2. With(b, {"dry_run"})' # {} => request[b].dry_run
      BY <1>5 DEF Good, Moving
    <2>3. answer'[b] = "dry_run" => request[b].dry_run
      BY DEF Good, Moving
    <2> QED BY <2>1, <2>2, <2>3 DEF Good, Moving
  <1>10. Verdict(b)'
    BY <1>1 DEF Good, Verdict, BatchStatuses
  <1> QED BY <1>7, <1>8, <1>9, <1>10 DEF Good

\* A step that records nothing leaves what is computed from the results.
LEMMA ResultsStand ==
  ASSUME NEW b, request'[b] = request[b], outcome'[b] = outcome[b]
  PROVE  /\ \A S : With(b, S)' = With(b, S)
         /\ Remaining(b)' = Remaining(b)
         /\ DerivedStatus(b)' = DerivedStatus(b)
         /\ Stopping(b) /\ stop'[b] = stop[b] => Stopping(b)'
  <1>1. \A S : With(b, S)' = With(b, S)
    BY DEF With
  <1>2. Remaining(b)' = Remaining(b) /\ DerivedStatus(b)' = DerivedStatus(b)
    BY <1>1 DEF Remaining, DerivedStatus
  <1>3. Stopping(b) /\ stop'[b] = stop[b] => Stopping(b)'
    BY <1>1 DEF Stopping
  <1> QED BY <1>1, <1>2, <1>3

LEMMA AbortsKeeps ==
  ASSUME TypeOK, NEW b \in Batches, Good(b), pc[b] # "ended", Raise(b),
         pc[b] = "leaving" => answer[b] = "raised",
         UNCHANGED <<request, outcome, stop, moved>>,
         answer'[b] \in {"none", answer[b]}
  PROVE  Good(b)'
  <1>1. pc'[b] = "ended" /\ status'[b] = "raised"
    BY DEF Raise, TypeOK
  <1>2. /\ \A S : With(b, S)' = With(b, S)
        /\ Stopping(b)'
    BY ResultsStand DEF Good
  <1>3. Ordered(b)'
    BY <1>1 DEF Good, Ordered
  <1>4. Moving(b)'
    BY <1>1, <1>2 DEF Good, Moving
  <1>5. Verdict(b)'
    BY <1>1 DEF Verdict, BatchStatuses
  <1> QED BY <1>2, <1>3, <1>4, <1>5 DEF Good

LEMMA EnterKeeps ==
  ASSUME TypeOK, NEW b \in Batches, Good(b), ~stop[b],
         NEW d \in Datasets, Turn(b, d), Enter(b, d)
  PROVE  Good(b)'
  <1>1. /\ pc[b] = "next" /\ pc'[b] = "running" /\ at'[b] = d
        /\ d \in Remaining(b) /\ \A e \in Remaining(b) : d <= e
        /\ UNCHANGED <<request, answer, outcome, stop, status, moved>>
    BY DEF TypeOK, Turn, Enter
  <1>2. /\ \A S : With(b, S)' = With(b, S)
        /\ Remaining(b)' = Remaining(b)
        /\ Stopping(b)'
    BY <1>1, ResultsStand DEF Good
  <1>3. Ordered(b)'
    BY <1>1, <1>2 DEF Good, Ordered
  <1>4. Moving(b)'
    BY <1>1, <1>2 DEF Good, Moving
  <1>5. Verdict(b)'
    BY <1>1 DEF Good, Verdict, BatchStatuses
  <1> QED BY <1>2, <1>3, <1>4, <1>5 DEF Good

LEMMA AnswersKeeps ==
  ASSUME TypeOK, NEW b \in Batches, Good(b), pc[b] \in {"running", "publishing"},
         NEW s, s # "none", Answers(b, s),
         s = "dry_run" => request[b].dry_run,
         s = "success" => ~request[b].dry_run,
         \/ UNCHANGED moved
         \/ /\ s \in {"success", "failed"} /\ pc[b] = "publishing"
            /\ moved' = [moved EXCEPT ![b] = @ \cup {at[b]}]
  PROVE  Good(b)'
  <1>1. /\ pc'[b] = "leaving" /\ answer'[b] = s
        /\ UNCHANGED <<request, at, outcome, stop, status>>
    BY DEF TypeOK, Answers
  <1>2. /\ \A S : With(b, S)' = With(b, S)
        /\ Remaining(b)' = Remaining(b)
        /\ Stopping(b)'
    BY <1>1, ResultsStand DEF Good
  <1>3. Ordered(b)'
    BY <1>1, <1>2 DEF Good, Ordered
  <1>4. /\ \/ moved'[b] = moved[b]
           \/ /\ moved'[b] = moved[b] \cup {at[b]}
              /\ s \in {"success", "failed"} /\ pc[b] = "publishing"
        /\ at[b] \in request[b].datasets
    <2>1. at[b] \in request[b].datasets
      BY DEF Good, Ordered, Remaining
    <2>2. moved \in [Batches -> SUBSET Datasets]
      BY DEF TypeOK
    <2>3. CASE UNCHANGED moved
      BY <2>1, <2>3
    <2>4. CASE /\ s \in {"success", "failed"} /\ pc[b] = "publishing"
               /\ moved' = [moved EXCEPT ![b] = @ \cup {at[b]}]
      BY <2>1, <2>2, <2>4
    <2>5. UNCHANGED moved \/ /\ s \in {"success", "failed"} /\ pc[b] = "publishing"
                              /\ moved' = [moved EXCEPT ![b] = @ \cup {at[b]}]
      OBVIOUS
    <2> QED BY <2>3, <2>4, <2>5
  <1>5. Moving(b)'
    <2>1. moved'[b] \subseteq request[b].datasets
      BY <1>4 DEF Good, Moving
    <2>2. request[b].dry_run => moved'[b] = {}
      BY <1>4 DEF Good, Moving, Ordered
    <2>3. \A d \in moved'[b] : \/ outcome[b][d] \in {"success", "failed"}
                               \/ d = at[b] /\ s \in {"success", "failed"}
      BY <1>4 DEF Good, Moving
    <2> QED BY <1>1, <1>2, <2>1, <2>2, <2>3 DEF Good, Moving
  <1>6. Verdict(b)'
    BY <1>1 DEF Good, Verdict, BatchStatuses
  <1> QED BY <1>2, <1>3, <1>5, <1>6 DEF Good

LEMMA LeaveKeeps ==
  ASSUME TypeOK, NEW b \in Batches, Good(b), pc[b] = "leaving",
         NEW s, s \in {answer[b], "failed"}, Leave(b, s),
         UNCHANGED <<request, moved>>
  PROVE  Good(b)'
  <1>1. answer'[b] = "none" /\ answer[b] # "none"
    BY DEF TypeOK, Leave, Good, Ordered
  <1>2. CASE answer[b] = "raised"
    BY <1>1, <1>2, AbortsKeeps DEF Leave
  <1>3. CASE answer[b] # "raised"
    <2>1. s \in DatasetStatuses \ {"skipped"}
      <3>1. answer[b] \in (DatasetStatuses \ {"skipped"}) \cup {"none", "raised"}
        BY DEF TypeOK
      <3>2. answer[b] \in DatasetStatuses \ {"skipped"}
        BY <1>1, <1>3, <3>1
      <3>3. "failed" \in DatasetStatuses \ {"skipped"}
        BY DEF DatasetStatuses
      <3> QED BY <3>2, <3>3
    <2>2. at[b] \in Remaining(b) /\ (\A e \in Remaining(b) : at[b] <= e) /\ ~stop[b]
      BY DEF Good, Ordered
    <2>3. at[b] \in moved[b] => s \in {"success", "failed"}
      BY <2>2 DEF Remaining, Good, Moving
    <2>4. s = "dry_run" => request[b].dry_run
      BY DEF Good, Moving
    <2>5. Record(b, at[b], s) /\ UNCHANGED status
      BY <1>3 DEF Leave
    <2>6. s \in DatasetStatuses /\ (s = "skipped" <=> stop[b])
      BY <2>1, <2>2
    <2> QED BY <1>1, <2>2, <2>3, <2>4, <2>5, <2>6, RecordKeeps
  <1> QED BY <1>2, <1>3

LEMMA RunKeeps ==
  ASSUME TypeOK, NEW b \in Batches, Good(b), Run(b)
  PROVE  Good(b)'
  <1>1. CASE Aborts(b)
    BY <1>1, AbortsKeeps DEF Aborts
  <1>2. CASE Skip(b)
    <2>1. PICK d \in Datasets : Turn(b, d) /\ Record(b, d, "skipped")
      BY <1>2 DEF Skip
    <2>2. /\ pc[b] = "next" /\ d \in Remaining(b) /\ \A e \in Remaining(b) : d <= e
      BY <2>1 DEF Turn
    <2>3. d \notin moved[b]
      BY <2>2 DEF Remaining, Good, Moving
    <2>4. "skipped" \in DatasetStatuses
      BY DEF DatasetStatuses
    <2>5. stop[b] /\ UNCHANGED <<request, answer, status, moved>>
      BY <1>2 DEF Skip
    <2> QED BY <2>1, <2>2, <2>3, <2>4, <2>5, RecordKeeps
  <1>3. CASE EnterDry(b)
    BY <1>3, EnterKeeps DEF EnterDry
  <1>4. CASE Acquire(b)
    BY <1>4, EnterKeeps DEF Acquire
  <1>5. CASE Unlocked(b)
    <2>1. PICK d \in Datasets : Turn(b, d) /\ Record(b, d, "failed")
      BY <1>5 DEF Unlocked
    <2>2. /\ pc[b] = "next" /\ d \in Remaining(b) /\ \A e \in Remaining(b) : d <= e
      BY <2>1 DEF Turn
    <2>4. "failed" \in DatasetStatuses
      BY DEF DatasetStatuses
    <2>5. ~stop[b] /\ UNCHANGED <<request, answer, status, moved>>
      BY <1>5 DEF Unlocked
    <2> QED BY <2>1, <2>2, <2>4, <2>5, RecordKeeps
  <1>6. CASE EndsUnpublished(b)
    <2>1. PICK s \in {"failed", "full_refresh_required",
                      IF request[b].dry_run THEN "dry_run" ELSE "success"} : Answers(b, s)
      BY <1>6 DEF EndsUnpublished
    <2>2. /\ s # "none"
          /\ s = "dry_run" => request[b].dry_run
          /\ s = "success" => ~request[b].dry_run
      OBVIOUS
    <2>3. pc[b] = "running" /\ UNCHANGED moved
      BY <1>6 DEF EndsUnpublished
    <2> QED BY <2>1, <2>2, <2>3, AnswersKeeps
  <1>7. CASE EndsUnsafe(b)
    <2>1. pc[b] = "running" /\ Answers(b, "raised") /\ UNCHANGED moved
      BY <1>7 DEF EndsUnsafe
    <2> QED BY <2>1, AnswersKeeps
  <1>8. CASE BeginPublication(b)
    <2>1. /\ pc[b] = "running" /\ pc'[b] = "publishing" /\ ~request[b].dry_run
          /\ UNCHANGED <<request, at, answer, outcome, stop, status, moved>>
      BY <1>8 DEF BeginPublication, TypeOK
    <2>2. /\ \A S : With(b, S)' = With(b, S)
          /\ Remaining(b)' = Remaining(b)
          /\ Stopping(b)'
      BY <2>1, ResultsStand DEF Good
    <2>3. Ordered(b)'
      BY <2>1, <2>2 DEF Good, Ordered
    <2>4. Moving(b)'
      BY <2>1, <2>2 DEF Good, Moving
    <2>5. Verdict(b)'
      BY <2>1 DEF Good, Verdict, BatchStatuses
    <2> QED BY <2>2, <2>3, <2>4, <2>5 DEF Good
  <1>9. CASE Publish(b)
    <2>1. pc[b] = "publishing"
      BY <1>9 DEF Publish
    <2>2. CASE Answers(b, "failed") /\ UNCHANGED moved
      BY <2>1, <2>2, AnswersKeeps
    <2>3. CASE /\ \E s \in {"success", "failed"} : Answers(b, s)
               /\ moved' = [moved EXCEPT ![b] = @ \cup {at[b]}]
      <3>1. PICK s \in {"success", "failed"} : Answers(b, s)
        BY <2>3
      <3>2. s # "none" /\ s # "dry_run" /\ ~request[b].dry_run
        BY <2>1 DEF Good, Ordered
      <3> QED BY <2>1, <2>3, <3>1, <3>2, AnswersKeeps
    <2> QED BY <1>9, <2>2, <2>3 DEF Publish
  <1>10. CASE Release(b) \/ ReleaseFails(b)
    <2>1. PICK s \in {answer[b], "failed"} : Leave(b, s)
      BY <1>10 DEF Release, ReleaseFails
    <2>2. pc[b] = "leaving" /\ UNCHANGED <<request, moved>>
      BY <1>10 DEF Release, ReleaseFails
    <2> QED BY <2>1, <2>2, LeaveKeeps
  <1>11. CASE Finish(b)
    <2>1. /\ pc[b] = "next" /\ pc'[b] = "ended" /\ Remaining(b) = {}
          /\ status'[b] = DerivedStatus(b)
          /\ UNCHANGED <<request, at, answer, outcome, stop, moved>>
      BY <1>11 DEF Finish, TypeOK
    <2>2. /\ \A S : With(b, S)' = With(b, S)
          /\ Remaining(b)' = Remaining(b)
          /\ DerivedStatus(b)' = DerivedStatus(b)
          /\ Stopping(b)'
      BY <2>1, ResultsStand DEF Good
    <2>3. Ordered(b)'
      BY <2>1, <2>2 DEF Good, Ordered
    <2>4. Moving(b)'
      BY <2>1, <2>2 DEF Good, Moving
    <2>5. Verdict(b)'
      BY <2>1, <2>2 DEF Verdict
    <2> QED BY <2>2, <2>3, <2>4, <2>5 DEF Good
  <1> QED BY <1>1, <1>2, <1>3, <1>4, <1>5, <1>6, <1>7, <1>8, <1>9, <1>10, <1>11 DEF Run

-----------------------------------------------------------------------------
(* All of them                                                             *)

LEMMA OthersStand ==
  ASSUME TypeOK, NEW b \in Batches, Run(b) \/ Revoke(b),
         NEW c \in Batches, c # b
  PROVE  UNCHANGED Standing(c)
  <1> USE DEF Standing
  <1>1. CASE Aborts(b)
    BY <1>1 DEF Aborts, Raise, TypeOK
  <1>2. CASE Skip(b)
    BY <1>2 DEF Skip, Record, TypeOK
  <1>3. CASE EnterDry(b)
    BY <1>3 DEF EnterDry, Enter, TypeOK
  <1>4. CASE Acquire(b)
    BY <1>4 DEF Acquire, Enter, TypeOK
  <1>5. CASE Unlocked(b)
    BY <1>5 DEF Unlocked, Record, TypeOK
  <1>6. CASE EndsUnpublished(b)
    BY <1>6 DEF EndsUnpublished, Answers, TypeOK
  <1>7. CASE EndsUnsafe(b)
    BY <1>7 DEF EndsUnsafe, Answers, TypeOK
  <1>8. CASE BeginPublication(b)
    BY <1>8 DEF BeginPublication, TypeOK
  <1>9. CASE Publish(b)
    BY <1>9 DEF Publish, Answers, TypeOK
  <1>10. CASE Release(b) \/ ReleaseFails(b)
    BY <1>10 DEF Release, ReleaseFails, Leave, Raise, Record, TypeOK
  <1>11. CASE Finish(b)
    BY <1>11 DEF Finish, TypeOK
  <1>12. CASE Revoke(b)
    BY <1>12 DEF Revoke, TypeOK
  <1> QED BY <1>1, <1>2, <1>3, <1>4, <1>5, <1>6, <1>7, <1>8, <1>9, <1>10, <1>11, <1>12 DEF Run

LEMMA RevokeStands ==
  ASSUME NEW b \in Batches, Revoke(b)
  PROVE  UNCHANGED Standing(b)
  BY DEF Revoke, Standing

\* The keys are accounted for when the batches at work stay where they are.
LEMMA KeysStay ==
  ASSUME KeysAccounted, Working' = Working, UNCHANGED <<held, leaked>>,
         \A b \in Working : at'[b] = at[b]
  PROVE  KeysAccounted'
  <1>1. {at'[b] : b \in Working'} = {at[b] : b \in Working}
    OBVIOUS
  <1>2. held' = leaked' \cup {at'[b] : b \in Working'}
    BY <1>1 DEF KeysAccounted
  <1> QED BY <1>2 DEF KeysAccounted

LEMMA KeysStep ==
  ASSUME TypeOK, KeysAccounted, NEW b \in Batches, Good(b), Run(b) \/ Revoke(b)
  PROVE  KeysAccounted'
  <1>a. \A c \in Batches : c # b => /\ at'[c] = at[c]
                                    /\ (c \in Working' <=> c \in Working)
    BY OthersStand DEF Standing, Working
  <1>b. Working \subseteq Batches /\ Working' \subseteq Batches
    BY DEF Working
  <1>1. ASSUME b \in Working' <=> b \in Working,
               b \in Working => at'[b] = at[b], UNCHANGED <<held, leaked>>
        PROVE  KeysAccounted'
    <2>1. Working' = Working
      BY <1>1, <1>a, <1>b
    <2>2. \A c \in Working : at'[c] = at[c]
      BY <1>1, <1>a, <1>b
    <2> QED BY <1>1, <2>1, <2>2, KeysStay
  <1>2. CASE Aborts(b)
    BY <1>1, <1>2 DEF Aborts, Raise, Working, TypeOK
  <1>3. CASE Skip(b)
    BY <1>1, <1>3 DEF Skip, Record, Turn, Working, TypeOK
  <1>4. CASE EnterDry(b)
    BY <1>1, <1>4 DEF EnterDry, Enter, Turn, Working, TypeOK
  <1>5. CASE Acquire(b)
    <2>1. PICK d \in Datasets \ held : /\ Turn(b, d) /\ Enter(b, d)
                                       /\ held' = held \cup {d}
      BY <1>5 DEF Acquire
    <2>2. /\ at'[b] = d /\ b \notin Working /\ b \in Working'
          /\ leaked' = leaked
      BY <1>5, <2>1 DEF Acquire, Enter, Turn, Working, TypeOK
    <2>3. /\ \A c \in Working : c # b /\ at'[c] = at[c] /\ at[c] # d
          /\ Working' = Working \cup {b}
          /\ d \notin leaked
      BY <1>a, <1>b, <2>1, <2>2 DEF KeysAccounted
    <2>4. {at'[c] : c \in Working'} = {at[c] : c \in Working} \cup {d}
      BY <2>2, <2>3
    <2>5. held' = leaked' \cup {at'[c] : c \in Working'}
      BY <2>1, <2>2, <2>4 DEF KeysAccounted
    <2>6. \A x, y \in Working' : x # y => at'[x] # at'[y]
      BY <2>2, <2>3 DEF KeysAccounted
    <2>7. \A x \in Working' : at'[x] \notin leaked'
      BY <2>2, <2>3 DEF KeysAccounted
    <2> QED BY <2>5, <2>6, <2>7 DEF KeysAccounted
  <1>6. CASE Unlocked(b)
    BY <1>1, <1>6 DEF Unlocked, Record, Turn, Working, TypeOK
  <1>7. CASE EndsUnpublished(b) \/ EndsUnsafe(b)
    BY <1>1, <1>7 DEF EndsUnpublished, EndsUnsafe, Answers, Working, TypeOK
  <1>8. CASE BeginPublication(b)
    BY <1>1, <1>8 DEF BeginPublication, Working, TypeOK
  <1>9. CASE Publish(b)
    BY <1>1, <1>9 DEF Publish, Answers, Working, TypeOK
  <1>10. CASE Release(b) \/ ReleaseFails(b)
    <2>1. pc[b] = "leaving" /\ request' = request
      BY <1>10 DEF Release, ReleaseFails
    <2>2. pc'[b] \in {"next", "ended"}
      BY <1>10 DEF Release, ReleaseFails, Leave, Raise, Record, TypeOK
    <2>3. b \notin Working'
      BY <2>2 DEF Working
    <2>4. CASE request[b].dry_run
      <3>1. b \notin Working /\ UNCHANGED <<held, leaked>>
        BY <1>10, <2>4 DEF Release, ReleaseFails, Working
      <3> QED BY <1>1, <2>3, <3>1
    <2>5. CASE ~request[b].dry_run
      <3>1. b \in Working
        BY <2>1, <2>5 DEF Working
      <3>2. Working' = Working \ {b}
        BY <1>a, <1>b, <2>3, <3>1
      <3>3. \A c \in Working' : at'[c] = at[c] /\ at[c] # at[b]
        BY <1>a, <1>b, <3>1, <3>2 DEF KeysAccounted
      <3>4. {at'[c] : c \in Working'} = {at[c] : c \in Working} \ {at[b]}
        BY <3>1, <3>2, <3>3
      <3>5. at[b] \in held /\ at[b] \notin leaked
        BY <3>1 DEF KeysAccounted
      <3>6. \/ held' = held \ {at[b]} /\ leaked' = leaked
            \/ held' = held /\ leaked' = leaked \cup {at[b]}
        BY <1>10, <2>5 DEF Release, ReleaseFails
      <3>7. held' = leaked' \cup {at'[c] : c \in Working'}
        <4>1. held = leaked \cup {at[c] : c \in Working}
          BY DEF KeysAccounted
        <4> QED BY <3>4, <3>5, <3>6, <4>1
      <3>8. \A x, y \in Working' : x # y => at'[x] # at'[y]
        BY <3>2, <3>3 DEF KeysAccounted
      <3>9. \A x \in Working' : at'[x] \notin leaked'
        BY <3>2, <3>3, <3>6 DEF KeysAccounted
      <3> QED BY <3>7, <3>8, <3>9 DEF KeysAccounted
    <2> QED BY <2>4, <2>5
  <1>11. CASE Finish(b)
    BY <1>1, <1>11 DEF Finish, Working, TypeOK
  <1>12. CASE Revoke(b)
    BY <1>1, <1>12 DEF Revoke, Working
  <1> QED BY <1>2, <1>3, <1>4, <1>5, <1>6, <1>7, <1>8, <1>9, <1>10, <1>11, <1>12 DEF Run

LEMMA NextInv == IInv /\ [Next]_vars => IInv'
  <1> SUFFICES ASSUME IInv, [Next]_vars PROVE IInv'
    OBVIOUS
  <1>1. TypeOK /\ KeysAccounted /\ \A c \in Batches : Good(c)
    BY DEF IInv
  <1>2. TypeOK'
    BY StepTypes
  <1>3. ASSUME NEW b \in Batches, Run(b) \/ Revoke(b) PROVE IInv'
    <2>1. KeysAccounted'
      BY <1>1, <1>3, KeysStep
    <2>2. ASSUME NEW c \in Batches PROVE Good(c)'
      <3>1. CASE c # b
        BY <1>1, <1>3, <3>1, OthersStand, GoodStays
      <3>2. CASE c = b /\ Run(b)
        BY <1>1, <3>2, RunKeeps
      <3>3. CASE c = b /\ Revoke(b)
        BY <1>1, <3>3, RevokeStands, GoodStays
      <3> QED BY <1>3, <3>1, <3>2, <3>3
    <2> QED BY <1>2, <2>1, <2>2 DEF IInv
  <1>4. CASE UNCHANGED vars
    <2>1. \A c \in Batches : UNCHANGED Standing(c)
      BY <1>4 DEF vars, Standing
    <2>2. \A c \in Batches : Good(c)'
      BY <1>1, <2>1, GoodStays
    <2>3. Working' = Working /\ UNCHANGED <<held, leaked, at>>
      BY <1>4 DEF vars, Working
    <2>4. KeysAccounted'
      BY <1>1, <2>3, KeysStay
    <2> QED BY <1>2, <2>2, <2>4 DEF IInv
  <1> QED BY <1>3, <1>4 DEF Next

-----------------------------------------------------------------------------
(* The theorems                                                            *)

\* The invariant all the others are read off: each batch's results are a good
\* record of what it did, and the lock manager's keys are accounted for.
THEOREM Invariant == Spec => []IInv
  <1> QED BY InitInv, NextInv, PTL DEF Spec

\* Every variable keeps its type.
THEOREM TypeCorrect == Spec => []TypeOK
  <1>1. IInv => TypeOK
    BY DEF IInv
  <1> QED BY <1>1, Invariant, PTL

\* However many batches share the lock manager, its keys are those of the
\* datasets they are writing, one writer each, and those it failed to release.
THEOREM KeysAlwaysAccounted == Spec => []KeysAccounted
  <1>1. IInv => KeysAccounted
    BY DEF IInv
  <1> QED BY <1>1, Invariant, PTL

\* What a batch reports, and the job built on it, agrees with what it published.
THEOREM ReportsAreTrue == Spec => []ReportTrue
  <1>1. ASSUME IInv, NEW b \in Batches, status[b] \in BatchStatuses
        PROVE  /\ moved[b] \subseteq With(b, {"success", "failed"})
               /\ request[b].dry_run => moved[b] = {}
               /\ status[b] = "success" => With(b, {"success"}) = request[b].datasets
               /\ status[b] = "failed" => moved[b] \subseteq With(b, {"failed"})
               /\ status[b] \in {"dry_run", "full_refresh_required"} => moved[b] = {}
    <2>1. /\ Remaining(b) = {} /\ status[b] = DerivedStatus(b) /\ pc[b] = "ended"
          /\ moved[b] \subseteq request[b].datasets
          /\ request[b].dry_run => moved[b] = {}
          /\ \A d \in moved[b] : outcome[b][d] \in {"success", "failed"}
          /\ With(b, {"dry_run"}) # {} => request[b].dry_run
      BY <1>1 DEF IInv, Good, Moving, Verdict, BatchStatuses
    <2>2. moved[b] \subseteq With(b, {"success", "failed"})
      BY <2>1 DEF With
    <2>3. \A d \in request[b].datasets : outcome[b][d] \in DatasetStatuses
      BY <1>1, <2>1 DEF IInv, TypeOK, Requests, Remaining
    <2>4. ASSUME status[b] = "success"
          PROVE  With(b, {"success"}) = request[b].datasets
      <3>1. /\ ~request[b].dry_run
            /\ With(b, {"failed", "skipped"}) \cup With(b, {"full_refresh_required"}) = {}
        BY <2>1, <2>4 DEF DerivedStatus
      <3> QED BY <2>1, <2>3, <3>1 DEF With, DatasetStatuses
    <2>5. ASSUME status[b] = "failed" PROVE moved[b] \subseteq With(b, {"failed"})
      <3>1. With(b, {"success", "dry_run"}) = {}
        BY <2>1, <2>5 DEF DerivedStatus
      <3> QED BY <2>1, <3>1 DEF With
    <2>6. ASSUME status[b] = "full_refresh_required" PROVE moved[b] = {}
      <3>1. With(b, {"full_refresh_required"}) = request[b].datasets
        BY <2>1, <2>6 DEF DerivedStatus
      <3> QED BY <2>1, <3>1 DEF With
    <2>7. ASSUME status[b] = "dry_run" PROVE moved[b] = {}
      BY <2>1, <2>7 DEF DerivedStatus
    <2> QED BY <2>1, <2>2, <2>4, <2>5, <2>6, <2>7
  <1>2. IInv => ReportTrue
    BY <1>1 DEF ReportTrue
  <1> QED BY <1>2, Invariant, PTL

\* stop_on_failure leaves everything after the first failure alone, and
\* continue_on_failure tries everything.
THEOREM StopsAlways == Spec => []StopsAtFailure
  <1>1. ASSUME IInv, NEW b \in Batches, request[b].failure_policy = "stop_on_failure",
               NEW d \in With(b, {"failed"}), NEW e \in request[b].datasets, d < e
        PROVE  outcome[b][e] \in {"none", "skipped"} /\ e \notin moved[b]
    <2>1. outcome[b][e] \in {"none", "skipped"}
      BY <1>1 DEF IInv, Good, Stopping
    <2>2. CASE e \in moved[b]
      <3>1. pc[b] = "leaving"
        BY <1>1, <2>1, <2>2 DEF IInv, Good, Moving
      <3>2. ~stop[b]
        BY <1>1, <3>1 DEF IInv, Good, Ordered
      <3>3. With(b, {"failed", "skipped"}) = {}
        BY <1>1, <3>2 DEF IInv, Good, Stopping
      <3> QED BY <1>1, <3>3 DEF With
    <2> QED BY <2>1, <2>2
  <1>2. IInv => StopsAtFailure
    BY <1>1 DEF StopsAtFailure, IInv, Good, Stopping
  <1> QED BY <1>2, Invariant, PTL

-----------------------------------------------------------------------------
(* Records                                                                 *)

\* The batches that make records are those of EODBatch.
THEOREM RecordsFollow == RecordSpec => Spec
  <1>1. RecordInit => Init
    BY DEF RecordInit
  <1>2. [RecordNext]_<<vars, told>> => [Next]_vars
    <2>1. ASSUME NEW b \in Batches,
                 \/ Silent(b) \/ TellSkipped(b) \/ TellUnlocked(b)
                 \/ TellReleased(b) \/ TellReleaseFails(b) \/ TellFinished(b)
          PROVE  Run(b) \/ Revoke(b)
      BY <2>1 DEF Silent, TellSkipped, TellUnlocked, TellReleased,
                  TellReleaseFails, TellFinished, Run
    <2> QED BY <2>1 DEF RecordNext, Next
  <1> QED BY <1>1, <1>2, PTL DEF RecordSpec, Spec

\* A dataset whose result a step makes, and what it makes.
LEMMA Recorded ==
  ASSUME IInv, NEW b \in Batches, NEW s \in DatasetStatuses,
         \E d \in Datasets : Turn(b, d) /\ Record(b, d, s),
         UNCHANGED <<request, moved>>,
         NEW d \in Remaining(b) \ Remaining(b)'
  PROVE  /\ outcome'[b][d] = s
         /\ d \notin moved'[b]
  <1>1. PICK e \in Datasets : Turn(b, e) /\ Record(b, e, s)
    OBVIOUS
  <1>2. outcome \in [Batches -> [Datasets -> DatasetStatuses \cup {"none"}]]
    BY DEF IInv, TypeOK
  <1>3. /\ outcome'[b][e] = s
        /\ \A c \in Datasets : c # e => outcome'[b][c] = outcome[b][c]
    BY <1>1, <1>2 DEF Record
  <1>4. d \in request[b].datasets /\ outcome[b][d] = "none" /\ outcome'[b][d] # "none"
    BY DEF Remaining
  <1>5. request[b].datasets \subseteq Datasets
    BY DEF IInv, TypeOK, Requests
  <1>6. d = e
    BY <1>3, <1>4, <1>5
  <1>7. d \notin moved[b]
    <2>1. pc[b] = "next" /\ Moving(b)
      BY <1>1 DEF Turn, IInv, Good
    <2> QED BY <1>4, <2>1 DEF Moving
  <1> QED BY <1>3, <1>6, <1>7

\* A dataset that the batch did not come to has a record.
LEMMA UntouchedTold ==
  ASSUME IInv, NEW b \in Batches, TellSkipped(b) \/ TellUnlocked(b)
  PROVE  TellsTruly
  <1>1. CASE TellSkipped(b)
    <2>1. PICK d \in Remaining(b) \ Remaining(b)' : told' = SkippedResult(b, d)
      BY <1>1 DEF TellSkipped
    <2>2. outcome'[b][d] = "skipped" /\ d \notin moved'[b]
      <3>1. "skipped" \in DatasetStatuses
        BY DEF DatasetStatuses
      <3>2. /\ \E e \in Datasets : Turn(b, e) /\ Record(b, e, "skipped")
            /\ UNCHANGED <<request, moved>>
        BY <1>1 DEF TellSkipped, Skip
      <3> QED BY <3>1, <3>2, Recorded
    <2>3. told' = [kind |-> "dataset", batch |-> b, dataset |-> d,
                   status |-> "skipped", update |-> NoUpdate,
                   failure |-> Stopped, locked |-> FALSE]
      BY <2>1 DEF SkippedResult, DatasetResult, DatasetResultAccepted, Stopped,
                  NoUpdate, NoFailure
    <2> QED BY <2>2, <2>3 DEF TellsTruly, PublicationTold, NoUpdate, Stopped
  <1>2. CASE TellUnlocked(b)
    <2>1. PICK d, code :
            /\ d \in Remaining(b) \ Remaining(b)'
            /\ code \in {"lock_acquisition_failed", "lock_contract_violation",
                         "lock_unavailable"}
            /\ told' = FailedResult(b, d, LockFailure(code), NoUpdate)
      BY <1>2 DEF TellUnlocked
    <2>2. outcome'[b][d] = "failed" /\ d \notin moved'[b]
      <3>1. "failed" \in DatasetStatuses
        BY DEF DatasetStatuses
      <3>2. /\ \E e \in Datasets : Turn(b, e) /\ Record(b, e, "failed")
            /\ UNCHANGED <<request, moved>>
        BY <1>2 DEF TellUnlocked, Unlocked
      <3> QED BY <2>1, <3>1, <3>2, Recorded
    <2>3. told' = [kind |-> "dataset", batch |-> b, dataset |-> d,
                   status |-> "failed", update |-> NoUpdate,
                   failure |-> LockFailure(code), locked |-> ~request[b].dry_run]
      BY <2>1 DEF FailedResult, DatasetResult, DatasetResultAccepted, LockFailure,
                  NoFailure
    <2> QED BY <2>1, <2>2, <2>3 DEF TellsTruly, PublicationTold, NoUpdate, LockFailure
  <1> QED BY <1>1, <1>2

\* What the batch knows of the dataset it leaves, and what it records.
LEMMA Leaving ==
  ASSUME IInv, NEW b \in Batches, pc[b] = "leaving", answer[b] # "raised",
         NEW s, Leave(b, s), UNCHANGED <<request, moved>>
  PROVE  /\ outcome'[b][at[b]] = s
         /\ moved'[b] = moved[b]
         /\ answer[b] \in {"success", "dry_run", "full_refresh_required", "failed"}
         /\ at[b] \in moved[b] => answer[b] \in {"success", "failed"}
         /\ answer[b] = "dry_run" => request[b].dry_run
         /\ answer[b] = "success" => ~request[b].dry_run
         /\ request[b].dry_run \in BOOLEAN
  <1>1. /\ TypeOK /\ Ordered(b) /\ Moving(b)
    BY DEF IInv, Good
  <1>2. at[b] \in Datasets /\ outcome[b][at[b]] = "none"
    BY <1>1 DEF Ordered, Remaining, TypeOK, Requests
  <1>3. outcome'[b][at[b]] = s
    BY <1>1, <1>2 DEF Leave, Record, TypeOK
  <1>4. answer[b] \in {"success", "dry_run", "full_refresh_required", "failed"}
    BY <1>1 DEF TypeOK, DatasetStatuses, Ordered
  <1>5. at[b] \in moved[b] => answer[b] \in {"success", "failed"}
    BY <1>1, <1>2 DEF Moving
  <1>6. request[b].dry_run \in BOOLEAN
    BY <1>1 DEF TypeOK, Requests
  <1> QED BY <1>1, <1>3, <1>4, <1>5, <1>6 DEF Moving

\* The record of a dataset whose key was released is what the update answered.
LEMMA ReleasedTold ==
  ASSUME IInv, NEW b \in Batches, TellReleased(b)
  PROVE  TellsTruly
  <1>1. CASE answer[b] = "raised"
    BY <1>1 DEF TellReleased, Silence, TellsTruly
  <1>2. CASE answer[b] # "raised"
    <2>1. /\ pc[b] = "leaving" /\ Leave(b, answer[b]) /\ UNCHANGED <<request, moved>>
          /\ told' \in ExecutedResults(b)
      BY <1>2 DEF TellReleased, Release
    <2>2. /\ outcome'[b][at[b]] = answer[b] /\ moved'[b] = moved[b]
          /\ answer[b] \in {"success", "dry_run", "full_refresh_required", "failed"}
          /\ at[b] \in moved[b] => answer[b] \in {"success", "failed"}
          /\ answer[b] = "dry_run" => request[b].dry_run
          /\ answer[b] = "success" => ~request[b].dry_run
      BY <1>2, <2>1, Leaving
    <2>3. CASE answer[b] = "failed"
      <3>1. PICK failure \in CoordinatorFailures(b) :
              told' = FailedResult(b, at[b], failure, NoUpdate)
        BY <2>1, <2>3 DEF ExecutedResults
      <3>2. /\ failure # NoFailure
            /\ failure.code # "lock_release_failed"
            /\ at[b] \in moved[b] => /\ failure.code = "repository_contract_violation"
                                     /\ ~failure.retryable
        BY DEF CoordinatorFailures, NoFailure
      <3>3. told' = [kind |-> "dataset", batch |-> b, dataset |-> at[b],
                     status |-> "failed", update |-> NoUpdate,
                     failure |-> failure, locked |-> ~request[b].dry_run]
        BY <3>1, <3>2 DEF FailedResult, DatasetResult, DatasetResultAccepted
      <3> QED BY <2>2, <2>3, <3>2, <3>3 DEF TellsTruly, PublicationTold, NoUpdate
    <2>4. CASE answer[b] # "failed"
      <3> DEFINE update == UpdateResult(b)
      <3>1. /\ update.dry_run = request[b].dry_run
            /\ update.refresh = (answer[b] = "full_refresh_required")
            /\ update.published = (at[b] \in moved[b]) /\ update.present
        BY DEF UpdateResult
      <3>2. told' = DatasetResult(b, at[b], DatasetStatus(b, update), update,
                                  NoFailure, ~request[b].dry_run)
        BY <2>1, <2>4 DEF ExecutedResults
      <3> HIDE DEF update
      <3>3. DatasetStatus(b, update) = answer[b]
        BY <2>2, <2>4, <3>1 DEF DatasetStatus
      <3>4. told' = [kind |-> "dataset", batch |-> b, dataset |-> at[b],
                     status |-> answer[b], update |-> update,
                     failure |-> NoFailure, locked |-> ~request[b].dry_run]
        BY <2>2, <2>4, <3>1, <3>2, <3>3 DEF DatasetResult, DatasetResultAccepted
      <3> QED BY <2>2, <3>1, <3>4 DEF TellsTruly, PublicationTold, NoFailure
    <2> QED BY <2>3, <2>4
  <1> QED BY <1>1, <1>2

\* When its key was not released, the result of the update stays visible.
LEMMA ReleaseFailureTold ==
  ASSUME IInv, NEW b \in Batches, TellReleaseFails(b)
  PROVE  TellsTruly
  <1>1. CASE answer[b] = "raised"
    BY <1>1 DEF TellReleaseFails, Silence, TellsTruly
  <1>2. CASE answer[b] # "raised"
    <2>1. /\ pc[b] = "leaving" /\ Leave(b, "failed") /\ UNCHANGED <<request, moved>>
          /\ told' = ReleaseFailure(b)
      BY <1>2 DEF TellReleaseFails, ReleaseFails
    <2>2. outcome'[b][at[b]] = "failed" /\ moved'[b] = moved[b]
      BY <1>2, <2>1, Leaving
    <2>3. PICK update :
            /\ update = IF answer[b] = "failed" THEN NoUpdate ELSE UpdateResult(b)
            /\ told' = FailedResult(b, at[b], LockFailure("lock_release_failed"), update)
      BY <2>1 DEF ReleaseFailure
    <2>4. told' = [kind |-> "dataset", batch |-> b, dataset |-> at[b],
                   status |-> "failed", update |-> update,
                   failure |-> LockFailure("lock_release_failed"),
                   locked |-> ~request[b].dry_run]
      BY <2>3 DEF FailedResult, DatasetResult, DatasetResultAccepted, LockFailure,
                  NoFailure
    <2>5. /\ update.published => at[b] \in moved[b]
          /\ update.published \/ answer[b] = "failed" \/ at[b] \notin moved[b]
      BY <2>3 DEF NoUpdate, UpdateResult
    <2> QED BY <2>2, <2>4, <2>5 DEF TellsTruly, PublicationTold, LockFailure
  <1> QED BY <1>1, <1>2

\* The counts of a batch are those of its datasets.
LEMMA FinishedTold ==
  ASSUME IInv, NEW b \in Batches, TellFinished(b)
  PROVE  TellsTruly
  <1> DEFINE S == request[b].datasets
             good == With(b, {"success", "dry_run"})
             failed == With(b, {"failed"})
             skipped == With(b, {"skipped"})
             refresh == With(b, {"full_refresh_required"})
  <1>1. IsFiniteSet(S)
    <2>1. S \subseteq 1..NumDatasets
      BY DEF IInv, TypeOK, Requests, Datasets
    <2>2. IsFiniteSet(1..NumDatasets)
      BY BatchAssumption, FS_Interval
    <2> QED BY <2>1, <2>2, FS_Subset
  <1>2. \A d \in S : outcome[b][d] \in DatasetStatuses
    <2>1. Remaining(b) = {} /\ S \subseteq Datasets
      BY DEF TellFinished, Finish, IInv, TypeOK, Requests
    <2> QED BY <2>1 DEF Remaining, IInv, TypeOK
  <1>3. /\ S \ skipped = good \cup failed \cup refresh
        /\ good \cap failed = {} /\ (good \cup failed) \cap refresh = {}
        /\ good \subseteq S /\ failed \subseteq S /\ refresh \subseteq S
        /\ skipped \subseteq S
        /\ With(b, {"failed", "skipped"}) = failed \cup skipped
    BY <1>2 DEF With, DatasetStatuses
  <1>4. told' = [kind |-> "batch", batch |-> b, status |-> DerivedStatus(b),
                 requested |-> Cardinality(S),
                 attempted |-> Cardinality(S \ skipped),
                 success |-> Cardinality(good), failure |-> Cardinality(failed),
                 skipped |-> Cardinality(skipped),
                 refresh |-> Cardinality(refresh)]
    BY DEF TellFinished, BatchResult, Count
  <1>5. /\ DerivedStatus(b) \in {"success", "dry_run"} =>
             failed \cup skipped = {}
    BY <1>3 DEF DerivedStatus
  <1> HIDE DEF S, good, failed, skipped, refresh
  <1>6. /\ IsFiniteSet(good) /\ IsFiniteSet(failed) /\ IsFiniteSet(refresh)
        /\ IsFiniteSet(skipped) /\ IsFiniteSet(S \ skipped)
    BY <1>1, <1>3, FS_Subset, FS_Difference
  <1>7. /\ Cardinality(good) \in Nat /\ Cardinality(failed) \in Nat
        /\ Cardinality(refresh) \in Nat /\ Cardinality(skipped) \in Nat
        /\ Cardinality(S \ skipped) \in Nat /\ Cardinality(S) \in Nat
    BY <1>1, <1>6, FS_CardinalityType
  <1>8. Cardinality(S \ skipped) + Cardinality(skipped) = Cardinality(S)
    <2>1. Cardinality(S \ skipped) = Cardinality(S) - Cardinality(S \cap skipped)
      BY <1>1, FS_Difference
    <2>2. S \cap skipped = skipped
      BY <1>3
    <2>3. Cardinality(S \ skipped) = Cardinality(S) - Cardinality(skipped)
      BY <2>1, <2>2
    <2>4. \A x, y, z \in Nat : x = y - z => x + z = y
      OBVIOUS
    <2> QED BY <1>7, <2>3, <2>4
  <1>9. Cardinality(good) + Cardinality(failed) + Cardinality(refresh)
          = Cardinality(S \ skipped)
    <2>1. /\ IsFiniteSet(good \cup failed)
          /\ Cardinality(good \cup failed) = Cardinality(good) + Cardinality(failed)
                                               - Cardinality(good \cap failed)
      BY <1>6, FS_Union
    <2>2. Cardinality((good \cup failed) \cup refresh) =
            Cardinality(good \cup failed) + Cardinality(refresh)
              - Cardinality((good \cup failed) \cap refresh)
      BY <1>6, <2>1, FS_Union
    <2>3. Cardinality({}) = 0
      BY FS_EmptySet
    <2>4. /\ Cardinality(good \cap failed) = 0
          /\ Cardinality((good \cup failed) \cap refresh) = 0
      BY <1>3, <2>3
    <2>5. Cardinality(S \ skipped) =
            (Cardinality(good) + Cardinality(failed) - 0) + Cardinality(refresh) - 0
      BY <1>3, <2>1, <2>2, <2>4
    <2>6. \A x, y, z \in Nat : (x + y - 0) + z - 0 = x + y + z
      OBVIOUS
    <2> QED BY <1>7, <2>5, <2>6
  <1>10. ASSUME DerivedStatus(b) \in {"success", "dry_run"}, Cardinality(refresh) = 0
         PROVE  Cardinality(good) = Cardinality(S)
    <2>1. refresh = {}
      BY <1>6, <1>10, FS_EmptySet
    <2>2. S = good
      BY <1>3, <1>5, <1>10, <2>1
    <2> QED BY <2>2
  <1> QED BY <1>4, <1>8, <1>9, <1>10 DEF TellsTruly

\* Every dataset gets the record of what happened to it, for any batches and
\* datasets, whatever fails.
THEOREM RecordsAreTrue == RecordSpec => DatasetsToldTruly
  <1>1. IInv /\ [RecordNext]_<<vars, told>> => [TellsTruly]_<<vars, told>>
    <2> SUFFICES ASSUME IInv, NEW b \in Batches,
                        \/ Silent(b) \/ TellSkipped(b) \/ TellUnlocked(b)
                        \/ TellReleased(b) \/ TellReleaseFails(b) \/ TellFinished(b)
                 PROVE  TellsTruly
      BY DEF RecordNext
    <2>1. Silent(b) => TellsTruly
      BY DEF Silent, Silence, TellsTruly
    <2> QED BY <2>1, UntouchedTold, ReleasedTold, ReleaseFailureTold, FinishedTold
  <1> QED BY <1>1, RecordsFollow, Invariant, PTL DEF RecordSpec, DatasetsToldTruly
=============================================================================
