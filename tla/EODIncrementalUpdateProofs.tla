---------------------- MODULE EODIncrementalUpdateProofs ----------------------
(***************************************************************************)
(* Proofs about EODIncrementalUpdate and EODUpdateRecords, for any dates,  *)
(* calendars, evidence and policies.                                       *)
(*                                                                         *)
(* PlanFacts says what a plan that fetches promises; everything else       *)
(* follows from it and from what Publishable checks.                       *)
(***************************************************************************)
EXTENDS EODUpdateRecords, FiniteSetTheorems, TLAPS

USE CalendarAssumption, BarsAssumption DEF MaybeBar

-----------------------------------------------------------------------------
(* Planning                                                                *)

\* The least and the greatest of a set of days are in it and bound it.
LEMMA MinMax ==
  ASSUME NEW S \in SUBSET Days, S # {}
  PROVE  /\ Min(S) \in S /\ \A d \in S : Min(S) <= d
         /\ Max(S) \in S /\ \A d \in S : d <= Max(S)
  <1>1. PICK lo \in S, hi \in S : \A d \in S : lo =< d /\ hi >= d
    BY DaysAssumption
  <1>2. Min(S) \in S /\ \A d \in S : Min(S) =< d
    BY <1>1 DEF Min
  <1>3. Max(S) \in S /\ \A d \in S : Max(S) >= d
    BY <1>1 DEF Max
  <1> QED BY <1>2, <1>3

\* An overlap starts at a day that is expected, whatever is stored.
LEMMA OverlapStartExpected ==
  ASSUME NEW stored \in SUBSET Days, stored # {},
         NEW expected \in SUBSET Days, expected # {},
         NEW overlap \in Nat \ {0}
  PROVE  OverlapStart(stored, expected, overlap) \in expected
  <1> DEFINE existing == {d \in expected : d <= Max(stored)}
             tail == {d \in existing :
                        Cardinality({e \in existing : e > d}) < overlap}
  <1>1. CASE existing = {}
    BY <1>1, MinMax DEF OverlapStart
  <1>2. CASE existing # {}
    <2>1. existing \in SUBSET Days
      OBVIOUS
    <2>2. PICK m \in existing : \A e \in existing : e <= m
      <3> HIDE DEF existing
      <3> QED BY <1>2, <2>1, MinMax
    <2>3. m \in tail
      <3> HIDE DEF existing
      <3>1. \A e \in existing : ~(e > m)
        BY <2>1, <2>2
      <3>2. {e \in existing : e > m} = {}
        BY <3>1
      <3> QED BY <3>2, FS_EmptySet
    <2>4. tail \in SUBSET Days /\ tail \subseteq expected
      OBVIOUS
    <2>5. OverlapStart(stored, expected, overlap) = Min(tail)
      BY <1>2 DEF OverlapStart
    <2> HIDE DEF tail
    <2>6. Min(tail) \in tail
      BY <2>3, <2>4, MinMax
    <2> QED BY <2>4, <2>5, <2>6
  <1> QED BY <1>1, <1>2

\* What holds of a plan of any status with an effective range.
LEMMA EffectiveFacts ==
  ASSUME NEW expected \in SUBSET Days, expected # {}
  PROVE  /\ Effective(expected) \in Ranges
         /\ Effective(expected).first \in expected
         /\ Effective(expected).last \in expected
         /\ \A d \in expected : Contains(Effective(expected), d)
         /\ Effective(expected).first = Min(expected)
         /\ Effective(expected).last = Max(expected)
  BY MinMax DEF Effective, Ranges, Contains

\* The planner's statuses, and what each says of the stored days.
LEMMA StatusFacts ==
  ASSUME NEW stored \in SUBSET Days, NEW A \in SUBSET TradingDays,
         NEW trading \in SUBSET TradingDays, NEW policy \in Policies,
         NEW status, status = Status(stored, A, trading, policy),
         NEW expected, expected = trading \ A
  PROVE  /\ status \in PlanStatuses
         /\ status \in FetchStatuses \cup {"full_refresh_required"} => expected # {}
         /\ status = "initial_import" => stored = {}
         /\ status = "full_refresh_required" => stored # {}
         /\ status \in {"incremental", "overlap_refresh"} =>
              /\ stored # {}
              /\ ~LeftGap(stored, Effective(expected))
              /\ ~(Max(stored) > Effective(expected).last)
              /\ Max(stored) # Effective(expected).last
         /\ status = "overlap_refresh" => policy.overlap \in Nat \ {0}
  <1> DEFINE effective == Effective(expected)
  <1>1. /\ policy.strategy \in {"append_only", "overlap_window",
                                "full_refresh_required"}
        /\ policy.strategy = "overlap_window" => policy.overlap \in Nat \ {0}
    BY DEF Policies
  <1>2. /\ StatusOf(policy.strategy) \in {"incremental", "overlap_refresh",
                                          "full_refresh_required"}
        /\ StatusOf(policy.strategy) = "overlap_refresh" =>
             policy.strategy = "overlap_window"
    BY <1>1 DEF StatusOf
  <1>3. status =
          IF trading = {} THEN "no_trading_days"
          ELSE IF policy.strategy = "append_only" /\ Adjusted THEN "invalid"
          ELSE IF expected = {} THEN "no_expected_observations"
          ELSE IF stored = {} THEN "initial_import"
          ELSE IF ~EndsExpected(stored, A) THEN "invalid"
          ELSE IF Max(stored) > effective.last THEN "invalid"
          ELSE IF LeftGap(stored, effective) THEN "full_refresh_required"
          ELSE IF Max(stored) = effective.last THEN "already_current"
          ELSE StatusOf(policy.strategy)
    BY DEF Status
  <1> HIDE DEF effective
  <1>4. CASE \/ trading = {}
             \/ policy.strategy = "append_only" /\ Adjusted
             \/ expected = {}
    BY <1>3, <1>4 DEF PlanStatuses, FetchStatuses
  <1>5. CASE /\ ~(policy.strategy = "append_only" /\ Adjusted)
             /\ trading # {} /\ expected # {} /\ stored = {}
    <2>1. status = "initial_import"
      BY <1>3, <1>5
    <2> QED BY <1>5, <2>1 DEF PlanStatuses, FetchStatuses
  <1>6. CASE /\ ~(policy.strategy = "append_only" /\ Adjusted)
             /\ trading # {} /\ expected # {} /\ stored # {}
    <2>1. status = IF ~EndsExpected(stored, A) THEN "invalid"
                   ELSE IF Max(stored) > effective.last THEN "invalid"
                   ELSE IF LeftGap(stored, effective) THEN "full_refresh_required"
                   ELSE IF Max(stored) = effective.last THEN "already_current"
                   ELSE StatusOf(policy.strategy)
      BY <1>3, <1>6
    <2>2. CASE \/ ~EndsExpected(stored, A)
               \/ Max(stored) > effective.last
               \/ LeftGap(stored, effective)
               \/ Max(stored) = effective.last
      <3>1. status \in {"invalid", "full_refresh_required", "already_current"}
        BY <2>1, <2>2
      <3> QED BY <1>6, <3>1 DEF PlanStatuses, FetchStatuses
    <2>3. CASE ~ \/ ~EndsExpected(stored, A)
                 \/ Max(stored) > effective.last
                 \/ LeftGap(stored, effective)
                 \/ Max(stored) = effective.last
      <3>1. status = StatusOf(policy.strategy)
        BY <2>1, <2>3
      <3> QED BY <1>1, <1>2, <1>6, <2>3, <3>1 DEF PlanStatuses, FetchStatuses, effective
    <2> QED BY <2>2, <2>3
  <1> QED BY <1>4, <1>5, <1>6

\* What a plan that lets a call publish promises: its ranges, and where the
\* stored days are.
PlanSound(plan, stored, A) ==
  /\ plan \in Plans
  /\ plan.effective \in Ranges
  /\ plan.effective.first \in TradingDays \ A
  /\ plan.effective.last \in TradingDays \ A
  /\ plan.status \in FetchStatuses =>
       /\ plan.request \in Ranges
       /\ plan.request.last = plan.effective.last
       /\ plan.effective.first <= plan.request.first
  /\ plan.status = "initial_import" =>
       stored = {} /\ plan.request = plan.effective
  /\ plan.status \in {"incremental", "overlap_refresh"} => stored # {}
  /\ plan.status = "incremental" => \A d \in stored : d < plan.request.first

\* The planner keeps the promise.
LEMMA PlanFacts ==
  ASSUME NEW stored \in SUBSET Days, NEW A \in SUBSET TradingDays,
         NEW r \in Ranges, NEW policy \in Policies,
         NEW plan, plan = Plan(stored, A, r, policy),
         plan.status \in FetchStatuses \cup {"full_refresh_required"}
  PROVE  PlanSound(plan, stored, A)
  <1> DEFINE trading == Within(TradingDays, r)
             expected == trading \ A
             effective == Effective(expected)
             status == Status(stored, A, trading, policy)
             start == RequestStart(status, stored, expected, policy.overlap)
  <1>1. /\ trading \in SUBSET TradingDays
        /\ expected \in SUBSET Days /\ expected \subseteq TradingDays \ A
    BY DEF Within
  <1>2. /\ plan.status = status
        /\ plan.effective = IF expected = {} THEN NoRange ELSE effective
        /\ plan.request = IF status \in FetchStatuses
                          THEN [first |-> start, last |-> Max(expected)]
                          ELSE NoRange
        /\ plan = [status |-> plan.status, effective |-> plan.effective,
                   request |-> plan.request]
    <2> HIDE DEF status, start, effective
    <2> QED BY DEF Plan, status, start, effective
  <1>3. /\ status \in PlanStatuses /\ expected # {}
        /\ status = "initial_import" => stored = {}
        /\ status = "full_refresh_required" => stored # {}
        /\ status \in {"incremental", "overlap_refresh"} =>
             /\ stored # {}
             /\ ~LeftGap(stored, effective)
             /\ ~(Max(stored) > effective.last) /\ Max(stored) # effective.last
        /\ status = "overlap_refresh" => policy.overlap \in Nat \ {0}
    <2>1. /\ status = Status(stored, A, trading, policy)
          /\ expected = trading \ A
          /\ effective = Effective(expected)
      OBVIOUS
    <2> HIDE DEF trading, expected, effective, status
    <2> QED BY <1>1, <1>2, <2>1, StatusFacts
  <1>4. /\ effective \in Ranges
        /\ effective.first \in expected /\ effective.last \in expected
        /\ effective.first = Min(expected) /\ effective.last = Max(expected)
        /\ \A d \in expected : Contains(effective, d)
    BY <1>1, <1>3, EffectiveFacts
  <1>5. plan.effective = effective
    BY <1>2, <1>3
  <1>6. stored # {} =>
          /\ Min(stored) \in Days /\ Max(stored) \in Days
          /\ \A d \in stored : d <= Max(stored)
    BY MinMax
  <1> HIDE DEF trading, expected, effective, status, start
  <1>7. status = "incremental" =>
          start \in expected /\ Max(stored) < start
    <2> SUFFICES ASSUME status = "incremental" PROVE start \in expected /\ Max(stored) < start
      OBVIOUS
    <2> DEFINE later == {d \in expected : d > Max(stored)}
    <2>1. start = Min(later)
      BY DEF start, RequestStart, AppendStart
    <2>2. effective.last \in later
      <3>1. /\ effective.last \in Int /\ Max(stored) \in Int
            /\ ~(Max(stored) > effective.last) /\ Max(stored) # effective.last
        BY <1>1, <1>3, <1>4, <1>6
      <3>2. effective.last > Max(stored)
        BY <3>1
      <3> QED BY <1>4, <3>2
    <2>3. later \in SUBSET Days
      BY <1>1
    <2>4. Min(later) \in later
      <3> HIDE DEF later
      <3> QED BY <2>2, <2>3, MinMax
    <2> QED BY <1>1, <1>3, <1>6, <2>1, <2>4
  <1>8. status = "overlap_refresh" => start \in expected
    BY <1>1, <1>3, OverlapStartExpected DEF start, RequestStart
  <1>9. status = "initial_import" => start = Min(expected)
    BY DEF start, RequestStart
  <1>10. status \in FetchStatuses =>
           /\ plan.request = [first |-> start, last |-> Max(expected)]
           /\ start \in expected
    BY <1>2, <1>4, <1>7, <1>8, <1>9 DEF FetchStatuses
  <1>11. status \in FetchStatuses =>
           /\ plan.request \in Ranges
           /\ plan.request.first = start
           /\ plan.request.last = plan.effective.last
           /\ plan.effective.first <= plan.request.first
    <2> SUFFICES ASSUME status \in FetchStatuses
                 PROVE  /\ plan.request \in Ranges
                        /\ plan.request.first = start
                        /\ plan.request.last = plan.effective.last
                        /\ plan.effective.first <= plan.request.first
      OBVIOUS
    <2>1. /\ plan.request.first = start /\ plan.request.last = effective.last
          /\ plan.request = [first |-> start, last |-> effective.last]
      BY <1>4, <1>10
    <2>2. effective.first <= start /\ start <= effective.last
      BY <1>4, <1>10 DEF Contains
    <2>3. start \in Days /\ effective.last \in Days
      BY <1>1, <1>4, <1>10
    <2>4. plan.request \in [first : Days, last : Days]
      BY <2>1, <2>3
    <2> QED BY <1>5, <2>1, <2>2, <2>4 DEF Ranges
  <1>12. plan \in Plans
    BY <1>2, <1>3, <1>4, <1>5, <1>11 DEF Plans
  <1>13. plan.status = "initial_import" => plan.request = plan.effective
    BY <1>2, <1>4, <1>5, <1>9, <1>10 DEF FetchStatuses, Ranges
  <1>14. plan.status = "incremental" => \A d \in stored : d < plan.request.first
    BY <1>1, <1>2, <1>3, <1>6, <1>7, <1>11 DEF FetchStatuses
  <1> QED
    BY <1>1, <1>2, <1>3, <1>4, <1>5, <1>11, <1>12, <1>13, <1>14
    DEF PlanSound

-----------------------------------------------------------------------------
(* The inductive invariant                                                 *)

\* While the evidence is that of the last publication, what is stored is
\* expected, ends where its effective range ends, and begins no later.
LastSound ==
  last # NoPlan =>
    /\ last.effective \in Ranges
    /\ Stored(bars) # {}
    /\ Stored(bars) \subseteq Expected
    /\ Max(Stored(bars)) = last.effective.last
    /\ Min(Stored(bars)) <= last.effective.first

IInv ==
  /\ TypeOK
  /\ Stored(bars) \subseteq TradingDays
  /\ HolesExplained
  /\ LastSound

\* What is published has its last day, and begins no later than its range.
LEMMA PublishFacts ==
  ASSUME TypeOK, NEW plan, NEW candidate,
         plan.effective \in Ranges,
         plan.effective.first \in Expected, plan.effective.last \in Expected,
         Publishable(plan, candidate)
  PROVE  /\ Stored(candidate) # {}
         /\ Stored(candidate) \subseteq Expected
         /\ Within(Expected, plan.effective) \subseteq Stored(candidate)
         /\ Max(Stored(candidate)) = plan.effective.last
         /\ Min(Stored(candidate)) <= plan.effective.first
         /\ Stored(candidate) \in SUBSET Days
  <1> DEFINE S == Stored(candidate)
             first == plan.effective.first
             final == plan.effective.last
  <1>1. /\ \A d \in S : d <= final
        /\ S \subseteq Expected
        /\ Within(Expected, plan.effective) \subseteq S
    BY DEF Publishable
  <1>2. /\ first \in Int /\ final \in Int /\ first <= final
        /\ S \in SUBSET Days
    BY DEF Ranges, Stored
  <1>3. first \in S /\ final \in S
    BY <1>1, <1>2 DEF Within, Contains
  <1> HIDE DEF S, first, final
  <1>4. /\ Min(S) \in Days /\ Max(S) \in S /\ Max(S) \in Days
        /\ Min(S) <= first /\ final <= Max(S)
    BY <1>2, <1>3, MinMax
  <1>5. Max(S) = final
    <2>1. Max(S) <= final
      BY <1>1, <1>4
    <2>2. Max(S) \in Int
      BY <1>4
    <2> QED BY <1>2, <1>4, <2>1, <2>2
  <1> QED BY <1>1, <1>2, <1>3, <1>4, <1>5 DEF S, first, final

\* A call of Update publishes under a plan that fetches.
LEMMA UpdateFacts ==
  ASSUME IInv, NEW r \in Ranges, NEW policy \in Policies, Update(r, policy)
  PROVE  \E plan \in Plans :
           /\ plan.status \in FetchStatuses /\ last' = plan
           /\ plan.effective \in Ranges /\ plan.request \in Ranges
           /\ plan.request.last = plan.effective.last
           /\ plan.effective.first <= plan.request.first
           /\ plan.status = "initial_import" =>
                Stored(bars) = {} /\ plan.request = plan.effective
           /\ plan.status # "initial_import" => Stored(bars) # {}
           /\ plan.status = "incremental" =>
                \A d \in Stored(bars) : d < plan.request.first
           /\ bars' \in [Days -> MaybeBar]
           /\ \A d \in Days :
                ~Contains(plan.request, d) => bars'[d] = bars[d]
           /\ Publishable(plan, bars')
           /\ unfetched' = IF plan.status = "initial_import" THEN {}
                           ELSE (unfetched \cup Jumped(plan)) \ Stored(bars')
           /\ absent' = absent
           /\ plan.effective.first \in Expected
           /\ plan.effective.last \in Expected
  <1> DEFINE plan == Plan(Stored(bars), absent, r, policy)
  <1>1. /\ plan.status \in FetchStatuses
        /\ unfetched' = IF plan.status = "initial_import" THEN {}
                        ELSE (unfetched \cup Jumped(plan)) \ Stored(bars')
    BY DEF Update
  <1>2. PICK fetched \in Results(plan.request) :
          Publish(plan, Merge(plan, fetched))
    BY DEF Update
  <1>3. Stored(bars) \in SUBSET Days /\ absent \in SUBSET TradingDays
    BY DEF IInv, TypeOK, Stored
  <1>4. PICK stored, A, p : /\ stored = Stored(bars) /\ A = absent
                            /\ p = plan /\ p = Plan(stored, A, r, policy)
    OBVIOUS
  <1> HIDE DEF plan
  <1>5. /\ plan \in Plans
        /\ plan.effective \in Ranges /\ plan.request \in Ranges
        /\ plan.effective.first \in Expected
        /\ plan.effective.last \in Expected
        /\ plan.request.last = plan.effective.last
        /\ plan.effective.first <= plan.request.first
        /\ plan.status = "initial_import" =>
             Stored(bars) = {} /\ plan.request = plan.effective
        /\ plan.status \in {"incremental", "overlap_refresh"} => Stored(bars) # {}
        /\ plan.status = "incremental" =>
             \A d \in Stored(bars) : d < plan.request.first
    <2>1. p.status \in FetchStatuses \cup {"full_refresh_required"}
      BY <1>1, <1>4
    <2>2. stored \in SUBSET Days /\ A \in SUBSET TradingDays
      BY <1>3, <1>4
    <2>3. Expected = TradingDays \ A
      BY <1>4 DEF Expected
    <2>4. PlanSound(p, stored, A)
      BY <1>4, <2>1, <2>2, PlanFacts
    <2> QED BY <1>1, <1>4, <2>3, <2>4 DEF PlanSound
  <1>6. /\ bars' = Merge(plan, fetched) /\ last' = plan /\ absent' = absent
        /\ Publishable(plan, bars')
    BY <1>2 DEF Publish
  <1>7. /\ bars' \in [Days -> MaybeBar]
        /\ \A d \in Days : ~Contains(plan.request, d) => bars'[d] = bars[d]
    BY <1>2, <1>6 DEF Merge, Results, Within, IInv, TypeOK
  <1> QED BY <1>1, <1>5, <1>6, <1>7 DEF FetchStatuses

\* A full refresh leaves nothing outside its effective range.
LEMMA RefreshFacts ==
  ASSUME IInv, NEW r \in Ranges, NEW policy \in Policies, FullRefresh(r, policy)
  PROVE  \E plan \in Plans :
           /\ plan.status = "full_refresh_required" /\ last' = plan
           /\ plan.effective \in Ranges
           /\ plan.effective.first \in Expected
           /\ plan.effective.last \in Expected
           /\ bars' \in [Days -> MaybeBar]
           /\ \A d \in Stored(bars') : Contains(plan.effective, d)
           /\ Publishable(plan, bars')
           /\ unfetched' = {}
           /\ absent' = absent
  <1> DEFINE plan == Plan(Stored(bars), absent, r, policy)
  <1>1. plan.status = "full_refresh_required" /\ unfetched' = {}
    BY DEF FullRefresh
  <1>2. PICK fetched \in Results(plan.effective) :
          Publish(plan, Replacement(plan, fetched))
    BY DEF FullRefresh
  <1>3. Stored(bars) \in SUBSET Days /\ absent \in SUBSET TradingDays
    BY DEF IInv, TypeOK, Stored
  <1>4. PICK stored, A, p : /\ stored = Stored(bars) /\ A = absent
                            /\ p = plan /\ p = Plan(stored, A, r, policy)
    OBVIOUS
  <1> HIDE DEF plan
  <1>5. /\ plan \in Plans /\ plan.effective \in Ranges
        /\ plan.effective.first \in Expected
        /\ plan.effective.last \in Expected
    <2>1. p.status \in FetchStatuses \cup {"full_refresh_required"}
      BY <1>1, <1>4
    <2>2. stored \in SUBSET Days /\ A \in SUBSET TradingDays
      BY <1>3, <1>4
    <2>3. Expected = TradingDays \ A
      BY <1>4 DEF Expected
    <2>4. PlanSound(p, stored, A)
      BY <1>4, <2>1, <2>2, PlanFacts
    <2> QED BY <1>1, <1>4, <2>3, <2>4 DEF PlanSound
  <1>6. /\ bars' = Replacement(plan, fetched) /\ last' = plan /\ absent' = absent
        /\ Publishable(plan, bars')
    BY <1>2 DEF Publish
  <1>7. /\ bars' \in [Days -> MaybeBar]
        /\ \A d \in Days : ~Contains(plan.effective, d) => bars'[d] = NoBar
    BY <1>2, <1>6 DEF Replacement, Results, Within, IInv, TypeOK
  <1>8. \A d \in Stored(bars') : Contains(plan.effective, d)
    BY <1>7 DEF Stored
  <1> QED BY <1>1, <1>5, <1>6, <1>7, <1>8

LEMMA InitInv == Init => IInv
  <1> SUFFICES ASSUME Init PROVE IInv
    OBVIOUS
  <1>1. Stored(bars) = {}
    BY DEF Init, Stored
  <1>2. TypeOK
    BY DEF Init, TypeOK, NoPlan, Plans, PlanStatuses
  <1> QED BY <1>1, <1>2 DEF IInv, HolesExplained, LastSound, Init

LEMMA UpdateInv ==
  ASSUME IInv, NEW r \in Ranges, NEW policy \in Policies, Update(r, policy)
  PROVE  IInv'
  <1>1. PICK plan \in Plans :
           /\ plan.status \in FetchStatuses /\ last' = plan
           /\ plan.effective \in Ranges /\ plan.request \in Ranges
           /\ plan.request.last = plan.effective.last
           /\ plan.effective.first <= plan.request.first
           /\ plan.status = "initial_import" =>
                Stored(bars) = {} /\ plan.request = plan.effective
           /\ plan.status # "initial_import" => Stored(bars) # {}
           /\ bars' \in [Days -> MaybeBar]
           /\ \A d \in Days :
                ~Contains(plan.request, d) => bars'[d] = bars[d]
           /\ Publishable(plan, bars')
           /\ unfetched' = IF plan.status = "initial_import" THEN {}
                           ELSE (unfetched \cup Jumped(plan)) \ Stored(bars')
           /\ absent' = absent
           /\ plan.effective.first \in Expected
           /\ plan.effective.last \in Expected
    BY UpdateFacts
  <1>2. TypeOK /\ HolesExplained
    BY DEF IInv
  <1>3. /\ Stored(bars') # {} /\ Stored(bars') \in SUBSET Days
        /\ Stored(bars') \subseteq Expected
        /\ Within(Expected, plan.effective) \subseteq Stored(bars')
        /\ Max(Stored(bars')) = plan.effective.last
        /\ Min(Stored(bars')) <= plan.effective.first
    BY <1>1, <1>2, PublishFacts
  <1>4. Expected' = Expected /\ Expected \subseteq TradingDays
    BY <1>1 DEF Expected
  <1>5. TypeOK'
    BY <1>1, <1>2, <1>4 DEF TypeOK, Jumped
  <1>6. LastSound'
    BY <1>1, <1>3, <1>4 DEF LastSound
  <1>7. HolesExplained'
    <2> SUFFICES ASSUME NEW d \in Expected,
                        Contains(Effective(Stored(bars')), d),
                        d \notin Stored(bars')
                 PROVE  d \in unfetched'
      BY <1>4 DEF HolesExplained
    <2>1. /\ Min(Stored(bars')) <= d /\ d <= plan.effective.last
          /\ d \in Days /\ d \in Int
      BY <1>3, <1>4 DEF Contains, Effective
    <2>2. /\ plan.effective.first \in Int /\ plan.request.first \in Int
          /\ d < plan.effective.first
      <3>1. plan.effective.first \in Int /\ plan.request.first \in Int
        BY <1>1 DEF Ranges
      <3>2. ~Contains(plan.effective, d)
        BY <1>3 DEF Within
      <3> QED BY <2>1, <3>1, <3>2 DEF Contains
    <2>3. ~Contains(plan.request, d)
      BY <1>1, <2>1, <2>2 DEF Contains
    <2>4. Min(Stored(bars')) \in Stored(bars') /\ Min(Stored(bars')) \in Int
      BY <1>3, MinMax
    <2>5. ~Contains(plan.request, Min(Stored(bars')))
      BY <1>1, <2>1, <2>2, <2>4 DEF Contains
    <2>6. Min(Stored(bars')) \in Stored(bars)
      BY <1>1, <2>4, <2>5 DEF Stored
    <2>7. Stored(bars) # {} /\ plan.status # "initial_import"
      BY <1>1, <2>6
    <2>8. unfetched' = (unfetched \cup Jumped(plan)) \ Stored(bars')
      BY <1>1, <2>7
    <2>9. CASE d > Max(Stored(bars))
      BY <2>2, <2>8, <2>9 DEF Jumped
    <2>10. CASE ~(d > Max(Stored(bars)))
      <3>1. Stored(bars) \in SUBSET Days
        BY DEF Stored
      <3>2. Max(Stored(bars)) \in Int /\ Min(Stored(bars)) \in Int
        BY <2>7, <3>1, MinMax
      <3>3. Min(Stored(bars)) <= Min(Stored(bars'))
        BY <2>6, <2>7, <3>1, MinMax
      <3>4. Contains(Effective(Stored(bars)), d)
        BY <2>1, <2>4, <2>10, <3>2, <3>3 DEF Contains, Effective
      <3>5. d \in Stored(bars) \cup unfetched
        BY <1>2, <2>7, <3>4 DEF HolesExplained
      <3>6. d \notin Stored(bars)
        BY <1>1, <2>1, <2>3 DEF Stored
      <3> QED BY <2>8, <3>5, <3>6
    <2> QED BY <2>9, <2>10
  <1> QED
    <2>1. Stored(bars)' = Stored(bars')
      BY DEF Stored
    <2> QED BY <1>3, <1>4, <1>5, <1>6, <1>7, <2>1 DEF IInv

LEMMA RefreshInv ==
  ASSUME IInv, NEW r \in Ranges, NEW policy \in Policies, FullRefresh(r, policy)
  PROVE  IInv'
  <1>1. PICK plan \in Plans :
           /\ last' = plan
           /\ plan.effective \in Ranges
           /\ plan.effective.first \in Expected
           /\ plan.effective.last \in Expected
           /\ bars' \in [Days -> MaybeBar]
           /\ \A d \in Stored(bars') : Contains(plan.effective, d)
           /\ Publishable(plan, bars')
           /\ unfetched' = {}
           /\ absent' = absent
    BY RefreshFacts
  <1>2. TypeOK
    BY DEF IInv
  <1>3. /\ Stored(bars') # {} /\ Stored(bars') \in SUBSET Days
        /\ Stored(bars') \subseteq Expected
        /\ Within(Expected, plan.effective) \subseteq Stored(bars')
        /\ Max(Stored(bars')) = plan.effective.last
        /\ Min(Stored(bars')) <= plan.effective.first
    BY <1>1, <1>2, PublishFacts
  <1>4. Expected' = Expected /\ Expected \subseteq TradingDays
    BY <1>1 DEF Expected
  <1>5. TypeOK'
    BY <1>1, <1>2 DEF TypeOK
  <1>6. LastSound'
    BY <1>1, <1>3, <1>4 DEF LastSound
  <1>7. HolesExplained'
    <2> SUFFICES ASSUME NEW d \in Expected,
                        Contains(Effective(Stored(bars')), d)
                 PROVE  d \in Stored(bars')
      BY <1>4 DEF HolesExplained
    <2>1. /\ Min(Stored(bars')) <= d /\ d <= plan.effective.last /\ d \in Int
      BY <1>3, <1>4 DEF Contains, Effective
    <2>2. Min(Stored(bars')) \in Stored(bars') /\ Min(Stored(bars')) \in Int
      BY <1>3, MinMax
    <2>3. plan.effective.first <= Min(Stored(bars')) /\ plan.effective.first \in Int
      BY <1>1, <2>2 DEF Contains, Ranges
    <2> QED BY <1>3, <2>1, <2>2, <2>3 DEF Within, Contains
  <1> QED
    <2>1. Stored(bars)' = Stored(bars')
      BY DEF Stored
    <2> QED BY <1>3, <1>4, <1>5, <1>6, <1>7, <2>1 DEF IInv

LEMMA EvidenceInv ==
  ASSUME IInv, NewEvidence
  PROVE  IInv'
  <1>1. /\ absent' \in SUBSET TradingDays
        /\ unfetched' = unfetched \cup (absent \ absent')
        /\ last' = NoPlan /\ bars' = bars
    BY DEF NewEvidence
  <1>2. TypeOK /\ Stored(bars) \subseteq TradingDays /\ HolesExplained
    BY DEF IInv
  <1>3. TypeOK'
    BY <1>1, <1>2 DEF TypeOK, NoPlan, Plans, PlanStatuses
  <1>4. Stored(bars)' = Stored(bars)
    BY <1>1 DEF Stored
  <1>5. HolesExplained'
    <2> SUFFICES ASSUME Stored(bars) # {}, NEW d \in Expected',
                        Contains(Effective(Stored(bars)), d)
                 PROVE  d \in Stored(bars) \cup unfetched'
      BY <1>1 DEF HolesExplained
    <2>1. d \in Expected \/ d \in absent \ absent'
      BY DEF Expected
    <2> QED BY <1>1, <1>2, <2>1 DEF HolesExplained
  <1> QED BY <1>1, <1>2, <1>3, <1>4, <1>5 DEF IInv, LastSound

-----------------------------------------------------------------------------
(* Theorems                                                                *)

\* The invariant holds of every behaviour.
THEOREM Invariant == Spec => []IInv
  <1>1. IInv /\ [Next]_vars => IInv'
    <2> SUFFICES ASSUME IInv, [Next]_vars PROVE IInv'
      OBVIOUS
    <2>1. CASE \E r \in Ranges, policy \in Policies :
                 Update(r, policy) \/ FullRefresh(r, policy)
      BY <2>1, UpdateInv, RefreshInv
    <2>2. CASE NewEvidence
      BY <2>2, EvidenceInv
    <2>3. CASE UNCHANGED vars
      <3>1. /\ bars' = bars /\ absent' = absent
            /\ unfetched' = unfetched /\ last' = last
        BY <2>3 DEF vars
      <3> QED
        BY <3>1 DEF IInv, TypeOK, Stored, HolesExplained, LastSound, Expected
    <2> QED BY <2>1, <2>2, <2>3 DEF Next
  <1> QED BY <1>1, InitInv, PTL DEF Spec

\* The variables keep their types.
THEOREM TypeCorrect == Spec => []TypeOK
  <1>1. IInv => TypeOK
    BY DEF IInv
  <1> QED BY <1>1, Invariant, PTL

\* A hole is a day that no call was asked for, whatever the calendar, the
\* ranges, the policies and the answers of the providers.
THEOREM HolesAreExplained == Spec => []HolesExplained
  <1>1. IInv => HolesExplained
    BY DEF IInv
  <1> QED BY <1>1, Invariant, PTL

\* A call repeated after it published finds nothing to do.
THEOREM RepetitionIsHarmless == Spec => []RepetitionIsCurrent
  <1>1. IInv => RepetitionIsCurrent
    <2> SUFFICES ASSUME IInv, last # NoPlan,
                        NEW r \in Ranges, NEW policy \in Policies,
                        NEW plan, plan = Plan(Stored(bars), absent, r, policy),
                        plan.effective = last.effective,
                        ~(Adjusted /\ policy.strategy = "append_only")
                 PROVE  plan.status = "already_current"
      BY DEF RepetitionIsCurrent
    <2> DEFINE trading == Within(TradingDays, r)
               expected == trading \ absent
               effective == Effective(expected)
               stored == Stored(bars)
    <2>1. /\ plan.status = Status(stored, absent, trading, policy)
          /\ plan.effective = IF expected = {} THEN NoRange ELSE effective
      BY DEF Plan
    <2>2. /\ last.effective \in Ranges /\ stored # {}
          /\ stored \subseteq Expected
          /\ Max(stored) = last.effective.last
          /\ Min(stored) <= last.effective.first
      BY DEF IInv, LastSound
    <2>3. expected # {} /\ effective = last.effective
      BY <2>1, <2>2 DEF Ranges
    <2>4. stored \in SUBSET Days
      BY DEF Stored
    <2> HIDE DEF stored
    <2>5. Min(stored) \in stored /\ Max(stored) \in stored
      BY <2>2, <2>4, MinMax
    <2>6. EndsExpected(stored, absent)
      BY <2>2, <2>5 DEF EndsExpected, Expected
    <2>7. /\ Min(stored) \in Int /\ Max(stored) \in Int
          /\ last.effective.first \in Int /\ last.effective.last \in Int
      BY <2>2, <2>4, <2>5 DEF Ranges
    <2>8. ~LeftGap(stored, effective) /\ ~(Max(stored) > effective.last)
      BY <2>2, <2>3, <2>7 DEF LeftGap
    <2>9. trading # {}
      BY <2>3
    <2>10. Status(stored, absent, trading, policy) =
             IF Max(stored) = effective.last THEN "already_current"
             ELSE StatusOf(policy.strategy)
      <3>1. Status(stored, absent, trading, policy) =
              IF trading = {} THEN "no_trading_days"
              ELSE IF policy.strategy = "append_only" /\ Adjusted THEN "invalid"
              ELSE IF expected = {} THEN "no_expected_observations"
              ELSE IF stored = {} THEN "initial_import"
              ELSE IF ~EndsExpected(stored, absent) THEN "invalid"
              ELSE IF Max(stored) > effective.last THEN "invalid"
              ELSE IF LeftGap(stored, effective) THEN "full_refresh_required"
              ELSE IF Max(stored) = effective.last THEN "already_current"
              ELSE StatusOf(policy.strategy)
        BY DEF Status
      <3> HIDE DEF trading, expected, effective
      <3> QED BY <2>2, <2>3, <2>6, <2>8, <2>9, <3>1
    <2> QED BY <2>1, <2>2, <2>3, <2>10
  <1> QED BY <1>1, Invariant, PTL

\* No update loses a bar outside the days it fetched, and inside them only
\* days confirmed absent.
THEOREM NothingIsLost == Spec => NothingLost
  <1> DEFINE Kept ==
        bars' # bars /\ last'.status # "full_refresh_required" =>
          \A d \in Stored(bars) :
            IF Contains(last'.request, d)
            THEN /\ last'.status = "overlap_refresh"
                 /\ d \in Stored(bars') \/ d \in absent
            ELSE bars'[d] = bars[d]
  <1>1. ASSUME IInv, NEW r \in Ranges, NEW policy \in Policies, Update(r, policy)
        PROVE  Kept
    <2>1. PICK plan \in Plans :
             /\ plan.status \in FetchStatuses /\ last' = plan
             /\ plan.effective \in Ranges /\ plan.request \in Ranges
             /\ plan.request.last = plan.effective.last
             /\ plan.effective.first <= plan.request.first
             /\ plan.status = "initial_import" => Stored(bars) = {}
             /\ plan.status = "incremental" =>
                  \A d \in Stored(bars) : d < plan.request.first
             /\ \A d \in Days :
                  ~Contains(plan.request, d) => bars'[d] = bars[d]
             /\ Publishable(plan, bars')
             /\ plan.effective.first \in Expected
             /\ plan.effective.last \in Expected
      BY <1>1, UpdateFacts
    <2>2. /\ Within(Expected, plan.effective) \subseteq Stored(bars')
          /\ TypeOK /\ Stored(bars) \subseteq TradingDays
      BY <1>1, <2>1 DEF Publishable, IInv
    <2> SUFFICES ASSUME NEW d \in Stored(bars), Contains(plan.request, d)
                 PROVE  /\ plan.status = "overlap_refresh"
                        /\ d \in Stored(bars') \/ d \in absent
      BY <2>1 DEF Stored
    <2>3. /\ plan.effective.first \in Int /\ plan.request.first \in Int
          /\ d \in Int /\ d \in TradingDays
          /\ plan.request.first <= d /\ d <= plan.request.last
      BY <2>1, <2>2 DEF Ranges, Contains
    <2>4. plan.status = "overlap_refresh"
      <3>1. plan.status # "initial_import"
        BY <2>1
      <3>2. plan.status # "incremental"
        BY <2>1, <2>3
      <3> QED BY <2>1, <3>1, <3>2 DEF FetchStatuses
    <2>5. Contains(plan.effective, d)
      BY <2>1, <2>3 DEF Contains
    <2> QED BY <2>2, <2>3, <2>4, <2>5 DEF Within, Expected
  <1>2. IInv /\ [Next]_vars => [Kept]_vars
    <2> SUFFICES ASSUME IInv, Next PROVE Kept
      OBVIOUS
    <2>1. CASE \E r \in Ranges, policy \in Policies : Update(r, policy)
      BY <1>1, <2>1
    <2>2. CASE \E r \in Ranges, policy \in Policies : FullRefresh(r, policy)
      <3>1. PICK r \in Ranges, policy \in Policies : FullRefresh(r, policy)
        BY <2>2
      <3>2. last'.status = "full_refresh_required"
        BY <3>1, RefreshFacts
      <3> QED BY <3>2
    <2>3. CASE NewEvidence
      BY <2>3 DEF NewEvidence
    <2> QED BY <2>1, <2>2, <2>3 DEF Next
  <1>3. NothingLost <=> [][Kept]_vars
    BY DEF NothingLost
  <1> QED BY <1>2, <1>3, Invariant, PTL DEF Spec, NothingLost

-----------------------------------------------------------------------------
(* Repair                                                                  *)

\* A range of dates is finite.
LEMMA DaysFinite ==
  ASSUME NEW S \in SUBSET Days
  PROVE  IsFiniteSet(S)
  <1>1. CASE S = {}
    BY <1>1, FS_EmptySet
  <1>2. CASE S # {}
    <2>1. PICK lo \in S, hi \in S : \A d \in S : lo <= d /\ d <= hi
      BY <1>2, MinMax
    <2>2. S \subseteq lo..hi /\ lo \in Int /\ hi \in Int
      BY <2>1
    <2>3. IsFiniteSet(lo..hi)
      BY <2>2, FS_Interval
    <2> QED BY <2>2, <2>3, FS_Subset
  <1> QED BY <1>1, <1>2

\* A set of days has the bounds that MinMax gives it and no others.
LEMMA Bounds ==
  ASSUME NEW S \in SUBSET Days, NEW lo \in S, NEW hi \in S,
         \A d \in S : lo <= d /\ d <= hi
  PROVE  Min(S) = lo /\ Max(S) = hi
  <1>1. Min(S) \in S /\ Max(S) \in S /\ Min(S) <= lo /\ hi <= Max(S)
    BY MinMax
  <1>2. lo <= Min(S) /\ Max(S) <= hi
    BY <1>1
  <1>3. lo \in Int /\ hi \in Int /\ Min(S) \in Int /\ Max(S) \in Int
    BY <1>1
  <1> QED BY <1>1, <1>2, <1>3

\* An overlap as long as the calendar starts at the first expected day.
LEMMA WholeOverlap ==
  ASSUME Cardinality(TradingDays) <= MaxOverlap,
         NEW stored \in SUBSET Days, stored # {},
         NEW expected \in SUBSET TradingDays,
         NEW lo \in expected, \A d \in expected : lo <= d,
         lo <= Max(stored)
  PROVE  /\ OverlapStart(stored, expected, MaxOverlap) = lo
         /\ MaxOverlap > 0
  <1> DEFINE existing == {d \in expected : d <= Max(stored)}
             After(d) == {e \in existing : e > d}
             tail == {d \in existing : Cardinality(After(d)) < MaxOverlap}
  <1>1. /\ IsFiniteSet(TradingDays) /\ Cardinality(TradingDays) \in Nat
        /\ Cardinality(TradingDays \ {lo}) = Cardinality(TradingDays) - 1
        /\ IsFiniteSet(TradingDays \ {lo})
    <2>1. IsFiniteSet(TradingDays)
      BY DaysFinite
    <2> QED BY <2>1, FS_CardinalityType, FS_RemoveElement
  <1>2. Cardinality(TradingDays \ {lo}) \in Nat
    BY <1>1, FS_CardinalityType
  <1>3. After(lo) \subseteq TradingDays \ {lo}
    <2>1. \A d \in After(lo) : d \in TradingDays /\ d > lo
      OBVIOUS
    <2>2. lo \in Int
      OBVIOUS
    <2>3. ~(lo > lo)
      BY <2>2
    <2> QED BY <2>1, <2>3
  <1>4. /\ IsFiniteSet(After(lo))
        /\ Cardinality(After(lo)) <= Cardinality(TradingDays \ {lo})
    <2> HIDE DEF After
    <2> QED BY <1>1, <1>3, FS_Subset
  <1>5. Cardinality(After(lo)) \in Nat
    <2> HIDE DEF After
    <2> QED BY <1>4, FS_CardinalityType
  <1>6. Cardinality(After(lo)) < MaxOverlap /\ MaxOverlap > 0
    <2> HIDE DEF After
    <2> QED BY <1>1, <1>2, <1>4, <1>5
  <1>7. lo \in tail
    BY <1>6
  <1>8. tail \subseteq existing /\ existing \subseteq expected
    OBVIOUS
  <1>9. existing # {} /\ OverlapStart(stored, expected, MaxOverlap) = Min(tail)
    BY <1>7, <1>8 DEF OverlapStart
  <1> HIDE DEF tail, existing
  <1>10. tail \in SUBSET Days /\ \A d \in tail : lo <= d
    BY <1>8
  <1>11. Min(tail) = lo
    <2>1. Min(tail) \in tail /\ Min(tail) <= lo
      BY <1>7, <1>10, MinMax
    <2>2. Min(tail) \in Int /\ lo \in Int
      BY <1>7, <1>10, <2>1
    <2> QED BY <1>10, <2>1, <2>2
  <1> QED BY <1>6, <1>9, <1>11

\* The plan that repairs: an overlap over all that is stored, up to a later day.
LEMMA RepairPlan ==
  ASSUME Cardinality(TradingDays) <= MaxOverlap,
         NEW stored \in SUBSET TradingDays, stored # {},
         NEW A \in SUBSET TradingDays,
         EndsExpected(stored, A),
         NEW e \in TradingDays \ A, e > Max(stored),
         NEW r, r = [first |-> Min(stored), last |-> e],
         NEW policy, policy = [strategy |-> "overlap_window", overlap |-> MaxOverlap],
         NEW plan, plan = Plan(stored, A, r, policy)
  PROVE  /\ r \in Ranges /\ policy \in Policies
         /\ plan.status = "overlap_refresh"
         /\ plan.effective = r /\ plan.request = r
  <1> DEFINE trading == Within(TradingDays, r)
             expected == trading \ A
             status == Status(stored, A, trading, policy)
             lo == Min(stored)
             hi == Max(stored)
  <1>1. /\ lo \in stored /\ hi \in stored /\ lo <= hi
        /\ \A d \in stored : lo <= d /\ d <= hi
    BY MinMax
  <1>2. lo \in Int /\ hi \in Int /\ e \in Int /\ lo < e
    <2>1. lo \in Int /\ hi \in Int /\ e \in Int
      BY <1>1
    <2>2. e > hi /\ lo <= hi
      BY <1>1
    <2> HIDE DEF lo, hi
    <2> QED BY <2>1, <2>2
  <1>3. r \in Ranges /\ r.first = lo /\ r.last = e
    BY <1>1, <1>2 DEF Ranges
  <1>4. /\ lo \in expected /\ hi \in expected /\ e \in expected
        /\ expected \in SUBSET TradingDays /\ expected \in SUBSET Days
        /\ \A d \in expected : lo <= d /\ d <= e
    <2>1. lo \notin A /\ hi \notin A /\ hi < e
      BY DEF EndsExpected
    <2> HIDE DEF lo, hi
    <2>2. lo <= lo /\ hi <= e /\ lo <= e /\ e <= e
      BY <1>2, <2>1
    <2>3. Contains(r, lo) /\ Contains(r, hi) /\ Contains(r, e)
      BY <1>1, <1>3, <2>2 DEF Contains
    <2>4. \A d \in trading : d \in TradingDays /\ lo <= d /\ d <= e
      BY <1>3 DEF Within, Contains
    <2>5. lo \in trading /\ hi \in trading /\ e \in trading
      BY <1>1, <2>3 DEF Within
    <2> HIDE DEF trading
    <2> QED BY <2>1, <2>4, <2>5
  <1> HIDE DEF trading, expected, lo, hi
  <1>5. Min(expected) = lo /\ Max(expected) = e
    BY <1>4, Bounds
  <1>6. Effective(expected) = r
    BY <1>3, <1>5 DEF Effective, lo
  <1>7. OverlapStart(stored, expected, MaxOverlap) = lo /\ MaxOverlap > 0
    BY <1>1, <1>2, <1>4, WholeOverlap DEF hi
  <1>8. policy \in Policies
    BY <1>7 DEF Policies
  <1>9. status = "overlap_refresh"
    <2>1. trading # {} /\ expected # {}
      BY <1>4 DEF expected
    <2>2. ~(Max(stored) > e) /\ Max(stored) # e /\ ~LeftGap(stored, r)
      BY <1>2, <1>3 DEF LeftGap, lo, hi
    <2>3. status = StatusOf(policy.strategy)
      BY <1>3, <1>6, <2>1, <2>2 DEF Status, expected
    <2> QED BY <2>3 DEF StatusOf
  <1> HIDE DEF status
  <1>10. RequestStart(status, stored, expected, policy.overlap) = lo
    BY <1>7, <1>9 DEF RequestStart
  <1>11. /\ plan.status = status /\ plan.effective = r
         /\ plan.request = [first |-> lo, last |-> e]
    <2>1. expected # {} /\ status \in FetchStatuses
      BY <1>4, <1>9 DEF FetchStatuses
    <2> QED BY <1>5, <1>6, <1>10, <2>1 DEF Plan, trading, expected, status
  <1> QED BY <1>3, <1>8, <1>9, <1>11 DEF lo

\* As long as its ends are expected, a dataset can be brought in order by one
\* update without a full refresh.  A policy may ask for an overlap of any
\* length: the bound on it is no shorter than the calendar.
THEOREM RepairableByUpdate ==
  Cardinality(TradingDays) <= MaxOverlap => (Spec => []Repairable)
  <1>1. ASSUME Cardinality(TradingDays) <= MaxOverlap, IInv
        PROVE  Repairable
    <2> DEFINE stored == Stored(bars)
    <2> SUFFICES ASSUME stored # {},
                        {Min(stored), Max(stored)} \cap absent = {},
                        NEW e \in Expected, e > Max(stored)
                 PROVE  \E r \in Ranges, policy \in Policies, v \in Values :
                          LET plan      == Plan(stored, absent, r, policy)
                              complete  == [d \in Within(Days, plan.request) |->
                                              IF d \in Expected THEN v ELSE NoBar]
                              candidate == Merge(plan, complete)
                          IN  /\ plan.status \in FetchStatuses
                              /\ Publishable(plan, candidate)
                              /\ Within(Expected, Effective(Stored(candidate)))
                                   = Stored(candidate)
      BY DEF Repairable
    <2>1. /\ stored \in SUBSET TradingDays /\ absent \in SUBSET TradingDays
          /\ bars \in [Days -> MaybeBar] /\ e \in TradingDays \ absent
          /\ EndsExpected(stored, absent)
      BY <1>1 DEF IInv, TypeOK, Expected, EndsExpected
    <2>2. PICK v \in Values : TRUE
      BY <2>1 DEF Stored
    <2>3. PICK r, policy : /\ r = [first |-> Min(stored), last |-> e]
                           /\ policy = [strategy |-> "overlap_window",
                                        overlap |-> MaxOverlap]
      OBVIOUS
    <2> DEFINE plan == Plan(stored, absent, r, policy)
               complete == [d \in Within(Days, plan.request) |->
                              IF d \in Expected THEN v ELSE NoBar]
               candidate == Merge(plan, complete)
    <2> HIDE DEF stored
    <2>4. /\ r \in Ranges /\ policy \in Policies
          /\ plan.status = "overlap_refresh"
          /\ plan.effective = r /\ plan.request = r
      BY <1>1, <2>1, <2>3, RepairPlan
    <2> HIDE DEF plan
    <2>5. /\ Min(stored) \in stored /\ Max(stored) \in stored
          /\ \A d \in stored : Min(stored) <= d /\ d <= Max(stored)
      BY <2>1, MinMax
    <2>6. /\ r.first = Min(stored) /\ r.last = e
          /\ Min(stored) \in Int /\ Max(stored) \in Int /\ e \in Int
      BY <2>1, <2>3, <2>5
    <2>7. \A d \in Days : ~Contains(r, d) => bars[d] = NoBar
      <3> SUFFICES ASSUME NEW d \in Days, bars[d] # NoBar PROVE Contains(r, d)
        OBVIOUS
      <3>1. d \in stored /\ d \in Int
        BY DEF Stored, stored
      <3> QED BY <2>5, <2>6, <3>1 DEF Contains
    <2>8. Stored(candidate) = Within(Expected, r)
      <3>1. \A d \in Days :
              candidate[d] = IF Contains(r, d)
                             THEN IF d \in Expected THEN v ELSE NoBar
                             ELSE NoBar
        BY <2>4, <2>7 DEF Merge, Within
      <3>2. v # NoBar /\ Expected \subseteq Days
        BY DEF Expected
      <3> HIDE DEF candidate
      <3> QED BY <3>1, <3>2 DEF Stored, Within
    <2> HIDE DEF candidate, complete
    <2>9. /\ e \in Within(Expected, r) /\ Min(stored) \in Within(Expected, r)
          /\ \A d \in Within(Expected, r) : Min(stored) <= d /\ d <= e
          /\ Within(Expected, r) \in SUBSET Days
      <3>1. \A d \in Within(Expected, r) :
              d \in Expected /\ Min(stored) <= d /\ d <= e
        BY <2>6 DEF Within, Contains
      <3>2. e \in Expected /\ Min(stored) \in Expected /\ Expected \subseteq Days
        BY <2>1, <2>5 DEF Expected, EndsExpected
      <3>3. Min(stored) <= e /\ e <= e /\ Min(stored) <= Min(stored)
        <4>1. Max(stored) < e /\ Min(stored) <= Max(stored)
          BY <2>5
        <4> QED BY <2>6, <4>1
      <3>4. e \in Within(Expected, r) /\ Min(stored) \in Within(Expected, r)
        BY <2>6, <3>2, <3>3 DEF Within, Contains
      <3> QED BY <3>1, <3>2, <3>4
    <2>10. Publishable(plan, candidate)
      BY <2>4, <2>6, <2>8, <2>9 DEF Publishable, Within
    <2>11. Effective(Stored(candidate)) = r
      <3>1. Min(Within(Expected, r)) = Min(stored) /\ Max(Within(Expected, r)) = e
        BY <2>9, Bounds
      <3> QED BY <2>3, <2>8, <3>1 DEF Effective
    <2> QED BY <2>2, <2>4, <2>8, <2>10, <2>11
            DEF FetchStatuses, plan, complete, candidate
  <1>2. CASE Cardinality(TradingDays) <= MaxOverlap
    <2>1. IInv => Repairable
      BY <1>1, <1>2
    <2> QED BY <2>1, Invariant, PTL
  <1> QED BY <1>2

-----------------------------------------------------------------------------
(* Reports                                                                 *)

\* A call that tells its caller something takes a step of the dataset or none.
LEMMA RecordStep == RecordNext => [Next]_vars
  <1>1. ASSUME NEW r \in Ranges, NEW policy \in Policies,
               \/ UpdatePublishes(r, policy) \/ FullRefreshPublishes(r, policy)
        PROVE  Next
    BY <1>1 DEF UpdatePublishes, FullRefreshPublishes, Next
  <1>2. ASSUME NEW r \in Ranges, NEW policy \in Policies, NEW dry \in BOOLEAN,
               \/ UpdateReturns(r, policy, dry) \/ UpdateFails(r, policy, dry)
               \/ FullRefreshReturns(r, policy, dry)
               \/ FullRefreshFails(r, policy, dry)
        PROVE  UNCHANGED vars
    BY <1>2 DEF UpdateReturns, UpdateFails, FullRefreshReturns, FullRefreshFails
  <1> QED BY <1>1, <1>2 DEF RecordNext, Next

\* The updates under which calls report are those of EODIncrementalUpdate.
THEOREM RecordsFollow == RecordSpec => Spec
  <1>1. RecordInit => Init
    BY DEF RecordInit
  <1>2. [RecordNext]_<<vars, report>> => [Next]_vars
    BY RecordStep
  <1> QED BY <1>1, <1>2, PTL DEF RecordSpec, Spec

\* What a call that fails before a publication tells.
Failure(x) == x.kind \in {"error", "lock_error", "raised", "stopped"}

\* The errors of the coordinator that say nothing more are accepted.
LEMMA ErrorsTold ==
  ASSUME NEW x, NEW attempts,
         \/ x = Error("publication_context_invalid", "publication_context", attempts)
         \/ x = Error("current_generation_invalid", "load_current", attempts)
         \/ x = Error("repository_contract_violation", "load_current", attempts)
         \/ x = Error("repository_contract_violation", "publish_response", attempts)
         \/ x = Error("planning_failed", "planning", attempts)
         \/ x = Error("provider_chain_failed", "provider_chain", attempts)
         \/ x = Error("provider_result_mismatch", "provider_chain", attempts)
         \/ x = Error("provider_result_mismatch", "replacement", attempts)
         \/ x = Error("provider_result_mismatch", "merge", attempts)
         \/ x = Error("merge_conflict", "merge", attempts)
         \/ x = Error("validation_failed", "validation", attempts)
         \/ x = Error("publication_failed", "publish", attempts)
  PROVE  x.kind = "error" /\ ~x.retryable
  BY DEF Error, CoordinatorError, Built, ErrorAccepted, Stages

\* What a call meets before a publication is a failure that its record accepts.
LEMMA FailuresTold ==
  ASSUME NEW propagate, NEW plan,
         NEW x \in FetchFailures(propagate) \cup MergeFailures(plan)
                   \cup ValidationFailures \cup PublicationFailures(propagate)
  PROVE  Failure(x)
  <1>1. \/ x \in {Raised, Stopped}
        \/ \E code \in ProviderCodes :
             x = CoordinatorError("provider_chain_failed", "provider_chain",
                   TRUE, code, code = "temporary_provider_failure")
        \/ x = CoordinatorError("partial_result_not_publishable",
                 "provider_chain", TRUE, "none", TRUE)
        \/ x = Error("provider_chain_failed", "provider_chain", FALSE)
        \/ \E attempts \in BOOLEAN :
             x = Error("provider_result_mismatch", "provider_chain", attempts)
        \/ x = Error("provider_result_mismatch", "merge", TRUE)
        \/ x = Error("merge_conflict", "merge", TRUE)
        \/ x = Error("validation_failed", "validation", TRUE)
        \/ x = Error("publication_context_invalid", "publication_context", TRUE)
        \/ x = Error("publication_failed", "publish", TRUE)
    BY DEF FetchFailures, MergeFailures, ValidationFailures, PublicationFailures
  <1>2. ASSUME NEW code \in ProviderCodes,
               x = CoordinatorError("provider_chain_failed", "provider_chain",
                     TRUE, code, code = "temporary_provider_failure")
        PROVE  x.kind = "error"
    BY <1>2 DEF CoordinatorError, Built, ErrorAccepted, Stages, ProviderCodes
  <1>3. ASSUME x = CoordinatorError("partial_result_not_publishable",
                     "provider_chain", TRUE, "none", TRUE)
        PROVE  x.kind = "error"
    BY <1>3 DEF CoordinatorError, Built, ErrorAccepted, Stages
  <1>4. x \in {Raised, Stopped} => Failure(x)
    BY DEF Failure, Raised, Stopped
  <1> QED BY <1>1, <1>2, <1>3, <1>4, ErrorsTold DEF Failure

\* A failed call leaves the data and tells a failure.
LEMMA FailsTruly ==
  ASSUME NEW r \in Ranges, NEW policy \in Policies, NEW dry \in BOOLEAN,
         UpdateFails(r, policy, dry) \/ FullRefreshFails(r, policy, dry)
  PROVE  ReportsTruly
  <1> DEFINE plan == Plan(Stored(bars), absent, r, policy)
  <1>1. bars' = bars
    BY DEF UpdateFails, FullRefreshFails, vars
  <1>2. CASE UpdateFails(r, policy, dry)
    <2>1. \/ report' = Error("publication_context_invalid", "publication_context", FALSE)
          \/ report' = Error("current_generation_invalid", "load_current", FALSE)
          \/ report' = Error("repository_contract_violation", "load_current", FALSE)
          \/ report' = Error("planning_failed", "planning", FALSE)
          \/ report' \in FetchFailures(FALSE) \cup MergeFailures(plan)
                         \cup ValidationFailures \cup PublicationFailures(FALSE)
      BY <1>2 DEF UpdateFails
    <2> HIDE DEF plan
    <2>2. Failure(report')
      BY <2>1, ErrorsTold, FailuresTold DEF Failure
    <2> QED BY <1>1, <2>2 DEF ReportsTruly, Failure, IsPublication
  <1>3. CASE FullRefreshFails(r, policy, dry)
    <2>1. \/ report' = Raised
          \/ \E code \in {"lock_acquisition_failed", "lock_contract_violation",
                          "lock_unavailable", "lock_release_failed"} :
               report' = LockError(code)
          \/ report' = Error("current_generation_invalid", "load_current", FALSE)
          \/ report' = Error("repository_contract_violation", "load_current", FALSE)
          \/ report' = Error("planning_failed", "planning", FALSE)
          \/ report' = Error("provider_result_mismatch", "replacement", TRUE)
          \/ report' \in FetchFailures(TRUE) \cup MergeFailures(plan)
                         \cup ValidationFailures \cup PublicationFailures(TRUE)
      BY <1>3 DEF FullRefreshFails
    <2> HIDE DEF plan
    <2>2. Failure(report')
      <3>1. \/ report' = Raised
            \/ \E code : report' = LockError(code)
            => Failure(report')
        BY DEF Failure, Raised, LockError
      <3>2. report' \in FetchFailures(TRUE) \cup MergeFailures(plan)
                       \cup ValidationFailures \cup PublicationFailures(TRUE)
            => Failure(report')
        BY FailuresTold
      <3> QED BY <2>1, <3>1, <3>2, ErrorsTold DEF Failure
    <2> QED BY <1>1, <2>2 DEF ReportsTruly, Failure, IsPublication
  <1> QED BY <1>2, <1>3

\* A call that returns without a publication says so, and its record accepts
\* what it says.
LEMMA ReturnsTruly ==
  ASSUME TypeOK, NEW r \in Ranges, NEW policy \in Policies, NEW dry \in BOOLEAN,
         UpdateReturns(r, policy, dry) \/ FullRefreshReturns(r, policy, dry)
  PROVE  ReportsTruly
  <1> DEFINE plan == Plan(Stored(bars), absent, r, policy)
             eligible == plan.status = "full_refresh_required"
             request == IF eligible THEN plan.effective ELSE NoRange
  <1>1. bars' = bars
    BY DEF UpdateReturns, FullRefreshReturns, vars
  <1>2. /\ Stored(bars) \in SUBSET Days /\ absent \in SUBSET TradingDays
        /\ IsFiniteSet(Stored(bars)) /\ RowCount \in Nat
    <2>1. Stored(bars) \in SUBSET Days
      BY DEF Stored
    <2> QED BY <2>1, DaysFinite, FS_CardinalityType DEF RowCount, TypeOK
  <1>3. /\ CurrentManifest # NoManifest <=> Stored(bars) # {}
        /\ RowCount = IF CurrentManifest = NoManifest THEN 0 ELSE CurrentManifest.rows
    <2>1. Stored(bars) # {} =>
            /\ CurrentManifest = [rows |-> RowCount, content |-> bars]
            /\ CurrentManifest \in Manifests
      BY <1>2 DEF CurrentManifest, Manifest, RowCount, Manifests, TypeOK
    <2>2. Stored(bars) = {} => CurrentManifest = NoManifest /\ RowCount = 0
      BY FS_EmptySet DEF CurrentManifest, RowCount
    <2> QED BY <2>1, <2>2, ManifestAssumption
  <1>4. eligible => Stored(bars) # {} /\ plan.effective # NoRange
    <2> SUFFICES ASSUME eligible PROVE Stored(bars) # {} /\ plan.effective # NoRange
      OBVIOUS
    <2>1. plan.status = Status(Stored(bars), absent, Within(TradingDays, r), policy)
      BY DEF Plan
    <2>2. Within(TradingDays, r) \in SUBSET TradingDays
      BY DEF Within
    <2>3. Stored(bars) # {}
      <3> SUFFICES ASSUME Stored(bars) = {}
                   PROVE  Status(Stored(bars), absent, Within(TradingDays, r), policy)
                            # "full_refresh_required"
        BY <2>1
      <3> QED BY DEF Status
    <2>4. plan.status \in FetchStatuses \cup {"full_refresh_required"}
      OBVIOUS
    <2>5. plan.effective \in Ranges
      <3>1. PICK p : p = plan /\ p = Plan(Stored(bars), absent, r, policy)
        OBVIOUS
      <3> HIDE DEF plan
      <3>2. PlanSound(p, Stored(bars), absent)
        BY <1>2, <2>4, <3>1, PlanFacts
      <3> QED BY <3>1, <3>2 DEF PlanSound
    <2> QED BY <2>3, <2>5 DEF Ranges
  <1>5. CASE UpdateReturns(r, policy, dry)
    <2>1. PICK status, attempts :
            /\ report' = UpdateResult(plan, status, dry, NoManifest, attempts,
                                      RowCount, 0, 0)
            /\ \/ status \in NoFetchStatuses
               \/ status \in PlannedStatuses /\ dry
               \/ status = "unchanged_content" /\ ~dry
      <3> DEFINE Told(status, attempts) ==
                   report' = UpdateResult(plan, status, dry, NoManifest, attempts,
                                          RowCount, 0, 0)
      <3>1. \/ plan.status \in NoFetchStatuses /\ Told(plan.status, FALSE)
            \/ /\ plan.status \in FetchStatuses /\ dry
               /\ Told(PlannedStatus(plan.status), FALSE)
            \/ ~dry /\ Told("unchanged_content", TRUE)
        BY <1>5 DEF UpdateReturns
      <3>2. plan.status \in FetchStatuses =>
              PlannedStatus(plan.status) \in PlannedStatuses
        <4> HIDE DEF plan
        <4> QED BY DEF FetchStatuses, PlannedStatus, PlannedStatuses
      <3> HIDE DEF plan
      <3> QED BY <3>1, <3>2
    <2> DEFINE x == [kind |-> "update", status |-> status, plan |-> plan,
                     previous |-> CurrentManifest, published |-> NoManifest,
                     attempts |-> attempts, rows |-> RowCount, added |-> 0,
                     replaced |-> 0, dry |-> dry]
    <2>2. UpdateResultAccepted(x)
      <3> HIDE DEF plan
      <3> QED BY <2>1 DEF UpdateResultAccepted, NoFetchStatuses, PlannedStatuses,
                          PublishedStatuses, DryRunStatuses
    <2>3. report' = x
      BY <2>1, <2>2 DEF UpdateResult, Built
    <2>4. report'.kind = "update" /\ report'.published = NoManifest
      BY <2>3
    <2> QED BY <1>1, <2>4 DEF ReportsTruly, IsPublication
  <1>6. CASE FullRefreshReturns(r, policy, dry)
    <2>1. PICK status, attempts :
            /\ report' = FullRefreshResult(plan, status, dry, NoManifest,
                                           attempts, RowCount, 0)
            /\ \/ ~eligible /\ status = "not_eligible" /\ attempts = FALSE
               \/ eligible /\ dry /\ status = "full_refresh_planned" /\ attempts = FALSE
               \/ eligible /\ ~dry /\ status = "unchanged_content" /\ attempts = TRUE
      <3> DEFINE Told(status, attempts) ==
                   report' = FullRefreshResult(plan, status, dry, NoManifest,
                                               attempts, RowCount, 0)
      <3>1. \/ ~eligible /\ Told("not_eligible", FALSE)
            \/ eligible /\ dry /\ Told("full_refresh_planned", FALSE)
            \/ eligible /\ ~dry /\ Told("unchanged_content", TRUE)
        BY <1>6 DEF FullRefreshReturns
      <3> HIDE DEF plan, eligible
      <3> QED BY <3>1
    <2> DEFINE x == [kind |-> "full_refresh", status |-> status, plan |-> plan,
                     request |-> request, previous |-> CurrentManifest,
                     published |-> NoManifest, attempts |-> attempts,
                     rows |-> RowCount, replaced |-> 0, dry |-> dry,
                     locked |-> ~dry]
    <2>2. FullRefreshResultAccepted(x)
      <3>1. request = IF plan.status = "full_refresh_required" THEN plan.effective
                      ELSE NoRange
        OBVIOUS
      <3> HIDE DEF plan, request
      <3> QED BY <1>3, <1>4, <2>1, <3>1 DEF FullRefreshResultAccepted
    <2>3. report' = x
      BY <2>1, <2>2 DEF FullRefreshResult, Built
    <2>4. report'.kind = "full_refresh" /\ report'.published = NoManifest
      BY <2>3
    <2> QED BY <1>1, <2>4 DEF ReportsTruly, IsPublication
  <1> QED BY <1>5, <1>6

\* Of a finite set, what is in another and what is not.
LEMMA Split ==
  ASSUME NEW F, IsFiniteSet(F), NEW B
  PROVE  /\ IsFiniteSet(F \ B) /\ IsFiniteSet(F \cap B)
         /\ Cardinality(F) \in Nat
         /\ Cardinality(F \ B) \in Nat /\ Cardinality(F \cap B) \in Nat
         /\ Cardinality(F \ B) + Cardinality(F \cap B) = Cardinality(F)
  <1>1. IsFiniteSet(F \ B) /\ IsFiniteSet(F \cap B)
    BY FS_Difference, FS_Intersection
  <1>2. /\ Cardinality(F) \in Nat /\ Cardinality(F \ B) \in Nat
        /\ Cardinality(F \cap B) \in Nat
    BY <1>1, FS_CardinalityType
  <1>3. Cardinality(F \ B) = Cardinality(F) - Cardinality(F \cap B)
    BY FS_Difference
  <1> QED BY <1>1, <1>2, <1>3

\* The counts of an update that published are those of the days.
LEMMA CountsAddUp ==
  ASSUME IInv, NEW r \in Ranges, NEW policy \in Policies, Update(r, policy),
         NEW plan, plan = Plan(Stored(bars), absent, r, policy),
         NEW before, before = Stored(bars), NEW after, after = Stored(bars'),
         NEW F, F = Within(after, plan.request),
         NEW revised, revised = {d \in before \cap after : bars'[d] # bars[d]}
  PROVE  /\ plan.status \in FetchStatuses
         /\ plan.status = "initial_import" => before = {}
         /\ Added(plan, F) = Cardinality(after \ before)
         /\ Added(plan, F) + Replaced(plan, F) = Cardinality(F)
         /\ revised \subseteq F
         /\ Cardinality(revised) <= Replaced(plan, F)
  <1>1. last' = plan
    BY DEF Update, Publish
  <1>2. /\ plan.status \in FetchStatuses
        /\ plan.status = "initial_import" => before = {}
        /\ plan.status = "incremental" => \A d \in before : d < plan.request.first
        /\ \A d \in Days : ~Contains(plan.request, d) => bars'[d] = bars[d]
        /\ plan.request \in Ranges
    BY <1>1, UpdateFacts
  <1>3. /\ before \in SUBSET Days /\ after \in SUBSET Days /\ F \in SUBSET Days
        /\ F \subseteq after /\ \A d \in F : Contains(plan.request, d)
    BY DEF Stored, Within
  <1>4. after \ before \subseteq F /\ revised \subseteq F \cap before
    <2>1. ASSUME NEW d \in after, d \notin before \/ bars'[d] # bars[d]
          PROVE  d \in F
      <3>1. d \in Days /\ bars'[d] # NoBar /\ (d \notin before => bars[d] = NoBar)
        BY <1>3 DEF Stored
      <3>2. Contains(plan.request, d)
        BY <1>2, <2>1, <3>1
      <3> QED BY <3>2 DEF Within
    <2> QED BY <2>1
  <1>5. after \ before = F \ before
    BY <1>3, <1>4
  <1>6. /\ IsFiniteSet(F \cap before) /\ Cardinality(F) \in Nat
        /\ Cardinality(F \ before) \in Nat /\ Cardinality(F \cap before) \in Nat
        /\ Cardinality(F \ before) + Cardinality(F \cap before) = Cardinality(F)
    BY <1>3, DaysFinite, Split
  <1>7. Cardinality(revised) <= Cardinality(F \cap before)
    BY <1>4, <1>6, FS_Subset
  <1>8. CASE plan.status = "overlap_refresh"
    <2>1. Added(plan, F) = Cardinality(F \ before)
      BY <1>8 DEF Added
    <2>2. Replaced(plan, F) = Cardinality(F \cap before)
      BY <1>8 DEF Replaced
    <2> QED BY <1>2, <1>4, <1>5, <1>6, <1>7, <2>1, <2>2
  <1>9. CASE plan.status # "overlap_refresh"
    <2>1. F \cap before = {}
      <3> SUFFICES ASSUME plan.status = "incremental", NEW d \in F, d \in before
                   PROVE  FALSE
        BY <1>2, <1>9 DEF FetchStatuses
      <3>1. plan.request.first <= d /\ d < plan.request.first
        BY <1>2, <1>3 DEF Contains
      <3>2. plan.request.first \in Int /\ d \in Int
        BY <1>2, <1>3 DEF Ranges
      <3> QED BY <3>1, <3>2
    <2>2. F \ before = F /\ revised = {} /\ Cardinality(revised) = 0
      BY <1>4, <2>1, FS_EmptySet
    <2>3. Added(plan, F) = Cardinality(F) /\ Replaced(plan, F) = 0
      BY <1>9 DEF Added, Replaced
    <2>4. /\ Cardinality(after \ before) = Cardinality(F)
          /\ Cardinality(F) + 0 = Cardinality(F)
      BY <1>5, <1>6, <2>2
    <2>5. revised \subseteq F /\ Cardinality(revised) <= 0
      BY <2>2
    <2> QED BY <1>2, <2>3, <2>4, <2>5
  <1> QED BY <1>8, <1>9

\* A manifest names what was published, and is none of the others.
LEMMA ManifestTold ==
  ASSUME NEW b \in [Days -> MaybeBar], NEW previous \in Rivals, TypeOK,
         NEW manifest, manifest = PublishedManifest(b, previous)
  PROVE  /\ manifest.content = b /\ manifest.previous = previous
         /\ manifest.rows = Cardinality(Stored(b))
         /\ manifest # NoManifest
  <1>1. \A c \in [Days -> MaybeBar] :
          IsFiniteSet(Stored(c)) /\ Cardinality(Stored(c)) \in Nat
    <2> TAKE c \in [Days -> MaybeBar]
    <2>1. Stored(c) \in SUBSET Days
      BY DEF Stored
    <2> QED BY <2>1, DaysFinite, FS_CardinalityType
  <1>2. CurrentManifest \in Manifests \cup {NoManifest}
    BY <1>1 DEF CurrentManifest, Manifest, Manifests, TypeOK
  <1>3. /\ manifest = [rows |-> Cardinality(Stored(b)), content |-> b,
                       previous |-> previous]
        /\ previous \in Manifests \cup {NoManifest, Rival}
        /\ Cardinality(Stored(b)) \in Nat
    BY <1>1, <1>2 DEF PublishedManifest, Rivals
  <1> QED BY <1>3, ManifestAssumption

\* A publication is told with its counts; what replaced the manifest of a
\* rival is an error.
LEMMA UpdatePublishesTruly ==
  ASSUME IInv, NEW r \in Ranges, NEW policy \in Policies,
         UpdatePublishes(r, policy)
  PROVE  ReportsTruly
  <1>1. PICK plan, F, previous, manifest :
          /\ previous \in Rivals /\ Update(r, policy)
          /\ plan = Plan(Stored(bars), absent, r, policy)
          /\ F = Within(Stored(bars'), plan.request)
          /\ manifest = PublishedManifest(bars', previous)
          /\ report' = AfterPublication(manifest, bars',
               UpdateResult(plan, PublishedStatus(plan.status), FALSE, manifest,
                            TRUE, Cardinality(Stored(bars')),
                            Added(plan, F), Replaced(plan, F)))
    BY DEF UpdatePublishes
  <1>2. /\ bars' \in [Days -> MaybeBar] /\ TypeOK
    BY <1>1, UpdateFacts DEF IInv
  <1>3. /\ manifest.content = bars' /\ manifest.previous = previous
        /\ manifest.rows = Cardinality(Stored(bars'))
        /\ manifest # NoManifest
    BY <1>1, <1>2, ManifestTold
  <1>4. CASE ~ManifestValid(manifest, bars')
    <2>1. report' = Error("repository_contract_violation", "publish_response", TRUE)
      BY <1>1, <1>4 DEF AfterPublication
    <2>2. report'.kind = "error" /\ report'.stage = "publish_response" /\ ~report'.retryable
      BY <2>1 DEF Error, CoordinatorError, Built, ErrorAccepted, Stages
    <2> QED BY <2>2 DEF ReportsTruly, IsPublication, MayHavePublished
  <1>5. CASE ManifestValid(manifest, bars')
    <2> DEFINE status == PublishedStatus(plan.status)
               x == [kind |-> "update", status |-> status, plan |-> plan,
                     previous |-> CurrentManifest, published |-> manifest,
                     attempts |-> TRUE, rows |-> Cardinality(Stored(bars')),
                     added |-> Added(plan, F), replaced |-> Replaced(plan, F),
                     dry |-> FALSE]
               revised == {d \in Stored(bars) \cap Stored(bars') : bars'[d] # bars[d]}
    <2>1. /\ plan.status \in FetchStatuses
          /\ plan.status = "initial_import" => Stored(bars) = {}
          /\ Added(plan, F) = Cardinality(Stored(bars') \ Stored(bars))
          /\ Added(plan, F) + Replaced(plan, F) = Cardinality(F)
          /\ revised \subseteq F
          /\ Cardinality(revised) <= Replaced(plan, F)
      <3>1. PICK before, after, changed :
              /\ before = Stored(bars) /\ after = Stored(bars')
              /\ changed = {d \in before \cap after : bars'[d] # bars[d]}
              /\ changed = revised
        OBVIOUS
      <3> HIDE DEF revised
      <3> QED BY <1>1, <3>1, CountsAddUp
    <2> HIDE DEF revised
    <2>2. /\ status \in PublishedStatuses /\ status \notin PlannedStatuses
          /\ status = "initial_import_published" => CurrentManifest = NoManifest
      BY <2>1 DEF FetchStatuses, PublishedStatus, PublishedStatuses,
                  PlannedStatuses, CurrentManifest
    <2> HIDE DEF status
    <2>3. UpdateResultAccepted(x)
      BY <1>3, <2>2 DEF UpdateResultAccepted
    <2>4. report' = x
      BY <1>1, <1>5, <2>3 DEF AfterPublication, UpdateResult, Built, status
    <2>5. /\ report'.kind = "update" /\ report'.published = manifest
          /\ report'.rows = Cardinality(Stored(bars')) /\ report'.plan = plan
          /\ report'.added = Added(plan, F) /\ report'.replaced = Replaced(plan, F)
      BY <2>4
    <2>6. manifest.previous = CurrentManifest
      BY <1>5 DEF ManifestValid
    <2>7. CountsTrue(report')
      BY <1>1, <1>3, <2>1, <2>5, <2>6 DEF CountsTrue, revised
    <2> QED BY <1>3, <2>5, <2>7 DEF ReportsTruly, IsPublication
  <1> QED BY <1>4, <1>5

\* A full refresh tells its publication, or that its lock was not released.
LEMMA RefreshPublishesTruly ==
  ASSUME IInv, NEW r \in Ranges, NEW policy \in Policies,
         FullRefreshPublishes(r, policy)
  PROVE  ReportsTruly
  <1>1. CASE report' = LockError("lock_release_failed")
    <2>1. /\ report'.kind = "lock_error" /\ report'.code = "lock_release_failed"
          /\ ~report'.retryable
      BY <1>1 DEF LockError
    <2> QED BY <2>1 DEF ReportsTruly, IsPublication, MayHavePublished
  <1>2. CASE report' # LockError("lock_release_failed")
    <2>1. PICK plan, previous, manifest :
            /\ previous \in Rivals /\ FullRefresh(r, policy)
            /\ plan = Plan(Stored(bars), absent, r, policy)
            /\ manifest = PublishedManifest(bars', previous)
            /\ report' = AfterPublication(manifest, bars',
                 FullRefreshResult(plan, "full_refresh_published", FALSE, manifest,
                                   TRUE, Cardinality(Stored(bars')), RowCount))
      BY <1>2 DEF FullRefreshPublishes
    <2>2. /\ bars' \in [Days -> MaybeBar] /\ TypeOK
          /\ plan.status = "full_refresh_required" /\ plan.effective \in Ranges
      <3>1. last' = plan
        BY <2>1 DEF FullRefresh, Publish
      <3> QED BY <2>1, <3>1, RefreshFacts DEF IInv
    <2>3. /\ manifest.content = bars' /\ manifest.previous = previous
          /\ manifest.rows = Cardinality(Stored(bars'))
          /\ manifest # NoManifest
      BY <2>1, <2>2, ManifestTold
    <2>4. CASE ~ManifestValid(manifest, bars')
      <3>1. report' = Error("repository_contract_violation", "publish_response", TRUE)
        BY <2>1, <2>4 DEF AfterPublication
      <3>2. report'.kind = "error" /\ report'.stage = "publish_response" /\ ~report'.retryable
        BY <3>1 DEF Error, CoordinatorError, Built, ErrorAccepted, Stages
      <3> QED BY <3>2 DEF ReportsTruly, IsPublication, MayHavePublished
    <2>5. CASE ManifestValid(manifest, bars')
      <3> DEFINE x == [kind |-> "full_refresh", status |-> "full_refresh_published",
                       plan |-> plan, request |-> plan.effective,
                       previous |-> CurrentManifest, published |-> manifest,
                       attempts |-> TRUE, rows |-> Cardinality(Stored(bars')),
                       replaced |-> RowCount, dry |-> FALSE, locked |-> TRUE]
      <3>1. /\ CurrentManifest # NoManifest /\ CurrentManifest.rows = RowCount
            /\ plan.effective # NoRange
        <4>1. Stored(bars) # {}
          BY <2>1, <2>2 DEF Plan, Status
        <4>2. Stored(bars) \in SUBSET Days
          BY DEF Stored
        <4>3. RowCount \in Nat
          BY <4>2, DaysFinite, FS_CardinalityType DEF RowCount
        <4>4. CurrentManifest = [rows |-> RowCount, content |-> bars]
          BY <4>1 DEF CurrentManifest, Manifest, RowCount
        <4>5. CurrentManifest \in Manifests
          BY <2>2, <4>3, <4>4 DEF Manifests, TypeOK
        <4> QED BY <2>2, <4>4, <4>5, ManifestAssumption DEF Ranges
      <3>2. manifest.previous = CurrentManifest
        BY <2>5 DEF ManifestValid
      <3>3. FullRefreshResultAccepted(x)
        BY <2>2, <2>3, <3>1, <3>2 DEF FullRefreshResultAccepted
      <3>4. report' = x
        BY <2>1, <2>2, <2>5, <3>3 DEF AfterPublication, FullRefreshResult, Built
      <3>5. /\ report'.kind = "full_refresh" /\ report'.published = manifest
            /\ report'.rows = Cardinality(Stored(bars'))
            /\ report'.replaced = RowCount
        BY <3>4
      <3>6. CountsTrue(report')
        BY <2>3, <3>2, <3>5 DEF CountsTrue, RowCount
      <3> QED BY <2>3, <3>5, <3>6 DEF ReportsTruly, IsPublication
    <2> QED BY <2>4, <2>5
  <1> QED BY <1>1, <1>2

\* What the operator is told is what happened, whatever the providers, the
\* repository, the lock and a rival do.
THEOREM CallsAreReportedTruly == RecordSpec => CallsReportTruly
  <1>1. IInv /\ [RecordNext]_<<vars, report>> => [ReportsTruly]_<<vars, report>>
    <2> SUFFICES ASSUME IInv, RecordNext PROVE ReportsTruly
      OBVIOUS
    <2>1. CASE NewEvidence /\ report' = NoReport
      BY <2>1 DEF NewEvidence, NoReport, ReportsTruly, IsPublication
    <2>2. ASSUME NEW r \in Ranges, NEW policy \in Policies, NEW dry \in BOOLEAN,
                 \/ UpdatePublishes(r, policy) \/ FullRefreshPublishes(r, policy)
                 \/ UpdateReturns(r, policy, dry) \/ UpdateFails(r, policy, dry)
                 \/ FullRefreshReturns(r, policy, dry)
                 \/ FullRefreshFails(r, policy, dry)
          PROVE  ReportsTruly
      BY <2>2, UpdatePublishesTruly, RefreshPublishesTruly, ReturnsTruly,
         FailsTruly DEF IInv
    <2> QED BY <2>1, <2>2 DEF RecordNext
  <1> QED BY <1>1, RecordsFollow, Invariant, PTL DEF RecordSpec, CallsReportTruly
=============================================================================
