----------------------------- MODULE EODPlanning -----------------------------
(***************************************************************************)
(* plan_eod_request_window (market_data/planning.py): which days a call    *)
(* has to fetch, from the requested range, the trading calendar, the days  *)
(* confirmed absent (market_data/local_observation.py) and the days that   *)
(* are stored.  Of the current manifest the planner uses the first and the *)
(* last date, which are those of its bars.                                 *)
(***************************************************************************)
EXTENDS FiniteSetsExt

CONSTANTS
  Days,          \* dates
  TradingDays,   \* those on which the exchange is open
  Adjusted,      \* whether the prices of the dataset are adjusted (qfq, hfq)
  MaxOverlap,    \* bound on overlap_trading_days
  NoRange

ASSUME CalendarAssumption ==
  /\ Days \subseteq Int
  /\ TradingDays \subseteq Days
  /\ Adjusted \in BOOLEAN
  /\ MaxOverlap \in Nat
  /\ NoRange \notin [first : Days, last : Days]

\* A range of dates is finite.
ASSUME DaysAssumption ==
  \A S \in SUBSET Days : S # {} =>
    /\ \E d \in S : \A e \in S : d =< e
    /\ \E d \in S : \A e \in S : d >= e

Ranges == {r \in [first : Days, last : Days] : r.first <= r.last}

Contains(r, d)  == r.first <= d /\ d <= r.last
Within(S, r)    == {d \in S : Contains(r, d)}

Policies ==
  [strategy : {"append_only", "full_refresh_required"}, overlap : {0}]
    \cup [strategy : {"overlap_window"}, overlap : 1..MaxOverlap]

FetchStatuses == {"initial_import", "incremental", "overlap_refresh"}
PlanStatuses  == FetchStatuses \cup
  {"no_trading_days", "no_expected_observations", "already_current",
   "full_refresh_required", "invalid"}

Plans == [status : PlanStatuses, effective : Ranges \cup {NoRange},
          request : Ranges \cup {NoRange}]

Effective(expected) == [first |-> Min(expected), last |-> Max(expected)]

\* The first and last stored day have to be days that are expected.
EndsExpected(stored, absent) ==
  Min(stored) \notin absent /\ Max(stored) \notin absent

\* Mutant of LeftGap: off by one.
LeftGap_OrEqual(stored, effective) == Min(stored) >= effective.first

LeftGap(stored, effective) == Min(stored) > effective.first

StatusOf(strategy) ==
  CASE strategy = "append_only"           -> "incremental"
    [] strategy = "overlap_window"        -> "overlap_refresh"
    [] strategy = "full_refresh_required" -> "full_refresh_required"

\* The outcomes in the order of the planner's returns; "invalid" is an error.
Status(stored, absent, trading, policy) ==
  LET expected  == trading \ absent
      effective == Effective(expected)
  IN  IF trading = {} THEN "no_trading_days"
      ELSE IF policy.strategy = "append_only" /\ Adjusted THEN "invalid"
      ELSE IF expected = {} THEN "no_expected_observations"
      ELSE IF stored = {} THEN "initial_import"
      ELSE IF ~EndsExpected(stored, absent) THEN "invalid"
      ELSE IF Max(stored) > effective.last THEN "invalid"
      ELSE IF LeftGap(stored, effective) THEN "full_refresh_required"
      ELSE IF Max(stored) = effective.last THEN "already_current"
      ELSE StatusOf(policy.strategy)

AppendStart(stored, expected) == Min({d \in expected : d > Max(stored)})

\* The last `overlap` expected days that are not after the last stored one.
OverlapStart(stored, expected, overlap) ==
  LET existing == {d \in expected : d <= Max(stored)}
  IN  IF existing = {} THEN Min(expected)
      ELSE Min({d \in existing :
                  Cardinality({e \in existing : e > d}) < overlap})

RequestStart(status, stored, expected, overlap) ==
  CASE status = "initial_import"  -> Min(expected)
    [] status = "incremental"     -> AppendStart(stored, expected)
    [] status = "overlap_refresh" -> OverlapStart(stored, expected, overlap)

Plan(stored, absent, r, policy) ==
  LET trading   == Within(TradingDays, r)
      expected  == trading \ absent
      status    == Status(stored, absent, trading, policy)
  IN  [status    |-> status,
       effective |-> IF expected = {} THEN NoRange ELSE Effective(expected),
       request   |-> IF status \in FetchStatuses
                     THEN [first |-> RequestStart(status, stored, expected,
                                                  policy.overlap),
                           last  |-> Max(expected)]
                     ELSE NoRange]
=============================================================================
