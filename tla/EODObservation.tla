---------------------------- MODULE EODObservation ----------------------------
(***************************************************************************)
(* The two kinds of local evidence an EOD runtime is built on: the trading *)
(* calendar (market_data/local_calendar.py, calendar.py) and the days on   *)
(* which a dataset legitimately has no bar (market_data/                   *)
(* local_observation.py, observation.py); and what follows from both for   *)
(* the readiness of the data (market_data/readiness.py).                   *)
(*                                                                         *)
(* Both come from JSON artifacts that people write: an artifact is a       *)
(* record of what it says, right or wrong, and loading it gives an error   *)
(* code or the evidence.  Dates are integers; the shape of the JSON and    *)
(* the spelling of identifiers are left out.                               *)
(***************************************************************************)
EXTENDS Integers, SequencesExt, FiniteSetsExt

Loaded == "loaded"   \* no error

DateRange(first, last) == [first |-> first, last |-> last]
InRange(r, d)          == r.first <= d /\ d <= r.last

StrictlyIncreasing(s) == \A i \in 1..(Len(s) - 1) : s[i] < s[i + 1]
NoRepetition(s)       == Cardinality(ToSet(s)) = Len(s)
IsSequence(s)         == s \in Seq(ToSet(s))

\* The elements of a finite set, in the order of which `before` has the pairs.
InOrder(S, before) ==
  [n \in 1..Cardinality(S) |->
     CHOOSE e \in S : Cardinality({f \in S : <<f, e>> \in before}) = n - 1]

Ascending(S) == InOrder(S, {p \in S \X S : p[1] < p[2]})

\* What a sequence has at some places.
Picked(s, places) ==
  LET order == Ascending(places) IN [n \in DOMAIN order |-> s[order[n]]]

-----------------------------------------------------------------------------
(* local_calendar.py: VersionedLocalTradingCalendar                        *)

\* An artifact: [id, version, first, last, days]; days is a sequence of
\* [date, open], the date and whether the exchange is open.
DatesOf(days) == [i \in DOMAIN days |-> days[i].date]
OpenOf(days)  == {days[i].date : i \in {n \in DOMAIN days : days[n].open}}

\* The first day of the list that cannot follow those before it.
FirstBadDay(days) ==
  LET bad == {i \in DOMAIN days : \E k \in 1..(i - 1) :
                 \/ days[k].date = days[i].date
                 \/ k = i - 1 /\ days[i].date < days[k].date}
  IN  IF bad = {} THEN 0 ELSE Min(bad)

DayErrors(artifact) ==
  LET days == artifact.days
      bad  == FirstBadDay(days)
  IN  IF bad # 0
      THEN IF \E k \in 1..(bad - 1) : days[k].date = days[bad].date
           THEN "duplicate_date" ELSE "unordered_dates"
      ELSE IF DatesOf(days) # [i \in 1..Len(days) |-> artifact.first + i - 1]
           THEN "incomplete_coverage"
      ELSE IF OpenOf(days) = {} THEN "empty_calendar" ELSE Loaded

\* Every calendar day of the coverage has to be listed, in order.
load_calendar(artifact) ==
  IF artifact.first > artifact.last THEN "invalid_coverage"
  ELSE IF artifact.days = <<>> THEN "empty_calendar"
  ELSE IF Len(artifact.days) # artifact.last - artifact.first + 1
       THEN "incomplete_coverage"
  ELSE DayErrors(artifact)

\* The identity names the artifact and its coverage, not what it says of a day.
calendar_identity(artifact) ==
  [id |-> artifact.id, version |-> artifact.version,
   first |-> artifact.first, last |-> artifact.last]

Calendar(artifact) ==
  [identity |-> calendar_identity(artifact), open |-> OpenOf(artifact.days)]

Covered(cal, d) == InRange(cal.identity, d)

is_trading_day(cal, d) == d \in cal.open

\* trading_days raises outside_coverage.
HasTradingDays(cal, r) == Covered(cal, r.first) /\ Covered(cal, r.last)
trading_days(cal, r)   == {d \in cal.open : InRange(r, d)}

-----------------------------------------------------------------------------
(* local_observation.py: VersionedLocalObservationExpectation              *)

\* An artifact: [source, version, dataset, absent]; absent is a sequence of
\* dates.  Strict stands for the default, that every trading day has a bar.
Strict == [source |-> "strict", version |-> "1", dataset |-> "any", absent |-> <<>>]

load_observation(artifact, cal, dataset) ==
  IF artifact.dataset # dataset THEN "dataset_mismatch"
  ELSE IF ~NoRepetition(artifact.absent) THEN "duplicate_absence"
  ELSE IF ~StrictlyIncreasing(artifact.absent) THEN "unordered_absences"
  ELSE IF \E i \in DOMAIN artifact.absent :
            ~(Covered(cal, artifact.absent[i])
              /\ is_trading_day(cal, artifact.absent[i]))
       THEN "non_trading_absence"
  ELSE Loaded

\* The artifact is its own logical identity: all it says, and no path.
observation_identity(expectation) == expectation

ConfirmedAbsent(expectation) == ToSet(expectation.absent)

expected_observation_dates(expectation, cal, r) ==
  trading_days(cal, r) \ ConfirmedAbsent(expectation)

is_observation_expected(expectation, cal, d) ==
  expected_observation_dates(expectation, cal, DateRange(d, d)) # {}

-----------------------------------------------------------------------------
(* readiness.py: whether the configured datasets have what a trading day   *)
(* should bring.  A scope is a set of datasets, an observed date the last  *)
(* day that was seen of a dataset (NoDate: none), an expectation the       *)
(* evidence of its absent days.  The provider is left out.                 *)

NoDate == -1

TerminalStatuses == {"unavailable", "unsupported"}

\* The walks back in the calendar raise where it has no earlier open day.
ExpectedBefore(cal, expectation, d) ==
  {e \in cal.open : e < d /\ is_observation_expected(expectation, cal, e)}

\* The last expected day that is not after d; NoDate where the walk raises.
RequiredDate(cal, expectation, d) ==
  IF is_observation_expected(expectation, cal, d) THEN d
  ELSE IF ExpectedBefore(cal, expectation, d) = {} THEN NoDate
  ELSE Max(ExpectedBefore(cal, expectation, d))

\* An observation before the expected day before that one is stale.
StaleThreshold(cal, expectation, required) ==
  IF ExpectedBefore(cal, expectation, required) = {} THEN NoDate
  ELSE Max(ExpectedBefore(cal, expectation, required))

Readiness(status, watermark, count) ==
  [status |-> status, watermark |-> watermark, observed_count |-> count]

\* Calls that raise.
ReadinessRaises(cal, d, observed, expectations) ==
  \/ \E k \in DOMAIN observed :
       /\ observed[k] # NoDate
       /\ \/ observed[k] > d
          \/ ~Covered(cal, observed[k])
          \/ ~is_observation_expected(expectations[k], cal, observed[k])
  \/ \E k \in DOMAIN observed :
       LET required == RequiredDate(cal, expectations[k], d) IN
       required = NoDate \/ StaleThreshold(cal, expectations[k], required) = NoDate

\* Mutant of Classified: a dataset is stale as soon as it is not ready.
Classified_AnyLag(observed, required, threshold) ==
  LET ready == {k \in DOMAIN observed : observed[k] = required[k]} IN
  IF ready = DOMAIN observed THEN "ready"
  ELSE IF \E k \in DOMAIN observed :
            observed[k] # NoDate /\ observed[k] <= threshold[k] THEN "stale"
  ELSE IF ready # {} THEN "partial" ELSE "not_ready"

Classified(observed, required, threshold) ==
  LET ready == {k \in DOMAIN observed : observed[k] = required[k]} IN
  IF ready = DOMAIN observed THEN "ready"
  ELSE IF \E k \in DOMAIN observed :
            observed[k] # NoDate /\ observed[k] < threshold[k] THEN "stale"
  ELSE IF ready # {} THEN "partial" ELSE "not_ready"

Watermark(observed) ==
  IF \E k \in DOMAIN observed : observed[k] = NoDate THEN NoDate
  ELSE Min({observed[k] : k \in DOMAIN observed})

\* terminal is one of TerminalStatuses, or "none".
evaluate_eod_provider_readiness(cal, d, observed, expectations, terminal) ==
  IF ~Covered(cal, d) THEN Readiness("raises", NoDate, 0)
  ELSE IF ~is_trading_day(cal, d) THEN Readiness("not_expected", NoDate, 0)
  ELSE IF terminal \in TerminalStatuses THEN Readiness(terminal, NoDate, 0)
  ELSE IF ReadinessRaises(cal, d, observed, expectations)
       THEN Readiness("raises", NoDate, 0)
  ELSE LET required  == [k \in DOMAIN observed |-> RequiredDate(cal, expectations[k], d)]
           threshold == [k \in DOMAIN observed |->
                           StaleThreshold(cal, expectations[k], required[k])]
       IN  Readiness(Classified(observed, required, threshold), Watermark(observed),
                     Cardinality({k \in DOMAIN observed : observed[k] = required[k]}))
=============================================================================
