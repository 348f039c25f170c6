-------------------------------- MODULE EODBars --------------------------------
(***************************************************************************)
(* From what a provider's endpoint answers to the bars of a result:        *)
(* market_data/akshare_adapters.py, tushare_adapters.py,                   *)
(* dataframe_conversion.py, normalization.py, validation.py, and           *)
(* EODProviderResult and its validation in providers.py.                   *)
(*                                                                         *)
(* An answer: [outcome, columns, rows].  A row: [symbol, date, close,      *)
(* fault]; the fault is that of a cell that cannot be read, of numbers     *)
(* that are no bar, or none.  A bar: [dataset, date, close]; the other     *)
(* numbers stand and fall with close.                                      *)
(***************************************************************************)
EXTENDS EODCapabilities, EODObservation

Malformed   == "malformed_provider_payload"
Unsupported == "unsupported_request"
Temporary   == "temporary_provider_failure"
Unavailable == "provider_unavailable"
Permanent   == "permanent_provider_failure"

\* No date range is empty: this one stands for none.
AnyRange == DateRange(1, 0)

-----------------------------------------------------------------------------
(* validation.py: validate_eod_batch.  An EODBar has consistent numbers by *)
(* its constructor, so the checks of numbers find nothing.                 *)

Observed(dataset, bars) ==
  {bars[i].date : i \in {n \in DOMAIN bars : bars[n].dataset = dataset}}

BarErrors(dataset, bar, cal, r, expectation) ==
  (IF bar.dataset # dataset THEN {"dataset_mismatch"} ELSE {}) \cup
  (IF r # AnyRange /\ ~InRange(r, bar.date) THEN {"date_out_of_range"} ELSE {}) \cup
  (IF ~Covered(cal, bar.date) THEN {"invalid_calendar"}
   ELSE IF ~is_trading_day(cal, bar.date) THEN {"non_trading_date"}
   ELSE IF ~is_observation_expected(expectation, cal, bar.date)
        THEN {"unexpected_observation"}
   ELSE {})

\* A bar that repeats the first one of its dataset and day, equal or not.
Repeats(bars, equal) ==
  {i \in DOMAIN bars :
     \E k \in 1..(i - 1) :
       /\ bars[k].dataset = bars[i].dataset /\ bars[k].date = bars[i].date
       /\ \A j \in 1..(k - 1) :
            <<bars[j].dataset, bars[j].date>> # <<bars[i].dataset, bars[i].date>>
       /\ (bars[k] = bars[i]) = equal}

validate_eod_batch(dataset, bars, cal, r, expectation) ==
  LET observed == Observed(dataset, bars)
      ranged   == r # AnyRange /\ HasTradingDays(cal, r)
      expected == IF ranged THEN expected_observation_dates(expectation, cal, r)
                  ELSE {}
      trading  == IF ranged THEN trading_days(cal, r) ELSE {}
  IN  [errors |->
         (IF bars = <<>> THEN {"empty_batch"} ELSE {}) \cup
         UNION {BarErrors(dataset, bars[i], cal, r, expectation) : i \in DOMAIN bars} \cup
         (IF Repeats(bars, FALSE) # {} THEN {"duplicate_conflicting_bar"} ELSE {}) \cup
         (IF r # AnyRange /\ ~ranged THEN {"invalid_calendar"} ELSE {}),
       sorted  |-> \A i \in 2..Len(bars) : bars[i - 1].date <= bars[i].date,
       repeats |-> Repeats(bars, TRUE) \cup Repeats(bars, FALSE),
       missing_trading_dates  |-> trading \ observed,
       confirmed_absent_dates |-> trading \ expected,
       missing_expected_observation_dates |-> expected \ observed]

-----------------------------------------------------------------------------
(* normalization.py: normalize_eod_bars, of bars of one dataset            *)

\* The sort is stable.
Earlier(bars) ==
  {p \in (DOMAIN bars) \X (DOMAIN bars) :
     LET a == bars[p[1]].date
         b == bars[p[2]].date
     IN  a < b \/ (a = b /\ p[1] < p[2])}

normalize_eod_bars(bars) ==
  LET order == InOrder(DOMAIN bars, Earlier(bars)) IN
  [n \in DOMAIN order |-> bars[order[n]]]

-----------------------------------------------------------------------------
(* dataframe_conversion.py and _frame_to_bars of tushare_adapters.py       *)

BarOf(dataset, row) ==
  [dataset |-> dataset, date |-> row.date, close |-> row.close]

BarsOf(dataset, rows) == [i \in DOMAIN rows |-> BarOf(dataset, rows[i])]

\* AKShare names no symbol in its rows; every column is found by its name.
Convertible(rows, r) ==
  /\ \A i \in DOMAIN rows : rows[i].fault = "none" /\ InRange(r, rows[i].date)
  /\ NoRepetition([i \in DOMAIN rows |-> rows[i].date])

Refused         == [error |-> Malformed, bars |-> <<>>]
Converted(bars) == [error |-> Loaded, bars |-> bars]

convert_eod_dataframe_to_bars(answer, dataset, r) ==
  IF answer.rows = <<>> THEN Converted(<<>>)
  ELSE IF ~answer.columns \/ ~Convertible(answer.rows, r) THEN Refused
  ELSE Converted(normalize_eod_bars(BarsOf(dataset, answer.rows)))

\* Volumes in lots and amounts in thousands become shares and yuan here.  Days
\* that are repeated are refused by EODProviderResult.
tushare_frame_to_bars(answer, dataset, r) ==
  LET rows == answer.rows IN
  IF rows = <<>> THEN Converted(<<>>)
  ELSE IF \/ ~answer.columns
          \/ \E i \in DOMAIN rows : \/ rows[i].symbol # dataset.symbol
                                    \/ rows[i].fault # "none"
                                    \/ ~InRange(r, rows[i].date)
       THEN Refused
  ELSE Converted(BarsOf(dataset, rows))

\* _filter_index_daily_frame: the endpoint sends its whole history.
filter_index_daily_frame(answer, dataset, r) ==
  IF answer.rows # <<>> /\ (~answer.columns
       \/ \E i \in DOMAIN answer.rows : answer.rows[i].fault = "date")
  THEN Refused
  ELSE convert_eod_dataframe_to_bars(
         [answer EXCEPT !.rows = Picked(@, {n \in DOMAIN @ : InRange(r, @[n].date)})],
         dataset, r)

-----------------------------------------------------------------------------
(* providers.py: EODProviderResult, validate_eod_provider_result           *)

Failure(error)           == [error |-> error, status |-> "failed", bars |-> <<>>]
ProviderResult(status, bars) == [error |-> Loaded, status |-> status, bars |-> bars]

\* _result_status of the adapters.
result_status(bars, expected) ==
  IF bars = <<>> THEN "empty"
  ELSE IF ToSet([i \in DOMAIN bars |-> bars[i].date]) = expected THEN "success"
  ELSE "partial_success"

\* A day that is repeated is refused when the result is made.
validate_eod_provider_result(dataset, r, cal, expectation, status, bars) ==
  LET report == validate_eod_batch(dataset, bars, cal, r, expectation) IN
  IF ~NoRepetition([i \in DOMAIN bars |-> bars[i].date]) THEN Failure(Malformed)
  ELSE IF status = "empty"
  THEN IF expected_observation_dates(expectation, cal, r) = {}
       THEN Failure(Malformed) ELSE ProviderResult("empty", <<>>)
  ELSE IF report.errors # {} THEN Failure(Malformed)
  ELSE IF (status = "success") # (report.missing_expected_observation_dates = {})
       THEN Failure(Malformed)
  ELSE ProviderResult(status, normalize_eod_bars(bars))

-----------------------------------------------------------------------------
(* akshare_adapters.py and tushare_adapters.py: fetch                      *)

\* The outcomes of a call of an endpoint, but for an answer.  Only Tushare
\* needs a token and reads the text of an exception.
endpoint_error(name, outcome) ==
  CASE outcome = "network" -> Temporary
    [] outcome \in {"no_client", "other"} -> Unavailable
    [] outcome = "rate_limited" ->
         IF name = "tushare_eod_equity" THEN Temporary ELSE Unavailable
    [] outcome \in {"no_token", "no_permission"} ->
         IF name = "tushare_eod_equity" THEN Permanent ELSE Unavailable

endpoint_bars(name, answer, dataset, r) ==
  CASE name = "tushare_eod_equity"      -> tushare_frame_to_bars(answer, dataset, r)
    [] name = "akshare_eod_index_daily" -> filter_index_daily_frame(answer, dataset, r)
    [] OTHER                            -> convert_eod_dataframe_to_bars(answer, dataset, r)

\* The expectation is that of the adapter: strict but for Tushare.
fetch(name, dataset, r, cal, expectation, answer) ==
  LET capabilities == lookup(name).capabilities
      expected     == expected_observation_dates(expectation, cal, r)
      converted    == endpoint_bars(name, answer, dataset, r)
  IN  IF ~RequestSupported(capabilities, dataset) THEN Failure(Unsupported)
      ELSE IF ~HasTradingDays(cal, r) THEN Failure(Malformed)
      ELSE IF expected = {} THEN Failure(Unsupported)
      ELSE IF dataset.asset = "index" /\ dataset.symbol \notin IndexSymbols
           THEN Failure(Unsupported)
      ELSE IF answer.outcome # "answer"
           THEN Failure(endpoint_error(name, answer.outcome))
      ELSE IF converted.error # Loaded THEN Failure(converted.error)
      ELSE validate_eod_provider_result(dataset, r, cal, expectation,
             result_status(converted.bars, expected), converted.bars)
=============================================================================
