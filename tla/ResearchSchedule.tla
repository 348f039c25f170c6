-------------------------- MODULE ResearchSchedule --------------------------
(***************************************************************************)
(* From market data to the schedule of target weights of a research run:   *)
(*   src/autowealth/research/real_pipeline.py (price frames, signal dates, *)
(*       candidates, _build_weight_schedule)                               *)
(*   src/autowealth/data/fundamental_schema.py                             *)
(*                                                                         *)
(* The inputs of a run are one record:                                     *)
(*   prices   for each symbol with usable prices, a function from days to  *)
(*            bars [close, volume]                                         *)
(*   reports  for each of those symbols, a sequence of financial reports   *)
(*   macro    a sequence of macro rows                                     *)
(* A report names the symbol its provider filed it under, its period       *)
(* (date), the day it was published (available), the day it was fetched,   *)
(* and its figures.                                                        *)
(***************************************************************************)
EXTENDS PortfolioBacktest, ResearchFactors, ResearchMacro

CONSTANTS
  FetchStart,        \* price_fetch_start_date: StartDay less the lookback
  EdgeTolerance,     \* PRICE_WINDOW_EDGE_TOLERANCE_CALENDAR_DAYS
  CandidateSymbols   \* the configured symbols, in order

ASSUME ScheduleAssumption ==
  /\ FetchStart \in Nat /\ FetchStart <= StartDay
  /\ EdgeTolerance \in Nat
  /\ CandidateSymbols \in Seq(Symbols)
  /\ "unknown" \in Industries

---------------------------------------------------------------------------
(* Prices *)

\* What is kept of a provider's or a cache's frame.
prepare_price_frame(raw) ==
  [d \in {e \in DOMAIN raw : /\ FetchStart <= e /\ e <= EndDay
                             /\ raw[e].close # Missing /\ raw[e].close > 0} |-> raw[d]]

\* The frame starts and ends near enough to the window that was asked for.
price_window_coverage(frame) ==
  /\ DOMAIN frame # {}
  /\ Min(DOMAIN frame) <= Least(EndDay, FetchStart + EdgeTolerance)
  /\ Max(DOMAIN frame) >= Greatest(FetchStart, EndDay - EdgeTolerance)

\* The days every symbol has a bar on.
aligned_trading_dates(prices) ==
  {d \in FetchStart..EndDay : \A s \in DOMAIN prices : d \in DOMAIN prices[s]}

execution_dates(prices) ==
  generate_rebalance_dates({d \in aligned_trading_dates(prices) : StartDay <= d})

\* Mutant of signal_date_before: the execution day is a signal day itself.
signal_date_before_Same(prices, execution) ==
  LET prior == {d \in aligned_trading_dates(prices) : d <= execution}
  IN  IF prior = {} THEN NoDate ELSE Max(prior)

\* The last aligned day before the execution day.
signal_date_before(prices, execution) ==
  LET prior == {d \in aligned_trading_dates(prices) : d < execution}
  IN  IF prior = {} THEN NoDate ELSE Max(prior)

PriceHistory(frame, signal) == [d \in {e \in DOMAIN frame : e <= signal} |-> frame[d]]

Closes(history) ==
  LET days == SetToSortSeq(DOMAIN history, LAMBDA d, e : d < e)
  IN  [i \in DOMAIN days |-> history[days[i]].close]

Volumes(history) ==
  LET days == SetToSortSeq(DOMAIN history, LAMBDA d, e : d < e)
  IN  [i \in DOMAIN days |-> history[days[i]].volume]

---------------------------------------------------------------------------
(* Reports *)

\* A report published before the end of its own period has no publication
\* day; of reports for one period published on one day the one fetched last
\* is kept, one without a fetch time being the last of all.
SameReport(r, q) == r.symbol = q.symbol /\ r.date = q.date /\ r.available = q.available

FetchedBefore(r, q) == r.fetched # NoDate /\ (q.fetched = NoDate \/ r.fetched < q.fetched)

Dated(r) ==
  IF r.available # NoDate /\ r.date # NoDate /\ r.available < r.date
  THEN [r EXCEPT !.available = NoDate] ELSE r

Superseded(rows, i) ==
  \E j \in DOMAIN rows :
    /\ SameReport(rows[i], rows[j])
    /\ \/ FetchedBefore(rows[i], rows[j])
       \/ rows[i].fetched = rows[j].fetched /\ i < j

\* The rows that are kept, each at its place.
Deduplicated(rows) == [i \in {j \in DOMAIN rows : ~ Superseded(rows, j)} |-> rows[i]]

validate_fundamental_history(raw) == Deduplicated([i \in DOMAIN raw |-> Dated(raw[i])])

\* The rows of one symbol that were public by the cutoff.
KnownReports(rows, symbol, cutoff) ==
  [i \in {j \in Published(rows, cutoff) : rows[j].symbol = symbol} |-> rows[i]]

latest_fundamental_asof(rows, symbol, cutoff) == LatestOf(KnownReports(rows, symbol, cutoff))

---------------------------------------------------------------------------
(* Candidates and weights at one execution date *)

factor_scores(history, report) ==
  calculate_factor_scores(
    IF report = NoRow THEN NoFinancials ELSE financial_factor_inputs(report),
    Closes(history), Volumes(history))

composite_for_date(inputs, symbol, signal) ==
  factor_scores(PriceHistory(inputs.prices[symbol], signal),
                latest_fundamental_asof(inputs.reports[symbol], symbol, signal))

\* What the snapshot row of a symbol says was used at an execution date: the
\* factors with data, and when the report and the macro row became public.
skipped_signal_snapshot ==
  [signal |-> NoDate, available |-> {}, report_available |-> NoDate, macro_available |-> NoDate]

PublishedOn(row) == IF row = NoRow THEN NoDate ELSE row.available

factor_snapshot_row(inputs, symbol, signal) ==
  [signal |-> signal,
   available |-> composite_for_date(inputs, symbol, signal).available,
   report_available |->
     PublishedOn(latest_fundamental_asof(inputs.reports[symbol], symbol, signal)),
   macro_available |-> PublishedOn(select_macro_asof(inputs.macro, signal))]

SnapshotSignalled(inputs, symbol, signal) ==
  IF signal = NoDate THEN skipped_signal_snapshot ELSE factor_snapshot_row(inputs, symbol, signal)

factor_snapshot(inputs, symbol, execution) ==
  SnapshotSignalled(inputs, symbol, signal_date_before(inputs.prices, execution))

\* In the order of the universe, without the symbols that have no prices and
\* those no factor has data for.  The industry is never known.
ScoredCandidates(scores) ==
  LET scored == {k \in DOMAIN CandidateSymbols : /\ CandidateSymbols[k] \in DOMAIN scores
                                                 /\ scores[CandidateSymbols[k]] # Missing}
  IN  [k \in scored |->
         [symbol |-> CandidateSymbols[k], score |-> scores[CandidateSymbols[k]],
          industry |-> "unknown"]]

candidates_for_date(inputs, signal) ==
  ScoredCandidates([s \in DOMAIN inputs.prices |->
                      composite_for_date(inputs, s, signal).score])

portfolio_for_date(inputs, signal) ==
  build_factor_portfolio(candidates_for_date(inputs, signal),
                         macro_asof(inputs.macro, signal).multiplier)

NoPortfolio == [target_weights |-> [s \in Symbols |-> 0], topped |-> {}]

\* A period without a signal date stays in cash.
PortfolioSignalled(inputs, signal) ==
  IF signal = NoDate THEN NoPortfolio ELSE portfolio_for_date(inputs, signal)

portfolio_at(inputs, execution) ==
  PortfolioSignalled(inputs, signal_date_before(inputs.prices, execution))

---------------------------------------------------------------------------
(* _build_weight_schedule.  It fails when no day is common to all symbols, *)
(* or none of them lies in the research window.                            *)

CanSchedule(prices) ==
  aligned_trading_dates(prices) # {} /\ execution_dates(prices) # {}
=============================================================================
