------------------------- MODULE PortfolioBacktest -------------------------
(***************************************************************************)
(* The backtester of a weight schedule:                                    *)
(*   src/autowealth/backtest/{portfolio_backtester,rebalance}.py           *)
(*                                                                         *)
(* Days are consecutive numbers, a price frame is a function from the days *)
(* a symbol has a bar on to its close.  A schedule is a function from its  *)
(* execution days to a weight for each symbol, in parts of One.  What is   *)
(* held is kept by its value at the day's close, in whole units of money:  *)
(* the shares are that value over the close.                               *)
(***************************************************************************)
EXTENDS PortfolioBuilder, FiniteSetsExt

CONSTANTS
  StartDay, EndDay,        \* the research window
  Period(_),               \* the month, quarter, year or five years of a day
  MaxForwardFill,          \* MAX_FORWARD_FILL_TRADING_DAYS
  InitialCapital,
  SellCost, BuyCost        \* commission, tax and slippage, in parts of One

ASSUME BacktestAssumption ==
  /\ StartDay \in Nat /\ EndDay \in Nat /\ StartDay <= EndDay
  /\ MaxForwardFill \in Nat
  /\ InitialCapital \in Nat \ {0}
  /\ SellCost \in 0..One /\ BuyCost \in 0..One

Accepted == "accepted"

---------------------------------------------------------------------------
(* rebalance.py *)

\* The first day, and the first day of every later period.
generate_rebalance_dates(days) ==
  {d \in days : \A e \in days : e < d => Period(e) # Period(d)}

---------------------------------------------------------------------------
(* The price matrix: a row for each day some symbol has a bar on, a gap    *)
(* filled from at most MaxForwardFill rows before, rows with a gap dropped. *)

InWindow(frame) == {d \in DOMAIN frame : StartDay <= d /\ d <= EndDay}

Rows(frames, syms) == UNION {InWindow(frames[s]) : s \in syms}

\* The days whose close stands in for day d.
Sources(frames, syms, s, d) ==
  {e \in InWindow(frames[s]) :
     /\ e <= d
     /\ Cardinality({r \in Rows(frames, syms) : e < r /\ r <= d}) <= MaxForwardFill}

MatrixDays(frames, syms) ==
  {d \in Rows(frames, syms) : \A s \in syms : Sources(frames, syms, s, d) # {}}

Close(frames, syms, s, d) == frames[s][Max(Sources(frames, syms, s, d))]

---------------------------------------------------------------------------
(* _validate_weights.  Its limit has no tolerance, unlike the sum; over is *)
(* the set of symbols whose weight came out a rounding above its limit.    *)

SumOf(f) ==
  LET upto[T \in SUBSET DOMAIN f] ==
        IF T = {} THEN 0
        ELSE LET s == CHOOSE x \in T : TRUE IN f[s] + upto[T \ {s}]
  IN  upto[DOMAIN f]

validate_weights(weights, over) ==
  /\ \A s \in DOMAIN weights :
       0 <= weights[s] /\ weights[s] <= MaxPosition /\ s \notin over
  /\ SumOf(weights) <= One + Eps

---------------------------------------------------------------------------
(* _rebalance: sales first, then as much of the purchases as cash allows   *)

Sold(portfolio, wanted, s) == Greatest(0, portfolio.held[s] - wanted[s])
Asked(portfolio, wanted, s) == Greatest(0, wanted[s] - portfolio.held[s])

CostOf(value, rate) == (value * rate + One - 1) \div One

Value(portfolio) == portfolio.cash + SumOf(portfolio.held)

CashAfterSales(portfolio, wanted) ==
  portfolio.cash
    + SumOf([s \in DOMAIN wanted |->
               Sold(portfolio, wanted, s) - CostOf(Sold(portfolio, wanted, s), SellCost)])

\* What a purchase and its cost take; what all of them would take.
Total(value) == value + CostOf(value, BuyCost)

BuyTotal(portfolio, wanted) ==
  SumOf([s \in DOMAIN wanted |-> Total(Asked(portfolio, wanted, s))])

\* Mutant of Scale: every purchase may take all the cash there is.
Scale_Each(cost, cash, total) == IF cost <= cash THEN cost ELSE cash

\* One purchase, scaled by min(1, cash / total): what it takes.
Scale(cost, cash, total) == IF total <= cash THEN cost ELSE (cost * cash) \div total

rebalance(portfolio, weights) ==
  LET wanted == [s \in DOMAIN portfolio.held |->
                   (Value(portfolio) * weights[s]) \div One]
      cash == CashAfterSales(portfolio, wanted)
      total == BuyTotal(portfolio, wanted)
      Taken(s) == Scale(Total(Asked(portfolio, wanted, s)), cash, total)
      Bought(s) == (Taken(s) * One) \div (One + BuyCost)
  IN  [cash |-> Greatest(0, cash - SumOf([s \in DOMAIN wanted |-> Taken(s)])),
       held |-> [s \in DOMAIN wanted |->
                   portfolio.held[s] - Sold(portfolio, wanted, s) + Bought(s)]]

---------------------------------------------------------------------------
(* run_weight_schedule *)

Revalued(frames, syms, portfolio, from, to) ==
  [portfolio EXCEPT !.held =
     [s \in syms |-> (portfolio.held[s] * Close(frames, syms, s, to))
                       \div Close(frames, syms, s, from)]]

\* The portfolio of each day of the matrix, before and after its trades.
Portfolios(schedule, frames, syms) ==
  LET days == MatrixDays(frames, syms)
      Cash == [cash |-> InitialCapital, held |-> [s \in syms |-> 0]]
      Traded(portfolio, d) ==
        [valued |-> portfolio,
         traded |-> IF d \in DOMAIN schedule THEN rebalance(portfolio, schedule[d])
                    ELSE portfolio]
      at[d \in days] ==
        IF d = Min(days) THEN Traded(Cash, d)
        ELSE LET before == Max({e \in days : e < d})
             IN  Traded(Revalued(frames, syms, at[before].traded, before, d), d)
  IN  at

\* Accepted, or the check that raises ValueError.
backtest_verdict(schedule, frames, syms, over) ==
  IF DOMAIN schedule = {} THEN "empty schedule"
  ELSE IF \E d \in DOMAIN schedule : ~ validate_weights(schedule[d], over[d])
       THEN "weights"
  ELSE IF \E s \in syms : InWindow(frames[s]) = {} THEN "no price data"
  ELSE IF MatrixDays(frames, syms) = {} THEN "empty matrix"
  ELSE IF ~ DOMAIN schedule \subseteq MatrixDays(frames, syms) THEN "missing dates"
  ELSE Accepted
=============================================================================
