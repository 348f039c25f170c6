-------------------------- MODULE ResearchFactors --------------------------
(***************************************************************************)
(* The five research factors and their composite:                          *)
(*   src/autowealth/factors/{schema,readiness,value,quality,momentum,      *)
(*                           low_vol,overbought_oversold,composite}.py     *)
(*   src/autowealth/research/real_pipeline.py (scores of a candidate)      *)
(*                                                                         *)
(* A score is a whole number from 0 to 100.  Ratios and returns are whole  *)
(* percents, pb is in tenths and the dividend yield in basis points.  A    *)
(* metric that cannot be computed is Missing.  closes and volumes are the  *)
(* bars a factor is shown, oldest first; a volume may be Missing.          *)
(***************************************************************************)
EXTENDS Integers, SequencesExt, FiniteSetsExt

CONSTANTS
  Missing,         \* None: a metric that is not there
  SkipDays, SixMonths, TwelveMonths,   \* momentum windows, in bars
  LowVolCloses, RsiWindow, BollingerCloses, ShortReturnWindow, VolumeWindow,
  FactorWeights,   \* the configured weight of each factor, 0 for none
  Volatility(_),   \* annualised standard deviation of a window's returns
  Bollinger(_)     \* where the last close lies in its band, in percent

FactorNames == {"value", "quality", "momentum", "low_vol", "overbought_oversold"}

ASSUME FactorWeightsAssumption ==
  /\ FactorWeights \in [FactorNames -> Nat]
  /\ \E name \in FactorNames : FactorWeights[name] > 0

---------------------------------------------------------------------------
(* schema.py: the shared scoring helpers *)

AtLeast(a, b) == IF a >= b THEN a ELSE b
Distance(a, b) == IF a >= b THEN a - b ELSE b - a

clip_score(value) ==
  IF value \in 0..100 THEN value ELSE IF value > 100 THEN 100 ELSE 0

score_higher_better(value, low, high) ==
  IF value = Missing THEN Missing
  ELSE clip_score(((value - low) * 100) \div (high - low))

score_lower_better(value, low, high) ==
  IF value = Missing THEN Missing
  ELSE clip_score(((high - value) * 100) \div (high - low))

score_center_better(value, center, tolerance) ==
  IF value = Missing THEN Missing
  ELSE clip_score(100 - (Distance(value, center) * 100) \div tolerance)

Present(metrics) == {name \in DOMAIN metrics : metrics[name] # Missing}

\* A factor none of whose components can be scored is neutral.
average_available(scores) ==
  IF Present(scores) = {} THEN 50
  ELSE clip_score(MapThenSumSet(LAMBDA name : scores[name], Present(scores))
                    \div Cardinality(Present(scores)))

---------------------------------------------------------------------------
(* One operator per factor: what it measured, and the score of each part.  *)
(* A measured value can have no score: a price-earnings ratio of a firm    *)
(* that loses money is there and counts as data, but is not scored.        *)

positive_or_none(value) ==
  IF value = Missing THEN Missing ELSE IF value > 0 THEN value ELSE Missing

Factor(raw, Parts(_)) == [raw |-> raw, parts |-> Parts(raw)]

value_parts(raw) ==
  [pe |-> score_lower_better(positive_or_none(raw.pe), 8, 60),
   pb |-> score_lower_better(positive_or_none(raw.pb), 8, 80),
   dividend_yield |-> score_higher_better(raw.dividend_yield, 0, 600)]

value_factor(financial) ==
  Factor([pe |-> financial.pe, pb |-> financial.pb,
          dividend_yield |-> financial.dividend_yield,
          valuation_percentile |-> Missing], value_parts)

quality_parts(raw) ==
  [roe |-> score_higher_better(raw.roe, 0, 25),
   gross_margin |-> score_higher_better(raw.gross_margin, 10, 60),
   net_margin |-> score_higher_better(raw.net_margin, 2, 25),
   cash_flow_quality |-> score_higher_better(raw.cash_flow_quality, 50, 150),
   debt_to_asset |-> score_lower_better(raw.debt_to_asset, 20, 80)]

quality_factor(financial) ==
  Factor([metric \in {"roe", "gross_margin", "net_margin",
                      "cash_flow_quality", "debt_to_asset"} |-> financial[metric]],
         quality_parts)

Return(from, to) == IF from <= 0 THEN Missing ELSE (100 * (to - from)) \div from

momentum(closes, lookback) ==
  LET required == lookback + SkipDays + 1
  IN  IF Len(closes) < required THEN Missing
      ELSE Return(closes[Len(closes) - required + 1], closes[Len(closes) - SkipDays])

momentum_parts(raw) ==
  [six |-> score_higher_better(raw.six, -20, 50),
   twelve |-> score_higher_better(raw.twelve, -30, 80)]

momentum_factor(closes) ==
  Factor([six |-> momentum(closes, SixMonths),
          twelve |-> momentum(closes, TwelveMonths)], momentum_parts)

LastBars(closes, n) == SubSeq(closes, Len(closes) - n + 1, Len(closes))

\* The deepest fall from an earlier high, in percent.
max_drawdown(window) ==
  Max({(100 * (window[p[1]] - window[p[2]])) \div window[p[1]] :
         p \in {q \in (DOMAIN window) \X (DOMAIN window) : q[1] <= q[2]}})

low_vol_parts(raw) ==
  [volatility |-> score_lower_better(raw.volatility, 12, 60),
   drawdown |-> score_lower_better(raw.drawdown, 8, 50)]

low_vol_factor(closes) ==
  LET enough == Len(closes) >= LowVolCloses
      window == LastBars(closes, LowVolCloses)
  IN  Factor([volatility |-> IF enough THEN Volatility(window) ELSE Missing,
              drawdown |-> IF enough THEN max_drawdown(window) ELSE Missing],
             low_vol_parts)

\* Gains against losses over the window: no loss at all is 100.
rsi(closes) ==
  LET window == LastBars(closes, RsiWindow + 1)
      moves == 2..(RsiWindow + 1)
      gain == MapThenSumSet(LAMBDA i : AtLeast(0, window[i] - window[i - 1]), moves)
      loss == MapThenSumSet(LAMBDA i : AtLeast(0, window[i - 1] - window[i]), moves)
  IN  IF Len(closes) < RsiWindow + 1 THEN Missing
      ELSE IF loss = 0 THEN 100
      ELSE (100 * gain) \div (gain + loss)

volume_ratio(volumes) ==
  LET clean == SelectSeq(volumes, LAMBDA v : v # Missing)
      total == FoldSeq(LAMBDA a, b : a + b, 0, LastBars(clean, VolumeWindow))
  IN  IF Len(clean) < VolumeWindow THEN Missing
      ELSE IF total <= 0 THEN Missing
      ELSE (100 * clean[Len(clean)] * VolumeWindow) \div total

overbought_oversold_parts(raw) ==
  [rsi |-> score_center_better(raw.rsi, 50, 35),
   bollinger |-> score_center_better(raw.bollinger, 50, 50),
   short_return |-> score_center_better(raw.short_return, 0, 25),
   volume_ratio |-> IF raw.volume_ratio = Missing THEN Missing
                    ELSE score_lower_better(Distance(raw.volume_ratio, 100), 0, 200)]

overbought_oversold_factor(closes, volumes) ==
  LET short == LastBars(closes, ShortReturnWindow + 1)
  IN  Factor([rsi |-> rsi(closes),
              bollinger |-> IF Len(closes) < BollingerCloses THEN Missing
                            ELSE Bollinger(LastBars(closes, BollingerCloses)),
              short_return |-> IF Len(closes) < ShortReturnWindow + 1 THEN Missing
                               ELSE Return(short[1], short[Len(short)]),
              volume_ratio |-> volume_ratio(volumes)],
             overbought_oversold_parts)

---------------------------------------------------------------------------
(* real_pipeline.py: which factors count, and the composite *)

\* Cash flow quality is a ratio to a profit that is there and not zero.
financial_factor_inputs(record) ==
  [pe |-> record.pe, pb |-> record.pb, dividend_yield |-> record.dividend_yield,
   roe |-> record.roe, gross_margin |-> record.gross_margin,
   net_margin |-> record.net_margin, debt_to_asset |-> record.debt_ratio,
   cash_flow_quality |->
     IF record.operating_cash_flow # Missing /\ record.net_profit \notin {Missing, 0}
     THEN (100 * record.operating_cash_flow) \div record.net_profit
     ELSE Missing]

NoFinancials ==
  [metric \in {"pe", "pb", "dividend_yield", "roe", "gross_margin", "net_margin",
               "debt_to_asset", "cash_flow_quality"} |-> Missing]

Measured(name, financial, closes, volumes) ==
  CASE name = "value" -> value_factor(financial)
    [] name = "quality" -> quality_factor(financial)
    [] name = "momentum" -> momentum_factor(closes)
    [] name = "low_vol" -> low_vol_factor(closes)
    [] name = "overbought_oversold" -> overbought_oversold_factor(closes, volumes)

factor_score_available(measured) == Present(measured.raw) # {}

SelectedFactors == {name \in FactorNames : FactorWeights[name] > 0}

\* The weights of the factors that have data are scaled up to the whole; a
\* symbol none of whose factors has any is no candidate.
calculate_composite_score(scores) ==
  LET total == MapThenSumSet(LAMBDA name : FactorWeights[name] * scores[name], DOMAIN scores)
      weight == MapThenSumSet(LAMBDA name : FactorWeights[name], DOMAIN scores)
  IN  [available |-> DOMAIN scores,
       score |-> IF DOMAIN scores = {} THEN Missing ELSE clip_score(total \div weight)]

AvailableScores(measured) ==
  [name \in {n \in DOMAIN measured : factor_score_available(measured[n])} |->
     average_available(measured[name].parts)]

calculate_factor_scores(financial, closes, volumes) ==
  calculate_composite_score(
    AvailableScores([name \in SelectedFactors |->
                       Measured(name, financial, closes, volumes)]))
=============================================================================
