--------------------------- MODULE ResearchMacro ---------------------------
(***************************************************************************)
(* The macro context of a research signal:                                 *)
(*   src/autowealth/macro/{schema,asof,scoring,regime,position}.py         *)
(*   src/autowealth/research/real_pipeline.py (_macro_asof)                *)
(*                                                                         *)
(* A row carries the date it describes, the date it was published, and its *)
(* indicators.  Scores go from 0 to 100, multipliers are in percent and    *)
(* growth rates, yields and indices in tenths.  An empty field of the csv  *)
(* file is NaN, a float of its own: float(value) keeps it, every           *)
(* comparison with it is false, and min(100, NaN) is 100.                  *)
(***************************************************************************)
EXTENDS Integers, Sequences, FiniteSets

CONSTANTS
  NoDate,     \* NaT: a date that could not be parsed
  NaN,        \* a numeric field that is empty
  NoRow       \* None: nothing was published in time

Regimes == {"recession", "stagflation", "slowdown", "recovery", "expansion",
            "uncertain"}

---------------------------------------------------------------------------
(* asof.py: the row in force at a cutoff *)

Published(rows, cutoff) ==
  {i \in DOMAIN rows : /\ rows[i].available # NoDate /\ rows[i].available <= cutoff
                       /\ rows[i].date # NoDate      /\ rows[i].date <= cutoff}

\* The rows that were public by the cutoff, each at its place in the file.
KnownRows(rows, cutoff) == [i \in Published(rows, cutoff) |-> rows[i]]

\* Published last, of those the one describing the latest date, and of
\* those the last in the file: a sort by several keys is stable.
Latest(known) ==
  known[CHOOSE i \in DOMAIN known :
          \A j \in DOMAIN known :
            \/ known[j].available < known[i].available
            \/ /\ known[j].available = known[i].available
               /\ known[j].date < known[i].date
            \/ /\ known[j].available = known[i].available
               /\ known[j].date = known[i].date
               /\ j <= i]

LatestOf(known) == IF DOMAIN known = {} THEN NoRow ELSE Latest(known)

select_macro_asof(rows, cutoff) == LatestOf(KnownRows(rows, cutoff))

---------------------------------------------------------------------------
(* scoring.py and schema.py: one score per dimension.  NaN is carried      *)
(* through the arithmetic and comes out of the clip as a full score.       *)

MacroClip(value) ==
  IF value = NaN THEN 100
  ELSE IF value < 0 THEN 0 ELSE IF value > 100 THEN 100 ELSE value

\* (value - from) / span, in percent; a falling scale has a negative span.
Scaled(value, from, span) ==
  IF value = NaN THEN NaN
  ELSE IF span > 0 THEN ((value - from) * 100) \div span
  ELSE ((from - value) * 100) \div (-span)

center_score(value, center, tolerance) ==
  IF value = NaN THEN 100
  ELSE MacroClip(100 - ((IF value >= center THEN value - center ELSE center - value)
                          * 100) \div tolerance)

growth_score(row) == MacroClip(Scaled(row.pmi, 450, 100))

inflation_score(row) ==
  (center_score(row.cpi_yoy, 22, 45) + center_score(row.ppi_yoy, 15, 70)) \div 2

liquidity_score(row) ==
  (MacroClip(Scaled(row.m2_yoy, 50, 80)) + MacroClip(Scaled(row.ten_year_yield, 45, -25)))
    \div 2

credit_score(row) == MacroClip(Scaled(row.social_financing_yoy, 50, 100))

macro_dimension_scores(row) ==
  [growth |-> growth_score(row), inflation |-> inflation_score(row),
   liquidity |-> liquidity_score(row), credit |-> credit_score(row),
   policy |-> MacroClip(row.policy_score),
   external_risk |-> MacroClip(row.external_risk_score)]

---------------------------------------------------------------------------
(* regime.py and position.py *)

classify_macro_regime(s) ==
  IF s.growth < 35 /\ s.credit < 45 THEN "recession"
  ELSE IF s.growth < 45 /\ s.inflation < 40 THEN "stagflation"
  ELSE IF s.growth < 50 /\ (s.liquidity < 50 \/ s.credit < 50) THEN "slowdown"
  ELSE IF /\ 45 <= s.growth /\ s.growth < 60
          /\ s.liquidity >= 55 \/ s.credit >= 55 THEN "recovery"
  ELSE IF s.growth >= 60 /\ s.inflation >= 45 /\ s.liquidity >= 45 THEN "expansion"
  ELSE "uncertain"

BASE_MULTIPLIERS ==
  [regime \in Regimes |->
     CASE regime = "recession" -> 60
       [] regime = "slowdown" -> 80
       [] regime = "stagflation" -> 75
       [] regime = "recovery" -> 100
       [] regime = "expansion" -> 110
       [] OTHER -> 90]

strong_environment(regime, s) ==
  /\ regime = "expansion"
  /\ s.growth >= 80 /\ s.inflation >= 80 /\ s.liquidity >= 80
  /\ s.credit >= 80 /\ s.policy >= 80 /\ s.external_risk >= 80

ClampMultiplier(m) == IF m < 60 THEN 60 ELSE IF m > 120 THEN 120 ELSE m

equity_position_multiplier(regime, s) ==
  LET adjusted == BASE_MULTIPLIERS[regime]
                    - (IF s.external_risk < 35 THEN 10 ELSE 0)
                    + (IF s.policy > 75 THEN 5 ELSE 0)
  IN  ClampMultiplier(IF strong_environment(regime, s) /\ adjusted < 120
                      THEN 120 ELSE adjusted)

Environment(regime, scores) ==
  [regime |-> regime, multiplier |-> equity_position_multiplier(regime, scores)]

Classified(scores) == Environment(classify_macro_regime(scores), scores)

score_macro_environment(row) == Classified(macro_dimension_scores(row))

---------------------------------------------------------------------------
(* real_pipeline.py: what a signal date is given *)

Neutral == [regime |-> "none", multiplier |-> 100]

ScoredOrNeutral(row) == IF row = NoRow THEN Neutral ELSE score_macro_environment(row)

macro_asof(rows, signal) == ScoredOrNeutral(select_macro_asof(rows, signal))
=============================================================================
