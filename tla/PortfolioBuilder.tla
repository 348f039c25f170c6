-------------------------- MODULE PortfolioBuilder --------------------------
(***************************************************************************)
(* Target weights from ranked candidates and the macro multiplier:         *)
(*   src/autowealth/portfolio/{builder,ranking,constraints,schema}.py      *)
(*                                                                         *)
(* A weight is a whole number of parts of One.  The code's tolerance 1e-12 *)
(* is Eps parts, which also absorbs what a division leaves over; its       *)
(* smallest score 1e-9 is 1, so real scores are well above 1.  A candidate *)
(* is a record of its symbol, its score and its industry; candidates are a *)
(* function from their places in the universe.                             *)
(***************************************************************************)
EXTENDS Integers, Sequences, FiniteSets

CONSTANTS
  Symbols,
  Industries,
  One,             \* the whole portfolio
  Eps,             \* 1e-12
  MaxPosition, MinPosition, MaxIndustry,
  MaxHoldings,
  CashMin, CashMax,
  MinScore

\* What validate_constraints accepts.
ASSUME ConstraintsAssumption ==
  /\ One \in Nat \ {0} /\ Eps \in Nat
  /\ MaxPosition \in 1..One /\ MinPosition \in 0..MaxPosition
  /\ MaxIndustry \in 1..One
  /\ MaxHoldings \in Nat \ {0}
  /\ CashMin \in 0..One /\ CashMax \in CashMin..One
  /\ MinScore \in 0..100

\* The function f.  The comparison makes TLC compute its entries, once.
Written(f) == CHOOSE g \in {f} : g = f

Candidates == [symbol : Symbols, score : 0..100, industry : Industries]

Least(a, b) == IF a <= b THEN a ELSE b
Greatest(a, b) == IF a >= b THEN a ELSE b

---------------------------------------------------------------------------
(* ranking.py *)

\* A symbol keeps the place of its first candidate and the best of its
\* scores, the earliest candidate that has it.
FirstPlaces(cands) ==
  {i \in DOMAIN cands : \A j \in DOMAIN cands : j < i => cands[j].symbol # cands[i].symbol}

BestFor(cands, i) ==
  LET same == {j \in DOMAIN cands : cands[j].symbol = cands[i].symbol}
  IN  cands[CHOOSE j \in same :
              \A k \in same : \/ cands[j].score > cands[k].score
                              \/ cands[j].score = cands[k].score /\ j <= k]

Eligible(cands) == {i \in FirstPlaces(cands) : BestFor(cands, i).score >= MinScore}

\* Best first; the sort is stable.
Ahead(cands, i, j) ==
  \/ BestFor(cands, i).score > BestFor(cands, j).score
  \/ BestFor(cands, i).score = BestFor(cands, j).score /\ i < j

\* The k-th is the one that k - 1 others are ahead of.
rank_candidates(cands) ==
  LET places == Eligible(cands)
      Ranked(k) == CHOOSE i \in places :
                     Cardinality({j \in places : Ahead(cands, j, i)}) = k - 1
  IN  [k \in 1..Least(MaxHoldings, Cardinality(places)) |-> BestFor(cands, Ranked(k))]

---------------------------------------------------------------------------
(* builder.py: the equity budget *)

\* The multiplier is in percent and was clamped already.
target_equity_weight(multiplier) ==
  LET desired == Least(One, Greatest(0, (multiplier * One) \div 100))
  IN  Greatest(One - CashMax, Least(One - CashMin, desired))

---------------------------------------------------------------------------
(* builder.py: _allocate_weights.  A fill is the state of its loops:       *)
(*   weight, used   what each symbol and each industry has so far          *)
(*   budget         what was not allocated before this round               *)
(*   given          what this round has allocated                          *)
(*   active, next   the candidates of this round, and those left for the   *)
(*                  next                                                   *)
(*   stuck          a round allocated nothing                              *)
(*   topped         symbols filled up to MaxPosition after they had some   *)
(*                  weight: there w + (max - w) is not max for floats      *)

Score(c) == Greatest(c.score, 1)

TotalScore(active) ==
  LET upto[k \in 0..Len(active)] ==
        IF k = 0 THEN 0 ELSE upto[k - 1] + Score(active[k])
  IN  upto[Len(active)]

\* Mutant of Room: only the industry is limited.
Room_IndustryOnly(fill, c) == MaxIndustry - fill.used[c.industry]

Room(fill, c) ==
  Least(MaxPosition - fill.weight[c.symbol], MaxIndustry - fill.used[c.industry])

Given(fill, c, proposed) ==
  LET allocation == Greatest(0, Least(proposed, Room(fill, c)))
  IN  IF allocation > Eps THEN allocation ELSE 0

Give(fill, c, allocation) ==
  [fill EXCEPT !.weight[c.symbol] = @ + allocation,
               !.used[c.industry] = @ + allocation,
               !.given = @ + allocation,
               !.topped = IF /\ allocation > 0 /\ fill.weight[c.symbol] > 0
                             /\ allocation = MaxPosition - fill.weight[c.symbol]
                          THEN @ \cup {c.symbol} ELSE @]

Requeue(fill, c) ==
  IF Room(fill, c) > Eps THEN [fill EXCEPT !.next = Append(@, c)] ELSE fill

\* One candidate of a round is offered its share.
Offer(fill, c, proposed) == Requeue(Give(fill, c, Given(fill, c, proposed)), c)

OfferAll(fill) ==
  LET total == TotalScore(fill.active)
      step[k \in 0..Len(fill.active)] ==
        IF k = 0 THEN fill
        ELSE Offer(step[k - 1], fill.active[k],
                   (fill.budget * Score(fill.active[k])) \div total)
  IN  step[Len(fill.active)]

Filled(fill) == fill.active = <<>> \/ fill.budget <= Eps \/ fill.stuck

\* A round that gave nothing ends the loop.
EndRound(after) ==
  IF after.given <= Eps THEN [after EXCEPT !.stuck = TRUE]
  ELSE [after EXCEPT !.budget = @ - after.given, !.active = after.next]

Round(fill) ==
  IF Filled(fill) THEN fill
  ELSE EndRound(OfferAll([fill EXCEPT !.given = 0, !.next = <<>>]))

EmptyFill(selected, budget) ==
  [weight |-> [s \in Symbols |-> 0], used |-> [i \in Industries |-> 0],
   budget |-> budget, given |-> 0, active |-> selected, next |-> <<>>,
   stuck |-> FALSE, topped |-> {}]

\* Every round but the last fills somebody up, so one more than there are
\* candidates is enough.
allocate_weights(selected, budget) ==
  LET round[k \in 0..(Len(selected) + 1)] ==
        IF k = 0 THEN EmptyFill(selected, budget) ELSE Round(round[k - 1])
  IN  round[Len(selected) + 1]

---------------------------------------------------------------------------
(* builder.py: build_factor_portfolio.  What is smaller than MinPosition   *)
(* stays cash.                                                             *)

Target(fill, s) ==
  IF fill.weight[s] > 0 /\ fill.weight[s] >= MinPosition THEN fill.weight[s] ELSE 0

PortfolioOf(fill) ==
  [target_weights |-> [s \in Symbols |-> Target(fill, s)],
   topped |-> {s \in fill.topped : Target(fill, s) > 0}]

build_factor_portfolio(cands, multiplier) ==
  PortfolioOf(allocate_weights(Written(rank_candidates(Written(cands))),
                               target_equity_weight(multiplier)))
=============================================================================
