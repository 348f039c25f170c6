--------------------------- MODULE MCResearchRun ---------------------------
(* Two runs over two symbols and seven days.  What was told is never read  *)
(* again, so that states are told apart without it.                        *)
EXTENDS RunStore, FiniteSetsExt

CONSTANTS a, b, p1, p2

MCSymbols == {a, b}
MCRuns == {p1, p2}
RunSymmetry == Permutations(MCRuns)
MCCandidateSymbols == <<a, b>>
MCIndustries == {"unknown"}
MCArtifactFiles == <<"run_manifest", "warnings">>

MCPeriod(d) == d \div 2
MCWeights == [value |-> 2, quality |-> 1, momentum |-> 1, low_vol |-> 1,
              overbought_oversold |-> 1]
MCVolatility(window) == Max({window[i] : i \in DOMAIN window})
                          - Min({window[i] : i \in DOMAIN window})
MCBollinger(window) == IF window[Len(window)] >= window[1] THEN 80 ELSE 30

Bars(closes, volumes) == [d \in 0..6 |-> [close |-> closes[d + 1], volume |-> volumes[d + 1]]]

PricesA == Bars(<<10, 12, 11, 15, 18, 17, 30>>, <<5, 6, 5, 9, 5, 4, 20>>)
PricesA2 == [d \in 0..6 \ {4} |-> Bars(<<20, 19, 17, 16, 1, 12, 11>>,
                                       <<5, 5, 0, 5, 9, 5, 5>>)[d]]
ShortA == [d \in 3..6 |-> PricesA[d]]
PricesB == Bars(<<20, 19, 20, 18, 16, 16, 10>>, <<7, 7, 8, Missing, 7, 9, 9>>)

Report(symbol, date, available, pe, roe) ==
  [symbol |-> symbol, date |-> date, available |-> available, fetched |-> NoDate,
   pe |-> pe, pb |-> 20, dividend_yield |-> Missing, roe |-> roe, gross_margin |-> 30,
   net_margin |-> 10, debt_ratio |-> 40, operating_cash_flow |-> 5, net_profit |-> 10]

ReportsA == <<Report(a, 0, 1, 12, 20), Report(a, 2, 4, 55, 3)>>
UndatedA == <<Report(a, 0, 1, 12, 20), Report(a, 2, NoDate, 55, 3)>>
ReportsB == <<Report(b, 0, 3, 9, 18)>>

Raised == [file |-> NoData, dated |-> FALSE]

MCPriceAnswers ==
  [s \in MCSymbols |->
     IF s = a THEN {[file |-> PricesA, dated |-> TRUE], [file |-> PricesA2, dated |-> TRUE],
                    [file |-> ShortA, dated |-> TRUE]}
     ELSE {Raised}]

MCReportAnswers ==
  [s \in MCSymbols |->
     IF s = a THEN {[file |-> ReportsA, dated |-> TRUE], [file |-> UndatedA, dated |-> FALSE]}
     ELSE {Raised}]

MacroRow(date, available, pmi, credit, policy) ==
  [date |-> date, available |-> available, pmi |-> pmi, cpi_yoy |-> 22, ppi_yoy |-> 15,
   m2_yoy |-> 100, social_financing_yoy |-> credit, ten_year_yield |-> 25,
   policy_score |-> policy, external_risk_score |-> 60]

MCMacroAnswers == {<<>>, <<MacroRow(0, 1, 520, 120, 80), MacroRow(2, 4, 460, 60, 50)>>}

\* The files of b are there; or they are torn, a's prices are short, and two
\* earlier runs have left rows without dates under a sidecar that says dated.
Files(priceA, priceB, reportA, reportB) ==
  [i \in ItemSet |-> IF i.kind = "price" THEN IF i.symbol = a THEN priceA ELSE priceB
                     ELSE IF i.symbol = a THEN reportA ELSE reportB]

MCInitialCaches == {Files(NoData, PricesB, NoData, ReportsB),
                    Files(ShortA, Torn, UndatedA, Torn)}

Index(closes) == [k \in 1..4 |-> [date |-> k + 2, close |-> closes[k]]]
Good == [kind |-> "rows", frame |-> Index(<<3, 4, 5, 6>>)]
Other == [kind |-> "rows", frame |-> Index(<<3, 4, 5, 7>>)]
Gap == [kind |-> "rows", frame |-> SubSeq(Index(<<3, 4, 5, 6>>), 1, 2)]
Raises == [kind |-> "raises", frame |-> <<>>]

MCChainAnswers == {<<Good, Raises>>, <<Gap, Other>>, <<Gap, Raises>>}

Legacy(frame, sha) ==
  [meta |-> [file |-> "legacy", layout |-> 1, request |-> TRUE, sha256 |-> sha,
             facts |-> facts(frame), source |-> 1, sealed |-> FALSE],
   data |-> [name \in {"legacy"} |-> frame]]

MCInitialEntries ==
  {[meta |-> NoMetadata, data |-> [name \in {} |-> <<>>]],
   Legacy(Good.frame, Good.frame),
   [meta |-> NoMetadata, data |-> [name \in {"legacy"} |-> Good.frame]]}

\* Prices that could not be had, under a message that names a secret; a
\* message two stages raise; one that came without a class; one that is too long,
\* and classes that are long, or too wide for the public.
Warned(name, code) == [text |-> <<name, 1>>, meta |-> [code |-> code, source |-> "stage"]]
PriceLost == Warned("price lost", "price")
PriceKept == Warned("price kept", "price")
Bare == [Warned("bare", "macro") EXCEPT !.meta = NoMeta]
Again == Warned("bare", "macro")
Endless == Warned("endless", "macro")
Wide == Warned("wide", "wide")
Two == Warned("two", "macro")
Long(name) == Warned(name, "long")

\* Alone, or beside a benchmark that was had at the second attempt.
Alone(warnings) == [warnings |-> warnings, loads |-> [n \in {} |-> <<>>]]
Beside(warnings) ==
  [warnings |-> warnings,
   loads |-> [n \in {"other"} |-> [passed |-> TRUE,
      attempts |-> <<[role |-> "provider", reason |-> "raised"],
                     [role |-> "provider", reason |-> "success"]>>]]]

MCContexts ==
  {Alone(<<>>), Beside(<<>>), Alone(<<<<PriceLost, PriceKept>>, <<PriceLost>>>>),
   Alone(<<<<Bare>>, <<Again>>>>), Alone(<<<<Again>>, <<Bare, Wide>>>>),
   Alone(<<<<Endless>>>>), Alone(<<<<Two, PriceLost>>>>),
   Alone(<<<<Bare, Again>>, <<Long("one")>>>>),
   Alone(<<<<Long("one")>>, <<Long("another")>>>>)}

MCSecret == {<<"price lost", 1>>, <<"price kept", 1>>}
MCRedacted == <<"redacted", 0>>

MCChars(text) ==
  CASE text[1] = "endless" -> 4 [] text[1] \in {"two", "price lost"} -> 3
    [] text[1] = "redacted" -> 2 [] OTHER -> 1
MCLineBytes(text) == 1 + MCChars(text)
MCCompactBytes(entry) == IF entry.meta.code = "long" THEN 7 ELSE 2
MCBlockBytes(entry) == 1 + MCCompactBytes(entry)
MCEntryFits(entry) == entry.meta.code # "wide"

\* Of one benchmark's diagnostics what was tried fits, of two at most three attempts.
MCDiagnosticsFit(diagnostics) ==
  Cardinality(UNION {{n} \X DOMAIN diagnostics[n].attempts : n \in DOMAIN diagnostics}) <= 3

WithoutTold == vars
=============================================================================
