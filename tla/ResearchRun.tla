---------------------------- MODULE ResearchRun ----------------------------
(***************************************************************************)
(* Whole research runs that share one cache and one output directory:      *)
(*   src/autowealth/research/real_pipeline.py (run_real_data_research)     *)
(*   src/autowealth/research/artifacts.py (write_research_artifacts)       *)
(*   src/autowealth/data/cache.py                                          *)
(*                                                                         *)
(* Each run is a process of its own.  It loads the prices of every symbol, *)
(* then the reports of those that have prices, each from a parquet file    *)
(* with a sidecar or from a provider; computes the schedule and the        *)
(* backtest; loads the benchmark; and writes its artifacts into a staging  *)
(* directory that one rename publishes.  A run may die between any two of  *)
(* its steps, and what is then on disk stays.                              *)
(***************************************************************************)
EXTENDS ResearchSchedule, BenchmarkCache

CONSTANTS
  NoData, Torn,                \* no file, an unreadable one
  PriceAnswers, ReportAnswers, \* of each symbol's providers: [file, dated], the
                               \* file NoData when they raise
  MacroAnswers,                \* the macro rows; empty when they cannot be had
  InitialCaches,               \* what the caches may hold at first
  ArtifactFiles,               \* the files of a run, in the order of writing
  MinHoldings,
  MinFactorCoverage            \* MIN_FACTOR_COVERAGE_RATIO, in percent

ASSUME RunAssumption ==
  /\ BenchStart = StartDay /\ BenchEnd = EndDay
  /\ ArtifactFiles \in Seq(STRING) /\ ArtifactFiles # <<>>
  /\ MinHoldings \in Nat /\ MinFactorCoverage \in 0..100

VARIABLES
  cache,   \* the parquet file of each item
  sidecar, \* the item's sidecar: whether it claims publication dates
  run,     \* where each run is, and what it has come to
  dirs     \* the output directory: [files, status] for each directory in it

runVars == <<cache, sidecar, run, dirs>>
vars == <<cacheVars, runVars>>

---------------------------------------------------------------------------
(* What a run works through: a price file for each symbol, then a report   *)
(* file for each symbol that has prices.                                   *)

Items == [k \in 1..(2 * Len(CandidateSymbols)) |->
            IF k <= Len(CandidateSymbols)
            THEN [kind |-> "price", symbol |-> CandidateSymbols[k]]
            ELSE [kind |-> "report", symbol |-> CandidateSymbols[k - Len(CandidateSymbols)]]]

ItemSet == {Items[k] : k \in DOMAIN Items}

\* A directory is a run's staging directory or the published one.
StagingOf(r) == <<r, "staging">>
FinalOf(r) == <<r, "published">>

Nothing == [s \in {} |-> <<>>]

NoResult == [schedule |-> Nothing, topped |-> Nothing, snapshots |-> Nothing,
             reduced |-> FALSE]

Starting == [at |-> "look", item |-> 1, found |-> FALSE, fetched |-> NoData,
             prices |-> Nothing, reports |-> Nothing, dated |-> TRUE, macro |-> <<>>,
             result |-> NoResult, reduced |-> FALSE, refused |-> "none", over |-> {},
             written |-> 0]

Init ==
  /\ CacheInit
  /\ cache \in InitialCaches
  /\ sidecar = [i \in ItemSet |-> cache[i] \notin {NoData, Torn}]
  /\ run = [r \in Runs |-> Starting]
  /\ dirs = [name \in {} |-> {}]

Ended == {"done", "failed", "crashed"}

---------------------------------------------------------------------------
(* Loading an item.  What comes back of a price file is a frame, of a      *)
(* report file the rows and whether all of them have publication dates.    *)

Current(r) == Items[run[r].item]

Usable(item, file) ==
  /\ file \notin {NoData, Torn}
  /\ item.kind = "price" => price_window_coverage(prepare_price_frame(file))

\* Mutant of point_in_time: the claim of a sidecar is believed.
point_in_time_AsClaimed(claimed, rows) == claimed

\* A claim of publication dates is checked against the rows, also when it
\* comes from a sidecar.
point_in_time(claimed, rows) ==
  claimed /\ rows # <<>> /\ \A i \in DOMAIN rows : rows[i].available # NoDate

With(loaded, symbol, value) ==
  [s \in DOMAIN loaded \cup {symbol} |-> IF s = symbol THEN value ELSE loaded[s]]

\* On to the next item there is something to do for.  Without any prices
\* there is nothing to go on with.
Advance(state) ==
  LET rest == {k \in DOMAIN Items :
                 /\ k > state.item
                 /\ Items[k].kind = "price" \/ Items[k].symbol \in DOMAIN state.prices}
  IN  IF rest # {} THEN [state EXCEPT !.at = "look", !.item = Min(rest), !.fetched = NoData,
                                      !.found = FALSE]
      ELSE [state EXCEPT !.at = IF state.prices = Nothing THEN "failed" ELSE "schedule",
                         !.fetched = NoData, !.found = FALSE]

WithPrices(state, symbol, file) ==
  [state EXCEPT !.prices = With(state.prices, symbol, prepare_price_frame(file))]

WithReports(state, symbol, rows, dated) ==
  [state EXCEPT !.reports = With(state.reports, symbol, rows),
                !.dated = state.dated /\ dated]

Loaded(r, file, claimed) ==
  LET item == Current(r)
      rows == validate_fundamental_history(file)
  IN  run' = [run EXCEPT ![r] =
        IF item.kind = "price" THEN Advance(WithPrices(run[r], item.symbol, file))
        ELSE Advance(WithReports(run[r], item.symbol, rows, point_in_time(claimed, rows)))]

\* An exception costs the run the symbol's prices, or leaves it no reports.
Lost(r) ==
  LET item == Current(r)
  IN  run' = [run EXCEPT ![r] =
        IF item.kind = "price" THEN Advance(run[r])
        ELSE Advance(WithReports(run[r], item.symbol, <<>>, FALSE))]

\* A file that is there but cannot be used is remembered, and kept.
LookInCache(r) ==
  LET file == cache[Current(r)]
  IN  /\ run[r].at = "look"
      /\ IF Usable(Current(r), file) THEN Loaded(r, file, sidecar[Current(r)])
         ELSE run' = [run EXCEPT ![r].at = "fetch", ![r].found = file # NoData]
      /\ UNCHANGED <<cache, sidecar, dirs, cacheVars>>

Answers(item) ==
  IF item.kind = "price" THEN PriceAnswers[item.symbol] ELSE ReportAnswers[item.symbol]

\* An answer is [file, dated].  A run that found a file does not write one.
FetchItem(r) ==
  /\ run[r].at = "fetch"
  /\ \E answer \in Answers(Current(r)) :
       IF ~ Usable(Current(r), answer.file) THEN Lost(r)
       ELSE IF run[r].found THEN Loaded(r, answer.file, answer.dated)
       ELSE run' = [run EXCEPT ![r].at = "open", ![r].fetched = answer]
  /\ UNCHANGED <<cache, sidecar, dirs, cacheVars>>

\* to_parquet truncates the file, writes it and closes it.  Nothing keeps two
\* runs from writing one file at the same time, which then may be a mixture.
OpenFile(r) ==
  LET sharing == {q \in Runs : /\ run[q].at \in {"write", "mixed"}
                               /\ Current(q) = Current(r)}
  IN  /\ run[r].at = "open"
      /\ cache' = [cache EXCEPT ![Current(r)] = Torn]
      /\ run' = [q \in Runs |->
                   IF q \in sharing \/ (q = r /\ sharing # {})
                   THEN [run[q] EXCEPT !.at = "mixed"]
                   ELSE IF q = r THEN [run[r] EXCEPT !.at = "write"] ELSE run[q]]
      /\ UNCHANGED <<sidecar, dirs, cacheVars>>

FinishFile(r) ==
  /\ run[r].at \in {"write", "mixed"}
  /\ \/ /\ cache' = [cache EXCEPT ![Current(r)] = run[r].fetched.file]
        /\ run' = [run EXCEPT ![r].at = "sidecar"]
     \/ /\ run[r].at = "mixed"
        /\ cache' = [cache EXCEPT ![Current(r)] = Torn]
        /\ run' = [run EXCEPT ![r].at = "sidecar"]
     \/ Lost(r) /\ UNCHANGED cache
  /\ UNCHANGED <<sidecar, dirs, cacheVars>>

\* The sidecar says what this run's provider said, of whatever file is there.
WriteSidecar(r) ==
  LET answer == run[r].fetched
  IN  /\ run[r].at = "sidecar"
      /\ \/ /\ sidecar' = [sidecar EXCEPT ![Current(r)] =
                               IF Current(r).kind = "price" THEN TRUE
                               ELSE point_in_time(answer.dated,
                                                  validate_fundamental_history(answer.file))]
            /\ Loaded(r, answer.file, answer.dated)
         \/ Lost(r) /\ UNCHANGED sidecar
      /\ UNCHANGED <<cache, dirs, cacheVars>>

LoadItem(r) ==
  \/ LookInCache(r) \/ FetchItem(r) \/ OpenFile(r) \/ FinishFile(r) \/ WriteSidecar(r)

---------------------------------------------------------------------------
(* Schedule, backtest and status.  They touch nothing that is shared; what *)
(* they compute is given as a function of the inputs there can be.         *)

\* What a file may hold that is read whole.
PriceFiles(symbol) ==
  ({answer.file : answer \in PriceAnswers[symbol]}
     \cup {c[[kind |-> "price", symbol |-> symbol]] : c \in InitialCaches}) \ {NoData, Torn}

ReportFiles(symbol) ==
  ({answer.file : answer \in ReportAnswers[symbol]}
     \cup {c[[kind |-> "report", symbol |-> symbol]] : c \in InitialCaches}) \ {NoData, Torn}

\* Days are numbers, and a date that cannot be read is NoDate.
DatedRows(rows) ==
  \A i \in DOMAIN rows : /\ "available" \in DOMAIN rows[i]
                         /\ rows[i].available \in Nat \cup {NoDate}

\* A close is a whole number, or missing.
Closed(file) == \A d \in DOMAIN file : file[d].close \in Int \cup {Missing}

ASSUME DatesAssumption ==
  /\ \A s \in Range(CandidateSymbols) : /\ \A file \in PriceFiles(s) :
                                            DOMAIN file \subseteq Nat /\ Closed(file)
                                       /\ \A rows \in ReportFiles(s) : DatedRows(rows)
  /\ \A rows \in MacroAnswers : DatedRows(rows)

Frames(symbol) ==
  {prepare_price_frame(file) : file \in
     {f \in PriceFiles(symbol) : Usable([kind |-> "price", symbol |-> symbol], f)}}

Histories(symbol) ==
  {<<>>} \cup {validate_fundamental_history(file) : file \in ReportFiles(symbol)}

PossibleInputs ==
  UNION {[prices : {p \in [syms -> UNION {Frames(s) : s \in syms}] :
                      \A s \in syms : p[s] \in Frames(s)},
          reports : {h \in [syms -> UNION {Histories(s) : s \in syms}] :
                       \A s \in syms : h[s] \in Histories(s)},
          macro : MacroAnswers] : syms \in (SUBSET Range(CandidateSymbols)) \ {{}}}

\* _factor_coverage: a configured factor that too few of the rows of all
\* periods have data for.
UncoveredFactors(snapshots) ==
  LET rows == UNION {{<<e, s>> : s \in DOMAIN snapshots[e]} : e \in DOMAIN snapshots}
  IN  {name \in SelectedFactors :
         100 * Cardinality({row \in rows : name \in snapshots[row[1]][row[2]].available})
           < MinFactorCoverage * Cardinality(rows)}

\* _determine_run_status, but for the benchmarks.
Reduced(inputs, schedule, snapshots) ==
  \/ DOMAIN inputs.prices # Range(CandidateSymbols)
  \/ inputs.macro = <<>>
  \/ \E e \in DOMAIN schedule :
       Cardinality({s \in DOMAIN schedule[e] : schedule[e][s] > 0}) < MinHoldings
  \/ UncoveredFactors(snapshots) # {}

Schedulable == {inputs \in PossibleInputs : CanSchedule(inputs.prices)}

PortfolioTable(inputs) ==
  Written([e \in execution_dates(inputs.prices) |-> portfolio_at(inputs, e)])

SnapshotTable(inputs) ==
  Written([e \in execution_dates(inputs.prices) |->
             Written([s \in DOMAIN inputs.prices |-> factor_snapshot(inputs, s, e)])])

\* topped is where floats may have put a weight a rounding above MaxPosition.
Result(inputs, portfolios, snapshots) ==
  LET schedule == Written([e \in DOMAIN portfolios |->
                             Written([s \in DOMAIN inputs.prices |->
                                        portfolios[e].target_weights[s]])])
  IN  [schedule |-> schedule,
       topped |-> Written([e \in DOMAIN portfolios |-> portfolios[e].topped]),
       snapshots |-> snapshots,
       reduced |-> Reduced(inputs, schedule, snapshots)]

ResearchOf ==
  Written([inputs \in Schedulable |->
             Result(inputs, PortfolioTable(inputs), SnapshotTable(inputs))])

InputsOf(r) == [prices |-> run[r].prices, reports |-> run[r].reports, macro |-> run[r].macro]

\* Without a trading day all symbols share in the window there is no schedule.
Scheduled(state, macro, inputs) ==
  IF inputs \notin Schedulable THEN [state EXCEPT !.at = "failed"]
  ELSE [state EXCEPT !.at = "backtest", !.macro = macro, !.result = ResearchOf[inputs]]

BuildSchedule(r) ==
  /\ run[r].at = "schedule"
  /\ \E macro \in MacroAnswers :
       run' = [run EXCEPT ![r] = Scheduled(@, macro, [InputsOf(r) EXCEPT !.macro = macro])]
  /\ UNCHANGED <<cache, sidecar, dirs, cacheVars>>

\* Some of the weights that were topped up may have come out a rounding
\* above the limit.
OverLimits(topped) ==
  {[e \in DOMAIN topped |-> topped[e] \cap syms] : syms \in SUBSET Symbols}

ClosesOf(prices) ==
  [s \in DOMAIN prices |-> [d \in DOMAIN prices[s] |-> prices[s][d].close]]

Verdict(r, over) ==
  backtest_verdict(run[r].result.schedule, ClosesOf(run[r].prices), DOMAIN run[r].prices, over)

Backtested(state) ==
  [state EXCEPT !.prices = Nothing, !.reports = Nothing, !.macro = <<>>, !.result = NoResult,
                !.reduced = state.result.reduced]

Refused(state, verdict, over) ==
  [Backtested(state) EXCEPT !.at = "failed", !.refused = verdict,
                            !.over = UNION {over[e] : e \in DOMAIN over}]

Backtest(r) ==
  /\ run[r].at = "backtest"
  /\ \E over \in OverLimits(run[r].result.topped) : \E verdict \in {Verdict(r, over)} :
       \/ /\ verdict = Accepted
          /\ run' = [run EXCEPT ![r] = [Backtested(run[r]) EXCEPT !.at = "benchmark"]]
          /\ load' = [load EXCEPT ![r].at = "look"]
       \/ /\ verdict # Accepted
          /\ run' = [run EXCEPT ![r] = Refused(run[r], verdict, over)]
          /\ UNCHANGED load
  /\ UNCHANGED <<cache, sidecar, dirs, metadata, data>>

LoadBenchmark(r) ==
  /\ run[r].at = "benchmark"
  /\ LoadStep(r)
  /\ UNCHANGED runVars

---------------------------------------------------------------------------
(* artifacts.py.  The run id is new, so nothing of that name is there.     *)

StartArtifacts(r) ==
  /\ run[r].at = "benchmark" /\ load[r].at = "loaded"
  /\ FinalOf(r) \notin DOMAIN dirs
  /\ dirs' = With(dirs, StagingOf(r),
                  [files |-> {},
                   status |-> [outcome |-> IF run[r].reduced \/ ~ load[r].passed
                                           THEN "partial_success" ELSE "success",
                               dated |-> run[r].dated]])
  /\ run' = [run EXCEPT ![r].at = "artifacts"]
  /\ load' = [load EXCEPT ![r] = NotLoading]
  /\ UNCHANGED <<cache, sidecar, metadata, data>>

WriteArtifact(r) ==
  /\ run[r].at = "artifacts" /\ run[r].written < Len(ArtifactFiles)
  /\ dirs' = [dirs EXCEPT ![StagingOf(r)].files = @ \cup {ArtifactFiles[run[r].written + 1]}]
  /\ run' = [run EXCEPT ![r].written = @ + 1]
  /\ UNCHANGED <<cache, sidecar, cacheVars>>

Without(loaded, name) == [n \in DOMAIN loaded \ {name} |-> loaded[n]]

\* A file that cannot be written, or the rename: the staging directory goes.
DiscardArtifacts(r) ==
  /\ run[r].at = "artifacts"
  /\ dirs' = Without(dirs, StagingOf(r))
  /\ run' = [run EXCEPT ![r].at = "failed"]
  /\ UNCHANGED <<cache, sidecar, cacheVars>>

\* Mutant of PublishArtifacts: it does not look for missing files.
PublishArtifacts_Unchecked(r) ==
  /\ run[r].at = "artifacts"
  /\ dirs' = With(Without(dirs, StagingOf(r)), FinalOf(r), dirs[StagingOf(r)])
  /\ run' = [run EXCEPT ![r].at = "done"]
  /\ UNCHANGED <<cache, sidecar, cacheVars>>

\* Nothing missing, and one rename.
PublishArtifacts(r) ==
  /\ run[r].at = "artifacts" /\ run[r].written = Len(ArtifactFiles)
  /\ Range(ArtifactFiles) \subseteq dirs[StagingOf(r)].files
  /\ dirs' = With(Without(dirs, StagingOf(r)), FinalOf(r), dirs[StagingOf(r)])
  /\ run' = [run EXCEPT ![r].at = "done"]
  /\ UNCHANGED <<cache, sidecar, cacheVars>>

\* The process dies.  A sidecar it was writing is then no readable one.
Crash(r) ==
  /\ run[r].at \notin Ended
  /\ run' = [run EXCEPT ![r] = [Starting EXCEPT !.at = "crashed"]]
  /\ \/ UNCHANGED sidecar
     \/ run[r].at = "sidecar" /\ sidecar' = [sidecar EXCEPT ![Current(r)] = FALSE]
  /\ load' = [load EXCEPT ![r] = NotLoading]
  /\ UNCHANGED <<cache, dirs, metadata, data>>

\* run_store.py, list_runs: the name of a staging directory is no run id.
Listed == {r \in Runs : FinalOf(r) \in DOMAIN dirs}

Step(r) ==
  \/ LoadItem(r) \/ BuildSchedule(r) \/ Backtest(r) \/ LoadBenchmark(r)
  \/ StartArtifacts(r) \/ WriteArtifact(r) \/ DiscardArtifacts(r) \/ PublishArtifacts(r)
  \/ Crash(r)

Next == \E r \in Runs : Step(r)

Spec == Init /\ [][Next]_vars

---------------------------------------------------------------------------
(* Properties *)

\* The variables hold what their comments say.
TypeOK ==
  /\ metadata = NoMetadata \/ metadata.file \in FileNames
  /\ DOMAIN data \subseteq FileNames
  /\ \A r \in Runs : load[r].status \in {"none", "miss", "invalid_preserved", "hit_valid",
                                         "written", "write_failed"}
  /\ DOMAIN cache = ItemSet /\ sidecar \in [ItemSet -> BOOLEAN]
  /\ \A r \in Runs :
       /\ run[r].at \in Ended \cup {"look", "fetch", "open", "write", "mixed", "sidecar",
                                    "schedule", "backtest", "benchmark", "artifacts"}
       /\ run[r].at = "backtest" => InputsOf(r) \in PossibleInputs
  /\ DOMAIN dirs \subseteq {StagingOf(r) : r \in Runs} \cup {FinalOf(r) : r \in Runs}

\* What was known before day e of the inputs of a run, every row at its place.
KnownBefore(rows, e) ==
  [i \in {j \in DOMAIN rows : rows[j].available # NoDate /\ rows[j].available < e} |-> rows[i]]

Before(inputs, e) ==
  [prices |-> [s \in DOMAIN inputs.prices |->
                 [d \in {c \in DOMAIN inputs.prices[s] : c < e} |-> inputs.prices[s][d]]],
   reports |-> [s \in DOMAIN inputs.reports |-> KnownBefore(inputs.reports[s], e)],
   macro |-> KnownBefore(inputs.macro, e)]

KnownPortfolios ==
  Written([inputs \in Schedulable |->
             Written([e \in execution_dates(inputs.prices) |->
                        portfolio_at(Before(inputs, e), e)])])

KnownSnapshots ==
  Written([inputs \in Schedulable |->
             Written([e \in execution_dates(inputs.prices) |->
                        Written([s \in DOMAIN inputs.prices |->
                                   factor_snapshot(Before(inputs, e), s, e)])])])

\* The weights a schedule sets for a day are those that can be computed from
\* the bars, the reports and the macro rows that were public before that day,
\* and the snapshot of the day says which of them were used.
AsKnown(schedule, portfolios) ==
  \A e \in DOMAIN schedule : \A s \in DOMAIN schedule[e] :
    schedule[e][s] = portfolios[e].target_weights[s]

NoLookAhead ==
  \A r \in Runs :
    run[r].at = "backtest" =>
      /\ AsKnown(run[r].result.schedule, KnownPortfolios[InputsOf(r)])
      /\ run[r].result.snapshots = KnownSnapshots[InputsOf(r)]

RejectedByRounding(r) ==
  run[r].refused # "none" => run[r].refused = "weights" /\ run[r].over # {}

\* What the trades of a day cost, and what was there to pay for them.
Costs(day) ==
  SumOf([s \in DOMAIN day.valued.held |->
           CostOf(Greatest(0, day.valued.held[s] - day.traded.held[s]), SellCost)
             + CostOf(Greatest(0, day.traded.held[s] - day.valued.held[s]), BuyCost)])

TradesArePaid(path) ==
  \A d \in DOMAIN path : Value(path[d].traded) + Costs(path[d]) <= Value(path[d].valued)

\* Whether they are, for what the backtester makes of the schedule of each input.
PaidFor ==
  Written([inputs \in Schedulable |->
             TradesArePaid(Portfolios(ResearchOf[inputs].schedule, ClosesOf(inputs.prices),
                                      DOMAIN inputs.prices))])

\* The backtester takes every schedule the pipeline can build, whatever
\* prices, reports and macro rows it was given and whatever was lost on the
\* way; the only one it refuses has a weight that rounding put above the
\* limit on a position.  And it buys nothing with cash that is not there:
\* what a portfolio is worth pays for its trades and their costs, however
\* little cash the schedule leaves for them.
BacktestSound ==
  \A r \in Runs :
    /\ RejectedByRounding(r)
    /\ run[r].at = "backtest" => PaidFor[InputsOf(r)]

\* A run that does not disclose that its reports lack publication dates has
\* used none that do, although it may have read rows one run wrote under a
\* sidecar of another.
PointInTimeHonest ==
  \A r \in Runs :
    run[r].dated =>
      \A s \in DOMAIN run[r].reports : \A i \in DOMAIN run[r].reports[s] :
        run[r].reports[s][i].available # NoDate

\* Readers of the output directory see a catalogue of complete runs that
\* only grows, whatever fails or crashes.
Catalogue ==
  INSTANCE RunCatalogue WITH
    Ids <- Runs,
    Complete <- Range(ArtifactFiles),
    Statuses <- [outcome : {"success", "partial_success"}, dated : BOOLEAN],
    runs <- [r \in Listed |-> dirs[FinalOf(r)]]

ImplementsCatalogue == Catalogue!Spec
=============================================================================
