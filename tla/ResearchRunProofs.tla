------------------------- MODULE ResearchRunProofs -------------------------
(***************************************************************************)
(* What holds of any number of research runs over one cache and one output *)
(* directory, whatever the providers answer and wherever runs die: the     *)
(* publication dates a run claims, that its weights know nothing of the    *)
(* future, that the backtester takes them and its trades are paid for, the *)
(* benchmark cache, what the files of a run say when they are read, and    *)
(* the catalogue of published runs.                                        *)
(***************************************************************************)
EXTENDS RunStore, FunctionTheorems, FiniteSetTheorems, TLAPS

RunFields ==
  {"at", "item", "found", "fetched", "prices", "reports", "dated", "macro", "result",
   "reduced", "refused", "over", "written"}

LoadFields == {"at", "status", "cached", "attempts", "passed", "frame", "source"}

\* A run that has not come to its benchmark.
Preparing == {"look", "fetch", "open", "write", "mixed", "sidecar", "schedule", "backtest"}

\* The claim of publication dates is true of the reports in memory.
HonestRun(x) ==
  x.dated => \A s \in DOMAIN x.reports : \A i \in DOMAIN x.reports[s] :
               x.reports[s][i].available # NoDate

\* The backtester refuses only what rounding has put above a limit.
RoundedOnly(x) == x.refused # "none" => x.refused = "weights" /\ x.over # {}

RunOK(x) ==
  /\ DOMAIN x = RunFields /\ x.dated \in BOOLEAN /\ x.written \in Nat
  /\ HonestRun(x) /\ RoundedOnly(x)

\* A load has a frame when its data passed, and counts its attempts.
Reported(l) ==
  /\ l.passed \in BOOLEAN /\ (l.passed <=> l.frame # <<>>)
  /\ l.attempts \in Seq(Range(l.attempts))

\* The frame of a load that will be written has passed, and a provider is
\* known to have given it.
LoadOK(l) ==
  /\ DOMAIN l = LoadFields /\ Reported(l)
  /\ l.at \in {"recheck", "prepare", "publish", "commit"} =>
       /\ validate_benchmark_data(l.frame, BenchStart, BenchEnd) = "success"
       /\ l.source # 0

\* The metadata do not name the data of a run that has yet to commit them.
Uncommitted(x, l) ==
  \/ x.at \in Preparing
  \/ x.at = "benchmark" /\ l.at \notin {"loaded", "idle"}

\* A run at its backtest has the result that its inputs give.
Computed(x) ==
  LET inputs == [prices |-> x.prices, reports |-> x.reports, macro |-> x.macro] IN
  x.at = "backtest" => inputs \in Schedulable /\ x.result = ResearchOf[inputs]

RunsOK ==
  /\ DOMAIN run = Runs
  /\ \A r \in Runs : RunOK(run[r]) /\ Computed(run[r])

LoadsOK ==
  /\ DOMAIN load = Runs
  /\ \A r \in Runs :
       /\ LoadOK(load[r])
       /\ Uncommitted(run[r], load[r]) => metadata = NoMetadata \/ metadata.file # r
       /\ load[r].at = "commit" => r \in DOMAIN data /\ data[r] = load[r].frame

CacheOK == LoadsOK /\ MetadataNamesItsGeneration

StatusSet == [outcome : {"success", "partial_success"}, dated : BOOLEAN]

DirectorySet == [files : SUBSET Range(ArtifactFiles), status : StatusSet]

\* What a run writes is a directory of its files; what is published belongs
\* to a run that is done.
DirsOK ==
  \A r \in Runs :
    /\ run[r].at = "artifacts" =>
         StagingOf(r) \in DOMAIN dirs /\ dirs[StagingOf(r)] \in DirectorySet
    /\ FinalOf(r) \in DOMAIN dirs => run[r].at = "done"

IInv == RunsOK /\ CacheOK /\ DirsOK

-----------------------------------------------------------------------------
(* Runs that prepare *)

LEMMA AdvanceKeeps ==
  ASSUME NEW x, RunOK(x)
  PROVE  /\ RunOK(Advance(x))
         /\ Advance(x).at \in {"look", "schedule", "failed"}
  <1> DEFINE rest == {k \in DOMAIN Items :
                        /\ k > x.item
                        /\ Items[k].kind = "price" \/ Items[k].symbol \in DOMAIN x.prices}
             y == [x EXCEPT !.at = "look", !.item = Min(rest), !.fetched = NoData,
                            !.found = FALSE]
             z == [x EXCEPT !.at = IF x.prices = Nothing THEN "failed" ELSE "schedule",
                            !.fetched = NoData, !.found = FALSE]
  <1>1. Advance(x) = IF rest # {} THEN y ELSE z
    BY DEF Advance
  <1>2. RunOK(y) /\ y.at = "look"
    BY DEF RunOK, HonestRun, RoundedOnly, RunFields
  <1>3. RunOK(z) /\ z.at \in {"schedule", "failed"}
    BY DEF RunOK, HonestRun, RoundedOnly, RunFields
  <1> HIDE DEF rest, y, z
  <1> QED BY <1>1, <1>2, <1>3

\* Some runs have moved on while preparing, or failed at it; the others are
\* where they were.
MovesOn(x, y) ==
  /\ RunOK(y) /\ Computed(y)
  /\ x.at \in Preparing /\ y.at \in Preparing \cup {"failed"}

Prepares ==
  /\ DOMAIN run' = Runs
  /\ \A q \in Runs : run'[q] = run[q] \/ MovesOn(run[q], run'[q])

LEMMA OnePrepares ==
  ASSUME NEW r \in Runs, NEW y, RunsOK, MovesOn(run[r], y), run' = [run EXCEPT ![r] = y]
  PROVE  Prepares
  BY DEF RunsOK, Prepares

LEMMA WithPricesKeeps ==
  ASSUME NEW x, RunOK(x), NEW symbol, NEW file
  PROVE  RunOK(WithPrices(x, symbol, file))
  BY DEF WithPrices, RunOK, HonestRun, RoundedOnly, RunFields

LEMMA WithReportsKeeps ==
  ASSUME NEW x, RunOK(x), NEW symbol, NEW rows, NEW dated \in BOOLEAN,
         dated => \A i \in DOMAIN rows : rows[i].available # NoDate
  PROVE  RunOK(WithReports(x, symbol, rows, dated))
  <1> DEFINE q == WithReports(x, symbol, rows, dated)
  <1>1. DOMAIN q = RunFields /\ q.written \in Nat /\ q.refused = x.refused /\ q.over = x.over
    BY DEF WithReports, RunOK, RunFields
  <1>2. q.dated = (x.dated /\ dated)
    BY DEF WithReports, RunOK, RunFields
  <1>3. q.reports = With(x.reports, symbol, rows)
    BY DEF WithReports, RunOK, RunFields
  <1> HIDE DEF q
  <1>4. HonestRun(q)
    <2> SUFFICES ASSUME q.dated, NEW s \in DOMAIN q.reports, NEW i \in DOMAIN q.reports[s]
                 PROVE  q.reports[s][i].available # NoDate
      BY DEF HonestRun
    <2>1. x.dated /\ dated
      BY <1>2
    <2>2. CASE s = symbol
      BY <1>3, <2>1, <2>2 DEF With
    <2>3. CASE s # symbol
      <3>1. s \in DOMAIN x.reports /\ q.reports[s] = x.reports[s]
        BY <1>3, <2>3 DEF With
      <3> QED BY <3>1, <2>1 DEF RunOK, HonestRun
    <2> QED BY <2>2, <2>3
  <1>5. q.dated \in BOOLEAN
    BY <1>2
  <1> QED BY <1>1, <1>4, <1>5 DEF RunOK, RoundedOnly, q

LEMMA LoadedPrepares ==
  ASSUME NEW r \in Runs, RunsOK, NEW file, NEW claimed,
         run[r].at \in Preparing, Loaded(r, file, claimed)
  PROVE  Prepares
  <1> DEFINE item == Current(r)
             rows == validate_fundamental_history(file)
             p == WithPrices(run[r], item.symbol, file)
             q == WithReports(run[r], item.symbol, rows, point_in_time(claimed, rows))
             y == IF item.kind = "price" THEN Advance(p) ELSE Advance(q)
  <1>1. run' = [run EXCEPT ![r] = y]
    BY DEF Loaded
  <1>2. RunOK(p)
    BY WithPricesKeeps DEF RunsOK
  <1>3. RunOK(q)
    <2>1. point_in_time(claimed, rows) \in BOOLEAN
      BY DEF point_in_time
    <2>2. point_in_time(claimed, rows) => \A i \in DOMAIN rows : rows[i].available # NoDate
      BY DEF point_in_time
    <2> QED BY <2>1, <2>2, WithReportsKeeps DEF RunsOK
  <1> HIDE DEF p, q, item, rows
  <1>4. RunOK(y) /\ y.at \in {"look", "schedule", "failed"}
    BY <1>2, <1>3, AdvanceKeeps
  <1> HIDE DEF y
  <1>5. MovesOn(run[r], y)
    BY <1>4 DEF MovesOn, Preparing, Computed
  <1> QED BY <1>1, <1>5, OnePrepares

LEMMA LostPrepares ==
  ASSUME NEW r \in Runs, RunsOK, run[r].at \in Preparing, Lost(r)
  PROVE  Prepares
  <1> DEFINE item == Current(r)
             q == WithReports(run[r], item.symbol, <<>>, FALSE)
             y == IF item.kind = "price" THEN Advance(run[r]) ELSE Advance(q)
  <1>1. run' = [run EXCEPT ![r] = y]
    BY DEF Lost
  <1>2. RunOK(run[r])
    BY DEF RunsOK
  <1>3. RunOK(q)
    BY <1>2, WithReportsKeeps
  <1> HIDE DEF q, item
  <1>4. RunOK(y) /\ y.at \in {"look", "schedule", "failed"}
    BY <1>2, <1>3, AdvanceKeeps
  <1> HIDE DEF y
  <1>5. MovesOn(run[r], y)
    BY <1>4 DEF MovesOn, Preparing, Computed
  <1> QED BY <1>1, <1>5, OnePrepares

\* A run that only moves on keeps all it has.
LEMMA AtPrepares ==
  ASSUME NEW r \in Runs, RunsOK, run[r].at \in Preparing,
         NEW at \in (Preparing \ {"backtest"}) \cup {"failed"}, NEW found, NEW fetched,
         run' = [run EXCEPT ![r] = [run[r] EXCEPT !.at = at, !.found = found,
                                                  !.fetched = fetched]]
  PROVE  Prepares
  <1> DEFINE y == [run[r] EXCEPT !.at = at, !.found = found, !.fetched = fetched]
  <1>1. RunOK(run[r])
    BY DEF RunsOK
  <1>2. RunOK(y) /\ y.at = at
    BY <1>1 DEF RunOK, HonestRun, RoundedOnly, RunFields
  <1> HIDE DEF y
  <1>3. MovesOn(run[r], y)
    BY <1>2 DEF MovesOn, Computed
  <1> QED BY <1>3, OnePrepares DEF y

LEMMA LookPrepares ==
  ASSUME NEW r \in Runs, RunsOK, LookInCache(r)
  PROVE  Prepares
  <1>1. run[r].at \in Preparing
    BY DEF LookInCache, Preparing
  <1>2. CASE Usable(Current(r), cache[Current(r)])
    BY <1>1, <1>2, LoadedPrepares DEF LookInCache
  <1>3. CASE ~ Usable(Current(r), cache[Current(r)])
    <2>1. run' = [run EXCEPT ![r].at = "fetch", ![r].found = cache[Current(r)] # NoData]
      BY <1>3 DEF LookInCache
    <2>2. DOMAIN run[r] = RunFields
      BY DEF RunsOK, RunOK
    <2>3. run' = [run EXCEPT ![r] = [run[r] EXCEPT !.at = "fetch",
                                                   !.found = cache[Current(r)] # NoData,
                                                   !.fetched = run[r].fetched]]
      BY <2>1, <2>2 DEF RunFields
    <2> QED BY <1>1, <2>3, AtPrepares DEF Preparing
  <1> QED BY <1>2, <1>3

LEMMA FetchPrepares ==
  ASSUME NEW r \in Runs, RunsOK, FetchItem(r)
  PROVE  Prepares
  <1>1. run[r].at \in Preparing
    BY DEF FetchItem, Preparing
  <1>2. PICK answer : IF ~ Usable(Current(r), answer.file) THEN Lost(r)
                      ELSE IF run[r].found THEN Loaded(r, answer.file, answer.dated)
                      ELSE run' = [run EXCEPT ![r].at = "open", ![r].fetched = answer]
    BY DEF FetchItem
  <1>3. CASE Lost(r)
    BY <1>1, <1>3, LostPrepares
  <1>4. CASE Loaded(r, answer.file, answer.dated)
    BY <1>1, <1>4, LoadedPrepares
  <1>5. CASE run' = [run EXCEPT ![r].at = "open", ![r].fetched = answer]
    <2>1. DOMAIN run[r] = RunFields
      BY DEF RunsOK, RunOK
    <2>2. run' = [run EXCEPT ![r] = [run[r] EXCEPT !.at = "open", !.found = run[r].found,
                                                   !.fetched = answer]]
      BY <1>5, <2>1 DEF RunFields
    <2> QED BY <1>1, <2>2, AtPrepares DEF Preparing
  <1> QED BY <1>2, <1>3, <1>4, <1>5

LEMMA OpenPrepares ==
  ASSUME NEW r \in Runs, RunsOK, OpenFile(r)
  PROVE  Prepares
  <1> DEFINE sharing == {q \in Runs : /\ run[q].at \in {"write", "mixed"}
                                      /\ Current(q) = Current(r)}
             y(q) == IF q \in sharing \/ (q = r /\ sharing # {})
                     THEN [run[q] EXCEPT !.at = "mixed"]
                     ELSE IF q = r THEN [run[r] EXCEPT !.at = "write"] ELSE run[q]
  <1>1. run[r].at = "open" /\ run' = [q \in Runs |-> y(q)]
    BY DEF OpenFile
  <1>2. ASSUME NEW q \in Runs, q \in sharing \/ q = r,
               NEW at \in {"mixed", "write"}
        PROVE  MovesOn(run[q], [run[q] EXCEPT !.at = at])
    <2>1. RunOK(run[q]) /\ run[q].at \in Preparing
      BY <1>1, <1>2 DEF RunsOK, Preparing
    <2>2. RunOK([run[q] EXCEPT !.at = at])
      BY <2>1 DEF RunOK, HonestRun, RoundedOnly, RunFields
    <2>3. [run[q] EXCEPT !.at = at].at = at
      BY <2>1 DEF RunOK, RunFields
    <2> QED BY <2>1, <2>2, <2>3 DEF MovesOn, Preparing, Computed
  <1> HIDE DEF sharing
  <1>3. ASSUME NEW q \in Runs
        PROVE  y(q) = run[q] \/ MovesOn(run[q], y(q))
    <2>1. CASE q \in sharing \/ (q = r /\ sharing # {})
      <3>1. y(q) = [run[q] EXCEPT !.at = "mixed"]
        BY <2>1
      <3> QED BY <2>1, <3>1, <1>2
    <2>2. CASE ~(q \in sharing \/ (q = r /\ sharing # {})) /\ q = r
      <3>1. y(q) = [run[q] EXCEPT !.at = "write"]
        BY <2>2
      <3> QED BY <2>2, <3>1, <1>2
    <2>3. CASE ~(q \in sharing \/ (q = r /\ sharing # {})) /\ q # r
      BY <2>3
    <2> QED BY <2>1, <2>2, <2>3
  <1> HIDE DEF y
  <1> QED BY <1>1, <1>3 DEF Prepares

LEMMA FinishPrepares ==
  ASSUME NEW r \in Runs, RunsOK, FinishFile(r)
  PROVE  Prepares
  <1>1. run[r].at \in Preparing
    BY DEF FinishFile, Preparing
  <1>2. Lost(r) \/ run' = [run EXCEPT ![r].at = "sidecar"]
    BY DEF FinishFile
  <1>3. CASE Lost(r)
    BY <1>1, <1>3, LostPrepares
  <1>4. CASE run' = [run EXCEPT ![r].at = "sidecar"]
    <2>1. DOMAIN run[r] = RunFields
      BY DEF RunsOK, RunOK
    <2>2. run' = [run EXCEPT ![r] = [run[r] EXCEPT !.at = "sidecar", !.found = run[r].found,
                                                   !.fetched = run[r].fetched]]
      BY <1>4, <2>1 DEF RunFields
    <2> QED BY <1>1, <2>2, AtPrepares DEF Preparing
  <1> QED BY <1>2, <1>3, <1>4

LEMMA SidecarPrepares ==
  ASSUME NEW r \in Runs, RunsOK, WriteSidecar(r)
  PROVE  Prepares
  <1>1. run[r].at \in Preparing
    BY DEF WriteSidecar, Preparing
  <1>2. Lost(r) \/ Loaded(r, run[r].fetched.file, run[r].fetched.dated)
    BY DEF WriteSidecar
  <1> QED BY <1>1, <1>2, LostPrepares, LoadedPrepares

LEMMA BuildPrepares ==
  ASSUME NEW r \in Runs, RunsOK, BuildSchedule(r)
  PROVE  Prepares
  <1> DEFINE inputs(macro) == [InputsOf(r) EXCEPT !.macro = macro]
  <1>1. PICK macro \in MacroAnswers :
          run' = [run EXCEPT ![r] = Scheduled(run[r], macro, inputs(macro))]
    BY DEF BuildSchedule
  <1>2. run[r].at \in Preparing /\ RunOK(run[r])
    BY DEF BuildSchedule, RunsOK, Preparing
  <1> HIDE DEF inputs
  <1>3. MovesOn(run[r], Scheduled(run[r], macro, inputs(macro)))
    <2>1. CASE inputs(macro) \notin Schedulable
      <3>1. Scheduled(run[r], macro, inputs(macro)) = [run[r] EXCEPT !.at = "failed"]
        BY <2>1 DEF Scheduled
      <3>2. MovesOn(run[r], [run[r] EXCEPT !.at = "failed"])
        BY <1>2 DEF MovesOn, RunOK, HonestRun, RoundedOnly, RunFields, Computed
      <3> QED BY <3>1, <3>2
    <2>2. CASE inputs(macro) \in Schedulable
      <3> DEFINE z == ResearchOf[inputs(macro)]
                 y == [run[r] EXCEPT !.at = "backtest", !.macro = macro, !.result = z]
      <3>1. Scheduled(run[r], macro, inputs(macro)) = y
        BY <2>2 DEF Scheduled
      <3>2. inputs(macro) = [prices |-> run[r].prices, reports |-> run[r].reports,
                             macro |-> macro]
        BY DEF inputs, InputsOf
      <3> HIDE DEF z
      <3>3. /\ RunOK(y) /\ y.at = "backtest" /\ y.result = z
            /\ y.prices = run[r].prices /\ y.reports = run[r].reports /\ y.macro = macro
        BY <1>2 DEF RunOK, HonestRun, RoundedOnly, RunFields
      <3> HIDE DEF y
      <3>4. Computed(y)
        BY <2>2, <3>2, <3>3 DEF Computed, z
      <3> QED BY <1>2, <3>1, <3>3, <3>4 DEF MovesOn, Preparing
    <2> QED BY <2>1, <2>2
  <1> QED BY <1>1, <1>3, OnePrepares

\* A run that loads or schedules leaves the benchmark and the artifacts alone.
Others == UNCHANGED <<metadata, data, load, dirs>>

LEMMA PreparingSteps ==
  ASSUME NEW r \in Runs, RunsOK, LoadItem(r) \/ BuildSchedule(r)
  PROVE  Prepares /\ Others
  <1>1. Prepares
    BY LookPrepares, FetchPrepares, OpenPrepares, FinishPrepares, SidecarPrepares,
       BuildPrepares DEF LoadItem
  <1>2. Others
    BY DEF Others, LoadItem, BuildSchedule, LookInCache, FetchItem, OpenFile, FinishFile,
           WriteSidecar, cacheVars
  <1> QED BY <1>1, <1>2

-----------------------------------------------------------------------------
(* The benchmark cache *)

LEMMA NatMinimum ==
  ASSUME NEW T \in SUBSET Nat, T # {}
  PROVE  \E x \in T : \A y \in T : x <= y
  <1>1. IsWellFoundedOn(OpToRel(<, Nat), Nat)
    BY NatLessThanWellFounded
  <1>2. PICK x \in T : \A y \in T : <<y, x>> \notin OpToRel(<, Nat)
    BY <1>1, WFMin
  <1>3. \A y \in T : ~(y < x)
    BY <1>2 DEF OpToRel
  <1> QED BY <1>3

LEMMA NatMaximum ==
  ASSUME NEW T \in SUBSET Nat, T # {}, NEW e \in Nat, \A d \in T : d <= e
  PROVE  Max(T) \in T /\ \A d \in T : Max(T) >= d
  <1> DEFINE left == {e - d : d \in T}
  <1>0. \A d \in T : d \in Nat /\ e - d \in Nat
    OBVIOUS
  <1>1. left \in SUBSET Nat /\ left # {}
    BY <1>0
  <1>2. PICK m \in left : \A n \in left : m <= n
    <2> HIDE DEF left
    <2> QED BY <1>1, NatMinimum
  <1>3. PICK x \in T : e - x = m
    BY <1>2
  <1>4. \A d \in T : x >= d
    <2> SUFFICES ASSUME NEW d \in T PROVE x >= d
      OBVIOUS
    <2>1. e - x <= e - d
      BY <1>2, <1>3
    <2> QED BY <2>1
  <1> QED BY <1>4 DEF Max

\* What the chain selects has passed, and is not "no provider".
LEMMA PassedHasRows ==
  ASSUME NEW frame, validate_benchmark_data(frame, BenchStart, BenchEnd) = "success"
  PROVE  frame # <<>>
  BY DEF validate_benchmark_data

LEMMA OneAttempt ==
  ASSUME NEW reason
  PROVE  cache_attempt(reason) \in Seq(Range(cache_attempt(reason)))
  BY DEF cache_attempt, Range

LEMMA SequenceOf ==
  ASSUME NEW S, NEW s \in Seq(S)
  PROVE  s \in Seq(Range(s))
  BY DEF Range

LEMMA Joined ==
  ASSUME NEW s, s \in Seq(Range(s)), NEW t, t \in Seq(Range(t))
  PROVE  s \o t \in Seq(Range(s \o t))
  <1>1. s \o t \in Seq(Range(s) \cup Range(t))
    <2> DEFINE S == Range(s) \cup Range(t)
    <2>1. s \in Seq(S) /\ t \in Seq(S)
      OBVIOUS
    <2> HIDE DEF S
    <2>2. s \o t \in Seq(S)
      BY <2>1
    <2> QED BY <2>2 DEF S
  <1> QED BY <1>1, SequenceOf

LEMMA AttemptsMade ==
  ASSUME NEW answers \in ChainAnswers, NEW result,
         result = fetch_daily(answers, BenchStart, BenchEnd)
  PROVE  result.attempts \in Seq(Range(result.attempts)) /\ result.passed \in BOOLEAN
  <1> DEFINE reason == [k \in DOMAIN answers |->
                          attempt_reason(answers[k], BenchStart, BenchEnd)]
             passed == {k \in DOMAIN answers : reason[k] = "success"}
             tried == IF passed = {} THEN Len(answers) ELSE Min(passed)
             made == [k \in 1..tried |->
                        [role |-> "provider", provider |-> k, reason |-> reason[k]]]
  <1>1. Len(answers) \in Nat /\ DOMAIN answers = 1..Len(answers)
    BY CacheAssumption
  <1>2. tried \in Nat
    <2>1. CASE passed = {}
      BY <1>1, <2>1
    <2>2. CASE passed # {}
      <3>1. PICK x \in passed : \A y \in passed : x <= y
        <4>1. passed \in SUBSET Nat
          BY <1>1
        <4> HIDE DEF passed
        <4> QED BY <2>2, <4>1, NatMinimum
      <3>2. Min(passed) \in passed
        BY <3>1 DEF Min
      <3> QED BY <1>1, <2>2, <3>2
    <2> QED BY <2>1, <2>2
  <1>3. result.attempts = made /\ result.passed = (passed # {})
    BY DEF fetch_daily
  <1> HIDE DEF tried, reason
  <1>4. made \in Seq(Range(made))
    BY <1>2 DEF Range
  <1> QED BY <1>3, <1>4

LEMMA SelectedPassed ==
  ASSUME NEW answers \in ChainAnswers, NEW result,
         result = fetch_daily(answers, BenchStart, BenchEnd), result.passed
  PROVE  /\ validate_benchmark_data(answers[result.selected].frame, BenchStart, BenchEnd)
              = "success"
         /\ result.selected # 0
  <1> DEFINE reason == [k \in DOMAIN answers |->
                          attempt_reason(answers[k], BenchStart, BenchEnd)]
             passed == {k \in DOMAIN answers : reason[k] = "success"}
  <1>1. Len(answers) \in Nat /\ DOMAIN answers = 1..Len(answers)
    BY CacheAssumption
  <1>2. passed # {}
    BY DEF fetch_daily
  <1>3. PICK x \in passed : \A y \in passed : x <= y
    <2>1. passed \in SUBSET Nat
      BY <1>1
    <2> HIDE DEF passed
    <2> QED BY <1>2, <2>1, NatMinimum
  <1>4. Min(passed) \in passed
    BY <1>3 DEF Min
  <1>5. result.selected = Min(passed)
    BY <1>2 DEF fetch_daily
  <1>6. result.selected \in passed
    BY <1>4, <1>5
  <1>7. attempt_reason(answers[result.selected], BenchStart, BenchEnd) = "success"
    BY <1>6
  <1> HIDE DEF passed
  <1> QED BY <1>1, <1>6, <1>7 DEF attempt_reason, passed

\* Metadata written for a frame that passed are a hit.
LEMMA WrittenIsHit ==
  ASSUME NEW r \in Runs,
         validate_benchmark_data(load[r].frame, BenchStart, BenchEnd) = "success",
         load[r].source # 0
  PROVE  /\ metadata_for(r).file = r
         /\ cache_reason_code(metadata_for(r), load[r].frame) = "cache_hit"
  <1>1. cache_metadata_errors(metadata_for(r), load[r].frame) = {}
    BY DEF cache_metadata_errors, metadata_for
  <1> QED BY <1>1 DEF cache_reason_code, metadata_for

\* A step that writes no file of the cache.
LEMMA CacheKept ==
  ASSUME CacheOK, UNCHANGED <<metadata, data>>, DOMAIN load' = Runs,
         \A q \in Runs :
           /\ LoadOK(load'[q])
           /\ load'[q].at = "commit" => load'[q] = load[q]
           /\ Uncommitted(run'[q], load'[q]) => Uncommitted(run[q], load[q])
  PROVE  CacheOK'
  BY DEF CacheOK, LoadsOK, MetadataNamesItsGeneration

\* A step of a load that writes no file of the cache.
LEMMA LoadMoves ==
  ASSUME NEW r \in Runs, CacheOK, UNCHANGED <<metadata, data, run>>,
         run[r].at = "benchmark", load[r].at \notin {"loaded", "idle"},
         NEW l, LoadOK(l), l.at # "commit", load' = [load EXCEPT ![r] = l]
  PROVE  CacheOK'
  <1>1. \A q \in Runs : load'[q] = IF q = r THEN l ELSE load[q]
    BY DEF CacheOK, LoadsOK
  <1>2. DOMAIN load' = Runs
    BY DEF CacheOK, LoadsOK
  <1>3. ASSUME NEW q \in Runs
        PROVE  /\ LoadOK(load'[q])
               /\ load'[q].at = "commit" => load'[q] = load[q]
               /\ Uncommitted(run'[q], load'[q]) => Uncommitted(run[q], load[q])
    BY <1>1 DEF CacheOK, LoadsOK, Uncommitted
  <1> QED BY <1>2, <1>3, CacheKept

LEMMA ReadStep ==
  ASSUME NEW r \in Runs, CacheOK, UNCHANGED run, run[r].at = "benchmark",
         Look(r) \/ ReadMetadata(r) \/ ReadData(r)
  PROVE  CacheOK'
  <1>1. LoadOK(load[r])
    BY DEF CacheOK, LoadsOK
  <1>2. ASSUME NEW reason, Rejected(r, reason), UNCHANGED <<metadata, data>>,
               load[r].at \notin {"loaded", "idle"}
        PROVE  CacheOK'
    <2> DEFINE l == [load[r] EXCEPT !.at = "fetch", !.attempts = cache_attempt(reason)]
    <2>1. load' = [load EXCEPT ![r] = l]
      BY <1>2 DEF Rejected
    <2>2. LoadOK(l) /\ l.at = "fetch"
      BY <1>1, OneAttempt DEF LoadOK, LoadFields, Reported
    <2> HIDE DEF l
    <2> QED BY <1>2, <2>1, <2>2, LoadMoves
  <1>3. CASE Look(r)
    <2> DEFINE l == [load[r] EXCEPT !.at = IF cache_entry_exists THEN "metadata" ELSE "fetch",
                                    !.status = IF cache_entry_exists
                                               THEN "invalid_preserved" ELSE "miss"]
    <2>1. load' = [load EXCEPT ![r] = l]
      BY <1>3 DEF Look
    <2>2. LoadOK(l) /\ l.at \in {"metadata", "fetch"}
      BY <1>1 DEF LoadOK, LoadFields, Reported
    <2> HIDE DEF l
    <2> QED BY <1>3, <2>1, <2>2, LoadMoves DEF Look
  <1>4. CASE ReadMetadata(r)
    <2>1. CASE metadata = NoMetadata
      BY <1>2, <1>4, <2>1 DEF ReadMetadata
    <2>2. CASE metadata # NoMetadata
      <3> DEFINE l == [load[r] EXCEPT !.at = "data", !.cached = metadata]
      <3>1. load' = [load EXCEPT ![r] = l]
        BY <1>4, <2>2 DEF ReadMetadata
      <3>2. LoadOK(l) /\ l.at = "data"
        BY <1>1 DEF LoadOK, LoadFields, Reported
      <3> HIDE DEF l
      <3> QED BY <1>4, <3>1, <3>2, LoadMoves DEF ReadMetadata
    <2> QED BY <2>1, <2>2
  <1>5. CASE ReadData(r)
    <2> DEFINE frame == data[load[r].cached.file]
               hit == [load EXCEPT ![r].at = "loaded", ![r].status = "hit_valid",
                                   ![r].attempts = cache_attempt("success"),
                                   ![r].passed = TRUE, ![r].frame = frame,
                                   ![r].source = load[r].cached.source]
    <2>1. UNCHANGED <<metadata, data>> /\ load[r].at \notin {"loaded", "idle"}
      BY <1>5 DEF ReadData
    <2>2. \/ \E reason : Rejected(r, reason)
          \/ /\ load' = hit
             /\ cache_reason_code(load[r].cached, frame) = "cache_hit"
      BY <1>5 DEF ReadData
    <2>3. CASE \E reason : Rejected(r, reason)
      BY <1>2, <2>1, <2>3
    <2>4. CASE /\ load' = hit
               /\ cache_reason_code(load[r].cached, frame) = "cache_hit"
      <3>3. frame # <<>>
        <4>1. validate_benchmark_data(frame, BenchStart, BenchEnd) = "success"
          BY <2>4 DEF cache_reason_code
        <4> QED BY <4>1, PassedHasRows
      <3> DEFINE l == [load[r] EXCEPT !.at = "loaded", !.status = "hit_valid",
                                      !.attempts = cache_attempt("success"),
                                      !.passed = TRUE, !.frame = frame,
                                      !.source = load[r].cached.source]
      <3>1. load' = [load EXCEPT ![r] = l]
        BY <2>4
      <3>2. LoadOK(l) /\ l.at = "loaded"
        <4> HIDE DEF frame
        <4> QED BY <1>1, <3>3, OneAttempt DEF LoadOK, LoadFields, Reported
      <3> HIDE DEF l
      <3> QED BY <2>1, <3>1, <3>2, LoadMoves
    <2> QED BY <2>2, <2>3, <2>4
  <1> QED BY <1>3, <1>4, <1>5

LEMMA FetchStep ==
  ASSUME NEW r \in Runs, CacheOK, UNCHANGED run, run[r].at = "benchmark", FetchDaily(r)
  PROVE  CacheOK'
  <1>1. LoadOK(load[r])
    BY DEF CacheOK, LoadsOK
  <1> DEFINE result(answers) == fetch_daily(answers, BenchStart, BenchEnd)
             l(answers) == [load[r] EXCEPT
               !.at = IF result(answers).passed THEN "recheck" ELSE "loaded",
               !.attempts = load[r].attempts \o result(answers).attempts,
               !.passed = result(answers).passed,
               !.frame = IF result(answers).passed
                         THEN answers[result(answers).selected].frame ELSE <<>>,
               !.source = IF result(answers).passed THEN result(answers).selected ELSE 0]
  <1>2. PICK answers \in ChainAnswers :
          load' = [load EXCEPT
            ![r].at = IF result(answers).passed THEN "recheck" ELSE "loaded",
            ![r].attempts = @ \o result(answers).attempts,
            ![r].passed = result(answers).passed,
            ![r].frame = IF result(answers).passed
                         THEN answers[result(answers).selected].frame ELSE <<>>,
            ![r].source = IF result(answers).passed THEN result(answers).selected ELSE 0]
    BY DEF FetchDaily
  <1>5. load' = [load EXCEPT ![r] = l(answers)]
    BY <1>2
  <1>6. result(answers).passed \in BOOLEAN
    BY AttemptsMade
  <1>7. LET made == load[r].attempts \o result(answers).attempts
        IN  made \in Seq(Range(made))
    <2> DEFINE made == result(answers).attempts
    <2>1. made \in Seq(Range(made))
      BY AttemptsMade
    <2>2. load[r].attempts \in Seq(Range(load[r].attempts))
      BY <1>1 DEF LoadOK, Reported
    <2> HIDE DEF made
    <2>3. load[r].attempts \o made \in Seq(Range(load[r].attempts \o made))
      BY <2>1, <2>2, Joined
    <2> QED BY <2>3 DEF made
  <1>3. CASE result(answers).passed
    <2>1. /\ validate_benchmark_data(answers[result(answers).selected].frame,
                                     BenchStart, BenchEnd) = "success"
          /\ result(answers).selected # 0
      BY <1>3, SelectedPassed
    <2>3. answers[result(answers).selected].frame # <<>>
      BY <2>1, PassedHasRows
    <2> HIDE DEF result
    <2>2. LoadOK(l(answers)) /\ l(answers).at = "recheck"
      <3>1. Reported(l(answers))
        BY <1>1, <1>3, <1>6, <1>7, <2>3 DEF LoadOK, LoadFields, Reported
      <3> QED BY <1>1, <1>3, <2>1, <3>1 DEF LoadOK, LoadFields
    <2> HIDE DEF l
    <2> QED BY <1>5, <2>2, LoadMoves DEF FetchDaily
  <1>4. CASE ~ result(answers).passed
    <2> HIDE DEF result
    <2>1. LoadOK(l(answers)) /\ l(answers).at = "loaded"
      <3>1. Reported(l(answers))
        BY <1>1, <1>4, <1>6, <1>7 DEF LoadOK, LoadFields, Reported
      <3> QED BY <1>1, <1>4, <3>1 DEF LoadOK, LoadFields
    <2> HIDE DEF l
    <2> QED BY <1>5, <2>1, LoadMoves DEF FetchDaily
  <1> QED BY <1>3, <1>4

LEMMA FailStep ==
  ASSUME NEW r \in Runs, CacheOK, UNCHANGED run, run[r].at = "benchmark",
         WriteFailed(r), UNCHANGED <<metadata, data>>, load[r].at \notin {"loaded", "idle"}
  PROVE  CacheOK'
  <1> DEFINE l == [load[r] EXCEPT !.at = "loaded", !.status = "write_failed"]
  <1>1. load' = [load EXCEPT ![r] = l]
    BY DEF WriteFailed
  <1>2. LoadOK(l) /\ l.at = "loaded"
    BY DEF LoadOK, LoadFields, Reported, CacheOK, LoadsOK
  <1> HIDE DEF l
  <1> QED BY <1>1, <1>2, LoadMoves

LEMMA WriteStep ==
  ASSUME NEW r \in Runs, CacheOK, UNCHANGED run, run[r].at = "benchmark",
         Recheck(r) \/ Prepare(r)
  PROVE  CacheOK'
  <1>1. LoadOK(load[r])
    BY DEF CacheOK, LoadsOK
  <1>2. CASE Recheck(r)
    <2> DEFINE l == [load[r] EXCEPT !.at = IF cache_entry_exists THEN "loaded" ELSE "prepare",
                                    !.status = IF cache_entry_exists
                                               THEN "invalid_preserved" ELSE load[r].status]
    <2>1. load' = [load EXCEPT ![r] = l]
      BY <1>2 DEF Recheck
    <2>2. LoadOK(l) /\ l.at \in {"loaded", "prepare"}
      BY <1>1, <1>2 DEF LoadOK, LoadFields, Reported, Recheck
    <2> HIDE DEF l
    <2> QED BY <1>2, <2>1, <2>2, LoadMoves DEF Recheck
  <1>3. CASE Prepare(r)
    <2>1. CASE WriteFailed(r)
      BY <1>3, <2>1, FailStep DEF Prepare
    <2>2. CASE load' = [load EXCEPT ![r].at = "publish"]
      <3> DEFINE l == [load[r] EXCEPT !.at = "publish"]
      <3>1. load' = [load EXCEPT ![r] = l]
        BY <2>2
      <3>2. LoadOK(l) /\ l.at = "publish"
        BY <1>1, <1>3 DEF LoadOK, LoadFields, Reported, Prepare
      <3> HIDE DEF l
      <3> QED BY <1>3, <3>1, <3>2, LoadMoves DEF Prepare
    <2> QED BY <1>3, <2>1, <2>2 DEF Prepare
  <1> QED BY <1>2, <1>3

\* The data come under a name that the metadata do not yet give.
LEMMA PublishStep ==
  ASSUME NEW r \in Runs, CacheOK, UNCHANGED run, run[r].at = "benchmark",
         PublishData(r)
  PROVE  CacheOK'
  <1>1. CASE WriteFailed(r) /\ UNCHANGED data
    BY <1>1, FailStep DEF PublishData
  <1>2. CASE ~ (WriteFailed(r) /\ UNCHANGED data)
    <2>1. /\ load' = [load EXCEPT ![r].at = "commit"]
          /\ data' = [name \in DOMAIN data \cup {r} |->
                        IF name = r THEN load[r].frame ELSE data[name]]
          /\ metadata' = metadata /\ load[r].at = "publish"
      BY <1>2 DEF PublishData
    <2>2. DOMAIN load = Runs /\ LoadOK(load[r])
      BY DEF CacheOK, LoadsOK
    <2>3. /\ DOMAIN load' = Runs
          /\ \A q \in Runs : q # r => load'[q] = load[q]
          /\ LoadOK(load'[r]) /\ load'[r].at = "commit" /\ load'[r].frame = load[r].frame
      BY <2>1, <2>2 DEF LoadOK, LoadFields, Reported
    <2>4. /\ DOMAIN data' = DOMAIN data \cup {r}
          /\ data'[r] = load[r].frame
          /\ \A name \in DOMAIN data : name # r => data'[name] = data[name]
      BY <2>1
    <2>5. metadata = NoMetadata \/ metadata.file # r
      BY <2>1 DEF CacheOK, LoadsOK, Uncommitted
    <2>6. MetadataNamesItsGeneration'
      BY <2>1, <2>4, <2>5 DEF CacheOK, MetadataNamesItsGeneration
    <2>7. LoadsOK'
      <3> SUFFICES ASSUME NEW q \in Runs
                   PROVE  /\ LoadOK(load'[q])
                          /\ Uncommitted(run'[q], load'[q]) =>
                               metadata' = NoMetadata \/ metadata'.file # q
                          /\ load'[q].at = "commit" =>
                               q \in DOMAIN data' /\ data'[q] = load'[q].frame
        BY <2>3 DEF LoadsOK
      <3>1. CASE q = r
        BY <2>1, <2>3, <2>4, <2>5, <3>1
      <3>2. CASE q # r
        BY <2>1, <2>3, <2>4, <3>2 DEF CacheOK, LoadsOK
      <3> QED BY <3>1, <3>2
    <2> QED BY <2>6, <2>7 DEF CacheOK
  <1> QED BY <1>1, <1>2

LEMMA CommitStep ==
  ASSUME NEW r \in Runs, CacheOK, UNCHANGED run, run[r].at = "benchmark",
         CommitMetadata(r)
  PROVE  CacheOK'
  <1>1. /\ load[r].at = "commit" /\ data' = data /\ metadata' = metadata_for(r)
        /\ load' = [load EXCEPT ![r].at = "loaded", ![r].status = "written"]
    BY DEF CommitMetadata
  <1>2. DOMAIN load = Runs /\ LoadOK(load[r])
    BY DEF CacheOK, LoadsOK
  <1>3. /\ metadata'.file = r
        /\ cache_reason_code(metadata', load[r].frame) = "cache_hit"
    BY <1>1, <1>2, WrittenIsHit DEF LoadOK
  <1>4. r \in DOMAIN data /\ data[r] = load[r].frame
    BY <1>1 DEF CacheOK, LoadsOK
  <1>5. MetadataNamesItsGeneration'
    BY <1>1, <1>3, <1>4 DEF MetadataNamesItsGeneration
  <1>6. /\ DOMAIN load' = Runs
        /\ \A q \in Runs : q # r => load'[q] = load[q]
        /\ LoadOK(load'[r]) /\ load'[r].at = "loaded"
    BY <1>1, <1>2 DEF LoadOK, LoadFields, Reported
  <1>7. LoadsOK'
    <2> SUFFICES ASSUME NEW q \in Runs
                 PROVE  /\ LoadOK(load'[q])
                        /\ Uncommitted(run'[q], load'[q]) =>
                             metadata' = NoMetadata \/ metadata'.file # q
                        /\ load'[q].at = "commit" =>
                             q \in DOMAIN data' /\ data'[q] = load'[q].frame
      BY <1>6 DEF LoadsOK
    <2>1. CASE q = r
      BY <1>6, <2>1 DEF Uncommitted, Preparing
    <2>2. CASE q # r
      BY <1>1, <1>3, <1>6, <2>2 DEF CacheOK, LoadsOK
    <2> QED BY <2>1, <2>2
  <1> QED BY <1>5, <1>7 DEF CacheOK

LEMMA AbandonStep ==
  ASSUME NEW r \in Runs, CacheOK, UNCHANGED run, run[r].at = "benchmark",
         AbandonData(r)
  PROVE  CacheOK'
  <1>1. /\ load[r].at = "commit" /\ metadata' = metadata
        /\ load' = [load EXCEPT ![r].at = "loaded", ![r].status = "write_failed"]
        /\ data' = IF metadata # NoMetadata /\ metadata.file = r THEN data
                   ELSE [name \in DOMAIN data \ {r} |-> data[name]]
    BY DEF AbandonData, WriteFailed
  <1>2. DOMAIN load = Runs /\ LoadOK(load[r])
    BY DEF CacheOK, LoadsOK
  <1>3. \A name \in DOMAIN data : name # r => name \in DOMAIN data' /\ data'[name] = data[name]
    BY <1>1
  <1>4. metadata # NoMetadata /\ metadata.file = r => data' = data
    BY <1>1
  <1>5. MetadataNamesItsGeneration'
    BY <1>1, <1>3, <1>4 DEF CacheOK, MetadataNamesItsGeneration
  <1>6. /\ DOMAIN load' = Runs
        /\ \A q \in Runs : q # r => load'[q] = load[q]
        /\ LoadOK(load'[r]) /\ load'[r].at = "loaded"
    BY <1>1, <1>2 DEF LoadOK, LoadFields, Reported
  <1>7. LoadsOK'
    <2> SUFFICES ASSUME NEW q \in Runs
                 PROVE  /\ LoadOK(load'[q])
                        /\ Uncommitted(run'[q], load'[q]) =>
                             metadata' = NoMetadata \/ metadata'.file # q
                        /\ load'[q].at = "commit" =>
                             q \in DOMAIN data' /\ data'[q] = load'[q].frame
      BY <1>6 DEF LoadsOK
    <2>1. CASE q = r
      BY <1>1, <1>6, <2>1 DEF CacheOK, LoadsOK, Uncommitted, Preparing
    <2>2. CASE q # r
      BY <1>1, <1>3, <1>6, <2>2 DEF CacheOK, LoadsOK
    <2> QED BY <2>1, <2>2
  <1> QED BY <1>5, <1>7 DEF CacheOK

LEMMA LoadSteps ==
  ASSUME NEW r \in Runs, CacheOK, LoadBenchmark(r)
  PROVE  CacheOK'
  <1>1. UNCHANGED run /\ run[r].at = "benchmark" /\ LoadStep(r)
    BY DEF LoadBenchmark, runVars
  <1> QED BY <1>1, ReadStep, FetchStep, WriteStep, PublishStep, CommitStep, AbandonStep
       DEF LoadStep

-----------------------------------------------------------------------------
(* No look-ahead: what a schedule is made of *)

LEMMA WrittenOut == ASSUME NEW f PROVE Written(f) = f
  BY DEF Written

\* The inputs of a run, as far as they matter here.
GoodInputs(inputs) ==
  /\ \A s \in DOMAIN inputs.prices : DOMAIN inputs.prices[s] \subseteq Nat
  /\ DOMAIN inputs.reports = DOMAIN inputs.prices
  /\ \A s \in DOMAIN inputs.prices : DatedRows(inputs.reports[s])
  /\ DatedRows(inputs.macro)

LEMMA HistoriesDated ==
  ASSUME NEW s \in Range(CandidateSymbols), NEW rows \in Histories(s)
  PROVE  DatedRows(rows)
  <1>1. CASE rows = <<>>
    BY <1>1 DEF DatedRows
  <1>2. CASE rows # <<>>
    <2>1. PICK file \in ReportFiles(s) : rows = validate_fundamental_history(file)
      BY <1>2 DEF Histories
    <2>2. DatedRows(file)
      BY DatesAssumption
    <2> DEFINE dated == [i \in DOMAIN file |-> Dated(file[i])]
    <2>3. \A i \in DOMAIN file : /\ "available" \in DOMAIN Dated(file[i])
                                 /\ Dated(file[i]).available \in Nat \cup {NoDate}
      BY <2>2 DEF DatedRows, Dated
    <2>4. rows = [i \in {j \in DOMAIN dated : ~ Superseded(dated, j)} |-> dated[i]]
      BY <2>1 DEF validate_fundamental_history, Deduplicated
    <2>5. DatedRows(dated)
      BY <2>3 DEF DatedRows
    <2> HIDE DEF dated
    <2>6. DOMAIN rows \subseteq DOMAIN dated /\ \A i \in DOMAIN rows : rows[i] = dated[i]
      BY <2>4
    <2> QED BY <2>5, <2>6 DEF DatedRows
  <1> QED BY <1>1, <1>2

LEMMA InputsAreGood ==
  ASSUME NEW inputs \in PossibleInputs
  PROVE  GoodInputs(inputs)
  <1>1. PICK syms \in (SUBSET Range(CandidateSymbols)) \ {{}} :
          inputs \in [prices : {p \in [syms -> UNION {Frames(s) : s \in syms}] :
                                  \A s \in syms : p[s] \in Frames(s)},
                      reports : {h \in [syms -> UNION {Histories(s) : s \in syms}] :
                                   \A s \in syms : h[s] \in Histories(s)},
                      macro : MacroAnswers]
    BY DEF PossibleInputs
  <1>2. /\ DOMAIN inputs.prices = syms /\ \A s \in syms : inputs.prices[s] \in Frames(s)
        /\ DOMAIN inputs.reports = syms /\ \A s \in syms : inputs.reports[s] \in Histories(s)
        /\ inputs.macro \in MacroAnswers
    BY <1>1
  <1>3. ASSUME NEW s \in syms
        PROVE  DOMAIN inputs.prices[s] \subseteq Nat
    <2>1. PICK file \in PriceFiles(s) : inputs.prices[s] = prepare_price_frame(file)
      BY <1>2 DEF Frames
    <2>2. DOMAIN file \subseteq Nat
      BY DatesAssumption
    <2> QED BY <2>1, <2>2 DEF prepare_price_frame
  <1>4. \A s \in syms : DatedRows(inputs.reports[s])
    BY <1>2, HistoriesDated
  <1>5. DatedRows(inputs.macro)
    BY <1>2, DatesAssumption
  <1> QED BY <1>2, <1>3, <1>4, <1>5 DEF GoodInputs

\* The inputs, cut off before a day, give the same signal day.
LEMMA SameSignal ==
  ASSUME NEW inputs, NEW e
  PROVE  signal_date_before(Before(inputs, e).prices, e) = signal_date_before(inputs.prices, e)
  <1> DEFINE cut == Before(inputs, e).prices
             prior == {d \in aligned_trading_dates(inputs.prices) : d < e}
             priorCut == {d \in aligned_trading_dates(cut) : d < e}
  <1>1. DOMAIN cut = DOMAIN inputs.prices
    BY DEF Before
  <1>2. \A s \in DOMAIN cut : DOMAIN cut[s] = {d \in DOMAIN inputs.prices[s] : d < e}
    BY DEF Before
  <1> HIDE DEF cut
  <1>3. prior = priorCut
    BY <1>1, <1>2 DEF aligned_trading_dates
  <1>4. /\ signal_date_before(inputs.prices, e) = IF prior = {} THEN NoDate ELSE Max(prior)
        /\ signal_date_before(cut, e) = IF priorCut = {} THEN NoDate ELSE Max(priorCut)
    BY DEF signal_date_before
  <1> HIDE DEF prior, priorCut
  <1>5. signal_date_before(cut, e) = signal_date_before(inputs.prices, e)
    BY <1>3, <1>4
  <1> QED BY <1>5 DEF cut

\* The signal day comes before the day it is for.
LEMMA SignalComesBefore ==
  ASSUME NEW prices, NEW e \in Nat,
         signal_date_before(prices, e) # NoDate
  PROVE  signal_date_before(prices, e) \in Nat /\ signal_date_before(prices, e) < e
  <1> DEFINE prior == {d \in aligned_trading_dates(prices) : d < e}
  <1>1. prior # {} /\ signal_date_before(prices, e) = Max(prior)
    BY DEF signal_date_before
  <1>2. \A d \in prior : d \in Nat /\ d < e
    BY ScheduleAssumption, BacktestAssumption DEF aligned_trading_dates
  <1> HIDE DEF prior
  <1>3. prior \in SUBSET Nat /\ \A d \in prior : d <= e
    BY <1>2
  <1>4. Max(prior) \in prior
    BY <1>1, <1>3, NatMaximum
  <1> QED BY <1>1, <1>2, <1>4

\* Of the rows that were public by the signal day, none is cut off.
LEMMA SameRows ==
  ASSUME NEW rows, DatedRows(rows), NEW e \in Nat, NEW signal \in Nat, signal < e
  PROVE  /\ Published(KnownBefore(rows, e), signal) = Published(rows, signal)
         /\ \A i \in Published(rows, signal) : KnownBefore(rows, e)[i] = rows[i]
  <1> DEFINE kept == {j \in DOMAIN rows : rows[j].available # NoDate /\ rows[j].available < e}
  <1>1. ASSUME NEW i \in DOMAIN rows, rows[i].available # NoDate, rows[i].available <= signal
        PROVE  i \in kept
    <2>1. rows[i].available \in Nat
      BY <1>1 DEF DatedRows
    <2>2. rows[i].available < e
      BY <1>1, <2>1
    <2> QED BY <1>1, <2>2
  <1>2. KnownBefore(rows, e) = [i \in kept |-> rows[i]]
    BY DEF KnownBefore
  <1>3. kept \subseteq DOMAIN rows
    OBVIOUS
  <1> HIDE DEF kept
  <1> QED BY <1>1, <1>2, <1>3 DEF Published

LEMMA SameMacro ==
  ASSUME NEW rows, DatedRows(rows), NEW e \in Nat, NEW signal \in Nat, signal < e
  PROVE  select_macro_asof(KnownBefore(rows, e), signal) = select_macro_asof(rows, signal)
  <1>1. KnownRows(KnownBefore(rows, e), signal) = KnownRows(rows, signal)
    BY SameRows DEF KnownRows
  <1> QED BY <1>1 DEF select_macro_asof

LEMMA SameReports ==
  ASSUME NEW rows, DatedRows(rows), NEW e \in Nat, NEW signal \in Nat, signal < e, NEW s
  PROVE  latest_fundamental_asof(KnownBefore(rows, e), s, signal)
           = latest_fundamental_asof(rows, s, signal)
  <1>1. KnownReports(KnownBefore(rows, e), s, signal) = KnownReports(rows, s, signal)
    BY SameRows DEF KnownReports
  <1> QED BY <1>1 DEF latest_fundamental_asof

LEMMA SamePrices ==
  ASSUME NEW frame, DOMAIN frame \subseteq Nat, NEW e \in Nat, NEW signal \in Nat, signal < e
  PROVE  PriceHistory([d \in {c \in DOMAIN frame : c < e} |-> frame[d]], signal)
           = PriceHistory(frame, signal)
  <1>1. \A d \in DOMAIN frame : d <= signal => d < e
    OBVIOUS
  <1> QED BY <1>1 DEF PriceHistory

\* What the inputs are, cut off before a day.
LEMMA CutInputs ==
  ASSUME NEW inputs, NEW e
  PROVE  /\ DOMAIN Before(inputs, e).prices = DOMAIN inputs.prices
         /\ Before(inputs, e).macro = KnownBefore(inputs.macro, e)
  BY DEF Before

LEMMA CutSymbol ==
  ASSUME NEW inputs, GoodInputs(inputs), NEW e, NEW s \in DOMAIN inputs.prices
  PROVE  /\ Before(inputs, e).prices[s]
              = [d \in {c \in DOMAIN inputs.prices[s] : c < e} |-> inputs.prices[s][d]]
         /\ Before(inputs, e).reports[s] = KnownBefore(inputs.reports[s], e)
  BY DEF Before, GoodInputs

LEMMA SameScore ==
  ASSUME NEW inputs, GoodInputs(inputs), NEW e \in Nat, NEW signal \in Nat, signal < e,
         NEW s \in DOMAIN inputs.prices
  PROVE  composite_for_date(Before(inputs, e), s, signal) = composite_for_date(inputs, s, signal)
  <1>0. DOMAIN inputs.prices[s] \subseteq Nat /\ DatedRows(inputs.reports[s])
    BY DEF GoodInputs
  <1>1. PriceHistory(Before(inputs, e).prices[s], signal) = PriceHistory(inputs.prices[s], signal)
    <2>1. Before(inputs, e).prices[s]
            = [d \in {c \in DOMAIN inputs.prices[s] : c < e} |-> inputs.prices[s][d]]
      BY CutSymbol
    <2> QED BY <1>0, <2>1, SamePrices
  <1>2. latest_fundamental_asof(Before(inputs, e).reports[s], s, signal)
          = latest_fundamental_asof(inputs.reports[s], s, signal)
    <2>1. Before(inputs, e).reports[s] = KnownBefore(inputs.reports[s], e)
      BY CutSymbol
    <2> QED BY <1>0, <2>1, SameReports
  <1> QED BY <1>1, <1>2 DEF composite_for_date

\* What was public before a day decides the portfolio of that day.
LEMMA SamePortfolio ==
  ASSUME NEW inputs, GoodInputs(inputs), NEW e \in Nat
  PROVE  portfolio_at(Before(inputs, e), e) = portfolio_at(inputs, e)
  <1> DEFINE signal == signal_date_before(inputs.prices, e)
  <1>1. signal_date_before(Before(inputs, e).prices, e) = signal
    BY SameSignal
  <1>2. CASE signal = NoDate
    BY <1>1, <1>2 DEF portfolio_at, PortfolioSignalled
  <1>3. CASE signal # NoDate
    <2>1. signal \in Nat /\ signal < e
      BY <1>3, SignalComesBefore
    <2> HIDE DEF signal
    <2>2. [s \in DOMAIN Before(inputs, e).prices |->
             composite_for_date(Before(inputs, e), s, signal).score]
            = [s \in DOMAIN inputs.prices |-> composite_for_date(inputs, s, signal).score]
      BY <2>1, CutInputs, SameScore
    <2>3. candidates_for_date(Before(inputs, e), signal) = candidates_for_date(inputs, signal)
      BY <2>2 DEF candidates_for_date
    <2>4. macro_asof(Before(inputs, e).macro, signal) = macro_asof(inputs.macro, signal)
      BY <2>1, CutInputs, SameMacro DEF macro_asof, GoodInputs
    <2>5. portfolio_for_date(Before(inputs, e), signal) = portfolio_for_date(inputs, signal)
      BY <2>3, <2>4 DEF portfolio_for_date
    <2> QED BY <1>1, <1>3, <2>5 DEF portfolio_at, PortfolioSignalled, signal
  <1> QED BY <1>2, <1>3

\* And it decides what the snapshot of that day says.
LEMMA SameSnapshot ==
  ASSUME NEW inputs, GoodInputs(inputs), NEW e \in Nat, NEW s \in DOMAIN inputs.prices
  PROVE  factor_snapshot(Before(inputs, e), s, e) = factor_snapshot(inputs, s, e)
  <1> DEFINE signal == signal_date_before(inputs.prices, e)
  <1>1. signal_date_before(Before(inputs, e).prices, e) = signal
    BY SameSignal
  <1>2. CASE signal = NoDate
    BY <1>1, <1>2 DEF factor_snapshot, SnapshotSignalled
  <1>3. CASE signal # NoDate
    <2>1. signal \in Nat /\ signal < e
      BY <1>3, SignalComesBefore
    <2> HIDE DEF signal
    <2>2. composite_for_date(Before(inputs, e), s, signal) = composite_for_date(inputs, s, signal)
      BY <2>1, SameScore
    <2>3. latest_fundamental_asof(Before(inputs, e).reports[s], s, signal)
            = latest_fundamental_asof(inputs.reports[s], s, signal)
      <3>1. DatedRows(inputs.reports[s])
        BY DEF GoodInputs
      <3>2. Before(inputs, e).reports[s] = KnownBefore(inputs.reports[s], e)
        BY CutSymbol
      <3> QED BY <2>1, <3>1, <3>2, SameReports
    <2>4. select_macro_asof(Before(inputs, e).macro, signal)
            = select_macro_asof(inputs.macro, signal)
      <3>1. DatedRows(inputs.macro)
        BY DEF GoodInputs
      <3>2. Before(inputs, e).macro = KnownBefore(inputs.macro, e)
        BY CutInputs
      <3> QED BY <2>1, <3>1, <3>2, SameMacro
    <2>5. factor_snapshot_row(Before(inputs, e), s, signal)
            = factor_snapshot_row(inputs, s, signal)
      BY <2>2, <2>3, <2>4 DEF factor_snapshot_row
    <2> QED BY <1>1, <1>3, <2>5 DEF factor_snapshot, SnapshotSignalled, signal
  <1> QED BY <1>2, <1>3

LEMMA ExecutionDays ==
  ASSUME NEW prices
  PROVE  execution_dates(prices) \subseteq Nat
  BY ScheduleAssumption, BacktestAssumption
  DEF execution_dates, generate_rebalance_dates, aligned_trading_dates

LEMMA ScheduleMade ==
  ASSUME NEW inputs \in Schedulable
  PROVE  LET days == execution_dates(inputs.prices)
             syms == DOMAIN inputs.prices
             result == ResearchOf[inputs]
         IN  /\ result.schedule = [e \in days |->
                                     [s \in syms |-> portfolio_at(inputs, e).target_weights[s]]]
             /\ result.snapshots = [e \in days |-> [s \in syms |-> factor_snapshot(inputs, s, e)]]
             /\ DOMAIN result.topped = days
  <1> DEFINE days == execution_dates(inputs.prices)
             syms == DOMAIN inputs.prices
             result == ResearchOf[inputs]
             portfolios == [e \in days |-> portfolio_at(inputs, e)]
             snapshots == [e \in days |-> [s \in syms |-> factor_snapshot(inputs, s, e)]]
             inner(e) == [s \in syms |-> portfolios[e].target_weights[s]]
             outer == [e \in days |-> Written(inner(e))]
  <1>1. PortfolioTable(inputs) = portfolios /\ SnapshotTable(inputs) = snapshots
    BY WrittenOut DEF PortfolioTable, SnapshotTable
  <1>2. result = Result(inputs, portfolios, snapshots)
    <2> HIDE DEF portfolios, snapshots
    <2> QED BY <1>1, WrittenOut DEF ResearchOf
  <1>3. DOMAIN portfolios = days
    OBVIOUS
  <1>4. /\ result.schedule = Written(outer) /\ result.snapshots = snapshots
        /\ DOMAIN result.topped = days
    <2> HIDE DEF portfolios, snapshots, result
    <2>1. result.schedule = Written(outer) /\ result.snapshots = snapshots
      BY <1>2, <1>3 DEF Result
    <2>2. result.topped = Written([e \in days |-> portfolios[e].topped])
      BY <1>2, <1>3 DEF Result
    <2> QED BY <2>1, <2>2, WrittenOut
  <1>5. Written(outer) = outer
    BY WrittenOut
  <1>6. \A e \in days : Written(inner(e)) = [s \in syms |-> portfolio_at(inputs, e).target_weights[s]]
    <2>1. \A e \in days : inner(e) = [s \in syms |-> portfolio_at(inputs, e).target_weights[s]]
      OBVIOUS
    <2> QED BY <2>1, WrittenOut
  <1>7. outer = [e \in days |-> [s \in syms |-> portfolio_at(inputs, e).target_weights[s]]]
    BY <1>6
  <1> QED BY <1>4, <1>5, <1>7

\* The result of a run is made of what was public.
LEMMA ResultAsKnown ==
  ASSUME NEW inputs \in Schedulable
  PROVE  /\ AsKnown(ResearchOf[inputs].schedule, KnownPortfolios[inputs])
         /\ ResearchOf[inputs].snapshots = KnownSnapshots[inputs]
  <1> DEFINE days == execution_dates(inputs.prices)
             syms == DOMAIN inputs.prices
             portfolios == [e \in days |-> portfolio_at(inputs, e)]
             snapshots == [e \in days |-> [s \in syms |-> factor_snapshot(inputs, s, e)]]
             schedule == [e \in days |-> [s \in syms |-> portfolios[e].target_weights[s]]]
  <1>1. GoodInputs(inputs) /\ days \subseteq Nat
    BY InputsAreGood, ExecutionDays DEF Schedulable
  <1>2. ResearchOf[inputs].schedule = schedule /\ ResearchOf[inputs].snapshots = snapshots
    BY ScheduleMade
  <1>3. KnownPortfolios[inputs] = [e \in days |-> portfolio_at(Before(inputs, e), e)]
    <2>1. KnownPortfolios = [i \in Schedulable |->
                               Written([e \in execution_dates(i.prices) |->
                                          portfolio_at(Before(i, e), e)])]
      BY WrittenOut DEF KnownPortfolios
    <2>2. KnownPortfolios[inputs] = Written([e \in days |-> portfolio_at(Before(inputs, e), e)])
      BY <2>1
    <2> QED BY <2>2, WrittenOut
  <1>4. KnownSnapshots[inputs]
          = [e \in days |-> [s \in syms |-> factor_snapshot(Before(inputs, e), s, e)]]
    <2>1. KnownSnapshots = [i \in Schedulable |->
                              Written([e \in execution_dates(i.prices) |->
                                         Written([s \in DOMAIN i.prices |->
                                                    factor_snapshot(Before(i, e), s, e)])])]
      BY WrittenOut DEF KnownSnapshots
    <2>2. KnownSnapshots[inputs]
            = Written([e \in days |->
                         Written([s \in syms |-> factor_snapshot(Before(inputs, e), s, e)])])
      BY <2>1
    <2>3. \A e \in days :
            Written([s \in syms |-> factor_snapshot(Before(inputs, e), s, e)])
              = [s \in syms |-> factor_snapshot(Before(inputs, e), s, e)]
      BY WrittenOut
    <2> QED BY <2>2, <2>3, WrittenOut
  <1>5. KnownPortfolios[inputs] = portfolios
    BY <1>1, <1>3, SamePortfolio
  <1>6. KnownSnapshots[inputs] = snapshots
    BY <1>1, <1>4, SameSnapshot
  <1>7. AsKnown(schedule, portfolios)
    BY DEF AsKnown
  <1> QED BY <1>2, <1>5, <1>6, <1>7

-----------------------------------------------------------------------------
(* Recursive functions.  Each of those below looks at one earlier argument.*)

\* prev goes down from every argument that is not a base.
Descent(X, Base, prev, rank) ==
  /\ rank \in [X -> Nat] /\ Base \subseteq X
  /\ \A x \in X \ Base : prev[x] \in X /\ rank[prev[x]] < rank[x]

\* What holds at the bases and is handed on holds everywhere.
LEMMA RecursionKeeps ==
  ASSUME NEW X, NEW Base, NEW prev, NEW rank, Descent(X, Base, prev, rank),
         NEW Good, Base \subseteq Good,
         \A x \in X \ Base : prev[x] \in Good => x \in Good
  PROVE  X \subseteq Good
  <1> SUFFICES ASSUME NEW y \in X, y \notin Good PROVE FALSE
    OBVIOUS
  <1> DEFINE bad == {rank[x] : x \in X \ Good}
  <1>1. bad \in SUBSET Nat /\ bad # {}
    BY DEF Descent
  <1>2. PICK m \in bad : \A n \in bad : m <= n
    BY <1>1, NatMinimum
  <1>3. PICK x \in X \ Good : rank[x] = m
    BY <1>2
  <1>4. x \in X \ Base /\ prev[x] \in X /\ rank[prev[x]] < rank[x]
    BY <1>3 DEF Descent
  <1>5. prev[x] \notin Good
    BY <1>3, <1>4
  <1>6. rank[prev[x]] \in bad
    BY <1>4, <1>5
  <1> HIDE DEF bad
  <1>7. m <= rank[prev[x]] /\ m \in Nat /\ rank[prev[x]] \in Nat
    BY <1>1, <1>2, <1>6
  <1> QED BY <1>3, <1>4, <1>7

\* A function with the values b at the bases, and elsewhere a value that H
\* makes of the one before.
Recursive(g, X, Base, prev, b, H) ==
  /\ g = [x \in X |-> g[x]]
  /\ \A x \in Base : g[x] = b[x]
  /\ \A x \in X \ Base : g[x] = H[x][g[prev[x]]]

Recursion(X, Base, prev, b, H) == CHOOSE g : Recursive(g, X, Base, prev, b, H)

LEMMA RecursionExists ==
  ASSUME NEW X, NEW Base, NEW prev, NEW rank, Descent(X, Base, prev, rank), NEW b, NEW H
  PROVE  Recursive(Recursion(X, Base, prev, b, H), X, Base, prev, b, H)
  <1> DEFINE Low(n) == {x \in X : rank[x] < n}
             Table(g, n) == /\ DOMAIN g = Low(n)
                            /\ \A x \in Low(n) :
                                 g[x] = IF x \in Base THEN b[x] ELSE H[x][g[prev[x]]]
             none == {n \in Nat : \A g : ~ Table(g, n)}
             table(n) == CHOOSE g : Table(g, n)
  <1>1. \A n \in Nat : \A x \in Low(n) \ Base : prev[x] \in X /\ rank[prev[x]] \in Nat
                                               /\ rank[x] \in Nat /\ rank[prev[x]] < rank[x]
    BY DEF Descent
  <1>2. none = {}
    <2> SUFFICES ASSUME none # {} PROVE FALSE
      OBVIOUS
    <2>1. PICK n \in none : \A m \in none : n <= m
      <3>1. none \in SUBSET Nat
        OBVIOUS
      <3> HIDE DEF none
      <3> QED BY <3>1, NatMinimum
    <2>2. CASE n = 0
      <3>1. Low(n) = {}
        BY <2>2 DEF Descent
      <3> DEFINE g == [x \in Low(n) |-> 0]
      <3>2. Table(g, n)
        BY <3>1
      <3> QED BY <2>1, <3>2
    <2>3. CASE n # 0
      <3>1. n - 1 \in Nat /\ n - 1 \notin none
        <4> HIDE DEF none
        <4>1. n \in Nat
          BY <2>1 DEF none
        <4> QED BY <2>1, <2>3, <4>1
      <3>2. PICK g : Table(g, n - 1)
        BY <3>1
      <3> DEFINE h == [x \in Low(n) |-> IF x \in Base THEN b[x] ELSE H[x][g[prev[x]]]]
      <3>3. \A x \in Low(n - 1) : x \in Low(n) /\ h[x] = g[x]
        <4>1. \A x \in Low(n - 1) : x \in Low(n)
          BY <2>1 DEF Descent
        <4>2. \A x \in Low(n - 1) : g[x] = IF x \in Base THEN b[x] ELSE H[x][g[prev[x]]]
          <5> HIDE DEF Low
          <5> QED BY <3>2
        <4> HIDE DEF Low
        <4> QED BY <4>1, <4>2
      <3>4. \A x \in Low(n) \ Base : prev[x] \in Low(n - 1)
        BY <1>1, <2>1
      <3>5. \A x \in Low(n) \ Base : h[prev[x]] = g[prev[x]]
        <4> HIDE DEF Low, h
        <4> QED BY <3>3, <3>4
      <3>6. \A x \in Low(n) : h[x] = IF x \in Base THEN b[x] ELSE H[x][g[prev[x]]]
        <4> HIDE DEF Low
        <4> QED OBVIOUS
      <3>7. DOMAIN h = Low(n)
        <4> HIDE DEF Low
        <4> QED OBVIOUS
      <3>8. Table(h, n)
        <4> HIDE DEF Low, h
        <4> QED BY <3>5, <3>6, <3>7
      <3> HIDE DEF h, Low
      <3> QED BY <2>1, <3>8
    <2> QED BY <2>2, <2>3
  <1>3. \A n \in Nat : Table(table(n), n)
    <2> SUFFICES ASSUME NEW n \in Nat PROVE Table(table(n), n)
      OBVIOUS
    <2>1. \E g : Table(g, n)
      <3> HIDE DEF Table
      <3>1. n \notin none
        BY <1>2
      <3> QED BY <3>1
    <2> HIDE DEF Low
    <2> QED BY <2>1
  <1>4. \A n \in Nat : \A x \in Low(n) :
          table(n)[x] = IF x \in Base THEN b[x] ELSE H[x][table(n)[prev[x]]]
    <2> HIDE DEF Low, table
    <2> QED BY <1>3
  <1> HIDE DEF table
  <1> DEFINE Good == {x \in X : \A m, n \in Nat :
                        x \in Low(m) /\ x \in Low(n) => table(m)[x] = table(n)[x]}
  <1>5. X \subseteq Good
    <2>1. Base \subseteq Good
      BY <1>4 DEF Descent
    <2>2. ASSUME NEW x \in X \ Base, prev[x] \in Good
          PROVE  x \in Good
      <3> SUFFICES ASSUME NEW m \in Nat, NEW n \in Nat, x \in Low(m), x \in Low(n)
                   PROVE  table(m)[x] = table(n)[x]
        OBVIOUS
      <3>1. prev[x] \in Low(m) /\ prev[x] \in Low(n)
        BY <1>1
      <3>2. table(m)[prev[x]] = table(n)[prev[x]]
        BY <2>2, <3>1
      <3> HIDE DEF Low, Good
      <3> QED BY <1>4, <3>2
    <2> HIDE DEF Good
    <2> QED BY <2>1, <2>2, RecursionKeeps
  <1> DEFINE V(x) == table(rank[x] + 1)[x]
             g == [x \in X |-> V(x)]
  <1>6. \A x \in X : g[x] = IF x \in Base THEN b[x] ELSE H[x][g[prev[x]]]
    <2> SUFFICES ASSUME NEW x \in X
                 PROVE  g[x] = IF x \in Base THEN b[x] ELSE H[x][g[prev[x]]]
      OBVIOUS
    <2>1. rank[x] + 1 \in Nat /\ x \in Low(rank[x] + 1)
      BY DEF Descent
    <2>2. g[x] = table(rank[x] + 1)[x]
      <3> HIDE DEF Low
      <3> QED OBVIOUS
    <2>3. CASE x \in Base
      <3> HIDE DEF Low, g
      <3> QED BY <1>4, <2>1, <2>2, <2>3
    <2>4. CASE x \notin Base
      <3>1. /\ prev[x] \in X /\ rank[prev[x]] + 1 \in Nat
            /\ prev[x] \in Low(rank[x] + 1) /\ prev[x] \in Low(rank[prev[x]] + 1)
        BY <1>1, <2>1, <2>4 DEF Descent
      <3>2. g[prev[x]] = table(rank[prev[x]] + 1)[prev[x]]
        <4> HIDE DEF Low
        <4> QED BY <3>1
      <3>3. g[prev[x]] = table(rank[x] + 1)[prev[x]]
        <4>1. prev[x] \in Good
          <5> HIDE DEF Good
          <5> QED BY <1>5, <3>1
        <4> HIDE DEF Low, g
        <4> QED BY <2>1, <3>1, <3>2, <4>1
      <3> HIDE DEF Low, g, Good
      <3> QED BY <1>4, <2>1, <2>2, <2>4, <3>3
    <2> QED BY <2>3, <2>4
  <1>7. g = [x \in X |-> g[x]]
    <2> HIDE DEF Low
    <2> QED OBVIOUS
  <1>8. Base \subseteq X
    BY DEF Descent
  <1> HIDE DEF g
  <1>9. Recursive(g, X, Base, prev, b, H)
    BY <1>6, <1>7, <1>8 DEF Recursive
  <1> QED BY <1>9 DEF Recursion

-----------------------------------------------------------------------------
(* Sums *)

\* The element that a sum over T takes first.
FirstOf(T) == CHOOSE x \in T : TRUE

LEMMA TakenApart ==
  ASSUME NEW S, IsFiniteSet(S)
  PROVE  Descent(SUBSET S, {{}}, [T \in SUBSET S |-> T \ {FirstOf(T)}],
                 [T \in SUBSET S |-> Cardinality(T)])
  <1>1. \A T \in SUBSET S : Cardinality(T) \in Nat
    BY FS_Subset, FS_CardinalityType
  <1>2. ASSUME NEW T \in SUBSET S, T # {}
        PROVE  /\ T \ {FirstOf(T)} \in SUBSET S
               /\ Cardinality(T \ {FirstOf(T)}) < Cardinality(T)
    <2>1. FirstOf(T) \in T
      BY <1>2 DEF FirstOf
    <2>2. IsFiniteSet(T)
      BY FS_Subset
    <2>3. Cardinality(T \ {FirstOf(T)}) = Cardinality(T) - 1
      BY <2>1, <2>2, FS_RemoveElement
    <2> QED BY <1>1, <2>1, <2>3
  <1> QED BY <1>1, <1>2 DEF Descent

\* What holds of the empty set, and of a set if it holds without the element
\* taken first, holds of every finite set.
LEMMA SetInduction ==
  ASSUME NEW S, IsFiniteSet(S), NEW Good, {} \in Good,
         \A T \in SUBSET S : T # {} /\ T \ {FirstOf(T)} \in Good => T \in Good
  PROVE  SUBSET S \subseteq Good
  <1> DEFINE prev == [T \in SUBSET S |-> T \ {FirstOf(T)}]
  <1>1. \A T \in (SUBSET S) \ {{}} : prev[T] \in Good => T \in Good
    OBVIOUS
  <1>2. Descent(SUBSET S, {{}}, prev, [T \in SUBSET S |-> Cardinality(T)])
    BY TakenApart
  <1>3. {{}} \subseteq Good
    OBVIOUS
  <1> DEFINE X == SUBSET S
             Base == {{}}
             rank == [T \in SUBSET S |-> Cardinality(T)]
  <1>4. /\ Descent(X, Base, prev, rank) /\ Base \subseteq Good
        /\ \A T \in X \ Base : prev[T] \in Good => T \in Good
    BY <1>1, <1>2, <1>3
  <1>5. X = SUBSET S
    OBVIOUS
  <1> HIDE DEF prev, X, Base, rank
  <1>6. X \subseteq Good
    BY <1>4, RecursionKeeps
  <1> QED BY <1>5, <1>6

PartialSums(f) ==
  CHOOSE iter : iter = [T \in SUBSET DOMAIN f |->
                          IF T = {} THEN 0 ELSE f[FirstOf(T)] + iter[T \ {FirstOf(T)}]]

LEMMA SumIsPartial ==
  ASSUME NEW f
  PROVE  SumOf(f) = PartialSums(f)[DOMAIN f]
  BY DEF SumOf, PartialSums, FirstOf

IsSummed(f) == IsFiniteSet(DOMAIN f) /\ \A s \in DOMAIN f : f[s] \in Int

LEMMA PartialFacts ==
  ASSUME NEW f, IsSummed(f)
  PROVE  /\ PartialSums(f)[{}] = 0
         /\ \A T \in SUBSET DOMAIN f :
              T # {} => /\ FirstOf(T) \in T
                        /\ PartialSums(f)[T] = f[FirstOf(T)] + PartialSums(f)[T \ {FirstOf(T)}]
         /\ \A T \in SUBSET DOMAIN f : PartialSums(f)[T] \in Int
  <1> DEFINE S == DOMAIN f
             prev == [T \in SUBSET S |-> T \ {FirstOf(T)}]
             H == [T \in SUBSET S |-> [v \in Int |-> f[FirstOf(T)] + v]]
             b == [T \in SUBSET S |-> 0]
             Sums(g) == g = [T \in SUBSET S |->
                               IF T = {} THEN 0 ELSE f[FirstOf(T)] + g[T \ {FirstOf(T)}]]
  <1>1. \A T \in SUBSET S : T # {} => FirstOf(T) \in T
    BY DEF FirstOf
  <1>2. Descent(SUBSET S, {{}}, prev, [T \in SUBSET S |-> Cardinality(T)])
    BY TakenApart DEF IsSummed
  <1> DEFINE X == SUBSET S
             Base == {{}}
             rank == [T \in SUBSET S |-> Cardinality(T)]
             g == Recursion(X, Base, prev, b, H)
  <1>3. Recursive(g, X, Base, prev, b, H)
    <2>1. Descent(X, Base, prev, rank)
      BY <1>2
    <2> HIDE DEF prev, H, b, X, Base, rank
    <2> QED BY <2>1, RecursionExists
  <1>4. /\ g[{}] = 0
        /\ \A T \in SUBSET S : T # {} => g[T] = H[T][g[T \ {FirstOf(T)}]]
    <2> HIDE DEF H, g
    <2> QED BY <1>3 DEF Recursive
  <1> HIDE DEF g
  <1>5. \A T \in SUBSET S : g[T] \in Int
    <2> DEFINE Good == {T \in SUBSET S : g[T] \in Int}
    <2>1. {} \in Good
      BY <1>4
    <2>2. ASSUME NEW T \in SUBSET S, T # {}, T \ {FirstOf(T)} \in Good
          PROVE  T \in Good
      <3>1. g[T \ {FirstOf(T)}] \in Int /\ f[FirstOf(T)] \in Int
        BY <1>1, <2>2 DEF IsSummed
      <3>2. g[T] = f[FirstOf(T)] + g[T \ {FirstOf(T)}]
        BY <1>4, <2>2, <3>1
      <3> QED BY <3>1, <3>2
    <2> HIDE DEF Good, S
    <2>3. SUBSET S \subseteq Good
      BY <2>1, <2>2, SetInduction DEF IsSummed, S
    <2> QED BY <2>3 DEF Good
  <1>6. Sums(g)
    <2>1. \A T \in SUBSET S : T # {} => T \ {FirstOf(T)} \in SUBSET S
      OBVIOUS
    <2>2. \A T \in SUBSET S :
            g[T] = IF T = {} THEN 0 ELSE f[FirstOf(T)] + g[T \ {FirstOf(T)}]
      BY <1>4, <1>5, <2>1
    <2>3. g = [T \in SUBSET S |-> g[T]]
      BY <1>3 DEF Recursive
    <2> HIDE DEF S
    <2> QED BY <2>2, <2>3
  <1> DEFINE p == PartialSums(f)
  <1>7. Sums(p)
    <2>1. \E h : Sums(h)
      BY <1>6
    <2> QED BY <2>1 DEF PartialSums
  <1>8. \A T \in SUBSET S :
          p[T] = IF T = {} THEN 0 ELSE f[FirstOf(T)] + p[T \ {FirstOf(T)}]
    <2> HIDE DEF p, S
    <2> QED BY <1>7
  <1>9. \A T \in SUBSET S : p[T] = g[T]
    <2> DEFINE Good == {T \in SUBSET S : p[T] = g[T]}
    <2>1. {} \in Good
      BY <1>4, <1>8
    <2>2. ASSUME NEW T \in SUBSET S, T # {}, T \ {FirstOf(T)} \in Good
          PROVE  T \in Good
      <3>1. g[T \ {FirstOf(T)}] \in Int /\ f[FirstOf(T)] \in Int
        BY <1>1, <1>5, <2>2 DEF IsSummed
      <3>2. g[T] = f[FirstOf(T)] + g[T \ {FirstOf(T)}]
        BY <1>4, <2>2, <3>1
      <3> HIDE DEF p
      <3> QED BY <1>8, <2>2, <3>2
    <2> HIDE DEF Good, S, p
    <2>3. SUBSET S \subseteq Good
      BY <2>1, <2>2, SetInduction DEF IsSummed, S
    <2> QED BY <2>3 DEF Good
  <1> HIDE DEF p
  <1> QED BY <1>1, <1>4, <1>5, <1>8, <1>9 DEF p

\* A sum is a number, and none of numbers that are not negative is.
LEMMA SumNat ==
  ASSUME NEW f, IsSummed(f)
  PROVE  /\ SumOf(f) \in Int
         /\ (\A s \in DOMAIN f : f[s] >= 0) => SumOf(f) \in Nat
  <1> DEFINE S == DOMAIN f
             p == PartialSums(f)
  <1>1. SumOf(f) = p[S] /\ p[S] \in Int
    BY SumIsPartial, PartialFacts
  <1>2. ASSUME \A s \in DOMAIN f : f[s] >= 0
        PROVE  p[S] \in Nat
    <2> DEFINE Good == {T \in SUBSET S : p[T] \in Nat}
    <2>1. {} \in Good
      BY PartialFacts
    <2>2. ASSUME NEW T \in SUBSET S, T # {}, T \ {FirstOf(T)} \in Good
          PROVE  T \in Good
      <3> HIDE DEF p
      <3>1. /\ FirstOf(T) \in S /\ p[T] = f[FirstOf(T)] + p[T \ {FirstOf(T)}]
        BY <2>2, PartialFacts DEF p
      <3>2. f[FirstOf(T)] \in Int /\ f[FirstOf(T)] >= 0 /\ p[T \ {FirstOf(T)}] \in Nat
        BY <1>2, <2>2, <3>1 DEF IsSummed
      <3> QED BY <3>1, <3>2
    <2> HIDE DEF Good, S
    <2>3. SUBSET S \subseteq Good
      BY <2>1, <2>2, SetInduction DEF IsSummed, S
    <2> QED BY <2>3 DEF Good
  <1> QED BY <1>1, <1>2

LEMMA TimesPlus ==
  ASSUME NEW a \in Int, NEW b \in Int, NEW c \in Int
  PROVE  a * (b + c) = a * b + a * c /\ a * b \in Int /\ a * c \in Int
  OBVIOUS

\* Sums compare as their parts do, also when they are scaled.
LEMMA SumScaled ==
  ASSUME NEW f, NEW g, IsSummed(f), IsSummed(g), DOMAIN f = DOMAIN g,
         NEW a \in Int, NEW b \in Int, \A s \in DOMAIN f : a * f[s] <= b * g[s]
  PROVE  a * SumOf(f) <= b * SumOf(g)
  <1> DEFINE S == DOMAIN f
             p == PartialSums(f)
             q == PartialSums(g)
             Good == {T \in SUBSET S : a * p[T] <= b * q[T]}
  <1>1. {} \in Good
    BY PartialFacts
  <1>2. ASSUME NEW T \in SUBSET S, T # {}, T \ {FirstOf(T)} \in Good
        PROVE  T \in Good
    <2> DEFINE x == f[FirstOf(T)]
               y == g[FirstOf(T)]
               u == p[T \ {FirstOf(T)}]
               v == q[T \ {FirstOf(T)}]
    <2>1. FirstOf(T) \in S /\ p[T] = x + u /\ q[T] = y + v
      BY <1>2, PartialFacts
    <2>2. x \in Int /\ y \in Int /\ a * x <= b * y
      BY <2>1 DEF IsSummed
    <2>3. u \in Int /\ v \in Int
      BY <1>2, PartialFacts
    <2>4. a * u <= b * v
      BY <1>2
    <2> HIDE DEF x, y, u, v, p, q
    <2>5. a * (x + u) <= b * (y + v)
      <3>1. a * (x + u) = a * x + a * u /\ a * x \in Int /\ a * u \in Int
        BY <2>2, <2>3, TimesPlus
      <3>2. b * (y + v) = b * y + b * v /\ b * y \in Int /\ b * v \in Int
        BY <2>2, <2>3, TimesPlus
      <3> QED BY <2>2, <2>4, <3>1, <3>2
    <2> QED BY <2>1, <2>5
  <1> HIDE DEF Good, S
  <1>3. SUBSET S \subseteq Good
    BY <1>1, <1>2, SetInduction DEF IsSummed, S
  <1> QED BY <1>3, SumIsPartial DEF Good, S

\* Raising one part raises the sum by no more.
LEMMA SumRaised ==
  ASSUME NEW f, NEW g, IsSummed(f), IsSummed(g), DOMAIN f = DOMAIN g,
         NEW x, NEW a \in Nat, \A s \in DOMAIN f : g[s] = IF s = x THEN f[s] + a ELSE f[s]
  PROVE  SumOf(g) <= SumOf(f) + a
  <1> DEFINE S == DOMAIN f
             p == PartialSums(f)
             q == PartialSums(g)
             Good == {T \in SUBSET S : q[T] = IF x \in T THEN p[T] + a ELSE p[T]}
  <1>1. {} \in Good
    BY PartialFacts
  <1>2. ASSUME NEW T \in SUBSET S, T # {}, T \ {FirstOf(T)} \in Good
        PROVE  T \in Good
    <2> DEFINE c == FirstOf(T)
               u == p[T \ {c}]
               v == q[T \ {c}]
    <2>1. c \in T /\ c \in S /\ p[T] = f[c] + u /\ q[T] = g[c] + v
      BY <1>2, PartialFacts
    <2>2. f[c] \in Int /\ g[c] = IF c = x THEN f[c] + a ELSE f[c]
      BY <2>1 DEF IsSummed
    <2>3. u \in Int /\ v \in Int
      BY <1>2, PartialFacts
    <2>4. v = IF x \in T \ {c} THEN u + a ELSE u
      BY <1>2
    <2> HIDE DEF c, u, v, p, q
    <2> QED BY <2>1, <2>2, <2>3, <2>4
  <1> HIDE DEF Good, S
  <1>3. SUBSET S \subseteq Good
    BY <1>1, <1>2, SetInduction DEF IsSummed, S
  <1>4. p[S] \in Int /\ q[S] = IF x \in S THEN p[S] + a ELSE p[S]
    <2>1. S \in Good
      BY <1>3
    <2> QED BY <2>1, PartialFacts DEF Good, S
  <1> HIDE DEF p, q
  <1>5. q[S] <= p[S] + a
    BY <1>4
  <1> QED BY <1>5, SumIsPartial DEF p, q, S

\* Sums balance as their parts do.
LEMMA SumsBalance ==
  ASSUME NEW in, NEW out, NEW after, NEW cost, NEW held, NEW S, IsFiniteSet(S),
         \A f \in {in, out, after, cost, held} : DOMAIN f = S /\ \A s \in S : f[s] \in Int,
         \A s \in S : in[s] + after[s] + cost[s] <= held[s] + out[s]
  PROVE  SumOf(in) + SumOf(after) + SumOf(cost) <= SumOf(held) + SumOf(out)
  <1> DEFINE P(f, T) == PartialSums(f)[T]
             Balanced(T) == P(in, T) + P(after, T) + P(cost, T) <= P(held, T) + P(out, T)
             Good == {T \in SUBSET S : Balanced(T)}
             all == {in, out, after, cost, held}
  <1>0. \A f \in all : DOMAIN f = S /\ IsSummed(f)
    BY DEF IsSummed
  <1>1. {} \in Good
    BY <1>0, PartialFacts
  <1>2. ASSUME NEW T \in SUBSET S, T # {}, T \ {FirstOf(T)} \in Good
        PROVE  T \in Good
    <2> DEFINE c == FirstOf(T)
               R == T \ {c}
    <2>1. c \in S /\ R \in SUBSET S
      BY <1>2 DEF FirstOf
    <2>2. \A f \in all : P(f, T) = f[c] + P(f, R) /\ f[c] \in Int /\ P(f, R) \in Int
      <3> HIDE DEF all
      <3> QED BY <1>0, <1>2, <2>1, PartialFacts DEF IsSummed
    <2>3. /\ P(in, T) = in[c] + P(in, R) /\ in[c] \in Int /\ P(in, R) \in Int
          /\ P(after, T) = after[c] + P(after, R) /\ after[c] \in Int /\ P(after, R) \in Int
          /\ P(cost, T) = cost[c] + P(cost, R) /\ cost[c] \in Int /\ P(cost, R) \in Int
          /\ P(held, T) = held[c] + P(held, R) /\ held[c] \in Int /\ P(held, R) \in Int
          /\ P(out, T) = out[c] + P(out, R) /\ out[c] \in Int /\ P(out, R) \in Int
      <3> HIDE DEF P
      <3> QED BY <2>2
    <2>4. in[c] + after[c] + cost[c] <= held[c] + out[c]
      BY <2>1
    <2>5. Balanced(R)
      BY <1>2
    <2> HIDE DEF P, c, R
    <2>6. Balanced(T)
      BY <2>3, <2>4, <2>5
    <2> QED BY <2>6
  <1> HIDE DEF Good
  <1>3. SUBSET S \subseteq Good
    BY <1>1, <1>2, SetInduction
  <1>4. Balanced(S)
    BY <1>3 DEF Good
  <1> QED BY <1>0, <1>4, SumIsPartial

-----------------------------------------------------------------------------
(* What trades cost *)

LEMMA Quotient ==
  ASSUME NEW x \in Int, NEW n \in Nat \ {0}
  PROVE  x \div n \in Int /\ n * (x \div n) <= x /\ x < n * (x \div n) + n
  OBVIOUS

LEMMA TimesMonotone ==
  ASSUME NEW n \in Nat, NEW a \in Int, NEW b \in Int, a <= b
  PROVE  n * a <= n * b
  OBVIOUS

LEMMA Cancel ==
  ASSUME NEW n \in Nat \ {0}, NEW a \in Int, NEW b \in Int, n * a < n * b + n
  PROVE  a <= b
  <1> SUFFICES ASSUME b + 1 <= a PROVE FALSE
    OBVIOUS
  <1>1. n * (b + 1) <= n * a
    BY TimesMonotone
  <1>2. n * (b + 1) = n * b + n
    OBVIOUS
  <1>3. n * a \in Int /\ n * b \in Int
    OBVIOUS
  <1> QED BY <1>1, <1>2, <1>3

\* A quotient of a number is at most m if the number is at most m times n.
LEMMA QuotientAtMost ==
  ASSUME NEW x \in Int, NEW n \in Nat \ {0}, NEW m \in Int, x < n * m + n
  PROVE  x \div n <= m
  <1>1. x \div n \in Int /\ n * (x \div n) <= x
    BY Quotient
  <1>2. n * m \in Int /\ n * (x \div n) \in Int
    BY <1>1
  <1>3. n * (x \div n) < n * m + n
    BY <1>1, <1>2
  <1> QED BY <1>1, <1>3, Cancel

LEMMA QuotientNat ==
  ASSUME NEW x \in Nat, NEW n \in Nat \ {0}
  PROVE  x \div n \in Nat
  OBVIOUS

LEMMA TimesNat ==
  ASSUME NEW x \in Nat, NEW y \in Nat
  PROVE  x * y \in Nat /\ x * y = y * x
  OBVIOUS

LEMMA CostNat ==
  ASSUME NEW v \in Nat, NEW rate \in Nat
  PROVE  CostOf(v, rate) \in Nat
  <1>1. v * rate + One - 1 \in Nat
    BY TimesNat, ConstraintsAssumption
  <1> QED BY <1>1, QuotientNat, ConstraintsAssumption DEF CostOf

LEMMA CostAtMost ==
  ASSUME NEW v \in Nat, NEW rate \in Nat, NEW m \in Int, v * rate <= One * m
  PROVE  CostOf(v, rate) <= m
  <1>1. v * rate \in Nat /\ One * m \in Int /\ One \in Nat \ {0}
    BY TimesNat, ConstraintsAssumption
  <1>2. v * rate + One - 1 < One * m + One
    BY <1>1
  <1>3. v * rate + One - 1 \in Int
    BY <1>1
  <1> QED BY <1>1, <1>2, <1>3, QuotientAtMost DEF CostOf

LEMMA NothingCostsNothing ==
  ASSUME NEW rate \in Nat
  PROVE  CostOf(0, rate) = 0
  <1>1. One \in Nat \ {0} /\ 0 * rate = 0 /\ One * 0 = 0
    BY ConstraintsAssumption
  <1> QED BY <1>1, CostNat, CostAtMost

\* A sale brings in no less than it costs.
LEMMA SalesPay ==
  ASSUME NEW v \in Nat
  PROVE  CostOf(v, SellCost) \in 0..v
  <1>1. SellCost \in Nat /\ SellCost <= One /\ One \in Nat
    BY BacktestAssumption, ConstraintsAssumption
  <1>2. v * SellCost <= v * One /\ v * One = One * v
    BY <1>1, TimesMonotone, TimesNat
  <1> QED BY <1>1, <1>2, CostNat, CostAtMost

\* What a purchase takes pays for what is bought and its cost.
LEMMA PurchasesPay ==
  ASSUME NEW taken \in Nat
  PROVE  LET bought == (taken * One) \div (One + BuyCost)
         IN  bought \in Nat /\ bought + CostOf(bought, BuyCost) <= taken
  <1> DEFINE bought == (taken * One) \div (One + BuyCost)
  <1>1. One \in Nat \ {0} /\ BuyCost \in Nat /\ One + BuyCost \in Nat \ {0}
    BY BacktestAssumption, ConstraintsAssumption
  <1>2. taken * One \in Nat
    BY <1>1, TimesNat
  <1>0. \A n \in Nat \ {0} : \A x \in Nat : x \div n \in Nat /\ n * (x \div n) <= x
    BY Quotient, QuotientNat
  <1> DEFINE amount == taken * One
             price == One + BuyCost
  <1>3. bought \in Nat
    <2> HIDE DEF amount, price
    <2> QED BY <1>0, <1>1, <1>2 DEF amount, price
  <1>4. (One + BuyCost) * bought <= taken * One
    BY <1>0, <1>1, <1>2
  <1> HIDE DEF bought
  <1>5. bought * BuyCost <= One * (taken - bought)
    <2>1. (One + BuyCost) * bought = One * bought + bought * BuyCost
      BY <1>1, <1>3
    <2>2. One * (taken - bought) = taken * One - One * bought
      BY <1>1, <1>3
    <2>3. One * bought \in Nat /\ bought * BuyCost \in Nat
      BY <1>1, <1>3, TimesNat
    <2> QED BY <1>2, <1>4, <2>1, <2>2, <2>3
  <1>6. CostOf(bought, BuyCost) <= taken - bought
    BY <1>1, <1>3, <1>5, CostAtMost
  <1>7. CostOf(bought, BuyCost) \in Nat
    BY <1>1, <1>3, CostNat
  <1> QED BY <1>3, <1>6, <1>7 DEF bought

\* A portfolio of the symbols S: numbers of cash and of what is held.
PortfolioOK(portfolio, S) == portfolio.cash \in Nat /\ portfolio.held \in [S -> Nat]

LEMMA ValueNat ==
  ASSUME NEW S, IsFiniteSet(S), NEW portfolio, PortfolioOK(portfolio, S)
  PROVE  Value(portfolio) \in Nat
  <1>1. IsSummed(portfolio.held) /\ \A s \in DOMAIN portfolio.held : portfolio.held[s] >= 0
    BY DEF PortfolioOK, IsSummed
  <1>2. SumOf(portfolio.held) \in Nat
    BY <1>1, SumNat
  <1> QED BY <1>2 DEF Value, PortfolioOK

LEMMA SoldOrAsked ==
  ASSUME NEW h \in Nat, NEW w \in Nat
  PROVE  /\ Greatest(0, h - w) \in 0..h /\ Greatest(0, w - h) \in Nat
         /\ Greatest(0, h - w) = 0 \/ Greatest(0, w - h) = 0
  BY DEF Greatest

\* The purchases, scaled, take no more than the cash there is.
LEMMA ScaledFits ==
  ASSUME NEW S, IsFiniteSet(S), NEW cost \in [S -> Nat], NEW cash \in Nat,
         NEW taken, taken = [s \in S |-> Scale(cost[s], cash, SumOf(cost))]
  PROVE  taken \in [S -> Nat] /\ SumOf(taken) <= cash
  <1> DEFINE total == SumOf(cost)
  <1>1. IsSummed(cost) /\ total \in Nat
    <2>1. IsSummed(cost) /\ \A s \in DOMAIN cost : cost[s] >= 0
      BY DEF IsSummed
    <2> QED BY <2>1, SumNat
  <1> HIDE DEF total
  <1>2. CASE total <= cash
    <2>1. \A s \in S : taken[s] = cost[s]
      BY <1>2 DEF Scale, total
    <2>2. taken = cost
      BY <2>1
    <2> QED BY <1>2, <2>2 DEF total
  <1>3. CASE ~ (total <= cash)
    <2>0. total \in Nat \ {0}
      BY <1>1, <1>3
    <2>1. \A s \in S : taken[s] = (cost[s] * cash) \div total
      BY <1>3 DEF Scale, total
    <2>2. \A s \in S : taken[s] \in Nat /\ total * taken[s] <= cash * cost[s]
      <3> SUFFICES ASSUME NEW s \in S
                   PROVE  taken[s] \in Nat /\ total * taken[s] <= cash * cost[s]
        OBVIOUS
      <3> DEFINE x == cost[s] * cash
      <3>1. x \in Nat /\ x = cash * cost[s]
        BY TimesNat
      <3> HIDE DEF x
      <3>2. x \div total \in Nat /\ total * (x \div total) <= x
        BY <2>0, <3>1, Quotient, QuotientNat
      <3> QED BY <2>1, <3>1, <3>2 DEF x
    <2>3. taken \in [S -> Nat] /\ IsSummed(taken)
      <3>1. taken \in [S -> Nat]
        BY <2>2
      <3> QED BY <3>1 DEF IsSummed
    <2>4. total * SumOf(taken) <= cash * SumOf(cost)
      <3>1. \A s \in DOMAIN taken : total * taken[s] <= cash * cost[s]
        BY <2>2
      <3>2. DOMAIN taken = DOMAIN cost /\ total \in Int /\ cash \in Int
        BY <1>1, <2>3
      <3> QED BY <1>1, <2>3, <3>1, <3>2, SumScaled
    <2>5. SumOf(taken) \in Int
      BY <2>3, SumNat
    <2>6. cash * SumOf(cost) = total * cash /\ total * cash \in Nat
      BY <1>1, TimesNat DEF total
    <2>7. total * SumOf(taken) \in Int
      BY <2>0, <2>5
    <2>8. total * SumOf(taken) < total * cash + total
      BY <2>0, <2>4, <2>6, <2>7
    <2> QED BY <2>0, <2>3, <2>5, <2>8, Cancel
  <1> QED BY <1>2, <1>3

\* What trading one symbol brings in, takes and costs.
LEMMA OneTradePays ==
  ASSUME NEW h \in Nat, NEW sold \in 0..h, NEW taken \in Nat, sold = 0 \/ taken = 0,
         NEW after, after = h - sold + (taken * One) \div (One + BuyCost)
  PROVE  /\ after \in Nat
         /\ CostOf(Greatest(0, h - after), SellCost) \in Nat
         /\ CostOf(Greatest(0, after - h), BuyCost) \in Nat
         /\ (sold - CostOf(sold, SellCost)) + after
              + (CostOf(Greatest(0, h - after), SellCost)
                   + CostOf(Greatest(0, after - h), BuyCost)) <= h + taken
  <1> DEFINE bought == (taken * One) \div (One + BuyCost)
  <1>1. bought \in Nat /\ bought + CostOf(bought, BuyCost) <= taken
    BY PurchasesPay
  <1>2. CostOf(sold, SellCost) \in 0..sold
    BY SalesPay
  <1>3. SellCost \in Nat /\ BuyCost \in Nat
    BY BacktestAssumption, ConstraintsAssumption
  <1>4. CostOf(bought, BuyCost) \in Nat
    BY <1>1, <1>3, CostNat
  <1>5. CostOf(0, SellCost) = 0 /\ CostOf(0, BuyCost) = 0
    BY <1>3, NothingCostsNothing
  <1>6. after = h - sold + bought
    OBVIOUS
  <1> HIDE DEF bought
  <1>7. CASE sold = 0
    <2>1. Greatest(0, h - after) = 0 /\ Greatest(0, after - h) = bought
      BY <1>1, <1>6, <1>7 DEF Greatest
    <2> QED BY <1>1, <1>4, <1>5, <1>6, <1>7, <2>1
  <1>8. CASE taken = 0
    <2>1. bought = 0
      BY <1>1, <1>4, <1>8
    <2>2. Greatest(0, h - after) = sold /\ Greatest(0, after - h) = 0
      BY <1>6, <2>1 DEF Greatest
    <2> QED BY <1>2, <1>5, <1>6, <1>8, <2>1, <2>2
  <1> QED BY <1>7, <1>8

\* What is worth something before the trades pays for them and their costs.
LEMMA RebalancePays ==
  ASSUME NEW S, IsFiniteSet(S), NEW portfolio, PortfolioOK(portfolio, S),
         NEW weights, \A s \in S : weights[s] \in Nat
  PROVE  LET traded == rebalance(portfolio, weights)
         IN  /\ PortfolioOK(traded, S)
             /\ Value(traded) + Costs([valued |-> portfolio, traded |-> traded])
                  <= Value(portfolio)
  <1> DEFINE traded == rebalance(portfolio, weights)
             held == portfolio.held
             wanted == [s \in S |-> (Value(portfolio) * weights[s]) \div One]
             sold(s) == Sold(portfolio, wanted, s)
             asked(s) == Asked(portfolio, wanted, s)
             in == [s \in S |-> sold(s) - CostOf(sold(s), SellCost)]
             cost == [s \in S |-> Total(asked(s))]
             cash == CashAfterSales(portfolio, wanted)
             taken == [s \in S |-> Scale(cost[s], cash, SumOf(cost))]
             after == [s \in S |-> held[s] - sold(s) + (taken[s] * One) \div (One + BuyCost)]
             costs == [s \in S |-> CostOf(Greatest(0, held[s] - after[s]), SellCost)
                                     + CostOf(Greatest(0, after[s] - held[s]), BuyCost)]
  <1>1. portfolio.cash \in Nat /\ held \in [S -> Nat] /\ DOMAIN held = S
    BY DEF PortfolioOK
  <1>2. wanted \in [S -> Nat] /\ DOMAIN wanted = S
    <2>1. Value(portfolio) \in Nat /\ One \in Nat \ {0}
      BY ValueNat, ConstraintsAssumption
    <2>2. \A s \in S : Value(portfolio) * weights[s] \in Nat
      BY <2>1, TimesNat
    <2>3. \A s \in S : (Value(portfolio) * weights[s]) \div One \in Nat
      BY <2>1, <2>2, QuotientNat
    <2> QED BY <2>3
  <1>3. \A s \in S : /\ sold(s) \in 0..held[s] /\ asked(s) \in Nat
                     /\ sold(s) = 0 \/ asked(s) = 0
    <2> HIDE DEF wanted, held
    <2> QED BY <1>1, <1>2, SoldOrAsked DEF Sold, Asked, held
  <1>4. traded = [cash |-> Greatest(0, cash - SumOf(taken)), held |-> after]
    <2>1. cost = [s \in DOMAIN wanted |-> Total(Asked(portfolio, wanted, s))]
      BY <1>2
    <2> DEFINE T(s) == Scale(Total(Asked(portfolio, wanted, s)), cash, BuyTotal(portfolio, wanted))
    <2>2. BuyTotal(portfolio, wanted) = SumOf(cost)
      BY <2>1 DEF BuyTotal
    <2>3. \A s \in S : T(s) = taken[s]
      BY <2>2
    <2>4. taken = [s \in DOMAIN wanted |-> T(s)]
      <3> HIDE DEF T
      <3> QED BY <1>2, <2>3
    <2>5. traded = [cash |-> Greatest(0, cash - SumOf([s \in DOMAIN wanted |-> T(s)])),
                    held |-> [s \in DOMAIN wanted |->
                                held[s] - sold(s) + (T(s) * One) \div (One + BuyCost)]]
      BY <1>1 DEF rebalance
    <2>6. [s \in DOMAIN wanted |-> held[s] - sold(s) + (T(s) * One) \div (One + BuyCost)] = after
      <3> HIDE DEF T
      <3> QED BY <1>2, <2>3
    <2> HIDE DEF T, after, taken, traded, cash
    <2> QED BY <2>4, <2>5, <2>6
  <1> HIDE DEF wanted, sold, asked, traded
  <1>5. in \in [S -> Nat] /\ cash \in Nat
    <2>1. \A s \in S : sold(s) \in Nat /\ CostOf(sold(s), SellCost) \in 0..sold(s)
      BY <1>1, <1>3, SalesPay
    <2>2. in \in [S -> Nat]
      BY <2>1
    <2>3. IsSummed(in) /\ \A s \in DOMAIN in : in[s] >= 0
      <3> HIDE DEF in
      <3> QED BY <2>2 DEF IsSummed
    <2>4. cash = portfolio.cash + SumOf(in)
      BY <1>2 DEF CashAfterSales, sold
    <2> HIDE DEF in
    <2>5. SumOf(in) \in Nat
      BY <2>3, SumNat
    <2> QED BY <1>1, <2>2, <2>4, <2>5
  <1>6. cost \in [S -> Nat] /\ \A s \in S : asked(s) = 0 => cost[s] = 0
    <2>1. BuyCost \in Nat
      BY BacktestAssumption
    <2>2. \A s \in S : CostOf(asked(s), BuyCost) \in Nat
      BY <1>3, <2>1, CostNat
    <2> QED BY <1>3, <2>1, <2>2, NothingCostsNothing DEF Total
  <1> HIDE DEF in, cash, cost
  <1>7. taken \in [S -> Nat] /\ SumOf(taken) <= cash
    BY <1>5, <1>6, ScaledFits
  <1>8. \A s \in S : sold(s) = 0 \/ taken[s] = 0
    <2> SUFFICES ASSUME NEW s \in S, cost[s] = 0 PROVE taken[s] = 0
      BY <1>3, <1>6
    <2> DEFINE t == SumOf(cost)
    <2>1. taken[s] = IF t <= cash THEN 0 ELSE (0 * cash) \div t
      BY DEF Scale
    <2>2. t \in Nat
      <3>1. IsSummed(cost) /\ \A c \in DOMAIN cost : cost[c] >= 0
        BY <1>6 DEF IsSummed
      <3> QED BY <3>1, SumNat
    <2> HIDE DEF t
    <2>3. CASE t <= cash
      BY <2>1, <2>3
    <2>4. CASE ~ (t <= cash)
      <3>1. t \in Nat \ {0} /\ 0 * cash = 0
        BY <1>5, <2>2, <2>4
      <3>2. 0 \div t = 0
        BY <3>1
      <3> QED BY <2>1, <2>4, <3>1, <3>2
    <2> QED BY <2>3, <2>4
  <1> HIDE DEF taken
  <1>9. \A s \in S : /\ after[s] \in Nat /\ costs[s] \in Nat
                     /\ in[s] + after[s] + costs[s] <= held[s] + taken[s]
    <2> SUFFICES ASSUME NEW s \in S
                 PROVE  /\ after[s] \in Nat /\ costs[s] \in Nat
                        /\ in[s] + after[s] + costs[s] <= held[s] + taken[s]
      OBVIOUS
    <2> DEFINE h == held[s]
               x == sold(s)
               t == taken[s]
               a == after[s]
    <2>1. h \in Nat /\ x \in 0..h /\ t \in Nat /\ (x = 0 \/ t = 0)
      BY <1>1, <1>3, <1>7, <1>8
    <2>2. a = h - x + (t * One) \div (One + BuyCost)
      OBVIOUS
    <2>3. costs[s] = CostOf(Greatest(0, h - a), SellCost) + CostOf(Greatest(0, a - h), BuyCost)
      OBVIOUS
    <2>4. in[s] = x - CostOf(x, SellCost)
      BY DEF in
    <2> HIDE DEF h, x, t, a, costs
    <2>5. /\ a \in Nat
          /\ CostOf(Greatest(0, h - a), SellCost) \in Nat
          /\ CostOf(Greatest(0, a - h), BuyCost) \in Nat
          /\ (x - CostOf(x, SellCost)) + a
               + (CostOf(Greatest(0, h - a), SellCost)
                    + CostOf(Greatest(0, a - h), BuyCost)) <= h + t
      BY <2>1, <2>2, OneTradePays
    <2>6. costs[s] \in Nat
      BY <2>3, <2>5
    <2>7. in[s] + a + costs[s] <= h + t
      BY <2>3, <2>4, <2>5
    <2> QED BY <2>5, <2>6, <2>7 DEF a, h, t
  <1>10. after \in [S -> Nat] /\ costs \in [S -> Nat]
    <2>1. after = [s \in S |-> after[s]] /\ costs = [s \in S |-> costs[s]]
      OBVIOUS
    <2> HIDE DEF after, costs
    <2> QED BY <1>9, <2>1
  <1>11. Costs([valued |-> portfolio, traded |-> traded]) = SumOf(costs)
    <2>1. traded.held = after
      BY <1>4
    <2> QED BY <1>1, <2>1 DEF Costs
  <1> HIDE DEF after, costs, held
  <1>12. SumOf(in) + SumOf(after) + SumOf(costs) <= SumOf(held) + SumOf(taken)
    <2>1. \A f \in {in, taken, after, costs, held} : DOMAIN f = S /\ \A s \in S : f[s] \in Int
      BY <1>1, <1>5, <1>7, <1>10
    <2> QED BY <1>9, <2>1, SumsBalance
  <1>13. \A f \in {in, taken, after, costs, held} : SumOf(f) \in Int
    <2>1. \A f \in {in, taken, after, costs, held} : IsSummed(f)
      BY <1>1, <1>5, <1>7, <1>10 DEF IsSummed
    <2> QED BY <2>1, SumNat
  <1>14. cash = portfolio.cash + SumOf(in)
    BY <1>2 DEF CashAfterSales, sold, in, cash
  <1>15. traded.cash = cash - SumOf(taken) /\ traded.held = after
    BY <1>4, <1>5, <1>7, <1>13 DEF Greatest
  <1>16. traded.cash \in Nat
    BY <1>5, <1>7, <1>13, <1>15
  <1>17. PortfolioOK(traded, S)
    BY <1>10, <1>15, <1>16 DEF PortfolioOK
  <1>18. Value(traded) = traded.cash + SumOf(after) /\ Value(portfolio) = portfolio.cash + SumOf(held)
    BY <1>15 DEF Value, held
  <1>19. Value(traded) + SumOf(costs) <= Value(portfolio)
    BY <1>1, <1>12, <1>13, <1>14, <1>15, <1>18
  <1> QED BY <1>11, <1>17, <1>19 DEF traded

-----------------------------------------------------------------------------
(* Steps one after the other *)

LEMMA UpTo ==
  ASSUME NEW n \in Nat, NEW Good, 0 \in Good, \A k \in 1..n : k - 1 \in Good => k \in Good
  PROVE  0..n \subseteq Good
  <1> DEFINE X == 0..n
             Base == {0}
             prev == [k \in X |-> k - 1]
             rank == [k \in X |-> k]
  <1>1. Descent(X, Base, prev, rank)
    BY DEF Descent
  <1>2. \A k \in X \ Base : prev[k] \in Good => k \in Good
    OBVIOUS
  <1>3. X = 0..n /\ Base \subseteq Good
    OBVIOUS
  <1> HIDE DEF X, Base, prev, rank
  <1> QED BY <1>1, <1>2, <1>3, RecursionKeeps

\* What comes of b in n steps H[1], ..., H[n].
Steps(n, b, H) == Recursion(0..n, {0}, [k \in 0..n |-> k - 1], [k \in 0..n |-> b], H)

LEMMA StepsTaken ==
  ASSUME NEW n \in Nat, NEW V, NEW b \in V, NEW H, \A k \in 1..n : \A v \in V : H[k][v] \in V
  PROVE  /\ Steps(n, b, H) \in [0..n -> V]
         /\ Steps(n, b, H)[0] = b
         /\ \A k \in 1..n : Steps(n, b, H)[k] = H[k][Steps(n, b, H)[k - 1]]
  <1> DEFINE X == 0..n
             Base == {0}
             prev == [k \in X |-> k - 1]
             rank == [k \in X |-> k]
             bs == [k \in X |-> b]
             g == Recursion(X, Base, prev, bs, H)
  <1>1. Descent(X, Base, prev, rank)
    BY DEF Descent
  <1>2. Recursive(g, X, Base, prev, bs, H)
    <2> HIDE DEF X, Base, prev, rank, bs
    <2> QED BY <1>1, RecursionExists
  <1>3. g = Steps(n, b, H)
    BY DEF Steps
  <1> HIDE DEF g
  <1>4. /\ g = [k \in 0..n |-> g[k]] /\ g[0] = b
        /\ \A k \in 1..n : g[k] = H[k][g[k - 1]]
    <2>1. \A k \in 1..n : k \in X \ Base /\ prev[k] = k - 1
      OBVIOUS
    <2>2. 0 \in Base /\ bs[0] = b /\ X = 0..n
      OBVIOUS
    <2> HIDE DEF X, Base, prev, bs
    <2> QED BY <1>2, <2>1, <2>2 DEF Recursive
  <1> DEFINE Good == {k \in 0..n : g[k] \in V}
  <1>5. 0..n \subseteq Good
    <2>1. 0 \in Good
      BY <1>4
    <2>2. ASSUME NEW k \in 1..n, k - 1 \in Good
          PROVE  k \in Good
      <3>1. g[k - 1] \in V /\ g[k] = H[k][g[k - 1]]
        BY <1>4, <2>2
      <3> QED BY <3>1
    <2> HIDE DEF Good
    <2> QED BY <2>1, <2>2, UpTo
  <1> QED BY <1>3, <1>4, <1>5

-----------------------------------------------------------------------------
(* Ranking *)

\* The candidates of a universe, each at its place.
CandidatesOK(cands) ==
  /\ DOMAIN cands \subseteq Nat /\ IsFiniteSet(DOMAIN cands)
  /\ \A i \in DOMAIN cands : cands[i] \in Candidates

LEMMA BestIsCandidate ==
  ASSUME NEW cands, CandidatesOK(cands), NEW i \in DOMAIN cands
  PROVE  BestFor(cands, i) \in Candidates
  <1> DEFINE same == {j \in DOMAIN cands : cands[j].symbol = cands[i].symbol}
             lost == {100 - cands[j].score : j \in same}
  <1>0. /\ \A j \in same : j \in Nat /\ cands[j].score \in 0..100 /\ cands[j] \in Candidates
        /\ i \in same
    BY DEF CandidatesOK, Candidates
  <1> HIDE DEF same
  <1>1. lost \in SUBSET Nat /\ lost # {}
    BY <1>0
  <1>2. PICK m \in lost : \A n \in lost : m <= n
    <2> HIDE DEF lost
    <2> QED BY <1>1, NatMinimum
  <1> DEFINE best == {j \in same : 100 - cands[j].score = m}
  <1>3. best \in SUBSET Nat /\ best # {}
    BY <1>0, <1>2
  <1>4. PICK j \in best : \A k \in best : j <= k
    <2> HIDE DEF best
    <2> QED BY <1>3, NatMinimum
  <1>5. \A k \in same : \/ cands[j].score > cands[k].score
                        \/ cands[j].score = cands[k].score /\ j <= k
    <2> SUFFICES ASSUME NEW k \in same
                 PROVE  \/ cands[j].score > cands[k].score
                        \/ cands[j].score = cands[k].score /\ j <= k
      OBVIOUS
    <2> DEFINE x == cands[j].score
               y == cands[k].score
    <2>1. 100 - x = m /\ m <= 100 - y
      BY <1>2
    <2>2. x \in 0..100 /\ y \in 0..100
      BY <1>0
    <2>3. 100 - y = m => j <= k
      BY <1>4
    <2> HIDE DEF x, y, best
    <2>4. x > y \/ (x = y /\ j <= k)
      BY <2>1, <2>2, <2>3
    <2> QED BY <2>4 DEF x, y
  <1>6. j \in same
    OBVIOUS
  <1> DEFINE p == CHOOSE c \in same :
                    \A k \in same : \/ cands[c].score > cands[k].score
                                    \/ cands[c].score = cands[k].score /\ c <= k
  <1>7. p \in same
    BY <1>5, <1>6
  <1>8. BestFor(cands, i) = cands[p]
    BY DEF BestFor, same
  <1> QED BY <1>0, <1>7, <1>8

StrictOrder(S, before) ==
  \A x, y, z \in S :
    /\ <<x, x>> \notin before
    /\ <<x, y>> \in before /\ <<y, z>> \in before => <<x, z>> \in before
    /\ x = y \/ <<x, y>> \in before \/ <<y, x>> \in before

\* Where each element comes.
RankOf(S, before) == [e \in S |-> Cardinality({f \in S : <<f, e>> \in before}) + 1]

\* In a strict order of a finite set every place is taken, and by one element.
LEMMA Ranks ==
  ASSUME NEW S, IsFiniteSet(S), NEW before, StrictOrder(S, before)
  PROVE  LET rank == RankOf(S, before)
         IN  /\ rank \in [S -> 1..Cardinality(S)]
             /\ \A x, y \in S : rank[x] = rank[y] => x = y
             /\ \A n \in 1..Cardinality(S) : \E e \in S : rank[e] = n
  <1> DEFINE Below(e) == {f \in S : <<f, e>> \in before}
             rank == RankOf(S, before)
             m == Cardinality(S)
  <1>0. rank = [e \in S |-> Cardinality(Below(e)) + 1]
    BY DEF RankOf
  <1>1. m \in Nat
    BY FS_CardinalityType
  <1>2. ASSUME NEW e \in S
        PROVE  /\ IsFiniteSet(Below(e)) /\ Cardinality(Below(e)) \in Nat
               /\ Cardinality(Below(e)) < m
    <2>1. e \notin Below(e) /\ Below(e) \in SUBSET S
      BY DEF StrictOrder
    <2>2. IsFiniteSet(Below(e)) /\ Cardinality(Below(e)) <= m /\ Cardinality(Below(e)) # m
      <3> HIDE DEF Below
      <3> QED BY <2>1, FS_Subset
    <2>3. Cardinality(Below(e)) \in Nat
      BY <2>2, FS_CardinalityType
    <2> HIDE DEF Below, m
    <2> QED BY <1>1, <2>2, <2>3
  <1> HIDE DEF rank
  <1>3. rank \in [S -> 1..m]
    <2> HIDE DEF Below, m
    <2> QED BY <1>0, <1>1, <1>2
  <1>4. ASSUME NEW x \in S, NEW y \in S, <<x, y>> \in before
        PROVE  rank[x] # rank[y]
    <2>1. x \in Below(y) /\ x \notin Below(x) /\ Below(x) \in SUBSET Below(y)
      BY <1>4 DEF StrictOrder
    <2>2. Cardinality(Below(x)) # Cardinality(Below(y))
      <3> HIDE DEF Below
      <3> QED BY <2>1, <1>2, FS_Subset
    <2> HIDE DEF Below
    <2> QED BY <1>0, <1>2, <2>2
  <1>5. \A x, y \in S : rank[x] = rank[y] => x = y
    BY <1>4 DEF StrictOrder
  <1>6. rank \in Injection(S, 1..m)
    <2> HIDE DEF m
    <2> QED BY <1>3, <1>5, Fun_IsInj
  <1>7. IsFiniteSet(1..m) /\ Cardinality(1..m) = m
    <2> HIDE DEF m
    <2> QED BY <1>1, FS_Interval
  <1>8. rank \in Surjection(S, 1..m)
    BY <1>6, <1>7, FS_Injection
  <1>9. \A n \in 1..m : \E e \in S : rank[e] = n
    <2> HIDE DEF m
    <2> QED BY <1>8 DEF Surjection
  <1> QED BY <1>3, <1>5, <1>9 DEF rank

LEMMA Placed ==
  ASSUME NEW S, IsFiniteSet(S), NEW before, StrictOrder(S, before),
         NEW n \in 1..Cardinality(S)
  PROVE  \E e \in S : Cardinality({f \in S : <<f, e>> \in before}) = n - 1
  <1> DEFINE Below(e) == {f \in S : <<f, e>> \in before}
  <1>1. PICK e \in S : RankOf(S, before)[e] = n
    BY Ranks
  <1>2. Cardinality(Below(e)) + 1 = n
    BY <1>1 DEF RankOf
  <1>3. IsFiniteSet(Below(e))
    <2>1. Below(e) \in SUBSET S
      OBVIOUS
    <2> HIDE DEF Below
    <2> QED BY <2>1, FS_Subset
  <1>4. Cardinality(Below(e)) \in Nat
    BY <1>3, FS_CardinalityType
  <1> HIDE DEF Below
  <1>5. Cardinality(Below(e)) = n - 1
    BY <1>2, <1>4
  <1> QED BY <1>5 DEF Below

LEMMA SelectedAreCandidates ==
  ASSUME NEW cands, CandidatesOK(cands)
  PROVE  rank_candidates(cands) \in Seq(Candidates)
  <1> DEFINE places == Eligible(cands)
             before == {p \in places \X places : Ahead(cands, p[1], p[2])}
             Below(i) == {j \in places : Ahead(cands, j, i)}
             ranked(k) == CHOOSE i \in places : Cardinality(Below(i)) = k - 1
             n == Least(MaxHoldings, Cardinality(places))
  <1>1. places \subseteq DOMAIN cands /\ IsFiniteSet(places)
    <2>1. places \in SUBSET DOMAIN cands
      BY DEF Eligible, FirstPlaces
    <2> QED BY <2>1, FS_Subset DEF CandidatesOK
  <1>2. \A i \in places : i \in Nat /\ BestFor(cands, i) \in Candidates
    BY <1>1, BestIsCandidate DEF CandidatesOK
  <1> HIDE DEF places
  <1>3. StrictOrder(places, before)
    <2>1. \A i \in places : i \in Nat /\ BestFor(cands, i).score \in Int
      BY <1>2 DEF Candidates
    <2> QED BY <2>1 DEF StrictOrder, Ahead
  <1>4. n \in Nat /\ n <= Cardinality(places) /\ Cardinality(places) \in Nat
    <2>1. Cardinality(places) \in Nat
      BY <1>1, FS_CardinalityType
    <2> QED BY <2>1, ConstraintsAssumption DEF Least
  <1>5. ASSUME NEW k \in 1..n
        PROVE  ranked(k) \in places
    <2>1. k \in 1..Cardinality(places)
      BY <1>4
    <2>2. PICK i \in places : Cardinality({f \in places : <<f, i>> \in before}) = k - 1
      <3> HIDE DEF before
      <3> QED BY <1>1, <1>3, <2>1, Placed
    <2>3. {f \in places : <<f, i>> \in before} = Below(i)
      OBVIOUS
    <2> HIDE DEF Below
    <2> QED BY <2>2, <2>3
  <1>6. rank_candidates(cands) = [k \in 1..n |-> BestFor(cands, ranked(k))]
    BY DEF rank_candidates, places
  <1> HIDE DEF ranked, n
  <1>7. \A k \in 1..n : BestFor(cands, ranked(k)) \in Candidates
    BY <1>2, <1>5
  <1> QED BY <1>4, <1>6, <1>7

-----------------------------------------------------------------------------
(* The allocation of weights *)

Fills == [weight : [Symbols -> 0..MaxPosition], used : [Industries -> Int],
          budget : Nat, given : Nat, active : Seq(Candidates), next : Seq(Candidates),
          stuck : BOOLEAN, topped : SUBSET Symbols]

\* What the symbols of S have.
Allocated(fill, S) == SumOf([s \in S |-> fill.weight[s]])

LEMMA AllocatedNat ==
  ASSUME NEW S \in SUBSET Symbols, IsFiniteSet(S), NEW fill \in Fills
  PROVE  Allocated(fill, S) \in Nat
  <1> DEFINE f == [s \in S |-> fill.weight[s]]
  <1>1. IsSummed(f) /\ \A s \in DOMAIN f : f[s] >= 0
    BY ConstraintsAssumption DEF Fills, IsSummed
  <1> QED BY <1>1, SumNat DEF Allocated

\* What a candidate is given is no more than it is offered, and no more than
\* there is room for.
LEMMA GivenFits ==
  ASSUME NEW fill \in Fills, NEW c \in Candidates, NEW proposed \in Nat
  PROVE  /\ Given(fill, c, proposed) \in 0..proposed
         /\ fill.weight[c.symbol] + Given(fill, c, proposed) \in 0..MaxPosition
         /\ fill.used[c.industry] \in Int
  <1> DEFINE w == fill.weight[c.symbol]
             u == fill.used[c.industry]
  <1>1. w \in 0..MaxPosition /\ u \in Int
    BY DEF Fills, Candidates
  <1>2. MaxPosition \in Nat /\ MaxIndustry \in Nat /\ Eps \in Nat
    BY ConstraintsAssumption
  <1> HIDE DEF w, u
  <1>3. Room(fill, c) \in Int /\ Room(fill, c) <= MaxPosition - w
    BY <1>1, <1>2 DEF Room, Least, w, u
  <1>4. Given(fill, c, proposed) \in 0..proposed /\ w + Given(fill, c, proposed) \in 0..MaxPosition
    BY <1>1, <1>2, <1>3 DEF Given, Greatest, Least
  <1> QED BY <1>1, <1>4 DEF w, u

LEMMA OfferKeeps ==
  ASSUME NEW fill \in Fills, NEW c \in Candidates, NEW proposed \in Nat,
         NEW S \in SUBSET Symbols, IsFiniteSet(S)
  PROVE  LET after == Offer(fill, c, proposed)
         IN  /\ after \in Fills
             /\ after.given \in fill.given..(fill.given + proposed)
             /\ Allocated(after, S) - Allocated(fill, S) <= after.given - fill.given
             /\ after.budget = fill.budget /\ after.stuck = fill.stuck
  <1> DEFINE a == Given(fill, c, proposed)
             mid == Give(fill, c, a)
             after == Offer(fill, c, proposed)
             weight == [fill.weight EXCEPT ![c.symbol] = @ + a]
             used == [fill.used EXCEPT ![c.industry] = @ + a]
  <1>1. a \in 0..proposed /\ fill.weight[c.symbol] + a \in 0..MaxPosition
        /\ fill.used[c.industry] \in Int
    BY GivenFits
  <1>2. /\ fill.weight \in [Symbols -> 0..MaxPosition] /\ fill.used \in [Industries -> Int]
        /\ fill.budget \in Nat /\ fill.given \in Nat
        /\ fill.active \in Seq(Candidates) /\ fill.next \in Seq(Candidates)
        /\ fill.stuck \in BOOLEAN /\ fill.topped \in SUBSET Symbols
    BY DEF Fills
  <1>3. c.symbol \in Symbols /\ c.industry \in Industries
    BY DEF Candidates
  <1> HIDE DEF a
  <1>4. weight \in [Symbols -> 0..MaxPosition] /\ used \in [Industries -> Int]
    BY <1>1, <1>2, <1>3
  <1>5. /\ mid \in Fills /\ mid.weight = weight /\ mid.given = fill.given + a
        /\ mid.budget = fill.budget /\ mid.stuck = fill.stuck
    <2>1. PICK topped \in SUBSET Symbols :
            mid = [fill EXCEPT !.weight = weight, !.used = used, !.given = fill.given + a,
                               !.topped = topped]
      BY <1>2, <1>3 DEF Give, Fills
    <2>2. fill.given + a \in Nat
      BY <1>1, <1>2
    <2> HIDE DEF mid, weight, used
    <2> QED BY <1>2, <1>4, <2>1, <2>2 DEF Fills
  <1> HIDE DEF mid
  <1>6. /\ after \in Fills /\ after.weight = weight /\ after.given = fill.given + a
        /\ after.budget = fill.budget /\ after.stuck = fill.stuck
    <2>1. after = mid \/ after = [mid EXCEPT !.next = Append(@, c)]
      BY DEF Offer, Requeue, mid, a
    <2>2. CASE after = mid
      BY <1>5, <2>2
    <2>3. CASE after = [mid EXCEPT !.next = Append(@, c)]
      <3>1. mid.next \in Seq(Candidates)
        BY <1>5 DEF Fills
      <3>2. Append(mid.next, c) \in Seq(Candidates)
        BY <3>1
      <3> HIDE DEF after, weight
      <3> QED BY <1>5, <2>3, <3>2 DEF Fills
    <2> QED BY <2>1, <2>2, <2>3
  <1> HIDE DEF after
  <1>7. Allocated(after, S) <= Allocated(fill, S) + a
    <2> DEFINE f == [s \in S |-> fill.weight[s]]
               g == [s \in S |-> after.weight[s]]
    <2>1. IsSummed(f) /\ IsSummed(g) /\ DOMAIN f = DOMAIN g
      BY <1>2, <1>4, <1>6, ConstraintsAssumption DEF IsSummed
    <2>2. \A s \in DOMAIN f : g[s] = IF s = c.symbol THEN f[s] + a ELSE f[s]
      BY <1>2, <1>3, <1>6
    <2>3. a \in Nat
      BY <1>1
    <2> HIDE DEF f, g
    <2>4. SumOf(g) <= SumOf(f) + a
      BY <2>1, <2>2, <2>3, SumRaised
    <2> QED BY <2>4 DEF Allocated, f, g
  <1>8. Allocated(after, S) \in Nat /\ Allocated(fill, S) \in Nat
    BY <1>6, AllocatedNat
  <1>9. after.given \in fill.given..(fill.given + proposed)
    BY <1>1, <1>2, <1>6
  <1>10. Allocated(after, S) - Allocated(fill, S) <= after.given - fill.given
    BY <1>1, <1>2, <1>6, <1>7, <1>8
  <1> QED BY <1>6, <1>9, <1>10 DEF after

\* The scores of the first candidates of a round.
UpToScore(active) ==
  CHOOSE upto : upto = [k \in 0..Len(active) |->
                          IF k = 0 THEN 0 ELSE upto[k - 1] + Score(active[k])]

LEMMA ScoresAddUp ==
  ASSUME NEW active \in Seq(Candidates)
  PROVE  /\ TotalScore(active) = UpToScore(active)[Len(active)]
         /\ \A k \in 1..Len(active) : Score(active[k]) \in Nat \ {0}
         /\ UpToScore(active)[0] = 0
         /\ \A k \in 1..Len(active) :
              UpToScore(active)[k] = UpToScore(active)[k - 1] + Score(active[k])
         /\ \A k \in 0..Len(active) : UpToScore(active)[k] \in Nat
         /\ active # <<>> => TotalScore(active) \in Nat \ {0}
  <1> DEFINE n == Len(active)
             H == [k \in 1..n |-> [v \in Nat |-> v + Score(active[k])]]
             g == Steps(n, 0, H)
             Adds(u) == u = [k \in 0..n |-> IF k = 0 THEN 0 ELSE u[k - 1] + Score(active[k])]
             p == UpToScore(active)
  <1>1. n \in Nat /\ \A k \in 1..n : Score(active[k]) \in Nat \ {0}
    <2>1. n \in Nat /\ \A k \in 1..n : active[k] \in Candidates
      OBVIOUS
    <2>2. \A c \in Candidates : Score(c) \in Nat \ {0}
      <3>1. \A c \in Candidates : c.score \in 0..100
        BY DEF Candidates
      <3>2. \A x \in 0..100 : Greatest(x, 1) \in Nat \ {0}
        BY DEF Greatest
      <3> QED BY <3>1, <3>2 DEF Score
    <2> QED BY <2>1, <2>2
  <1> HIDE DEF n
  <1>2. \A k \in 1..n : \A v \in Nat : H[k][v] = v + Score(active[k]) /\ H[k][v] \in Nat
    BY <1>1
  <1>3. /\ g \in [0..n -> Nat] /\ g[0] = 0 /\ \A k \in 1..n : g[k] = H[k][g[k - 1]]
    <2> DEFINE V == Nat
    <2>1. 0 \in V /\ \A k \in 1..n : \A v \in V : H[k][v] \in V
      BY <1>2
    <2> HIDE DEF H, V
    <2>2. /\ g \in [0..n -> V] /\ g[0] = 0 /\ \A k \in 1..n : g[k] = H[k][g[k - 1]]
      BY <1>1, <2>1, StepsTaken
    <2> QED BY <2>2 DEF V
  <1> HIDE DEF g
  <1>4. Adds(g)
    <2>1. \A k \in 1..n : g[k] = g[k - 1] + Score(active[k])
      <3> SUFFICES ASSUME NEW k \in 1..n PROVE g[k] = g[k - 1] + Score(active[k])
        OBVIOUS
      <3>1. g[k - 1] \in Nat
        BY <1>1, <1>3
      <3> HIDE DEF H
      <3> QED BY <1>2, <1>3, <3>1
    <2>2. g = [k \in 0..n |-> g[k]]
      BY <1>3
    <2>3. \A k \in 0..n : g[k] = IF k = 0 THEN 0 ELSE g[k - 1] + Score(active[k])
      BY <1>3, <2>1
    <2> QED BY <2>2, <2>3
  <1>5. Adds(p)
    BY <1>4 DEF UpToScore, n
  <1> HIDE DEF p
  <1>6. p[0] = 0 /\ \A k \in 1..n : p[k] = p[k - 1] + Score(active[k])
    BY <1>1, <1>5
  <1> HIDE DEF Adds
  <1> DEFINE Good == {k \in 0..n : p[k] \in Nat /\ p[k] >= k}
  <1>7. 0..n \subseteq Good
    <2>1. 0 \in Good
      BY <1>1, <1>6
    <2>2. ASSUME NEW k \in 1..n, k - 1 \in Good
          PROVE  k \in Good
      <3>1. p[k - 1] \in Nat /\ p[k - 1] >= k - 1 /\ p[k] = p[k - 1] + Score(active[k])
        BY <1>6, <2>2
      <3> QED BY <1>1, <3>1
    <2> HIDE DEF Good
    <2> QED BY <1>1, <2>1, <2>2, UpTo
  <1>8. TotalScore(active) = p[n]
    BY DEF TotalScore, p, UpToScore, n
  <1>9. active # <<>> => p[n] \in Nat \ {0}
    <2>1. active # <<>> => n # 0
      BY DEF n
    <2> QED BY <1>1, <1>7, <2>1
  <1> QED BY <1>1, <1>6, <1>7, <1>8, <1>9 DEF p, n

\* The fills of one round, after each of its candidates.
Share(fill, k) == (fill.budget * Score(fill.active[k])) \div TotalScore(fill.active)

Offers(fill) ==
  CHOOSE step : step = [k \in 0..Len(fill.active) |->
                          IF k = 0 THEN fill
                          ELSE Offer(step[k - 1], fill.active[k], Share(fill, k))]

LEMMA SharesFit ==
  ASSUME NEW fill \in Fills, fill.active # <<>>, NEW k \in 1..Len(fill.active)
  PROVE  /\ Share(fill, k) \in Nat /\ fill.active[k] \in Candidates
         /\ TotalScore(fill.active) * Share(fill, k) <= fill.budget * Score(fill.active[k])
  <1> DEFINE total == TotalScore(fill.active)
             x == fill.budget * Score(fill.active[k])
  <1>1. fill.active \in Seq(Candidates) /\ fill.budget \in Nat
    BY DEF Fills
  <1>2. total \in Nat \ {0} /\ Score(fill.active[k]) \in Nat
    BY <1>1, ScoresAddUp
  <1>3. x \in Nat
    BY <1>1, <1>2, TimesNat
  <1>4. Share(fill, k) = x \div total
    BY DEF Share
  <1> HIDE DEF x, total
  <1>5. x \div total \in Nat /\ total * (x \div total) <= x
    BY <1>2, <1>3, Quotient, QuotientNat
  <1> QED BY <1>1, <1>4, <1>5 DEF x, total

LEMMA OffersMade ==
  ASSUME NEW fill \in Fills, fill.active # <<>>
  PROVE  /\ OfferAll(fill) = Offers(fill)[Len(fill.active)]
         /\ Offers(fill) \in [0..Len(fill.active) -> Fills]
         /\ Offers(fill)[0] = fill
         /\ \A k \in 1..Len(fill.active) :
              Offers(fill)[k] = Offer(Offers(fill)[k - 1], fill.active[k], Share(fill, k))
  <1> DEFINE n == Len(fill.active)
             H == [k \in 1..n |-> [v \in Fills |-> Offer(v, fill.active[k], Share(fill, k))]]
             g == Steps(n, fill, H)
             Made(step) == step = [k \in 0..n |->
                                     IF k = 0 THEN fill
                                     ELSE Offer(step[k - 1], fill.active[k], Share(fill, k))]
             p == Offers(fill)
  <1>1. n \in Nat
    BY DEF Fills
  <1>2. \A k \in 1..n : \A v \in Fills : Offer(v, fill.active[k], Share(fill, k)) \in Fills
    <2> SUFFICES ASSUME NEW k \in 1..n, NEW v \in Fills
                 PROVE  Offer(v, fill.active[k], Share(fill, k)) \in Fills
      OBVIOUS
    <2>1. Share(fill, k) \in Nat /\ fill.active[k] \in Candidates
      BY SharesFit
    <2>2. {} \in SUBSET Symbols /\ IsFiniteSet({})
      BY FS_EmptySet
    <2> QED BY <2>1, <2>2, OfferKeeps
  <1> HIDE DEF n
  <1>3. \A k \in 1..n : \A v \in Fills : /\ H[k][v] = Offer(v, fill.active[k], Share(fill, k))
                                         /\ H[k][v] \in Fills
    BY <1>2
  <1>4. /\ g \in [0..n -> Fills] /\ g[0] = fill /\ \A k \in 1..n : g[k] = H[k][g[k - 1]]
    <2> HIDE DEF H
    <2> QED BY <1>1, <1>3, StepsTaken
  <1> HIDE DEF g
  <1>5. Made(g)
    <2>1. \A k \in 1..n : g[k] = Offer(g[k - 1], fill.active[k], Share(fill, k))
      <3> SUFFICES ASSUME NEW k \in 1..n
                   PROVE  g[k] = Offer(g[k - 1], fill.active[k], Share(fill, k))
        OBVIOUS
      <3>1. g[k - 1] \in Fills
        BY <1>1, <1>4
      <3> HIDE DEF H
      <3> QED BY <1>3, <1>4, <3>1
    <2>2. g = [k \in 0..n |-> g[k]]
      BY <1>4
    <2>3. \A k \in 0..n : g[k] = IF k = 0 THEN fill
                                 ELSE Offer(g[k - 1], fill.active[k], Share(fill, k))
      BY <1>4, <2>1
    <2> QED BY <2>2, <2>3
  <1>6. Made(p)
    BY <1>5 DEF Offers, n
  <1> HIDE DEF p
  <1>7. /\ p = [k \in 0..n |-> p[k]] /\ p[0] = fill
        /\ \A k \in 1..n : p[k] = Offer(p[k - 1], fill.active[k], Share(fill, k))
    BY <1>1, <1>6
  <1> HIDE DEF Made
  <1> DEFINE Good == {k \in 0..n : p[k] \in Fills}
  <1>8. 0..n \subseteq Good
    <2>1. 0 \in Good
      BY <1>1, <1>7
    <2>2. ASSUME NEW k \in 1..n, k - 1 \in Good
          PROVE  k \in Good
      <3>1. p[k - 1] \in Fills /\ k \in 0..n
        BY <1>1, <2>2
      <3>2. p[k] = Offer(p[k - 1], fill.active[k], Share(fill, k))
        BY <1>7
      <3>3. p[k] \in Fills
        BY <1>2, <3>1, <3>2
      <3> QED BY <3>1, <3>3
    <2> HIDE DEF Good
    <2> QED BY <1>1, <2>1, <2>2, UpTo
  <1>9. p \in [0..n -> Fills]
    BY <1>7, <1>8
  <1>10. OfferAll(fill) = p[n]
    BY DEF OfferAll, p, Offers, n, Share
  <1> QED BY <1>7, <1>9, <1>10 DEF p, n

\* A round gives no more than its budget.
LEMMA OffersFit ==
  ASSUME NEW fill \in Fills, fill.active # <<>>, fill.given = 0,
         NEW S \in SUBSET Symbols, IsFiniteSet(S)
  PROVE  LET after == OfferAll(fill)
         IN  /\ after \in Fills /\ after.given <= fill.budget
             /\ Allocated(after, S) <= Allocated(fill, S) + after.given
             /\ after.budget = fill.budget /\ after.stuck = fill.stuck
  <1> DEFINE n == Len(fill.active)
             p == Offers(fill)
             upto == UpToScore(fill.active)
             total == TotalScore(fill.active)
             budget == fill.budget
             Fits(k) == /\ total * p[k].given <= budget * upto[k]
                        /\ Allocated(p[k], S) <= Allocated(fill, S) + p[k].given
                        /\ p[k].budget = budget /\ p[k].stuck = fill.stuck
             Good == {k \in 0..n : Fits(k)}
  <1>1. fill.active \in Seq(Candidates) /\ budget \in Nat /\ n \in Nat
    BY DEF Fills
  <1>2. /\ total = upto[n] /\ total \in Nat \ {0} /\ upto[0] = 0
        /\ \A k \in 1..n : upto[k] = upto[k - 1] + Score(fill.active[k])
        /\ \A k \in 1..n : Score(fill.active[k]) \in Nat
        /\ \A k \in 0..n : upto[k] \in Nat
    BY <1>1, ScoresAddUp
  <1>3. /\ OfferAll(fill) = p[n] /\ p[0] = fill
        /\ \A k \in 0..n : p[k] \in Fills
        /\ \A k \in 1..n : p[k] = Offer(p[k - 1], fill.active[k], Share(fill, k))
    BY OffersMade
  <1>4. \A k \in 1..n : /\ Share(fill, k) \in Nat /\ fill.active[k] \in Candidates
                        /\ total * Share(fill, k) <= budget * Score(fill.active[k])
    BY SharesFit
  <1>5. \A f \in Fills : f.given \in Nat /\ Allocated(f, S) \in Nat
    BY AllocatedNat DEF Fills
  <1> HIDE DEF n, p, upto, total, budget
  <1>6. 0 \in Good
    <2>1. Fits(0)
      BY <1>1, <1>2, <1>3, <1>5 DEF budget
    <2> QED BY <1>1, <2>1
  <1>7. ASSUME NEW k \in 1..n, k - 1 \in Good
        PROVE  k \in Good
    <2> DEFINE x == p[k - 1]
               y == p[k]
               share == Share(fill, k)
               score == Score(fill.active[k])
    <2>1. k - 1 \in 0..n /\ k \in 0..n
      BY <1>1
    <2>2. x \in Fills /\ y \in Fills /\ y = Offer(x, fill.active[k], share)
      BY <1>3, <2>1
    <2>3. share \in Nat /\ fill.active[k] \in Candidates /\ total * share <= budget * score
      BY <1>4
    <2>4. Fits(k - 1)
      BY <1>7
    <2>5. /\ total * x.given <= budget * upto[k - 1]
          /\ Allocated(x, S) <= Allocated(fill, S) + x.given
          /\ x.budget = budget /\ x.stuck = fill.stuck
      BY <2>4
    <2>6. upto[k] = upto[k - 1] + score /\ score \in Nat /\ upto[k - 1] \in Nat
      BY <1>2, <2>1
    <2> HIDE DEF x, y, share, score, Fits
    <2>7. /\ y.given \in x.given..(x.given + share)
          /\ Allocated(y, S) - Allocated(x, S) <= y.given - x.given
          /\ y.budget = x.budget /\ y.stuck = x.stuck
      BY <2>2, <2>3, OfferKeeps
    <2>8. /\ x.given \in Nat /\ y.given \in Nat /\ Allocated(x, S) \in Nat
          /\ Allocated(y, S) \in Nat /\ Allocated(fill, S) \in Nat
      BY <1>5, <2>2
    <2>9. total * y.given <= budget * upto[k]
      <3>1. total * y.given <= total * (x.given + share)
        BY <1>2, <2>3, <2>7, <2>8, TimesMonotone
      <3>2. /\ total * (x.given + share) = total * x.given + total * share
            /\ total * x.given \in Int /\ total * share \in Int
        <4>1. total \in Int /\ x.given \in Int /\ share \in Int
          BY <1>2, <2>3, <2>8
        <4> QED BY <4>1, TimesPlus
      <3>3. /\ budget * (upto[k - 1] + score) = budget * upto[k - 1] + budget * score
            /\ budget * upto[k - 1] \in Int /\ budget * score \in Int
        BY <1>1, <2>6, TimesPlus
      <3>4. total * y.given \in Int
        BY <1>2, <2>8
      <3> QED BY <2>3, <2>5, <2>6, <3>1, <3>2, <3>3, <3>4
    <2>10. Allocated(y, S) <= Allocated(fill, S) + y.given
      BY <2>5, <2>7, <2>8
    <2>11. Fits(k)
      BY <2>5, <2>7, <2>9, <2>10 DEF Fits, y
    <2> QED BY <2>1, <2>11
  <1> HIDE DEF Good
  <1>8. 0..n \subseteq Good
    BY <1>1, <1>6, <1>7, UpTo
  <1>9. Fits(n) /\ n \in 0..n
    BY <1>1, <1>8 DEF Good
  <1>10. p[n].given <= budget
    <2> DEFINE given == p[n].given
    <2>1. total * given <= budget * total
      BY <1>2, <1>9
    <2>2. given \in Int /\ total \in Nat \ {0} /\ budget \in Nat
      BY <1>1, <1>2, <1>3, <1>5, <1>9
    <2> HIDE DEF given
    <2>3. budget * total = total * budget /\ total * budget \in Int /\ total * given \in Int
      BY <2>2
    <2>4. total * given < total * budget + total
      BY <2>1, <2>2, <2>3
    <2>5. given <= budget
      BY <2>2, <2>4, Cancel
    <2> QED BY <2>5 DEF given
  <1> QED BY <1>3, <1>9, <1>10 DEF budget

\* The fills that have not given more than B to the symbols of S, and whose
\* budget, if there is another round, does not go beyond B either.
Within(B, S) ==
  {fill \in Fills : /\ Allocated(fill, S) <= B
                    /\ ~ fill.stuck => Allocated(fill, S) + fill.budget <= B}

LEMMA RoundKeeps ==
  ASSUME NEW B \in Nat, NEW S \in SUBSET Symbols, IsFiniteSet(S), NEW fill \in Within(B, S)
  PROVE  Round(fill) \in Within(B, S)
  <1> DEFINE start == [fill EXCEPT !.given = 0, !.next = <<>>]
             after == OfferAll(start)
             stopped == [after EXCEPT !.stuck = TRUE]
             onward == [after EXCEPT !.budget = after.budget - after.given,
                                     !.active = after.next]
  <1>1. CASE Filled(fill)
    BY <1>1 DEF Round
  <1>2. CASE ~ Filled(fill)
    <2>1. fill \in Fills /\ fill.active # <<>> /\ ~ fill.stuck
      BY <1>2 DEF Filled, Within
    <2>2. /\ start \in Fills /\ start.active # <<>> /\ start.given = 0
          /\ start.weight = fill.weight /\ start.budget = fill.budget
          /\ start.stuck = fill.stuck
      <3>1. 0 \in Nat /\ <<>> \in Seq(Candidates)
        OBVIOUS
      <3> DEFINE empty == <<>>
      <3>2. empty \in Seq(Candidates) /\ start = [fill EXCEPT !.given = 0, !.next = empty]
        BY <3>1
      <3> HIDE DEF empty, start
      <3>3. start \in Fills
        BY <2>1, <3>1, <3>2 DEF Fills
      <3>4. /\ start.active = fill.active /\ start.given = 0
            /\ start.weight = fill.weight /\ start.budget = fill.budget
            /\ start.stuck = fill.stuck
        BY <2>1, <3>2 DEF Fills
      <3> QED BY <2>1, <3>3, <3>4
    <2> HIDE DEF start
    <2>3. /\ after \in Fills /\ after.given <= start.budget
          /\ Allocated(after, S) <= Allocated(start, S) + after.given
          /\ after.budget = start.budget /\ after.stuck = start.stuck
      BY <2>2, OffersFit
    <2>4. Allocated(start, S) = Allocated(fill, S)
      BY <2>2 DEF Allocated
    <2>5. Allocated(fill, S) + fill.budget <= B
      BY <2>1 DEF Within
    <2>6. /\ Allocated(after, S) \in Nat /\ Allocated(fill, S) \in Nat
          /\ after.given \in Nat /\ fill.budget \in Nat /\ after.next \in Seq(Candidates)
      BY <2>1, <2>3, AllocatedNat DEF Fills
    <2>7. Round(fill) = stopped \/ Round(fill) = onward
      BY <1>2 DEF Round, EndRound, start
    <2> HIDE DEF after
    <2>8. CASE Round(fill) = stopped
      <3>1. stopped \in Fills /\ stopped.weight = after.weight /\ stopped.stuck
        BY <2>3 DEF Fills
      <3>2. Allocated(stopped, S) = Allocated(after, S)
        BY <3>1 DEF Allocated
      <3> HIDE DEF stopped
      <3>3. Allocated(stopped, S) <= B
        BY <2>2, <2>3, <2>4, <2>5, <2>6, <3>2
      <3> QED BY <2>8, <3>1, <3>3 DEF Within
    <2>9. CASE Round(fill) = onward
      <3>1. after.budget - after.given \in Nat
        BY <2>2, <2>3, <2>6
      <3>2. /\ onward \in Fills /\ onward.weight = after.weight
            /\ onward.budget = after.budget - after.given
        BY <2>3, <2>6, <3>1 DEF Fills
      <3>3. Allocated(onward, S) = Allocated(after, S)
        BY <3>2 DEF Allocated
      <3> HIDE DEF onward
      <3>4. Allocated(onward, S) + onward.budget <= B
        BY <2>2, <2>3, <2>4, <2>5, <2>6, <3>2, <3>3
      <3>5. Allocated(onward, S) <= B
        BY <2>6, <3>1, <3>2, <3>3, <3>4
      <3> QED BY <2>9, <3>2, <3>4, <3>5 DEF Within
    <2> QED BY <2>7, <2>8, <2>9
  <1> QED BY <1>1, <1>2

LEMMA SumOfZeros ==
  ASSUME NEW f, IsFiniteSet(DOMAIN f), \A s \in DOMAIN f : f[s] = 0
  PROVE  SumOf(f) = 0
  <1> DEFINE a == 1
             b == 0
             g == f
  <1>1. IsSummed(f) /\ IsSummed(g) /\ DOMAIN f = DOMAIN g
    BY DEF IsSummed
  <1>2. \A s \in DOMAIN f : a * f[s] <= b * g[s] /\ f[s] \in Nat
    OBVIOUS
  <1>3. a \in Int /\ b \in Int
    OBVIOUS
  <1>4. SumOf(f) \in Nat
    BY <1>1, <1>2, SumNat
  <1>5. a * SumOf(f) <= b * SumOf(g)
    <2> HIDE DEF a, b, g
    <2> QED BY <1>1, <1>2, <1>3, SumScaled
  <1> QED BY <1>4, <1>5

LEMMA EmptyIsWithin ==
  ASSUME NEW B \in Nat, NEW S \in SUBSET Symbols, IsFiniteSet(S),
         NEW selected \in Seq(Candidates)
  PROVE  EmptyFill(selected, B) \in Within(B, S)
  <1> DEFINE fill == EmptyFill(selected, B)
             f == [s \in S |-> fill.weight[s]]
  <1>1. fill \in Fills /\ fill.weight = [s \in Symbols |-> 0] /\ fill.budget = B
    <2>1. 0 \in 0..MaxPosition /\ <<>> \in Seq(Candidates)
      BY ConstraintsAssumption
    <2> QED BY <2>1 DEF EmptyFill, Fills
  <1> HIDE DEF fill
  <1>2. IsFiniteSet(DOMAIN f) /\ \A s \in DOMAIN f : f[s] = 0
    BY <1>1
  <1> HIDE DEF f
  <1>5. SumOf(f) <= 0
    BY <1>2, SumOfZeros
  <1>6. Allocated(fill, S) = SumOf(f)
    BY DEF Allocated, f
  <1>7. Allocated(fill, S) \in Nat
    BY <1>1, AllocatedNat
  <1> QED BY <1>1, <1>5, <1>6, <1>7 DEF Within, fill

LEMMA AllocationWithin ==
  ASSUME NEW B \in Nat, NEW S \in SUBSET Symbols, IsFiniteSet(S),
         NEW selected \in Seq(Candidates)
  PROVE  allocate_weights(selected, B) \in Within(B, S)
  <1> DEFINE n == Len(selected) + 1
             V == Within(B, S)
             empty == EmptyFill(selected, B)
             H == [k \in 1..n |-> [v \in V |-> Round(v)]]
             g == Steps(n, empty, H)
             Rounds(r) == r = [k \in 0..n |-> IF k = 0 THEN empty ELSE Round(r[k - 1])]
             p == CHOOSE r : Rounds(r)
  <1>1. n \in Nat
    OBVIOUS
  <1>2. empty \in V /\ \A v \in V : Round(v) \in V
    BY EmptyIsWithin, RoundKeeps
  <1>3. allocate_weights(selected, B) = p[n]
    BY DEF allocate_weights
  <1> HIDE DEF n, V, empty
  <1>4. \A k \in 1..n : \A v \in V : H[k][v] = Round(v) /\ H[k][v] \in V
    BY <1>2
  <1>5. /\ g \in [0..n -> V] /\ g[0] = empty /\ \A k \in 1..n : g[k] = H[k][g[k - 1]]
    <2> HIDE DEF H
    <2> QED BY <1>1, <1>2, <1>4, StepsTaken
  <1> HIDE DEF g
  <1>6. Rounds(g)
    <2>1. \A k \in 1..n : g[k] = Round(g[k - 1])
      <3> SUFFICES ASSUME NEW k \in 1..n PROVE g[k] = Round(g[k - 1])
        OBVIOUS
      <3>1. g[k - 1] \in V
        BY <1>1, <1>5
      <3> HIDE DEF H
      <3> QED BY <1>4, <1>5, <3>1
    <2>2. g = [k \in 0..n |-> g[k]]
      BY <1>5
    <2>3. \A k \in 0..n : g[k] = IF k = 0 THEN empty ELSE Round(g[k - 1])
      BY <1>5, <2>1
    <2> QED BY <2>2, <2>3
  <1>7. Rounds(p)
    <2> HIDE DEF Rounds
    <2> QED BY <1>6
  <1> HIDE DEF p
  <1>8. p[0] = empty /\ \A k \in 1..n : p[k] = Round(p[k - 1])
    BY <1>1, <1>7
  <1> HIDE DEF Rounds
  <1> DEFINE Good == {k \in 0..n : p[k] \in V}
  <1>9. 0..n \subseteq Good
    <2>1. 0 \in Good
      BY <1>1, <1>2, <1>8
    <2>2. ASSUME NEW k \in 1..n, k - 1 \in Good
          PROVE  k \in Good
      <3>1. p[k - 1] \in V /\ k \in 0..n /\ p[k] = Round(p[k - 1])
        BY <1>1, <1>8, <2>2
      <3>2. p[k] \in V
        BY <1>2, <3>1
      <3> QED BY <3>1, <3>2
    <2> HIDE DEF Good
    <2> QED BY <1>1, <2>1, <2>2, UpTo
  <1>10. p[n] \in V
    BY <1>1, <1>9
  <1> QED BY <1>3, <1>10 DEF V

-----------------------------------------------------------------------------
(* The weights of a day *)

\* Weights for all symbols: each within the limit on a position, and any of
\* them together within the whole.
WeightsOK(weights) ==
  /\ \A s \in Symbols : weights[s] \in 0..MaxPosition
  /\ \A S \in SUBSET Symbols : IsFiniteSet(S) => SumOf([s \in S |-> weights[s]]) <= One

LEMMA EquityWithin ==
  ASSUME NEW multiplier \in Int
  PROVE  target_equity_weight(multiplier) \in 0..One
  <1> DEFINE desired == Least(One, Greatest(0, (multiplier * One) \div 100))
             low == One - CashMax
             high == One - CashMin
  <1>1. One \in Nat /\ low \in 0..One /\ high \in 0..One
    BY ConstraintsAssumption
  <1>2. (multiplier * One) \div 100 \in Int
    <2>1. multiplier * One \in Int
      BY <1>1
    <2> QED BY <2>1
  <1>3. desired \in 0..One
    BY <1>1, <1>2 DEF Least, Greatest
  <1>4. target_equity_weight(multiplier) = Greatest(low, Least(high, desired))
    BY DEF target_equity_weight
  <1> HIDE DEF desired, low, high
  <1> QED BY <1>1, <1>3, <1>4 DEF Least, Greatest

LEMMA BuiltWeights ==
  ASSUME NEW cands, CandidatesOK(cands), NEW multiplier \in Int
  PROVE  WeightsOK(build_factor_portfolio(cands, multiplier).target_weights)
  <1> DEFINE B == target_equity_weight(multiplier)
             selected == rank_candidates(cands)
             fill == allocate_weights(selected, B)
             weights == build_factor_portfolio(cands, multiplier).target_weights
  <1>1. B \in Nat /\ B <= One /\ One \in Nat
    BY EquityWithin, ConstraintsAssumption
  <1>2. selected \in Seq(Candidates)
    BY SelectedAreCandidates
  <1>3. weights = [s \in Symbols |-> Target(fill, s)]
    <2>1. Written(cands) = cands /\ Written(selected) = selected
      BY WrittenOut
    <2> QED BY <2>1 DEF build_factor_portfolio, PortfolioOf
  <1> HIDE DEF B, selected
  <1>4. ASSUME NEW S \in SUBSET Symbols, IsFiniteSet(S)
        PROVE  fill \in Fills /\ Allocated(fill, S) <= B
    BY <1>1, <1>2, <1>4, AllocationWithin DEF Within
  <1> HIDE DEF fill, weights
  <1>5. fill \in Fills
    BY <1>4, FS_EmptySet
  <1>6. \A s \in Symbols : fill.weight[s] \in 0..MaxPosition
    BY <1>5 DEF Fills
  <1>7. \A s \in Symbols : weights[s] \in 0..MaxPosition /\ weights[s] <= fill.weight[s]
    BY <1>3, <1>6, ConstraintsAssumption DEF Target
  <1>8. ASSUME NEW S \in SUBSET Symbols, IsFiniteSet(S)
        PROVE  SumOf([s \in S |-> weights[s]]) <= One
    <2> DEFINE f == [s \in S |-> weights[s]]
               g == [s \in S |-> fill.weight[s]]
    <2>1. IsSummed(f) /\ IsSummed(g) /\ DOMAIN f = DOMAIN g
      BY <1>6, <1>7, <1>8, ConstraintsAssumption DEF IsSummed
    <2>2. \A s \in DOMAIN f : 1 * f[s] <= 1 * g[s]
      BY <1>6, <1>7, ConstraintsAssumption
    <2>3. SumOf(g) <= B
      BY <1>4, <1>8 DEF Allocated
    <2> HIDE DEF f, g
    <2>4. 1 * SumOf(f) <= 1 * SumOf(g)
      BY <2>1, <2>2, SumScaled
    <2>5. SumOf(f) \in Int /\ SumOf(g) \in Int
      BY <2>1, SumNat
    <2>6. SumOf(f) <= One
      BY <1>1, <2>3, <2>4, <2>5
    <2> QED BY <2>6 DEF f
  <1> QED BY <1>7, <1>8 DEF WeightsOK, weights

LEMMA ScoreClipped ==
  ASSUME NEW value
  PROVE  clip_score(value) \in 0..100
  BY DEF clip_score

LEMMA CompositeScored ==
  ASSUME NEW scores
  PROVE  LET score == calculate_composite_score(scores).score
         IN  score = Missing \/ score \in 0..100
  BY ScoreClipped DEF calculate_composite_score

LEMMA CandidatesFit ==
  ASSUME NEW inputs, NEW signal
  PROVE  CandidatesOK(candidates_for_date(inputs, signal))
  <1> DEFINE scores == [s \in DOMAIN inputs.prices |->
                          composite_for_date(inputs, s, signal).score]
             places == {k \in DOMAIN CandidateSymbols :
                          /\ CandidateSymbols[k] \in DOMAIN scores
                          /\ scores[CandidateSymbols[k]] # Missing}
             cands == ScoredCandidates(scores)
  <1>1. \A s \in DOMAIN scores : scores[s] = Missing \/ scores[s] \in 0..100
    BY CompositeScored
       DEF composite_for_date, factor_scores, calculate_factor_scores
  <1>2. candidates_for_date(inputs, signal) = cands
    BY DEF candidates_for_date
  <1> HIDE DEF scores
  <1>3. /\ DOMAIN cands = places
        /\ \A k \in places : cands[k] = [symbol |-> CandidateSymbols[k],
                                         score |-> scores[CandidateSymbols[k]],
                                         industry |-> "unknown"]
    BY DEF ScoredCandidates
  <1>4. places \subseteq 1..Len(CandidateSymbols) /\ places \subseteq Nat
    BY ScheduleAssumption
  <1>5. IsFiniteSet(places)
    <2> HIDE DEF places
    <2>1. IsFiniteSet(1..Len(CandidateSymbols))
      BY FS_Interval, ScheduleAssumption
    <2> QED BY <1>4, <2>1, FS_Subset
  <1>6. \A k \in places : CandidateSymbols[k] \in Symbols /\ scores[CandidateSymbols[k]] \in 0..100
    <2> SUFFICES ASSUME NEW k \in places
                 PROVE  CandidateSymbols[k] \in Symbols /\ scores[CandidateSymbols[k]] \in 0..100
      OBVIOUS
    <2>1. CandidateSymbols[k] \in DOMAIN scores /\ scores[CandidateSymbols[k]] # Missing
      OBVIOUS
    <2>2. k \in 1..Len(CandidateSymbols)
      BY <1>4
    <2> HIDE DEF places
    <2>3. CandidateSymbols[k] \in Symbols
      BY <2>2, ScheduleAssumption
    <2> QED BY <1>1, <2>1, <2>3
  <1> HIDE DEF cands, places
  <1>7. \A k \in places : cands[k] \in Candidates
    <2> SUFFICES ASSUME NEW k \in places PROVE cands[k] \in Candidates
      OBVIOUS
    <2> DEFINE symbol == CandidateSymbols[k]
               score == scores[CandidateSymbols[k]]
    <2>1. symbol \in Symbols /\ score \in 0..100 /\ "unknown" \in Industries
      BY <1>6, ScheduleAssumption
    <2>2. cands[k] = [symbol |-> symbol, score |-> score, industry |-> "unknown"]
      BY <1>3
    <2> HIDE DEF symbol, score
    <2> QED BY <2>1, <2>2 DEF Candidates
  <1> QED BY <1>2, <1>3, <1>4, <1>5, <1>7 DEF CandidatesOK

LEMMA RegimeKnown ==
  ASSUME NEW s
  PROVE  classify_macro_regime(s) \in Regimes
  BY DEF classify_macro_regime, Regimes

LEMMA MultiplierWhole ==
  ASSUME NEW rows, NEW signal
  PROVE  macro_asof(rows, signal).multiplier \in Int
  <1>1. ASSUME NEW regime \in Regimes, NEW s
        PROVE  equity_position_multiplier(regime, s) \in Int
    <2> DEFINE base == BASE_MULTIPLIERS[regime]
               less == IF s.external_risk < 35 THEN 10 ELSE 0
               more == IF s.policy > 75 THEN 5 ELSE 0
               adjusted == base - less + more
               m == IF strong_environment(regime, s) /\ adjusted < 120 THEN 120 ELSE adjusted
    <2>1. base \in Int
      BY DEF BASE_MULTIPLIERS
    <2>2. less \in Int /\ more \in Int
      OBVIOUS
    <2> HIDE DEF base, less, more
    <2>3. m \in Int
      BY <2>1, <2>2
    <2>4. equity_position_multiplier(regime, s) = ClampMultiplier(m)
      BY DEF equity_position_multiplier, base, less, more
    <2> HIDE DEF m
    <2> QED BY <2>3, <2>4 DEF ClampMultiplier
  <1>2. ASSUME NEW row
        PROVE  score_macro_environment(row).multiplier \in Int
    BY <1>1, RegimeKnown DEF score_macro_environment, Classified, Environment
  <1>3. Neutral.multiplier \in Int
    BY DEF Neutral
  <1> QED BY <1>2, <1>3 DEF macro_asof, ScoredOrNeutral

LEMMA PortfolioFits ==
  ASSUME NEW inputs, NEW e
  PROVE  WeightsOK(portfolio_at(inputs, e).target_weights)
  <1> DEFINE signal == signal_date_before(inputs.prices, e)
  <1>1. WeightsOK(portfolio_for_date(inputs, signal).target_weights)
    BY CandidatesFit, MultiplierWhole, BuiltWeights DEF portfolio_for_date
  <1>2. WeightsOK(NoPortfolio.target_weights)
    <2> DEFINE weights == NoPortfolio.target_weights
    <2>1. \A s \in Symbols : weights[s] = 0
      BY DEF NoPortfolio
    <2> HIDE DEF weights
    <2>2. ASSUME NEW S \in SUBSET Symbols, IsFiniteSet(S)
          PROVE  SumOf([s \in S |-> weights[s]]) <= One
      <3> DEFINE f == [s \in S |-> weights[s]]
      <3>1. IsFiniteSet(DOMAIN f) /\ \A s \in DOMAIN f : f[s] = 0
        BY <2>1, <2>2
      <3> HIDE DEF f
      <3>2. SumOf(f) = 0
        BY <3>1, SumOfZeros
      <3> QED BY <3>2, ConstraintsAssumption DEF f
    <2>3. \A s \in Symbols : weights[s] \in 0..MaxPosition
      BY <2>1, ConstraintsAssumption
    <2> QED BY <2>2, <2>3 DEF WeightsOK, weights
  <1> QED BY <1>1, <1>2 DEF portfolio_at, PortfolioSignalled, signal

\* The frames of a run's symbols, as the backtester is given them.
FramesOK(frames, syms) ==
  /\ IsFiniteSet(syms) /\ syms # {} /\ syms \subseteq Symbols
  /\ \A s \in syms : /\ DOMAIN frames[s] \subseteq Nat
                     /\ \A d \in DOMAIN frames[s] : frames[s][d] \in Nat \ {0}

LEMMA FramesFit ==
  ASSUME NEW inputs \in Schedulable
  PROVE  FramesOK(ClosesOf(inputs.prices), DOMAIN inputs.prices)
  <1>1. PICK syms \in (SUBSET Range(CandidateSymbols)) \ {{}} :
          inputs \in [prices : {p \in [syms -> UNION {Frames(s) : s \in syms}] :
                                  \A s \in syms : p[s] \in Frames(s)},
                      reports : {h \in [syms -> UNION {Histories(s) : s \in syms}] :
                                   \A s \in syms : h[s] \in Histories(s)},
                      macro : MacroAnswers]
    BY DEF PossibleInputs, Schedulable
  <1>2. DOMAIN inputs.prices = syms /\ \A s \in syms : inputs.prices[s] \in Frames(s)
    BY <1>1
  <1>3. IsFiniteSet(syms) /\ syms \subseteq Symbols
    <2>1. IsFiniteSet(1..Len(CandidateSymbols))
      BY FS_Interval, ScheduleAssumption
    <2> DEFINE places == 1..Len(CandidateSymbols)
               f == CandidateSymbols
               image == Range(CandidateSymbols)
    <2>3. /\ f \in [places -> image] /\ \A x \in image : \E k \in places : f[k] = x
          /\ image = {CandidateSymbols[k] : k \in places}
      BY ScheduleAssumption DEF Range
    <2>2. IsFiniteSet(image)
      <3> HIDE DEF places, f, image
      <3>1. f \in Surjection(places, image)
        BY <2>3 DEF Surjection
      <3> QED BY <2>1, <3>1, FS_Surjection DEF places
    <2>4. Range(CandidateSymbols) \subseteq Symbols
      BY <2>3, ScheduleAssumption
    <2> QED BY <2>2, <2>3, <2>4, FS_Subset
  <1>4. ASSUME NEW s \in syms
        PROVE  /\ DOMAIN inputs.prices[s] \subseteq Nat
               /\ \A d \in DOMAIN inputs.prices[s] : inputs.prices[s][d].close \in Nat \ {0}
    <2>1. PICK file \in PriceFiles(s) : inputs.prices[s] = prepare_price_frame(file)
      BY <1>2 DEF Frames
    <2>2. DOMAIN file \subseteq Nat /\ \A d \in DOMAIN file : file[d].close \in Int \cup {Missing}
      BY DatesAssumption DEF Closed
    <2> DEFINE frame == inputs.prices[s]
    <2>3. /\ DOMAIN frame \subseteq DOMAIN file
          /\ \A d \in DOMAIN frame : /\ frame[d] = file[d]
                                     /\ file[d].close # Missing /\ file[d].close > 0
      BY <2>1 DEF prepare_price_frame
    <2> HIDE DEF frame
    <2>4. ASSUME NEW d \in DOMAIN frame PROVE frame[d].close \in Nat \ {0}
      <3> DEFINE close == file[d].close
      <3>1. close \in Int /\ close > 0 /\ frame[d].close = close
        BY <2>2, <2>3
      <3> HIDE DEF close
      <3> QED BY <3>1
    <2> QED BY <2>2, <2>3, <2>4 DEF frame
  <1> DEFINE frames == ClosesOf(inputs.prices)
  <1>5. \A s \in syms : frames[s] = [d \in DOMAIN inputs.prices[s] |-> inputs.prices[s][d].close]
    BY <1>2 DEF ClosesOf
  <1> HIDE DEF frames
  <1>6. \A s \in syms : /\ DOMAIN frames[s] \subseteq Nat
                        /\ \A d \in DOMAIN frames[s] : frames[s][d] \in Nat \ {0}
    <2> SUFFICES ASSUME NEW s \in syms
                 PROVE  /\ DOMAIN frames[s] \subseteq Nat
                        /\ \A d \in DOMAIN frames[s] : frames[s][d] \in Nat \ {0}
      OBVIOUS
    <2> DEFINE bars == inputs.prices[s]
    <2>1. frames[s] = [d \in DOMAIN bars |-> bars[d].close]
      BY <1>5
    <2>2. DOMAIN bars \subseteq Nat /\ \A d \in DOMAIN bars : bars[d].close \in Nat \ {0}
      BY <1>4
    <2> HIDE DEF bars
    <2> QED BY <2>1, <2>2
  <1> QED BY <1>1, <1>2, <1>3, <1>6 DEF FramesOK, frames

\* Every execution day is a day of the price matrix.
LEMMA ExecutionDaysPriced ==
  ASSUME NEW inputs \in Schedulable
  PROVE  LET frames == ClosesOf(inputs.prices)
             syms == DOMAIN inputs.prices
             days == execution_dates(inputs.prices)
         IN  /\ days # {} /\ days \subseteq MatrixDays(frames, syms)
             /\ \A s \in syms : InWindow(frames[s]) # {}
  <1> DEFINE frames == ClosesOf(inputs.prices)
             syms == DOMAIN inputs.prices
             days == execution_dates(inputs.prices)
  <1>1. FramesOK(frames, syms)
    BY FramesFit
  <1>2. days # {}
    BY DEF Schedulable, CanSchedule
  <1>3. \A d \in days : /\ d \in Nat /\ StartDay <= d /\ d <= EndDay
                        /\ \A s \in syms : d \in DOMAIN inputs.prices[s]
    BY ExecutionDays DEF execution_dates, generate_rebalance_dates, aligned_trading_dates
  <1>4. \A s \in syms : DOMAIN frames[s] = DOMAIN inputs.prices[s]
    BY DEF ClosesOf
  <1> HIDE DEF frames, syms, days
  <1>5. \A d \in days : \A s \in syms : d \in InWindow(frames[s])
    BY <1>3, <1>4, <1>1 DEF InWindow, syms
  <1>6. ASSUME NEW d \in days, NEW s \in syms
        PROVE  d \in Rows(frames, syms) /\ d \in Sources(frames, syms, s, d)
    <2> DEFINE between == {r \in Rows(frames, syms) : d < r /\ r <= d}
    <2>1. Rows(frames, syms) \subseteq Nat
      BY <1>1 DEF Rows, InWindow, FramesOK
    <2>2. between = {} /\ d \in Nat
      BY <1>3, <2>1
    <2>3. Cardinality(between) <= MaxForwardFill
      BY <2>2, FS_EmptySet, BacktestAssumption
    <2>4. d <= d
      BY <2>2
    <2> HIDE DEF between
    <2>5. d \in Sources(frames, syms, s, d)
      BY <1>5, <2>3, <2>4 DEF Sources, between
    <2>6. d \in Rows(frames, syms)
      BY <1>5 DEF Rows
    <2> QED BY <2>5, <2>6
  <1>7. syms # {}
    BY <1>1 DEF FramesOK
  <1>8. days \subseteq MatrixDays(frames, syms)
    BY <1>6, <1>7 DEF MatrixDays
  <1> QED BY <1>2, <1>5, <1>8 DEF frames, syms, days

\* The one check of a schedule that can fail is the limit on a position, and
\* that only by rounding.
LEMMA OnlyRoundingRefuses ==
  ASSUME NEW inputs \in Schedulable, NEW over \in OverLimits(ResearchOf[inputs].topped)
  PROVE  LET verdict == backtest_verdict(ResearchOf[inputs].schedule, ClosesOf(inputs.prices),
                                         DOMAIN inputs.prices, over)
         IN  verdict # Accepted =>
               verdict = "weights" /\ UNION {over[e] : e \in DOMAIN over} # {}
  <1> DEFINE schedule == ResearchOf[inputs].schedule
             frames == ClosesOf(inputs.prices)
             syms == DOMAIN inputs.prices
             days == execution_dates(inputs.prices)
             verdict == backtest_verdict(schedule, frames, syms, over)
  <1>1. /\ schedule = [e \in days |->
                         [s \in syms |-> portfolio_at(inputs, e).target_weights[s]]]
        /\ DOMAIN over = days
    BY ScheduleMade DEF OverLimits
  <1>2. /\ days # {} /\ days \subseteq MatrixDays(frames, syms)
        /\ \A s \in syms : InWindow(frames[s]) # {}
    BY ExecutionDaysPriced
  <1>3. syms \subseteq Symbols /\ IsFiniteSet(syms)
    BY FramesFit DEF FramesOK
  <1> HIDE DEF schedule, frames, syms, days
  <1>4. DOMAIN schedule = days
    BY <1>1
  <1>5. MatrixDays(frames, syms) # {}
    BY <1>2
  <1>6. ASSUME verdict # Accepted
        PROVE  /\ verdict = "weights"
               /\ \E e \in days : ~ validate_weights(schedule[e], over[e])
    BY <1>2, <1>4, <1>5, <1>6 DEF backtest_verdict
  <1>7. ASSUME NEW e \in days, over[e] = {}
        PROVE  validate_weights(schedule[e], over[e])
    <2> DEFINE built == portfolio_at(inputs, e).target_weights
               weights == schedule[e]
    <2>1. WeightsOK(built)
      BY PortfolioFits
    <2>2. weights = [s \in syms |-> built[s]]
      BY <1>1
    <2> HIDE DEF built, weights
    <2>3. SumOf(weights) <= One
      BY <1>3, <2>1, <2>2 DEF WeightsOK
    <2>4. IsSummed(weights) /\ \A s \in DOMAIN weights : weights[s] \in 0..MaxPosition
      BY <1>3, <2>1, <2>2, ConstraintsAssumption DEF WeightsOK, IsSummed
    <2>5. SumOf(weights) \in Int
      BY <2>4, SumNat
    <2>6. SumOf(weights) <= One + Eps
      BY <2>3, <2>5, ConstraintsAssumption
    <2>7. \A s \in DOMAIN weights : 0 <= weights[s] /\ weights[s] <= MaxPosition
      BY <2>4, ConstraintsAssumption
    <2>8. validate_weights(weights, over[e])
      BY <1>7, <2>6, <2>7 DEF validate_weights
    <2> QED BY <2>8 DEF weights
  <1>8. ASSUME verdict # Accepted
        PROVE  UNION {over[e] : e \in DOMAIN over} # {}
    <2>1. PICK e \in days : over[e] # {}
      BY <1>6, <1>7, <1>8
    <2> QED BY <1>1, <2>1
  <1> QED BY <1>6, <1>8 DEF verdict, schedule, frames, syms

-----------------------------------------------------------------------------
(* The portfolio of each day *)

LEMMA MatrixPriced ==
  ASSUME NEW frames, NEW syms, FramesOK(frames, syms), NEW d \in MatrixDays(frames, syms),
         NEW s \in syms
  PROVE  d \in Nat /\ Close(frames, syms, s, d) \in Nat \ {0}
  <1> DEFINE sources == Sources(frames, syms, s, d)
  <1>1. Rows(frames, syms) \subseteq Nat
    BY DEF Rows, InWindow, FramesOK
  <1>2. d \in Nat /\ sources # {}
    BY <1>1 DEF MatrixDays
  <1>3. sources \subseteq DOMAIN frames[s] /\ \A e \in sources : e <= d
    BY DEF Sources, InWindow
  <1>4. sources \in SUBSET Nat
    BY <1>3 DEF FramesOK
  <1> HIDE DEF sources
  <1>5. Max(sources) \in sources
    BY <1>2, <1>3, <1>4, NatMaximum
  <1>6. Close(frames, syms, s, d) = frames[s][Max(sources)]
    BY DEF Close, sources
  <1> QED BY <1>2, <1>3, <1>5, <1>6 DEF FramesOK

\* A portfolio is worth something again on a later day.
LEMMA RevaluedKeeps ==
  ASSUME NEW frames, NEW syms, FramesOK(frames, syms),
         NEW from \in MatrixDays(frames, syms), NEW to \in MatrixDays(frames, syms),
         NEW portfolio \in [cash : Nat, held : [syms -> Nat]]
  PROVE  Revalued(frames, syms, portfolio, from, to) \in [cash : Nat, held : [syms -> Nat]]
  <1> DEFINE then == [s \in syms |-> (portfolio.held[s] * Close(frames, syms, s, to))
                                       \div Close(frames, syms, s, from)]
  <1>1. then \in [syms -> Nat]
    <2> SUFFICES ASSUME NEW s \in syms
                 PROVE  (portfolio.held[s] * Close(frames, syms, s, to))
                          \div Close(frames, syms, s, from) \in Nat
      OBVIOUS
    <2> DEFINE x == portfolio.held[s]
               y == Close(frames, syms, s, to)
               n == Close(frames, syms, s, from)
    <2>1. x \in Nat /\ y \in Nat /\ n \in Nat \ {0}
      BY MatrixPriced
    <2> HIDE DEF x, y, n
    <2>2. x * y \in Nat
      BY <2>1, TimesNat
    <2>3. (x * y) \div n \in Nat
      BY <2>1, <2>2, QuotientNat
    <2> QED BY <2>3 DEF x, y, n
  <1>2. Revalued(frames, syms, portfolio, from, to) = [portfolio EXCEPT !.held = then]
    BY DEF Revalued
  <1> HIDE DEF then
  <1> QED BY <1>1, <1>2

Day(schedule, portfolio, d) ==
  [valued |-> portfolio,
   traded |-> IF d \in DOMAIN schedule THEN rebalance(portfolio, schedule[d]) ELSE portfolio]

\* The days of a path whose trades are paid for.
PaidDays(syms) ==
  {day \in [valued : [cash : Nat, held : [syms -> Nat]],
            traded : [cash : Nat, held : [syms -> Nat]]] :
     Value(day.traded) + Costs(day) <= Value(day.valued)}

LEMMA DayPays ==
  ASSUME NEW syms, IsFiniteSet(syms), NEW portfolio \in [cash : Nat, held : [syms -> Nat]],
         NEW schedule, NEW d,
         d \in DOMAIN schedule => \A s \in syms : schedule[d][s] \in Nat
  PROVE  Day(schedule, portfolio, d) \in PaidDays(syms)
  <1> DEFINE day == Day(schedule, portfolio, d)
  <1>1. PortfolioOK(portfolio, syms)
    BY DEF PortfolioOK
  <1>2. CASE d \in DOMAIN schedule
    <2> DEFINE traded == rebalance(portfolio, schedule[d])
    <2>1. /\ PortfolioOK(traded, syms)
          /\ Value(traded) + Costs([valued |-> portfolio, traded |-> traded]) <= Value(portfolio)
      BY <1>1, <1>2, RebalancePays
    <2>2. traded = [cash |-> traded.cash, held |-> traded.held]
      BY DEF rebalance
    <2>3. day = [valued |-> portfolio, traded |-> traded]
      BY <1>2 DEF Day
    <2> HIDE DEF traded, day
    <2>4. traded \in [cash : Nat, held : [syms -> Nat]]
      BY <2>1, <2>2 DEF PortfolioOK
    <2> QED BY <2>1, <2>3, <2>4 DEF PaidDays, day
  <1>3. CASE d \notin DOMAIN schedule
    <2> DEFINE costs == [s \in syms |->
                           CostOf(Greatest(0, portfolio.held[s] - portfolio.held[s]), SellCost)
                             + CostOf(Greatest(0, portfolio.held[s] - portfolio.held[s]), BuyCost)]
    <2>1. day = [valued |-> portfolio, traded |-> portfolio]
      BY <1>3 DEF Day
    <2>2. Costs([valued |-> portfolio, traded |-> portfolio]) = SumOf(costs)
      BY DEF Costs
    <2>3. \A s \in syms : costs[s] = 0
      <3> SUFFICES ASSUME NEW s \in syms PROVE costs[s] = 0
        OBVIOUS
      <3>1. Greatest(0, portfolio.held[s] - portfolio.held[s]) = 0
        BY DEF Greatest
      <3>2. CostOf(0, SellCost) = 0 /\ CostOf(0, BuyCost) = 0
        BY NothingCostsNothing, BacktestAssumption, ConstraintsAssumption
      <3> QED BY <3>1, <3>2
    <2>4. DOMAIN costs = syms
      OBVIOUS
    <2> HIDE DEF costs, day
    <2>5. SumOf(costs) = 0
      BY <2>3, <2>4, SumOfZeros
    <2>6. Value(portfolio) \in Nat
      BY <1>1, ValueNat
    <2> QED BY <2>1, <2>2, <2>5, <2>6 DEF PaidDays, day
  <1> QED BY <1>2, <1>3

LEMMA PathPays ==
  ASSUME NEW frames, NEW syms, FramesOK(frames, syms), NEW schedule,
         \A d \in DOMAIN schedule : \A s \in syms : schedule[d][s] \in Nat
  PROVE  TradesArePaid(Portfolios(schedule, frames, syms))
  <1> DEFINE X == MatrixDays(frames, syms)
             V == PaidDays(syms)
             first == Min(X)
             Prior(d) == Max({e \in X : e < d})
             cash == [cash |-> InitialCapital, held |-> [s \in syms |-> 0]]
             Onward(v, d) == Day(schedule, Revalued(frames, syms, v.traded, Prior(d), d), d)
             Path(p) == p = [d \in X |-> IF d = first THEN Day(schedule, cash, d)
                                         ELSE Onward(p[Prior(d)], d)]
             path == CHOOSE p : Path(p)
             Base == {d \in X : d = first}
             prev == [d \in X |-> Prior(d)]
             rank == [d \in X |-> d]
             b == [d \in X |-> Day(schedule, cash, d)]
             H == [d \in X |-> [v \in V |-> Onward(v, d)]]
             g == Recursion(X, Base, prev, b, H)
  <1>1. X \subseteq Nat /\ IsFiniteSet(syms)
    BY MatrixPriced DEF FramesOK
  <1>2. Portfolios(schedule, frames, syms) = path
    BY DEF Portfolios, Day
  <1> HIDE DEF X
  <1>3. ASSUME NEW d \in X PROVE Day(schedule, cash, d) \in V
    <2>1. cash \in [cash : Nat, held : [syms -> Nat]]
      BY BacktestAssumption
    <2> HIDE DEF cash
    <2> QED BY <1>1, <2>1, DayPays
  <1>4. ASSUME NEW d \in X, d # first
        PROVE  Prior(d) \in X /\ Prior(d) < d
    <2> DEFINE T == {e \in X : e < d}
    <2>0. d \in Nat /\ \A e \in X : e \in Nat
      BY <1>1
    <2>1. T \in SUBSET Nat /\ \A e \in T : e <= d
      <3>1. \A e \in T : e \in Nat /\ e < d
        BY <2>0
      <3> HIDE DEF T
      <3>2. \A e \in T : e <= d
        BY <2>0, <3>1
      <3> QED BY <3>1, <3>2
    <2>2. T # {}
      <3>1. PICK m \in X : \A n \in X : m <= n
        BY <1>1, <1>4, NatMinimum
      <3>2. first \in X /\ \A n \in X : first <= n
        BY <3>1 DEF Min
      <3> HIDE DEF first
      <3>3. first \in Nat /\ first <= d /\ first # d
        BY <2>0, <1>4, <3>2
      <3>4. first < d
        BY <2>0, <3>3
      <3> QED BY <3>2, <3>4
    <2> HIDE DEF T
    <2>3. Max(T) \in T
      BY <2>0, <2>1, <2>2, NatMaximum
    <2> QED BY <2>3 DEF T
  <1>5. ASSUME NEW d \in X, d # first, NEW v \in V
        PROVE  Onward(v, d) \in V
    <2>1. v.traded \in [cash : Nat, held : [syms -> Nat]]
      BY <1>5 DEF PaidDays
    <2>2. Revalued(frames, syms, v.traded, Prior(d), d) \in [cash : Nat, held : [syms -> Nat]]
      <3> HIDE DEF Prior, V
      <3> QED BY <1>4, <1>5, <2>1, RevaluedKeeps DEF X
    <2> HIDE DEF Prior
    <2> QED BY <1>1, <2>2, DayPays
  <1> HIDE DEF V, first, Prior, cash, Onward
  <1>6. Descent(X, Base, prev, rank)
    BY <1>1, <1>4 DEF Descent
  <1>7. Recursive(g, X, Base, prev, b, H)
    <2> HIDE DEF Base, prev, rank, b, H
    <2> QED BY <1>6, RecursionExists
  <1>8. /\ g = [d \in X |-> g[d]]
        /\ \A d \in Base : g[d] = Day(schedule, cash, d)
        /\ \A d \in X \ Base : g[d] = H[d][g[Prior(d)]]
    <2> HIDE DEF g, H
    <2> QED BY <1>7 DEF Recursive
  <1> HIDE DEF g
  <1>9. \A d \in X : g[d] \in V
    <2> DEFINE Good == {d \in X : g[d] \in V}
    <2>1. Base \subseteq Good
      BY <1>3, <1>8
    <2>2. ASSUME NEW d \in X \ Base, prev[d] \in Good
          PROVE  d \in Good
      <3>1. g[d] = H[d][g[Prior(d)]] /\ g[Prior(d)] \in V /\ d \in X /\ d # first
        BY <1>8, <2>2
      <3>2. g[d] = Onward(g[Prior(d)], d)
        BY <3>1
      <3> QED BY <1>5, <3>1, <3>2
    <2> HIDE DEF Good, Base, prev, rank
    <2>3. X \subseteq Good
      BY <1>6, <2>1, <2>2, RecursionKeeps
    <2> QED BY <2>3 DEF Good
  <1>10. Path(g)
    <2>1. \A d \in X : g[d] = IF d = first THEN Day(schedule, cash, d)
                              ELSE Onward(g[Prior(d)], d)
      <3> SUFFICES ASSUME NEW d \in X, d # first
                   PROVE  g[d] = Onward(g[Prior(d)], d)
        BY <1>8
      <3>1. Prior(d) \in X /\ g[d] = H[d][g[Prior(d)]]
        BY <1>4, <1>8
      <3>2. g[Prior(d)] \in V
        BY <1>9, <3>1
      <3> QED BY <3>1, <3>2
    <2> QED BY <1>8, <2>1
  <1>11. Path(path)
    <2> HIDE DEF Path
    <2> QED BY <1>10
  <1> HIDE DEF path
  <1>12. /\ DOMAIN path = X
         /\ \A d \in X : path[d] = IF d = first THEN Day(schedule, cash, d)
                                   ELSE Onward(path[Prior(d)], d)
    BY <1>11
  <1> HIDE DEF Path
  <1>13. \A d \in X : path[d] \in V
    <2> DEFINE Good == {d \in X : path[d] \in V}
    <2>1. Base \subseteq Good
      BY <1>3, <1>12
    <2>2. ASSUME NEW d \in X \ Base, prev[d] \in Good
          PROVE  d \in Good
      <3>1. path[d] = Onward(path[Prior(d)], d) /\ path[Prior(d)] \in V /\ d \in X /\ d # first
        BY <1>12, <2>2
      <3> QED BY <1>5, <3>1
    <2> HIDE DEF Good, Base, prev, rank
    <2>3. X \subseteq Good
      BY <1>6, <2>1, <2>2, RecursionKeeps
    <2> QED BY <2>3 DEF Good
  <1> QED BY <1>2, <1>12, <1>13 DEF TradesArePaid, PaidDays, V

\* What the backtester makes of the schedule of a run is paid for.
LEMMA SchedulesPay ==
  ASSUME NEW inputs \in Schedulable
  PROVE  PaidFor[inputs]
  <1> DEFINE schedule == ResearchOf[inputs].schedule
             frames == ClosesOf(inputs.prices)
             syms == DOMAIN inputs.prices
  <1>1. PaidFor = [i \in Schedulable |->
                     TradesArePaid(Portfolios(ResearchOf[i].schedule, ClosesOf(i.prices),
                                              DOMAIN i.prices))]
    BY WrittenOut DEF PaidFor
  <1>2. PaidFor[inputs] = TradesArePaid(Portfolios(schedule, frames, syms))
    BY <1>1
  <1>3. FramesOK(frames, syms)
    BY FramesFit
  <1>4. \A d \in DOMAIN schedule : \A s \in syms : schedule[d][s] \in Nat
    <2> DEFINE days == execution_dates(inputs.prices)
    <2>0. schedule = [e \in days |-> [s \in syms |-> portfolio_at(inputs, e).target_weights[s]]]
      BY ScheduleMade
    <2> HIDE DEF schedule, syms, days
    <2>1. \A d \in DOMAIN schedule : \A s \in syms :
            schedule[d][s] = portfolio_at(inputs, d).target_weights[s]
      BY <2>0
    <2>2. ASSUME NEW d \in DOMAIN schedule, NEW s \in syms
          PROVE  schedule[d][s] \in Nat
      <3>1. s \in Symbols
        BY <1>3 DEF FramesOK
      <3>2. portfolio_at(inputs, d).target_weights[s] \in 0..MaxPosition
        BY <3>1, PortfolioFits DEF WeightsOK
      <3> QED BY <2>1, <3>2, ConstraintsAssumption
    <2> QED BY <2>2
  <1> HIDE DEF schedule, frames, syms
  <1> QED BY <1>2, <1>3, <1>4, PathPays

-----------------------------------------------------------------------------
(* Every other step of a run *)

LEMMA BacktestStep ==
  ASSUME NEW r \in Runs, IInv, Backtest(r)
  PROVE  IInv'
  <1>1. RunOK(run[r]) /\ run[r].at = "backtest" /\ UNCHANGED <<dirs, metadata, data>>
    BY DEF Backtest, IInv, RunsOK
  <1> DEFINE x == Backtested(run[r])
             y == [x EXCEPT !.at = "benchmark"]
  <1>2. RunOK(x)
    BY <1>1 DEF Backtested, RunOK, HonestRun, RoundedOnly, RunFields, Nothing
  <1> HIDE DEF x
  <1>3. PICK z : /\ \/ z = y
                    \/ \E over \in OverLimits(run[r].result.topped) :
                         Verdict(r, over) # Accepted /\ z = Refused(run[r], Verdict(r, over), over)
                 /\ run' = [run EXCEPT ![r] = z]
                 /\ \/ z = y /\ load' = [load EXCEPT ![r].at = "look"]
                    \/ load' = load
    BY DEF Backtest, x
  <1>4. RunOK(z) /\ z.at \in {"benchmark", "failed"}
    <2>1. CASE z = y
      BY <1>2, <2>1 DEF RunOK, HonestRun, RoundedOnly, RunFields
    <2>2. ASSUME NEW over \in OverLimits(run[r].result.topped), Verdict(r, over) # Accepted,
                 z = Refused(run[r], Verdict(r, over), over)
          PROVE  RunOK(z) /\ z.at = "failed"
      <3> DEFINE inputs == InputsOf(r)
                 verdict == Verdict(r, over)
                 above == UNION {over[e] : e \in DOMAIN over}
      <3>1. inputs \in Schedulable /\ run[r].result = ResearchOf[inputs]
        BY <1>1 DEF IInv, RunsOK, Computed, InputsOf
      <3>2. /\ over \in OverLimits(ResearchOf[inputs].topped)
            /\ verdict = backtest_verdict(ResearchOf[inputs].schedule, ClosesOf(inputs.prices),
                                          DOMAIN inputs.prices, over)
        BY <2>2, <3>1 DEF Verdict, InputsOf
      <3> HIDE DEF inputs
      <3>3. verdict = "weights" /\ above # {}
        BY <2>2, <3>1, <3>2, OnlyRoundingRefuses
      <3>4. z = [x EXCEPT !.at = "failed", !.refused = verdict, !.over = above]
        BY <2>2 DEF Refused, x
      <3> HIDE DEF verdict, above
      <3> QED BY <1>2, <3>3, <3>4 DEF RunOK, HonestRun, RoundedOnly, RunFields
    <2> QED BY <1>2, <1>3, <2>1, <2>2 DEF RunOK, RunFields
  <1>5. DOMAIN run = Runs /\ DOMAIN load = Runs /\ LoadOK(load[r])
    BY DEF IInv, RunsOK, CacheOK, LoadsOK
  <1>6. DOMAIN run' = Runs /\ \A q \in Runs : run'[q] = IF q = r THEN z ELSE run[q]
    BY <1>3, <1>5
  <1>7. RunsOK'
    BY <1>4, <1>6 DEF IInv, RunsOK, Computed
  <1>8. DOMAIN load' = Runs /\ \A q \in Runs : q # r => load'[q] = load[q]
    BY <1>3, <1>5
  <1>9. LoadOK(load'[r]) /\ load'[r].at = "commit" => load'[r] = load[r]
    BY <1>3, <1>5 DEF LoadOK, LoadFields
  <1>10. LoadOK(load'[r])
    BY <1>3, <1>5 DEF LoadOK, LoadFields, Reported
  <1>11. CacheOK'
    <2>1. ASSUME NEW q \in Runs
          PROVE  /\ LoadOK(load'[q])
                 /\ load'[q].at = "commit" => load'[q] = load[q]
                 /\ Uncommitted(run'[q], load'[q]) => Uncommitted(run[q], load[q])
      <3>1. CASE q = r
        BY <1>1, <1>9, <1>10, <3>1 DEF Uncommitted, Preparing
      <3>2. CASE q # r
        BY <1>6, <1>8, <3>2 DEF IInv, CacheOK, LoadsOK
      <3> QED BY <3>1, <3>2
    <2> QED BY <1>1, <1>8, <2>1, CacheKept DEF IInv
  <1>12. DirsOK'
    BY <1>1, <1>4, <1>6 DEF IInv, DirsOK
  <1> QED BY <1>7, <1>11, <1>12 DEF IInv

LEMMA StartStep ==
  ASSUME NEW r \in Runs, IInv, StartArtifacts(r)
  PROVE  IInv'
  <1> DEFINE status == [outcome |-> IF run[r].reduced \/ ~ load[r].passed
                                    THEN "partial_success" ELSE "success",
                        dated |-> run[r].dated]
             y == [run[r] EXCEPT !.at = "artifacts"]
  <1>1. /\ run[r].at = "benchmark" /\ FinalOf(r) \notin DOMAIN dirs
        /\ UNCHANGED <<metadata, data>>
        /\ dirs' = With(dirs, StagingOf(r), [files |-> {}, status |-> status])
        /\ run' = [run EXCEPT ![r] = y]
        /\ load' = [load EXCEPT ![r] = NotLoading]
    BY DEF StartArtifacts
  <1>2. RunOK(run[r]) /\ DOMAIN run = Runs /\ DOMAIN load = Runs
    BY DEF IInv, RunsOK, CacheOK, LoadsOK
  <1>3. RunOK(y) /\ y.at = "artifacts"
    BY <1>2 DEF RunOK, HonestRun, RoundedOnly, RunFields
  <1>4. [files |-> {}, status |-> status] \in DirectorySet
    BY <1>2 DEF DirectorySet, StatusSet, RunOK
  <1> HIDE DEF y, status
  <1>5. DOMAIN run' = Runs /\ \A q \in Runs : run'[q] = IF q = r THEN y ELSE run[q]
    BY <1>1, <1>2
  <1>6. RunsOK'
    BY <1>3, <1>5 DEF IInv, RunsOK, Computed
  <1>7. DOMAIN load' = Runs /\ \A q \in Runs : load'[q] = IF q = r THEN NotLoading ELSE load[q]
    BY <1>1, <1>2
  <1>8. LoadOK(NotLoading) /\ NotLoading.at = "idle"
    BY DEF NotLoading, LoadOK, LoadFields, Reported
  <1>9. CacheOK'
    <2>1. ASSUME NEW q \in Runs
          PROVE  /\ LoadOK(load'[q])
                 /\ load'[q].at = "commit" => load'[q] = load[q]
                 /\ Uncommitted(run'[q], load'[q]) => Uncommitted(run[q], load[q])
      <3>1. CASE q = r
        BY <1>3, <1>5, <1>7, <1>8, <3>1 DEF Uncommitted, Preparing
      <3>2. CASE q # r
        BY <1>5, <1>7, <3>2 DEF IInv, CacheOK, LoadsOK
      <3> QED BY <3>1, <3>2
    <2> QED BY <1>1, <1>7, <2>1, CacheKept DEF IInv
  <1>10. DirsOK'
    <2>1. /\ StagingOf(r) \in DOMAIN dirs' /\ dirs'[StagingOf(r)] \in DirectorySet
          /\ \A name \in DOMAIN dirs' : name # StagingOf(r) =>
               name \in DOMAIN dirs /\ dirs'[name] = dirs[name]
          /\ DOMAIN dirs \subseteq DOMAIN dirs'
      BY <1>1, <1>4 DEF With
    <2> SUFFICES ASSUME NEW q \in Runs
                 PROVE  /\ run'[q].at = "artifacts" =>
                             /\ StagingOf(q) \in DOMAIN dirs'
                             /\ dirs'[StagingOf(q)] \in DirectorySet
                        /\ FinalOf(q) \in DOMAIN dirs' => run'[q].at = "done"
      BY DEF DirsOK
    <2>2. FinalOf(q) # StagingOf(r)
      BY DEF FinalOf, StagingOf
    <2>3. CASE q = r
      BY <1>1, <2>1, <2>2, <2>3
    <2>4. CASE q # r
      <3>1. StagingOf(q) # StagingOf(r)
        BY <2>4 DEF StagingOf
      <3> QED BY <1>5, <2>1, <2>2, <2>4, <3>1 DEF IInv, DirsOK
    <2> QED BY <2>3, <2>4
  <1> QED BY <1>6, <1>9, <1>10 DEF IInv

\* A step of a run that writes or ends its artifacts, and nothing else.
LEMMA ArtifactStep ==
  ASSUME NEW r \in Runs, IInv, run[r].at = "artifacts", UNCHANGED cacheVars,
         NEW y, RunOK(y), y.at \in {"artifacts", "failed", "done"},
         run' = [run EXCEPT ![r] = y]
  PROVE  /\ RunsOK' /\ CacheOK'
         /\ \A q \in Runs : run'[q] = IF q = r THEN y ELSE run[q]
  <1>1. DOMAIN run = Runs
    BY DEF IInv, RunsOK
  <1>2. DOMAIN run' = Runs /\ \A q \in Runs : run'[q] = IF q = r THEN y ELSE run[q]
    BY <1>1
  <1>3. RunsOK'
    BY <1>2 DEF IInv, RunsOK, Computed
  <1>4. CacheOK'
    <2>1. ASSUME NEW q \in Runs
          PROVE  /\ LoadOK(load'[q])
                 /\ load'[q].at = "commit" => load'[q] = load[q]
                 /\ Uncommitted(run'[q], load'[q]) => Uncommitted(run[q], load[q])
      BY <1>2 DEF IInv, CacheOK, LoadsOK, cacheVars, Uncommitted, Preparing
    <2>2. DOMAIN load' = Runs /\ UNCHANGED <<metadata, data>>
      BY DEF IInv, CacheOK, LoadsOK, cacheVars
    <2> QED BY <2>1, <2>2, CacheKept DEF IInv
  <1> QED BY <1>2, <1>3, <1>4

LEMMA WriteArtifactStep ==
  ASSUME NEW r \in Runs, IInv, WriteArtifact(r)
  PROVE  /\ IInv'
         /\ DOMAIN dirs' = DOMAIN dirs
         /\ \A name \in DOMAIN dirs : name # StagingOf(r) => dirs'[name] = dirs[name]
  <1> DEFINE y == [run[r] EXCEPT !.written = @ + 1]
             file == ArtifactFiles[run[r].written + 1]
  <1>1. /\ run[r].at = "artifacts" /\ run[r].written < Len(ArtifactFiles)
        /\ dirs' = [dirs EXCEPT ![StagingOf(r)].files = @ \cup {file}]
        /\ run' = [run EXCEPT ![r] = y]
        /\ UNCHANGED cacheVars
    BY DEF WriteArtifact
  <1>2. RunOK(run[r])
    BY DEF IInv, RunsOK
  <1>3. RunOK(y) /\ y.at = "artifacts"
    BY <1>1, <1>2 DEF RunOK, HonestRun, RoundedOnly, RunFields
  <1>4. file \in Range(ArtifactFiles)
    BY <1>1, <1>2, RunAssumption DEF Range, RunOK
  <1>5. StagingOf(r) \in DOMAIN dirs /\ dirs[StagingOf(r)] \in DirectorySet
    BY <1>1 DEF IInv, DirsOK
  <1> HIDE DEF y, file
  <1>6. RunsOK' /\ CacheOK' /\ \A q \in Runs : run'[q] = IF q = r THEN y ELSE run[q]
    BY <1>1, <1>3, ArtifactStep
  <1>7. DOMAIN dirs' = DOMAIN dirs
        /\ \A name \in DOMAIN dirs : name # StagingOf(r) => dirs'[name] = dirs[name]
    BY <1>1
  <1>8. dirs'[StagingOf(r)] \in DirectorySet
    BY <1>1, <1>4, <1>5 DEF DirectorySet
  <1>9. DirsOK'
    <2> SUFFICES ASSUME NEW q \in Runs
                 PROVE  /\ run'[q].at = "artifacts" =>
                             /\ StagingOf(q) \in DOMAIN dirs'
                             /\ dirs'[StagingOf(q)] \in DirectorySet
                        /\ FinalOf(q) \in DOMAIN dirs' => run'[q].at = "done"
      BY DEF DirsOK
    <2>1. CASE q = r
      BY <1>1, <1>5, <1>7, <1>8, <2>1 DEF IInv, DirsOK
    <2>2. CASE q # r
      <3>1. StagingOf(q) # StagingOf(r)
        BY <2>2 DEF StagingOf
      <3> QED BY <1>6, <1>7, <2>2, <3>1 DEF IInv, DirsOK
    <2> QED BY <2>1, <2>2
  <1> QED BY <1>6, <1>7, <1>9 DEF IInv

LEMMA DiscardStep ==
  ASSUME NEW r \in Runs, IInv, DiscardArtifacts(r)
  PROVE  /\ IInv'
         /\ DOMAIN dirs' = DOMAIN dirs \ {StagingOf(r)}
         /\ \A name \in DOMAIN dirs' : dirs'[name] = dirs[name]
  <1> DEFINE y == [run[r] EXCEPT !.at = "failed"]
  <1>1. /\ run[r].at = "artifacts" /\ dirs' = Without(dirs, StagingOf(r))
        /\ run' = [run EXCEPT ![r] = y] /\ UNCHANGED cacheVars
    BY DEF DiscardArtifacts
  <1>2. RunOK(y) /\ y.at = "failed"
    BY DEF IInv, RunsOK, RunOK, HonestRun, RoundedOnly, RunFields
  <1> HIDE DEF y
  <1>3. RunsOK' /\ CacheOK' /\ \A q \in Runs : run'[q] = IF q = r THEN y ELSE run[q]
    BY <1>1, <1>2, ArtifactStep
  <1>4. /\ DOMAIN dirs' = DOMAIN dirs \ {StagingOf(r)}
        /\ \A name \in DOMAIN dirs' : dirs'[name] = dirs[name]
    BY <1>1 DEF Without
  <1>5. DirsOK'
    <2> SUFFICES ASSUME NEW q \in Runs
                 PROVE  /\ run'[q].at = "artifacts" =>
                             /\ StagingOf(q) \in DOMAIN dirs'
                             /\ dirs'[StagingOf(q)] \in DirectorySet
                        /\ FinalOf(q) \in DOMAIN dirs' => run'[q].at = "done"
      BY DEF DirsOK
    <2>1. CASE q = r
      BY <1>1, <1>2, <1>3, <1>4, <2>1 DEF IInv, DirsOK
    <2>2. CASE q # r
      <3>1. StagingOf(q) # StagingOf(r)
        BY <2>2 DEF StagingOf
      <3> QED BY <1>3, <1>4, <2>2, <3>1 DEF IInv, DirsOK
    <2> QED BY <2>1, <2>2
  <1> QED BY <1>3, <1>4, <1>5 DEF IInv

LEMMA PublishArtifactsStep ==
  ASSUME NEW r \in Runs, IInv, PublishArtifacts(r)
  PROVE  /\ IInv'
         /\ FinalOf(r) \notin DOMAIN dirs
         /\ DOMAIN dirs' = (DOMAIN dirs \ {StagingOf(r)}) \cup {FinalOf(r)}
         /\ \A name \in DOMAIN dirs' : name # FinalOf(r) => dirs'[name] = dirs[name]
         /\ \E status \in StatusSet :
              dirs'[FinalOf(r)] = [files |-> Range(ArtifactFiles), status |-> status]
  <1> DEFINE y == [run[r] EXCEPT !.at = "done"]
             z == dirs[StagingOf(r)]
  <1>1. /\ run[r].at = "artifacts" /\ Range(ArtifactFiles) \subseteq z.files
        /\ dirs' = With(Without(dirs, StagingOf(r)), FinalOf(r), z)
        /\ run' = [run EXCEPT ![r] = y] /\ UNCHANGED cacheVars
    BY DEF PublishArtifacts
  <1>2. RunOK(y) /\ y.at = "done"
    BY DEF IInv, RunsOK, RunOK, HonestRun, RoundedOnly, RunFields
  <1>3. FinalOf(r) \notin DOMAIN dirs /\ z \in DirectorySet
    BY <1>1 DEF IInv, DirsOK
  <1> HIDE DEF y
  <1>4. RunsOK' /\ CacheOK' /\ \A q \in Runs : run'[q] = IF q = r THEN y ELSE run[q]
    BY <1>1, <1>2, ArtifactStep
  <1> HIDE DEF z
  <1>5. /\ DOMAIN dirs' = (DOMAIN dirs \ {StagingOf(r)}) \cup {FinalOf(r)}
        /\ \A name \in DOMAIN dirs' : name # FinalOf(r) => dirs'[name] = dirs[name]
        /\ dirs'[FinalOf(r)] = z
    BY <1>1 DEF With, Without
  <1>6. \E status \in StatusSet : z = [files |-> Range(ArtifactFiles), status |-> status]
    <2>1. z.files = Range(ArtifactFiles) /\ z.status \in StatusSet
      BY <1>1, <1>3 DEF DirectorySet
    <2>2. z = [files |-> Range(ArtifactFiles), status |-> z.status]
      BY <1>3, <2>1 DEF DirectorySet
    <2> QED BY <2>1, <2>2
  <1>7. DirsOK'
    <2> SUFFICES ASSUME NEW q \in Runs
                 PROVE  /\ run'[q].at = "artifacts" =>
                             /\ StagingOf(q) \in DOMAIN dirs'
                             /\ dirs'[StagingOf(q)] \in DirectorySet
                        /\ FinalOf(q) \in DOMAIN dirs' => run'[q].at = "done"
      BY DEF DirsOK
    <2>1. CASE q = r
      BY <1>2, <1>4, <2>1
    <2>2. CASE q # r
      <3>1. StagingOf(q) # StagingOf(r) /\ FinalOf(q) # FinalOf(r) /\ StagingOf(q) # FinalOf(r)
        BY <2>2 DEF StagingOf, FinalOf
      <3> QED BY <1>4, <1>5, <2>2, <3>1 DEF IInv, DirsOK
    <2> QED BY <2>1, <2>2
  <1> QED BY <1>3, <1>4, <1>5, <1>6, <1>7 DEF IInv

LEMMA CrashStep ==
  ASSUME NEW r \in Runs, IInv, Crash(r)
  PROVE  IInv'
  <1> DEFINE y == [Starting EXCEPT !.at = "crashed"]
  <1>1. /\ run[r].at \notin Ended /\ UNCHANGED <<dirs, metadata, data>>
        /\ run' = [run EXCEPT ![r] = y] /\ load' = [load EXCEPT ![r] = NotLoading]
    BY DEF Crash
  <1>2. RunOK(y) /\ y.at = "crashed"
    BY DEF Starting, Nothing, RunOK, HonestRun, RoundedOnly, RunFields
  <1>3. DOMAIN run = Runs /\ DOMAIN load = Runs
    BY DEF IInv, RunsOK, CacheOK, LoadsOK
  <1> HIDE DEF y
  <1>4. DOMAIN run' = Runs /\ \A q \in Runs : run'[q] = IF q = r THEN y ELSE run[q]
    BY <1>1, <1>3
  <1>5. RunsOK'
    BY <1>2, <1>4 DEF IInv, RunsOK, Computed
  <1>6. DOMAIN load' = Runs /\ \A q \in Runs : load'[q] = IF q = r THEN NotLoading ELSE load[q]
    BY <1>1, <1>3
  <1>7. LoadOK(NotLoading) /\ NotLoading.at = "idle"
    BY DEF NotLoading, LoadOK, LoadFields, Reported
  <1>8. CacheOK'
    <2>1. ASSUME NEW q \in Runs
          PROVE  /\ LoadOK(load'[q])
                 /\ load'[q].at = "commit" => load'[q] = load[q]
                 /\ Uncommitted(run'[q], load'[q]) => Uncommitted(run[q], load[q])
      <3>1. CASE q = r
        BY <1>2, <1>4, <1>6, <1>7, <3>1 DEF Uncommitted, Preparing
      <3>2. CASE q # r
        BY <1>4, <1>6, <3>2 DEF IInv, CacheOK, LoadsOK
      <3> QED BY <3>1, <3>2
    <2> QED BY <1>1, <1>6, <2>1, CacheKept DEF IInv
  <1>9. DirsOK'
    BY <1>1, <1>2, <1>4 DEF IInv, DirsOK, Ended
  <1> QED BY <1>5, <1>8, <1>9 DEF IInv

\* Steps of a run that has not come to its benchmark, and of the benchmark.
LEMMA PreparingStep ==
  ASSUME NEW r \in Runs, IInv, LoadItem(r) \/ BuildSchedule(r)
  PROVE  IInv'
  <1>1. Prepares /\ Others
    BY PreparingSteps DEF IInv
  <1>2. RunsOK'
    BY <1>1 DEF IInv, RunsOK, Prepares, MovesOn
  <1>3. ASSUME NEW q \in Runs
        PROVE  Uncommitted(run'[q], load'[q]) => Uncommitted(run[q], load[q])
    BY <1>1 DEF Prepares, MovesOn, Others, Uncommitted
  <1>4. CacheOK'
    BY <1>1, <1>3, CacheKept DEF IInv, CacheOK, LoadsOK, Others
  <1>5. DirsOK'
    BY <1>1 DEF IInv, DirsOK, Others, Prepares, MovesOn, Preparing
  <1> QED BY <1>2, <1>4, <1>5 DEF IInv

LEMMA BenchmarkStep ==
  ASSUME NEW r \in Runs, IInv, LoadBenchmark(r)
  PROVE  IInv'
  <1>1. UNCHANGED <<run, dirs>>
    BY DEF LoadBenchmark, runVars
  <1>2. CacheOK'
    BY LoadSteps DEF IInv
  <1> QED BY <1>1, <1>2 DEF IInv, RunsOK, DirsOK

-----------------------------------------------------------------------------
(* The theorems *)

LEMMA InitIInv == Init => IInv
  <1> SUFFICES ASSUME Init PROVE IInv
    OBVIOUS
  <1>1. RunOK(Starting) /\ Starting.at = "look"
    BY DEF Starting, Nothing, RunOK, HonestRun, RoundedOnly, RunFields
  <1>2. RunsOK
    BY <1>1 DEF Init, RunsOK, Computed
  <1>3. LoadOK(NotLoading) /\ NotLoading.at = "idle"
    BY DEF NotLoading, LoadOK, LoadFields, Reported
  <1>4. metadata = NoMetadata \/ metadata.file \notin Runs
    BY CacheAssumption DEF Init, CacheInit
  <1>5. CacheOK
    BY <1>3, <1>4 DEF Init, CacheInit, CacheOK, LoadsOK, MetadataNamesItsGeneration
  <1>6. DirsOK
    BY <1>1 DEF Init, DirsOK
  <1> QED BY <1>2, <1>5, <1>6 DEF IInv

LEMMA StepIInv == IInv /\ [Next]_vars => IInv'
  <1> SUFFICES ASSUME IInv, [Next]_vars PROVE IInv'
    OBVIOUS
  <1>1. CASE UNCHANGED vars
    BY <1>1 DEF vars, cacheVars, runVars, IInv, RunsOK, CacheOK, LoadsOK,
                MetadataNamesItsGeneration, DirsOK
  <1>2. ASSUME NEW r \in Runs, Step(r)
        PROVE  IInv'
    BY <1>2, PreparingStep, BenchmarkStep, BacktestStep, StartStep, WriteArtifactStep,
       DiscardStep, PublishArtifactsStep, CrashStep DEF Step
  <1> QED BY <1>1, <1>2 DEF Next

\* The runs, the benchmark cache and the output directory are always as the
\* inductive invariant says, for any number of runs.
THEOREM Invariant == Spec => []IInv
  BY InitIInv, StepIInv, PTL DEF Spec

\* No look-ahead (real_pipeline.py, _build_weight_schedule): the weights and
\* the snapshot of an execution day are those that the bars, reports and
\* macro rows give that were public before it, for any inputs.
THEOREM NothingAhead == Spec => []NoLookAhead
  <1>1. IInv => NoLookAhead
    <2> SUFFICES ASSUME IInv, NEW r \in Runs, run[r].at = "backtest"
                 PROVE  /\ AsKnown(run[r].result.schedule, KnownPortfolios[InputsOf(r)])
                        /\ run[r].result.snapshots = KnownSnapshots[InputsOf(r)]
      BY DEF NoLookAhead
    <2>1. InputsOf(r) \in Schedulable /\ run[r].result = ResearchOf[InputsOf(r)]
      BY DEF IInv, RunsOK, Computed, InputsOf
    <2> QED BY <2>1, ResultAsKnown
  <1> QED BY <1>1, Invariant, PTL

\* The backtester takes every schedule the pipeline builds, but for a weight
\* that rounding put above the limit on a position, and buys nothing with
\* cash that is not there (portfolio_backtester.py, _validate_weights and
\* _rebalance), for any prices, constraints and costs.
THEOREM SchedulesSound == Spec => []BacktestSound
  <1>1. IInv => BacktestSound
    <2> SUFFICES ASSUME IInv, NEW r \in Runs
                 PROVE  /\ RejectedByRounding(r)
                        /\ run[r].at = "backtest" => PaidFor[InputsOf(r)]
      BY DEF BacktestSound
    <2>1. RejectedByRounding(r)
      BY DEF IInv, RunsOK, RunOK, RoundedOnly, RejectedByRounding
    <2>2. run[r].at = "backtest" => InputsOf(r) \in Schedulable
      BY DEF IInv, RunsOK, Computed, InputsOf
    <2> QED BY <2>1, <2>2, SchedulesPay
  <1> QED BY <1>1, Invariant, PTL

\* A run that claims publication dates has used only reports that have them
\* (real_pipeline.py, _point_in_time_status), whatever sidecars it met.
THEOREM PublicationDatesHonest == Spec => []PointInTimeHonest
  <1>1. IInv => PointInTimeHonest
    BY DEF IInv, RunsOK, RunOK, HonestRun, PointInTimeHonest
  <1> QED BY <1>1, Invariant, PTL

\* The committed metadata of the benchmark cache name data that are there
\* and that a reader accepts (index_provider_chain.py), for any number of
\* writers, wherever they fail or crash.
THEOREM MetadataSound == Spec => []MetadataNamesItsGeneration
  <1>1. IInv => MetadataNamesItsGeneration
    BY DEF IInv, CacheOK
  <1> QED BY <1>1, Invariant, PTL

\* What readers of the output directory see.
Seen == [r \in Listed |-> dirs[FinalOf(r)]]

\* Only the publication of a run changes what readers see.
LEMMA SeenKept ==
  ASSUME \A q \in Runs : FinalOf(q) \in DOMAIN dirs' <=> FinalOf(q) \in DOMAIN dirs,
         \A q \in Runs : FinalOf(q) \in DOMAIN dirs => dirs'[FinalOf(q)] = dirs[FinalOf(q)]
  PROVE  Seen' = Seen
  BY DEF Seen, Listed

LEMMA StepSeen ==
  ASSUME IInv, NEW r \in Runs, Step(r)
  PROVE  \/ Seen' = Seen
         \/ \E status \in StatusSet :
              /\ r \notin DOMAIN Seen
              /\ Seen' = [i \in DOMAIN Seen \cup {r} |->
                            IF i = r THEN [files |-> Range(ArtifactFiles), status |-> status]
                            ELSE Seen[i]]
  <1>0. \A q, p \in Runs : FinalOf(q) # StagingOf(p) /\ (FinalOf(q) = FinalOf(p) => q = p)
    BY DEF FinalOf, StagingOf
  <1>1. CASE UNCHANGED dirs
    BY <1>1 DEF Seen, Listed
  <1>2. CASE StartArtifacts(r)
    <2>1. PICK content : dirs' = With(dirs, StagingOf(r), content)
      BY <1>2 DEF StartArtifacts
    <2>2. /\ DOMAIN dirs' = DOMAIN dirs \cup {StagingOf(r)}
          /\ \A name \in DOMAIN dirs : name # StagingOf(r) => dirs'[name] = dirs[name]
      BY <2>1 DEF With
    <2> QED BY <1>0, <2>2, SeenKept
  <1>3. CASE WriteArtifact(r)
    BY <1>0, <1>3, WriteArtifactStep, SeenKept
  <1>4. CASE DiscardArtifacts(r)
    BY <1>0, <1>4, DiscardStep, SeenKept
  <1>5. CASE PublishArtifacts(r)
    <2>1. PICK status \in StatusSet :
            dirs'[FinalOf(r)] = [files |-> Range(ArtifactFiles), status |-> status]
      BY <1>5, PublishArtifactsStep
    <2>2. /\ FinalOf(r) \notin DOMAIN dirs
          /\ DOMAIN dirs' = (DOMAIN dirs \ {StagingOf(r)}) \cup {FinalOf(r)}
          /\ \A name \in DOMAIN dirs' : name # FinalOf(r) => dirs'[name] = dirs[name]
      BY <1>5, PublishArtifactsStep
    <2>3. r \notin Listed /\ Listed' = Listed \cup {r}
      BY <1>0, <2>2 DEF Listed
    <2>4. \A i \in Listed : dirs'[FinalOf(i)] = dirs[FinalOf(i)]
      BY <1>0, <2>2, <2>3 DEF Listed
    <2>5. Seen' = [i \in Listed \cup {r} |->
                     IF i = r THEN [files |-> Range(ArtifactFiles), status |-> status]
                     ELSE Seen[i]]
      BY <2>1, <2>3, <2>4 DEF Seen
    <2> QED BY <2>3, <2>5 DEF Seen
  <1>6. Step(r) => UNCHANGED dirs \/ StartArtifacts(r) \/ WriteArtifact(r)
                   \/ DiscardArtifacts(r) \/ PublishArtifacts(r)
    BY PreparingSteps DEF IInv, Step, Others, Backtest, LoadBenchmark, runVars, Crash
  <1> QED BY <1>1, <1>2, <1>3, <1>4, <1>5, <1>6

\* Runs over one output directory implement RunCatalogue (artifacts.py,
\* run_store.py): only whole runs appear, one by one, and none ever changes.
THEOREM Implements == Spec => ImplementsCatalogue
  <1>1. Init => Catalogue!Init
    BY DEF Init, Catalogue!Init, Listed
  <1>2. ASSUME IInv, NEW r \in Runs, Step(r)
        PROVE  [Catalogue!Next]_Seen
    <2>1. CASE Seen' = Seen
      BY <2>1
    <2>2. ASSUME NEW status \in StatusSet, r \notin DOMAIN Seen,
                 Seen' = [i \in DOMAIN Seen \cup {r} |->
                            IF i = r THEN [files |-> Range(ArtifactFiles), status |-> status]
                            ELSE Seen[i]]
          PROVE  Catalogue!Next
      BY <2>2 DEF Catalogue!Next, Catalogue!Publish, StatusSet, Seen
    <2> QED BY <1>2, <2>1, <2>2, StepSeen
  <1>3. IInv /\ [Next]_vars => [Catalogue!Next]_Seen
    <2>1. UNCHANGED vars => UNCHANGED Seen
      BY DEF vars, runVars, Seen, Listed
    <2> QED BY <1>2, <2>1 DEF Next
  <1>4. IInv /\ [Next]_vars => [Catalogue!Next]_([r \in Listed |-> dirs[FinalOf(r)]])
    BY <1>3 DEF Seen
  <1> QED BY <1>1, <1>4, Invariant, PTL DEF Spec, ImplementsCatalogue, Catalogue!Spec

\* Telling what the files of a run say (RunStore) takes nothing away from the
\* runs: every behaviour with it is one of theirs.
THEOREM RecordsFollow == StoreSpec => Spec
  <1>1. StoreInit => Init
    BY DEF StoreInit
  <1>2. [StoreNext]_<<vars, told>> => [Next]_vars
    BY DEF StoreNext, Untold, TellStarted, Next, Step
  <1> QED BY <1>1, <1>2, PTL DEF StoreSpec, Spec

-----------------------------------------------------------------------------
(* What the files of a run say *)

\* The stages of a run, each a sequence of warnings.
StagesOK(stages) ==
  /\ Len(stages) \in Nat /\ DOMAIN stages = 1..Len(stages)
  /\ \A n \in DOMAIN stages :
       Len(stages[n]) \in Nat /\ DOMAIN stages[n] = 1..Len(stages[n])

MessagesOf(stages) == UNION {TextsOf(stages[n]) : n \in DOMAIN stages}

EarlierPlaces(stages) == {p \in Places(stages) \X Places(stages) : Earlier(p[1], p[2])}

LEMMA PlacesFound ==
  ASSUME NEW stages, StagesOK(stages)
  PROVE  /\ \A n \in DOMAIN stages : \A k \in DOMAIN stages[n] : <<n, k>> \in Places(stages)
         /\ \A p \in Places(stages) :
              /\ p = <<p[1], p[2]>> /\ p[1] \in Nat /\ p[2] \in Nat
              /\ p[1] \in DOMAIN stages /\ p[2] \in DOMAIN stages[p[1]]
         /\ MessagesOf(stages) = {TextAt(stages, p) : p \in Places(stages)}
  <1>1. ASSUME NEW n \in DOMAIN stages, NEW k \in DOMAIN stages[n]
        PROVE  <<n, k>> \in Places(stages)
    BY DEF Places
  <1>2. ASSUME NEW p \in Places(stages)
        PROVE  /\ p = <<p[1], p[2]>> /\ p[1] \in Nat /\ p[2] \in Nat
               /\ p[1] \in DOMAIN stages /\ p[2] \in DOMAIN stages[p[1]]
    <2>1. PICK n \in DOMAIN stages : p \in {n} \X DOMAIN stages[n]
      BY DEF Places
    <2>2. n \in Nat /\ DOMAIN stages[n] \in SUBSET Nat
      BY DEF StagesOK
    <2> QED BY <2>1, <2>2
  <1>3. MessagesOf(stages) = {TextAt(stages, p) : p \in Places(stages)}
    <2>1. ASSUME NEW t \in MessagesOf(stages)
          PROVE  t \in {TextAt(stages, p) : p \in Places(stages)}
      <3>1. PICK n \in DOMAIN stages : t \in TextsOf(stages[n])
        BY DEF MessagesOf
      <3>2. PICK k \in DOMAIN stages[n] : t = stages[n][k].text
        BY <3>1 DEF TextsOf
      <3>3. <<n, k>> \in Places(stages) /\ TextAt(stages, <<n, k>>) = t
        BY <1>1, <3>2 DEF TextAt
      <3> QED BY <3>3
    <2>2. ASSUME NEW p \in Places(stages)
          PROVE  TextAt(stages, p) \in MessagesOf(stages)
      BY <1>2 DEF TextAt, MessagesOf, TextsOf
    <2> QED BY <2>1, <2>2
  <1> QED BY <1>1, <1>2, <1>3

LEMMA PlacesOrdered ==
  ASSUME NEW stages, StagesOK(stages)
  PROVE  /\ IsFiniteSet(Places(stages))
         /\ StrictOrder(Places(stages), EarlierPlaces(stages))
  <1> DEFINE days == DOMAIN stages
             parts == {{n} \X DOMAIN stages[n] : n \in days}
  <1>1. IsFiniteSet(days)
    <2> DEFINE m == Len(stages)
    <2>1. m \in Int /\ days = 1..m
      BY DEF StagesOK
    <2> HIDE DEF m, days
    <2> QED BY <2>1, FS_Interval
  <1>2. ASSUME NEW n \in days
        PROVE  IsFiniteSet({n} \X DOMAIN stages[n])
    <2>1. IsFiniteSet(DOMAIN stages[n])
      <3> DEFINE m == Len(stages[n])
      <3>1. m \in Int /\ DOMAIN stages[n] = 1..m
        BY DEF StagesOK
      <3> HIDE DEF m
      <3> QED BY <3>1, FS_Interval
    <2>2. IsFiniteSet({n})
      BY FS_Singleton
    <2> QED BY <2>1, <2>2, FS_Product
  <1>3. IsFiniteSet(parts)
    <2> DEFINE f == [n \in days |-> {n} \X DOMAIN stages[n]]
    <2>1. f \in Surjection(days, parts)
      BY DEF Surjection
    <2> HIDE DEF f, parts, days
    <2> QED BY <1>1, <2>1, FS_Surjection
  <1>4. \A part \in parts : IsFiniteSet(part)
    BY <1>2
  <1>5. IsFiniteSet(Places(stages))
    <2>1. IsFiniteSet(UNION parts)
      <3> HIDE DEF parts
      <3> QED BY <1>3, <1>4, FS_UNION
    <2> QED BY <2>1 DEF Places
  <1>6. \A p \in Places(stages) : p = <<p[1], p[2]>> /\ p[1] \in Nat /\ p[2] \in Nat
    BY PlacesFound
  <1>7. ASSUME NEW x \in Places(stages), NEW y \in Places(stages), NEW z \in Places(stages)
        PROVE  /\ ~ Earlier(x, x)
               /\ Earlier(x, y) /\ Earlier(y, z) => Earlier(x, z)
               /\ x = y \/ Earlier(x, y) \/ Earlier(y, x)
    BY <1>6 DEF Earlier
  <1>8. \A x, y \in Places(stages) : <<x, y>> \in EarlierPlaces(stages) <=> Earlier(x, y)
    BY DEF EarlierPlaces
  <1> QED BY <1>5, <1>7, <1>8 DEF StrictOrder

LEMMA SomeFirst ==
  ASSUME NEW S, IsFiniteSet(S), NEW before, StrictOrder(S, before), S # {}
  PROVE  \E e \in S : \A f \in S : <<f, e>> \notin before
  <1>1. Cardinality(S) \in Nat /\ Cardinality(S) # 0
    BY FS_CardinalityType, FS_EmptySet
  <1>2. 1 \in 1..Cardinality(S)
    BY <1>1
  <1>3. PICK e \in S : Cardinality({f \in S : <<f, e>> \in before}) = 1 - 1
    BY <1>2, Placed
  <1> DEFINE ahead == {f \in S : <<f, e>> \in before}
  <1>4. IsFiniteSet(ahead)
    <2>1. ahead \in SUBSET S
      OBVIOUS
    <2> HIDE DEF ahead
    <2> QED BY <2>1, FS_Subset
  <1>5. ahead = {}
    <2>1. Cardinality(ahead) = 0
      BY <1>3
    <2> HIDE DEF ahead
    <2> QED BY <1>4, <2>1, FS_EmptySet
  <1> QED BY <1>5

\* Every message is raised for the first time at one place.
LEMMA FirstsOfMessages ==
  ASSUME NEW stages, StagesOK(stages)
  PROVE  LET firsts == FirstRaised(stages)
         IN  /\ firsts \subseteq Places(stages)
             /\ \A t \in MessagesOf(stages) : \E p \in firsts : TextAt(stages, p) = t
             /\ \A p, q \in firsts : TextAt(stages, p) = TextAt(stages, q) => p = q
  <1> DEFINE firsts == FirstRaised(stages)
             before == EarlierPlaces(stages)
  <1>1. firsts \subseteq Places(stages)
    BY DEF FirstRaised
  <1>2. /\ IsFiniteSet(Places(stages)) /\ StrictOrder(Places(stages), before)
        /\ \A x, y \in Places(stages) : <<x, y>> \in before <=> Earlier(x, y)
    BY PlacesOrdered DEF EarlierPlaces
  <1>3. ASSUME NEW t \in MessagesOf(stages)
        PROVE  \E p \in firsts : TextAt(stages, p) = t
    <2> DEFINE S == {p \in Places(stages) : TextAt(stages, p) = t}
    <2>1. S \in SUBSET Places(stages) /\ S # {}
      BY PlacesFound
    <2>2. IsFiniteSet(S)
      <3> HIDE DEF S
      <3> QED BY <1>2, <2>1, FS_Subset
    <2>3. StrictOrder(S, before)
      <3> HIDE DEF S, before
      <3> QED BY <1>2, <2>1 DEF StrictOrder
    <2>4. PICK p \in S : \A q \in S : <<q, p>> \notin before
      <3> HIDE DEF S, before
      <3> QED BY <2>1, <2>2, <2>3, SomeFirst
    <2>5. \A q \in Places(stages) : Earlier(q, p) => TextAt(stages, q) # TextAt(stages, p)
      <3> HIDE DEF before
      <3> QED BY <1>2, <2>4
    <2> QED BY <2>4, <2>5 DEF FirstRaised
  <1>4. ASSUME NEW p \in firsts, NEW q \in firsts, TextAt(stages, p) = TextAt(stages, q)
        PROVE  p = q
    <2>1. p \in Places(stages) /\ q \in Places(stages) /\ ~ Earlier(p, q) /\ ~ Earlier(q, p)
      BY <1>4 DEF FirstRaised
    <2> HIDE DEF before
    <2> QED BY <1>2, <2>1 DEF StrictOrder
  <1> QED BY <1>1, <1>3, <1>4

\* Each message is listed once.
LEMMA EveryMessageOnce ==
  ASSUME NEW stages, StagesOK(stages)
  PROVE  LET raw == authoritative_warnings(stages)
             texts == MessagesOf(stages)
         IN  /\ Cardinality(texts) \in Nat
             /\ raw \in [1..Cardinality(texts) -> texts]
             /\ \A t \in texts : \E k \in DOMAIN raw : raw[k] = t
  <1> DEFINE firsts == FirstRaised(stages)
             texts == MessagesOf(stages)
             before == EarlierPlaces(stages)
             rank == RankOf(firsts, before)
             n == Cardinality(firsts)
             Preceding(p) == {q \in firsts : Earlier(q, p)}
             At(k) == CHOOSE p \in firsts : Cardinality(Preceding(p)) = k - 1
  <1>1. /\ firsts \subseteq Places(stages)
        /\ \A t \in texts : \E p \in firsts : TextAt(stages, p) = t
        /\ \A p, q \in firsts : TextAt(stages, p) = TextAt(stages, q) => p = q
        /\ \A p \in firsts : TextAt(stages, p) \in texts
    BY FirstsOfMessages, PlacesFound
  <1> HIDE DEF firsts, texts
  <1>2. IsFiniteSet(firsts) /\ StrictOrder(firsts, before) /\ n \in Nat
    <2>1. IsFiniteSet(firsts)
      BY <1>1, PlacesOrdered, FS_Subset
    <2>2. StrictOrder(firsts, before)
      BY <1>1, PlacesOrdered DEF StrictOrder
    <2> QED BY <2>1, <2>2, FS_CardinalityType
  <1>3. n = Cardinality(texts)
    <2> DEFINE f == [p \in firsts |-> TextAt(stages, p)]
    <2>1. f \in Surjection(firsts, texts) /\ f \in Injection(firsts, texts)
      BY <1>1, Fun_IsInj DEF Surjection, Injection, IsInjective
    <2> HIDE DEF f
    <2> QED BY <1>2, <2>1, FS_Surjection
  <1>4. \A p, q \in firsts : <<q, p>> \in before <=> Earlier(q, p)
    BY <1>1 DEF EarlierPlaces
  <1>5. \A p \in firsts : Preceding(p) = {q \in firsts : <<q, p>> \in before}
    BY <1>4
  <1> HIDE DEF before
  <1>6. \A p \in firsts : IsFiniteSet(Preceding(p)) /\ Cardinality(Preceding(p)) \in Nat
    <2> SUFFICES ASSUME NEW p \in firsts
                 PROVE  IsFiniteSet(Preceding(p)) /\ Cardinality(Preceding(p)) \in Nat
      OBVIOUS
    <2>1. Preceding(p) \in SUBSET firsts
      OBVIOUS
    <2> HIDE DEF Preceding
    <2> QED BY <1>2, <2>1, FS_Subset, FS_CardinalityType
  <1>7. /\ \A p \in firsts : rank[p] \in 1..n /\ rank[p] = Cardinality(Preceding(p)) + 1
        /\ \A p, q \in firsts : rank[p] = rank[q] => p = q
        /\ \A k \in 1..n : \E p \in firsts : rank[p] = k
    <2>1. /\ rank \in [firsts -> 1..n]
          /\ \A p, q \in firsts : rank[p] = rank[q] => p = q
          /\ \A k \in 1..n : \E p \in firsts : rank[p] = k
      BY <1>2, Ranks
    <2>2. \A p \in firsts : rank[p] = Cardinality(Preceding(p)) + 1
      BY <1>5 DEF RankOf
    <2> HIDE DEF rank, n, Preceding
    <2> QED BY <2>1, <2>2
  <1> HIDE DEF rank, Preceding
  <1>8. ASSUME NEW k \in 1..n
        PROVE  At(k) \in firsts /\ rank[At(k)] = k
    <2>1. PICK p \in firsts : rank[p] = k
      BY <1>7
    <2>2. Cardinality(Preceding(p)) = k - 1
      <3> HIDE DEF n
      <3> QED BY <1>2, <1>6, <1>7, <2>1
    <2>3. At(k) \in firsts /\ Cardinality(Preceding(At(k))) = k - 1
      BY <2>2
    <2> HIDE DEF n, At
    <2> QED BY <1>2, <1>7, <2>3
  <1> DEFINE raw == authoritative_warnings(stages)
  <1>9. raw = [k \in 1..n |-> TextAt(stages, At(k))]
    BY DEF authoritative_warnings, firsts, Preceding
  <1> HIDE DEF At, raw
  <1>10. raw \in [1..n -> texts]
    BY <1>1, <1>8, <1>9
  <1>11. ASSUME NEW t \in texts
         PROVE  \E k \in DOMAIN raw : raw[k] = t
    <2>1. PICK p \in firsts : TextAt(stages, p) = t
      BY <1>1
    <2>2. rank[p] \in 1..n /\ At(rank[p]) = p
      BY <1>7, <1>8
    <2>3. rank[p] \in DOMAIN raw /\ raw[rank[p]] = t
      BY <1>9, <2>1, <2>2
    <2> QED BY <2>3
  <1>12. Cardinality(texts) \in Nat /\ raw \in [1..Cardinality(texts) -> texts]
    <2> HIDE DEF n
    <2> QED BY <1>2, <1>3, <1>10
  <1> QED BY <1>11, <1>12 DEF raw, texts

\* What the collector holds after n stages.
HeldAfter(stages, n) ==
  LET raised == {t \in MessagesOf(stages) : FirstStage(stages, t) <= n}
  IN  [known |-> [t \in {u \in raised : Classed(stages, u)} |-> ClassOf(stages, t)],
       unclassified |-> {t \in raised : ~ Classed(stages, t)}]

LEMMA LeastOf ==
  ASSUME NEW T \in SUBSET Nat, T # {}
  PROVE  Min(T) \in T /\ \A y \in T : Min(T) <= y
  BY NatMinimum DEF Min

LEMMA FirstStages ==
  ASSUME NEW stages, StagesOK(stages), NEW t \in MessagesOf(stages)
  PROVE  LET n == FirstStage(stages, t)
         IN  /\ n \in DOMAIN stages /\ n \in Nat /\ t \in TextsOf(stages[n])
             /\ \A m \in DOMAIN stages : t \in TextsOf(stages[m]) => n <= m
             /\ Classed(stages, t) <=> Accepting(stages[n], t) # {}
  <1> DEFINE raising == {n \in DOMAIN stages : t \in TextsOf(stages[n])}
  <1>1. raising \in SUBSET Nat /\ raising # {}
    BY DEF StagesOK, MessagesOf
  <1>2. Min(raising) \in raising /\ \A m \in raising : Min(raising) <= m
    <2> HIDE DEF raising
    <2> QED BY <1>1, LeastOf
  <1>3. FirstStage(stages, t) = Min(raising)
    BY DEF FirstStage
  <1>4. Classed(stages, t) <=> Accepting(stages[Min(raising)], t) # {}
    BY <1>3 DEF Classed, Accepting
  <1> QED BY <1>1, <1>2, <1>3, <1>4

\* A stage adds the messages it is the first to raise.
LEMMA StageCollected ==
  ASSUME NEW stages, StagesOK(stages), NEW n \in 1..Len(stages)
  PROVE  commit_stage(HeldAfter(stages, n - 1), stages[n]) = HeldAfter(stages, n)
  <1> DEFINE texts == MessagesOf(stages)
             F(t) == FirstStage(stages, t)
             stage == stages[n]
             old == {t \in texts : F(t) <= n - 1}
             all == {t \in texts : F(t) <= n}
             new == {t \in texts : F(t) = n}
             known == [t \in {u \in old : Classed(stages, u)} |-> ClassOf(stages, t)]
             unclassified == {t \in old : ~ Classed(stages, t)}
             classified == {t \in new : Accepting(stage, t) # {}}
  <1>1. n \in DOMAIN stages /\ n \in Nat
    BY DEF StagesOK
  <1>2. \A t \in texts : F(t) \in Nat /\ t \in TextsOf(stages[F(t)])
    BY FirstStages
  <1>3. \A t \in TextsOf(stage) : t \in texts /\ F(t) <= n
    BY <1>1, FirstStages DEF MessagesOf
  <1>4. \A t \in new : Classed(stages, t) <=> Accepting(stage, t) # {}
    BY FirstStages
  <1>5. DOMAIN known \cup unclassified = old
    OBVIOUS
  <1> HIDE DEF F, texts
  <1>6. TextsOf(stage) \ old = new /\ all = old \cup new /\ old \cap new = {}
    BY <1>1, <1>2, <1>3
  <1>7. TextsOf(stage) \ (DOMAIN known \cup unclassified) = new
    BY <1>5, <1>6
  <1>8. HeldAfter(stages, n - 1) = [known |-> known, unclassified |-> unclassified]
    BY DEF HeldAfter, texts, F
  <1>9. HeldAfter(stages, n) =
          [known |-> [t \in {u \in all : Classed(stages, u)} |-> ClassOf(stages, t)],
           unclassified |-> {t \in all : ~ Classed(stages, t)}]
    BY DEF HeldAfter, texts, F
  <1>10. \A t \in classified : stage[Min(Accepting(stage, t))].meta = ClassOf(stages, t)
    BY DEF ClassOf, F
  <1>11. DOMAIN known = {u \in old : Classed(stages, u)}
    OBVIOUS
  <1>12. \A t \in DOMAIN known : known[t] = ClassOf(stages, t)
    OBVIOUS
  <1> HIDE DEF known, all, old, new
  <1>13. DOMAIN known \cup classified = {u \in all : Classed(stages, u)}
    BY <1>4, <1>6, <1>11
  <1>14. Recorded(known, stage, classified)
           = [t \in {u \in all : Classed(stages, u)} |-> ClassOf(stages, t)]
    BY <1>10, <1>12, <1>13 DEF Recorded
  <1>15. unclassified \cup (new \ classified) = {t \in all : ~ Classed(stages, t)}
    BY <1>4, <1>6
  <1> DEFINE collector == [known |-> known, unclassified |-> unclassified]
  <1>16. collector.known = known /\ collector.unclassified = unclassified
    OBVIOUS
  <1> HIDE DEF collector, unclassified
  <1>17. commit_stage(collector, stage)
           = [known |-> Recorded(known, stage, classified),
              unclassified |-> unclassified \cup (new \ classified)]
    BY <1>7, <1>16 DEF commit_stage
  <1> QED BY <1>8, <1>9, <1>14, <1>15, <1>17 DEF collector

LEMMA AllCollected ==
  ASSUME NEW stages, StagesOK(stages)
  PROVE  collected(stages) = HeldAfter(stages, Len(stages))
  <1> DEFINE N == Len(stages)
             Is(f) == f = [n \in 0..N |->
                             IF n = 0 THEN Collector
                             ELSE commit_stage(f[n - 1], stages[n])]
             f == CHOOSE f : Is(f)
             g == [n \in 0..N |-> HeldAfter(stages, n)]
  <1>1. N \in Nat
    BY DEF StagesOK
  <1>2. HeldAfter(stages, 0) = Collector
    <2>1. {t \in MessagesOf(stages) : FirstStage(stages, t) <= 0} = {}
      BY FirstStages DEF StagesOK
    <2> QED BY <2>1 DEF HeldAfter, Collector, Nothing
  <1>3. \A n \in 1..N : commit_stage(HeldAfter(stages, n - 1), stages[n]) = HeldAfter(stages, n)
    BY StageCollected
  <1> HIDE DEF N
  <1>4. Is(g)
    BY <1>1, <1>2, <1>3
  <1> HIDE DEF g
  <1>5. Is(f)
    BY <1>4
  <1> HIDE DEF f
  <1> DEFINE Good == {n \in 0..N : f[n] = HeldAfter(stages, n)}
  <1>6. 0 \in Good
    BY <1>1, <1>2, <1>5
  <1>7. ASSUME NEW n \in 1..N, n - 1 \in Good
        PROVE  n \in Good
    BY <1>1, <1>3, <1>5, <1>7
  <1>8. 0..N \subseteq Good
    <2> HIDE DEF Good
    <2> QED BY <1>1, <1>6, <1>7, UpTo
  <1>9. f[N] = HeldAfter(stages, N)
    BY <1>1, <1>8
  <1>10. collected(stages) = f[N]
    BY DEF collected, f, N
  <1> QED BY <1>9, <1>10 DEF N

LEMMA Lengths ==
  ASSUME NEW S, NEW s \in Seq(S)
  PROVE  Len(s) \in Nat /\ DOMAIN s = 1..Len(s) /\ \A k \in DOMAIN s : s[k] \in S
  OBVIOUS

LEMMA Concatenated ==
  ASSUME NEW S, NEW s \in Seq(S), NEW t \in Seq(S)
  PROVE  /\ s \o t \in Seq(S)
         /\ Len(s \o t) = Len(s) + Len(t)
         /\ \A k \in 1..(Len(s) + Len(t)) :
              (s \o t)[k] = IF k <= Len(s) THEN s[k] ELSE t[k - Len(s)]
  OBVIOUS

LEMMA FailedCounted ==
  ASSUME NEW l, Reported(l), NEW role
  PROVE  FailedOf(l, role) \in Nat
  <1> DEFINE m == Len(l.attempts)
             failed == {k \in DOMAIN l.attempts :
                          l.attempts[k].role = role /\ l.attempts[k].reason # "success"}
  <1>1. m \in Int /\ DOMAIN l.attempts = 1..m
    BY DEF Reported
  <1>2. IsFiniteSet(1..m)
    <2> HIDE DEF m
    <2> QED BY <1>1, FS_Interval
  <1>3. failed \in SUBSET (1..m)
    BY <1>1
  <1>4. Cardinality(failed) \in Nat
    <2> HIDE DEF failed, m
    <2> QED BY <1>2, <1>3, FS_Subset, FS_CardinalityType
  <1> QED BY <1>4 DEF FailedOf

\* The messages of a load, in the order of their causes.
LEMMA LoadWarnings ==
  ASSUME NEW l, Reported(l)
  PROVE  LET texts == load_warnings(l)
             c == FailedOf(l, "cache")
             p == FailedOf(l, "provider")
         IN  /\ Len(texts) \in Nat /\ DOMAIN texts = 1..Len(texts)
             /\ \A k \in DOMAIN texts :
                  texts[k] = IF k <= c THEN "cache_rejected"
                             ELSE IF k <= c + p THEN "provider_failed"
                             ELSE "write_failed"
             /\ \A k \in DOMAIN texts : k > c + p => l.status = "write_failed"
  <1> DEFINE c == FailedOf(l, "cache")
             p == FailedOf(l, "provider")
             Texts == {"cache_rejected", "provider_failed", "write_failed"}
             rejected == [k \in 1..c |-> "cache_rejected"]
             failed == [k \in 1..p |-> "provider_failed"]
             unwritten == IF l.status = "write_failed" THEN <<"write_failed">> ELSE <<>>
             first == rejected \o failed
             texts == first \o unwritten
  <1>1. c \in Nat /\ p \in Nat
    BY FailedCounted
  <1> HIDE DEF c, p
  <1>2. /\ rejected \in Seq(Texts) /\ failed \in Seq(Texts)
        /\ Len(rejected) = c /\ Len(failed) = p
    BY <1>1
  <1>3. /\ unwritten \in Seq(Texts) /\ Len(unwritten) \in {0, 1}
        /\ \A k \in 1..Len(unwritten) : unwritten[k] = "write_failed"
        /\ Len(unwritten) = 1 => l.status = "write_failed"
    <2>1. CASE l.status = "write_failed"
      <3>1. unwritten = <<"write_failed">>
        BY <2>1
      <3> QED BY <2>1, <3>1
    <2>2. CASE l.status # "write_failed"
      <3>1. unwritten = <<>>
        BY <2>2
      <3> QED BY <3>1
    <2> QED BY <2>1, <2>2
  <1>4. /\ \A k \in 1..c : rejected[k] = "cache_rejected"
        /\ \A k \in 1..p : failed[k] = "provider_failed"
    OBVIOUS
  <1> HIDE DEF rejected, failed, unwritten, Texts
  <1>5. /\ first \in Seq(Texts) /\ Len(first) = c + p
        /\ \A k \in 1..(c + p) : first[k] = IF k <= c THEN "cache_rejected"
                                            ELSE "provider_failed"
    <2>1. /\ first \in Seq(Texts) /\ Len(first) = c + p
          /\ \A k \in 1..(c + p) : first[k] = IF k <= c THEN rejected[k] ELSE failed[k - c]
      BY <1>2, Concatenated
    <2>2. ASSUME NEW k \in 1..(c + p)
          PROVE  first[k] = IF k <= c THEN "cache_rejected" ELSE "provider_failed"
      <3>1. CASE k <= c
        BY <1>1, <1>4, <2>1, <3>1
      <3>2. CASE ~ (k <= c)
        <4>1. k - c \in 1..p /\ first[k] = failed[k - c]
          BY <1>1, <2>1, <3>2
        <4> QED BY <1>4, <3>2, <4>1
      <3> QED BY <3>1, <3>2
    <2> HIDE DEF first
    <2> QED BY <2>1, <2>2
  <1> HIDE DEF first
  <1>6. /\ texts \in Seq(Texts) /\ Len(texts) = c + p + Len(unwritten)
        /\ \A k \in 1..Len(texts) : texts[k] = IF k <= c + p THEN first[k]
                                               ELSE "write_failed"
    <2> DEFINE w == Len(unwritten)
    <2>1. /\ texts \in Seq(Texts) /\ Len(texts) = c + p + w
          /\ \A k \in 1..(c + p + w) :
               texts[k] = IF k <= c + p THEN first[k] ELSE unwritten[k - (c + p)]
      <3> DEFINE n == Len(first)
      <3>1. first \in Seq(Texts) /\ unwritten \in Seq(Texts)
        BY <1>3, <1>5
      <3>2. /\ texts \in Seq(Texts) /\ Len(texts) = n + w
            /\ \A k \in 1..(n + w) :
                 texts[k] = IF k <= n THEN first[k] ELSE unwritten[k - n]
        BY <3>1, Concatenated
      <3>3. n = c + p
        BY <1>5
      <3> HIDE DEF n, w, texts
      <3> QED BY <3>2, <3>3
    <2> HIDE DEF texts
    <2>2. ASSUME NEW k \in 1..(c + p + w), ~ (k <= c + p)
          PROVE  texts[k] = "write_failed"
      <3>1. w \in {0, 1} /\ \A n \in 1..w : unwritten[n] = "write_failed"
        BY <1>3
      <3> HIDE DEF w
      <3>2. k - (c + p) \in 1..w
        BY <1>1, <2>2, <3>1
      <3> QED BY <2>1, <2>2, <3>1, <3>2
    <2> HIDE DEF w
    <2>3. \A k \in 1..(c + p + w) : texts[k] = IF k <= c + p THEN first[k] ELSE "write_failed"
      BY <2>1, <2>2
    <2> QED BY <2>1, <2>3 DEF w
  <1>7. texts = load_warnings(l)
    BY DEF load_warnings, first, rejected, failed, unwritten, c, p
  <1> HIDE DEF texts
  <1>8. Len(texts) \in Nat /\ DOMAIN texts = 1..Len(texts)
    BY <1>6, Lengths
  <1>9. \A k \in DOMAIN texts :
          /\ texts[k] = IF k <= c THEN "cache_rejected"
                        ELSE IF k <= c + p THEN "provider_failed" ELSE "write_failed"
          /\ k > c + p => l.status = "write_failed"
    <2> SUFFICES ASSUME NEW k \in DOMAIN texts
                 PROVE  /\ texts[k] = IF k <= c THEN "cache_rejected"
                                      ELSE IF k <= c + p THEN "provider_failed"
                                      ELSE "write_failed"
                        /\ k > c + p => l.status = "write_failed"
      OBVIOUS
    <2> DEFINE w == Len(unwritten)
               n == Len(texts)
    <2>1. w \in {0, 1} /\ (w = 1 => l.status = "write_failed")
      BY <1>3
    <2>2. n = c + p + w /\ n \in Nat /\ k \in 1..n
      BY <1>6, <1>8
    <2>3. /\ texts[k] = IF k <= c + p THEN first[k] ELSE "write_failed"
          /\ k <= c + p => first[k] = IF k <= c THEN "cache_rejected" ELSE "provider_failed"
      <3>1. texts[k] = IF k <= c + p THEN first[k] ELSE "write_failed"
        BY <1>6, <1>8
      <3>2. k <= c + p => k \in 1..(c + p)
        BY <1>1, <2>2
      <3> QED BY <1>5, <3>1, <3>2
    <2> HIDE DEF w, n
    <2>4. k \in Nat /\ (k <= c => k <= c + p)
      BY <1>1, <2>2
    <2>5. k > c + p => l.status = "write_failed"
      BY <1>1, <2>1, <2>2
    <2>6. texts[k] = IF k <= c THEN "cache_rejected"
                     ELSE IF k <= c + p THEN "provider_failed" ELSE "write_failed"
      BY <2>3, <2>4
    <2> QED BY <2>5, <2>6
  <1> QED BY <1>7, <1>8, <1>9 DEF c, p, texts

\* Every warning of a benchmark is under the class of its cause.
LEMMA StageClassed ==
  ASSUME NEW l, Reported(l)
  PROVE  LET stage == benchmark_stage(l)
         IN  /\ Len(stage) \in Nat /\ DOMAIN stage = 1..Len(stage)
             /\ \A k \in DOMAIN stage :
                  /\ stage[k] = [text |-> stage[k].text, meta |-> stage[k].meta]
                  /\ RightClass(stage[k].text, stage[k].meta, l)
  <1> DEFINE texts == load_warnings(l)
             classes == attempt_warnings(l)
             c == FailedOf(l, "cache")
             p == FailedOf(l, "provider")
             Right == {w \in [text : {<<texts[k], k>> : k \in DOMAIN texts}
                                       \cup {<<"unavailable", 0>>},
                              meta : {classes[k] : k \in DOMAIN texts}
                                       \cup {[code |-> "DATA_UNAVAILABLE",
                                              source |-> "benchmark_provider_chain"]}] :
                         RightClass(w.text, w.meta, l)}
             loaded == [k \in DOMAIN texts |-> [text |-> <<texts[k], k>>,
                                                meta |-> classes[k]]]
             missing == IF l.passed THEN <<>>
                        ELSE <<[text |-> <<"unavailable", 0>>,
                                meta |-> [code |-> "DATA_UNAVAILABLE",
                                          source |-> "benchmark_provider_chain"]]>>
  <1>1. c \in Nat /\ p \in Nat
    BY FailedCounted
  <1>2. /\ Len(texts) \in Nat /\ DOMAIN texts = 1..Len(texts)
        /\ \A k \in DOMAIN texts :
             /\ texts[k] = IF k <= c THEN "cache_rejected"
                           ELSE IF k <= c + p THEN "provider_failed" ELSE "write_failed"
             /\ k > c + p => l.status = "write_failed"
    BY LoadWarnings
  <1>3. \A k \in DOMAIN texts :
          classes[k] =
            IF k <= c \/ (k > c + p /\ l.status = "write_failed")
            THEN [code |-> "CACHE_REJECTED", source |-> "benchmark_cache"]
            ELSE [code |-> IF l.passed THEN "FALLBACK_USED" ELSE "DATA_UNAVAILABLE",
                  source |-> "benchmark_provider_chain"]
    BY <1>1, <1>2 DEF attempt_warnings
  <1>4. l.passed \in BOOLEAN /\ (l.passed <=> l.frame # <<>>)
    BY DEF Reported
  <1> HIDE DEF texts, classes, c, p
  <1>5. ASSUME NEW k \in DOMAIN texts
        PROVE  RightClass(<<texts[k], k>>, classes[k], l)
    <2>1. k \in Nat
      BY <1>2
    <2>2. CASE k <= c
      BY <1>2, <1>3, <2>2 DEF RightClass
    <2>3. CASE ~(k <= c) /\ k <= c + p
      <3>1. texts[k] = "provider_failed" /\ ~(k > c + p)
        BY <1>1, <1>2, <2>1, <2>3
      <3>2. classes[k] = [code |-> IF l.passed THEN "FALLBACK_USED" ELSE "DATA_UNAVAILABLE",
                          source |-> "benchmark_provider_chain"]
        BY <1>3, <2>3, <3>1
      <3> QED BY <1>4, <3>1, <3>2 DEF RightClass
    <2>4. CASE ~(k <= c) /\ ~(k <= c + p)
      <3>1. texts[k] = "write_failed" /\ k > c + p /\ l.status = "write_failed"
        BY <1>1, <1>2, <2>1, <2>4
      <3>2. classes[k] = [code |-> "CACHE_REJECTED", source |-> "benchmark_cache"]
        BY <1>3, <3>1
      <3> QED BY <3>1, <3>2 DEF RightClass
    <2> QED BY <2>2, <2>3, <2>4
  <1>6. ~ l.passed =>
          RightClass(<<"unavailable", 0>>, [code |-> "DATA_UNAVAILABLE",
                                            source |-> "benchmark_provider_chain"], l)
    BY <1>4 DEF RightClass
  <1>7. loaded \in Seq(Right) /\ missing \in Seq(Right)
    <2>1. \A k \in DOMAIN texts : loaded[k] \in Right
      BY <1>5
    <2>2. loaded \in Seq(Right)
      <3> HIDE DEF Right
      <3> QED BY <1>2, <2>1
    <2>3. missing \in Seq(Right)
      BY <1>6
    <2> QED BY <2>2, <2>3
  <1>8. \A w \in Right : w = [text |-> w.text, meta |-> w.meta] /\ RightClass(w.text, w.meta, l)
    OBVIOUS
  <1>9. benchmark_stage(l) = loaded \o missing
    BY DEF benchmark_stage, texts, classes
  <1> HIDE DEF loaded, missing, Right
  <1>10. loaded \o missing \in Seq(Right)
    BY <1>7
  <1> DEFINE stage == benchmark_stage(l)
  <1>11. stage \in Seq(Right)
    BY <1>9, <1>10
  <1> HIDE DEF stage
  <1>12. /\ Len(stage) \in Nat /\ DOMAIN stage = 1..Len(stage)
         /\ \A k \in DOMAIN stage : stage[k] \in Right
    BY <1>11
  <1> QED BY <1>8, <1>12 DEF stage

\* What the stages before the benchmark may warn of.
EarlierWarnings == {context.warnings : context \in Contexts}

LEMMA StagesTogether ==
  ASSUME NEW earlier \in EarlierWarnings, NEW stage, NEW refused,
         Len(stage) \in Nat, DOMAIN stage = 1..Len(stage)
  PROVE  LET stages == StagesOf(earlier, stage, refused)
             last == [k \in DOMAIN stage |->
                        IF k = refused THEN [stage[k] EXCEPT !.meta = NoMeta] ELSE stage[k]]
         IN  StagesOK(stages) /\ Len(stages) # 0 /\ stages[Len(stages)] = last
  <1> DEFINE stages == StagesOf(earlier, stage, refused)
             last == [k \in DOMAIN stage |->
                        IF k = refused THEN [stage[k] EXCEPT !.meta = NoMeta] ELSE stage[k]]
             S == Range(earlier) \cup {last}
             m == Len(earlier)
  <1>1. earlier \in Seq(Range(earlier)) /\ \A s \in Range(earlier) : s \in Seq(Range(s))
    BY StoreAssumption DEF EarlierWarnings
  <1>2. Len(last) \in Nat /\ DOMAIN last = 1..Len(last)
    <2> DEFINE n == Len(stage)
               at(k) == IF k = refused THEN [stage[k] EXCEPT !.meta = NoMeta] ELSE stage[k]
    <2>1. last = [k \in 1..n |-> at(k)] /\ n \in Nat
      OBVIOUS
    <2> HIDE DEF n, at, last
    <2> QED BY <2>1
  <1>3. \A s \in S : Len(s) \in Nat /\ DOMAIN s = 1..Len(s)
    <2> HIDE DEF last
    <2> QED BY <1>1, <1>2
  <1>4. stages = Append(earlier, last)
    BY DEF StagesOf
  <1> HIDE DEF last, stages
  <1>5. earlier \in Seq(S) /\ last \in S
    BY <1>1
  <1> HIDE DEF S
  <1>6. stages \in Seq(S) /\ Len(stages) = m + 1 /\ m \in Nat /\ stages[m + 1] = last
    BY <1>4, <1>5
  <1>7. Len(stages) \in Nat /\ DOMAIN stages = 1..Len(stages) /\ \A n \in DOMAIN stages : stages[n] \in S
    BY <1>6, Lengths
  <1>8. StagesOK(stages)
    BY <1>3, <1>7 DEF StagesOK
  <1>9. Len(stages) # 0 /\ stages[Len(stages)] = last
    <2> DEFINE n == Len(stages)
    <2>1. n = m + 1 /\ m \in Nat /\ stages[m + 1] = last
      BY <1>6
    <2> HIDE DEF n, m
    <2>2. n # 0 /\ stages[n] = last
      BY <2>1
    <2> QED BY <2>2 DEF n
  <1> QED BY <1>8, <1>9 DEF stages, last

\* A message that only the benchmark raised is under the class of its cause,
\* if it has one at all.
LEMMA BenchmarkClassed ==
  ASSUME NEW l, Reported(l), NEW earlier \in EarlierWarnings, NEW refused,
         NEW stages, stages = StagesOf(earlier, benchmark_stage(l), refused),
         NEW t \in MessagesOf(stages), Classed(stages, t), OfBenchmark(stages, t)
  PROVE  RightClass(t, ClassOf(stages, t), l)
  <1> DEFINE stage == benchmark_stage(l)
             last == [k \in DOMAIN stage |->
                        IF k = refused THEN [stage[k] EXCEPT !.meta = NoMeta] ELSE stage[k]]
             F == FirstStage(stages, t)
             N == Len(stages)
  <1>1. /\ Len(stage) \in Nat /\ DOMAIN stage = 1..Len(stage)
        /\ \A k \in DOMAIN stage :
             /\ stage[k] = [text |-> stage[k].text, meta |-> stage[k].meta]
             /\ RightClass(stage[k].text, stage[k].meta, l)
    BY StageClassed
  <1> HIDE DEF stage
  <1>2. StagesOK(stages) /\ N # 0 /\ stages[N] = last
    BY <1>1, StagesTogether DEF stage
  <1>3. DOMAIN stages = 1..N /\ N \in Nat
    BY <1>2 DEF StagesOK
  <1>4. /\ F \in DOMAIN stages /\ t \in TextsOf(stages[F])
        /\ Accepting(stages[F], t) # {}
    BY <1>2, FirstStages
  <1> HIDE DEF F, N, last
  <1>5. F = N
    <2>1. ~ (F < N)
      BY <1>4 DEF OfBenchmark, N
    <2> QED BY <1>3, <1>4, <2>1
  <1> DEFINE T == Accepting(last, t)
  <1>6. T \in SUBSET Nat /\ T # {}
    BY <1>1, <1>2, <1>4, <1>5 DEF Accepting, last
  <1>7. Min(T) \in T
    <2> HIDE DEF T
    <2> QED BY <1>6, LeastOf
  <1>8. PICK k \in DOMAIN stage : k = Min(T) /\ last[k].text = t /\ last[k].meta # NoMeta
    BY <1>7 DEF Accepting, last
  <1>9. k # refused
    <2> SUFFICES ASSUME k = refused PROVE last[k].meta = NoMeta
      BY <1>8
    <2>1. last[k] = [[text |-> stage[k].text, meta |-> stage[k].meta] EXCEPT !.meta = NoMeta]
      BY <1>1 DEF last
    <2> QED BY <2>1
  <1>10. last[k] = stage[k]
    BY <1>9 DEF last
  <1>11. ClassOf(stages, t) = last[k].meta
    BY <1>2, <1>5, <1>8 DEF ClassOf, F
  <1> QED BY <1>1, <1>8, <1>10, <1>11

\* The diagnostics are as the readers want them.
LEMMA DiagnosticAccepted ==
  ASSUME NEW l, l.attempts \in Seq(Range(l.attempts))
  PROVE  bound_diagnostic(benchmark_diagnostic(l))
  <1> DEFINE d == benchmark_diagnostic(l)
             n == Len(l.attempts)
             m == IF MaxAttempts <= n THEN MaxAttempts ELSE n
  <1>1. n \in Nat /\ l.attempts \in Seq(Range(l.attempts))
    OBVIOUS
  <1>2. MaxAttempts \in Nat /\ MaxPublicAttempts = MaxAttempts
    BY StoreAssumption
  <1>3. \A a, b \in Nat : Min({a, b}) = IF a <= b THEN a ELSE b
    <2> SUFFICES ASSUME NEW a \in Nat, NEW b \in Nat
                 PROVE  Min({a, b}) = IF a <= b THEN a ELSE b
      OBVIOUS
    <2>1. Min({a, b}) \in {a, b} /\ \A y \in {a, b} : Min({a, b}) <= y
      BY LeastOf
    <2> QED BY <2>1
  <1>4. Min({MaxAttempts, n}) = m
    BY <1>1, <1>2, <1>3
  <1>5. m \in Nat /\ m <= n /\ m <= MaxAttempts
    BY <1>1, <1>2
  <1>6. Len(SubSeq(l.attempts, 1, m)) = m
    BY <1>1, <1>5
  <1>7. /\ d.attempts_total = n /\ Len(d.attempts) = m
        /\ d.attempts_truncated = (n > MaxAttempts)
        /\ d.omitted_count = n - m
    BY <1>4, <1>6 DEF benchmark_diagnostic
  <1>8. d.attempts = SubSeq(l.attempts, 1, m)
    BY <1>4 DEF benchmark_diagnostic
  <1>9. d.attempts \in Seq(Range(l.attempts))
    BY <1>1, <1>5, <1>8
  <1> HIDE DEF d
  <1> DEFINE published == SubSeq(d.attempts, 1, Min({MaxPublicAttempts, Len(d.attempts)}))
  <1>10. Min({MaxPublicAttempts, Len(d.attempts)}) = m
    BY <1>2, <1>3, <1>5, <1>7
  <1>11. Len(published) = m
    BY <1>5, <1>7, <1>9, <1>10
  <1> HIDE DEF published
  <1>12. Min({d.attempts_total, MaxPublicAttempts}) = m
    BY <1>1, <1>2, <1>3, <1>7
  <1>13. /\ d.attempts_total >= Len(d.attempts)
         /\ Len(d.attempts) = Min({d.attempts_total, MaxPublicAttempts})
         /\ d.attempts_truncated = (d.attempts_total - Len(published) > 0)
         /\ d.omitted_count = d.attempts_total - Len(published)
    <2> DEFINE size == Len(published)
    <2>1. (n > MaxAttempts) = (n - m > 0) /\ n >= m
      <3> HIDE DEF n
      <3> QED BY <1>1, <1>2
    <2>2. size = m
      BY <1>11
    <2> HIDE DEF n, m, size
    <2>3. d.attempts_truncated = (d.attempts_total - size > 0)
      BY <1>7, <2>1, <2>2
    <2>4. d.omitted_count = d.attempts_total - size
      BY <1>7, <2>2
    <2> QED BY <1>7, <1>12, <2>1, <2>3, <2>4 DEF size
  <1> QED BY <1>13 DEF bound_diagnostic, published, d

\* So that those of all benchmarks are invalid only when they are too much, and a
\* benchmark that failed is always counted.
LEMMA DiagnosticsTold ==
  ASSUME NEW l, Reported(l), NEW context \in Contexts, NEW others, others = context.loads
  PROVE  LET loads == LoadsOf(l, others)
             file == benchmark_diagnostics(l, others)
             read == read_benchmark_diagnostics(file)
         IN  /\ read.status = "valid" <=> DiagnosticsFit(file)
             /\ read.status = "valid" =>
                  \A b \in DOMAIN loads :
                    read.benchmarks[b].attempts_total = Len(loads[b].attempts)
             /\ l.passed => benchmark_diagnostic_summary(file).unavailable_count = 0
  <1> DEFINE loads == LoadsOf(l, others)
             file == benchmark_diagnostics(l, others)
             read == read_benchmark_diagnostics(file)
  <1>1. \A b \in DOMAIN loads :
          /\ loads[b].attempts \in Seq(Range(loads[b].attempts))
          /\ l.passed => loads[b].passed
    <2> SUFFICES ASSUME NEW b \in DOMAIN loads
                 PROVE  /\ loads[b].attempts \in Seq(Range(loads[b].attempts))
                        /\ l.passed => loads[b].passed
      OBVIOUS
    <2>1. CASE b = Benchmark
      <3>1. loads[b] = l
        BY <2>1 DEF LoadsOf
      <3> QED BY <3>1 DEF Reported
    <2>2. CASE b # Benchmark
      <3>1. b \in DOMAIN others /\ loads[b] = others[b]
        BY <2>2 DEF LoadsOf
      <3>2. /\ others[b].passed = TRUE
            /\ others[b].attempts \in Seq(Range(others[b].attempts))
        BY <3>1, StoreAssumption
      <3> HIDE DEF loads
      <3> QED BY <3>1, <3>2
    <2> QED BY <2>1, <2>2
  <1>2. /\ DOMAIN file = DOMAIN loads
        /\ \A b \in DOMAIN loads : file[b] = benchmark_diagnostic(loads[b])
    BY DEF benchmark_diagnostics
  <1> HIDE DEF loads, file
  <1>3. \A b \in DOMAIN file : bound_diagnostic(file[b])
    BY <1>1, <1>2, DiagnosticAccepted
  <1>4. read = IF DiagnosticsFit(file) THEN [status |-> "valid", benchmarks |-> file]
               ELSE [status |-> "invalid"]
    BY <1>3 DEF read_benchmark_diagnostics
  <1>5. \A b \in DOMAIN loads : file[b].attempts_total = Len(loads[b].attempts)
    <2>1. \A m : benchmark_diagnostic(m).attempts_total = Len(m.attempts)
      BY DEF benchmark_diagnostic
    <2> QED BY <1>2, <2>1
  <1>6. ASSUME l.passed PROVE benchmark_diagnostic_summary(file).unavailable_count = 0
    <2> DEFINE successes == {b \in DOMAIN file : file[b].status = "success"}
    <2>1. \A b \in DOMAIN file : file[b].status = "success"
      <3>1. \A m : m.passed => benchmark_diagnostic(m).status = "success"
        BY DEF benchmark_diagnostic
      <3> QED BY <1>1, <1>2, <1>6, <3>1
    <2>2. DOMAIN file \ successes = {}
      BY <2>1
    <2>3. Cardinality(DOMAIN file \ successes) = 0
      BY <2>2, FS_EmptySet
    <2> QED BY <2>3 DEF benchmark_diagnostic_summary
  <1>7. read.status = "valid" <=> DiagnosticsFit(file)
    <2> HIDE DEF read
    <2> QED BY <1>4
  <1>8. ASSUME read.status = "valid"
        PROVE  \A b \in DOMAIN loads :
                 read.benchmarks[b].attempts_total = Len(loads[b].attempts)
    <2>1. read.benchmarks = file
      <3> HIDE DEF read
      <3> QED BY <1>4, <1>7, <1>8
    <2> QED BY <1>5, <2>1
  <1> QED BY <1>6, <1>7, <1>8 DEF loads, file, read

\* What the file should hold: every message as it may be seen, and its class.
SafeTexts(stages) ==
  LET raw == authoritative_warnings(stages) IN [k \in DOMAIN raw |-> Safe(raw[k])]

EntriesOf(stages) ==
  LET raw == authoritative_warnings(stages) IN [k \in DOMAIN raw |-> EntryOf(stages, raw[k])]

\* The classes are kept.
AllKept(stages) ==
  /\ \A t \in MessagesOf(stages) : Classed(stages, t)
  /\ CompactSize(EntriesOf(stages)) <= MaxStructuredBytes

\* The files give every message once, and all of them a class or none.
LEMMA PayloadWritten ==
  ASSUME NEW stages, StagesOK(stages)
  PROVE  LET payload == warnings_json(stages)
             raw == authoritative_warnings(stages)
             texts == MessagesOf(stages)
             n == Cardinality(texts)
         IN  /\ n \in Nat /\ raw \in [1..n -> texts]
             /\ \A t \in texts : \E k \in 1..n : raw[k] = t
             /\ payload.warnings = SafeTexts(stages)
             /\ \/ AllKept(stages) /\ payload.version = 1 /\ payload.structured = EntriesOf(stages)
                \/ ~ AllKept(stages) /\ payload.version = 0 /\ payload.structured = <<>>
  <1> DEFINE raw == authoritative_warnings(stages)
             texts == MessagesOf(stages)
             n == Cardinality(texts)
             known == collected(stages).known
             projected == project(collected(stages), raw)
             structured == [k \in DOMAIN projected |-> [projected[k] EXCEPT !.text = Safe(@)]]
             kept == Len(structured) = Len(raw) /\ CompactSize(structured) <= MaxStructuredBytes
             payload == warnings_json(stages)
  <1>1. /\ n \in Nat /\ raw \in [1..n -> texts]
        /\ \A t \in texts : \E k \in 1..n : raw[k] = t
    BY EveryMessageOnce
  <1>2. /\ DOMAIN known = {t \in texts : Classed(stages, t)}
        /\ \A t \in DOMAIN known : known[t] = ClassOf(stages, t)
    <2>1. known = [t \in {u \in {v \in texts : FirstStage(stages, v) <= Len(stages)} :
                            Classed(stages, u)} |-> ClassOf(stages, t)]
      BY AllCollected DEF HeldAfter
    <2>2. \A t \in texts : FirstStage(stages, t) <= Len(stages)
      BY FirstStages DEF StagesOK
    <2> HIDE DEF known, texts
    <2> QED BY <2>1, <2>2
  <1>3. payload = [warnings |-> SafeTexts(stages),
                   version |-> IF kept THEN 1 ELSE 0,
                   structured |-> IF kept THEN structured ELSE <<>>]
    BY WrittenOut DEF warnings_json, SafeTexts
  <1>4. projected = IF \A k \in DOMAIN raw : raw[k] \in DOMAIN known
                    THEN [k \in DOMAIN raw |-> [text |-> raw[k], meta |-> known[raw[k]]]]
                    ELSE <<>>
    BY DEF project
  <1>5. EntriesOf(stages) = [k \in DOMAIN raw |-> [text |-> Safe(raw[k]),
                                                   meta |-> ClassOf(stages, raw[k])]]
    BY DEF EntriesOf, EntryOf
  <1>6. payload.warnings = SafeTexts(stages)
    <2> HIDE DEF kept, structured, payload
    <2> QED BY <1>3
  <1> HIDE DEF raw, texts, known, projected, payload
  <1>7. DOMAIN raw = 1..n /\ Len(raw) = n
    <2> HIDE DEF n
    <2> QED BY <1>1
  <1> HIDE DEF n
  <1>8. (\A k \in DOMAIN raw : raw[k] \in DOMAIN known)
          <=> \A t \in texts : Classed(stages, t)
    BY <1>1, <1>2, <1>7
  <1>9. CASE \A t \in texts : Classed(stages, t)
    <2>1. projected = [k \in 1..n |-> [text |-> raw[k], meta |-> ClassOf(stages, raw[k])]]
      <3>1. projected = [k \in 1..n |-> [text |-> raw[k], meta |-> known[raw[k]]]]
        BY <1>4, <1>7, <1>8, <1>9
      <3>2. \A k \in 1..n : known[raw[k]] = ClassOf(stages, raw[k])
        BY <1>1, <1>2, <1>9
      <3> QED BY <3>1, <3>2
    <2>2. structured = EntriesOf(stages)
      <3>1. structured = [k \in 1..n |-> [projected[k] EXCEPT !.text = Safe(@)]]
        BY <2>1
      <3>2. \A k \in 1..n :
              [projected[k] EXCEPT !.text = Safe(@)]
                = [text |-> Safe(raw[k]), meta |-> ClassOf(stages, raw[k])]
        BY <2>1
      <3> HIDE DEF structured
      <3> QED BY <1>5, <1>7, <3>1, <3>2
    <2>3. Len(EntriesOf(stages)) = n
      BY <1>1, <1>5, <1>7
    <2>4. kept <=> AllKept(stages)
      <3> HIDE DEF structured
      <3> QED BY <1>7, <1>9, <2>2, <2>3 DEF AllKept, texts
    <2>5. payload.version = (IF kept THEN 1 ELSE 0)
          /\ payload.structured = IF kept THEN EntriesOf(stages) ELSE <<>>
      <3> HIDE DEF kept, structured
      <3> QED BY <1>3, <2>2
    <2> HIDE DEF kept, structured
    <2> QED BY <1>1, <1>6, <2>4, <2>5 DEF raw, texts, payload, n
  <1>10. CASE ~ \A t \in texts : Classed(stages, t)
    <2>1. projected = <<>> /\ n # 0
      <3>1. n # 0
        BY <1>1, <1>10
      <3> QED BY <1>4, <1>8, <1>10, <3>1
    <2>2. structured = <<>>
      BY <2>1
    <2>3. ~ kept
      <3> HIDE DEF structured
      <3> QED BY <1>7, <2>1, <2>2
    <2>4. payload.version = 0 /\ payload.structured = <<>>
      <3> HIDE DEF kept, structured
      <3> QED BY <1>3, <2>3
    <2>5. ~ AllKept(stages)
      BY <1>10 DEF AllKept, texts
    <2> HIDE DEF kept, structured
    <2> QED BY <1>1, <1>6, <2>4, <2>5 DEF raw, texts, payload, n
  <1> QED BY <1>9, <1>10

\* What is there to redact was redacted when it was written.
LEMMA PublicIsWritten ==
  ASSUME NEW stages, StagesOK(stages), readable(warnings_json(stages))
  PROVE  LET payload == warnings_json(stages)
         IN  /\ aggregate_warnings(public_warning_payload(payload)) = aggregate_warnings(payload)
             /\ public_structured_state(payload) =
                  IF ~ AllKept(stages) THEN "absent"
                  ELSE IF \A k \in DOMAIN EntriesOf(stages) : EntryFits(EntriesOf(stages)[k])
                  THEN "valid" ELSE "invalid"
  <1> DEFINE payload == warnings_json(stages)
             raw == authoritative_warnings(stages)
             n == Cardinality(MessagesOf(stages))
             kept == AllKept(stages)
             entries == EntriesOf(stages)
             fits == \A k \in DOMAIN entries : EntryFits(entries[k])
             state == public_structured_state(payload)
             public == public_warning_payload(payload)
             entry(k) == [text |-> Safe(raw[k]), meta |-> ClassOf(stages, raw[k])]
  <1>1. /\ n \in Nat /\ DOMAIN raw = 1..n
        /\ payload.warnings = SafeTexts(stages)
        /\ \/ kept /\ payload.version = 1 /\ payload.structured = entries
           \/ ~ kept /\ payload.version = 0 /\ payload.structured = <<>>
    BY PayloadWritten
  <1>2. payload.warnings = [k \in 1..n |-> Safe(raw[k])]
    BY <1>1 DEF SafeTexts
  <1>3. entries = [k \in 1..n |-> entry(k)]
    BY <1>1 DEF EntriesOf, EntryOf
  <1>4. /\ payload = [warnings |-> payload.warnings, version |-> payload.version,
                      structured |-> payload.structured]
        /\ public = [warnings |-> public.warnings, version |-> public.version,
                     structured |-> public.structured]
    BY DEF warnings_json, public_warning_payload
  <1>5. /\ public.warnings = [k \in DOMAIN payload.warnings |-> Safe(payload.warnings[k])]
        /\ state = "absent" => public.version = 0
        /\ state = "valid" => public.version = 1
        /\ state = "invalid" => public.version = NullVersion
        /\ public.structured = IF state = "valid" THEN public_structured(payload) ELSE <<>>
    BY DEF public_warning_payload
  <1>6. \A t : Safe(Safe(t)) = Safe(t)
    BY DEF Safe
  <1>7. Len(payload.warnings) <= MaxWarningItems
    BY DEF readable
  <1>8. state = IF /\ structured_warning_state(payload) = "valid"
                   /\ ~ /\ \A k \in DOMAIN payload.structured : EntryFits(payload.structured[k])
                        /\ CompactSize(public_structured(payload)) <= MaxStructuredBytes
                THEN "invalid" ELSE structured_warning_state(payload)
    BY DEF public_structured_state
  <1>9. public_structured(payload) =
          [k \in DOMAIN payload.structured |->
             [payload.structured[k] EXCEPT !.text = Safe(payload.warnings[k])]]
    BY DEF public_structured
  <1>10. kept => CompactSize(entries) <= MaxStructuredBytes
    BY DEF AllKept
  <1> HIDE DEF payload, raw, n, kept, entries, public, state
  <1>11. Len(payload.warnings) = n /\ DOMAIN payload.warnings = 1..n
    BY <1>1, <1>2
  <1>12. public.warnings = payload.warnings
    BY <1>2, <1>5, <1>6
  <1>13. CASE kept
    <2>1. /\ payload.version = 1 /\ payload.structured = entries
          /\ DOMAIN entries = 1..n /\ Len(entries) = n
      BY <1>1, <1>3, <1>13
    <2>2. \A k \in 1..n : entries[k].text = payload.warnings[k]
      BY <1>2, <1>3
    <2>3. structured_warning_state(payload) = "valid"
      BY <1>7, <1>10, <1>11, <1>13, <2>1, <2>2 DEF structured_warning_state, aligned
    <2>4. public_structured(payload) = entries
      <3>1. \A k \in 1..n : [entries[k] EXCEPT !.text = Safe(payload.warnings[k])] = entry(k)
        <4> SUFFICES ASSUME NEW k \in 1..n
                     PROVE  [entries[k] EXCEPT !.text = Safe(payload.warnings[k])] = entry(k)
          OBVIOUS
        <4>1. entries[k] = entry(k) /\ Safe(payload.warnings[k]) = Safe(raw[k])
          BY <1>2, <1>3, <1>6
        <4> QED BY <4>1
      <3> HIDE DEF entry
      <3> QED BY <1>3, <1>9, <2>1, <3>1
    <2>5. state = IF fits THEN "valid" ELSE "invalid"
      <3> HIDE DEF fits
      <3>1. fits <=> \A k \in DOMAIN payload.structured : EntryFits(payload.structured[k])
        BY <2>1 DEF fits
      <3> QED BY <1>8, <1>10, <1>13, <2>3, <2>4, <3>1
    <2>6. CASE fits
      <3>1. state = "valid" /\ public.version = payload.version
            /\ public.structured = payload.structured
        <4> HIDE DEF fits
        <4> QED BY <1>5, <2>1, <2>4, <2>5, <2>6
      <3>2. public = payload
        BY <1>4, <1>12, <3>1
      <3> HIDE DEF fits
      <3> QED BY <1>13, <2>6, <3>1, <3>2 DEF payload, public, state, kept, entries, fits
    <2>7. CASE ~ fits
      <3> HIDE DEF fits
      <3>1. state = "invalid" /\ public.version = 2
        BY <1>5, <2>5, <2>7 DEF NullVersion
      <3>2. structured_warning_state(public) = "invalid"
        BY <3>1 DEF structured_warning_state
      <3>3. public_structured_state(public) = "invalid"
        BY <3>2 DEF public_structured_state
      <3>4. aggregate_warnings(public) = aggregate_warnings(payload)
        BY <1>12, <3>1, <3>3 DEF aggregate_warnings, state
      <3> QED BY <1>13, <2>7, <3>1, <3>4 DEF payload, public, state, kept, entries, fits
    <2> QED BY <2>6, <2>7
  <1>14. CASE ~ kept
    <2>1. payload.version = 0 /\ payload.structured = <<>>
      BY <1>1, <1>14
    <2>2. structured_warning_state(payload) = "absent"
      BY <2>1 DEF structured_warning_state
    <2>3. state = "absent"
      BY <1>8, <2>2
    <2>4. public.structured = payload.structured /\ public.version = payload.version
      BY <1>5, <2>1, <2>3
    <2>5. public = payload
      BY <1>4, <1>12, <2>4
    <2> HIDE DEF fits
    <2> QED BY <1>14, <2>3, <2>5 DEF payload, public, state, kept
  <1> QED BY <1>13, <1>14

LEMMA ReadBackFaithful ==
  ASSUME NEW l, Reported(l), NEW status, status.outcome = "success" => l.passed,
         NEW context \in Contexts, NEW refused
  PROVE  FaithfullyTold(ReadBack(l, context.loads, status,
                                 StagesOf(context.warnings, benchmark_stage(l), refused)))
  <1> DEFINE others == context.loads
             stages == StagesOf(context.warnings, benchmark_stage(l), refused)
             payload == warnings_json(stages)
             texts == MessagesOf(stages)
             x == ReadBack(l, others, status, stages)
             file == benchmark_diagnostics(l, others)
             raw == authoritative_warnings(stages)
             n == Cardinality(texts)
  <1>0. context.warnings \in EarlierWarnings
    BY DEF EarlierWarnings
  <1>1. StagesOK(stages)
    BY <1>0, StageClassed, StagesTogether
  <1>2. /\ x.load = l /\ x.loads = LoadsOf(l, others) /\ x.stages = stages
        /\ x.raw = raw /\ x.texts = texts
        /\ x.readable = readable(payload)
        /\ x.file = file /\ x.diagnostics = read_benchmark_diagnostics(file)
        /\ x.written = aggregate_warnings(payload)
        /\ x.public = aggregate_warnings(public_warning_payload(payload))
        /\ x.manifest = run_manifest(status, benchmark_metrics(l), file, payload.warnings)
        /\ x.summary = summary(x.manifest, payload)
    BY WrittenOut DEF ReadBack, MessagesOf
  <1> HIDE DEF x, stages
  <1>3. /\ n \in Nat /\ raw \in [1..n -> texts]
        /\ \A t \in texts : \E k \in 1..n : raw[k] = t
        /\ payload.warnings = SafeTexts(stages)
        /\ \/ AllKept(stages) /\ payload.version = 1 /\ payload.structured = EntriesOf(stages)
           \/ ~ AllKept(stages) /\ payload.version = 0 /\ payload.structured = <<>>
    BY <1>1, PayloadWritten
  <1>4. /\ MessagesIn(x) = SafeTexts(stages) /\ EntriesIn(x) = EntriesOf(stages)
        /\ DOMAIN EntriesOf(stages) = DOMAIN raw
        /\ SafeTexts(stages) = [k \in DOMAIN raw |-> Safe(raw[k])]
        /\ EntriesOf(stages) = [k \in DOMAIN raw |-> EntryOf(stages, raw[k])]
    BY <1>2 DEF MessagesIn, EntriesIn, SafeTexts, EntriesOf
  <1>5. Classes(x) <=> AllKept(stages)
    BY <1>2, <1>4 DEF Classes, AllKept
  <1>6. Len(payload.warnings) = n /\ DOMAIN payload.warnings = 1..n /\ DOMAIN raw = 1..n
    <2> HIDE DEF payload, texts, n, raw
    <2> QED BY <1>3, <1>4
  <1>7. /\ x.diagnostics.status = "valid" <=> DiagnosticsFit(x.file)
        /\ x.diagnostics.status = "valid" =>
             \A b \in DOMAIN x.loads :
               x.diagnostics.benchmarks[b].attempts_total = Len(x.loads[b].attempts)
        /\ l.passed => benchmark_diagnostic_summary(file).unavailable_count = 0
    <2> HIDE DEF others, file
    <2>1. /\ read_benchmark_diagnostics(file).status = "valid" <=> DiagnosticsFit(file)
          /\ read_benchmark_diagnostics(file).status = "valid" =>
               \A b \in DOMAIN LoadsOf(l, others) :
                 read_benchmark_diagnostics(file).benchmarks[b].attempts_total
                   = Len(LoadsOf(l, others)[b].attempts)
          /\ l.passed => benchmark_diagnostic_summary(file).unavailable_count = 0
      BY DiagnosticsTold DEF others, file
    <2> QED BY <1>2, <2>1
  <1>8. x.readable <=> Moderate(x)
    <2> DEFINE short == \A k \in DOMAIN payload.warnings :
                          Chars(payload.warnings[k]) <= MaxWarningChars
               brief == \A t \in texts : Chars(Safe(t)) <= MaxWarningChars
               size == LinesSize(SafeTexts(stages))
                         + (IF AllKept(stages) THEN BlocksSize(EntriesOf(stages)) ELSE 0)
    <2>1. short <=> brief
      <3>1. \A k \in 1..n : payload.warnings[k] = Safe(raw[k]) /\ raw[k] \in texts
        <4> HIDE DEF payload, texts, n, raw
        <4> QED BY <1>3, <1>4, <1>6
      <3> HIDE DEF payload, texts, n, raw
      <3> QED BY <1>3, <1>6, <3>1
    <2>2. FileSize(payload) = size
      <3> HIDE DEF payload, texts, n, raw
      <3>1. CASE AllKept(stages)
        BY <1>3, <3>1 DEF FileSize
      <3>2. CASE ~ AllKept(stages)
        BY <1>3, <3>2 DEF FileSize
      <3> QED BY <3>1, <3>2
    <2>3. readable(payload) <=>
            /\ size <= MaxArtifactBytes /\ n <= MaxWarningItems
            /\ TextSize(SafeTexts(stages)) <= MaxTextChars /\ short
      <3> HIDE DEF payload, n, raw, texts, size
      <3> QED BY <1>3, <1>6, <2>2 DEF readable
    <2>4. Moderate(x) <=>
            /\ n <= MaxWarningItems /\ brief
            /\ TextSize(SafeTexts(stages)) <= MaxTextChars /\ size <= MaxArtifactBytes
      <3> HIDE DEF payload, raw, texts
      <3> QED BY <1>2, <1>4, <1>5 DEF Moderate, n
    <2> HIDE DEF short, brief, size, payload, n
    <2> QED BY <1>2, <2>1, <2>3, <2>4
  <1>9. /\ x.manifest.run_status = status.outcome
        /\ x.manifest.benchmark_status = IF l.passed THEN "available" ELSE "unavailable"
        /\ x.manifest.artifact_summary = benchmark_diagnostic_summary(file)
        /\ x.manifest.warning_count = n
    <2> HIDE DEF payload, n, raw, file
    <2> QED BY <1>2, <1>6 DEF run_manifest, benchmark_metrics, benchmark_coverage_status
  <1>10. /\ x.summary.run_status = status.outcome
         /\ x.summary.benchmark_status = x.manifest.benchmark_status
         /\ x.summary.warning_count = n
    <2> HIDE DEF payload, n, raw, file
    <2> QED BY <1>2, <1>6, <1>9 DEF summary
  <1>11. ASSUME x.readable
         PROVE  /\ x.public = x.written
                /\ x.public.total = n
                /\ x.public.structured_status =
                     IF ~ Classes(x) THEN "absent"
                     ELSE IF \A k \in DOMAIN x.raw : EntryFits(EntriesIn(x)[k]) THEN "valid"
                     ELSE "invalid"
                /\ \A k \in DOMAIN x.public.classes :
                     OfBenchmark(stages, raw[k]) => RightClass(raw[k], x.public.classes[k], l)
    <2> DEFINE state == public_structured_state(payload)
               fits == \A k \in DOMAIN x.raw : EntryFits(EntriesIn(x)[k])
    <2>1. /\ aggregate_warnings(public_warning_payload(payload)) = aggregate_warnings(payload)
          /\ state = IF ~ AllKept(stages) THEN "absent"
                     ELSE IF \A k \in DOMAIN EntriesOf(stages) : EntryFits(EntriesOf(stages)[k])
                     THEN "valid" ELSE "invalid"
      BY <1>1, <1>2, <1>11, PublicIsWritten
    <2>2. x.public = x.written /\ x.public = aggregate_warnings(payload)
      BY <1>2, <2>1
    <2>3. fits <=> \A k \in DOMAIN EntriesOf(stages) : EntryFits(EntriesOf(stages)[k])
      <3> HIDE DEF raw
      <3> QED BY <1>2, <1>4
    <2> HIDE DEF payload, texts, n, raw, state, fits
    <2>4. /\ x.public.total = n
          /\ x.public.structured_status = state
          /\ x.public.classes = IF state = "valid"
                                THEN [k \in DOMAIN payload.structured |->
                                        payload.structured[k].meta]
                                ELSE <<>>
      BY <1>6, <2>2 DEF aggregate_warnings, state
    <2>5. x.public.structured_status = IF ~ Classes(x) THEN "absent"
                                       ELSE IF fits THEN "valid" ELSE "invalid"
      BY <1>5, <2>1, <2>3, <2>4
    <2>6. ASSUME NEW k \in DOMAIN x.public.classes, OfBenchmark(stages, raw[k])
          PROVE  RightClass(raw[k], x.public.classes[k], l)
      <3>1. state = "valid" /\ AllKept(stages)
        BY <2>1, <2>4, <2>6
      <3>2. payload.structured = [j \in 1..n |-> EntryOf(stages, raw[j])]
        BY <1>3, <1>4, <1>6, <3>1
      <3>3. x.public.classes = [j \in DOMAIN payload.structured |-> payload.structured[j].meta]
        BY <2>4, <3>1
      <3>4. k \in 1..n /\ x.public.classes[k] = ClassOf(stages, raw[k])
        BY <3>2, <3>3, <2>6 DEF EntryOf
      <3>5. raw[k] \in MessagesOf(stages) /\ Classed(stages, raw[k])
        BY <1>3, <3>1, <3>4 DEF texts, AllKept
      <3>6. RightClass(raw[k], ClassOf(stages, raw[k]), l)
        BY <1>0, <3>5, <2>6, BenchmarkClassed DEF stages
      <3> QED BY <3>4, <3>6
    <2> QED BY <2>2, <2>4, <2>5, <2>6 DEF fits
  <1> HIDE DEF raw, file, n
  <1>12. FaithfullyTold(x)
    <2>1. x.summary.run_status = "success" =>
            /\ x.summary.benchmark_status = "available"
            /\ x.manifest.artifact_summary.unavailable_count = 0
      BY <1>7, <1>9, <1>10
    <2>2. x.readable =>
            /\ x.public = x.written
            /\ x.public.total = Cardinality(x.texts)
            /\ x.summary.warning_count = x.public.total
            /\ x.public.structured_status =
                 IF ~ Classes(x) THEN "absent"
                 ELSE IF \A k \in DOMAIN x.raw : EntryFits(EntriesIn(x)[k]) THEN "valid"
                 ELSE "invalid"
            /\ \A k \in DOMAIN x.public.classes :
                 OfBenchmark(x.stages, x.raw[k]) =>
                   RightClass(x.raw[k], x.public.classes[k], x.load)
      <3> HIDE DEF texts
      <3> QED BY <1>2, <1>10, <1>11 DEF n
    <2> QED BY <1>7, <1>8, <2>1, <2>2 DEF FaithfullyTold
  <1> QED BY <1>12 DEF x, stages, others

LEMMA StartTells ==
  ASSUME IInv, NEW r \in Runs, TellStarted(r)
  PROVE  FaithfullyTold(told')
  <1> DEFINE l == load[r]
             status == dirs'[StagingOf(r)].status
  <1>1. Reported(l)
    BY DEF IInv, CacheOK, LoadsOK, LoadOK
  <1>2. status.outcome = "success" => l.passed
    <2>1. StartArtifacts(r)
      BY DEF TellStarted
    <2>2. status = [outcome |-> IF run[r].reduced \/ ~ load[r].passed
                                THEN "partial_success" ELSE "success",
                    dated |-> run[r].dated]
      BY <2>1 DEF StartArtifacts, With
    <2> QED BY <2>2
  <1> HIDE DEF status, l
  <1>3. PICK context \in Contexts, refused \in {0, Len(benchmark_stage(l))} :
          told' = ReadBack(l, context.loads, status,
                           StagesOf(context.warnings, benchmark_stage(l), refused))
    BY DEF TellStarted, l, status
  <1> QED BY <1>1, <1>2, <1>3, ReadBackFaithful

\* What a run writes of itself can be read back (RunsReadBack): for any number
\* and length of warnings and attempts, any stages before the benchmark's, any
\* other benchmarks and any message that is redacted, whatever is refused is over
\* a limit of the readers, and what is read loses no warning, counts none twice
\* and has the benchmark's under the class of what happened.
THEOREM ReadsBack == StoreSpec => RunsReadBack
  <1>1. IInv /\ [StoreNext]_<<vars, told>> =>
          [told'.kind = "run" => FaithfullyTold(told')]_<<vars, told>>
    <2> SUFFICES ASSUME IInv, StoreNext, told'.kind = "run"
                 PROVE  FaithfullyTold(told')
      OBVIOUS
    <2>1. PICK r \in Runs : Untold(r) \/ TellStarted(r)
      BY DEF StoreNext
    <2>2. ~ Untold(r)
      BY DEF Untold, Silence
    <2> QED BY <2>1, <2>2, StartTells
  <1> QED BY <1>1, RecordsFollow, Invariant, PTL DEF StoreSpec, RunsReadBack
=============================================================================
