------------------------------ MODULE RunStore ------------------------------
(***************************************************************************)
(* What a research run writes of its warnings and of its benchmark, and    *)
(* what the store of runs reads back:                                      *)
(*   src/autowealth/research/warnings.py, real_pipeline.py, artifacts.py   *)
(*   src/autowealth/research/run_store.py                                  *)
(*                                                                         *)
(* A warning is [text, meta]: its message, and the class that is recorded  *)
(* for it, or NoMeta when StructuredWarning refuses the class, its         *)
(* evidence or its references.  The files of a run are fixed when their    *)
(* writing begins, and never change, so that reading them is told then.    *)
(*                                                                         *)
(* Sizes are those of what is written, after redaction.  A file is as long *)
(* as its items: the limit on it is the code's less what brackets take.    *)
(* What sanitize_public_payload finds too deep, too wide or too long is    *)
(* left to EntryFits and DiagnosticsFit.                                   *)
(***************************************************************************)
EXTENDS ResearchRun

CONSTANTS
  Contexts,           \* what else a run may have: [warnings, loads]; what the stages
                      \*   before the benchmark warn of, and, by benchmark, the
                      \*   loads of others, which all had their data
  NoMeta,
  Secret, Redacted,   \* the messages that are redacted, and what is left of them
  MaxAttempts,        \* MAX_BENCHMARK_DIAGNOSTIC_ATTEMPTS
  MaxPublicAttempts,  \* MAX_PUBLIC_BENCHMARK_DIAGNOSTIC_ATTEMPTS
  MaxWarningItems,    \* MAX_PUBLIC_WARNING_ITEMS
  MaxWarningChars,    \* max_string_length of the public limits
  MaxTextChars,       \* MAX_PUBLIC_WARNING_STRING_CHARS
  MaxStructuredBytes, \* STRUCTURED_WARNINGS_MAX_JSON_BYTES
  MaxArtifactBytes,   \* MAX_RESEARCH_ARTIFACT_JSON_BYTES
  Chars(_),           \* the characters of a message
  LineBytes(_),       \* the bytes of its line in an indented file
  CompactBytes(_),    \* the bytes of a structured warning, without white space
  BlockBytes(_),      \* and in an indented file
  EntryFits(_),       \* sanitize_public_payload accepts the structured warning,
  DiagnosticsFit(_),  \*   the diagnostics of the benchmarks
  Benchmark           \* the benchmark of which the load is

\* A run publishes as many attempts as its readers accept.
ASSUME StoreAssumption ==
  /\ MaxAttempts \in Nat /\ MaxPublicAttempts = MaxAttempts /\ MaxWarningItems \in Nat
  /\ \A context \in Contexts :
       /\ context.warnings \in Seq(Range(context.warnings))
       /\ \A stage \in Range(context.warnings) : stage \in Seq(Range(stage))
       /\ \A b \in DOMAIN context.loads :
            LET other == context.loads[b]
            IN  other.passed = TRUE /\ other.attempts \in Seq(Range(other.attempts))

VARIABLE
  told   \* what the last files say when they are read

Silence == [kind |-> "none"]

---------------------------------------------------------------------------
(* Warnings on their way through the pipeline                              *)

TextsOf(stage) == {stage[k].text : k \in DOMAIN stage}

\* _run_benchmarks: the warnings of the load, and one if it got nothing.
benchmark_stage(l) ==
  LET texts == load_warnings(l)
      classes == attempt_warnings(l)
  IN
  [k \in DOMAIN texts |-> [text |-> <<texts[k], k>>, meta |-> classes[k]]]
  \o IF l.passed THEN <<>>
     ELSE <<[text |-> <<"unavailable", 0>>,
             meta |-> [code |-> "DATA_UNAVAILABLE",
                       source |-> "benchmark_provider_chain"]]>>

Collector == [known |-> Nothing, unclassified |-> {}]

\* The places of a stage that give a message metadata.
Accepting(stage, text) == {k \in DOMAIN stage : stage[k].text = text /\ stage[k].meta # NoMeta}

\* The messages of T are recorded with the metadata the stage has for them.
Recorded(known, stage, T) ==
  [t \in DOMAIN known \cup T |->
     IF t \in DOMAIN known THEN known[t] ELSE stage[Min(Accepting(stage, t))].meta]

\* Mutant of commit_stage: a message without metadata is passed over.
commit_stage_Lenient(collector, stage) ==
  LET new == {t \in TextsOf(stage) : Accepting(stage, t) # {}}
  IN  [collector EXCEPT !.known = Recorded(@, stage, new)]

\* The metadata of a message is that of the first stage that raised it.  A
\* message that came without any keeps none.
commit_stage(collector, stage) ==
  LET new == TextsOf(stage) \ (DOMAIN collector.known \cup collector.unclassified)
      classified == {t \in new : Accepting(stage, t) # {}}
  IN  [known |-> Recorded(collector.known, stage, classified),
       unclassified |-> collector.unclassified \cup (new \ classified)]

collected(stages) ==
  LET upto[n \in 0..Len(stages)] ==
        IF n = 0 THEN Collector ELSE commit_stage(upto[n - 1], stages[n])
  IN  upto[Len(stages)]

\* A place is a stage and a place in it.
Places(stages) == UNION {{n} \X DOMAIN stages[n] : n \in DOMAIN stages}

TextAt(stages, p) == stages[p[1]][p[2]].text

Earlier(p, q) == p[1] < q[1] \/ (p[1] = q[1] /\ p[2] < q[2])

\* Where each message is raised for the first time.
FirstRaised(stages) ==
  {p \in Places(stages) :
     \A q \in Places(stages) : Earlier(q, p) => TextAt(stages, q) # TextAt(stages, p)}

\* _dedupe_warnings: each message once, where it was raised first.
authoritative_warnings(stages) ==
  LET firsts == FirstRaised(stages)
      At(k) == CHOOSE p \in firsts : Cardinality({q \in firsts : Earlier(q, p)}) = k - 1
  IN  [k \in 1..Cardinality(firsts) |-> TextAt(stages, At(k))]

\* Metadata for all of them or for none: [text, meta] for each, or <<>>.
project(collector, raw) ==
  IF \A k \in DOMAIN raw : raw[k] \in DOMAIN collector.known
  THEN [k \in DOMAIN raw |-> [text |-> raw[k], meta |-> collector.known[raw[k]]]]
  ELSE <<>>

Safe(text) == IF text \in Secret THEN Redacted ELSE text

TextSize(warnings) == SumOf([k \in DOMAIN warnings |-> Chars(warnings[k])])
LinesSize(warnings) == SumOf([k \in DOMAIN warnings |-> LineBytes(warnings[k])])
CompactSize(structured) == SumOf([k \in DOMAIN structured |-> CompactBytes(structured[k])])
BlocksSize(structured) == SumOf([k \in DOMAIN structured |-> BlockBytes(structured[k])])

NullVersion == 2

\* warnings.json.  Its structured part is missing if some warning has no class,
\* or if all of it would be too long.  The version is 0 where it is missing, and
\* NullVersion where readers are told that it is invalid.
warnings_json(stages) ==
  LET raw == Written(authoritative_warnings(stages))
      projected == Written(project(collected(stages), raw))
      structured == Written([k \in DOMAIN projected |-> [projected[k] EXCEPT !.text = Safe(@)]])
      kept == Len(structured) = Len(raw) /\ CompactSize(structured) <= MaxStructuredBytes
  IN  [warnings |-> [k \in DOMAIN raw |-> Safe(raw[k])],
       version |-> IF kept THEN 1 ELSE 0,
       structured |-> IF kept THEN structured ELSE <<>>]

\* _benchmark_diagnostic: the first attempts, and how many there were.
benchmark_diagnostic(l) ==
  LET attempts == SubSeq(l.attempts, 1, Min({MaxAttempts, Len(l.attempts)}))
  IN  [status |-> IF l.passed THEN "success" ELSE "unavailable",
       attempts |-> attempts,
       attempts_total |-> Len(l.attempts),
       attempts_truncated |-> Len(l.attempts) > MaxAttempts,
       omitted_count |-> Len(l.attempts) - Len(attempts)]

\* _run_benchmarks: benchmark_diagnostics.json, by benchmark.
LoadsOf(l, others) ==
  [b \in {Benchmark} \cup DOMAIN others |-> IF b = Benchmark THEN l ELSE others[b]]

benchmark_diagnostics(l, others) ==
  LET loads == LoadsOf(l, others) IN [b \in DOMAIN loads |-> benchmark_diagnostic(loads[b])]

\* _unavailable_benchmark, or the metrics of the benchmark's curve.
benchmark_metrics(l) == [status |-> IF l.passed THEN "measured" ELSE "unavailable"]

\* Of the one benchmark that may fail; it is never partial.
benchmark_coverage_status(metrics) ==
  IF metrics.status = "unavailable" THEN "unavailable" ELSE "available"

\* Of the limitations a run discloses, the one that depends on its reports.
point_in_time_limitations(dated) == IF dated THEN {} ELSE {"unverified publication dates"}

benchmark_diagnostic_summary(diagnostics) ==
  LET successes == {b \in DOMAIN diagnostics : diagnostics[b].status = "success"}
  IN  [success_count |-> Cardinality(successes),
       unavailable_count |-> Cardinality(DOMAIN diagnostics \ successes)]

run_manifest(status, metrics, diagnostics, warnings) ==
  [run_status |-> status.outcome,
   point_in_time_limitations |-> point_in_time_limitations(status.dated),
   artifact_summary |-> benchmark_diagnostic_summary(diagnostics),
   benchmark_status |-> benchmark_coverage_status(metrics),
   warning_count |-> Len(warnings)]

---------------------------------------------------------------------------
(* The store                                                               *)

\* _bound_public_benchmark_diagnostics accepts a diagnostic with all counters:
\* it has the attempts that are published, and counts the others.
bound_diagnostic(d) ==
  LET published == SubSeq(d.attempts, 1, Min({MaxPublicAttempts, Len(d.attempts)}))
      omitted == d.attempts_total - Len(published)
  IN  /\ d.attempts_total >= Len(d.attempts)
      /\ Len(d.attempts) = Min({d.attempts_total, MaxPublicAttempts})
      /\ d.attempts_truncated = (omitted > 0)
      /\ d.omitted_count = omitted

\* All of them are invalid when one is, or when they are more together than may
\* be published: every width that is checked before is one of DiagnosticsFit,
\* and a file too long to be read has more than DiagnosticsFit allows.
read_benchmark_diagnostics(diagnostics) ==
  IF /\ \A b \in DOMAIN diagnostics : bound_diagnostic(diagnostics[b])
     /\ DiagnosticsFit(diagnostics)
  THEN [status |-> "valid", benchmarks |-> diagnostics]
  ELSE [status |-> "invalid"]

\* validate_structured_warning_sequence
aligned(warnings, structured) ==
  /\ Len(warnings) = Len(structured)
  /\ \A k \in DOMAIN warnings : structured[k].text = warnings[k]

structured_warning_state(payload) ==
  IF payload.version = 0 THEN "absent"
  ELSE IF /\ payload.version = 1
          /\ Len(payload.structured) <= MaxWarningItems
          /\ aligned(payload.warnings, payload.structured)
          /\ CompactSize(payload.structured) <= MaxStructuredBytes
  THEN "valid" ELSE "invalid"

\* Each structured warning with its message as the public may see it.
public_structured(payload) ==
  [k \in DOMAIN payload.structured |->
     [payload.structured[k] EXCEPT !.text = Safe(payload.warnings[k])]]

\* _public_structured_warning_state
public_structured_state(payload) ==
  IF /\ structured_warning_state(payload) = "valid"
     /\ ~ /\ \A k \in DOMAIN payload.structured : EntryFits(payload.structured[k])
          /\ CompactSize(public_structured(payload)) <= MaxStructuredBytes
  THEN "invalid" ELSE structured_warning_state(payload)

FileSize(payload) ==
  LinesSize(payload.warnings)
    + (IF payload.version = 1 THEN BlocksSize(payload.structured) ELSE 0)

\* _read_json, _warning_values and _sanitize_public_warning_text: a file that is
\* too long, has too many warnings, too much text or a warning that is too long is
\* refused, and with it the run.
readable(payload) ==
  /\ FileSize(payload) <= MaxArtifactBytes
  /\ Len(payload.warnings) <= MaxWarningItems
  /\ TextSize(payload.warnings) <= MaxTextChars
  /\ \A k \in DOMAIN payload.warnings : Chars(payload.warnings[k]) <= MaxWarningChars

public_warning_payload(payload) ==
  LET state == public_structured_state(payload)
  IN  [warnings |-> [k \in DOMAIN payload.warnings |-> Safe(payload.warnings[k])],
       version |-> CASE state = "absent" -> 0 [] state = "valid" -> 1
                     [] OTHER -> NullVersion,
       structured |-> IF state = "valid" THEN public_structured(payload) ELSE <<>>]

aggregate_warnings(payload) ==
  [total |-> Len(payload.warnings),
   structured_status |-> public_structured_state(payload),
   classes |-> IF public_structured_state(payload) = "valid"
               THEN [k \in DOMAIN payload.structured |-> payload.structured[k].meta]
               ELSE <<>>]

\* get_summary: what the manifest says; a manifest that counts no warnings is
\* not believed.
summary(manifest, payload) ==
  [run_status |-> manifest.run_status,
   benchmark_status |-> manifest.benchmark_status,
   warning_count |-> IF manifest.warning_count # 0 THEN manifest.warning_count
                     ELSE Len(payload.warnings)]

---------------------------------------------------------------------------
(* The run whose files are about to be written.  The class of the last     *)
(* warning of its benchmark may have been refused.                         *)

\* The stages of a run in their order, the benchmark's last; `refused` is the
\* warning of it that was refused its class, or 0.
StagesOf(earlier, stage, refused) ==
  Append(earlier, [k \in DOMAIN stage |->
                     IF k = refused THEN [stage[k] EXCEPT !.meta = NoMeta] ELSE stage[k]])

ReadBack(l, others, status, stages) ==
  LET payload == warnings_json(stages)
      public == public_warning_payload(payload)
      diagnostics == Written(benchmark_diagnostics(l, others))
      manifest == run_manifest(status, benchmark_metrics(l), diagnostics, payload.warnings)
  IN  [kind |-> "run", load |-> l, loads |-> Written(LoadsOf(l, others)), stages |-> stages,
       raw |-> Written(authoritative_warnings(stages)),
       texts |-> UNION {TextsOf(stages[n]) : n \in DOMAIN stages},
       readable |-> readable(payload),
       file |-> diagnostics,
       diagnostics |-> read_benchmark_diagnostics(diagnostics),
       written |-> aggregate_warnings(payload),
       public |-> aggregate_warnings(public),
       manifest |-> manifest,
       summary |-> summary(manifest, payload)]

TellStarted(r) ==
  /\ StartArtifacts(r)
  /\ LET stage == benchmark_stage(load[r])
     IN  \E context \in Contexts, refused \in {0, Len(stage)} :
           told' = ReadBack(load[r], context.loads, dirs'[StagingOf(r)].status,
                            StagesOf(context.warnings, stage, refused))

Untold(r) ==
  /\ \/ LoadItem(r) \/ BuildSchedule(r) \/ Backtest(r) \/ LoadBenchmark(r)
     \/ WriteArtifact(r) \/ DiscardArtifacts(r) \/ PublishArtifacts(r)
     \/ Crash(r)
  /\ told' = Silence

StoreInit == Init /\ told = Silence

StoreNext == \E r \in Runs : Untold(r) \/ TellStarted(r)

StoreSpec == StoreInit /\ [][StoreNext]_<<vars, told>>

---------------------------------------------------------------------------
(* Properties *)

\* Every message of a load is recorded under the class of what happened:
\* the cache is blamed for a rejected or unwritten cache, the chain for its
\* providers, and a provider that failed is a fallback only if another
\* answered.
RightClass(text, meta, l) ==
  IF text[1] \in {"cache_rejected", "write_failed"} THEN meta.source = "benchmark_cache"
  ELSE /\ meta.source = "benchmark_provider_chain"
       /\ meta.code = IF l.frame # <<>> THEN "FALLBACK_USED" ELSE "DATA_UNAVAILABLE"

FirstStage(stages, text) == Min({n \in DOMAIN stages : text \in TextsOf(stages[n])})

\* The message is classed where it is first raised, and as what.
Classed(stages, text) ==
  LET first == stages[FirstStage(stages, text)]
  IN  \E k \in DOMAIN first : first[k].text = text /\ first[k].meta # NoMeta

ClassOf(stages, text) ==
  LET first == stages[FirstStage(stages, text)]
  IN  first[Min(Accepting(first, text))].meta

\* Its structured warning.
EntryOf(stages, text) == [text |-> Safe(text), meta |-> ClassOf(stages, text)]

\* The benchmark's warning of this text, if no earlier stage raised it.
OfBenchmark(stages, text) ==
  \A n \in DOMAIN stages : n < Len(stages) => text \notin TextsOf(stages[n])

\* The messages as they may be seen, each once, and their structured warnings.
MessagesIn(x) == [k \in DOMAIN x.raw |-> Safe(x.raw[k])]
EntriesIn(x) == [k \in DOMAIN x.raw |-> EntryOf(x.stages, x.raw[k])]

\* All messages have a class where they are first raised, and the structured
\* warnings are not too long together.
Classes(x) ==
  /\ \A text \in x.texts : Classed(x.stages, text)
  /\ CompactSize(EntriesIn(x)) <= MaxStructuredBytes

\* Neither a message, nor their number, nor all of them, nor they and their
\* classes in one file are too much.
Moderate(x) ==
  /\ Cardinality(x.texts) <= MaxWarningItems
  /\ \A text \in x.texts : Chars(Safe(text)) <= MaxWarningChars
  /\ TextSize(MessagesIn(x)) <= MaxTextChars
  /\ LinesSize(MessagesIn(x)) + (IF Classes(x) THEN BlocksSize(EntriesIn(x)) ELSE 0)
       <= MaxArtifactBytes

FaithfullyTold(x) ==
  /\ x.diagnostics.status = "valid" <=> DiagnosticsFit(x.file)
  /\ x.diagnostics.status = "valid" =>
       \A b \in DOMAIN x.loads :
         x.diagnostics.benchmarks[b].attempts_total = Len(x.loads[b].attempts)
  /\ x.readable <=> Moderate(x)
  /\ x.readable =>
       /\ x.public = x.written
       /\ x.public.total = Cardinality(x.texts)
       /\ x.summary.warning_count = x.public.total
       /\ x.public.structured_status =
            IF ~ Classes(x) THEN "absent"
            ELSE IF \A k \in DOMAIN x.raw : EntryFits(EntriesIn(x)[k]) THEN "valid"
            ELSE "invalid"
       /\ \A k \in DOMAIN x.public.classes :
            OfBenchmark(x.stages, x.raw[k]) =>
              RightClass(x.raw[k], x.public.classes[k], x.load)
  /\ x.summary.run_status = "success" =>
       /\ x.summary.benchmark_status = "available"
       /\ x.manifest.artifact_summary.unavailable_count = 0

\* What a run writes of itself can be read back, whatever its stages warned
\* of, unless it is more than the readers take: the diagnostics are invalid only
\* when those of all benchmarks are too much together, and otherwise tell how
\* many attempts there were; the warnings are refused only for a message that is
\* too long, for their number, for all their text or for the file; the structured
\* warnings are there exactly when every warning was given a class where it was
\* first raised and the limits on them are kept, and the benchmark's are then
\* under the right class; redaction for the public changes no count and no class;
\* and a run without a benchmark is no success.
RunsReadBack == [][told'.kind = "run" => FaithfullyTold(told')]_<<vars, told>>
=============================================================================
