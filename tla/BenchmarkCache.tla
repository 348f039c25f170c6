--------------------------- MODULE BenchmarkCache ---------------------------
(***************************************************************************)
(* Loading one benchmark from its cache or from the provider chain, and    *)
(* the check of what the providers answer:                                 *)
(*   src/autowealth/data/{index_quality,index_provider,                    *)
(*                        index_provider_chain}.py                         *)
(*   src/autowealth/research/real_pipeline.py (benchmark warnings)         *)
(*                                                                         *)
(* Days are consecutive numbers.  A frame is a sequence of rows            *)
(* [date, close]; a date may be NotADate, a close NotANumber or Infinite.  *)
(*                                                                         *)
(* Several research runs share the files of one benchmark and one window,  *)
(* without a lock: a metadata file, a data file of the old layout          *)
(* ("legacy"), and data files of the new one, each under a name its writer *)
(* made up and no other writer has (the writer's name stands for it).      *)
(***************************************************************************)
EXTENDS Integers, Sequences, FiniteSetsExt

CONSTANTS
  NotADate, NotANumber, Infinite,
  Weekends,            \* the days that are no business days
  MaxEdgeGap,          \* MAX_BENCHMARK_EDGE_GAP_BUSINESS_DAYS
  MinimumCoverage      \* minimum_coverage_ratio, in percent

ASSUME QualityAssumption ==
  /\ Weekends \subseteq Nat
  /\ MaxEdgeGap \in Nat
  /\ MinimumCoverage \in 1..100

---------------------------------------------------------------------------
(* index_quality.py *)

business_days(start, end) == {d \in start..end : d \notin Weekends}

\* At least one day is always expected.
estimated_days(start, end) ==
  LET n == Cardinality(business_days(start, end)) IN IF n = 0 THEN 1 ELSE n

minimum_rows(start, end) ==
  LET estimated == estimated_days(start, end)
      needed == (estimated * MinimumCoverage + 99) \div 100
  IN  IF estimated = 1 THEN 1 ELSE IF needed < 2 THEN 2 ELSE needed

\* One edge may miss fewer days than the rows the whole frame may miss.
maximum_edge_gap(start, end) ==
  LET budget == estimated_days(start, end) - minimum_rows(start, end)
  IN  IF budget <= 1 THEN 0 ELSE IF budget - 1 < MaxEdgeGap THEN budget - 1 ELSE MaxEdgeGap

Dates(frame) == {frame[i].date : i \in DOMAIN frame}
Prices(frame) == {frame[i].close : i \in DOMAIN frame}

edge_gaps(frame, start, end) ==
  {Cardinality({d \in business_days(start, end) : d < Min(Dates(frame))}),
   Cardinality({d \in business_days(start, end) : d > Max(Dates(frame))})}

\* The first check that fails names the reason.
validate_benchmark_data(frame, start, end) ==
  IF frame = <<>> THEN "empty_response"
  ELSE IF ~ Dates(frame) \subseteq start..end THEN "invalid_dates"
  ELSE IF NotANumber \in Prices(frame) THEN "missing_close"
  ELSE IF Infinite \in Prices(frame) THEN "non_finite_close"
  ELSE IF \E close \in Prices(frame) : close <= 0 THEN "non_positive_close"
  ELSE IF Cardinality(Dates(frame)) < Len(frame) THEN "duplicate_dates"
  ELSE IF \/ Len(frame) < minimum_rows(start, end)
          \/ \E gap \in edge_gaps(frame, start, end) : gap > maximum_edge_gap(start, end)
       THEN "insufficient_coverage"
  ELSE "success"

---------------------------------------------------------------------------
(* index_provider_chain.py: one attempt per provider, in order, until one  *)
(* of them passes.  An answer is [kind, frame]: kind is "rows" for a       *)
(* frame, or the way the provider failed.                                  *)

attempt_reason(answer, start, end) ==
  IF answer.kind = "rows" THEN validate_benchmark_data(answer.frame, start, end)
  ELSE IF answer.kind = "unsupported" THEN "unsupported_endpoint"
  ELSE "provider_exception"

fetch_daily(answers, start, end) ==
  LET reason == [k \in DOMAIN answers |-> attempt_reason(answers[k], start, end)]
      passed == {k \in DOMAIN answers : reason[k] = "success"}
      tried == IF passed = {} THEN Len(answers) ELSE Min(passed)
  IN  [attempts |-> [k \in 1..tried |->
                       [role |-> "provider", provider |-> k, reason |-> reason[k]]],
       passed |-> passed # {},
       selected |-> tried]

---------------------------------------------------------------------------
(* The cache *)

CONSTANTS
  Runs,
  NoMetadata,
  BenchStart, BenchEnd,   \* the requested window
  ChainAnswers,           \* what the providers of the chain may answer
  InitialEntries          \* the entries [meta, data] there may be at first

\* Nobody has made up the name of a run's data file before the run does.
ASSUME CacheAssumption ==
  /\ "legacy" \notin Runs
  /\ \A answers \in ChainAnswers : Len(answers) \in Nat /\ DOMAIN answers = 1..Len(answers)
  /\ \A entry \in InitialEntries :
       /\ entry.meta = NoMetadata \/ entry.meta.file = "legacy"
       /\ DOMAIN entry.data \subseteq {"legacy"}

VARIABLES
  metadata,   \* the metadata file
  data,       \* the data files: a frame for each name
  load        \* what each run's load_benchmark_with_cache has come to

cacheVars == <<metadata, data, load>>

FileNames == Runs \cup {"legacy"}

NotLoading == [at |-> "idle", status |-> "none", cached |-> NoMetadata,
               attempts |-> <<>>, passed |-> FALSE, frame |-> <<>>, source |-> 0]

CacheInit ==
  /\ \E entry \in InitialEntries : metadata = entry.meta /\ data = entry.data
  /\ load = [r \in Runs |-> NotLoading]

cache_entry_exists == "legacy" \in DOMAIN data \/ metadata # NoMetadata

---------------------------------------------------------------------------
(* Metadata.  The row count, the dates and the coverage of a frame are     *)
(* together its facts, the symbol and the window are the request; sealed   *)
(* says that the fingerprints are there and match.  Layout 1 has none.     *)

facts(frame) ==
  LET verdict == validate_benchmark_data(frame, BenchStart, BenchEnd)
  IN  IF verdict \in {"success", "insufficient_coverage"}
      THEN [rows |-> Len(frame), dates |-> Dates(frame)]
      ELSE [rows |-> 0, dates |-> {}]

cache_metadata_errors(meta, frame) ==
  (IF meta.request THEN {} ELSE {"request"})
    \cup (IF meta.sha256 = frame THEN {} ELSE {"sha256"})
    \cup (IF meta.facts = facts(frame) THEN {} ELSE {"facts"})
    \cup (IF meta.source = 0 THEN {"source"} ELSE {})
    \cup (IF meta.layout < 2 \/ meta.sealed THEN {} ELSE {"fingerprint"})

cache_reason_code(meta, frame) ==
  LET verdict == validate_benchmark_data(frame, BenchStart, BenchEnd)
      errors == cache_metadata_errors(meta, frame)
  IN  IF errors = {} /\ verdict = "success" THEN "cache_hit"
      ELSE IF "sha256" \in errors THEN "cache_sha_mismatch"
      ELSE IF verdict = "insufficient_coverage" THEN "cache_insufficient_coverage"
      ELSE IF errors # {} THEN "cache_metadata_mismatch"
      ELSE "cache_unreadable"

cache_attempt(reason) == <<[role |-> "cache", provider |-> 0, reason |-> reason]>>

metadata_for(r) ==
  [file |-> r, layout |-> 2, request |-> TRUE, sha256 |-> load[r].frame,
   facts |-> facts(load[r].frame), source |-> load[r].source, sealed |-> TRUE]

---------------------------------------------------------------------------
(* load_benchmark_with_cache *)

\* No entry: straight to the providers.  An entry stays what it is.
Look(r) ==
  /\ load[r].at = "look"
  /\ load' = [load EXCEPT ![r].at = IF cache_entry_exists THEN "metadata" ELSE "fetch",
                          ![r].status = IF cache_entry_exists THEN "invalid_preserved"
                                        ELSE "miss"]
  /\ UNCHANGED <<metadata, data>>

Rejected(r, reason) ==
  load' = [load EXCEPT ![r].at = "fetch", ![r].attempts = cache_attempt(reason)]

\* Data without metadata cannot be read.
ReadMetadata(r) ==
  /\ load[r].at = "metadata"
  /\ IF metadata = NoMetadata
     THEN Rejected(r, "cache_unreadable")
     ELSE load' = [load EXCEPT ![r].at = "data", ![r].cached = metadata]
  /\ UNCHANGED <<metadata, data>>

\* The data file the metadata named, whatever has been committed since.
ReadData(r) ==
  LET cached == load[r].cached
      found == cached.file \in DOMAIN data
      frame == data[cached.file]
  IN  /\ load[r].at = "data"
      /\ IF ~ found THEN Rejected(r, "cache_unreadable")
         ELSE IF cache_reason_code(cached, frame) # "cache_hit"
         THEN Rejected(r, cache_reason_code(cached, frame))
         ELSE load' = [load EXCEPT ![r].at = "loaded", ![r].status = "hit_valid",
                                   ![r].attempts = cache_attempt("success"),
                                   ![r].passed = TRUE, ![r].frame = frame,
                                   ![r].source = cached.source]
      /\ UNCHANGED <<metadata, data>>

FetchDaily(r) ==
  /\ load[r].at = "fetch"
  /\ \E answers \in ChainAnswers :
       LET result == fetch_daily(answers, BenchStart, BenchEnd)
       IN  load' = [load EXCEPT
             ![r].at = IF result.passed THEN "recheck" ELSE "loaded",
             ![r].attempts = @ \o result.attempts,
             ![r].passed = result.passed,
             ![r].frame = IF result.passed THEN answers[result.selected].frame ELSE <<>>,
             ![r].source = IF result.passed THEN result.selected ELSE 0]
  /\ UNCHANGED <<metadata, data>>

\* An entry that is there, whoever wrote it, is not replaced.
Recheck(r) ==
  /\ load[r].at = "recheck"
  /\ load' = [load EXCEPT ![r].at = IF cache_entry_exists THEN "loaded" ELSE "prepare",
                          ![r].status = IF cache_entry_exists THEN "invalid_preserved"
                                        ELSE @]
  /\ UNCHANGED <<metadata, data>>

WriteFailed(r) == load' = [load EXCEPT ![r].at = "loaded", ![r].status = "write_failed"]

\* _write_benchmark_cache looks once more, then writes its temporary files.
Prepare(r) ==
  /\ load[r].at = "prepare"
  /\ \/ ~ cache_entry_exists /\ load' = [load EXCEPT ![r].at = "publish"]
     \/ WriteFailed(r)
  /\ UNCHANGED <<metadata, data>>

\* Mutant of PublishData: the metadata is committed before the data are there.
PublishData_MetadataFirst(r) ==
  /\ load[r].at = "publish"
  /\ metadata' = metadata_for(r)
  /\ load' = [load EXCEPT ![r].at = "commit"]
  /\ UNCHANGED data

\* The data first, under the writer's own name.
PublishData(r) ==
  /\ load[r].at = "publish"
  /\ \/ /\ data' = [name \in DOMAIN data \cup {r} |->
                      IF name = r THEN load[r].frame ELSE data[name]]
        /\ load' = [load EXCEPT ![r].at = "commit"]
     \/ WriteFailed(r) /\ UNCHANGED data
  /\ UNCHANGED metadata

\* The metadata is the commit marker; it replaces what another run may have
\* committed in the meantime.
CommitMetadata(r) ==
  /\ load[r].at = "commit"
  /\ metadata' = metadata_for(r)
  /\ load' = [load EXCEPT ![r].at = "loaded", ![r].status = "written"]
  /\ UNCHANGED data

\* The rename failed: the data file goes, unless the metadata names it.
AbandonData(r) ==
  LET published == metadata # NoMetadata /\ metadata.file = r
  IN  /\ load[r].at = "commit"
      /\ WriteFailed(r)
      /\ data' = IF published THEN data
                 ELSE [name \in DOMAIN data \ {r} |-> data[name]]
      /\ UNCHANGED metadata

LoadStep(r) ==
  \/ Look(r) \/ ReadMetadata(r) \/ ReadData(r) \/ FetchDaily(r) \/ Recheck(r)
  \/ Prepare(r) \/ PublishData(r) \/ CommitMetadata(r) \/ AbandonData(r)

---------------------------------------------------------------------------
(* The warnings of a load, and the class each of them is recorded under    *)

\* How many attempts failed.
FailedOf(l, role) ==
  Cardinality({k \in DOMAIN l.attempts :
                 l.attempts[k].role = role /\ l.attempts[k].reason # "success"})

\* In the order load_benchmark_with_cache makes them.
load_warnings(l) ==
  [k \in 1..FailedOf(l, "cache") |-> "cache_rejected"]
    \o [k \in 1..FailedOf(l, "provider") |-> "provider_failed"]
    \o (IF l.status = "write_failed" THEN <<"write_failed">> ELSE <<>>)

\* _record_benchmark_attempt_warnings is given only the messages, and counts
\* the failed attempts off against them: [code, source] for each.
attempt_warnings(l) ==
  LET cached == FailedOf(l, "cache")
      tried == cached + FailedOf(l, "provider")
      chain == [code |-> IF l.passed THEN "FALLBACK_USED" ELSE "DATA_UNAVAILABLE",
                source |-> "benchmark_provider_chain"]
      cache == [code |-> "CACHE_REJECTED", source |-> "benchmark_cache"]
  IN  [k \in DOMAIN load_warnings(l) |->
         IF k <= cached THEN cache
         ELSE IF k <= tried THEN chain
         ELSE IF l.status = "write_failed" THEN cache ELSE chain]

---------------------------------------------------------------------------
(* Properties *)

\* Committed metadata always names a data file that is there and is exactly
\* what the metadata says of it, whoever writes or crashes meanwhile, so a
\* reader that finds an entry of the new layout can use it.
MetadataNamesItsGeneration ==
  metadata # NoMetadata /\ metadata.file \in Runs =>
    /\ metadata.file \in DOMAIN data
    /\ cache_reason_code(metadata, data[metadata.file]) = "cache_hit"
=============================================================================
