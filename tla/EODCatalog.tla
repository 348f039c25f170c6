------------------------------ MODULE EODCatalog ------------------------------
(***************************************************************************)
(* From configuration files to the catalog of runtimes that an operator    *)
(* command or a worker uses: market_data/operator_config.py, composition.py*)
(* and operation_catalog.py.                                               *)
(*                                                                         *)
(* A setup is what the administrator has on disk:                          *)
(*   root     the operations root, a path (a sequence of its parts)        *)
(*   entries  a sequence of [file, storage, enabled]                       *)
(*   configs  from file names to production configurations                 *)
(*   files    from paths to calendar and observation artifacts             *)
(* A configuration that cannot be read or is no YAML is missing here; the  *)
(* code tells the cases apart in its message only.  A digest stands for    *)
(* what it was computed from.                                              *)
(***************************************************************************)
EXTENDS EODCapabilities, EODObservation

NoPath        == <<>>
DefaultPolicy == "default"   \* EODProviderRetryPolicy(), EODProviderRateLimitPolicy()

LegacyVersion  == 1
CurrentVersion == 2

-----------------------------------------------------------------------------
(* composition.py: EODProductionConfig                                     *)

\* A configuration: [version, root, calendar, observation, dataset, providers,
\* retry, rate].
\* A legacy configuration has none of the optional fields.
valid_config_envelope(c) ==
  \/ c.version = CurrentVersion
  \/ /\ c.version = LegacyVersion
     /\ c.observation = NoPath
     /\ c.retry = DefaultPolicy /\ c.rate = DefaultPolicy

PathsDistinct(c) ==
  /\ c.root # c.calendar
  /\ c.observation # NoPath => c.observation \notin {c.root, c.calendar}

Declarations(c) == {lookup(c.providers[i]) : i \in DOMAIN c.providers}

ProvidersUsable(c) ==
  /\ c.providers # <<>>
  /\ ToSet(c.providers) \subseteq ProviderNames
  /\ NoRepetition(c.providers)
  /\ \A d \in Declarations(c) : supports(d, c.dataset)

\* Equity providers whose units were never compared are not chained.
MixedUnits(c) ==
  /\ c.dataset.asset = "equity"
  /\ Len(c.providers) > 1
  /\ \E d \in Declarations(c) : ~d.verified

NeedsObservation(c) ==
  /\ \E d \in Declarations(c) : d.observation_source_required
  /\ c.observation = NoPath

\* Mutant of config_error: chains of unverified equity units are accepted.
config_error_Mixed(c) ==
  IF ~(valid_config_envelope(c) /\ PathsDistinct(c) /\ ProvidersUsable(c))
  THEN "invalid_config"
  ELSE IF NeedsObservation(c) THEN "observation_expectation_required"
  ELSE IF c.dataset.asset = "index" /\ c.dataset.adjustment # "none"
       THEN "invalid_config"
  ELSE Loaded

config_error(c) ==
  IF ~(valid_config_envelope(c) /\ PathsDistinct(c) /\ ProvidersUsable(c))
  THEN "invalid_config"
  ELSE IF MixedUnits(c) THEN "mixed_equity_units_unverified"
  ELSE IF NeedsObservation(c) THEN "observation_expectation_required"
  ELSE IF c.dataset.asset = "index" /\ c.dataset.adjustment # "none"
       THEN "invalid_config"
  ELSE Loaded

load_eod_production_config(setup, file) ==
  IF file \notin DOMAIN setup.configs THEN "config_missing"
  ELSE config_error(setup.configs[file])

-----------------------------------------------------------------------------
(* composition.py: build_eod_runtime                                       *)

ExpectationOf(c, files) ==
  IF c.observation = NoPath THEN Strict ELSE files[c.observation]

\* The calendar is loaded before the observation evidence, which is checked
\* against it.
runtime_error(c, files) ==
  IF c.calendar \notin DOMAIN files THEN "source_missing"
  ELSE IF load_calendar(files[c.calendar]) # Loaded
       THEN load_calendar(files[c.calendar])
  ELSE IF c.observation = NoPath THEN Loaded
  ELSE IF \/ c.observation \notin DOMAIN files
          \/ load_observation(files[c.observation], Calendar(files[c.calendar]),
                              c.dataset) # Loaded
       THEN "observation_invalid"
  ELSE Loaded

build_eod_runtime(c, files) ==
  [dataset     |-> c.dataset,     version   |-> c.version,
   root        |-> c.root,        calendar  |-> Calendar(files[c.calendar]),
   expectation |-> ExpectationOf(c, files),
   providers   |-> c.providers,   retry     |-> c.retry,
   rate        |-> c.rate]

\* _default_provider_factory: only the Tushare adapter is given the evidence.
ProviderExpectation(runtime, name) ==
  IF name = "tushare_eod_equity" THEN runtime.expectation ELSE Strict

-----------------------------------------------------------------------------
(* operation_catalog.py: EODOperationCatalog, a set of entries             *)

MaxCatalogEntries == 256

EnabledEntries(entries) == {e \in entries : e.enabled}

\* The error of the constructor, of the runtimes of the entries in the list.
catalog_error(entries) ==
  IF Len(entries) = 0 THEN "catalog_empty"
  ELSE IF Len(entries) > MaxCatalogEntries THEN "catalog_too_large"
  ELSE IF ~NoRepetition([i \in DOMAIN entries |-> entries[i].runtime.dataset])
       THEN "duplicate_dataset"
  ELSE IF ~NoRepetition([i \in DOMAIN entries |-> entries[i].storage])
       THEN "duplicate_storage_identity"
  ELSE IF Cardinality({e.runtime.calendar.identity :
                         e \in EnabledEntries(ToSet(entries))}) > 1
       THEN "mixed_calendar_identity"
  ELSE Loaded

\* Mutants of entry_fingerprint: the root of the generations is included; the
\* observation evidence is left out.
entry_fingerprint_WithRoot(e) == [e EXCEPT !.runtime.calendar = <<>>]

\* What the fingerprint says of an entry: everything but paths.  The version
\* of a provider is fixed.
entry_fingerprint(e) ==
  [dataset   |-> e.runtime.dataset,  storage |-> e.storage,
   enabled   |-> e.enabled,          version |-> e.runtime.version,
   expectation |-> observation_identity(e.runtime.expectation),
   providers |-> e.runtime.providers,
   retry     |-> e.runtime.retry,    rate    |-> e.runtime.rate]

\* All enabled entries have the same calendar.
execution_context(catalog) ==
  [calendar    |-> {e.runtime.calendar.identity : e \in EnabledEntries(catalog)},
   fingerprint |-> {entry_fingerprint(e) : e \in catalog}]

EntryOf(catalog, dataset) == CHOOSE e \in catalog : e.runtime.dataset = dataset

require_enabled(catalog, dataset) ==
  IF \A e \in catalog : e.runtime.dataset # dataset THEN "dataset_not_in_catalog"
  ELSE IF ~EntryOf(catalog, dataset).enabled THEN "dataset_disabled"
  ELSE Loaded

-----------------------------------------------------------------------------
(* operator_config.py and EODOperationOperator._catalog                    *)

MaxOperatorDatasets == 256

load_eod_operator_config(setup) ==
  /\ Len(setup.entries) \in 1..MaxOperatorDatasets
  /\ NoRepetition([i \in DOMAIN setup.entries |-> setup.entries[i].storage])

\* _separate_roots: neither root is inside the other.
separate_roots(operations, generations) ==
  ~IsPrefix(operations, generations) /\ ~IsPrefix(generations, operations)

ConfigOf(setup, i) == setup.configs[setup.entries[i].file]

Runtimes(setup) ==
  [i \in DOMAIN setup.entries |->
     [storage |-> setup.entries[i].storage,
      enabled |-> setup.entries[i].enabled,
      runtime |-> build_eod_runtime(ConfigOf(setup, i), setup.files)]]

\* Two errors have a code of their own; all the others are one.
operator_catalog_error(setup) ==
  LET indices == DOMAIN setup.entries IN
  IF \E i \in indices :
       load_eod_production_config(setup, setup.entries[i].file) # Loaded
  THEN "catalog_unavailable"
  ELSE IF ~NoRepetition([i \in indices |-> ConfigOf(setup, i).dataset])
       THEN "duplicate_dataset"
  ELSE IF \E i \in indices : ~separate_roots(setup.root, ConfigOf(setup, i).root)
       THEN "roots_not_separate"
  ELSE IF \/ \E i \in indices : runtime_error(ConfigOf(setup, i), setup.files) # Loaded
          \/ catalog_error(Runtimes(setup)) # Loaded
       THEN "catalog_unavailable"
  ELSE Loaded

operator_catalog(setup) == ToSet(Runtimes(setup))
=============================================================================
