--------------------------- MODULE EODCapabilities ---------------------------
(***************************************************************************)
(* Which provider can serve which dataset, and in which units (market_data/*)
(* capability_registry.py, and EODProviderCapability and                   *)
(* validate_eod_provider_request of providers.py).  The market and the     *)
(* frequency have one value each and are left out; the text forms of the   *)
(* registry and their digests too.                                         *)
(***************************************************************************)
EXTENDS Naturals, FiniteSetsExt

Venues          == {"SSE", "SZSE"}
\* A dataset key: [symbol, venue, asset, adjustment].
\* The capability of a provider for datasets of one kind.
Capability(venue, asset, adjustment, strategy) ==
  [venue |-> venue, asset |-> asset, adjustment |-> adjustment,
   strategy |-> strategy, overlap |-> 0]

\* EODProviderCapability.__post_init__: 0 stands for no maximum.
valid_capability(c) ==
  IF c.strategy = "overlap_window" THEN c.overlap > 0 ELSE c.overlap = 0

matches(c, dataset) ==
  /\ c.venue = dataset.venue
  /\ c.asset = dataset.asset
  /\ c.adjustment = dataset.adjustment

\* validate_eod_provider_request: exactly one capability fits.
RequestSupported(capabilities, dataset) ==
  Cardinality({c \in capabilities : matches(c, dataset)}) = 1

-----------------------------------------------------------------------------
(* EODProviderCapabilityDeclaration                                        *)

\* The units a declaration may have.  Only units that were compared with the
\* source may be called verified.
UnitPairs == {<<"shares", "CNY_yuan">>, <<"source_value", "source_value">>}

ScopesMatch(d) ==
  /\ d.assets = {c.asset : c \in d.capabilities}
  /\ d.adjustments = {c.adjustment : c \in d.capabilities}
  /\ d.venues = {c.venue : c \in d.capabilities}

Ambiguous(d) ==
  \E c, e \in d.capabilities :
    /\ c # e
    /\ c.venue = e.venue /\ c.asset = e.asset /\ c.adjustment = e.adjustment

\* __post_init__ of a declaration.
valid_declaration(d) ==
  /\ d.capabilities # {}
  /\ \A c \in d.capabilities : valid_capability(c)
  /\ ~Ambiguous(d)
  /\ ScopesMatch(d)
  /\ <<d.volume_unit, d.amount_unit>> \in UnitPairs
  /\ d.verified => d.volume_unit # "source_value"
  /\ d.has_credential_variable = d.credential_required

\* The indices AKShare is asked for.
IndexSymbols == {"000001.SH", "000300.SH", "000905.SH", "000852.SH",
                 "399001.SZ", "399006.SZ"}

supports(d, dataset) ==
  /\ \E c \in d.capabilities : matches(c, dataset)
  /\ d.assets = {"index"} => dataset.symbol \in IndexSymbols

-----------------------------------------------------------------------------
(* build_default_eod_capability_registry                                   *)

Declaration(capabilities, units, verified, observation, credential) ==
  [capabilities |-> capabilities,
   assets       |-> {c.asset : c \in capabilities},
   adjustments  |-> {c.adjustment : c \in capabilities},
   venues       |-> {c.venue : c \in capabilities},
   volume_unit  |-> units[1], amount_unit |-> units[2],
   verified     |-> verified,
   observation_source_required |-> observation,
   credential_required         |-> credential,
   has_credential_variable     |-> credential]

Unadjusted(asset) == {Capability(v, asset, "none", "append_only") : v \in Venues}

Readjusted == {Capability(v, "equity", a, "full_refresh_required") :
                 v \in Venues, a \in {"qfq", "hfq"}}

IndexDeclaration ==
  Declaration(Unadjusted("index"), <<"source_value", "source_value">>,
              FALSE, FALSE, FALSE)

Registry ==
  [akshare_eod_equity |->
     Declaration(Unadjusted("equity") \cup Readjusted, <<"shares", "CNY_yuan">>,
                 FALSE, FALSE, FALSE),
   akshare_eod_index       |-> IndexDeclaration,
   akshare_eod_index_daily |-> IndexDeclaration,
   tushare_eod_equity |->
     Declaration(Unadjusted("equity"), <<"shares", "CNY_yuan">>, TRUE, TRUE, TRUE)]

ProviderNames == DOMAIN Registry
lookup(name)  == Registry[name]

ASSUME RegistryAssumption == \A n \in ProviderNames : valid_declaration(lookup(n))
=============================================================================
