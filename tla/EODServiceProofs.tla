--------------------------- MODULE EODServiceProofs ---------------------------
(***************************************************************************)
(* Proofs about EODService, for any setups, datasets, commands and days.   *)
(***************************************************************************)
EXTENDS EODService, FunctionTheorems, FiniteSetTheorems, TLAPS

-----------------------------------------------------------------------------
(* Sequences, orders, least and greatest days                              *)

\* A sequence is the function of its elements.
LEMMA SequenceFacts ==
  ASSUME NEW s, IsSequence(s)
  PROVE  /\ Len(s) \in Nat
         /\ DOMAIN s = 1..Len(s)
         /\ \A n \in 1..Len(s) : s[n] \in ToSet(s)
         /\ IsFiniteSet(ToSet(s))
  <1>1. /\ Len(s) \in Nat /\ DOMAIN s = 1..Len(s)
        /\ \A n \in 1..Len(s) : s[n] \in ToSet(s)
        /\ s \in [1..Len(s) -> ToSet(s)]
    BY DEF IsSequence
  <1>2. \A e \in ToSet(s) : \E n \in 1..Len(s) : s[n] = e
    BY <1>1 DEF ToSet
  <1>3. s \in Surjection(1..Len(s), ToSet(s))
    BY <1>1, <1>2, Fun_IsSurj
  <1>4. IsFiniteSet(1..Len(s))
    BY <1>1, FS_Interval
  <1> QED BY <1>1, <1>3, <1>4, FS_Surjection

\* In a sequence without repetition a value has one place.
LEMMA OnePlace ==
  ASSUME NEW s, NEW n \in Nat, DOMAIN s = 1..n, s = [m \in 1..n |-> s[m]],
         NoRepetition(s), NEW a \in 1..n, NEW b \in 1..n, s[a] = s[b]
  PROVE  a = b
  <1>1. s \in [1..n -> ToSet(s)] /\ \A e \in ToSet(s) : \E m \in 1..n : s[m] = e
    BY DEF ToSet
  <1>2. s \in Surjection(1..n, ToSet(s))
    BY <1>1, Fun_IsSurj
  <1>3. s \in Seq(ToSet(s)) /\ Len(s) = n
    BY <1>1
  <1>4. IsFiniteSet(1..n) /\ Cardinality(1..n) = n
    BY FS_Interval
  <1>5. s \in Injection(1..n, ToSet(s))
    BY <1>2, <1>3, <1>4, FS_Surjection DEF NoRepetition
  <1> QED BY <1>5 DEF Injection, IsInjective

StrictOrder(S, before) ==
  \A a, b, c \in S :
    /\ <<a, a>> \notin before
    /\ <<a, b>> \in before /\ <<b, c>> \in before => <<a, c>> \in before
    /\ a = b \/ <<a, b>> \in before \/ <<b, a>> \in before

\* The elements of a finite set can be listed in any strict order: no two of
\* them have equally many before them.
LEMMA Listed ==
  ASSUME NEW S, IsFiniteSet(S), NEW before, StrictOrder(S, before)
  PROVE  /\ Cardinality(S) \in Nat
         /\ DOMAIN InOrder(S, before) = 1..Cardinality(S)
         /\ \A n \in 1..Cardinality(S) :
              LET e == InOrder(S, before)[n] IN
              e \in S /\ Cardinality({f \in S : <<f, e>> \in before}) = n - 1
  <1> DEFINE Below(e) == {f \in S : <<f, e>> \in before}
             rank == [e \in S |-> Cardinality(Below(e)) + 1]
             m == Cardinality(S)
  <1>1. m \in Nat
    BY FS_CardinalityType
  <1>2. ASSUME NEW e \in S
        PROVE  /\ IsFiniteSet(Below(e)) /\ Cardinality(Below(e)) \in Nat
               /\ Cardinality(Below(e)) < m
    <2>1. e \notin Below(e) /\ Below(e) \in SUBSET S
      BY DEF StrictOrder
    <2>2. IsFiniteSet(Below(e)) /\ Cardinality(Below(e)) <= m /\ Cardinality(Below(e)) # m
      <3> HIDE DEF Below
      <3> QED BY <2>1, FS_Subset
    <2>3. Cardinality(Below(e)) \in Nat
      BY <2>2, FS_CardinalityType
    <2> HIDE DEF Below, m
    <2> QED BY <1>1, <2>2, <2>3
  <1>3. rank \in [S -> 1..m]
    <2> HIDE DEF Below, m
    <2> QED BY <1>1, <1>2
  <1>4. ASSUME NEW a \in S, NEW b \in S, <<a, b>> \in before
        PROVE  rank[a] # rank[b]
    <2>1. a \in Below(b) /\ a \notin Below(a) /\ Below(a) \in SUBSET Below(b)
      BY <1>4 DEF StrictOrder
    <2>2. Cardinality(Below(a)) # Cardinality(Below(b))
      <3> HIDE DEF Below
      <3> QED BY <2>1, <1>2, FS_Subset
    <2> HIDE DEF Below
    <2> QED BY <1>2, <2>2
  <1>5. \A a, b \in S : rank[a] = rank[b] => a = b
    <2> HIDE DEF rank
    <2> QED BY <1>4 DEF StrictOrder
  <1>6. rank \in Injection(S, 1..m)
    <2> HIDE DEF rank, m
    <2> QED BY <1>3, <1>5, Fun_IsInj
  <1>7. IsFiniteSet(1..m) /\ Cardinality(1..m) = m
    <2> HIDE DEF m
    <2> QED BY <1>1, FS_Interval
  <1>8. rank \in Surjection(S, 1..m)
    <2> HIDE DEF rank
    <2> QED BY <1>6, <1>7, FS_Injection
  <1>9. ASSUME NEW n \in 1..m
        PROVE  \E e \in S : Cardinality(Below(e)) = n - 1
    <2>1. PICK e \in S : rank[e] = n
      <3> HIDE DEF rank, m
      <3> QED BY <1>8 DEF Surjection
    <2>2. Cardinality(Below(e)) + 1 = n /\ Cardinality(Below(e)) \in Nat
      BY <2>1, <1>2
    <2> HIDE DEF Below
    <2> QED BY <1>1, <2>2
  <1>10. ASSUME NEW n \in 1..m
         PROVE  /\ InOrder(S, before)[n] \in S
                /\ Cardinality(Below(InOrder(S, before)[n])) = n - 1
    <2>1. InOrder(S, before)[n] = CHOOSE e \in S : Cardinality(Below(e)) = n - 1
      BY DEF InOrder
    <2> HIDE DEF Below, m
    <2> QED BY <1>9, <2>1
  <1>11. DOMAIN InOrder(S, before) = 1..m
    BY DEF InOrder
  <1> QED BY <1>1, <1>10, <1>11

LEMMA AscendingFacts ==
  ASSUME NEW S \in SUBSET Nat, IsFiniteSet(S)
  PROVE  /\ Cardinality(S) \in Nat
         /\ DOMAIN Ascending(S) = 1..Cardinality(S)
         /\ \A n \in 1..Cardinality(S) :
              LET e == Ascending(S)[n] IN
              e \in S /\ Cardinality({f \in S : f < e}) = n - 1
  <1> DEFINE before == {p \in S \X S : p[1] < p[2]}
  <1>1. \A a, b \in S : <<a, b>> \in before <=> a < b
    OBVIOUS
  <1>2. StrictOrder(S, before)
    <2> SUFFICES ASSUME NEW a \in S, NEW b \in S, NEW c \in S
                 PROVE  /\ ~(a < a)
                        /\ a < b /\ b < c => a < c
                        /\ a = b \/ a < b \/ b < a
      <3> HIDE DEF before
      <3> QED BY <1>1 DEF StrictOrder
    <2> a \in Nat /\ b \in Nat /\ c \in Nat
      OBVIOUS
    <2> QED OBVIOUS
  <1>3. Ascending(S) = InOrder(S, before)
    BY DEF Ascending
  <1> HIDE DEF before
  <1>4. \A e \in S : {f \in S : <<f, e>> \in before} = {f \in S : f < e}
    BY <1>1
  <1>5. /\ Cardinality(S) \in Nat
        /\ DOMAIN InOrder(S, before) = 1..Cardinality(S)
        /\ \A n \in 1..Cardinality(S) :
             LET e == InOrder(S, before)[n] IN
             e \in S /\ Cardinality({f \in S : <<f, e>> \in before}) = n - 1
    BY <1>2, Listed
  <1> QED BY <1>3, <1>4, <1>5

\* What is picked from a sequence is a sequence of the elements at the places.
LEMMA PickedSome ==
  ASSUME NEW T, NEW U, NEW s \in Seq(U), NEW places \in SUBSET DOMAIN s,
         \A n \in places : s[n] \in T
  PROVE  /\ Picked(s, places) \in Seq(T)
         /\ places # {} => Picked(s, places) # <<>>
  <1>1. DOMAIN s = 1..Len(s) /\ Len(s) \in Nat
    OBVIOUS
  <1>2. IsFiniteSet(places) /\ places \in SUBSET Nat
    <2>1. IsFiniteSet(1..Len(s)) /\ places \in SUBSET (1..Len(s))
      BY <1>1, FS_Interval
    <2> QED BY <2>1, FS_Subset
  <1> DEFINE order == Ascending(places)
             m == Cardinality(places)
  <1>3. m \in Nat /\ DOMAIN order = 1..m /\ \A n \in 1..m : order[n] \in places
    BY <1>2, AscendingFacts
  <1>4. places # {} => m # 0
    <2> QED BY <1>2, FS_EmptySet
  <1>5. Picked(s, places) = [n \in DOMAIN order |-> s[order[n]]]
    BY DEF Picked
  <1> HIDE DEF order, m
  <1>6. Picked(s, places) \in [1..m -> T]
    BY <1>3, <1>5
  <1>7. ASSUME places # {} PROVE Picked(s, places) # <<>>
    <2>1. 1 \in DOMAIN Picked(s, places)
      BY <1>3, <1>4, <1>6, <1>7
    <2> QED BY <2>1
  <1> QED BY <1>3, <1>6, <1>7

LEMMA PickedFacts ==
  ASSUME NEW T, NEW s \in Seq(T), NEW places \in SUBSET DOMAIN s
  PROVE  Picked(s, places) \in Seq(T)
  <1>1. \A n \in DOMAIN s : s[n] \in T
    OBVIOUS
  <1> QED BY <1>1, PickedSome

\* The least and the greatest of a set of days are in it and bound it.
LEMMA MinMax ==
  ASSUME NEW S \in SUBSET Nat, S # {}, IsFiniteSet(S)
  PROVE  /\ Min(S) \in S /\ \A d \in S : Min(S) <= d
         /\ Max(S) \in S /\ \A d \in S : d <= Max(S)
  <1> DEFINE m == Cardinality(S)
             Below(e) == {f \in S : f < e}
  <1>1. m \in Nat \ {0}
    BY AscendingFacts, FS_EmptySet
  <1>a. \A n \in 1..m : Ascending(S)[n] \in S /\ Cardinality(Below(Ascending(S)[n])) = n - 1
    BY AscendingFacts
  <1>2. PICK lo \in S : Cardinality(Below(lo)) = 0
    <2> HIDE DEF m, Below
    <2>1. 1 \in 1..m /\ 1 - 1 = 0
      BY <1>1
    <2> QED BY <2>1, <1>a
  <1>3. PICK hi \in S : Cardinality(Below(hi)) = m - 1
    <2> HIDE DEF m, Below
    <2>1. m \in 1..m
      BY <1>1
    <2> QED BY <2>1, <1>a
  <1>4. ASSUME NEW d \in S PROVE lo <= d
    <2>1. IsFiniteSet(Below(lo))
      <3>1. Below(lo) \in SUBSET S
        OBVIOUS
      <3> HIDE DEF Below
      <3> QED BY <3>1, FS_Subset
    <2>2. Below(lo) = {}
      <3> HIDE DEF Below
      <3> QED BY <1>2, <2>1, FS_EmptySet
    <2> QED BY <2>2
  <1>5. ASSUME NEW d \in S PROVE d <= hi
    <2>1. Below(hi) \in SUBSET (S \ {hi})
      OBVIOUS
    <2>2. IsFiniteSet(S \ {hi}) /\ Cardinality(S \ {hi}) = m - 1
      BY FS_RemoveElement
    <2>3. Below(hi) = S \ {hi}
      <3> HIDE DEF Below, m
      <3> QED BY <1>3, <2>1, <2>2, FS_Subset
    <2> QED BY <2>3
  <1> HIDE DEF m, Below
  <1>6. Min(S) \in S /\ \A d \in S : Min(S) <= d
    BY <1>4 DEF Min
  <1>7. Max(S) \in S /\ \A d \in S : Max(S) >= d
    BY <1>5 DEF Max
  <1> QED BY <1>6, <1>7

-----------------------------------------------------------------------------
(* Catalogs                                                                *)

\* An entry of a catalog, and a runtime, have these parts and no others.
Shaped(e) ==
  LET r == e.runtime IN
  /\ e = [storage |-> e.storage, enabled |-> e.enabled, runtime |-> r]
  /\ r = [dataset |-> r.dataset, version |-> r.version, root |-> r.root,
          calendar |-> r.calendar, expectation |-> r.expectation,
          providers |-> r.providers, retry |-> r.retry, rate |-> r.rate]

\* A catalog that loads comes from a list of entries, each with a configuration
\* that was accepted.
LEMMA LoadedEntries ==
  ASSUME NEW i \in Loadable
  PROVE  LET setup == Setups[i] IN
         /\ i \in DOMAIN Setups
         /\ Catalog[i] = ToSet(Runtimes(setup))
         /\ catalog_error(Runtimes(setup)) = Loaded
         /\ \A n \in DOMAIN setup.entries :
              /\ setup.entries[n].file \in DOMAIN setup.configs
              /\ config_error(ConfigOf(setup, n)) = Loaded
  <1> DEFINE setup == Setups[i]
  <1>1. i \in DOMAIN Setups /\ CatalogError[i] = Loaded
    BY DEF Loadable
  <1>2. operator_catalog_error(setup) = Loaded
    BY <1>1 DEF CatalogError, Loaded
  <1>3. Catalog[i] = ToSet(Runtimes(setup))
    BY <1>1 DEF Catalog, operator_catalog
  <1>4. catalog_error(Runtimes(setup)) = Loaded
    BY <1>2 DEF operator_catalog_error, Loaded
  <1>5. ASSUME NEW n \in DOMAIN setup.entries
        PROVE  /\ setup.entries[n].file \in DOMAIN setup.configs
               /\ config_error(ConfigOf(setup, n)) = Loaded
    <2>1. load_eod_production_config(setup, setup.entries[n].file) = Loaded
      BY <1>2 DEF operator_catalog_error, Loaded
    <2> QED BY <2>1 DEF load_eod_production_config, Loaded, ConfigOf
  <1> QED BY <1>1, <1>3, <1>4, <1>5

LEMMA EntryFacts ==
  ASSUME NEW i \in Loadable, NEW e \in Catalog[i]
  PROVE  /\ Shaped(e)
         /\ e.runtime.dataset \in DatasetsOf(i)
         /\ \E n \in DOMAIN Setups[i].entries :
              LET c == ConfigOf(Setups[i], n) IN
              /\ config_error(c) = Loaded
              /\ IsSequence(c.providers)
              /\ e.runtime.dataset = c.dataset
              /\ e.runtime.providers = c.providers
  <1> DEFINE setup == Setups[i]
  <1>1. PICK n \in DOMAIN setup.entries : e = Runtimes(setup)[n]
    <2>1. e \in ToSet(Runtimes(setup))
      BY LoadedEntries
    <2>2. DOMAIN Runtimes(setup) = DOMAIN setup.entries
      BY DEF Runtimes
    <2> QED BY <2>1, <2>2 DEF ToSet
  <1>2. e = [storage |-> setup.entries[n].storage, enabled |-> setup.entries[n].enabled,
             runtime |-> build_eod_runtime(ConfigOf(setup, n), setup.files)]
    BY <1>1 DEF Runtimes
  <1>3. config_error(ConfigOf(setup, n)) = Loaded /\ IsSequence(ConfigOf(setup, n).providers)
    BY LoadedEntries, ServiceAssumption DEF ConfigOf
  <1>4. Shaped(e)
    BY <1>2 DEF Shaped, build_eod_runtime
  <1>5. /\ e.runtime.dataset = ConfigOf(setup, n).dataset
        /\ e.runtime.providers = ConfigOf(setup, n).providers
    BY <1>2 DEF build_eod_runtime
  <1>6. e.runtime.dataset \in DatasetsOf(i)
    BY DEF DatasetsOf
  <1> QED BY <1>3, <1>4, <1>5, <1>6

\* No two entries of a catalog have the same dataset.
LEMMA OneEntry ==
  ASSUME NEW i \in Loadable, NEW e \in Catalog[i], NEW f \in Catalog[i],
         e.runtime.dataset = f.runtime.dataset
  PROVE  e = f
  <1> DEFINE list == Runtimes(Setups[i])
             datasets == [n \in DOMAIN list |-> list[n].runtime.dataset]
             m == Len(Setups[i].entries)
  <1>1. Catalog[i] = ToSet(list) /\ catalog_error(list) = Loaded /\ i \in DOMAIN Setups
    BY LoadedEntries
  <1>2. m \in Nat /\ DOMAIN list = 1..m
    BY <1>1, ServiceAssumption, SequenceFacts DEF Runtimes
  <1>3. NoRepetition(datasets)
    BY <1>1 DEF catalog_error, Loaded
  <1>4. PICK a \in 1..m, b \in 1..m : e = list[a] /\ f = list[b]
    BY <1>1, <1>2 DEF ToSet
  <1> HIDE DEF list, m
  <1>5. DOMAIN datasets = 1..m /\ datasets = [n \in 1..m |-> datasets[n]]
        /\ datasets[a] = datasets[b]
    BY <1>2, <1>4
  <1> HIDE DEF datasets
  <1>6. a = b
    BY <1>2, <1>3, <1>5, OnePlace
  <1> QED BY <1>4, <1>6

\* What a command looks up in a catalog is the entry of the dataset.
LEMMA EntryOfDataset ==
  ASSUME NEW i \in Loadable, NEW k \in DatasetsOf(i)
  PROVE  /\ EntryOf(Catalog[i], k) \in Catalog[i]
         /\ EntryOf(Catalog[i], k).runtime.dataset = k
         /\ \A e \in Catalog[i] : e.runtime.dataset = k => e = EntryOf(Catalog[i], k)
  <1>1. \E e \in Catalog[i] : e.runtime.dataset = k
    BY DEF DatasetsOf
  <1>2. /\ EntryOf(Catalog[i], k) \in Catalog[i]
        /\ EntryOf(Catalog[i], k).runtime.dataset = k
    BY <1>1 DEF EntryOf
  <1> QED BY <1>2, OneEntry

\* The enabled entries of a catalog share the identity of their calendar.
LEMMA OneCalendar ==
  ASSUME NEW i \in Loadable, NEW e \in EnabledEntries(Catalog[i]),
         NEW f \in EnabledEntries(Catalog[i])
  PROVE  e.runtime.calendar = f.runtime.calendar
  <1> DEFINE list == Runtimes(Setups[i])
             Identities == {g.runtime.calendar.identity : g \in EnabledEntries(Catalog[i])}
             m == Len(Setups[i].entries)
  <1>1. Catalog[i] = ToSet(list) /\ catalog_error(list) = Loaded /\ i \in DOMAIN Setups
    BY LoadedEntries
  <1>2. ~(Cardinality(Identities) > 1)
    BY <1>1 DEF catalog_error, Loaded
  <1>3. m \in Nat /\ DOMAIN list = 1..m
    BY <1>1, ServiceAssumption, SequenceFacts DEF Runtimes
  <1>4. IsFiniteSet(Identities)
    <2> DEFINE identity == [n \in 1..m |-> list[n].runtime.calendar.identity]
               All == {identity[n] : n \in 1..m}
    <2>1. identity \in Surjection(1..m, All)
      <3>1. identity \in [1..m -> All] /\ \A y \in All : \E n \in 1..m : identity[n] = y
        OBVIOUS
      <3> HIDE DEF identity, All
      <3> QED BY <3>1, Fun_IsSurj
    <2>2. IsFiniteSet(All)
      <3>1. IsFiniteSet(1..m)
        <4> HIDE DEF m
        <4>1. 1 \in Int /\ m \in Int
          BY <1>3
        <4> QED BY <4>1, FS_Interval
      <3> HIDE DEF identity, All, m
      <3> QED BY <2>1, <3>1, FS_Surjection
    <2>3. Identities \in SUBSET All
      BY <1>1, <1>3 DEF EnabledEntries, ToSet
    <2> HIDE DEF All, Identities
    <2> QED BY <2>2, <2>3, FS_Subset
  <1>5. e.runtime.calendar.identity \in Identities /\ f.runtime.calendar.identity \in Identities
    OBVIOUS
  <1>6. e.runtime.calendar.identity = f.runtime.calendar.identity
    <2> HIDE DEF Identities
    <2>1. SUFFICES ASSUME NEW a \in Identities, NEW b \in Identities, a # b
                   PROVE  FALSE
      BY <1>5
    <2>2. /\ IsFiniteSet(Identities \ {a}) /\ IsFiniteSet((Identities \ {a}) \ {b})
          /\ Cardinality(Identities \ {a}) = Cardinality(Identities) - 1
          /\ Cardinality((Identities \ {a}) \ {b}) = Cardinality(Identities) - 2
      <3>1. /\ IsFiniteSet(Identities \ {a})
            /\ Cardinality(Identities \ {a}) = Cardinality(Identities) - 1
        BY <1>4, FS_RemoveElement
      <3>2. b \in Identities \ {a}
        BY <2>1
      <3>3. /\ IsFiniteSet((Identities \ {a}) \ {b})
            /\ Cardinality((Identities \ {a}) \ {b}) = Cardinality(Identities \ {a}) - 1
        BY <3>1, <3>2, FS_RemoveElement
      <3>4. Cardinality(Identities) \in Nat
        BY <1>4, FS_CardinalityType
      <3> QED BY <3>1, <3>3, <3>4
    <2>3. Cardinality(Identities) \in Nat /\ Cardinality((Identities \ {a}) \ {b}) \in Nat
      BY <1>4, <2>2, FS_CardinalityType
    <2> QED BY <1>2, <2>2, <2>3
  <1>7. /\ e \in Catalog[i] /\ f \in Catalog[i]
        /\ e = EntryOf(Catalog[i], e.runtime.dataset)
        /\ f = EntryOf(Catalog[i], f.runtime.dataset)
        /\ e.runtime.dataset \in DatasetsOf(i) /\ f.runtime.dataset \in DatasetsOf(i)
    BY EntryFacts, EntryOfDataset DEF EnabledEntries
  <1>8. e.runtime = RuntimeOf(i, e.runtime.dataset) /\ f.runtime = RuntimeOf(i, f.runtime.dataset)
    BY <1>7 DEF RuntimeOf
  <1> QED BY <1>6, <1>7, <1>8, VersionedCalendars

-----------------------------------------------------------------------------
(* Contexts                                                                *)

\* Two setups with one context run a dataset with the same runtime, but for
\* where its generations are.
LEMMA SameContext ==
  ASSUME NEW i \in Loadable, NEW j \in Loadable, Context[i] = Context[j],
         NEW k, require_enabled(Catalog[i], k) = Loaded
  PROVE  /\ k \in DatasetsOf(i) /\ k \in DatasetsOf(j)
         /\ Relocated(RuntimeOf(i, k)) = Relocated(RuntimeOf(j, k))
  <1> DEFINE e == EntryOf(Catalog[i], k)
  <1>1. k \in DatasetsOf(i) /\ e.enabled
    BY DEF require_enabled, Loaded, DatasetsOf
  <1>2. /\ e \in Catalog[i] /\ e.enabled
        /\ e.runtime.dataset = k /\ RuntimeOf(i, k) = e.runtime
    BY <1>1, EntryOfDataset DEF RuntimeOf
  <1> HIDE DEF e
  <1>3. /\ Context[i].fingerprint = {entry_fingerprint(x) : x \in Catalog[i]}
        /\ Context[j].fingerprint = {entry_fingerprint(x) : x \in Catalog[j]}
        /\ Context[i].calendar = {x.runtime.calendar.identity : x \in EnabledEntries(Catalog[i])}
        /\ Context[j].calendar = {x.runtime.calendar.identity : x \in EnabledEntries(Catalog[j])}
    BY DEF Context, execution_context
  <1>4. PICK f \in Catalog[j] : entry_fingerprint(e) = entry_fingerprint(f)
    <2>1. entry_fingerprint(e) \in {entry_fingerprint(x) : x \in Catalog[i]}
      BY <1>2
    <2>2. Context[j].fingerprint = {entry_fingerprint(x) : x \in Catalog[i]}
      BY <1>3, Zenon
    <2> QED BY <1>3, <2>1, <2>2
  <1>5. /\ f.runtime.dataset = k /\ f.enabled = e.enabled
        /\ f.runtime.version = e.runtime.version
        /\ f.runtime.expectation = e.runtime.expectation
        /\ f.runtime.providers = e.runtime.providers
        /\ f.runtime.retry = e.runtime.retry /\ f.runtime.rate = e.runtime.rate
    BY <1>2, <1>4 DEF entry_fingerprint, observation_identity
  <1>6. k \in DatasetsOf(j) /\ RuntimeOf(j, k) = f.runtime
    <2>1. k \in DatasetsOf(j)
      BY <1>5 DEF DatasetsOf
    <2> QED BY <1>5, <2>1, EntryOfDataset DEF RuntimeOf
  <1>7. f.runtime.calendar = e.runtime.calendar
    <2>1. e \in EnabledEntries(Catalog[i]) /\ f \in EnabledEntries(Catalog[j])
      BY <1>2, <1>5 DEF EnabledEntries
    <2>2. PICK g \in EnabledEntries(Catalog[j]) :
            g.runtime.calendar.identity = e.runtime.calendar.identity
      BY <1>3, <2>1
    <2>3. g.runtime.calendar = f.runtime.calendar
      BY <2>1, OneCalendar
    <2>4. f.runtime.calendar.identity = e.runtime.calendar.identity
      BY <2>2, <2>3
    <2> QED BY <1>1, <1>2, <1>6, <2>4, VersionedCalendars
  <1>8. Shaped(e) /\ Shaped(f)
    BY <1>2, EntryFacts
  <1>9. Relocated(e.runtime) = Relocated(f.runtime)
    BY <1>2, <1>5, <1>7, <1>8 DEF Shaped, Relocated
  <1> QED BY <1>1, <1>2, <1>6, <1>9

\* A context follows from the entries, and not from where the generations are.
LEMMA ContextOfEntries ==
  ASSUME NEW i \in Loadable, NEW j \in Loadable, Entries(i) = Entries(j)
  PROVE  Context[i] = Context[j]
  <1> DEFINE Moved(e) == [e EXCEPT !.runtime = Relocated(e.runtime)]
  <1>1. ASSUME NEW h \in Loadable, NEW e \in Catalog[h]
        PROVE  /\ entry_fingerprint(Moved(e)) = entry_fingerprint(e)
               /\ Moved(e).enabled = e.enabled
               /\ Moved(e).runtime.calendar = e.runtime.calendar
    <2>1. Shaped(e)
      BY EntryFacts
    <2>2. /\ Relocated(e.runtime).dataset = e.runtime.dataset
          /\ Relocated(e.runtime).version = e.runtime.version
          /\ Relocated(e.runtime).calendar = e.runtime.calendar
          /\ Relocated(e.runtime).expectation = e.runtime.expectation
          /\ Relocated(e.runtime).providers = e.runtime.providers
          /\ Relocated(e.runtime).retry = e.runtime.retry
          /\ Relocated(e.runtime).rate = e.runtime.rate
      BY <2>1 DEF Shaped, Relocated
    <2>3. /\ Moved(e).runtime = Relocated(e.runtime)
          /\ Moved(e).enabled = e.enabled /\ Moved(e).storage = e.storage
      BY <2>1 DEF Shaped
    <2> HIDE DEF Moved
    <2> QED BY <2>2, <2>3 DEF entry_fingerprint
  <1>2. ASSUME NEW h \in Loadable
        PROVE  /\ Context[h].fingerprint = {entry_fingerprint(x) : x \in Entries(h)}
               /\ Context[h].calendar =
                    {x.runtime.calendar.identity : x \in {x \in Entries(h) : x.enabled}}
               /\ Context[h] = [calendar |-> Context[h].calendar,
                                fingerprint |-> Context[h].fingerprint]
    <2>1. Context[h] = [calendar |-> {e.runtime.calendar.identity : e \in EnabledEntries(Catalog[h])},
                        fingerprint |-> {entry_fingerprint(e) : e \in Catalog[h]}]
      BY DEF Context, execution_context
    <2>2. Entries(h) = {Moved(e) : e \in Catalog[h]}
      BY DEF Entries
    <2> HIDE DEF Moved
    <2>3. {entry_fingerprint(x) : x \in Entries(h)} = {entry_fingerprint(e) : e \in Catalog[h]}
      BY <1>1, <2>2
    <2>4. {x.runtime.calendar.identity : x \in {x \in Entries(h) : x.enabled}} =
            {e.runtime.calendar.identity : e \in EnabledEntries(Catalog[h])}
      <3>1. {x \in Entries(h) : x.enabled} = {Moved(e) : e \in EnabledEntries(Catalog[h])}
        BY <1>1, <2>2 DEF EnabledEntries
      <3>2. \A e \in EnabledEntries(Catalog[h]) :
              Moved(e).runtime.calendar = e.runtime.calendar
        BY <1>1 DEF EnabledEntries
      <3> HIDE DEF EnabledEntries
      <3> QED BY <3>1, <3>2
    <2>5. /\ Context[h].calendar =
               {e.runtime.calendar.identity : e \in EnabledEntries(Catalog[h])}
          /\ Context[h].fingerprint = {entry_fingerprint(e) : e \in Catalog[h]}
          /\ Context[h] = [calendar |-> Context[h].calendar,
                           fingerprint |-> Context[h].fingerprint]
      BY <2>1
    <2> QED BY <2>3, <2>4, <2>5, Zenon
  <1> QED BY <1>2

-----------------------------------------------------------------------------
(* Bars                                                                    *)

\* The chains that may fetch a dataset, under one setup or another; the bars
\* that one of their providers returned.
Chains(k) == {RuntimeOf(i, k).providers : i \in {i \in Loadable : k \in DatasetsOf(i)}}
Closes(k) == UNION {ToSet(c) \X {c} : c \in Chains(k)}
Bar(k)    == [dataset : {k}, date : Days, close : Closes(k)]

\* No chain of several providers of an equity has unverified units.
LEMMA ChainUnits ==
  ASSUME NEW i \in Loadable, NEW k \in DatasetsOf(i), k.asset = "equity",
         NEW a \in ToSet(RuntimeOf(i, k).providers),
         NEW b \in ToSet(RuntimeOf(i, k).providers), a # b
  PROVE  lookup(a).verified /\ lookup(b).verified
  <1>1. PICK n \in DOMAIN Setups[i].entries :
          LET c == ConfigOf(Setups[i], n) IN
          /\ config_error(c) = Loaded /\ IsSequence(c.providers)
          /\ k = c.dataset /\ RuntimeOf(i, k).providers = c.providers
    BY EntryOfDataset, EntryFacts DEF RuntimeOf
  <1> DEFINE c == ConfigOf(Setups[i], n)
  <1>2. ~MixedUnits(c)
    BY <1>1 DEF config_error, Loaded
  <1>3. a \in ToSet(c.providers) /\ b \in ToSet(c.providers) /\ c.dataset.asset = "equity"
        /\ IsSequence(c.providers)
    BY <1>1
  <1> HIDE DEF c
  <1>4. DOMAIN c.providers = 1..Len(c.providers) /\ Len(c.providers) \in Nat
    BY <1>3, SequenceFacts
  <1>5. PICK x \in 1..Len(c.providers), y \in 1..Len(c.providers) :
          a = c.providers[x] /\ b = c.providers[y]
    BY <1>3, <1>4 DEF ToSet
  <1>6. Len(c.providers) > 1
    BY <1>4, <1>5
  <1> QED BY <1>2, <1>3, <1>4, <1>5, <1>6 DEF MixedUnits, Declarations

\* Sorting bars by their days gives a sequence of the same bars.
LEMMA NormalizedFacts ==
  ASSUME NEW T, \A bar \in T : bar.date \in Nat, NEW bars \in Seq(T)
  PROVE  normalize_eod_bars(bars) \in Seq(T)
  <1> DEFINE places == 1..Len(bars)
             before == Earlier(bars)
             order == InOrder(places, before)
             m == Cardinality(places)
  <1>1. /\ Len(bars) \in Nat /\ DOMAIN bars = places
        /\ \A n \in places : bars[n] \in T /\ bars[n].date \in Nat
    OBVIOUS
  <1>2. IsFiniteSet(places)
    BY <1>1, FS_Interval
  <1>3. \A a, b \in places :
          <<a, b>> \in before <=> \/ bars[a].date < bars[b].date
                                  \/ bars[a].date = bars[b].date /\ a < b
    BY <1>1 DEF Earlier
  <1>4. StrictOrder(places, before)
    <2> SUFFICES ASSUME NEW a \in places, NEW b \in places, NEW c \in places
                 PROVE  /\ <<a, a>> \notin before
                        /\ <<a, b>> \in before /\ <<b, c>> \in before => <<a, c>> \in before
                        /\ a = b \/ <<a, b>> \in before \/ <<b, a>> \in before
      BY DEF StrictOrder
    <2>1. /\ a \in Nat /\ b \in Nat /\ c \in Nat
          /\ bars[a].date \in Nat /\ bars[b].date \in Nat /\ bars[c].date \in Nat
      BY <1>1
    <2> HIDE DEF places, before
    <2> QED BY <1>3, <2>1
  <1>5. m \in Nat /\ DOMAIN order = 1..m /\ \A n \in 1..m : order[n] \in places
    <2> HIDE DEF places, before
    <2> QED BY <1>2, <1>4, Listed
  <1>6. normalize_eod_bars(bars) = [n \in DOMAIN order |-> bars[order[n]]]
    BY <1>1 DEF normalize_eod_bars
  <1> HIDE DEF order, m
  <1>7. normalize_eod_bars(bars) \in [1..m -> T]
    BY <1>1, <1>5, <1>6
  <1> QED BY <1>5, <1>7

\* What a provider's endpoint answers becomes bars of its close and its days.
LEMMA ConvertedFacts ==
  ASSUME NEW k, NEW closes, NEW rows \in Seq([symbol : {k.symbol}, fault : {"none"},
                                              date : Days, close : closes]),
         NEW name, NEW r, NEW outcome, NEW columns
  PROVE  LET answer == [outcome |-> outcome, columns |-> columns, rows |-> rows]
             converted == endpoint_bars(name, answer, k, r) IN
         converted.error = Loaded =>
           converted.bars \in Seq([dataset : {k}, date : Days, close : closes])
  <1> DEFINE Row == [symbol : {k.symbol}, fault : {"none"}, date : Days, close : closes]
             B == [dataset : {k}, date : Days, close : closes]
             answer == [outcome |-> outcome, columns |-> columns, rows |-> rows]
  <1>1. ASSUME NEW s \in Seq(Row)
        PROVE  BarsOf(k, s) \in Seq(B) /\ normalize_eod_bars(BarsOf(k, s)) \in Seq(B)
    <2>1. Len(s) \in Nat /\ DOMAIN s = 1..Len(s) /\ \A n \in 1..Len(s) : s[n] \in Row
      <3> HIDE DEF Row
      <3> QED OBVIOUS
    <2>2. BarsOf(k, s) \in [1..Len(s) -> B]
      BY <2>1 DEF BarsOf, BarOf
    <2>3. BarsOf(k, s) \in Seq(B)
      <3> HIDE DEF B, Row
      <3> QED BY <2>1, <2>2
    <2>4. \A bar \in B : bar.date \in Nat
      BY ServiceAssumption
    <2> HIDE DEF B, Row
    <2> QED BY <2>3, <2>4, NormalizedFacts
  <1>2. <<>> \in Seq(B)
    OBVIOUS
  <1>3. ASSUME NEW reply, reply.rows \in Seq(Row),
               convert_eod_dataframe_to_bars(reply, k, r).error = Loaded
        PROVE  convert_eod_dataframe_to_bars(reply, k, r).bars \in Seq(B)
    <2> HIDE DEF B, Row
    <2> QED BY <1>1, <1>2, <1>3
            DEF convert_eod_dataframe_to_bars, Converted, Refused, Loaded, Malformed
  <1>4. ASSUME tushare_frame_to_bars(answer, k, r).error = Loaded
        PROVE  tushare_frame_to_bars(answer, k, r).bars \in Seq(B)
    <2>1. answer.rows \in Seq(Row)
      OBVIOUS
    <2> HIDE DEF B, Row
    <2> QED BY <1>1, <1>2, <1>4, <2>1
            DEF tushare_frame_to_bars, Converted, Refused, Loaded, Malformed
  <1>5. ASSUME filter_index_daily_frame(answer, k, r).error = Loaded
        PROVE  filter_index_daily_frame(answer, k, r).bars \in Seq(B)
    <2> DEFINE places == {n \in DOMAIN answer.rows : InRange(r, answer.rows[n].date)}
               reply == [answer EXCEPT !.rows = Picked(@, places)]
    <2>1. Picked(answer.rows, places) \in Seq(Row)
      <3>1. answer.rows \in Seq(Row) /\ places \in SUBSET DOMAIN answer.rows
        OBVIOUS
      <3> HIDE DEF Row, places
      <3> QED BY <3>1, PickedFacts
    <2>2. reply.rows = Picked(answer.rows, places)
      OBVIOUS
    <2>3. /\ filter_index_daily_frame(answer, k, r) = convert_eod_dataframe_to_bars(reply, k, r)
          /\ convert_eod_dataframe_to_bars(reply, k, r).error = Loaded
      BY <1>5 DEF filter_index_daily_frame, Refused, Loaded, Malformed
    <2> HIDE DEF reply, places, Row, B
    <2> QED BY <1>3, <2>1, <2>2, <2>3
  <1>6. answer.rows \in Seq(Row)
    OBVIOUS
  <1> HIDE DEF Row, B, answer
  <1>7. ASSUME endpoint_bars(name, answer, k, r).error = Loaded
        PROVE  endpoint_bars(name, answer, k, r).bars \in Seq(B)
    BY <1>3, <1>4, <1>5, <1>6, <1>7 DEF endpoint_bars
  <1> QED BY <1>7 DEF B, answer

\* The bars that the chain of a dataset fetches are bars of it.
LEMMA FetchedFacts ==
  ASSUME NEW i \in Loadable, NEW k \in DatasetsOf(i), NEW r,
         NEW bars \in Fetched(RuntimeOf(i, k), r)
  PROVE  bars \in Seq(Bar(k))
  <1> DEFINE runtime == RuntimeOf(i, k)
             cal == runtime.calendar
             Source(name) == ProviderExpectation(runtime, name)
  <1>1. runtime.dataset = k /\ runtime.providers \in Chains(k)
    BY EntryOfDataset DEF RuntimeOf, Chains
  <1> DEFINE Result(name, answer) == fetch(name, runtime.dataset, r, cal, Source(name), answer)
  <1>a. PICK name \in ToSet(runtime.providers) : \E answer \in Answers(runtime, name) :
          /\ Result(name, answer).error = Loaded
          /\ bars = Result(name, answer).bars
    <2> HIDE DEF Result
    <2>1. Fetched(runtime, r) =
            {result.bars : result \in
               {result \in UNION {{Result(name, answer) : answer \in Answers(runtime, name)} :
                                   name \in ToSet(runtime.providers)} :
                 result.error = Loaded /\ result.status = "success"}}
      BY DEF Fetched, Result
    <2> HIDE DEF runtime
    <2> QED BY <2>1 DEF runtime
  <1>2. PICK answer \in Answers(runtime, name) :
          /\ Result(name, answer).error = Loaded
          /\ bars = Result(name, answer).bars
    BY <1>a
  <1> DEFINE close == <<name, runtime.providers>>
             Row == [symbol : {k.symbol}, fault : {"none"}, date : Days, close : {close}]
             B == [dataset : {k}, date : Days, close : {close}]
  <1>3. PICK S \in SUBSET Days :
          answer = [outcome |-> "answer", columns |-> TRUE,
                    rows |-> [n \in 1..Cardinality(S) |->
                      [symbol |-> runtime.dataset.symbol, fault |-> "none",
                       date   |-> Ascending(S)[n], close |-> close]]]
    BY <1>2 DEF Answers
  <1> DEFINE m == Cardinality(S)
             order == Ascending(S)
             rows == [n \in 1..m |-> [symbol |-> runtime.dataset.symbol, fault |-> "none",
                                      date |-> order[n], close |-> close]]
  <1>4. rows \in Seq(Row)
    <2>1. S \in SUBSET Nat /\ IsFiniteSet(S)
      BY ServiceAssumption, FS_Subset
    <2>2. m \in Nat /\ \A n \in 1..m : order[n] \in Days
      BY <2>1, AscendingFacts
    <2> HIDE DEF order, m, close, runtime
    <2>3. rows \in [1..m -> Row]
      BY <1>1, <2>2
    <2> HIDE DEF rows, Row
    <2> QED BY <2>2, <2>3
  <1> DEFINE converted == endpoint_bars(name, answer, k, r)
  <1>5. /\ converted.error = Loaded
        /\ \/ bars = <<>>
           \/ bars = normalize_eod_bars(converted.bars)
    <2> HIDE DEF runtime, cal, Source, rows, close
    <2>1. PICK status :
            LET result == validate_eod_provider_result(k, r, cal, Source(name), status,
                                                       converted.bars)
            IN  /\ converted.error = Loaded
                            /\ result.error = Loaded /\ bars = result.bars
      BY <1>1, <1>2, <1>3 DEF fetch, Failure, Loaded, Malformed, Unsupported
    <2> HIDE DEF converted
    <2> QED BY <2>1 DEF validate_eod_provider_result, Failure, ProviderResult, Loaded, Malformed
  <1>6. converted.bars \in Seq(B)
    <2>1. answer = [outcome |-> "answer", columns |-> TRUE, rows |-> rows]
      BY <1>3
    <2> HIDE DEF rows, Row
    <2> QED BY <1>4, <1>5, <2>1, ConvertedFacts DEF Row
  <1>7. bars \in Seq(B)
    <2>1. \A bar \in B : bar.date \in Nat
      BY ServiceAssumption
    <2>2. <<>> \in Seq(B)
      OBVIOUS
    <2> HIDE DEF B, converted
    <2> QED BY <1>5, <1>6, <2>1, <2>2, NormalizedFacts
  <1>8. B \subseteq Bar(k)
    <2>1. close \in Closes(k)
      BY <1>1, <1>2 DEF Closes
    <2> HIDE DEF close, runtime
    <2> QED BY <2>1 DEF Bar
  <1> HIDE DEF B
  <1> QED BY <1>7, <1>8

-----------------------------------------------------------------------------
(* Plans                                                                   *)

DayRanges == {r \in [first : Days, last : Days] : r.first <= r.last}

LEMMA StoredDates ==
  ASSUME NEW k, NEW bars \in Seq(Bar(k))
  PROVE  /\ DatesIn(bars) \in SUBSET Days
         /\ IsFiniteSet(DatesIn(bars))
         /\ bars # <<>> => DatesIn(bars) # {}
  <1>1. Len(bars) \in Nat /\ DOMAIN bars = 1..Len(bars) /\ \A n \in 1..Len(bars) : bars[n] \in Bar(k)
    OBVIOUS
  <1>2. DatesIn(bars) \in SUBSET Days
    BY <1>1 DEF DatesIn, Bar
  <1>3. IsFiniteSet(DatesIn(bars))
    BY <1>2, ServiceAssumption, FS_Subset
  <1>4. ASSUME bars # <<>> PROVE DatesIn(bars) # {}
    <2>1. 1 \in DOMAIN bars
      BY <1>1, <1>4
    <2> QED BY <2>1 DEF DatesIn
  <1> QED BY <1>2, <1>3, <1>4

\* What a plan requests, and what a full refresh fetches, is a range of days
\* that are expected.
LEMMA PlanRanges ==
  ASSUME NEW i \in Loadable, NEW k \in DatasetsOf(i), NEW expectation,
         NEW bars \in Seq(Bar(k)), NEW request, request.policy \in Policies
  PROVE  LET plan == PlanFor(RuntimeOf(i, k), expectation, bars, request) IN
         /\ plan.request # AnyRange => plan.request \in DayRanges
         /\ plan.status = "full_refresh_required" => plan.effective \in DayRanges
  <1> DEFINE open     == RuntimeOf(i, k).calendar.open
             adjusted == RuntimeOf(i, k).dataset.adjustment # "none"
             policy   == request.policy
             absent   == ConfirmedAbsent(expectation)
             stored   == DatesIn(bars)
             trading  == {d \in open : request.range.first <= d /\ d <= request.range.last}
             expected == trading \ absent
             status   == Planning(open, adjusted, policy.overlap, AnyRange)
                           !Status(stored, absent, trading, policy)
             plan     == PlanFor(RuntimeOf(i, k), expectation, bars, request)
             first    == Planning(open, adjusted, policy.overlap, AnyRange)
                           !RequestStart(status, stored, expected, policy.overlap)
             Fetching == {"initial_import", "incremental", "overlap_refresh"}
  <1>1. /\ open \in SUBSET Days
        /\ expected \in SUBSET Nat /\ IsFiniteSet(expected)
        /\ expected \in SUBSET Days
    <2>1. open \in SUBSET Days
      BY ServiceAssumption
    <2> HIDE DEF open, absent
    <2>2. expected \in SUBSET Days
      BY <2>1
    <2> HIDE DEF expected
    <2> QED BY <2>1, <2>2, ServiceAssumption, FS_Subset
  <1>2. /\ stored \in SUBSET Nat /\ IsFiniteSet(stored)
    BY StoredDates, ServiceAssumption
  <1>3. plan = [status    |-> status,
                effective |-> IF expected = {} THEN AnyRange
                              ELSE [first |-> Min(expected), last |-> Max(expected)],
                request   |-> IF status \in Fetching
                              THEN [first |-> first, last |-> Max(expected)]
                              ELSE AnyRange]
    BY DEF PlanFor, Planning!Plan, Planning!Within, Planning!Contains,
           Planning!Effective, Planning!FetchStatuses, Planning!Min, Planning!Max, Min, Max
  <1>4. status \in Fetching \cup {"full_refresh_required"} => expected # {}
    BY DEF Planning!Status
  <1>5. /\ status \in {"incremental", "overlap_refresh"} =>
             stored # {} /\ Max(stored) < Max(expected)
        /\ status = "overlap_refresh" => policy.overlap \in Nat \ {0}
    <2> DEFINE last == Max(stored)
               end == Max(expected)
    <2>1. status = "incremental" \/ status = "overlap_refresh" =>
            /\ stored # {} /\ expected # {} /\ ~(last > end) /\ last # end
            /\ status = Planning(open, adjusted, policy.overlap, AnyRange)!StatusOf(policy.strategy)
      BY DEF Planning!Status, Planning!Effective, Planning!Min, Planning!Max, Min, Max
    <2>2. stored # {} => last \in Nat
      <3> HIDE DEF stored
      <3> QED BY <1>2, MinMax
    <2>3. expected # {} => end \in Nat
      <3> HIDE DEF expected
      <3> QED BY <1>1, MinMax
    <2>4. Planning(open, adjusted, policy.overlap, AnyRange)!StatusOf(policy.strategy) = "overlap_refresh"
            => policy.overlap \in Nat \ {0}
      BY DEF Planning!StatusOf, Policies
    <2> HIDE DEF status, stored, expected, last, end, policy
    <2> QED BY <2>1, <2>2, <2>3, <2>4 DEF last, end
  <1>6. ASSUME status \in Fetching PROVE first \in expected
    <2>1. expected # {}
      BY <1>4, <1>6
    <2>2. Min(expected) \in expected /\ Max(expected) \in expected
      <3> HIDE DEF expected
      <3> QED BY <1>1, <2>1, MinMax
    <2>3. CASE status = "initial_import"
      <3>1. first = Min(expected)
        BY <2>3 DEF Planning!RequestStart, Planning!Min, Min
      <3> QED BY <2>2, <3>1
    <2>4. CASE status = "incremental"
      <3> DEFINE later == {d \in expected : d > Max(stored)}
      <3>1. first = Min(later)
        BY <2>4 DEF Planning!RequestStart, Planning!AppendStart, Planning!Min, Min,
                    Planning!Max, Max
      <3>2. Max(expected) \in later
        <4>1. Max(stored) < Max(expected)
          BY <1>5, <2>4
        <4>2. Max(stored) \in Nat /\ Max(expected) \in Nat
          <5>1. stored # {}
            BY <1>5, <2>4
          <5> HIDE DEF stored, expected
          <5> QED BY <1>1, <1>2, <2>1, <5>1, MinMax
        <4> HIDE DEF stored, expected
        <4> QED BY <2>2, <4>1, <4>2
      <3> HIDE DEF expected, stored
      <3>3. later \in SUBSET Nat /\ later # {} /\ later \in SUBSET expected
        BY <1>1, <3>2
      <3> HIDE DEF later
      <3>4. IsFiniteSet(later)
        BY <1>1, <3>3, FS_Subset
      <3> QED BY <3>1, <3>3, <3>4, MinMax
    <2>5. CASE status = "overlap_refresh"
      <3> DEFINE existing == {d \in expected : d <= Max(stored)}
                 After(d) == {e \in existing : e > d}
                 Newest(E) == {d \in E : Cardinality({e \in E : e > d}) < policy.overlap}
                 tail == Newest(existing)
      <3>1. first = IF existing = {} THEN Min(expected) ELSE Min(tail)
        <4>1. /\ \A T : Planning(open, adjusted, policy.overlap, AnyRange)!Min(T) = Min(T)
              /\ \A T : Planning(open, adjusted, policy.overlap, AnyRange)!Max(T) = Max(T)
          BY DEF Planning!Min, Planning!Max, Min, Max
        <4>a. \A T : Planning(open, adjusted, policy.overlap, AnyRange)!Cardinality(T)
                       = Cardinality(T)
          BY Zenon DEF Planning!Cardinality, Cardinality
        <4>2. first = Planning(open, adjusted, policy.overlap, AnyRange)
                        !OverlapStart(stored, expected, policy.overlap)
          <5> HIDE DEF status, stored, expected, open, adjusted, policy
          <5> QED BY <2>5 DEF Planning!RequestStart
        <4> DEFINE last == Planning(open, adjusted, policy.overlap, AnyRange)!Max(stored)
                   begun == {d \in expected : d <= last}
                   Late(E) == {d \in E : Planning(open, adjusted, policy.overlap, AnyRange)
                                         !Cardinality({e \in E : e > d}) < policy.overlap}
        <4> HIDE DEF first, stored, expected, open, adjusted, policy
        <4>3. Planning(open, adjusted, policy.overlap, AnyRange)
                !OverlapStart(stored, expected, policy.overlap)
              = IF begun = {}
                THEN Planning(open, adjusted, policy.overlap, AnyRange)!Min(expected)
                ELSE Planning(open, adjusted, policy.overlap, AnyRange)!Min(Late(begun))
          BY Zenon DEF Planning!OverlapStart
        <4>4. begun = existing
          <5>1. last = Max(stored)
            BY <4>1
          <5> HIDE DEF last
          <5> QED BY <5>1
        <4>5. \A E : Late(E) = Newest(E)
          BY <4>a
        <4> HIDE DEF begun, existing, Newest, Late
        <4> QED BY <4>1, <4>2, <4>3, <4>4, <4>5
      <3>2. policy.overlap \in Nat \ {0}
        BY <1>5, <2>5
      <3> HIDE DEF expected, stored, first
      <3>3. CASE existing = {}
        BY <2>2, <3>1, <3>3
      <3>4. CASE existing # {}
        <4>1. existing \in SUBSET Nat /\ existing \in SUBSET expected
          BY <1>1
        <4>2. IsFiniteSet(existing)
          <5> HIDE DEF existing
          <5> QED BY <1>1, <4>1, FS_Subset
        <4>3. PICK d \in existing : \A e \in existing : e <= d
          <5> HIDE DEF existing
          <5> QED BY <3>4, <4>1, <4>2, MinMax
        <4>4. After(d) = {}
          <5>1. ASSUME NEW e \in existing PROVE ~(e > d)
            <6>1. e \in Nat /\ d \in Nat
              BY <4>1
            <6> HIDE DEF existing
            <6> QED BY <4>3, <6>1
          <5> HIDE DEF existing
          <5> QED BY <5>1
        <4>5. d \in tail
          <5>1. Cardinality(After(d)) = 0
            <6> HIDE DEF After
            <6> QED BY <4>4, FS_EmptySet
          <5>2. tail = {e \in existing : Cardinality(After(e)) < policy.overlap}
            OBVIOUS
          <5> HIDE DEF After, Newest, policy, existing
          <5> QED BY <3>2, <4>3, <5>1, <5>2
        <4>6. tail \in SUBSET existing
          OBVIOUS
        <4> HIDE DEF tail, existing
        <4>7. IsFiniteSet(tail) /\ tail \in SUBSET Nat /\ tail # {}
          BY <4>1, <4>2, <4>5, <4>6, FS_Subset
        <4> QED BY <3>1, <3>4, <4>1, <4>6, <4>7, MinMax
      <3> QED BY <3>3, <3>4
    <2> HIDE DEF first, expected, status
    <2> QED BY <1>6, <2>3, <2>4, <2>5
  <1>7. ASSUME NEW d \in expected
        PROVE  [first |-> d, last |-> Max(expected)] \in DayRanges
    <2> HIDE DEF expected
    <2>1. Max(expected) \in expected /\ d <= Max(expected)
      BY <1>1, MinMax
    <2> QED BY <1>1, <2>1 DEF DayRanges
  <1>8. expected # {} => Min(expected) \in expected
    <2> HIDE DEF expected
    <2> QED BY <1>1, MinMax
  <1> HIDE DEF expected, status, first, plan
  <1>9. plan.request # AnyRange => plan.request \in DayRanges
    BY <1>3, <1>6, <1>7
  <1>10. plan.status = "full_refresh_required" => plan.effective \in DayRanges
    BY <1>3, <1>4, <1>7, <1>8
  <1> QED BY <1>9, <1>10 DEF plan

-----------------------------------------------------------------------------
(* What a job does to a dataset                                            *)

Statuses == {"success", "failed", "skipped", "dry_run", "full_refresh_required",
             "full_refresh_not_eligible", "maintenance_empty",
             "maintenance_inspected", "maintenance_cleaned", "maintenance_blocked"}

LEMMA MergedFacts ==
  ASSUME NEW T, NEW bars \in Seq(T), NEW fetched \in Seq(T), NEW request
  PROVE  Merged(bars, fetched, request) \in Seq(T)
  <1> DEFINE before == Picked(bars, {n \in DOMAIN bars : bars[n].date < request.first})
             after  == Picked(bars, {n \in DOMAIN bars : bars[n].date > request.last})
  <1>1. before \in Seq(T) /\ after \in Seq(T)
    <2> DEFINE early == {n \in DOMAIN bars : bars[n].date < request.first}
               late  == {n \in DOMAIN bars : bars[n].date > request.last}
    <2>1. early \in SUBSET DOMAIN bars /\ late \in SUBSET DOMAIN bars
      OBVIOUS
    <2> HIDE DEF early, late
    <2>2. Picked(bars, early) \in Seq(T) /\ Picked(bars, late) \in Seq(T)
      BY <2>1, PickedFacts
    <2> QED BY <2>2 DEF early, late
  <1>2. Merged(bars, fetched, request) = before \o fetched \o after
    BY DEF Merged
  <1> HIDE DEF before, after
  <1>3. before \o fetched \in Seq(T)
    BY <1>1
  <1> QED BY <1>1, <1>2, <1>3

LEMMA FetchedBarsFacts ==
  ASSUME NEW i \in Loadable, NEW k \in DatasetsOf(i), NEW r \in DayRanges
  PROVE  \A bars \in FetchedBars[<<i, k, r>>] : bars \in Seq(Bar(k))
  <1>1. <<i, k, r>> \in {i} \X DatasetsOf(i) \X
                         {x \in [first : Days, last : Days] : x.first <= x.last}
    BY DEF DayRanges
  <1>2. FetchedBars[<<i, k, r>>] = Fetched(RuntimeOf(i, k), r)
    <2> DEFINE Keys(h) == {h} \X DatasetsOf(h) \X
                          {x \in [first : Days, last : Days] : x.first <= x.last}
               All == UNION {Keys(h) : h \in Loadable}
    <2>1. FetchedBars = [key \in All |-> Fetched(RuntimeOf(key[1], key[2]), key[3])]
      BY DEF FetchedBars
    <2>2. <<i, k, r>> \in All
      <3>1. <<i, k, r>> \in Keys(i)
        BY <1>1
      <3> HIDE DEF Keys
      <3> QED BY <3>1
    <2> HIDE DEF All
    <2> QED BY <2>1, <2>2
  <1> QED BY <1>2, FetchedFacts

LEMMA OutcomeFacts ==
  ASSUME NEW i \in Loadable, NEW k \in DatasetsOf(i), NEW bars \in Seq(Bar(k)),
         NEW request, request.policy \in Policies,
         NEW outcome \in Outcomes(i, k, bars, request)
  PROVE  /\ outcome.status \in Statuses
         /\ outcome.bars \in Seq(Bar(k))
         /\ outcome.complete \in BOOLEAN
         /\ request.dry \/ request.type = "maintenance" => outcome.bars = bars
  <1> DEFINE runtime == RuntimeOf(i, k)
             Sound == [status : Statuses, bars : Seq(Bar(k)), complete : BOOLEAN]
  <1>1. ASSUME NEW status \in Statuses, NEW b \in Seq(Bar(k)), NEW c \in BOOLEAN
        PROVE  Outcome(status, b, c) \in Sound /\ Outcome(status, b, c).bars = b
    <2> HIDE DEF Statuses
    <2> QED BY DEF Outcome
  <1>2. ASSUME NEW expectation, NEW plan, NEW candidate \in Seq(Bar(k))
        PROVE  Published(runtime, expectation, plan, bars, candidate) \in Sound
    <2>1. "success" \in Statuses /\ "failed" \in Statuses
      BY DEF Statuses
    <2> HIDE DEF Sound, runtime
    <2> QED BY <1>1, <2>1 DEF Published
  <1>3. CASE request.type = "maintenance"
    <2>1. outcome \in MaintenanceOutcomes(bars)
      BY <1>3 DEF Outcomes
    <2>2. PICK status \in Statuses : outcome = Outcome(status, bars, FALSE)
      BY <2>1 DEF MaintenanceOutcomes, Statuses
    <2> HIDE DEF Statuses
    <2> QED BY <1>1, <2>2
  <1>4. CASE request.type = "full_refresh"
    <2> DEFINE plan == PlanFor(runtime, WorkerExpectation(runtime), bars, request)
               Publications ==
                 {Published(runtime, WorkerExpectation(runtime), plan, bars, fetched) :
                    fetched \in FetchedBars[<<i, k, plan.effective>>]}
    <2>1. outcome \in RefreshOutcomes(i, k, bars, request)
      BY <1>4 DEF Outcomes
    <2>2. \/ \E status \in Statuses : outcome = Outcome(status, bars, FALSE)
          \/ /\ ~request.dry /\ plan.status = "full_refresh_required"
             /\ outcome \in Publications
      <3>1. RefreshOutcomes(i, k, bars, request) =
              IF ~Plannable(runtime, request) \/ plan.status = "invalid"
              THEN {Outcome("failed", bars, FALSE)}
              ELSE IF plan.status # "full_refresh_required"
              THEN {Outcome("full_refresh_not_eligible", bars, FALSE)}
              ELSE IF request.dry THEN {Outcome("dry_run", bars, FALSE)}
              ELSE {Outcome("failed", bars, FALSE)} \cup Publications
        BY Zenon DEF RefreshOutcomes
      <3>2. {"failed", "full_refresh_not_eligible", "dry_run"} \subseteq Statuses
        BY DEF Statuses
      <3> HIDE DEF plan, runtime, Publications
      <3>3. \/ outcome = Outcome("failed", bars, FALSE)
            \/ outcome = Outcome("full_refresh_not_eligible", bars, FALSE)
            \/ outcome = Outcome("dry_run", bars, FALSE)
            \/ /\ ~request.dry /\ plan.status = "full_refresh_required"
               /\ outcome \in Publications
        BY <2>1, <3>1, Zenon
      <3> QED BY <3>2, <3>3
    <2>3. ASSUME plan.status = "full_refresh_required", outcome \in Publications
          PROVE  outcome \in Sound
      <3>1. plan.effective \in DayRanges
        BY <2>3, PlanRanges
      <3> HIDE DEF plan, runtime, Sound
      <3> QED BY <1>2, <2>3, <3>1, FetchedBarsFacts
    <2>4. ASSUME NEW status \in Statuses, outcome = Outcome(status, bars, FALSE)
          PROVE  outcome \in Sound /\ outcome.bars = bars
      <3> HIDE DEF Sound
      <3> QED BY <1>1, <2>4
    <2> HIDE DEF Sound, plan, runtime, Publications
    <2>5. outcome \in Sound /\ (request.dry => outcome.bars = bars)
      BY <2>2, <2>3, <2>4
    <2> QED BY <1>4, <2>5 DEF Sound
  <1>5. CASE request.type \notin {"maintenance", "full_refresh"}
    <2> DEFINE plan == PlanFor(runtime, runtime.expectation, bars, request)
               Publications ==
                 {Published(runtime, runtime.expectation, plan, bars,
                            Merged(bars, fetched, plan.request)) :
                    fetched \in FetchedBars[<<i, k, plan.request>>]}
    <2>1. outcome \in UpdateOutcomes(i, k, bars, request)
      BY <1>5 DEF Outcomes
    <2>2. \/ \E status \in Statuses : outcome = Outcome(status, bars, FALSE)
          \/ /\ ~request.dry /\ plan.request # AnyRange
             /\ outcome \in Publications
      <3>1. UpdateOutcomes(i, k, bars, request) =
              IF ~Plannable(runtime, request) \/ plan.status = "invalid"
              THEN {Outcome("failed", bars, FALSE)}
              ELSE IF plan.status = "full_refresh_required"
              THEN {Outcome("full_refresh_required", bars, FALSE)}
              ELSE IF plan.request = AnyRange \/ request.dry
              THEN {Outcome(IF request.dry THEN "dry_run" ELSE "success", bars, FALSE)}
              ELSE {Outcome("failed", bars, FALSE)} \cup Publications
        BY Zenon DEF UpdateOutcomes
      <3>2. {"failed", "full_refresh_required", "dry_run", "success"} \subseteq Statuses
        BY DEF Statuses
      <3> HIDE DEF plan, runtime, Publications
      <3>3. \/ outcome = Outcome("failed", bars, FALSE)
            \/ outcome = Outcome("full_refresh_required", bars, FALSE)
            \/ outcome = Outcome(IF request.dry THEN "dry_run" ELSE "success", bars, FALSE)
            \/ /\ ~request.dry /\ plan.request # AnyRange
               /\ outcome \in Publications
        BY <2>1, <3>1, Zenon
      <3> QED BY <3>2, <3>3
    <2>3. ASSUME plan.request # AnyRange, outcome \in Publications
          PROVE  outcome \in Sound
      <3>1. plan.request \in DayRanges
        BY <2>3, PlanRanges
      <3> HIDE DEF plan, runtime, Sound
      <3> QED BY <1>2, <2>3, <3>1, FetchedBarsFacts, MergedFacts
    <2>4. ASSUME NEW status \in Statuses, outcome = Outcome(status, bars, FALSE)
          PROVE  outcome \in Sound /\ outcome.bars = bars
      <3> HIDE DEF Sound
      <3> QED BY <1>1, <2>4
    <2> HIDE DEF Sound, plan, runtime, Publications
    <2>5. outcome \in Sound /\ (request.dry => outcome.bars = bars)
      BY <2>2, <2>3, <2>4
    <2> QED BY <1>5, <2>5 DEF Sound
  <1> QED BY <1>3, <1>4, <1>5

-----------------------------------------------------------------------------
(* The inductive invariant                                                 *)

\* What operators can ask for: requests that a submission was not refused for.
Requests ==
  {RequestOf(s[1], s[2]) :
     s \in {s \in Loadable \X Commands : submission_error(s[1], s[2]) = Loaded}}

Refusals == {Loaded, "dataset_not_in_catalog", "dataset_disabled",
             "execution_context_mismatch"}
Results  == Statuses \cup {"partial_success"}

Job == [request : Requests, retry_of : Nat, confirmed : BOOLEAN,
        phase : {"queued", "running", "succeeded", "failed", "abandoned"},
        outcome : {"none"} \cup Refusals \cup Results, ran : Nat]

Call == [state : {"idle", "retrying", "storing"}, request : Requests \cup {NoRequest},
         retry_of : Nat, execute : BOOLEAN, exit : {0, 2, 3, 4}]

Worker == [state : {"off", "ready", "running"}, setup : DOMAIN Setups, job : Nat,
           error : Refusals, statuses : Seq(Statuses), complete : BOOLEAN,
           last : {"none", "no_work", "job_completed", "job_failed", "worker_unsafe"}]

DataOK ==
  /\ data = [store \in Stores |-> data[store]]
  /\ \A store \in Stores : data[store] \in Seq(Bar(store[2]))

TypeOK ==
  /\ edits \in DOMAIN Setups
  /\ jobs \in Seq(Job)
  /\ call \in Call
  /\ worker \in Worker
  /\ DataOK

\* No request that writes is stored without its confirmation.
Confirmed(request, execute) == request.dry \/ execute

JobsSound ==
  \A j \in DOMAIN jobs :
    /\ Confirmed(jobs[j].request, jobs[j].confirmed)
    /\ jobs[j].phase \in {"queued", "running"} => jobs[j].outcome = "none"
    /\ jobs[j].outcome = "execution_context_mismatch" =>
         /\ jobs[j].ran \in Loadable
         /\ Context[jobs[j].request.setup] # Context[jobs[j].ran]

CallSound ==
  call.state # "idle" =>
    call.request \in Requests /\ Confirmed(call.request, call.execute)

WorkerSound ==
  /\ worker.state # "off" => worker.setup \in Loadable
  /\ worker.state = "running" =>
       /\ worker.job \in DOMAIN jobs
       /\ jobs[worker.job].phase = "running"
       /\ jobs[worker.job].ran = worker.setup
       /\ worker.error = preflight_error(worker.setup, jobs[worker.job].request)

IInv == TypeOK /\ JobsSound /\ CallSound /\ WorkerSound

-----------------------------------------------------------------------------
(* Requests, and what a worker finds of them                               *)

\* A request that is not refused names the datasets of its setup, one at least,
\* and writes only if it was confirmed.
LEMMA SubmittedFacts ==
  ASSUME NEW i \in Loadable, NEW command \in Commands,
         submission_error(i, command) = Loaded
  PROVE  LET request == RequestOf(i, command) IN
         /\ request \in Requests
         /\ Confirmed(request, command.execute)
         /\ request.setup = i
         /\ request.dry \in BOOLEAN
         /\ request.policy \in Policies
         /\ request.datasets \in Seq(DatasetsOf(i))
         /\ request.datasets # <<>>
  <1> DEFINE request == RequestOf(i, command)
             places == {n \in DOMAIN Datasets : Datasets[n] \in Selected(i, command)}
             wrong == {n \in DOMAIN command.selectors :
                         entry_error(i, command.selectors[n]) # Loaded}
  <1>1. command.dry # command.execute /\ selector_error(i, command) = Loaded
    BY DEF submission_error, Loaded, Loadable
  <1>2. /\ command.dry \in BOOLEAN /\ command.execute \in BOOLEAN /\ command.all \in BOOLEAN
        /\ IsSequence(command.selectors) /\ command.policy \in Policies
    BY ServiceAssumption
  <1>3. /\ request.setup = i /\ request.dry = command.dry
        /\ request.policy = command.policy
        /\ request.datasets = Picked(Datasets, places)
    BY DEF RequestOf
  <1>4. request \in Requests
    <2>1. <<i, command>> \in {s \in Loadable \X Commands : submission_error(s[1], s[2]) = Loaded}
      OBVIOUS
    <2>2. request = RequestOf(<<i, command>>[1], <<i, command>>[2])
      OBVIOUS
    <2> HIDE DEF request
    <2> QED BY <2>1, <2>2 DEF Requests
  <1>5. wrong = {}
    <2>1. wrong \in SUBSET Nat /\ IsFiniteSet(wrong)
      <3>1. DOMAIN command.selectors = 1..Len(command.selectors)
            /\ Len(command.selectors) \in Nat
        BY <1>2, SequenceFacts
      <3>2. IsFiniteSet(1..Len(command.selectors))
        BY <3>1, FS_Interval
      <3>3. wrong \in SUBSET (1..Len(command.selectors))
        BY <3>1
      <3> HIDE DEF wrong
      <3>4. IsFiniteSet(wrong)
        BY <3>2, <3>3, FS_Subset
      <3> QED BY <3>1, <3>3, <3>4
    <2>2. wrong # {} => entry_error(i, command.selectors[Min(wrong)]) = Loaded
      BY <1>1 DEF selector_error, Loaded
    <2>3. wrong # {} => Min(wrong) \in wrong
      <3> HIDE DEF wrong
      <3> QED BY <2>1, MinMax
    <2> QED BY <2>2, <2>3
  <1>6. Selected(i, command) # {}
    <2>1. CASE command.all
      <3>1. PICK e \in EnabledEntries(Catalog[i]) : TRUE
        BY <1>1, <1>5, <2>1 DEF selector_error, Loaded
      <3> QED BY <2>1, <3>1 DEF Selected, EnabledEntries
    <2>2. CASE ~command.all
      <3>1. command.selectors # <<>>
        BY <1>1, <1>2, <2>2 DEF selector_error, Loaded
      <3>2. /\ 1 \in DOMAIN command.selectors
            /\ command.selectors[1] \in ToSet(command.selectors)
        BY <1>2, <3>1 DEF IsSequence, ToSet
      <3>3. entry_error(i, command.selectors[1]) = Loaded
        BY <1>5, <3>2
      <3>4. PICK e \in Catalog[i] : e.storage = command.selectors[1]
        BY <3>3 DEF entry_error, Loaded, EntriesNamed
      <3> QED BY <2>2, <3>2, <3>4 DEF Selected
    <2> QED BY <1>2, <2>1, <2>2
  <1>7. /\ Selected(i, command) \in SUBSET DatasetsOf(i)
        /\ DatasetsOf(i) \in SUBSET ToSet(Datasets)
    BY ServiceAssumption DEF Selected, DatasetsOf
  <1>8. /\ Datasets \in Seq(ToSet(Datasets)) /\ places \in SUBSET DOMAIN Datasets
        /\ places # {} /\ \A n \in places : Datasets[n] \in DatasetsOf(i)
    <2>1. Datasets \in Seq(ToSet(Datasets))
      BY ServiceAssumption DEF IsSequence
    <2>2. PICK n \in DOMAIN Datasets : Datasets[n] \in Selected(i, command)
      BY <1>6, <1>7 DEF ToSet
    <2> QED BY <1>7, <2>1, <2>2
  <1> HIDE DEF places, wrong, request
  <1>9. Picked(Datasets, places) \in Seq(DatasetsOf(i)) /\ Picked(Datasets, places) # <<>>
    BY <1>8, PickedSome
  <1>10. Confirmed(request, command.execute)
    BY <1>1, <1>2, <1>3 DEF Confirmed
  <1> QED BY <1>2, <1>3, <1>4, <1>9, <1>10 DEF request

LEMMA RequestFacts ==
  ASSUME NEW request \in Requests
  PROVE  /\ request.setup \in Loadable
         /\ request.dry \in BOOLEAN
         /\ request.policy \in Policies
         /\ request.datasets \in Seq(DatasetsOf(request.setup))
         /\ request.datasets # <<>>
  <1>1. PICK i \in Loadable, command \in Commands :
          submission_error(i, command) = Loaded /\ request = RequestOf(i, command)
    BY DEF Requests
  <1> QED BY <1>1, SubmittedFacts

\* A job that a worker does not refuse has its datasets in the catalog, enabled,
\* and the context of the worker; one that it refuses for its context has another.
LEMMA PreflightFacts ==
  ASSUME NEW i \in Loadable, NEW request \in Requests
  PROVE  LET error == preflight_error(i, request) IN
         /\ error \in Refusals
         /\ error = Loaded =>
              /\ Context[request.setup] = Context[i]
              /\ \A n \in DOMAIN request.datasets :
                   require_enabled(Catalog[i], request.datasets[n]) = Loaded
         /\ error = "execution_context_mismatch" => Context[request.setup] # Context[i]
  <1> DEFINE Refusal(n) == require_enabled(Catalog[i], request.datasets[n])
             wrong == {n \in DOMAIN request.datasets : Refusal(n) # Loaded}
  <1>1. /\ request.datasets \in Seq(DatasetsOf(request.setup))
    BY RequestFacts
  <1>2. wrong \in SUBSET Nat /\ IsFiniteSet(wrong)
    <2>1. DOMAIN request.datasets = 1..Len(request.datasets) /\ Len(request.datasets) \in Nat
      BY <1>1
    <2>2. IsFiniteSet(1..Len(request.datasets))
      BY <2>1, FS_Interval
    <2>3. wrong \in SUBSET (1..Len(request.datasets))
      BY <2>1
    <2> HIDE DEF wrong
    <2>4. IsFiniteSet(wrong)
      BY <2>2, <2>3, FS_Subset
    <2> QED BY <2>1, <2>3, <2>4
  <1>3. wrong # {} => Min(wrong) \in wrong
    <2> HIDE DEF wrong
    <2> QED BY <1>2, MinMax
  <1>4. \A n : Refusal(n) \in {"dataset_not_in_catalog", "dataset_disabled", Loaded}
    BY DEF require_enabled
  <1>5. preflight_error(i, request) =
          IF wrong # {} THEN Refusal(Min(wrong))
          ELSE IF Context[request.setup] # Context[i] THEN "execution_context_mismatch"
          ELSE Loaded
    BY DEF preflight_error
  <1>6. wrong # {} => Refusal(Min(wrong)) # Loaded
    BY <1>3
  <1>7. wrong = {} => \A n \in DOMAIN request.datasets : Refusal(n) = Loaded
    OBVIOUS
  <1> HIDE DEF wrong, Refusal
  <1>8. preflight_error(i, request) = Loaded =>
          wrong = {} /\ Context[request.setup] = Context[i]
    <2>1. "execution_context_mismatch" # Loaded
      BY DEF Loaded
    <2> QED BY <1>5, <1>6, <2>1, Zenon
  <1>9. preflight_error(i, request) = "execution_context_mismatch" =>
          Context[request.setup] # Context[i]
    <2>1. wrong # {} => Refusal(Min(wrong)) # "execution_context_mismatch"
      BY <1>4 DEF Loaded
    <2>2. Loaded # "execution_context_mismatch"
      BY DEF Loaded
    <2> QED BY <1>5, <2>1, <2>2, Zenon
  <1>10. preflight_error(i, request) \in Refusals
    BY <1>4, <1>5 DEF Refusals
  <1> QED BY <1>7, <1>8, <1>9, <1>10 DEF Refusal

LEMMA ResultFacts ==
  ASSUME NEW request, NEW statuses \in Seq(Statuses), statuses # <<>>
  PROVE  /\ result_code(request, statuses) \in Results
         /\ result_code(request, statuses) # "execution_context_mismatch"
  <1>1. statuses[1] \in Statuses
    OBVIOUS
  <1>2. batch_status(request.dry, statuses) \in
          {"dry_run", "full_refresh_required", "failed", "success", "partial_success"}
    BY DEF batch_status
  <1>3. result_code(request, statuses) \in Results
    BY <1>1, <1>2 DEF result_code, Results, Statuses
  <1> QED BY <1>3 DEF Results, Statuses

-----------------------------------------------------------------------------
(* The invariant is inductive                                              *)

LEMMA SetupFacts ==
  /\ Len(Setups) \in Nat \ {0}
  /\ DOMAIN Setups = 1..Len(Setups)
  /\ 1 \in DOMAIN Setups
  <1>1. Setups \in Seq(ToSet(Setups)) /\ Setups # <<>>
    BY ServiceAssumption DEF IsSequence
  <1> QED BY <1>1

LEMMA SameData ==
  ASSUME DataOK, UNCHANGED data
  PROVE  DataOK'
  BY DEF DataOK

LEMMA JobsFacts ==
  ASSUME TypeOK
  PROVE  /\ DOMAIN jobs = 1..Len(jobs) /\ Len(jobs) \in Nat
         /\ \A j \in DOMAIN jobs : jobs[j] \in Job
  BY DEF TypeOK

LEMMA EndedFacts ==
  ASSUME NEW outcome
  PROVE  Ended(outcome) \in Call /\ Ended(outcome).state = "idle"
  <1>1. exit_code(outcome) \in {0, 2, 3, 4}
    BY DEF exit_code
  <1> QED BY <1>1 DEF Ended, NoCall, Call

LEMMA InitInv == Init => IInv
  <1> SUFFICES ASSUME Init PROVE IInv
    OBVIOUS
  <1>1. NoCall \in Call
    BY DEF NoCall, Call
  <1>2. NoWorker \in Worker
    <2>1. Loaded \in Refusals /\ <<>> \in Seq(Statuses)
      BY DEF Refusals
    <2> QED BY <2>1, SetupFacts DEF NoWorker, Worker
  <1>3. DataOK
    <2>1. data = [store \in Stores |-> <<>>]
      BY DEF Init
    <2>2. \A store \in Stores : <<>> \in Seq(Bar(store[2]))
      OBVIOUS
    <2> QED BY <2>1, <2>2 DEF DataOK
  <1>4. TypeOK
    <2>1. <<>> \in Seq(Job)
      OBVIOUS
    <2> QED BY <1>1, <1>2, <1>3, <2>1, SetupFacts DEF Init, TypeOK
  <1>5. JobsSound /\ CallSound /\ WorkerSound
    BY DEF Init, JobsSound, CallSound, WorkerSound, NoCall, NoWorker
  <1> QED BY <1>4, <1>5 DEF IInv

LEMMA SubmitInv ==
  ASSUME IInv, NEW command \in Commands, SubmitCommand(command)
  PROVE  IInv'
  <1>1. TypeOK /\ JobsSound /\ CallSound /\ WorkerSound
    BY DEF IInv
  <1>2. /\ UNCHANGED <<edits, jobs, worker, data>>
        /\ \/ \E outcome : call' = Ended(outcome)
           \/ /\ submission_error(edits, command) = Loaded
              /\ call' = [NoCall EXCEPT !.state = "storing",
                                        !.request = RequestOf(edits, command),
                                        !.execute = command.execute]
    BY DEF SubmitCommand
  <1>3. call' \in Call /\ CallSound'
    <2>1. CASE \E outcome : call' = Ended(outcome)
      BY <2>1, EndedFacts DEF CallSound
    <2>2. CASE /\ submission_error(edits, command) = Loaded
               /\ call' = [NoCall EXCEPT !.state = "storing",
                                         !.request = RequestOf(edits, command),
                                         !.execute = command.execute]
      <3> DEFINE request == RequestOf(edits, command)
      <3>1. edits \in Loadable
        BY <1>1, <2>2 DEF submission_error, Loadable, TypeOK, Loaded
      <3>2. request \in Requests /\ Confirmed(request, command.execute)
        BY <2>2, <3>1, SubmittedFacts
      <3>3. command.execute \in BOOLEAN
        BY ServiceAssumption
      <3> HIDE DEF request
      <3>4. /\ call' = [state |-> "storing", request |-> request, retry_of |-> 0,
                        execute |-> command.execute, exit |-> 0]
        BY <2>2 DEF NoCall, request
      <3> QED BY <3>2, <3>3, <3>4 DEF Call, CallSound
    <2> QED BY <1>2, <2>1, <2>2
  <1>4. DataOK'
    BY <1>1, <1>2, SameData DEF TypeOK
  <1>5. TypeOK'
    BY <1>1, <1>2, <1>3, <1>4 DEF TypeOK
  <1>6. JobsSound' /\ WorkerSound'
    BY <1>1, <1>2 DEF JobsSound, WorkerSound
  <1> QED BY <1>3, <1>5, <1>6 DEF IInv

LEMMA RetryReadInv ==
  ASSUME IInv, NEW j \in 1..MaxJobs, NEW execute \in BOOLEAN, RetryRead(j, execute)
  PROVE  IInv'
  <1>1. TypeOK /\ JobsSound /\ CallSound /\ WorkerSound
    BY DEF IInv
  <1>2. /\ UNCHANGED <<edits, jobs, worker, data>>
        /\ \/ \E outcome : call' = Ended(outcome)
           \/ /\ retry_error(j, execute) = Loaded
              /\ call' = [NoCall EXCEPT !.state = "retrying", !.request = jobs[j].request,
                                        !.retry_of = j, !.execute = execute]
    BY DEF RetryRead
  <1>3. call' \in Call /\ CallSound'
    <2>1. CASE \E outcome : call' = Ended(outcome)
      BY <2>1, EndedFacts DEF CallSound
    <2>2. CASE /\ retry_error(j, execute) = Loaded
               /\ call' = [NoCall EXCEPT !.state = "retrying", !.request = jobs[j].request,
                                         !.retry_of = j, !.execute = execute]
      <3>1. j \in DOMAIN jobs /\ (jobs[j].request.dry \/ execute)
        BY <2>2 DEF retry_error, Loaded
      <3>2. jobs[j].request \in Requests /\ j \in Nat
        BY <1>1, <3>1, JobsFacts DEF Job
      <3>3. call' = [state |-> "retrying", request |-> jobs[j].request, retry_of |-> j,
                     execute |-> execute, exit |-> 0]
        BY <2>2 DEF NoCall
      <3> QED BY <3>1, <3>2, <3>3 DEF Call, CallSound, Confirmed
    <2> QED BY <1>2, <2>1, <2>2
  <1>4. DataOK'
    BY <1>1, <1>2, SameData DEF TypeOK
  <1>5. TypeOK'
    BY <1>1, <1>2, <1>3, <1>4 DEF TypeOK
  <1>6. JobsSound' /\ WorkerSound'
    BY <1>1, <1>2 DEF JobsSound, WorkerSound
  <1> QED BY <1>3, <1>5, <1>6 DEF IInv

LEMMA RetryLoadInv ==
  ASSUME IInv, RetryLoadCatalog
  PROVE  IInv'
  <1>1. TypeOK /\ JobsSound /\ CallSound /\ WorkerSound
    BY DEF IInv
  <1>2. /\ UNCHANGED <<edits, jobs, worker, data>> /\ call.state = "retrying"
        /\ \/ \E outcome : call' = Ended(outcome)
           \/ call' = [call EXCEPT !.state = "storing"]
    BY DEF RetryLoadCatalog
  <1>3. call' \in Call /\ CallSound'
    <2>1. CASE \E outcome : call' = Ended(outcome)
      BY <2>1, EndedFacts DEF CallSound
    <2>2. CASE call' = [call EXCEPT !.state = "storing"]
      BY <1>1, <1>2, <2>2 DEF TypeOK, Call, CallSound
    <2> QED BY <1>2, <2>1, <2>2
  <1>4. DataOK'
    BY <1>1, <1>2, SameData DEF TypeOK
  <1>5. TypeOK'
    BY <1>1, <1>2, <1>3, <1>4 DEF TypeOK
  <1>6. JobsSound' /\ WorkerSound'
    BY <1>1, <1>2 DEF JobsSound, WorkerSound
  <1> QED BY <1>3, <1>5, <1>6 DEF IInv

LEMMA StoreInv ==
  ASSUME IInv, StoreJob
  PROVE  IInv'
  <1>1. TypeOK /\ JobsSound /\ CallSound /\ WorkerSound
    BY DEF IInv
  <1> DEFINE new == [request |-> call.request, retry_of |-> call.retry_of,
                     confirmed |-> call.execute, phase |-> "queued",
                     outcome |-> "none", ran |-> 0]
  <1>2. /\ UNCHANGED <<edits, worker, data>> /\ call.state = "storing"
        /\ call' = Ended(Loaded)
        /\ jobs' = jobs \/ jobs' = Append(jobs, new)
    BY DEF StoreJob
  <1>3. call' \in Call /\ CallSound'
    BY <1>2, EndedFacts DEF CallSound
  <1>4. /\ call.request \in Requests /\ Confirmed(call.request, call.execute)
        /\ new \in Job
    BY <1>1, <1>2 DEF CallSound, TypeOK, Call, Job
  <1>5. /\ new.phase = "queued" /\ new.outcome = "none"
        /\ Confirmed(new.request, new.confirmed)
    BY <1>4
  <1> HIDE DEF new
  <1>6. /\ jobs' \in Seq(Job)
        /\ DOMAIN jobs \subseteq DOMAIN jobs'
        /\ \A j \in DOMAIN jobs : jobs'[j] = jobs[j]
        /\ \A j \in DOMAIN jobs' \ DOMAIN jobs : jobs'[j] = new
    BY <1>1, <1>2, <1>4 DEF TypeOK
  <1>7. DataOK'
    BY <1>1, <1>2, SameData DEF TypeOK
  <1>8. TypeOK'
    BY <1>1, <1>2, <1>3, <1>6, <1>7 DEF TypeOK
  <1>9. JobsSound'
    BY <1>1, <1>5, <1>6 DEF JobsSound
  <1>10. WorkerSound'
    BY <1>1, <1>2, <1>6 DEF WorkerSound
  <1> QED BY <1>3, <1>8, <1>9, <1>10 DEF IInv

LEMMA StartInv ==
  ASSUME IInv, StartWorker
  PROVE  IInv'
  <1>1. TypeOK /\ JobsSound /\ CallSound /\ WorkerSound
    BY DEF IInv
  <1>2. /\ UNCHANGED <<edits, jobs, call, data>> /\ CatalogError[edits] = Loaded
        /\ worker' = [NoWorker EXCEPT !.state = "ready", !.setup = edits]
    BY DEF StartWorker
  <1>3. worker' \in Worker
    <2>1. <<>> \in Seq(Statuses) /\ Loaded \in Refusals
      BY DEF Refusals
    <2>2. worker' = [state |-> "ready", setup |-> edits, job |-> 0, error |-> Loaded,
                     statuses |-> <<>>, complete |-> FALSE, last |-> "none"]
      BY <1>2 DEF NoWorker
    <2> QED BY <1>1, <2>1, <2>2 DEF Worker, TypeOK
  <1>4. worker'.state = "ready" /\ worker'.setup \in Loadable
    BY <1>1, <1>2 DEF NoWorker, Loadable, TypeOK
  <1>5. DataOK'
    BY <1>1, <1>2, SameData DEF TypeOK
  <1>6. TypeOK'
    BY <1>1, <1>2, <1>3, <1>5 DEF TypeOK
  <1>7. JobsSound' /\ CallSound' /\ WorkerSound'
    BY <1>1, <1>2, <1>4 DEF JobsSound, CallSound, WorkerSound
  <1> QED BY <1>6, <1>7 DEF IInv

\* Jobs that are found running are abandoned, and nothing else changes of them.
LEMMA RecoveredFacts ==
  ASSUME IInv
  PROVE  /\ DOMAIN RecoverJobs = DOMAIN jobs
         /\ \A j \in DOMAIN jobs :
              /\ RecoverJobs[j] \in Job
              /\ RecoverJobs[j].request = jobs[j].request
              /\ RecoverJobs[j].confirmed = jobs[j].confirmed
              /\ RecoverJobs[j].outcome = jobs[j].outcome
              /\ RecoverJobs[j].ran = jobs[j].ran
              /\ RecoverJobs[j].phase = jobs[j].phase \/ RecoverJobs[j].phase = "abandoned"
  <1>1. \A j \in DOMAIN jobs : jobs[j] \in Job
    BY JobsFacts DEF IInv
  <1>2. ASSUME NEW j \in DOMAIN jobs
        PROVE  RecoverJobs[j] = IF jobs[j].phase = "running"
                                THEN [jobs[j] EXCEPT !.phase = "abandoned"] ELSE jobs[j]
    BY DEF RecoverJobs
  <1>3. DOMAIN RecoverJobs = DOMAIN jobs
    BY DEF RecoverJobs
  <1> QED BY <1>1, <1>2, <1>3 DEF Job

LEMMA ClaimInv ==
  ASSUME IInv, ClaimJob
  PROVE  IInv'
  <1>1. TypeOK /\ JobsSound /\ CallSound /\ WorkerSound
    BY DEF IInv
  <1> DEFINE j == Min(Queued)
             claimed == Running(jobs[j])
  <1>2. /\ UNCHANGED <<edits, call, data>> /\ worker.state = "ready" /\ Queued # {}
        /\ jobs' = [RecoverJobs EXCEPT ![j] = claimed]
        /\ worker' = [worker EXCEPT !.state = "running", !.job = j, !.last = "none",
                         !.error = preflight_error(worker.setup, jobs[j].request)]
    BY DEF ClaimJob
  <1>3. DOMAIN jobs = 1..Len(jobs) /\ Len(jobs) \in Nat /\ \A n \in DOMAIN jobs : jobs[n] \in Job
    BY <1>1, JobsFacts
  <1>4. j \in DOMAIN jobs /\ jobs[j].phase = "queued" /\ j \in Nat
    <2>1. Queued \in SUBSET (1..Len(jobs))
      BY <1>3 DEF Queued
    <2>2. IsFiniteSet(Queued) /\ Queued \in SUBSET Nat
      <3>1. IsFiniteSet(1..Len(jobs))
        BY <1>3, FS_Interval
      <3>2. IsFiniteSet(Queued)
        BY <2>1, <3>1, FS_Subset
      <3> QED BY <1>3, <2>1, <3>2
    <2>3. j \in Queued
      BY <1>2, <2>2, MinMax
    <2> QED BY <2>2, <2>3 DEF Queued
  <1> HIDE DEF j
  <1>5. worker.setup \in Loadable /\ worker.setup \in Nat /\ jobs[j].request \in Requests
    BY <1>1, <1>2, <1>3, <1>4, SetupFacts DEF WorkerSound, TypeOK, Worker, Job
  <1>6. /\ claimed \in Job /\ claimed.request = jobs[j].request
        /\ claimed.confirmed = jobs[j].confirmed /\ claimed.outcome = jobs[j].outcome
        /\ claimed.phase = "running" /\ claimed.ran = worker.setup
    BY <1>3, <1>4, <1>5 DEF Running, Job
  <1> HIDE DEF claimed
  <1>7. /\ DOMAIN jobs' = DOMAIN jobs
        /\ jobs'[j] = claimed
        /\ \A n \in DOMAIN jobs : n # j => jobs'[n] = RecoverJobs[n]
        /\ \A n \in DOMAIN jobs : jobs'[n] \in Job
    BY <1>2, <1>4, <1>6, RecoveredFacts DEF RecoverJobs
  <1>8. jobs' \in Seq(Job)
    <2>1. jobs' \in [1..Len(jobs) -> Job]
      BY <1>2, <1>3, <1>7 DEF RecoverJobs
    <2> QED BY <1>3, <2>1
  <1>9. jobs[j].outcome = "none"
    BY <1>1, <1>4 DEF JobsSound
  <1>10. JobsSound'
    <2> SUFFICES ASSUME NEW n \in DOMAIN jobs
                 PROVE  /\ Confirmed(jobs'[n].request, jobs'[n].confirmed)
                        /\ jobs'[n].phase \in {"queued", "running"} => jobs'[n].outcome = "none"
                        /\ jobs'[n].outcome = "execution_context_mismatch" =>
                             /\ jobs'[n].ran \in Loadable
                             /\ Context[jobs'[n].request.setup] # Context[jobs'[n].ran]
      BY <1>7 DEF JobsSound
    <2>1. CASE n = j
      BY <1>1, <1>4, <1>6, <1>7, <1>9, <2>1 DEF JobsSound
    <2>2. CASE n # j
      BY <1>1, <1>7, <2>2, RecoveredFacts DEF JobsSound
    <2> QED BY <2>1, <2>2
  <1>11. preflight_error(worker.setup, jobs[j].request) \in Refusals
    BY <1>5, PreflightFacts
  <1>12. /\ worker' \in Worker
         /\ worker'.setup = worker.setup /\ worker'.job = j
         /\ worker'.error = preflight_error(worker.setup, jobs[j].request)
    BY <1>1, <1>2, <1>4, <1>11 DEF TypeOK, Worker
  <1>13. WorkerSound'
    BY <1>4, <1>5, <1>6, <1>7, <1>12 DEF WorkerSound
  <1>14. DataOK'
    BY <1>1, <1>2, SameData DEF TypeOK
  <1>15. TypeOK'
    BY <1>1, <1>2, <1>8, <1>12, <1>14 DEF TypeOK
  <1>16. CallSound'
    BY <1>1, <1>2 DEF CallSound
  <1> QED BY <1>10, <1>13, <1>15, <1>16 DEF IInv

LEMMA NoWorkInv ==
  ASSUME IInv, NoWork
  PROVE  IInv'
  <1>1. TypeOK /\ JobsSound /\ CallSound /\ WorkerSound
    BY DEF IInv
  <1>2. /\ UNCHANGED <<edits, call, data>> /\ worker.state = "ready"
        /\ jobs' = RecoverJobs
        /\ worker' = [worker EXCEPT !.job = 0, !.last = "no_work"]
    BY DEF NoWork
  <1>3. jobs' \in Seq(Job)
    <2>1. DOMAIN jobs = 1..Len(jobs) /\ Len(jobs) \in Nat
      BY <1>1, JobsFacts
    <2>2. jobs' \in [1..Len(jobs) -> Job]
      BY <1>2, <2>1, RecoveredFacts DEF RecoverJobs
    <2> QED BY <2>1, <2>2
  <1>4. JobsSound'
    BY <1>1, <1>2, RecoveredFacts DEF JobsSound
  <1>5. worker' \in Worker /\ worker'.state = "ready" /\ worker'.setup = worker.setup
    BY <1>1, <1>2 DEF TypeOK, Worker
  <1>6. WorkerSound'
    BY <1>1, <1>2, <1>5 DEF WorkerSound
  <1>7. DataOK'
    BY <1>1, <1>2, SameData DEF TypeOK
  <1>8. TypeOK'
    BY <1>1, <1>2, <1>3, <1>5, <1>7 DEF TypeOK
  <1>9. CallSound'
    BY <1>1, <1>2 DEF CallSound
  <1> QED BY <1>4, <1>6, <1>8, <1>9 DEF IInv

\* A worker runs a job on datasets of its catalog, and what it stores are bars
\* of the dataset; a dry run stores nothing.
LEMMA RunFacts ==
  ASSUME IInv, RunDataset
  PROVE  LET request == jobs[worker.job].request IN
         /\ UNCHANGED <<edits, jobs, call>>
         /\ worker.state = "running"
         /\ worker' \in Worker
         /\ worker'.state = "running" /\ worker'.setup = worker.setup
         /\ worker'.job = worker.job /\ worker'.error = worker.error
         /\ DataOK'
         /\ request.dry => data' = data
  <1> DEFINE request == jobs[worker.job].request
             n == Len(worker.statuses) + 1
             k == request.datasets[n]
             store == StoreOf(worker.setup, k)
             Run == Outcomes(worker.setup, k, data[store], request)
  <1>1. TypeOK /\ JobsSound /\ CallSound /\ WorkerSound
    BY DEF IInv
  <1>2. /\ worker.state = "running" /\ worker.error = Loaded
        /\ n <= Len(request.datasets)
        /\ UNCHANGED <<edits, jobs, call>>
        /\ \E outcome \in Run \cup {Outcome("skipped", data[store], FALSE)} :
             /\ data' = [data EXCEPT ![store] = outcome.bars]
             /\ worker' = [worker EXCEPT !.statuses = Append(@, outcome.status),
                                         !.complete = outcome.complete]
    BY DEF RunDataset
  <1>3. /\ worker.setup \in Loadable /\ request \in Requests
        /\ preflight_error(worker.setup, request) = Loaded
    BY <1>1, <1>2, JobsFacts DEF WorkerSound, Job
  <1>4. k \in DatasetsOf(worker.setup)
    <2>1. /\ request.datasets \in Seq(DatasetsOf(request.setup))
          /\ worker.statuses \in Seq(Statuses)
      BY <1>1, <1>3, RequestFacts DEF TypeOK, Worker
    <2>2. n \in DOMAIN request.datasets
      <3>1. n \in Nat \ {0} /\ Len(request.datasets) \in Nat
            /\ DOMAIN request.datasets = 1..Len(request.datasets)
        BY <2>1
      <3> HIDE DEF n, request
      <3> QED BY <1>2, <3>1
    <2>3. require_enabled(Catalog[worker.setup], k) = Loaded
      BY <1>3, <2>2, PreflightFacts
    <2> HIDE DEF k, request
    <2> QED BY <2>3 DEF require_enabled, Loaded, DatasetsOf
  <1>5. store \in Stores /\ store[2] = k
    <2> HIDE DEF k
    <2> QED BY <1>3, <1>4 DEF Stores, StoreOf
  <1>6. /\ data = [s \in Stores |-> data[s]]
        /\ \A s \in Stores : data[s] \in Seq(Bar(s[2]))
        /\ data[store] \in Seq(Bar(k))
    <2>1. DataOK
      BY <1>1 DEF TypeOK
    <2> HIDE DEF store, k
    <2> QED BY <1>5, <2>1 DEF DataOK
  <1>7. PICK outcome \in Run \cup {Outcome("skipped", data[store], FALSE)} :
             /\ data' = [data EXCEPT ![store] = outcome.bars]
             /\ worker' = [worker EXCEPT !.statuses = Append(@, outcome.status),
                                         !.complete = outcome.complete]
    BY <1>2
  <1>8. request.policy \in Policies
    BY <1>3, RequestFacts
  <1>9. /\ outcome.status \in Statuses /\ outcome.complete \in BOOLEAN
        /\ outcome.bars \in Seq(Bar(k))
        /\ request.dry => outcome.bars = data[store]
    <2>1. CASE outcome \in Run
      <3> HIDE DEF k, request, store
      <3> QED BY <1>3, <1>4, <1>6, <1>8, <2>1, OutcomeFacts
    <2>2. CASE outcome = Outcome("skipped", data[store], FALSE)
      <3> HIDE DEF k, request, store
      <3> QED BY <1>6, <2>2 DEF Outcome, Statuses
    <2> HIDE DEF Run, store
    <2> QED BY <1>7, <2>1, <2>2
  <1> HIDE DEF k, request, store, Run, n
  <1>10. /\ worker' \in Worker
         /\ worker'.state = "running" /\ worker'.setup = worker.setup
         /\ worker'.job = worker.job /\ worker'.error = worker.error
    <2>1. worker \in Worker
      BY <1>1 DEF TypeOK
    <2>2. Append(worker.statuses, outcome.status) \in Seq(Statuses)
      BY <1>9, <2>1 DEF Worker
    <2> QED BY <1>2, <1>7, <1>9, <2>1, <2>2 DEF Worker
  <1>11. DataOK'
    BY <1>5, <1>6, <1>7, <1>9 DEF DataOK
  <1>12. request.dry => data' = data
    BY <1>5, <1>6, <1>7, <1>9
  <1> QED BY <1>2, <1>10, <1>11, <1>12 DEF request

LEMMA RunInv ==
  ASSUME IInv, RunDataset
  PROVE  IInv'
  <1>1. TypeOK /\ JobsSound /\ CallSound /\ WorkerSound
    BY DEF IInv
  <1>2. /\ UNCHANGED <<edits, jobs, call>> /\ worker.state = "running"
        /\ worker' \in Worker
        /\ worker'.state = "running" /\ worker'.setup = worker.setup
        /\ worker'.job = worker.job /\ worker'.error = worker.error
        /\ DataOK'
    BY RunFacts
  <1>3. TypeOK'
    BY <1>1, <1>2 DEF TypeOK
  <1>4. JobsSound' /\ CallSound' /\ WorkerSound'
    BY <1>1, <1>2 DEF JobsSound, CallSound, WorkerSound
  <1> QED BY <1>3, <1>4 DEF IInv

LEMMA FinishInv ==
  ASSUME IInv, FinishJob
  PROVE  IInv'
  <1> DEFINE job == jobs[worker.job]
             request == job.request
             code == IF worker.error # Loaded THEN worker.error
                     ELSE result_code(request, worker.statuses)
             failed == worker.error # Loaded \/ code = "failed"
             finished == [job EXCEPT !.phase = IF failed THEN "failed" ELSE "succeeded",
                                     !.outcome = code]
  <1>1. TypeOK /\ JobsSound /\ CallSound /\ WorkerSound
    BY DEF IInv
  <1>2. /\ worker.state = "running" /\ UNCHANGED <<edits, call, data>>
        /\ worker.error = Loaded => Len(worker.statuses) = Len(request.datasets)
        /\ jobs' = [jobs EXCEPT ![worker.job].phase = IF failed THEN "failed" ELSE "succeeded",
                                ![worker.job].outcome = code]
        /\ worker' = [worker EXCEPT
             !.state = "ready", !.error = Loaded, !.statuses = <<>>, !.complete = FALSE,
             !.last  = IF failed THEN "job_failed" ELSE "job_completed"]
    BY DEF FinishJob
  <1>3. /\ worker.job \in DOMAIN jobs /\ worker.setup \in Loadable
        /\ job.ran = worker.setup /\ worker.error = preflight_error(worker.setup, request)
        /\ job \in Job /\ request \in Requests
        /\ DOMAIN jobs = 1..Len(jobs) /\ Len(jobs) \in Nat
        /\ \A n \in DOMAIN jobs : jobs[n] \in Job
    BY <1>1, <1>2, JobsFacts DEF WorkerSound, Job
  <1>4. /\ code \in Refusals \cup Results
        /\ code = "execution_context_mismatch" => Context[request.setup] # Context[worker.setup]
    <2>1. CASE worker.error # Loaded
      <3>1. code = worker.error
        BY <2>1
      <3>2. worker.error \in Refusals
        BY <1>1 DEF TypeOK, Worker
      <3> HIDE DEF code, request
      <3> QED BY <1>3, <3>1, <3>2, PreflightFacts
    <2>2. CASE worker.error = Loaded
      <3>1. request.datasets # <<>> /\ request.datasets \in Seq(DatasetsOf(request.setup))
        BY <1>3, RequestFacts
      <3>2. worker.statuses \in Seq(Statuses)
        BY <1>1 DEF TypeOK, Worker
      <3>3. worker.statuses # <<>>
        <4>1. Len(request.datasets) # 0
          BY <3>1
        <4> QED BY <1>2, <2>2, <4>1
      <3>4. code = result_code(request, worker.statuses)
        BY <2>2
      <3> HIDE DEF code, request
      <3> QED BY <3>2, <3>3, <3>4, ResultFacts
    <2> QED BY <2>1, <2>2
  <1> HIDE DEF code, failed
  <1>5. jobs' = [jobs EXCEPT ![worker.job] = finished]
    <2> QED BY <1>2, <1>3 DEF Job
  <1>6. /\ finished \in Job /\ finished.request = request /\ finished.confirmed = job.confirmed
        /\ finished.outcome = code /\ finished.ran = worker.setup
        /\ finished.phase \in {"failed", "succeeded"}
    <2> HIDE DEF request
    <2> QED BY <1>3, <1>4 DEF Job, request
  <1> HIDE DEF finished
  <1>7. /\ DOMAIN jobs' = DOMAIN jobs /\ jobs' \in Seq(Job)
        /\ jobs'[worker.job] = finished
        /\ \A n \in DOMAIN jobs : n # worker.job => jobs'[n] = jobs[n]
    <2>1. jobs' \in Seq(Job)
      BY <1>1, <1>3, <1>5, <1>6 DEF TypeOK
    <2> QED BY <1>3, <1>5, <2>1
  <1>8. JobsSound'
    <2> SUFFICES ASSUME NEW n \in DOMAIN jobs
                 PROVE  /\ Confirmed(jobs'[n].request, jobs'[n].confirmed)
                        /\ jobs'[n].phase \in {"queued", "running"} => jobs'[n].outcome = "none"
                        /\ jobs'[n].outcome = "execution_context_mismatch" =>
                             /\ jobs'[n].ran \in Loadable
                             /\ Context[jobs'[n].request.setup] # Context[jobs'[n].ran]
      BY <1>7 DEF JobsSound
    <2>1. CASE n = worker.job
      BY <1>1, <1>3, <1>4, <1>6, <1>7, <2>1 DEF JobsSound
    <2>2. CASE n # worker.job
      BY <1>1, <1>7, <2>2 DEF JobsSound
    <2> QED BY <2>1, <2>2
  <1>9. worker' \in Worker /\ worker'.state = "ready" /\ worker'.setup = worker.setup
    <2>1. Loaded \in Refusals /\ <<>> \in Seq(Statuses)
      BY DEF Refusals
    <2> QED BY <1>1, <1>2, <2>1 DEF TypeOK, Worker
  <1>10. WorkerSound'
    BY <1>3, <1>9 DEF WorkerSound
  <1>11. DataOK'
    BY <1>1, <1>2, SameData DEF TypeOK
  <1>12. TypeOK'
    BY <1>1, <1>2, <1>7, <1>9, <1>11 DEF TypeOK
  <1>13. CallSound'
    BY <1>1, <1>2 DEF CallSound
  <1> QED BY <1>8, <1>10, <1>12, <1>13 DEF IInv

LEMMA LeaveInv ==
  ASSUME IInv, StopWorker \/ LoseWorker
  PROVE  IInv'
  <1>1. TypeOK /\ JobsSound /\ CallSound /\ WorkerSound
    BY DEF IInv
  <1>2. UNCHANGED <<edits, jobs, call, data>> /\ worker' \in Worker /\ worker'.state = "off"
    <2>1. CASE StopWorker
      BY <1>1, <2>1 DEF StopWorker, TypeOK, Worker
    <2>2. CASE LoseWorker
      <3>1. worker' = [state |-> "off", setup |-> 1, job |-> worker.job, error |-> Loaded,
                       statuses |-> <<>>, complete |-> FALSE, last |-> "worker_unsafe"]
        BY <2>2 DEF LoseWorker, NoWorker
      <3>2. Loaded \in Refusals /\ <<>> \in Seq(Statuses)
        BY DEF Refusals
      <3>3. worker.job \in Nat
        BY <1>1 DEF TypeOK, Worker
      <3>4. worker' \in Worker /\ worker'.state = "off"
        BY <3>1, <3>2, <3>3, SetupFacts DEF Worker
      <3> QED BY <2>2, <3>4 DEF LoseWorker
    <2> QED BY <2>1, <2>2
  <1>3. DataOK'
    BY <1>1, <1>2, SameData DEF TypeOK
  <1>4. TypeOK'
    BY <1>1, <1>2, <1>3 DEF TypeOK
  <1>5. JobsSound' /\ CallSound' /\ WorkerSound'
    BY <1>1, <1>2 DEF JobsSound, CallSound, WorkerSound
  <1> QED BY <1>4, <1>5 DEF IInv

LEMMA EditInv ==
  ASSUME IInv, Edit
  PROVE  IInv'
  <1>1. TypeOK /\ JobsSound /\ CallSound /\ WorkerSound
    BY DEF IInv
  <1>2. UNCHANGED <<jobs, call, worker, data>> /\ edits' \in DOMAIN Setups
    BY <1>1, SetupFacts DEF Edit, TypeOK
  <1>3. DataOK'
    BY <1>1, <1>2, SameData DEF TypeOK
  <1>4. TypeOK'
    BY <1>1, <1>2, <1>3 DEF TypeOK
  <1>5. JobsSound' /\ CallSound' /\ WorkerSound'
    BY <1>1, <1>2 DEF JobsSound, CallSound, WorkerSound
  <1> QED BY <1>4, <1>5 DEF IInv

\* The conjuncts hold together in every state: the catalogs and contexts of
\* queued and running jobs stay what their setups make them.
THEOREM Invariant == Spec => []IInv
  <1>1. ASSUME IInv, [Next]_vars PROVE IInv'
    <2>1. ASSUME NEW command \in Commands, SubmitCommand(command) PROVE IInv'
      BY <1>1, <2>1, SubmitInv
    <2>2. ASSUME NEW j \in 1..MaxJobs, NEW execute \in BOOLEAN, RetryRead(j, execute)
          PROVE  IInv'
      BY <1>1, <2>2, RetryReadInv
    <2>3. CASE UNCHANGED vars
      <3>1. TypeOK /\ JobsSound /\ CallSound /\ WorkerSound
        BY <1>1 DEF IInv
      <3>2. DataOK'
        BY <2>3, <3>1, SameData DEF TypeOK, vars
      <3> QED BY <2>3, <3>1, <3>2
              DEF IInv, TypeOK, JobsSound, CallSound, WorkerSound, vars
    <2> QED BY <1>1, <2>1, <2>2, <2>3, RetryLoadInv, StoreInv, StartInv, ClaimInv,
               NoWorkInv, RunInv, FinishInv, LeaveInv, EditInv DEF Next
  <1> QED BY <1>1, InitInv, PTL DEF Spec

-----------------------------------------------------------------------------
(* What operators and the administrator rely on                            *)

\* Jobs, commands, workers and generations have their types: what is stored of
\* a dataset are bars of it, with the close that a provider of one of its chains
\* returned.
THEOREM TypeCorrect == Spec => []TypeOK
  <1>1. IInv => TypeOK
    BY DEF IInv
  <1> QED BY <1>1, Invariant, PTL

\* RunsAsSubmitted: the comparison of contexts before a job (operation_worker.py)
\* finds every difference of the runtimes that matters to the job.
THEOREM SubmittedRuntimes == Spec => []RunsAsSubmitted
  <1>1. ASSUME IInv, worker.state = "running", worker.error = Loaded,
               NEW k \in ToSet(jobs[worker.job].request.datasets)
        PROVE  Relocated(RuntimeOf(worker.setup, k))
                 = Relocated(RuntimeOf(jobs[worker.job].request.setup, k))
    <2> DEFINE request == jobs[worker.job].request
    <2>1. /\ worker.setup \in Loadable /\ request \in Requests
          /\ preflight_error(worker.setup, request) = Loaded
      BY <1>1, JobsFacts DEF IInv, WorkerSound, Job
    <2> HIDE DEF request
    <2>2. request.setup \in Loadable /\ request.datasets \in Seq(DatasetsOf(request.setup))
      BY <2>1, RequestFacts
    <2>3. PICK n \in DOMAIN request.datasets : k = request.datasets[n]
      BY <1>1, <2>2 DEF ToSet, request
    <2>4. /\ Context[request.setup] = Context[worker.setup]
          /\ require_enabled(Catalog[worker.setup], k) = Loaded
      BY <2>1, <2>3, PreflightFacts
    <2> QED BY <2>1, <2>2, <2>4, SameContext DEF request
  <1>2. IInv => RunsAsSubmitted
    BY <1>1 DEF RunsAsSubmitted
  <1> QED BY <1>2, Invariant, PTL

\* ContextFailureIsReal: a job is refused for its context only if the entries of
\* the two catalogs differ in more than where generations are.
THEOREM RefusalsAreReal == Spec => []ContextFailureIsReal
  <1>1. ASSUME IInv, NEW j \in DOMAIN jobs,
               jobs[j].outcome = "execution_context_mismatch"
        PROVE  Entries(jobs[j].request.setup) # Entries(jobs[j].ran)
    <2>1. jobs[j].request \in Requests
      BY JobsFacts, <1>1 DEF IInv, Job
    <2>2. /\ jobs[j].ran \in Loadable
          /\ Context[jobs[j].request.setup] # Context[jobs[j].ran]
      BY <1>1 DEF IInv, JobsSound
    <2> QED BY <2>1, <2>2, RequestFacts, ContextOfEntries
  <1>2. IInv => ContextFailureIsReal
    BY <1>1 DEF ContextFailureIsReal
  <1> QED BY <1>2, Invariant, PTL

\* SameChainSameUnits: the check of config_error keeps unverified providers of
\* equities out of chains, and nothing else writes bars.
THEOREM UnitsAgree == Spec => []SameChainSameUnits
  <1>1. ASSUME IInv, NEW store \in Stores, store[2].asset = "equity",
               NEW n \in DOMAIN data[store], NEW m \in DOMAIN data[store],
               data[store][n].close[2] = data[store][m].close[2],
               data[store][n].close[1] # data[store][m].close[1]
        PROVE  /\ lookup(data[store][n].close[1]).verified
               /\ lookup(data[store][m].close[1]).verified
    <2> DEFINE k == store[2]
               a == data[store][n].close
               b == data[store][m].close
    <2>1. data[store] \in Seq(Bar(k))
      <3>1. DataOK
        BY <1>1 DEF IInv, TypeOK
      <3> QED BY <3>1 DEF DataOK
    <2>2. a \in Closes(k) /\ b \in Closes(k)
      <3>1. data[store][n] \in Bar(k) /\ data[store][m] \in Bar(k)
        <4> HIDE DEF k
        <4> QED BY <2>1
      <3> QED BY <3>1 DEF Bar
    <2>3. PICK c \in Chains(k) : a \in ToSet(c) \X {c}
      BY <2>2 DEF Closes
    <2>4. PICK d \in Chains(k) : b \in ToSet(d) \X {d}
      BY <2>2 DEF Closes
    <2>5. a[1] \in ToSet(c) /\ b[1] \in ToSet(c)
      BY <1>1, <2>3, <2>4
    <2>6. PICK i \in Loadable : k \in DatasetsOf(i) /\ c = RuntimeOf(i, k).providers
      BY DEF Chains
    <2> QED BY <1>1, <2>5, <2>6, ChainUnits
  <1>2. IInv => SameChainSameUnits
    <2> SUFFICES ASSUME IInv, NEW store \in Stores, store[2].asset = "equity",
                        NEW n \in DOMAIN data[store], NEW m \in DOMAIN data[store],
                        data[store][n].close[2] = data[store][m].close[2],
                        data[store][n].close[1] # data[store][m].close[1]
                 PROVE  /\ lookup(data[store][n].close[1]).verified
                        /\ lookup(data[store][m].close[1]).verified
      BY DEF SameChainSameUnits
    <2> QED BY <1>1
  <1> QED BY <1>2, Invariant, PTL

\* OnlyConfirmedWorkWrites: no path through submissions, retries and workers
\* brings bars of a dry run, or of a job that nobody confirmed, to the disk.
THEOREM WritesAreConfirmed == Spec => OnlyConfirmedWorkWrites
  <1> DEFINE A == data' # data => /\ ~jobs[worker.job].request.dry
                                 /\ jobs[worker.job].confirmed
  <1>1. ASSUME IInv, [Next]_vars PROVE [A]_vars
    <2>1. CASE RunDataset
      <3>1. /\ worker.state = "running"
            /\ jobs[worker.job].request.dry => data' = data
        BY <1>1, <2>1, RunFacts
      <3>2. worker.job \in DOMAIN jobs
        BY <1>1, <3>1 DEF IInv, WorkerSound
      <3>3. jobs[worker.job].request.dry \/ jobs[worker.job].confirmed
        BY <1>1, <3>2 DEF IInv, JobsSound, Confirmed
      <3> QED BY <3>1, <3>3
    <2>2. CASE ~RunDataset
      <3>1. data' = data
        BY <1>1, <2>2 DEF Next, vars, SubmitCommand, RetryRead, RetryLoadCatalog, StoreJob,
           StartWorker, ClaimJob, NoWork, FinishJob, StopWorker, LoseWorker, Edit
      <3> QED BY <3>1
    <2> QED BY <2>1, <2>2
  <1> QED BY <1>1, Invariant, PTL DEF Spec, OnlyConfirmedWorkWrites

-----------------------------------------------------------------------------
(* Readiness                                                               *)

Sessions(cal, expectation) == cal.open \ ConfirmedAbsent(expectation)

LEMMA ExpectedDay ==
  ASSUME NEW cal, cal.open \in SUBSET Days, NEW expectation, NEW e \in Nat
  PROVE  is_observation_expected(expectation, cal, e) <=> e \in Sessions(cal, expectation)
  <1>1. {d \in cal.open : e <= d /\ d <= e} = cal.open \cap {e}
    <2>1. \A d \in cal.open : d \in Nat
      BY ServiceAssumption
    <2> QED BY <2>1
  <1>2. expected_observation_dates(expectation, cal, DateRange(e, e)) =
          (cal.open \cap {e}) \ ConfirmedAbsent(expectation)
    BY <1>1 DEF expected_observation_dates, trading_days, InRange, DateRange
  <1> QED BY <1>2 DEF is_observation_expected, Sessions

\* The walks back through the calendar find the last session up to a day and the
\* one before it.
LEMMA WalkFacts ==
  ASSUME NEW cal, cal.open \in SUBSET Days, NEW expectation, NEW d \in Nat
  PROVE  LET E == Sessions(cal, expectation)
             before == ExpectedBefore(cal, expectation, d) IN
         /\ before = {e \in E : e < d}
         /\ before # {} => /\ Max(before) \in before
                           /\ \A e \in before : e <= Max(before)
  <1> DEFINE E == Sessions(cal, expectation)
             before == ExpectedBefore(cal, expectation, d)
  <1>1. cal.open \in SUBSET Nat /\ IsFiniteSet(cal.open)
    BY ServiceAssumption, FS_Subset
  <1>2. before = {e \in E : e < d}
    BY <1>1, ExpectedDay DEF ExpectedBefore, Sessions
  <1>3. before \in SUBSET Nat /\ IsFiniteSet(before)
    <2>1. before \in SUBSET cal.open
      BY DEF ExpectedBefore
    <2> HIDE DEF before
    <2>2. IsFiniteSet(before)
      BY <1>1, <2>1, FS_Subset
    <2> QED BY <1>1, <2>1, <2>2
  <1>4. before # {} => Max(before) \in before /\ \A e \in before : e <= Max(before)
    <2> HIDE DEF before
    <2> QED BY <1>3, MinMax
  <1> QED BY <1>2, <1>4

\* What the comparisons with the required day and with the threshold say of the
\* sessions that were missed.
LEMMA MissedFacts ==
  ASSUME NEW cal, cal.open \in SUBSET Days, NEW expectation, NEW d \in Days,
         NEW observed \in Nat \cup {NoDate},
         observed # NoDate =>
           observed <= d /\ is_observation_expected(expectation, cal, observed),
         NEW required, required = RequiredDate(cal, expectation, d),
         NEW threshold, threshold = StaleThreshold(cal, expectation, required),
         required # NoDate, threshold # NoDate
  PROVE  LET missed == {e \in Sessions(cal, expectation) : observed < e /\ e <= d} IN
         /\ observed = required <=> observed # NoDate /\ Cardinality(missed) = 0
         /\ observed # NoDate /\ observed < threshold
              <=> observed # NoDate /\ Cardinality(missed) >= 2
         /\ observed # NoDate /\ observed < threshold => observed # required
  <1> DEFINE E == Sessions(cal, expectation)
             missed == {e \in E : observed < e /\ e <= d}
  <1>1. /\ d \in Nat /\ E \in SUBSET Nat /\ IsFiniteSet(E) /\ NoDate = -1
        /\ observed \in Int
    <2>1. cal.open \in SUBSET Nat /\ IsFiniteSet(cal.open)
      BY ServiceAssumption, FS_Subset
    <2>2. Sessions(cal, expectation) \in SUBSET cal.open
      BY DEF Sessions
    <2>3. IsFiniteSet(Sessions(cal, expectation))
      BY <2>1, <2>2, FS_Subset
    <2> QED BY <2>1, <2>2, <2>3, ServiceAssumption DEF NoDate
  <1>2. required \in E /\ required <= d /\ \A e \in E : e <= d => e <= required
    <2>1. CASE is_observation_expected(expectation, cal, d)
      <3>1. required = d /\ d \in E
        BY <1>1, <2>1, ExpectedDay DEF RequiredDate
      <3> HIDE DEF E
      <3> QED BY <1>1, <3>1
    <2>2. CASE ~is_observation_expected(expectation, cal, d)
      <3> DEFINE before == ExpectedBefore(cal, expectation, d)
      <3>1. required = Max(before) /\ before # {} /\ d \notin E
        BY <1>1, <2>2, ExpectedDay DEF RequiredDate
      <3>2. before = {e \in E : e < d} /\ required \in before
            /\ \A e \in before : e <= required
        BY <1>1, <3>1, WalkFacts
      <3> HIDE DEF E, before
      <3>3. ASSUME NEW e \in E, e <= d PROVE e <= required
        <4>1. e # d /\ e \in Nat
          BY <1>1, <3>1
        <4>2. e < d
          BY <1>1, <3>3, <4>1
        <4> QED BY <3>2, <4>2
      <3>4. required \in Nat
        BY <1>1, <3>2
      <3> QED BY <1>1, <3>2, <3>3, <3>4
    <2> QED BY <2>1, <2>2
  <1>3. threshold \in E /\ threshold < required /\ \A e \in E : e < required => e <= threshold
    <2> DEFINE before == ExpectedBefore(cal, expectation, required)
    <2>1. threshold = Max(before) /\ before # {}
      BY DEF StaleThreshold
    <2>2. required \in Nat
      BY <1>1, <1>2
    <2>3. before = {e \in E : e < required} /\ threshold \in before
          /\ \A e \in before : e <= threshold
      BY <2>1, <2>2, WalkFacts
    <2> HIDE DEF E, before
    <2> QED BY <2>3
  <1>4. observed # NoDate => observed \in E /\ observed <= d /\ observed \in Nat
    BY ExpectedDay
  <1>5. IsFiniteSet(missed) /\ Cardinality(missed) \in Nat
    <2>1. missed \in SUBSET E
      OBVIOUS
    <2> HIDE DEF missed, E
    <2>2. IsFiniteSet(missed)
      BY <1>1, <2>1, FS_Subset
    <2> QED BY <2>2, FS_CardinalityType
  <1>6. \A e : e \in missed <=> e \in E /\ observed < e /\ e <= d
    OBVIOUS
  <1>7. required \in Nat /\ threshold \in Nat /\ \A e \in E : e \in Nat
    BY <1>1, <1>2, <1>3
  <1> HIDE DEF missed, E
  <1>8. ASSUME observed = required PROVE observed # NoDate /\ Cardinality(missed) = 0
    <2>1. observed # NoDate
      BY <1>1, <1>7, <1>8
    <2>2. ASSUME NEW e \in missed PROVE FALSE
      <3>1. e \in Nat /\ required < e /\ e <= required
        BY <1>2, <1>6, <1>7, <1>8
      <3> QED BY <1>7, <3>1
    <2>3. missed = {}
      BY <2>2
    <2> QED BY <2>1, <2>3, FS_EmptySet
  <1>9. ASSUME observed # NoDate, Cardinality(missed) = 0 PROVE observed = required
    <2>1. missed = {}
      BY <1>5, <1>9, FS_EmptySet
    <2>2. required \notin missed
      BY <2>1
    <2>3. observed >= required /\ observed <= required
      BY <1>1, <1>2, <1>4, <1>6, <1>7, <1>9, <2>2
    <2> QED BY <1>4, <1>7, <1>9, <2>3
  <1>10. ASSUME observed # NoDate, observed < threshold
         PROVE  Cardinality(missed) >= 2 /\ observed # required
    <2>1. threshold \in missed /\ required \in missed /\ threshold # required
      BY <1>1, <1>2, <1>3, <1>4, <1>6, <1>7, <1>10
    <2>2. /\ IsFiniteSet(missed \ {threshold})
          /\ Cardinality(missed \ {threshold}) = Cardinality(missed) - 1
      BY <1>5, <2>1, FS_RemoveElement
    <2>3. Cardinality(missed \ {threshold}) # 0
      <3>1. missed \ {threshold} # {}
        BY <2>1
      <3> QED BY <2>2, <3>1, FS_EmptySet
    <2>4. Cardinality(missed \ {threshold}) \in Nat
      BY <2>2, FS_CardinalityType
    <2>5. Cardinality(missed) >= 2
      BY <1>5, <2>2, <2>3, <2>4
    <2> QED BY <1>3, <1>4, <1>7, <1>10, <2>5
  <1>11. ASSUME observed # NoDate, Cardinality(missed) >= 2 PROVE observed < threshold
    <2> SUFFICES ASSUME ~(observed < threshold) PROVE FALSE
      OBVIOUS
    <2>1. ASSUME NEW e \in missed PROVE e = required
      <3>1. e \in Nat /\ observed < e /\ e <= required /\ (e < required => e <= threshold)
        BY <1>2, <1>3, <1>6, <1>7
      <3>2. observed \in Nat /\ threshold \in Nat /\ required \in Nat
        BY <1>4, <1>7, <1>11
      <3> QED BY <3>1, <3>2
    <2>2. missed \in SUBSET {required}
      BY <2>1
    <2>3. IsFiniteSet({required}) /\ Cardinality({required}) = 1
      BY FS_Singleton
    <2>4. Cardinality(missed) <= 1
      BY <2>2, <2>3, FS_Subset
    <2> QED BY <1>5, <1>11, <2>4
  <1> QED BY <1>8, <1>9, <1>10, <1>11 DEF missed, E

\* ReadinessCountsMissedSessions: the code never counts sessions, it compares the
\* last stored day with two days that it walks back to; this is the same, by the
\* calendar that the enabled datasets share.
THEOREM ReadinessCounts == Spec => []ReadinessCountsMissedSessions
  <1>1. ASSUME IInv, NEW d \in Days, NEW i \in Loadable,
               Assessed(i, d).status \notin {"raises", "not_expected"}
        PROVE  LET enabled   == {e.runtime.dataset : e \in EnabledEntries(Catalog[i])}
                   assessed  == Assessed(i, d).status
                   missed(k) == Cardinality(Missed(RuntimeOf(i, k), data[StoreOf(i, k)], d))
                   dated     == {k \in enabled : data[StoreOf(i, k)] # <<>>}
               IN  /\ (assessed = "ready") = (\A k \in enabled : k \in dated /\ missed(k) = 0)
                   /\ (assessed = "stale") = (\E k \in dated : missed(k) >= 2)
    <2> DEFINE enabled   == {e.runtime.dataset : e \in EnabledEntries(Catalog[i])}
               missed(k) == Cardinality(Missed(RuntimeOf(i, k), data[StoreOf(i, k)], d))
               dated     == {k \in enabled : data[StoreOf(i, k)] # <<>>}
               cal       == (CHOOSE e \in EnabledEntries(Catalog[i]) : TRUE).runtime.calendar
               observed  == [k \in enabled |-> LastStored(data[StoreOf(i, k)])]
               evidence  == [k \in enabled |-> RuntimeOf(i, k).expectation]
               required  == [k \in enabled |-> RequiredDate(cal, evidence[k], d)]
               threshold == [k \in enabled |-> StaleThreshold(cal, evidence[k], required[k])]
               status    == Assessed(i, d).status
    <2>1. /\ ~ReadinessRaises(cal, d, observed, evidence)
          /\ status = Classified(observed, required, threshold)
      <3>1. DOMAIN observed = enabled
        OBVIOUS
      <3>2. Assessed(i, d) = evaluate_eod_provider_readiness(cal, d, observed, evidence, "none")
        BY DEF Assessed
      <3> HIDE DEF cal, observed, evidence, enabled
      <3>3. /\ evaluate_eod_provider_readiness(cal, d, observed, evidence, "none").status
                 \notin {"raises", "not_expected"}
        BY <1>1, <3>2
      <3>4. /\ ~ReadinessRaises(cal, d, observed, evidence)
            /\ evaluate_eod_provider_readiness(cal, d, observed, evidence, "none").status
                 = Classified(observed, required, threshold)
        BY <3>1, <3>3 DEF evaluate_eod_provider_readiness, Readiness, TerminalStatuses
      <3> QED BY <3>2, <3>4
    <2>2. ASSUME NEW k \in enabled
          PROVE  /\ (observed[k] = required[k]) <=> (k \in dated /\ missed(k) = 0)
                 /\ (observed[k] # NoDate /\ observed[k] < threshold[k])
                      <=> (k \in dated /\ missed(k) >= 2)
                 /\ observed[k] # NoDate /\ observed[k] < threshold[k]
                      => observed[k] # required[k]
      <3> DEFINE bars == data[StoreOf(i, k)]
                 x == RuntimeOf(i, k).expectation
                 Sessioned == {e \in Sessions(cal, x) : LastStored(bars) < e /\ e <= d}
      <3>1. k \in DatasetsOf(i) /\ cal = RuntimeOf(i, k).calendar
        <4>1. PICK e \in EnabledEntries(Catalog[i]) : e.runtime.dataset = k
          OBVIOUS
        <4>2. e \in Catalog[i]
          BY DEF EnabledEntries
        <4>3. k \in DatasetsOf(i) /\ RuntimeOf(i, k) = e.runtime
          BY <4>1, <4>2, EntryFacts, EntryOfDataset DEF RuntimeOf
        <4>4. (CHOOSE f \in EnabledEntries(Catalog[i]) : TRUE) \in EnabledEntries(Catalog[i])
          OBVIOUS
        <4>5. cal = e.runtime.calendar
          BY <4>4, OneCalendar
        <4> QED BY <4>3, <4>5
      <3>2. bars \in Seq(Bar(k))
        <4>1. StoreOf(i, k) \in Stores /\ StoreOf(i, k)[2] = k
          BY <3>1 DEF Stores, StoreOf
        <4>2. DataOK
          BY <1>1 DEF IInv, TypeOK
        <4> QED BY <4>1, <4>2 DEF DataOK
      <3> HIDE DEF bars
      <3>3. LastStored(bars) \in Nat \cup {NoDate} /\ (LastStored(bars) = NoDate <=> bars = <<>>)
        <4>1. bars # <<>> => Max(DatesIn(bars)) \in Nat
          <5>1. DatesIn(bars) \in SUBSET Nat /\ IsFiniteSet(DatesIn(bars))
                /\ (bars # <<>> => DatesIn(bars) # {})
            BY <3>2, StoredDates, ServiceAssumption
          <5> QED BY <5>1, MinMax
        <4> QED BY <4>1 DEF LastStored, NoDate
      <3>4. /\ observed[k] = LastStored(bars) /\ evidence[k] = x
            /\ required[k] = RequiredDate(cal, x, d)
            /\ threshold[k] = StaleThreshold(cal, x, required[k])
            /\ k \in DOMAIN observed
        BY DEF bars
      <3>5. cal.open \in SUBSET Days
        BY <3>1, ServiceAssumption
      <3>6. missed(k) = Cardinality(Sessioned) /\ (k \in dated <=> bars # <<>>)
        BY <3>1 DEF Missed, Sessions, bars
      <3> HIDE DEF cal, x, enabled, observed, evidence, required, threshold, missed, dated
      <3>7. /\ observed[k] # NoDate =>
                 observed[k] <= d /\ is_observation_expected(x, cal, observed[k])
            /\ required[k] # NoDate /\ threshold[k] # NoDate
        <4>1. observed[k] # NoDate => ~(observed[k] > d)
              /\ is_observation_expected(x, cal, observed[k])
          BY <2>1, <3>4 DEF ReadinessRaises
        <4>2. required[k] # NoDate /\ threshold[k] # NoDate
          BY <2>1, <3>4 DEF ReadinessRaises
        <4>3. d \in Nat /\ (observed[k] # NoDate => observed[k] \in Nat)
          BY <3>3, <3>4, ServiceAssumption
        <4> QED BY <4>1, <4>2, <4>3
      <3>8. /\ LastStored(bars) = required[k]
                 <=> LastStored(bars) # NoDate /\ Cardinality(Sessioned) = 0
            /\ LastStored(bars) # NoDate /\ LastStored(bars) < threshold[k]
                 <=> LastStored(bars) # NoDate /\ Cardinality(Sessioned) >= 2
            /\ LastStored(bars) # NoDate /\ LastStored(bars) < threshold[k]
                 => LastStored(bars) # required[k]
        BY <3>3, <3>4, <3>5, <3>7, MissedFacts
      <3> HIDE DEF Sessioned
      <3> QED BY <3>3, <3>4, <3>6, <3>8
    <2>3. dated \subseteq enabled /\ DOMAIN observed = enabled
      OBVIOUS
    <2> HIDE DEF enabled, missed, dated, cal, observed, evidence, required, threshold, status
    <2> DEFINE ready == {k \in enabled : observed[k] = required[k]}
    <2>4. /\ status = "ready" <=> ready = enabled
          /\ status = "stale" <=> /\ ready # enabled
                                 /\ \E k \in enabled : observed[k] # NoDate
                                                      /\ observed[k] < threshold[k]
      BY <2>1, <2>3 DEF Classified
    <2>5. status = "ready" <=> \A k \in enabled : k \in dated /\ missed(k) = 0
      BY <2>2, <2>4
    <2>6. status = "stale" <=> \E k \in dated : missed(k) >= 2
      BY <2>2, <2>3, <2>4
    <2>7. /\ (status = "ready") = (\A k \in enabled : k \in dated /\ missed(k) = 0)
          /\ (status = "stale") = (\E k \in dated : missed(k) >= 2)
      BY <2>5, <2>6
    <2> QED BY <2>7 DEF status, enabled, missed, dated
  <1>2. IInv => ReadinessCountsMissedSessions
    BY <1>1 DEF ReadinessCountsMissedSessions
  <1> QED BY <1>2, Invariant, PTL
=============================================================================
