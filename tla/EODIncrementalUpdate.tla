------------------------- MODULE EODIncrementalUpdate -------------------------
(***************************************************************************)
(* The bars of one dataset over a sequence of incremental updates          *)
(* (EODIncrementalCoordinator, market_data/coordinator.py) and full        *)
(* refreshes (EODFullRefreshExecutor, market_data/full_refresh.py), with   *)
(* any ranges and policies, while the evidence of absent days changes      *)
(* between calls.  A call runs under the lock of its dataset and is one    *)
(* action; one that raises, or has nothing to publish, is a stuttering     *)
(* step.  How a publication becomes visible is EODFileRepository's matter. *)
(*                                                                         *)
(* A partial result of the provider chain is an error.  One that claims to *)
(* be complete may still hold anything for the requested days: it is the   *)
(* coordinator that refuses it.  What is published then has no day twice.  *)
(***************************************************************************)
EXTENDS EODPlanning

CONSTANTS Values, NoBar

ASSUME BarsAssumption == NoBar \notin Values

VARIABLES
  bars,       \* bars[d]: the bar of day d in the current generation
  absent,     \* the days confirmed absent
  unfetched,  \* days no call was asked for: jumped over by a range that began
              \* after them, or not expected while calls could fetch them
  last        \* the plan of the last publication under the present evidence

vars == <<bars, absent, unfetched, last>>

MaybeBar == Values \cup {NoBar}
NoPlan   == [status |-> "already_current", effective |-> NoRange,
             request |-> NoRange]

Stored(b) == {d \in Days : b[d] # NoBar}
Expected  == TradingDays \ absent

TypeOK ==
  /\ bars \in [Days -> MaybeBar]
  /\ absent \in SUBSET TradingDays
  /\ unfetched \in SUBSET TradingDays
  /\ last \in Plans

Init ==
  /\ bars = [d \in Days |-> NoBar]
  /\ absent \in SUBSET TradingDays
  /\ unfetched = {}
  /\ last = NoPlan

-----------------------------------------------------------------------------

\* What the chain may return for a request.
Results(request) == [Within(Days, request) -> MaybeBar]

\* Mutants of Merge: only what was fetched is kept; a stored bar is kept where
\* nothing was fetched.
Merge_FetchedOnly(plan, fetched) ==
  [d \in Days |-> IF d \in DOMAIN fetched THEN fetched[d] ELSE NoBar]

Merge_Upserts(plan, fetched) ==
  [d \in Days |-> IF d \in DOMAIN fetched /\ fetched[d] # NoBar
                  THEN fetched[d] ELSE bars[d]]

\* What is stored in the requested days is replaced as a whole.  In an initial
\* import and in an append nothing is stored there.
Merge(plan, fetched) ==
  [d \in Days |-> IF d \in DOMAIN fetched THEN fetched[d] ELSE bars[d]]

Replacement(plan, fetched) ==
  [d \in Days |-> IF d \in DOMAIN fetched THEN fetched[d] ELSE NoBar]

\* An append has to come after everything that is stored.
Conflict(plan, fetched) ==
  /\ plan.status = "incremental"
  /\ \E d \in DOMAIN fetched : fetched[d] # NoBar /\ d <= Max(Stored(bars))

\* Mutant of Publishable: the effective range need not be complete.
Publishable_Partial(plan, candidate) ==
  /\ \A d \in Stored(candidate) : d <= plan.effective.last
  /\ Stored(candidate) \subseteq Expected
  /\ Stored(candidate) # {}

\* _validate_candidate: the whole candidate has only days that are expected,
\* and in the effective range it has all of them.
Publishable(plan, candidate) ==
  /\ \A d \in Stored(candidate) : d <= plan.effective.last
  /\ Stored(candidate) \subseteq Expected
  /\ Within(Expected, plan.effective) \subseteq Stored(candidate)

\* The expected days between what is stored and the effective range.
Jumped(plan) ==
  {d \in Expected : d > Max(Stored(bars)) /\ d < plan.effective.first}

Publish(plan, candidate) ==
  /\ Publishable(plan, candidate)
  /\ candidate # bars
  /\ bars' = candidate
  /\ last' = plan
  /\ UNCHANGED absent

Update(r, policy) ==
  LET plan == Plan(Stored(bars), absent, r, policy) IN
  /\ plan.status \in FetchStatuses
  /\ \E fetched \in Results(plan.request) :
       /\ ~Conflict(plan, fetched)
       /\ Publish(plan, Merge(plan, fetched))
  /\ unfetched' = IF plan.status = "initial_import" THEN {}
                  ELSE (unfetched \cup Jumped(plan)) \ Stored(bars')

FullRefresh(r, policy) ==
  LET plan == Plan(Stored(bars), absent, r, policy) IN
  /\ plan.status = "full_refresh_required"
  /\ \E fetched \in Results(plan.effective) :
       Publish(plan, Replacement(plan, fetched))
  /\ unfetched' = {}

\* Another version of the observation artifact is deployed.
NewEvidence ==
  /\ absent' \in SUBSET TradingDays
  /\ unfetched' = unfetched \cup (absent \ absent')
  /\ last' = NoPlan
  /\ UNCHANGED bars

Next ==
  \/ \E r \in Ranges, policy \in Policies :
       Update(r, policy) \/ FullRefresh(r, policy)
  \/ NewEvidence

Spec == Init /\ [][Next]_vars
-----------------------------------------------------------------------------
(* What the owner of the data relies on over any sequence of calls.        *)

\* An incremental update never costs history: outside the days it asked for
\* every bar stays as it is, an append asks for no stored day, and a day that
\* an overlap refresh drops is confirmed absent.
NothingLost ==
  [][bars' # bars /\ last'.status # "full_refresh_required" =>
       \A d \in Stored(bars) :
         IF Contains(last'.request, d)
         THEN /\ last'.status = "overlap_refresh"
              /\ d \in Stored(bars') \/ d \in absent
         ELSE bars'[d] = bars[d]]_vars

\* Every expected day between the first and the last stored one is stored,
\* but for days that no call was asked for: no failure, retry, partial result
\* or order of calls makes a hole.
HolesExplained ==
  Stored(bars) # {} =>
    \A d \in Expected :
      Contains(Effective(Stored(bars)), d) => d \in Stored(bars) \cup unfetched

\* A call that is repeated after it published, as the retry of a job whose
\* worker died before it could say so, finds nothing to do whatever its policy.
RepetitionIsCurrent ==
  last # NoPlan =>
    \A r \in Ranges, policy \in Policies :
      LET plan == Plan(Stored(bars), absent, r, policy) IN
      /\ plan.effective = last.effective
      /\ ~(Adjusted /\ policy.strategy = "append_only")
      => plan.status = "already_current"

\* As long as its first and last day are expected, a dataset with holes, or
\* with days that were confirmed absent after they were stored, can be brought
\* in order by one update without a full refresh, once there is a later day.
Repairable ==
  LET stored == Stored(bars) IN
  /\ stored # {}
  /\ {Min(stored), Max(stored)} \cap absent = {}
  /\ \E d \in Expected : d > Max(stored)
  => \E r \in Ranges, policy \in Policies, v \in Values :
       LET plan      == Plan(stored, absent, r, policy)
           complete  == [d \in Within(Days, plan.request) |->
                           IF d \in Expected THEN v ELSE NoBar]
           candidate == Merge(plan, complete)
       IN  /\ plan.status \in FetchStatuses
           /\ Publishable(plan, candidate)
           /\ Within(Expected, Effective(Stored(candidate))) = Stored(candidate)
=============================================================================
