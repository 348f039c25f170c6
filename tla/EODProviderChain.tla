--------------------------- MODULE EODProviderChain ---------------------------
(***************************************************************************)
(* Concurrent fetches over one EODProviderChain                            *)
(* (market_data/provider_chain.py) with its shared rate limiter and retry  *)
(* policy (market_data/provider_resilience.py).  A fetch asks the          *)
(* providers in order, repeats temporary failures, and ends with the first *)
(* complete result, the best partial one, or an error; a checkpoint may    *)
(* end it in between.                                                      *)
(*                                                                         *)
(* Time is relative: a tick shortens what is left of every sleep and       *)
(* lengthens the time since the last grant, up to Interval.                *)
(***************************************************************************)
EXTENDS Naturals, Sequences, FiniteSets

CONSTANTS
  Calls,         \* fetches, each in a thread of its own
  NumProviders,
  Keys, Key,     \* Key[p]: the name and endpoint under which p is limited
  MaxAttempts,   \* EODProviderRetryPolicy.max_attempts
  Delay,         \* Delay[n]: the sleep after the n-th failure of a provider
  Interval,      \* EODProviderRateLimitPolicy.minimum_interval_seconds
  NumRanks,      \* ranks of partial results: rows, then first, then last date
  Nobody

Providers == 1..NumProviders

ASSUME ChainAssumption ==
  /\ NumProviders \in Nat \ {0}
  /\ Key \in [Providers -> Keys]
  /\ MaxAttempts \in Nat \ {0}
  /\ Delay \in [1..MaxAttempts -> Nat]
  /\ Interval \in Nat
  /\ NumRanks \in Nat
  /\ Nobody \notin Calls

VARIABLES
  pc,        \* pc[c]: where fetch is
  pos,       \* pos[c]: the provider it is at
  tries,     \* tries[c]: invocation_number
  attempts,  \* attempts[c]: what it records of the providers it is through with
  result,    \* result[c]: how it ended
  left,      \* left[c]: what is left of its sleep
  holder,    \* holder[k]: who holds the limiter's lock of k
  age,       \* age[k]: time since last_invocation of k
  unsafe,    \* unsafe[c]: the controller refuses checkpoints
  spent,     \* spent[c][p]: invocations of p (history)
  late       \* late[c]: invocations that began when unsafe (history)

limiter == <<holder, age>>
history == <<spent, late>>
vars == <<pc, pos, tries, attempts, result, left, limiter, unsafe, history>>

Places == {"next", "backoff", "acquire", "waiting", "granted", "cleared",
           "invoked", "stage", "done"}

Errors == {"unsupported", "unavailable", "temporary", "permanent", "malformed"}

\* What a provider answers.  An exception of another kind is recorded as
\* unavailable, a result for another request as malformed.
Answers == [kind : Errors \cup {"success", "empty"}, rank : {0}]
             \cup [kind : {"partial"}, rank : 1..NumRanks]

Results == [kind : {"none", "stopped", "raised", "success", "partial"} \cup Errors,
            at : 0..NumProviders]

TypeOK ==
  /\ pc \in [Calls -> Places]
  /\ pos \in [Calls -> 1..NumProviders + 1]
  /\ tries \in [Calls -> 1..MaxAttempts]
  /\ attempts \in [Calls -> Seq(Answers)]
  /\ result \in [Calls -> Results]
  /\ left \in [Calls -> Nat]
  /\ holder \in [Keys -> Calls \cup {Nobody}]
  /\ age \in [Keys -> 0..Interval]
  /\ unsafe \in [Calls -> BOOLEAN]
  /\ spent \in [Calls -> [Providers -> 0..MaxAttempts]]
  /\ late \in [Calls -> Nat]

\* Earlier fetches have left the limiter in any state.
Init ==
  /\ pc = [c \in Calls |-> "next"]
  /\ pos = [c \in Calls |-> 1]
  /\ tries = [c \in Calls |-> 1]
  /\ attempts = [c \in Calls |-> <<>>]
  /\ result = [c \in Calls |-> [kind |-> "none", at |-> 0]]
  /\ left = [c \in Calls |-> 0]
  /\ holder = [k \in Keys |-> Nobody]
  /\ age \in [Keys -> 0..Interval]
  /\ unsafe = [c \in Calls |-> FALSE]
  /\ spent = [c \in Calls |-> [p \in Providers |-> 0]]
  /\ late = [c \in Calls |-> 0]

-----------------------------------------------------------------------------
(* The limiter and the clock                                               *)

CallKey(c) == Key[pos[c]]

\* acquire's wait_seconds.
Wait(k) == Interval - age[k]

\* The caller has the lock, reads the clock, and needs not wait.
Acquire(c) ==
  /\ pc[c] = "acquire"
  /\ holder[CallKey(c)] = Nobody
  /\ Wait(CallKey(c)) = 0
  /\ pc' = [pc EXCEPT ![c] = "granted"]
  /\ age' = [age EXCEPT ![CallKey(c)] = 0]
  /\ UNCHANGED <<pos, tries, attempts, result, left, holder, unsafe, history>>

\* Mutant of AcquireWaits: it sleeps without the lock.
AcquireWaits_Unlocked(c) ==
  /\ pc[c] = "acquire"
  /\ holder[CallKey(c)] = Nobody
  /\ Wait(CallKey(c)) > 0
  /\ pc' = [pc EXCEPT ![c] = "waiting"]
  /\ left' = [left EXCEPT ![c] = Wait(CallKey(c))]
  /\ UNCHANGED <<pos, tries, attempts, result, limiter, unsafe, history>>

\* It sleeps, with the lock.
AcquireWaits(c) ==
  /\ pc[c] = "acquire"
  /\ holder[CallKey(c)] = Nobody
  /\ Wait(CallKey(c)) > 0
  /\ pc' = [pc EXCEPT ![c] = "waiting"]
  /\ left' = [left EXCEPT ![c] = Wait(CallKey(c))]
  /\ holder' = [holder EXCEPT ![CallKey(c)] = c]
  /\ UNCHANGED <<pos, tries, attempts, result, age, unsafe, history>>

EndWait(c) ==
  /\ pc[c] = "waiting"
  /\ left[c] = 0
  /\ pc' = [pc EXCEPT ![c] = "granted"]
  /\ age' = [age EXCEPT ![CallKey(c)] = 0]
  /\ holder' = [holder EXCEPT ![CallKey(c)] = Nobody]
  /\ UNCHANGED <<pos, tries, attempts, result, left, unsafe, history>>

\* Mutant of WaitFails: the lock is kept.
WaitFails_KeepsLock(c) ==
  /\ \/ pc[c] \in {"backoff", "waiting"}
     \/ pc[c] = "acquire" /\ holder[CallKey(c)] = Nobody
  /\ pc' = [pc EXCEPT ![c] = "done"]
  /\ result' = [result EXCEPT ![c] = [kind |-> "raised", at |-> 0]]
  /\ UNCHANGED <<pos, tries, attempts, left, limiter, unsafe, history>>

\* The clock or the sleeper raises; the lock is given back.
WaitFails(c) ==
  /\ \/ pc[c] \in {"backoff", "waiting"}
     \/ pc[c] = "acquire" /\ holder[CallKey(c)] = Nobody
  /\ pc' = [pc EXCEPT ![c] = "done"]
  /\ result' = [result EXCEPT ![c] = [kind |-> "raised", at |-> 0]]
  /\ holder' = [k \in Keys |-> IF holder[k] = c THEN Nobody ELSE holder[k]]
  /\ UNCHANGED <<pos, tries, attempts, left, age, unsafe, history>>

Older(t) == IF t < Interval THEN t + 1 ELSE t

Tick ==
  /\ left' = [c \in Calls |-> IF left[c] > 0 THEN left[c] - 1 ELSE 0]
  /\ age' = [k \in Keys |-> Older(age[k])]
  /\ UNCHANGED <<pc, pos, tries, attempts, result, holder, unsafe, spent, late>>

-----------------------------------------------------------------------------
(* The chain                                                               *)

\* The worker's heartbeat marks the controller unsafe.
Revoke(c) ==
  /\ ~unsafe[c]
  /\ pc[c] # "done"
  /\ unsafe' = [unsafe EXCEPT ![c] = TRUE]
  /\ UNCHANGED <<pc, pos, tries, attempts, result, left, limiter, history>>

\* Mutant of Refused: only the first invocation of a provider is guarded.
Refused_FirstOnly(c) == unsafe[c] /\ tries[c] = 1

\* A checkpoint raises.
Refused(c) == unsafe[c]

End(c, r) ==
  /\ pc' = [pc EXCEPT ![c] = "done"]
  /\ result' = [result EXCEPT ![c] = r]

Stopped(c) ==
  /\ pc[c] \in {"granted", "invoked", "stage"}
  /\ Refused(c)
  /\ End(c, [kind |-> "stopped", at |-> 0])
  /\ UNCHANGED <<pos, tries, attempts, left, limiter, unsafe, history>>

\* The present provider is done with, with answer a.
Leave(c, a) ==
  /\ attempts' = [attempts EXCEPT ![c] = Append(@, a)]
  /\ pc' = [pc EXCEPT ![c] = IF a.kind = "success" THEN "stage" ELSE "next"]
  /\ pos' = [pos EXCEPT ![c] = IF a.kind = "success" THEN @ ELSE @ + 1]
  /\ tries' = [tries EXCEPT ![c] = 1]

\* Its capabilities or its endpoint rule the provider out.
PassOver(c) ==
  /\ pc[c] = "next"
  /\ pos[c] \in Providers
  /\ \E e \in {"unsupported", "malformed"} : Leave(c, [kind |-> e, rank |-> 0])
  /\ UNCHANGED <<result, left, limiter, unsafe, history>>

Consider(c) ==
  /\ pc[c] = "next"
  /\ pos[c] \in Providers
  /\ pc' = [pc EXCEPT ![c] = "acquire"]
  /\ UNCHANGED <<pos, tries, attempts, result, left, limiter, unsafe, history>>

EndBackoff(c) ==
  /\ pc[c] = "backoff"
  /\ left[c] = 0
  /\ pc' = [pc EXCEPT ![c] = "acquire"]
  /\ UNCHANGED <<pos, tries, attempts, result, left, limiter, unsafe, history>>

\* The checkpoint before an invocation passes.
Clear(c) ==
  /\ pc[c] = "granted"
  /\ ~Refused(c)
  /\ pc' = [pc EXCEPT ![c] = "cleared"]
  /\ UNCHANGED <<pos, tries, attempts, result, left, limiter, unsafe, history>>

Invoke(c) ==
  /\ pc[c] = "cleared"
  /\ pc' = [pc EXCEPT ![c] = "invoked"]
  /\ spent' = [spent EXCEPT ![c][pos[c]] = @ + 1]
  /\ late' = [late EXCEPT ![c] = IF unsafe[c] THEN @ + 1 ELSE @]
  /\ UNCHANGED <<pos, tries, attempts, result, left, limiter, unsafe>>

\* Mutants of RetriesLeft: off by one.
RetriesLeft_OneLess(c) == tries[c] + 1 < MaxAttempts

RetriesLeft(c) == tries[c] < MaxAttempts

\* A temporary failure is repeated, any other answer is recorded.
Answered(c, a) ==
  /\ pc[c] = "invoked"
  /\ ~Refused(c)
  /\ IF a.kind = "temporary" /\ RetriesLeft(c)
     THEN /\ pc' = [pc EXCEPT ![c] = "backoff"]
          /\ tries' = [tries EXCEPT ![c] = @ + 1]
          /\ left' = [left EXCEPT ![c] = Delay[tries[c]]]
          /\ UNCHANGED <<pos, attempts>>
     ELSE Leave(c, a) /\ UNCHANGED left
  /\ UNCHANGED <<result, limiter, unsafe, history>>

GoOn(c) ==
  /\ pc[c] = "next"
  /\ pos[c] \notin Providers
  /\ pc' = [pc EXCEPT ![c] = "stage"]
  /\ UNCHANGED <<pos, tries, attempts, result, left, limiter, unsafe, history>>

Positions(s, kind) == {p \in DOMAIN s : s[p].kind = kind}

\* Mutant of Beats: of equal ones the last.
Beats_LastOfEqual(s, p, q) ==
  s[q].rank < s[p].rank \/ (s[q].rank = s[p].rank /\ q <= p)

\* _partial_rank: of equal ones the first.
Beats(s, p, q) ==
  s[q].rank < s[p].rank \/ (s[q].rank = s[p].rank /\ p <= q)

Best(s) ==
  CHOOSE p \in Positions(s, "partial") :
    \A q \in Positions(s, "partial") : Beats(s, p, q)

\* _aggregate_final_code
FinalCode(s) ==
  LET codes == {s[p].kind : p \in DOMAIN s} IN
  IF codes = {"unsupported"} THEN "unsupported"
  ELSE IF "malformed" \in codes THEN "malformed"
  ELSE IF "permanent" \in codes THEN "permanent"
  ELSE IF "temporary" \in codes THEN "temporary"
  ELSE "unavailable"

Outcome(s) ==
  IF Positions(s, "success") # {} THEN [kind |-> "success", at |-> Len(s)]
  ELSE IF Positions(s, "partial") # {} THEN [kind |-> "partial", at |-> Best(s)]
  ELSE [kind |-> FinalCode(s), at |-> 0]

\* After the checkpoint of the stage, fetch returns or raises.
Finish(c) ==
  /\ pc[c] = "stage"
  /\ ~Refused(c)
  /\ End(c, Outcome(attempts[c]))
  /\ UNCHANGED <<pos, tries, attempts, left, limiter, unsafe, history>>

Fetch(c) ==
  \/ PassOver(c)
  \/ Consider(c)
  \/ Acquire(c)
  \/ AcquireWaits(c)
  \/ EndWait(c)
  \/ WaitFails(c)
  \/ Clear(c)
  \/ Invoke(c)
  \/ \E a \in Answers : Answered(c, a)
  \/ EndBackoff(c)
  \/ GoOn(c)
  \/ Finish(c)
  \/ Stopped(c)

Next ==
  \/ Tick
  \/ \E c \in Calls : Fetch(c) \/ Revoke(c)

Spec == Init /\ [][Next]_vars

\* Time passes and the scheduler runs every thread; a provider answers.
Fairness ==
  /\ WF_vars(Tick)
  /\ \A c \in Calls : WF_vars(Fetch(c))

FairSpec == Spec /\ Fairness
-----------------------------------------------------------------------------
(* What the chain promises.                                                *)

\* The limiter lets calls on one provider and endpoint through no closer than
\* Interval, in whatever threads and after whatever failures.
GrantsSpaced ==
  [][\A c \in Calls :
       pc[c] \in {"acquire", "waiting"} /\ pc'[c] = "granted" =>
         age[CallKey(c)] = Interval]_vars

\* A fetch that returns or fails has made the most of what it was offered: it
\* takes the first complete result, asks everyone before it is content with
\* less, and takes the best and earliest of partial ones.
TakesBestOffer ==
  \A c \in Calls :
    LET s == attempts[c]  r == result[c] IN
    /\ r.kind = "success" =>
         Positions(s, "success") = {r.at} /\ r.at = Len(s)
    /\ r.kind \in Errors \cup {"partial"} =>
         Len(s) = NumProviders /\ Positions(s, "success") = {}
    /\ r.kind \in Errors => Positions(s, "partial") = {}
    /\ r.kind = "partial" =>
         \A p \in Positions(s, "partial") :
           \/ s[p].rank < s[r.at].rank
           \/ s[p].rank = s[r.at].rank /\ r.at <= p

\* A provider is given up over a temporary failure only after MaxAttempts
\* invocations, and an error that is reported as worth repeating comes from
\* such a provider, with no answer that a repetition would meet again.
BudgetSpent ==
  \A c \in Calls :
    /\ \A p \in Positions(attempts[c], "temporary") : spent[c][p] = MaxAttempts
    /\ result[c].kind = "temporary" =>
         /\ Positions(attempts[c], "temporary") # {}
         /\ Positions(attempts[c], "malformed") = {}
         /\ Positions(attempts[c], "permanent") = {}

\* At most one invocation begins after the lease of the job was lost, the one
\* whose checkpoint had passed already.
OneLateInvocation == \A c \in Calls : late[c] <= 1

\* Every fetch ends, whoever else sleeps in the limiter.
EveryFetchEnds == \A c \in Calls : <>(pc[c] = "done")
=============================================================================
