---------------------------- MODULE EODChainRecords ----------------------------
(***************************************************************************)
(* The diagnostics of EODProviderChain (market_data/provider_chain.py): a  *)
(* record of every invocation with the sleeps before it, one of every      *)
(* provider with its invocations, and the result or error of the fetch     *)
(* with the records of all providers.  Each constructor checks its record  *)
(* against the ones below it; a refusal would end the fetch with a         *)
(* ValueError, whatever data the provider gave.  Positions count from one. *)
(***************************************************************************)
EXTENDS EODProviderChain

CONSTANT MaxAttemptsPerProvider  \* MAX_EOD_PROVIDER_ATTEMPTS_PER_PROVIDER

ASSUME RetryPolicyAssumption ==
  MaxAttemptsPerProvider \in Nat /\ MaxAttempts =< MaxAttemptsPerProvider

VARIABLES
  waited,       \* waited[c]: rate_limit_wait_seconds of the last grant
  invocations,  \* invocations[c]: those of the provider fetch is at
  diagnostics   \* diagnostics[c]: EODProviderAttempts of those it is through with

records == <<waited, invocations, diagnostics>>

-----------------------------------------------------------------------------
(* The records                                                             *)

Retryable(answer) == answer.kind = "temporary"
Refusal == [position |-> 0]

InvocationAccepted(x) ==
  /\ x.number \in 1..MaxAttemptsPerProvider
  /\ x.retry = x.number - 1
  /\ x.answer.rank > 0 => x.answer.kind = "partial"

Invocation(c, answer) ==
  LET x == [position |-> pos[c], number |-> tries[c], retry |-> tries[c] - 1,
            backoff |-> IF tries[c] = 1 THEN 0 ELSE Delay[tries[c] - 1],
            waited |-> waited[c], answer |-> answer]
  IN  IF InvocationAccepted(x) THEN x ELSE Refusal

AttemptAccepted(x) ==
  LET s == x.invocations IN
  /\ Len(s) =< MaxAttemptsPerProvider
  /\ \A n \in DOMAIN s :
       /\ s[n] # Refusal
       /\ s[n].number = n
       /\ s[n].position = x.position
       /\ n < Len(s) => Retryable(s[n].answer)
  /\ s # <<>> => s[Len(s)].answer = x.answer
  /\ x.selected => x.answer.kind \in {"success", "partial"}

Attempt(position, answer, s) ==
  LET x == [position |-> position, answer |-> answer, invocations |-> s,
            selected |-> answer.kind = "success"]
  IN  IF AttemptAccepted(x) THEN x ELSE Refusal

Contiguous(s) == \A p \in DOMAIN s : s[p].position = p
Selected(s)   == {p \in DOMAIN s : s[p].selected}

\* Of partial results the best is marked when all providers were asked.
MarkSelected(s, position) ==
  [p \in DOMAIN s |-> [s[p] EXCEPT !.selected = p = position]]

ReturnedAttempts(c) ==
  IF result[c].kind = "partial" THEN MarkSelected(diagnostics[c], result[c].at)
  ELSE diagnostics[c]

ChainResultAccepted(s, r) ==
  /\ s # <<>>
  /\ Contiguous(s)
  /\ Selected(s) = {r.at}
  /\ s[r.at].answer.kind = r.kind

ChainErrorAccepted(s) ==
  /\ s # <<>>
  /\ Contiguous(s)
  /\ Selected(s) = {}

-----------------------------------------------------------------------------
(* The steps of EODProviderChain that make a record                        *)

Waits(c, seconds) ==
  /\ waited' = [waited EXCEPT ![c] = seconds]
  /\ UNCHANGED <<invocations, diagnostics>>

\* Mutant of LeftProvider: the list of invocations is not started anew.
LeftProvider_KeepsInvocations(c, answer, s) ==
  /\ diagnostics' = [diagnostics EXCEPT ![c] =
                       Append(@, Attempt(pos[c], answer, s))]
  /\ invocations' = [invocations EXCEPT ![c] = s]
  /\ waited' = [waited EXCEPT ![c] = 0]

\* The provider is done with: answer stands for it, after the invocations s.
LeftProvider(c, answer, s) ==
  /\ diagnostics' = [diagnostics EXCEPT ![c] =
                       Append(@, Attempt(pos[c], answer, s))]
  /\ invocations' = [invocations EXCEPT ![c] = <<>>]
  /\ waited' = [waited EXCEPT ![c] = 0]

RecordPassOver(c) ==
  /\ PassOver(c)
  /\ LeftProvider(c, attempts'[c][pos[c]], <<>>)

RecordAnswered(c, answer) ==
  LET s == Append(invocations[c], Invocation(c, answer)) IN
  /\ Answered(c, answer)
  /\ IF attempts' = attempts
     THEN /\ invocations' = [invocations EXCEPT ![c] = s]
          /\ UNCHANGED <<waited, diagnostics>>
     ELSE LeftProvider(c, answer, s)

RecordFetch(c) ==
  \/ RecordPassOver(c)
  \/ Acquire(c) /\ Waits(c, 0)
  \/ AcquireWaits(c) /\ Waits(c, Wait(CallKey(c)))
  \/ \E answer \in Answers : RecordAnswered(c, answer)
  \/ /\ \/ Consider(c)
        \/ EndWait(c)
        \/ WaitFails(c)
        \/ Clear(c)
        \/ Invoke(c)
        \/ EndBackoff(c)
        \/ GoOn(c)
        \/ Finish(c)
        \/ Stopped(c)
        \/ Revoke(c)
     /\ UNCHANGED records

RecordInit ==
  /\ Init
  /\ waited = [c \in Calls |-> 0]
  /\ invocations = [c \in Calls |-> <<>>]
  /\ diagnostics = [c \in Calls |-> <<>>]

RecordNext ==
  \/ Tick /\ UNCHANGED records
  \/ \E c \in Calls : RecordFetch(c)

RecordSpec == RecordInit /\ [][RecordNext]_<<vars, records>>

-----------------------------------------------------------------------------
(* What the diagnostics promise                                            *)

\* A provider's record is about that provider: it has exactly the invocations
\* that were made, numbered and each after its own delay, and what stands for
\* it is the answer to the last.
AttemptTrue(c, p) ==
  LET x == diagnostics[c][p]  s == x.invocations IN
  /\ x # Refusal
  /\ x.position = p
  /\ x.answer = attempts[c][p]
  /\ Len(s) = spent[c][p]
  /\ \A n \in DOMAIN s :
       /\ s[n].backoff = (IF n = 1 THEN 0 ELSE Delay[n - 1])
       /\ s[n].waited =< Interval

\* Whatever was retried, passed over, given up or fallen back to, the fetch
\* tells all of it and its own records accept it: one selected provider for a
\* result, the one whose data it returns, and none for an error.
DiagnosticsTrue ==
  \A c \in Calls :
    LET s == ReturnedAttempts(c) IN
    /\ Len(diagnostics[c]) = Len(attempts[c])
    /\ \A p \in DOMAIN diagnostics[c] : AttemptTrue(c, p)
    /\ result[c].kind \in {"success", "partial"} => ChainResultAccepted(s, result[c])
    /\ result[c].kind \in Errors => ChainErrorAccepted(s)
=============================================================================
