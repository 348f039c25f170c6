------------------------ MODULE EODProviderChainProofs ------------------------
(***************************************************************************)
(* Proofs about EODProviderChain and the records of EODChainRecords, for   *)
(* any fetches, providers, keys, delays and intervals.                     *)
(*                                                                         *)
(* That a fetch chooses well needs that there is a best partial result;    *)
(* it comes from the well-ordering of the natural numbers, not from        *)
(* induction on the attempts.                                              *)
(***************************************************************************)
EXTENDS EODChainRecords, WellFoundedInduction, TLAPS

USE DEF limiter, history

-----------------------------------------------------------------------------
(* The best partial result                                                 *)

LEMMA NatMinimum ==
  ASSUME NEW T \in SUBSET Nat, T # {}
  PROVE  \E x \in T : \A y \in T : x <= y
  <1>1. IsWellFoundedOn(OpToRel(<, Nat), Nat)
    BY NatLessThanWellFounded
  <1>2. PICK x \in T : \A y \in T : <<y, x>> \notin OpToRel(<, Nat)
    BY <1>1, WFMin
  <1>3. \A y \in T : ~(y < x)
    BY <1>2 DEF OpToRel
  <1> QED BY <1>3

AllAnswers == Seq(Answers)

LEMMA PartialRank ==
  ASSUME NEW s \in AllAnswers, NEW p \in Positions(s, "partial")
  PROVE  p \in 1..Len(s) /\ s[p].rank \in 1..NumRanks
  BY DEF Positions, AllAnswers, Answers, Errors

\* There is a partial result that beats the others, so the choice is of one.
LEMMA BestExists ==
  ASSUME NEW s \in AllAnswers, Positions(s, "partial") # {}
  PROVE  /\ Best(s) \in Positions(s, "partial")
         /\ \A q \in Positions(s, "partial") : Beats(s, Best(s), q)
  <1> DEFINE P == Positions(s, "partial")
             Gap(p) == NumRanks - s[p].rank
             T == {Gap(p) : p \in P}
  <1>1. \A p \in P : p \in Nat /\ s[p].rank \in Nat /\ Gap(p) \in Nat
    BY PartialRank, ChainAssumption
  <1>2. PICK g \in T : \A y \in T : g <= y
    <2>1. T \in SUBSET Nat /\ T # {}
      BY <1>1
    <2> HIDE DEF T
    <2> QED BY <2>1, NatMinimum
  <1> DEFINE U == {p \in P : Gap(p) = g}
  <1>3. PICK b \in U : \A q \in U : b <= q
    <2>1. U \in SUBSET Nat /\ U # {}
      BY <1>1, <1>2
    <2> HIDE DEF U
    <2> QED BY <2>1, NatMinimum
  <1>4. b \in P /\ \A q \in P : Beats(s, b, q)
    <2>1. b \in P /\ Gap(b) = g
      BY <1>3
    <2> SUFFICES ASSUME NEW q \in P PROVE Beats(s, b, q)
      BY <2>1
    <2>2. g <= Gap(q) /\ (Gap(q) = g => b <= q)
      BY <1>2, <1>3
    <2>3. s[q].rank <= s[b].rank /\ (s[q].rank = s[b].rank => b <= q)
      <3>1. s[q].rank \in Nat /\ s[b].rank \in Nat /\ NumRanks \in Nat
        BY <1>1, <2>1, ChainAssumption
      <3>2. g = NumRanks - s[b].rank /\ g <= NumRanks - s[q].rank
        BY <2>1, <2>2
      <3>3. s[q].rank = s[b].rank => b <= q
        BY <2>1, <2>2
      <3> QED BY <3>1, <3>2, <3>3
    <2> QED BY <2>3, <2>1, <1>1 DEF Beats
  <1>5. \E p \in Positions(s, "partial") :
          \A q \in Positions(s, "partial") : Beats(s, p, q)
    BY <1>4
  <1> HIDE DEF P, Gap, T, U
  <1> QED BY <1>5, Zenon DEF Best

LEMMA Recording ==
  ASSUME NEW s \in AllAnswers, NEW a \in Answers, NEW k
  PROVE  /\ Append(s, a) \in AllAnswers
         /\ Len(Append(s, a)) = Len(s) + 1
         /\ \A p \in 1..Len(s) : Append(s, a)[p] = s[p]
         /\ a.kind = k => Positions(Append(s, a), k) = Positions(s, k) \cup {Len(s) + 1}
         /\ a.kind # k => Positions(Append(s, a), k) = Positions(s, k)
         /\ Positions(s, k) \subseteq 1..Len(s)
  <1>1. /\ Append(s, a) \in AllAnswers
        /\ Len(s) \in Nat
        /\ Len(Append(s, a)) = Len(s) + 1
        /\ DOMAIN s = 1..Len(s)
        /\ DOMAIN Append(s, a) = 1..Len(s) + 1
        /\ \A p \in 1..Len(s) : Append(s, a)[p] = s[p]
        /\ Append(s, a)[Len(s) + 1] = a
    BY DEF AllAnswers
  <1>2. \A p : p \in 1..Len(s) + 1 <=> p \in 1..Len(s) \/ p = Len(s) + 1
    BY <1>1
  <1>3. \A p : p \in Positions(Append(s, a), k) <=>
                p \in Positions(s, k) \/ (p = Len(s) + 1 /\ a.kind = k)
    BY <1>1, <1>2 DEF Positions
  <1> QED BY <1>1, <1>3 DEF Positions

-----------------------------------------------------------------------------
(* The inductive invariant                                                 *)

\* A fetch at a provider has a place in the order, and knows of the providers
\* before it and of nobody else.
InOrder(c) ==
  /\ pc[c] \notin {"next", "stage", "done"} => pos[c] \in Providers
  /\ pc[c] \notin {"stage", "done"} =>
       /\ Len(attempts[c]) = pos[c] - 1
       /\ Positions(attempts[c], "success") = {}
  /\ pc[c] = "stage" =>
       \/ Positions(attempts[c], "success") = {Len(attempts[c])}
       \/ Positions(attempts[c], "success") = {} /\ Len(attempts[c]) = NumProviders
  /\ Len(attempts[c]) <= NumProviders

\* invocation_number counts the invocations of the present provider.
Counted(c) ==
  /\ pc[c] = "next" => tries[c] = 1
  /\ pc[c] \notin {"invoked", "stage", "done"} /\ pos[c] \in Providers =>
       spent[c][pos[c]] = tries[c] - 1
  /\ pc[c] = "invoked" => spent[c][pos[c]] = tries[c]
  /\ \A p \in Providers : p > pos[c] => spent[c][p] = 0
  /\ \A p \in Positions(attempts[c], "temporary") : spent[c][p] = MaxAttempts

LateOnce(c) ==
  /\ late[c] <= 1
  /\ late[c] # 0 => unsafe[c] /\ pc[c] \in {"invoked", "done"}

\* The result is what the record allows.
GoodResult(s, r) ==
  /\ r.kind = "success" => Positions(s, "success") = {r.at} /\ r.at = Len(s)
  /\ r.kind \in Errors \cup {"partial"} =>
       Len(s) = NumProviders /\ Positions(s, "success") = {}
  /\ r.kind \in Errors => Positions(s, "partial") = {}
  /\ r.kind = "partial" =>
       /\ r.at \in Positions(s, "partial")
       /\ \A q \in Positions(s, "partial") : Beats(s, r.at, q)
  /\ r.kind = "temporary" =>
       /\ Positions(s, "temporary") # {}
       /\ Positions(s, "malformed") = {}
       /\ Positions(s, "permanent") = {}

Concluded(c) ==
  /\ pc[c] # "done" => result[c].kind = "none"
  /\ GoodResult(attempts[c], result[c])

\* A call that sleeps in the limiter has its lock, and sleeps long enough.
Locked(c) ==
  pc[c] = "waiting" =>
    /\ holder[CallKey(c)] = c
    /\ left[c] + age[CallKey(c)] >= Interval

Fetching(c) == InOrder(c) /\ Counted(c) /\ LateOnce(c) /\ Concluded(c)

IInv ==
  /\ TypeOK
  /\ \A c \in Calls : Fetching(c) /\ Locked(c)

LEMMA InitInv == Init => IInv
  <1> SUFFICES ASSUME Init PROVE IInv
    OBVIOUS
  <1>1. TypeOK
    BY ChainAssumption DEF Init, TypeOK, Places, Results, Answers
  <1>2. ASSUME NEW c \in Calls PROVE Fetching(c) /\ Locked(c)
    <2>1. /\ pc[c] = "next" /\ pos[c] = 1 /\ tries[c] = 1 /\ attempts[c] = <<>>
          /\ result[c].kind = "none" /\ late[c] = 0
          /\ spent[c] = [p \in Providers |-> 0]
      BY DEF Init
    <2>2. Len(<<>>) = 0 /\ \A k : Positions(<<>>, k) = {}
      BY DEF Positions
    <2>3. InOrder(c)
      BY <2>1, <2>2, ChainAssumption DEF InOrder
    <2>4. Counted(c)
      BY <2>1, <2>2 DEF Counted
    <2>5. Concluded(c)
      BY <2>1 DEF Concluded, GoodResult, Errors
    <2> QED BY <2>1, <2>3, <2>4, <2>5 DEF Fetching, LateOnce, Locked
  <1> QED BY <1>1, <1>2 DEF IInv

-----------------------------------------------------------------------------
(* Types                                                                   *)

LEMMA OutcomeType ==
  ASSUME NEW s \in AllAnswers, Len(s) <= NumProviders
  PROVE  Outcome(s) \in Results
  <1>1. Len(s) \in 0..NumProviders
    BY ChainAssumption DEF AllAnswers
  <1>2. CASE Positions(s, "success") # {}
    BY <1>1, <1>2 DEF Outcome, Results
  <1>3. CASE Positions(s, "success") = {} /\ Positions(s, "partial") # {}
    <2>1. Best(s) \in 1..Len(s)
      BY <1>3, BestExists, PartialRank
    <2>2. Best(s) \in 0..NumProviders
      BY <2>1, <1>1, ChainAssumption
    <2> QED BY <1>3, <2>2 DEF Outcome, Results
  <1>4. CASE Positions(s, "success") = {} /\ Positions(s, "partial") = {}
    <2>1. FinalCode(s) \in Errors
      BY DEF FinalCode, Errors
    <2> QED BY <1>4, <2>1, ChainAssumption DEF Outcome, Results
  <1> QED BY <1>2, <1>3, <1>4

LEMMA FetchTypes ==
  ASSUME IInv, NEW c \in Calls, Fetch(c)
  PROVE  TypeOK'
  <1>a. TypeOK /\ InOrder(c) /\ Counted(c)
    BY DEF IInv, Fetching
  <1>b. pos[c] \in Nat /\ pos[c] \in 1..NumProviders + 1 /\ tries[c] \in 1..MaxAttempts
    BY <1>a, ChainAssumption DEF TypeOK
  <1>c. pc[c] \notin {"next", "stage", "done"} => CallKey(c) \in Keys /\ pos[c] \in Providers
    BY <1>a, ChainAssumption DEF InOrder, CallKey
  <1>d. ASSUME NEW a \in Answers, Leave(c, a), pos[c] \in Providers
        PROVE  /\ pc' \in [Calls -> Places]
               /\ pos' \in [Calls -> 1..NumProviders + 1]
               /\ tries' \in [Calls -> 1..MaxAttempts]
               /\ attempts' \in [Calls -> Seq(Answers)]
    <2>1. pos[c] + 1 \in 1..NumProviders + 1
      BY <1>d, ChainAssumption DEF Providers
    <2>2. 1 \in 1..MaxAttempts
      BY ChainAssumption
    <2>3. Append(attempts[c], a) \in Seq(Answers)
      BY <1>a DEF TypeOK
    <2> QED BY <1>a, <1>d, <2>1, <2>2, <2>3 DEF Leave, TypeOK, Places
  <1>e. 0 \in 0..Interval
    BY ChainAssumption
  <1>1. CASE PassOver(c)
    <2>1. PICK e \in {"unsupported", "malformed"} : Leave(c, [kind |-> e, rank |-> 0])
      BY <1>1 DEF PassOver
    <2>2. [kind |-> e, rank |-> 0] \in Answers
      BY DEF Answers, Errors
    <2> QED BY <1>1, <2>1, <2>2, <1>a, <1>d DEF PassOver, TypeOK
  <1>2. CASE Consider(c)
    BY <1>2, <1>a DEF Consider, TypeOK, Places
  <1>3. CASE Acquire(c)
    <2>1. pc' \in [Calls -> Places] /\ age' \in [Keys -> 0..Interval]
      BY <1>3, <1>a, <1>e DEF Acquire, TypeOK, Places
    <2> QED BY <1>3, <1>a, <2>1 DEF Acquire, TypeOK
  <1>4. CASE AcquireWaits(c)
    <2>1. Wait(CallKey(c)) \in Nat
      BY <1>4, <1>a, <1>c, ChainAssumption DEF AcquireWaits, Wait, TypeOK
    <2> QED BY <1>4, <2>1, <1>a DEF AcquireWaits, TypeOK, Places
  <1>5. CASE EndWait(c)
    <2>1. pc' \in [Calls -> Places] /\ age' \in [Keys -> 0..Interval]
      BY <1>5, <1>a, <1>e DEF EndWait, TypeOK, Places
    <2>2. holder' \in [Keys -> Calls \cup {Nobody}]
      BY <1>5, <1>a DEF EndWait, TypeOK
    <2> QED BY <1>5, <1>a, <2>1, <2>2 DEF EndWait, TypeOK
  <1>6. CASE WaitFails(c)
    BY <1>6, <1>a, ChainAssumption DEF WaitFails, TypeOK, Places, Results
  <1>7. CASE Clear(c)
    BY <1>7, <1>a DEF Clear, TypeOK, Places
  <1>8. CASE Invoke(c)
    <2>1. spent[c][pos[c]] + 1 \in 0..MaxAttempts
      BY <1>8, <1>a, <1>b, <1>c, ChainAssumption DEF Invoke, Counted
    <2>2. late[c] \in Nat
      BY <1>a DEF TypeOK
    <2>3. /\ spent' \in [Calls -> [Providers -> 0..MaxAttempts]]
          /\ late' \in [Calls -> Nat]
      <3>1. spent[c] \in [Providers -> 0..MaxAttempts]
        BY <1>a DEF TypeOK
      <3> DEFINE row == [spent[c] EXCEPT ![pos[c]] = @ + 1]
      <3>2. row \in [Providers -> 0..MaxAttempts]
        BY <3>1, <2>1
      <3>3. spent' = [spent EXCEPT ![c] = row]
        BY <1>8 DEF Invoke
      <3>4. spent' \in [Calls -> [Providers -> 0..MaxAttempts]]
        <4> HIDE DEF row
        <4> QED BY <3>2, <3>3, <1>a DEF TypeOK
      <3>5. late' \in [Calls -> Nat]
        BY <1>8, <1>a, <2>2 DEF Invoke, TypeOK
      <3> QED BY <3>4, <3>5
    <2>4. pc' \in [Calls -> Places]
      BY <1>8, <1>a, <1>e DEF Invoke, TypeOK, Places
    <2> QED BY <1>8, <2>3, <2>4, <1>a DEF Invoke, TypeOK
  <1>9. CASE \E a \in Answers : Answered(c, a)
    <2> PICK a \in Answers : Answered(c, a)
      BY <1>9
    <2>1. CASE a.kind = "temporary" /\ RetriesLeft(c)
      <3>1. tries[c] + 1 \in 1..MaxAttempts /\ Delay[tries[c]] \in Nat
        BY <2>1, <1>b, ChainAssumption DEF RetriesLeft
      <3> QED BY <2>1, <3>1, <1>a DEF Answered, TypeOK, Places
    <2>2. CASE ~(a.kind = "temporary" /\ RetriesLeft(c))
      <3>1. pos[c] \in Providers
        BY <1>c DEF Answered
      <3>2. Leave(c, a) /\ UNCHANGED <<result, left, limiter, unsafe, history>>
        BY <2>2 DEF Answered
      <3> QED BY <3>1, <3>2, <1>d, <1>a DEF TypeOK
    <2> QED BY <2>1, <2>2
  <1>10. CASE EndBackoff(c)
    BY <1>10, <1>a DEF EndBackoff, TypeOK, Places
  <1>11. CASE GoOn(c)
    BY <1>11, <1>a DEF GoOn, TypeOK, Places
  <1>12. CASE Finish(c)
    <2>1. Outcome(attempts[c]) \in Results
      BY <1>a, OutcomeType DEF InOrder, TypeOK, AllAnswers
    <2> QED BY <1>12, <2>1, <1>a DEF Finish, End, TypeOK, Places
  <1>13. CASE Stopped(c)
    BY <1>13, <1>a, ChainAssumption DEF Stopped, End, TypeOK, Places, Results
  <1> QED BY <1>1, <1>2, <1>3, <1>4, <1>5, <1>6, <1>7, <1>8, <1>9, <1>10, <1>11,
             <1>12, <1>13 DEF Fetch

LEMMA TickTypes == TypeOK /\ Tick => TypeOK'
  <1> SUFFICES ASSUME TypeOK, Tick PROVE TypeOK'
    OBVIOUS
  <1>1. \A t \in 0..Interval : Older(t) \in 0..Interval
    BY ChainAssumption DEF Older
  <1>2. left' \in [Calls -> Nat]
    BY DEF Tick, TypeOK
  <1>3. age' \in [Keys -> 0..Interval]
    BY <1>1 DEF Tick, TypeOK
  <1> QED BY <1>2, <1>3 DEF Tick, TypeOK

LEMMA StepTypes == IInv /\ [Next]_vars => TypeOK'
  <1> SUFFICES ASSUME IInv, [Next]_vars PROVE TypeOK'
    OBVIOUS
  <1>1. TypeOK
    BY DEF IInv
  <1>2. ASSUME NEW c \in Calls, Revoke(c) PROVE TypeOK'
    BY <1>1, <1>2 DEF Revoke, TypeOK
  <1>3. CASE UNCHANGED vars
    BY <1>1, <1>3 DEF vars, TypeOK
  <1> QED BY <1>1, <1>2, <1>3, TickTypes, FetchTypes DEF Next

-----------------------------------------------------------------------------
(* The fetches                                                             *)

\* Where d is, and what it has done.
Standing(d) ==
  <<pc[d], pos[d], tries[d], attempts[d], result[d], unsafe[d], spent[d], late[d]>>

LEMMA FetchingStays ==
  ASSUME NEW d, Fetching(d), UNCHANGED Standing(d)
  PROVE  Fetching(d)'
  <1>1. /\ pc'[d] = pc[d] /\ pos'[d] = pos[d] /\ tries'[d] = tries[d]
        /\ attempts'[d] = attempts[d] /\ result'[d] = result[d]
        /\ unsafe'[d] = unsafe[d] /\ spent'[d] = spent[d] /\ late'[d] = late[d]
    BY DEF Standing
  <1>2. InOrder(d)'
    BY <1>1 DEF Fetching, InOrder
  <1>3. Counted(d)'
    BY <1>1 DEF Fetching, Counted
  <1>4. LateOnce(d)'
    BY <1>1 DEF Fetching, LateOnce
  <1>5. Concluded(d)'
    BY <1>1 DEF Fetching, Concluded
  <1> QED BY <1>2, <1>3, <1>4, <1>5 DEF Fetching

LEMMA OthersStand ==
  ASSUME TypeOK, NEW c \in Calls, NEW d \in Calls, d # c, Fetch(c)
  PROVE  UNCHANGED Standing(d)
  <1> USE DEF TypeOK, Standing
  <1>1. CASE PassOver(c)
    BY <1>1 DEF PassOver, Leave
  <1>2. CASE Consider(c)
    BY <1>2 DEF Consider
  <1>3. CASE Acquire(c)
    BY <1>3 DEF Acquire
  <1>4. CASE AcquireWaits(c)
    BY <1>4 DEF AcquireWaits
  <1>5. CASE EndWait(c)
    BY <1>5 DEF EndWait
  <1>6. CASE WaitFails(c)
    BY <1>6 DEF WaitFails
  <1>7. CASE Clear(c)
    BY <1>7 DEF Clear
  <1>8. CASE Invoke(c)
    BY <1>8 DEF Invoke
  <1>9. CASE \E a \in Answers : Answered(c, a)
    <2> PICK a \in Answers : Answered(c, a)
      BY <1>9
    <2>1. CASE a.kind = "temporary" /\ RetriesLeft(c)
      BY <2>1 DEF Answered
    <2>2. CASE ~(a.kind = "temporary" /\ RetriesLeft(c))
      BY <2>2 DEF Answered, Leave
    <2> QED BY <2>1, <2>2
  <1>10. CASE EndBackoff(c)
    BY <1>10 DEF EndBackoff
  <1>11. CASE GoOn(c)
    BY <1>11 DEF GoOn
  <1>12. CASE Finish(c)
    BY <1>12 DEF Finish, End
  <1>13. CASE Stopped(c)
    BY <1>13 DEF Stopped, End
  <1> QED BY <1>1, <1>2, <1>3, <1>4, <1>5, <1>6, <1>7, <1>8, <1>9, <1>10, <1>11,
             <1>12, <1>13 DEF Fetch

\* A move within the work on one provider keeps what is recorded and counted.
LEMMA MovesOn ==
  ASSUME TypeOK, NEW c \in Calls, Fetching(c), NEW place,
         pc' = [pc EXCEPT ![c] = place],
         UNCHANGED <<pos, tries, attempts, result, unsafe, history>>,
         pc[c] \notin {"invoked", "stage", "done"},
         place \in {"acquire", "waiting", "granted", "cleared"},
         pos[c] \in Providers
  PROVE  Fetching(c)'
  <1>1. pc'[c] = place /\ UNCHANGED <<pos[c], tries[c], attempts[c], result[c], unsafe[c],
                                     spent[c], late[c]>>
    BY DEF TypeOK
  <1>2. InOrder(c)'
    BY <1>1 DEF Fetching, InOrder
  <1>3. Counted(c)'
    BY <1>1 DEF Fetching, Counted
  <1>4. LateOnce(c)'
    BY <1>1 DEF Fetching, LateOnce
  <1>5. Concluded(c)'
    BY <1>1 DEF Fetching, Concluded
  <1> QED BY <1>2, <1>3, <1>4, <1>5 DEF Fetching

\* So does an end without a verdict.
LEMMA EndsEarly ==
  ASSUME TypeOK, NEW c \in Calls, Fetching(c),
         NEW kind \in {"stopped", "raised"},
         End(c, [kind |-> kind, at |-> 0]),
         UNCHANGED <<pos, tries, attempts, unsafe, history>>
  PROVE  Fetching(c)'
  <1>1. /\ pc'[c] = "done" /\ result'[c] = [kind |-> kind, at |-> 0]
        /\ UNCHANGED <<pos[c], tries[c], attempts[c], unsafe[c], spent[c], late[c]>>
    BY DEF TypeOK, End
  <1>2. InOrder(c)'
    BY <1>1 DEF Fetching, InOrder
  <1>3. Counted(c)'
    BY <1>1 DEF Fetching, Counted
  <1>4. LateOnce(c)'
    BY <1>1 DEF Fetching, LateOnce
  <1>5. Concluded(c)'
    BY <1>1 DEF Concluded, GoodResult, Errors
  <1> QED BY <1>2, <1>3, <1>4, <1>5 DEF Fetching

LEMMA LeaveKeeps ==
  ASSUME TypeOK, NEW c \in Calls, Fetching(c), NEW a \in Answers, Leave(c, a),
         UNCHANGED <<result, unsafe, history>>,
         pc[c] \in {"next", "invoked"}, pos[c] \in Providers, late[c] = 0,
         a.kind = "temporary" => spent[c][pos[c]] = MaxAttempts
  PROVE  Fetching(c)'
  <1> DEFINE s == attempts[c]
             t == Append(s, a)
  <1>1. /\ attempts'[c] = t /\ tries'[c] = 1
        /\ pc'[c] = IF a.kind = "success" THEN "stage" ELSE "next"
        /\ pos'[c] = IF a.kind = "success" THEN pos[c] ELSE pos[c] + 1
        /\ UNCHANGED <<result[c], unsafe[c], spent[c], late[c]>>
    BY DEF TypeOK, Leave
  <1>2. s \in AllAnswers /\ Len(s) = pos[c] - 1 /\ Len(s) \in Nat
    BY DEF TypeOK, AllAnswers, Fetching, InOrder
  <1>3. /\ Len(t) = pos[c]
        /\ \A k : /\ a.kind = k => Positions(t, k) = Positions(s, k) \cup {pos[c]}
                  /\ a.kind # k => Positions(t, k) = Positions(s, k)
    <2>1. Len(s) + 1 = pos[c]
      BY <1>2 DEF TypeOK
    <2>2. /\ Len(t) = Len(s) + 1
          /\ \A k : /\ a.kind = k => Positions(t, k) = Positions(s, k) \cup {Len(s) + 1}
                    /\ a.kind # k => Positions(t, k) = Positions(s, k)
      BY <1>2, Recording
    <2> HIDE DEF s, t
    <2> QED BY <2>1, <2>2
  <1>4. pos[c] \in 1..NumProviders /\ NumProviders \in Nat
    BY ChainAssumption DEF Providers
  <1>5. Positions(s, "success") = {}
    BY DEF Fetching, InOrder
  <1> HIDE DEF s, t
  <1>6. InOrder(c)'
    <2>1. CASE a.kind = "success"
      <3>1. Positions(t, "success") = {Len(t)}
        BY <1>3, <1>5, <2>1
      <3> QED BY <1>1, <1>3, <1>4, <2>1, <3>1 DEF InOrder
    <2>2. CASE a.kind # "success"
      <3>1. Positions(t, "success") = {} /\ Len(t) = (pos[c] + 1) - 1
        BY <1>3, <1>4, <1>5, <2>2
      <3>2. Len(t) <= NumProviders
        BY <1>3, <1>4
      <3> QED BY <1>1, <2>2, <3>1, <3>2 DEF InOrder
    <2> QED BY <2>1, <2>2
  <1>7. Counted(c)'
    <2>1. \A p \in Providers : p > pos'[c] => spent[c][p] = 0
      BY <1>1, <1>4 DEF Fetching, Counted, Providers
    <2>2. pc'[c] = "next" /\ pos'[c] \in Providers => spent[c][pos'[c]] = tries'[c] - 1
      BY <1>1, <1>4 DEF Fetching, Counted, Providers
    <2>3. \A p \in Positions(t, "temporary") : spent[c][p] = MaxAttempts
      <3>1. \A p \in Positions(s, "temporary") : spent[c][p] = MaxAttempts
        BY DEF Fetching, Counted, s
      <3> QED BY <1>3, <3>1
    <2>4. pc'[c] \in {"next", "stage"}
      BY <1>1
    <2>5. tries'[c] = 1 /\ spent'[c] = spent[c] /\ attempts'[c] = t
      BY <1>1
    <2> QED BY <2>1, <2>2, <2>3, <2>4, <2>5 DEF Counted
  <1>8. LateOnce(c)'
    BY <1>1 DEF LateOnce
  <1>9. Concluded(c)'
    <2>1. result'[c].kind = "none"
      BY <1>1 DEF Fetching, Concluded
    <2> QED BY <2>1 DEF Concluded, GoodResult, Errors
  <1> QED BY <1>6, <1>7, <1>8, <1>9 DEF Fetching

LEMMA InvokeKeeps ==
  ASSUME TypeOK, NEW c \in Calls, Fetching(c), Invoke(c)
  PROVE  Fetching(c)'
  <1>1. /\ pc[c] = "cleared" /\ pc'[c] = "invoked"
        /\ UNCHANGED <<pos[c], tries[c], attempts[c], result[c], unsafe[c]>>
        /\ spent'[c] = [spent[c] EXCEPT ![pos[c]] = @ + 1]
        /\ late'[c] = IF unsafe[c] THEN late[c] + 1 ELSE late[c]
    BY DEF Invoke, TypeOK
  <1>2. pos[c] \in Providers /\ NumProviders \in Nat
    BY <1>1, ChainAssumption DEF Fetching, InOrder
  <1>3. InOrder(c)'
    BY <1>1, <1>2 DEF Fetching, InOrder
  <1>4. Counted(c)'
    <2>1. spent[c] \in [Providers -> 0..MaxAttempts] /\ tries[c] \in 1..MaxAttempts
          /\ attempts[c] \in AllAnswers
      BY DEF TypeOK, AllAnswers
    <2>2. spent[c][pos[c]] = tries[c] - 1
      BY <1>1, <1>2 DEF Fetching, Counted
    <2>3. spent'[c][pos[c]] = tries[c]
      BY <1>1, <1>2, <2>1, <2>2, ChainAssumption
    <2>4. \A p \in Providers : p # pos[c] => spent'[c][p] = spent[c][p]
      BY <1>1, <2>1
    <2>5. \A p \in Providers : p > pos[c] => spent'[c][p] = 0
      BY <1>2, <2>4 DEF Fetching, Counted, Providers
    <2>6. ASSUME NEW p \in Positions(attempts[c], "temporary")
          PROVE  spent'[c][p] = MaxAttempts
      <3>1. p \in 1..Len(attempts[c]) /\ Len(attempts[c]) = pos[c] - 1
        BY <1>1, <2>1 DEF Positions, AllAnswers, Fetching, InOrder
      <3>2. p \in Providers /\ p # pos[c]
        BY <3>1, <1>2 DEF Providers
      <3> QED BY <3>2, <2>4 DEF Fetching, Counted
    <2> QED BY <1>1, <2>3, <2>5, <2>6 DEF Counted
  <1>5. LateOnce(c)'
    <2>1. late[c] = 0
      BY <1>1 DEF Fetching, LateOnce
    <2> QED BY <1>1, <2>1 DEF LateOnce
  <1>6. Concluded(c)'
    BY <1>1 DEF Fetching, Concluded
  <1> QED BY <1>3, <1>4, <1>5, <1>6 DEF Fetching

LEMMA AnsweredKeeps ==
  ASSUME TypeOK, NEW c \in Calls, Fetching(c), NEW a \in Answers, Answered(c, a)
  PROVE  Fetching(c)'
  <1>1. pc[c] = "invoked" /\ ~unsafe[c]
    BY DEF Answered, Refused
  <1>2. /\ pos[c] \in Providers /\ late[c] = 0 /\ spent[c][pos[c]] = tries[c]
        /\ tries[c] \in 1..MaxAttempts
    BY <1>1 DEF Fetching, InOrder, LateOnce, Counted, TypeOK
  <1>3. CASE a.kind = "temporary" /\ RetriesLeft(c)
    <2>1. /\ pc'[c] = "backoff" /\ tries'[c] = tries[c] + 1
          /\ UNCHANGED <<pos[c], attempts[c], result[c], unsafe[c], spent[c], late[c]>>
      BY <1>3 DEF Answered, TypeOK
    <2>2. InOrder(c)'
      BY <1>1, <2>1 DEF Fetching, InOrder
    <2>3. Counted(c)'
      <3>1. spent[c][pos[c]] = tries'[c] - 1
        BY <1>2, <2>1, ChainAssumption
      <3> QED BY <2>1, <3>1 DEF Fetching, Counted
    <2>4. LateOnce(c)'
      BY <2>1, <1>2 DEF LateOnce
    <2>5. Concluded(c)'
      BY <1>1, <2>1 DEF Fetching, Concluded
    <2> QED BY <2>2, <2>3, <2>4, <2>5 DEF Fetching
  <1>4. CASE ~(a.kind = "temporary" /\ RetriesLeft(c))
    <2>1. Leave(c, a) /\ UNCHANGED <<result, unsafe, history>>
      BY <1>4 DEF Answered
    <2>2. a.kind = "temporary" => spent[c][pos[c]] = MaxAttempts
      BY <1>2, <1>4, ChainAssumption DEF RetriesLeft
    <2> QED BY <2>1, <2>2, <1>1, <1>2, LeaveKeeps
  <1> QED BY <1>3, <1>4

\* The result of a fetch that has gone through its providers is a good one.
LEMMA GoodOutcome ==
  ASSUME NEW s \in AllAnswers,
         \/ Positions(s, "success") = {Len(s)}
         \/ Positions(s, "success") = {} /\ Len(s) = NumProviders
  PROVE  GoodResult(s, Outcome(s))
  <1> DEFINE r == Outcome(s)
  <1> SUFFICES GoodResult(s, r)
    OBVIOUS
  <1>1. CASE Positions(s, "success") # {}
    <2>1. r = [kind |-> "success", at |-> Len(s)]
      BY <1>1 DEF Outcome
    <2> HIDE DEF r
    <2> QED BY <1>1, <2>1 DEF GoodResult, Errors
  <1>2. CASE Positions(s, "success") = {} /\ Positions(s, "partial") # {}
    <2>1. r = [kind |-> "partial", at |-> Best(s)]
      BY <1>2 DEF Outcome
    <2>2. /\ Best(s) \in Positions(s, "partial")
          /\ \A q \in Positions(s, "partial") : Beats(s, Best(s), q)
      BY <1>2, BestExists
    <2> HIDE DEF r
    <2> QED BY <1>2, <2>1, <2>2 DEF GoodResult, Errors
  <1>3. CASE Positions(s, "success") = {} /\ Positions(s, "partial") = {}
    <2>1. r = [kind |-> FinalCode(s), at |-> 0]
      BY <1>3 DEF Outcome
    <2>2. FinalCode(s) \in Errors
      BY DEF FinalCode, Errors
    <2>3. FinalCode(s) = "temporary" =>
            /\ Positions(s, "temporary") # {}
            /\ Positions(s, "malformed") = {}
            /\ Positions(s, "permanent") = {}
      BY DEF FinalCode, Positions
    <2>4. r.kind \notin {"success", "partial"}
      BY <2>1, <2>2 DEF Errors
    <2> HIDE DEF r
    <2> QED BY <1>3, <2>1, <2>3, <2>4 DEF GoodResult
  <1> QED BY <1>1, <1>2, <1>3

LEMMA FinishKeeps ==
  ASSUME TypeOK, NEW c \in Calls, Fetching(c), Finish(c)
  PROVE  Fetching(c)'
  <1>1. /\ pc[c] = "stage" /\ pc'[c] = "done" /\ ~unsafe[c]
        /\ result'[c] = Outcome(attempts[c])
        /\ UNCHANGED <<pos[c], tries[c], attempts[c], unsafe[c], spent[c], late[c]>>
    BY DEF TypeOK, Finish, End, Refused
  <1>2. InOrder(c)'
    BY <1>1 DEF Fetching, InOrder
  <1>3. Counted(c)'
    BY <1>1 DEF Fetching, Counted
  <1>4. LateOnce(c)'
    BY <1>1 DEF Fetching, LateOnce
  <1>5. GoodResult(attempts[c], Outcome(attempts[c]))
    BY <1>1, GoodOutcome DEF Fetching, InOrder, TypeOK, AllAnswers
  <1>6. Concluded(c)'
    BY <1>1, <1>5 DEF Concluded
  <1> QED BY <1>2, <1>3, <1>4, <1>6 DEF Fetching

LEMMA FetchKeeps ==
  ASSUME TypeOK, NEW c \in Calls, Fetching(c), Fetch(c)
  PROVE  Fetching(c)'
  <1>a. InOrder(c) /\ Counted(c) /\ LateOnce(c)
    BY DEF Fetching
  <1>b. pc[c] \notin {"next", "stage", "done"} => pos[c] \in Providers
    BY <1>a DEF InOrder
  <1>1. CASE PassOver(c)
    <2>1. PICK e \in {"unsupported", "malformed"} : Leave(c, [kind |-> e, rank |-> 0])
      BY <1>1 DEF PassOver
    <2>2. [kind |-> e, rank |-> 0] \in Answers /\ [kind |-> e, rank |-> 0].kind # "temporary"
      BY DEF Answers, Errors
    <2>3. pc[c] = "next" /\ pos[c] \in Providers /\ late[c] = 0
      BY <1>1, <1>a DEF PassOver, LateOnce
    <2> QED BY <1>1, <2>1, <2>2, <2>3, LeaveKeeps DEF PassOver
  <1>2. CASE Consider(c)
    BY <1>2, MovesOn DEF Consider
  <1>3. CASE Acquire(c)
    BY <1>3, <1>b, MovesOn DEF Acquire
  <1>4. CASE AcquireWaits(c)
    BY <1>4, <1>b, MovesOn DEF AcquireWaits
  <1>5. CASE EndWait(c)
    BY <1>5, <1>b, MovesOn DEF EndWait
  <1>6. CASE WaitFails(c)
    BY <1>6, EndsEarly DEF WaitFails, End
  <1>7. CASE Clear(c)
    BY <1>7, <1>b, MovesOn DEF Clear
  <1>8. CASE Invoke(c)
    BY <1>8, InvokeKeeps
  <1>9. CASE \E a \in Answers : Answered(c, a)
    BY <1>9, AnsweredKeeps
  <1>10. CASE EndBackoff(c)
    BY <1>10, <1>b, MovesOn DEF EndBackoff
  <1>11. CASE GoOn(c)
    <2>1. /\ pc[c] = "next" /\ pc'[c] = "stage" /\ pos[c] \notin Providers
          /\ UNCHANGED <<pos[c], tries[c], attempts[c], result[c], unsafe[c],
                         spent[c], late[c]>>
      BY <1>11 DEF GoOn, TypeOK
    <2>2. pos[c] = NumProviders + 1
      BY <2>1, ChainAssumption DEF TypeOK, Providers
    <2>3. InOrder(c)'
      BY <2>1, <2>2, <1>a, ChainAssumption DEF InOrder
    <2>4. Counted(c)'
      BY <2>1, <1>a DEF Counted
    <2>5. LateOnce(c)'
      BY <2>1, <1>a DEF LateOnce
    <2>6. Concluded(c)'
      BY <2>1 DEF Fetching, Concluded
    <2> QED BY <2>3, <2>4, <2>5, <2>6 DEF Fetching
  <1>12. CASE Finish(c)
    BY <1>12, FinishKeeps
  <1>13. CASE Stopped(c)
    BY <1>13, EndsEarly DEF Stopped
  <1> QED BY <1>1, <1>2, <1>3, <1>4, <1>5, <1>6, <1>7, <1>8, <1>9, <1>10, <1>11,
             <1>12, <1>13 DEF Fetch

-----------------------------------------------------------------------------
(* The limiter                                                             *)

\* Only its holder moves a lock that is held, and its time.
LEMMA LockRespected ==
  ASSUME TypeOK, NEW c \in Calls, Fetch(c), Locked(c),
         NEW k \in Keys, holder[k] \notin {c, Nobody}
  PROVE  holder'[k] = holder[k] /\ age'[k] = age[k]
  <1> USE DEF TypeOK
  <1>1. CASE Acquire(c)
    BY <1>1 DEF Acquire
  <1>2. CASE AcquireWaits(c)
    BY <1>2 DEF AcquireWaits
  <1>3. CASE EndWait(c)
    BY <1>3 DEF EndWait, Locked
  <1>4. CASE WaitFails(c)
    BY <1>4 DEF WaitFails
  <1>5. CASE UNCHANGED limiter
    BY <1>5
  <1> QED BY <1>1, <1>2, <1>3, <1>4, <1>5
          DEF Fetch, PassOver, Consider, Clear, Invoke, Answered, EndBackoff, GoOn,
              Finish, Stopped

\* A sleep begins in AcquireWaits only.
LEMMA SleepBegins ==
  ASSUME TypeOK, NEW c \in Calls, Fetch(c), pc'[c] = "waiting"
  PROVE  AcquireWaits(c)
  <1> USE DEF TypeOK
  <1>1. ASSUME NEW a, Leave(c, a) PROVE FALSE
    BY <1>1 DEF Leave
  <1>2. ASSUME NEW r, End(c, r) PROVE FALSE
    BY <1>2 DEF End
  <1>3. ~(PassOver(c) \/ Finish(c) \/ Stopped(c))
    BY <1>1, <1>2 DEF PassOver, Finish, Stopped
  <1>4. ASSUME NEW a \in Answers, Answered(c, a) PROVE FALSE
    <2>1. CASE a.kind = "temporary" /\ RetriesLeft(c)
      BY <1>4, <2>1 DEF Answered
    <2>2. CASE ~(a.kind = "temporary" /\ RetriesLeft(c))
      BY <1>4, <2>2, <1>1 DEF Answered
    <2> QED BY <2>1, <2>2
  <1>5. ~(Acquire(c) \/ EndWait(c) \/ WaitFails(c))
    BY DEF Acquire, EndWait, WaitFails
  <1>6. ~(Consider(c) \/ Clear(c) \/ Invoke(c) \/ EndBackoff(c) \/ GoOn(c))
    BY DEF Consider, Clear, Invoke, EndBackoff, GoOn
  <1> QED BY <1>3, <1>4, <1>5, <1>6 DEF Fetch

\* A step of c leaves the sleep of d alone.
LEMMA OthersSleep ==
  ASSUME TypeOK, NEW c \in Calls, Fetch(c), NEW d \in Calls, d # c
  PROVE  left'[d] = left[d]
  <1> USE DEF TypeOK
  <1>1. CASE AcquireWaits(c)
    BY <1>1 DEF AcquireWaits
  <1>2. CASE \E a \in Answers : Answered(c, a)
    BY <1>2 DEF Answered
  <1>3. CASE UNCHANGED left
    BY <1>3
  <1> QED BY <1>1, <1>2, <1>3
          DEF Fetch, PassOver, Consider, Acquire, EndWait, WaitFails, Clear, Invoke,
              EndBackoff, GoOn, Finish, Stopped

LEMMA LockedKeeps ==
  ASSUME IInv, NEW c \in Calls, Fetch(c), NEW d \in Calls
  PROVE  Locked(d)'
  <1>a. TypeOK /\ Locked(c) /\ Locked(d) /\ InOrder(c) /\ InOrder(d)
    BY DEF IInv, Fetching
  <1>1. CASE d = c
    <2> SUFFICES ASSUME pc'[c] = "waiting" PROVE Locked(c)'
      BY <1>1 DEF Locked
    <2>1. AcquireWaits(c)
      BY <1>a, SleepBegins
    <2>2. CallKey(c) \in Keys
      BY <2>1, <1>a, ChainAssumption DEF AcquireWaits, InOrder, CallKey
    <2>3. /\ holder'[CallKey(c)] = c /\ age'[CallKey(c)] = age[CallKey(c)]
          /\ left'[c] = Interval - age[CallKey(c)] /\ pos' = pos
      BY <2>1, <2>2, <1>a DEF AcquireWaits, TypeOK, Wait
    <2>4. age[CallKey(c)] \in Nat /\ Interval \in Nat
      BY <2>2, <1>a, ChainAssumption DEF TypeOK
    <2>5. (Interval - age[CallKey(c)]) + age[CallKey(c)] >= Interval
      BY <2>4
    <2> QED BY <2>3, <2>5 DEF Locked, CallKey
  <1>2. CASE d # c
    <2>1. pc'[d] = pc[d] /\ pos'[d] = pos[d] /\ left'[d] = left[d]
      BY <1>2, <1>a, OthersStand, OthersSleep DEF Standing
    <2> SUFFICES ASSUME pc[d] = "waiting" PROVE Locked(d)'
      BY <2>1 DEF Locked
    <2>2. CallKey(d) \in Keys
      BY <1>a, ChainAssumption DEF InOrder, CallKey
    <2>3. holder[CallKey(d)] = d /\ left[d] + age[CallKey(d)] >= Interval
      BY <1>a DEF Locked
    <2>4. d \notin {c, Nobody}
      BY <1>2, ChainAssumption
    <2>5. holder'[CallKey(d)] = d /\ age'[CallKey(d)] = age[CallKey(d)]
      BY <2>2, <2>3, <2>4, <1>a, LockRespected
    <2> QED BY <2>1, <2>3, <2>5 DEF Locked, CallKey
  <1> QED BY <1>1, <1>2

\* What is left of a sleep and the time since the last grant move together.
LEMMA TickKeepsLocked ==
  ASSUME IInv, Tick, NEW d \in Calls
  PROVE  Locked(d)'
  <1>a. TypeOK /\ Locked(d) /\ InOrder(d)
    BY DEF IInv, Fetching
  <1>1. pc' = pc /\ pos' = pos /\ holder' = holder
    BY DEF Tick
  <1> SUFFICES ASSUME pc[d] = "waiting" PROVE Locked(d)'
    BY <1>1 DEF Locked
  <1>2. CallKey(d) \in Keys
    BY <1>a, ChainAssumption DEF InOrder, CallKey
  <1>3. /\ left'[d] = IF left[d] > 0 THEN left[d] - 1 ELSE 0
        /\ age'[CallKey(d)] = Older(age[CallKey(d)])
    BY <1>2 DEF Tick
  <1>4. left[d] \in Nat /\ age[CallKey(d)] \in 0..Interval /\ Interval \in Nat
    BY <1>2, <1>a, ChainAssumption DEF TypeOK
  <1>5. holder[CallKey(d)] = d /\ left[d] + age[CallKey(d)] >= Interval
    BY <1>a DEF Locked
  <1>6. left'[d] + age'[CallKey(d)] >= Interval
    BY <1>3, <1>4, <1>5 DEF Older
  <1> QED BY <1>1, <1>5, <1>6 DEF Locked, CallKey

-----------------------------------------------------------------------------
(* What it gives                                                           *)

LEMMA NextInv == IInv /\ [Next]_vars => IInv'
  <1> SUFFICES ASSUME IInv, [Next]_vars PROVE IInv'
    OBVIOUS
  <1>1. TypeOK /\ TypeOK'
    BY StepTypes DEF IInv
  <1>2. ASSUME NEW d \in Calls PROVE Fetching(d)' /\ Locked(d)'
    <2>a. Fetching(d) /\ Locked(d)
      BY DEF IInv
    <2>1. ASSUME NEW c \in Calls, Fetch(c) PROVE Fetching(d)' /\ Locked(d)'
      <3>1. CASE d = c
        BY <2>1, <3>1, <2>a, <1>1, FetchKeeps, LockedKeeps
      <3>2. CASE d # c
        BY <2>1, <3>2, <2>a, <1>1, OthersStand, FetchingStays, LockedKeeps
      <3> QED BY <3>1, <3>2
    <2>2. ASSUME NEW c \in Calls, Revoke(c) PROVE Fetching(d)' /\ Locked(d)'
      <3>1. /\ UNCHANGED <<pc, pos, tries, attempts, result, left, limiter, spent, late>>
            /\ unsafe[d] => unsafe'[d]
        BY <2>2, <1>1 DEF Revoke, TypeOK
      <3>2. InOrder(d)' /\ Counted(d)' /\ LateOnce(d)' /\ Concluded(d)'
        BY <2>a, <3>1 DEF Fetching, InOrder, Counted, LateOnce, Concluded
      <3> QED BY <2>a, <3>1, <3>2 DEF Fetching, Locked, CallKey
    <2>3. ASSUME Tick PROVE Fetching(d)' /\ Locked(d)'
      <3>1. UNCHANGED Standing(d)
        BY <2>3 DEF Tick, Standing
      <3> QED BY <2>3, <3>1, <2>a, FetchingStays, TickKeepsLocked
    <2>4. CASE UNCHANGED vars
      <3>1. UNCHANGED Standing(d)
        BY <2>4 DEF vars, Standing
      <3> QED BY <2>4, <3>1, <2>a, FetchingStays DEF vars, Locked, CallKey
    <2> QED BY <2>1, <2>2, <2>3, <2>4 DEF Next
  <1> QED BY <1>1, <1>2 DEF IInv

\* The inductive invariant: every fetch is in order, counts its invocations
\* and concludes well, and a sleeper in the limiter holds its lock.
THEOREM Invariant == Spec => []IInv
  BY InitInv, NextInv, PTL DEF Spec

\* Every reachable state of the chain and its limiter is well typed.
THEOREM TypeCorrect == Spec => []TypeOK
  <1>1. IInv => TypeOK
    BY DEF IInv
  <1> QED BY Invariant, <1>1, PTL

\* fetch returns the first complete result, the best and earliest partial one
\* if there is none, and an error only if nobody had anything.
THEOREM BestOfferTaken == Spec => []TakesBestOffer
  <1>1. IInv => TakesBestOffer
    BY DEF IInv, Fetching, Concluded, GoodResult, TakesBestOffer, Beats
  <1> QED BY Invariant, <1>1, PTL

\* A provider is given up over temporary failures only after max_attempts.
THEOREM BudgetAlwaysSpent == Spec => []BudgetSpent
  <1>1. IInv => BudgetSpent
    BY DEF IInv, Fetching, Counted, Concluded, GoodResult, BudgetSpent
  <1> QED BY Invariant, <1>1, PTL

\* Once the lease is lost a fetch begins at most one invocation.
THEOREM LateAtMostOnce == Spec => []OneLateInvocation
  <1>1. IInv => OneLateInvocation
    BY DEF IInv, Fetching, LateOnce, OneLateInvocation
  <1> QED BY Invariant, <1>1, PTL

\* A grant comes only when its key has rested for an interval.
LEMMA GrantRested ==
  ASSUME IInv, NEW c \in Calls, Fetch(c),
         pc[c] \in {"acquire", "waiting"}, pc'[c] = "granted"
  PROVE  age[CallKey(c)] = Interval
  <1>a. TypeOK /\ Locked(c) /\ InOrder(c)
    BY DEF IInv, Fetching
  <1>b. CallKey(c) \in Keys
    BY <1>a, ChainAssumption DEF InOrder, CallKey
  <1>c. age[CallKey(c)] \in 0..Interval /\ Interval \in Nat /\ left[c] \in Nat
    BY <1>a, <1>b, ChainAssumption DEF TypeOK
  <1>1. CASE Acquire(c)
    BY <1>1, <1>c DEF Acquire, Wait
  <1>2. CASE EndWait(c)
    <2>1. left[c] = 0 /\ left[c] + age[CallKey(c)] >= Interval
      BY <1>2, <1>a DEF EndWait, Locked
    <2> QED BY <2>1, <1>c
  <1>3. Acquire(c) \/ EndWait(c)
    <2>1. ~AcquireWaits(c) /\ ~WaitFails(c)
      BY <1>a DEF AcquireWaits, WaitFails, TypeOK
    <2> QED BY <2>1 DEF Fetch, PassOver, Consider, Clear, Invoke, Answered, EndBackoff,
                        GoOn, Finish, Stopped
  <1> QED BY <1>1, <1>2, <1>3

\* The limiter spaces its grants by the interval, whatever number of threads
\* contend for it, wait in it or fail in it.
THEOREM GrantsAreSpaced == Spec => GrantsSpaced
  <1> DEFINE A == \A c \in Calls :
                    pc[c] \in {"acquire", "waiting"} /\ pc'[c] = "granted" =>
                      age[CallKey(c)] = Interval
  <1>1. IInv /\ [Next]_vars => [A]_vars
    <2> SUFFICES ASSUME IInv, Next,
                        NEW c \in Calls, pc[c] \in {"acquire", "waiting"},
                        pc'[c] = "granted"
                 PROVE  age[CallKey(c)] = Interval
      OBVIOUS
    <2>1. CASE Fetch(c)
      BY <2>1, GrantRested
    <2>2. ASSUME NEW d \in Calls, d # c, Fetch(d) PROVE FALSE
      <3>1. pc'[c] = pc[c]
        BY <2>2, OthersStand DEF Standing, IInv
      <3> QED BY <3>1
    <2>3. ~Tick /\ \A d \in Calls : ~Revoke(d)
      BY DEF Tick, Revoke
    <2> QED BY <2>1, <2>2, <2>3 DEF Next
  <1> HIDE DEF A
  <1>2. Spec => [][A]_vars
    BY Invariant, <1>1, PTL DEF Spec
  <1> QED BY <1>2 DEF A, GrantsSpaced

-----------------------------------------------------------------------------
(* The records of a fetch                                                  *)

InvocationRecords ==
  [position : Providers, number : 1..MaxAttempts, retry : Nat, backoff : Nat,
   waited : 0..Interval, answer : Answers]

AttemptRecords ==
  [position : Providers, answer : Answers, invocations : Seq(InvocationRecords),
   selected : BOOLEAN]

RecordTypes ==
  /\ waited \in [Calls -> 0..Interval]
  /\ invocations \in [Calls -> Seq(InvocationRecords)]
  /\ diagnostics \in [Calls -> Seq(AttemptRecords)]

DelayBefore(n) == IF n = 1 THEN 0 ELSE Delay[n - 1]

\* The invocations s of the provider at position are numbered, and each came
\* after its own delay.
Numbered(s, position) ==
  \A n \in 1..Len(s) :
    /\ s[n].number = n
    /\ s[n].position = position
    /\ s[n].backoff = DelayBefore(n)

\* The invocations of the present provider have failed and may be repeated.
Pending(c) ==
  /\ pc[c] = "next" => invocations[c] = <<>>
  /\ pc[c] \notin {"next", "stage", "done"} =>
       /\ Len(invocations[c]) = tries[c] - 1
       /\ Numbered(invocations[c], pos[c])
       /\ \A n \in 1..Len(invocations[c]) : Retryable(invocations[c][n].answer)

\* The records of the providers before it are there, and are true.
Filed(c) ==
  /\ Len(diagnostics[c]) = Len(attempts[c])
  /\ \A p \in 1..Len(diagnostics[c]) :
       /\ AttemptTrue(c, p)
       /\ diagnostics[c][p].selected <=> attempts[c][p].kind = "success"

RecordInv ==
  /\ IInv
  /\ RecordTypes
  /\ \A c \in Calls : Pending(c) /\ Filed(c)

LEMMA InvocationMade ==
  ASSUME TypeOK, RecordTypes, NEW c \in Calls, pos[c] \in Providers, NEW a \in Answers
  PROVE  /\ Invocation(c, a) \in InvocationRecords
         /\ Invocation(c, a).number = tries[c]
         /\ Invocation(c, a).position = pos[c]
         /\ Invocation(c, a).backoff = DelayBefore(tries[c])
         /\ Invocation(c, a).answer = a
  <1> DEFINE x == [position |-> pos[c], number |-> tries[c], retry |-> tries[c] - 1,
                   backoff |-> DelayBefore(tries[c]),
                   waited |-> waited[c], answer |-> a]
  <1>1. tries[c] \in 1..MaxAttempts /\ waited[c] \in 0..Interval
    BY DEF TypeOK, RecordTypes
  <1>2. tries[c] \in 1..MaxAttemptsPerProvider /\ tries[c] - 1 \in Nat
    BY <1>1, ChainAssumption, RetryPolicyAssumption
  <1>3. DelayBefore(tries[c]) \in Nat
    <2>1. CASE tries[c] = 1
      BY <2>1 DEF DelayBefore
    <2>2. CASE tries[c] # 1
      <3>1. tries[c] - 1 \in 1..MaxAttempts
        BY <1>1, <2>2, ChainAssumption
      <3> QED BY <3>1, <2>2, ChainAssumption DEF DelayBefore
    <2> QED BY <2>1, <2>2
  <1>4. a.rank > 0 => a.kind = "partial"
    BY DEF Answers
  <1>5. InvocationAccepted(x)
    BY <1>2, <1>4 DEF InvocationAccepted
  <1>6. Invocation(c, a) = x
    BY <1>5 DEF Invocation, DelayBefore
  <1>7. x \in InvocationRecords
    BY <1>1, <1>2, <1>3 DEF InvocationRecords
  <1> QED BY <1>6, <1>7

LEMMA AttemptMade ==
  ASSUME NEW s \in Seq(InvocationRecords), NEW a \in Answers, NEW p \in Providers,
         Len(s) <= MaxAttempts, Numbered(s, p),
         \A n \in 1..Len(s) : n < Len(s) => Retryable(s[n].answer),
         s # <<>> => s[Len(s)].answer = a
  PROVE  /\ Attempt(p, a, s) \in AttemptRecords
         /\ Attempt(p, a, s).position = p
         /\ Attempt(p, a, s).answer = a
         /\ Attempt(p, a, s).invocations = s
         /\ Attempt(p, a, s).selected = (a.kind = "success")
  <1> DEFINE x == [position |-> p, answer |-> a, invocations |-> s,
                   selected |-> a.kind = "success"]
  <1>1. Len(s) \in Nat /\ Len(s) =< MaxAttemptsPerProvider /\ DOMAIN s = 1..Len(s)
    BY ChainAssumption, RetryPolicyAssumption
  <1>2. \A n \in 1..Len(s) : s[n] # Refusal
    <2> TAKE n \in 1..Len(s)
    <2>1. s[n] \in InvocationRecords /\ 0 \notin Providers
      BY DEF Providers
    <2>2. s[n].position \in Providers /\ Refusal.position = 0
      BY <2>1 DEF InvocationRecords, Refusal
    <2> QED BY <2>1, <2>2
  <1>3. AttemptAccepted(x)
    BY <1>1, <1>2 DEF AttemptAccepted, Numbered
  <1>4. Attempt(p, a, s) = x
    BY <1>3 DEF Attempt
  <1>5. x \in AttemptRecords
    BY DEF AttemptRecords
  <1> QED BY <1>4, <1>5

RecordsOf(c) == <<invocations[c], diagnostics[c]>>

\* A fetch that neither writes nor invokes keeps its records.
LEMMA RecordsStand ==
  ASSUME NEW c, Pending(c), Filed(c), UNCHANGED RecordsOf(c),
         UNCHANGED <<pos[c], tries[c], attempts[c], spent[c]>>,
         pc'[c] = "next" => pc[c] = "next",
         pc'[c] \notin {"next", "stage", "done"} =>
           pc[c] \notin {"stage", "done"} /\ (pc[c] = "next" => tries[c] = 1)
  PROVE  Pending(c)' /\ Filed(c)'
  <1>1. /\ invocations'[c] = invocations[c] /\ diagnostics'[c] = diagnostics[c]
        /\ pos'[c] = pos[c] /\ tries'[c] = tries[c]
        /\ attempts'[c] = attempts[c] /\ spent'[c] = spent[c]
    BY DEF RecordsOf
  <1>2. Pending(c)'
    <2>1. CASE pc'[c] = "next"
      BY <1>1, <2>1 DEF Pending
    <2>2. CASE pc'[c] \notin {"next", "stage", "done"} /\ pc[c] = "next"
      BY <1>1, <2>2 DEF Pending, Numbered
    <2>3. CASE pc'[c] \notin {"next", "stage", "done"} /\ pc[c] # "next"
      BY <1>1, <2>3 DEF Pending, Numbered
    <2>4. CASE pc'[c] \in {"stage", "done"}
      BY <2>4 DEF Pending
    <2> QED BY <2>1, <2>2, <2>3, <2>4
  <1>3. Filed(c)'
    BY <1>1 DEF Filed, AttemptTrue
  <1> QED BY <1>2, <1>3

\* Leaving a provider files one true record of it, and opens the next one's.
LEMMA LeaveFiles ==
  ASSUME TypeOK, RecordTypes, NEW c \in Calls, InOrder(c), Pending(c), Filed(c),
         pos[c] \in Providers, pc[c] \in {"next", "invoked"},
         NEW a \in Answers, NEW s \in Seq(InvocationRecords),
         Len(s) = spent[c][pos[c]], Len(s) <= MaxAttempts, Numbered(s, pos[c]),
         \A n \in 1..Len(s) : n < Len(s) => Retryable(s[n].answer),
         s # <<>> => s[Len(s)].answer = a,
         Leave(c, a), LeftProvider(c, a, s), UNCHANGED spent
  PROVE  RecordTypes' /\ Pending(c)' /\ Filed(c)'
  <1> DEFINE x == Attempt(pos[c], a, s)
  <1>1. /\ x \in AttemptRecords /\ x.position = pos[c] /\ x.answer = a
        /\ x.invocations = s /\ x.selected = (a.kind = "success")
    BY AttemptMade
  <1>2. /\ diagnostics'[c] = Append(diagnostics[c], x)
        /\ invocations'[c] = <<>>
        /\ attempts'[c] = Append(attempts[c], a)
        /\ pc'[c] \in {"next", "stage"}
        /\ spent'[c] = spent[c]
    BY DEF TypeOK, RecordTypes, Leave, LeftProvider
  <1>3. RecordTypes'
    <2>1. Append(diagnostics[c], x) \in Seq(AttemptRecords)
      BY <1>1 DEF RecordTypes
    <2>2. 0 \in 0..Interval
      BY ChainAssumption
    <2> HIDE DEF x
    <2> QED BY <2>1, <2>2 DEF RecordTypes, LeftProvider, x
  <1>4. Pending(c)'
    BY <1>2 DEF Pending
  <1>5. /\ diagnostics[c] \in Seq(AttemptRecords) /\ attempts[c] \in Seq(Answers)
        /\ Len(diagnostics[c]) = pos[c] - 1 /\ Len(attempts[c]) = pos[c] - 1
        /\ pos[c] \in Nat \ {0}
    BY DEF RecordTypes, TypeOK, Filed, InOrder, Providers
  <1>6. /\ Len(diagnostics'[c]) = pos[c] /\ Len(attempts'[c]) = pos[c]
        /\ diagnostics'[c][pos[c]] = x /\ attempts'[c][pos[c]] = a
        /\ \A p \in 1..pos[c] - 1 :
             /\ diagnostics'[c][p] = diagnostics[c][p]
             /\ attempts'[c][p] = attempts[c][p]
    <2> HIDE DEF x
    <2> QED BY <1>1, <1>2, <1>5
  <1>7. ASSUME NEW p \in 1..pos[c]
        PROVE  /\ AttemptTrue(c, p)'
               /\ diagnostics'[c][p].selected <=> attempts'[c][p].kind = "success"
    <2>1. CASE p = pos[c]
      <3>1. /\ diagnostics'[c][p] = x /\ attempts'[c][p] = a
        BY <1>6, <2>1
      <3>2. x # Refusal
        <4>1. x.position \in Providers /\ 0 \notin Providers /\ Refusal.position = 0
          BY <1>1 DEF Providers, Refusal
        <4> QED BY <4>1
      <3>3. ASSUME NEW n \in DOMAIN s
            PROVE  /\ s[n].backoff = (IF n = 1 THEN 0 ELSE Delay[n - 1])
                   /\ s[n].waited =< Interval
        <4>1. n \in 1..Len(s) /\ s[n] \in InvocationRecords
          OBVIOUS
        <4>2. s[n].waited \in 0..Interval
          BY <4>1 DEF InvocationRecords
        <4> QED BY <4>1, <4>2, ChainAssumption DEF Numbered, DelayBefore
      <3> HIDE DEF x
      <3> QED BY <3>1, <3>2, <3>3, <1>1, <1>2, <2>1 DEF AttemptTrue
    <2>2. CASE p # pos[c]
      <3>1. p \in 1..pos[c] - 1 /\ p \in 1..Len(diagnostics[c])
        BY <2>2, <1>5
      <3>2. /\ diagnostics'[c][p] = diagnostics[c][p] /\ attempts'[c][p] = attempts[c][p]
            /\ AttemptTrue(c, p)
            /\ diagnostics[c][p].selected <=> attempts[c][p].kind = "success"
        BY <3>1, <1>6 DEF Filed
      <3> HIDE DEF x
      <3> QED BY <3>2, <1>2 DEF AttemptTrue
    <2> QED BY <2>1, <2>2
  <1>8. Filed(c)'
    <2> HIDE DEF x
    <2> QED BY <1>6, <1>7 DEF Filed
  <1> QED BY <1>3, <1>4, <1>8

LEMMA PassOverFiles ==
  ASSUME RecordInv, NEW c \in Calls, RecordPassOver(c)
  PROVE  RecordTypes' /\ Pending(c)' /\ Filed(c)'
  <1>1. /\ TypeOK /\ RecordTypes /\ InOrder(c) /\ Counted(c) /\ Pending(c) /\ Filed(c)
    BY DEF RecordInv, IInv, Fetching
  <1>2. PICK e \in {"unsupported", "malformed"} : Leave(c, [kind |-> e, rank |-> 0])
    BY DEF RecordPassOver, PassOver
  <1> DEFINE a == [kind |-> e, rank |-> 0]
  <1>3. a \in Answers /\ Leave(c, a)
    BY <1>2 DEF Answers, Errors
  <1>4. pc[c] = "next" /\ pos[c] \in Providers /\ UNCHANGED spent
    BY DEF RecordPassOver, PassOver
  <1> HIDE DEF a
  <1>5. attempts'[c][pos[c]] = a
    <2>1. attempts'[c] = Append(attempts[c], a) /\ attempts[c] \in Seq(Answers)
      BY <1>1, <1>3 DEF TypeOK, Leave
    <2>2. Len(attempts[c]) = pos[c] - 1 /\ pos[c] \in Nat \ {0}
      BY <1>1, <1>4 DEF InOrder, Providers
    <2> QED BY <2>1, <2>2, <1>3
  <1> DEFINE s == <<>>
  <1>6. LeftProvider(c, a, s)
    BY <1>5 DEF RecordPassOver
  <1>7. spent[c][pos[c]] = 0
    BY <1>1, <1>4 DEF Counted
  <1>8. /\ s \in Seq(InvocationRecords) /\ Len(s) = spent[c][pos[c]]
        /\ Len(s) <= MaxAttempts /\ Numbered(s, pos[c])
        /\ \A n \in 1..Len(s) : n < Len(s) => Retryable(s[n].answer)
        /\ s # <<>> => s[Len(s)].answer = a
    BY <1>7, ChainAssumption DEF Numbered
  <1> HIDE DEF s
  <1> QED BY <1>1, <1>3, <1>4, <1>6, <1>8, LeaveFiles

LEMMA AnswerFiles ==
  ASSUME RecordInv, NEW c \in Calls, NEW a \in Answers, RecordAnswered(c, a)
  PROVE  RecordTypes' /\ Pending(c)' /\ Filed(c)'
  <1> DEFINE x == Invocation(c, a)
             s == Append(invocations[c], x)
  <1>1. /\ TypeOK /\ RecordTypes /\ InOrder(c) /\ Counted(c) /\ Pending(c) /\ Filed(c)
    BY DEF RecordInv, IInv, Fetching
  <1>2. pc[c] = "invoked" /\ pos[c] \in Providers /\ UNCHANGED spent /\ Answered(c, a)
    BY <1>1 DEF RecordAnswered, Answered, InOrder
  <1>3. /\ x \in InvocationRecords /\ x.number = tries[c] /\ x.position = pos[c]
        /\ x.backoff = DelayBefore(tries[c]) /\ x.answer = a
    BY <1>1, <1>2, InvocationMade
  <1>4. /\ tries[c] \in 1..MaxAttempts /\ MaxAttempts \in Nat
        /\ invocations[c] \in Seq(InvocationRecords)
        /\ Len(invocations[c]) = tries[c] - 1
        /\ spent[c][pos[c]] = tries[c]
    BY <1>1, <1>2, ChainAssumption DEF TypeOK, RecordTypes, Pending, Counted
  <1> HIDE DEF x
  <1>5. /\ s \in Seq(InvocationRecords) /\ Len(s) = tries[c]
        /\ s[tries[c]] = x
        /\ \A n \in 1..tries[c] - 1 : s[n] = invocations[c][n]
    BY <1>3, <1>4
  <1> HIDE DEF s
  <1>6. \A n \in 1..Len(s) : n = tries[c] \/ n \in 1..tries[c] - 1
    BY <1>4, <1>5
  <1>7. /\ Numbered(invocations[c], pos[c])
        /\ \A n \in 1..tries[c] - 1 : Retryable(invocations[c][n].answer)
    BY <1>1, <1>2, <1>4 DEF Pending
  <1>8. Numbered(s, pos[c])
    BY <1>3, <1>4, <1>5, <1>6, <1>7 DEF Numbered
  <1>9. ASSUME NEW n \in 1..Len(s), n < Len(s) PROVE Retryable(s[n].answer)
    <2>1. n \in 1..tries[c] - 1
      BY <1>4, <1>5, <1>6, <1>9
    <2>2. s[n] = invocations[c][n]
      BY <2>1, <1>5
    <2> QED BY <2>1, <2>2, <1>7
  <1>10. CASE a.kind = "temporary" /\ RetriesLeft(c)
    <2>1. /\ attempts' = attempts /\ pos' = pos
          /\ pc'[c] = "backoff" /\ tries'[c] = tries[c] + 1
      BY <1>1, <1>2, <1>10 DEF Answered, TypeOK
    <2>2. invocations' = [invocations EXCEPT ![c] = s] /\ UNCHANGED <<waited, diagnostics>>
      BY <2>1 DEF RecordAnswered, s, x
    <2>3. RecordTypes'
      BY <1>1, <1>5, <2>2 DEF RecordTypes
    <2>4. invocations'[c] = s
      BY <2>2, <1>1 DEF RecordTypes
    <2>5. \A n \in 1..Len(s) : Retryable(s[n].answer)
      BY <1>3, <1>5, <1>6, <1>7, <1>10 DEF Retryable
    <2>6. Pending(c)'
      BY <2>1, <2>4, <2>5, <1>4, <1>5, <1>8 DEF Pending
    <2>7. Filed(c)'
      BY <1>1, <1>2, <2>1, <2>2 DEF Filed, AttemptTrue
    <2> QED BY <2>3, <2>6, <2>7
  <1>11. CASE ~(a.kind = "temporary" /\ RetriesLeft(c))
    <2>1. Leave(c, a)
      BY <1>2, <1>11 DEF Answered
    <2>2. attempts' # attempts
      <3>1. attempts'[c] = Append(attempts[c], a) /\ attempts[c] \in Seq(Answers)
        BY <1>1, <2>1 DEF TypeOK, Leave
      <3>2. Len(attempts'[c]) = Len(attempts[c]) + 1 /\ Len(attempts[c]) \in Nat
        BY <3>1
      <3> QED BY <3>2
    <2>3. LeftProvider(c, a, s)
      BY <2>2 DEF RecordAnswered, s, x
    <2>4. s[Len(s)].answer = a
      BY <1>3, <1>5
    <2>5. Len(s) = spent[c][pos[c]] /\ Len(s) <= MaxAttempts
      BY <1>4, <1>5
    <2>6. pc[c] \in {"next", "invoked"} /\ pos[c] \in Providers /\ UNCHANGED spent
      BY <1>2
    <2>7. \A n \in 1..Len(s) : n < Len(s) => Retryable(s[n].answer)
      BY <1>9
    <2> QED BY <1>1, <1>5, <1>8, <2>1, <2>3, <2>4, <2>5, <2>6, <2>7, LeaveFiles
  <1> QED BY <1>10, <1>11

LEMMA InvokeFiles ==
  ASSUME RecordInv, NEW c \in Calls, Invoke(c), UNCHANGED records
  PROVE  Pending(c)' /\ Filed(c)'
  <1>1. TypeOK /\ InOrder(c) /\ Pending(c) /\ Filed(c)
    BY DEF RecordInv, IInv, Fetching
  <1>2. /\ pc[c] = "cleared" /\ pc'[c] = "invoked"
        /\ UNCHANGED <<pos, tries, attempts, invocations, diagnostics>>
        /\ spent'[c] = [spent[c] EXCEPT ![pos[c]] = @ + 1]
    BY <1>1 DEF Invoke, TypeOK, records
  <1>3. Pending(c)'
    BY <1>1, <1>2 DEF Pending, Numbered
  <1>4. /\ Len(diagnostics[c]) = pos[c] - 1 /\ pos[c] \in Nat
        /\ spent[c] \in [Providers -> 0..MaxAttempts] /\ pos[c] \in 1..NumProviders
    BY <1>1, <1>2 DEF Filed, InOrder, Providers, TypeOK
  <1>5. \A p \in 1..Len(diagnostics[c]) : spent'[c][p] = spent[c][p]
    <2> TAKE p \in 1..Len(diagnostics[c])
    <2>1. p # pos[c]
      BY <1>4
    <2>2. p \in 1..NumProviders
      BY <1>4, ChainAssumption
    <2> QED BY <2>1, <2>2, <1>2, <1>4 DEF Providers
  <1>6. Filed(c)'
    BY <1>1, <1>2, <1>5 DEF Filed, AttemptTrue
  <1> QED BY <1>3, <1>6

\* The records of a fetch with its own step.
LEMMA FetchFiles ==
  ASSUME RecordInv, NEW c \in Calls, RecordFetch(c)
  PROVE  RecordTypes' /\ Pending(c)' /\ Filed(c)'
  <1>1. TypeOK /\ RecordTypes /\ InOrder(c) /\ Counted(c) /\ Pending(c) /\ Filed(c)
    BY DEF RecordInv, IInv, Fetching
  <1>2. CASE RecordPassOver(c)
    BY <1>2, PassOverFiles
  <1>3. CASE \E a \in Answers : RecordAnswered(c, a)
    BY <1>3, AnswerFiles
  <1>4. CASE Invoke(c) /\ UNCHANGED records
    <2>1. RecordTypes'
      BY <1>1, <1>4 DEF RecordTypes, records
    <2> QED BY <1>4, <2>1, InvokeFiles
  <1>5. CASE Acquire(c) /\ Waits(c, 0)
    <2>1. RecordTypes'
      BY <1>1, <1>5, ChainAssumption DEF RecordTypes, Waits
    <2>2. /\ pc'[c] = "granted" /\ pc[c] = "acquire" /\ UNCHANGED RecordsOf(c)
          /\ UNCHANGED <<pos[c], tries[c], attempts[c], spent[c]>>
      BY <1>1, <1>5 DEF Acquire, TypeOK, Waits, RecordsOf
    <2> QED BY <1>1, <2>1, <2>2, RecordsStand
  <1>6. CASE AcquireWaits(c) /\ Waits(c, Wait(CallKey(c)))
    <2>1. Wait(CallKey(c)) \in 0..Interval
      <3>1. CallKey(c) \in Keys
        BY <1>1, <1>6, ChainAssumption DEF AcquireWaits, InOrder, CallKey
      <3> QED BY <3>1, <1>1, ChainAssumption DEF Wait, TypeOK
    <2>2. RecordTypes'
      BY <1>1, <1>6, <2>1 DEF RecordTypes, Waits
    <2>3. /\ pc'[c] = "waiting" /\ pc[c] = "acquire" /\ UNCHANGED RecordsOf(c)
          /\ UNCHANGED <<pos[c], tries[c], attempts[c], spent[c]>>
      BY <1>1, <1>6 DEF AcquireWaits, TypeOK, Waits, RecordsOf
    <2> QED BY <1>1, <2>2, <2>3, RecordsStand
  <1>7. ASSUME /\ \/ Consider(c) \/ EndWait(c) \/ WaitFails(c) \/ Clear(c)
                  \/ EndBackoff(c) \/ GoOn(c) \/ Finish(c) \/ Stopped(c) \/ Revoke(c)
               /\ UNCHANGED records
        PROVE  RecordTypes' /\ Pending(c)' /\ Filed(c)'
    <2>1. RecordTypes'
      BY <1>1, <1>7 DEF RecordTypes, records
    <2>2. UNCHANGED RecordsOf(c)
      BY <1>7 DEF RecordsOf, records
    <2>3. UNCHANGED <<pos[c], tries[c], attempts[c], spent[c]>>
      BY <1>7 DEF Consider, EndWait, WaitFails, Clear, EndBackoff, GoOn, Finish, Stopped,
                  Revoke
    <2>4. /\ pc'[c] = "next" => pc[c] = "next"
          /\ pc'[c] \notin {"next", "stage", "done"} =>
               pc[c] \notin {"stage", "done"} /\ (pc[c] = "next" => tries[c] = 1)
      <3>1. pc[c] = "next" => tries[c] = 1
        BY <1>1 DEF Counted
      <3>2. CASE Finish(c) \/ Stopped(c) \/ WaitFails(c)
        <4>1. pc'[c] = "done"
          BY <1>1, <3>2 DEF TypeOK, Finish, Stopped, WaitFails, End
        <4> QED BY <4>1
      <3>3. CASE GoOn(c)
        <4>1. pc'[c] = "stage"
          BY <1>1, <3>3 DEF TypeOK, GoOn
        <4> QED BY <4>1
      <3>4. CASE Revoke(c)
        BY <3>4, <3>1 DEF Revoke
      <3>5. CASE Consider(c)
        BY <1>1, <3>5, <3>1 DEF TypeOK, Consider
      <3>6. CASE EndWait(c)
        BY <1>1, <3>6 DEF TypeOK, EndWait
      <3>7. CASE Clear(c)
        BY <1>1, <3>7 DEF TypeOK, Clear
      <3>8. CASE EndBackoff(c)
        BY <1>1, <3>8 DEF TypeOK, EndBackoff
      <3> QED BY <1>7, <3>2, <3>3, <3>4, <3>5, <3>6, <3>7, <3>8
    <2>5. Pending(c)' /\ Filed(c)'
      BY <1>1, <2>2, <2>3, <2>4, RecordsStand
    <2> QED BY <2>1, <2>5
  <1> QED BY <1>2, <1>3, <1>4, <1>5, <1>6, <1>7 DEF RecordFetch

\* The others' records are their own.
LEMMA OthersRecords ==
  ASSUME RecordInv, NEW c \in Calls, RecordFetch(c), NEW d \in Calls, d # c
  PROVE  UNCHANGED RecordsOf(d)
  <1>1. RecordTypes
    BY DEF RecordInv
  <1>2. ASSUME NEW a, NEW s, LeftProvider(c, a, s) PROVE UNCHANGED RecordsOf(d)
    BY <1>1, <1>2 DEF LeftProvider, RecordTypes, RecordsOf
  <1>3. ASSUME NEW t, Waits(c, t) PROVE UNCHANGED RecordsOf(d)
    BY <1>3 DEF Waits, RecordsOf
  <1>4. ASSUME NEW a \in Answers, RecordAnswered(c, a) PROVE UNCHANGED RecordsOf(d)
    <2> DEFINE s == Append(invocations[c], Invocation(c, a))
    <2>1. CASE attempts' = attempts
      <3>1. invocations' = [invocations EXCEPT ![c] = s] /\ UNCHANGED diagnostics
        BY <1>4, <2>1 DEF RecordAnswered
      <3> HIDE DEF s
      <3> QED BY <3>1, <1>1 DEF RecordTypes, RecordsOf
    <2>2. CASE attempts' # attempts
      <3>1. LeftProvider(c, a, s)
        BY <1>4, <2>2 DEF RecordAnswered
      <3> QED BY <3>1, <1>2
    <2> QED BY <2>1, <2>2
  <1>5. CASE UNCHANGED records
    BY <1>5 DEF records, RecordsOf
  <1> QED BY <1>2, <1>3, <1>4, <1>5 DEF RecordFetch, RecordPassOver

LEMMA RecordStepIsStep == RecordNext => Next
  <1>1. ASSUME NEW c \in Calls, RecordFetch(c) PROVE Fetch(c) \/ Revoke(c)
    <2>1. ASSUME NEW a \in Answers, RecordAnswered(c, a) PROVE Fetch(c)
      BY <2>1 DEF RecordAnswered, Fetch
    <2> QED BY <1>1, <2>1 DEF RecordFetch, RecordPassOver, Fetch
  <1> QED BY <1>1 DEF RecordNext, Next

LEMMA RecordInitInv == RecordInit => RecordInv
  <1> SUFFICES ASSUME RecordInit PROVE RecordInv
    OBVIOUS
  <1>1. IInv
    BY InitInv DEF RecordInit
  <1>2. RecordTypes
    BY ChainAssumption DEF RecordInit, RecordTypes
  <1>3. ASSUME NEW c \in Calls PROVE Pending(c) /\ Filed(c)
    <2>1. /\ pc[c] = "next" /\ attempts[c] = <<>>
          /\ invocations[c] = <<>> /\ diagnostics[c] = <<>>
      BY DEF RecordInit, Init
    <2> QED BY <2>1 DEF Pending, Filed
  <1> QED BY <1>1, <1>2, <1>3 DEF RecordInv

LEMMA RecordNextInv == RecordInv /\ [RecordNext]_<<vars, records>> => RecordInv'
  <1> SUFFICES ASSUME RecordInv, [RecordNext]_<<vars, records>> PROVE RecordInv'
    OBVIOUS
  <1>1. [Next]_vars
    BY RecordStepIsStep
  <1>2. IInv /\ TypeOK /\ RecordTypes /\ IInv'
    BY <1>1, NextInv DEF RecordInv, IInv
  <1>3. ASSUME UNCHANGED records,
               \A d \in Calls : UNCHANGED <<pc[d], pos[d], tries[d], attempts[d], spent[d]>>
        PROVE  RecordInv'
    <2>1. RecordTypes'
      BY <1>2, <1>3 DEF RecordTypes, records
    <2>2. ASSUME NEW d \in Calls PROVE Pending(d)' /\ Filed(d)'
      <3>1. /\ Pending(d) /\ Filed(d) /\ UNCHANGED RecordsOf(d)
            /\ UNCHANGED <<pc[d], pos[d], tries[d], attempts[d], spent[d]>>
            /\ pc[d] = "next" => tries[d] = 1
        BY <1>3 DEF RecordInv, IInv, Fetching, Counted, records, RecordsOf
      <3> QED BY <3>1, RecordsStand
    <2> QED BY <1>2, <2>1, <2>2 DEF RecordInv
  <1>4. CASE Tick /\ UNCHANGED records
    BY <1>3, <1>4 DEF Tick
  <1>5. CASE UNCHANGED <<vars, records>>
    BY <1>3, <1>5 DEF vars
  <1>6. ASSUME NEW c \in Calls, RecordFetch(c) PROVE RecordInv'
    <2>1. RecordTypes' /\ Pending(c)' /\ Filed(c)'
      BY <1>6, FetchFiles
    <2>2. ASSUME NEW d \in Calls, d # c PROVE Pending(d)' /\ Filed(d)'
      <3>1. Fetch(c) \/ Revoke(c)
        BY <1>6, Zenon DEF RecordFetch, RecordPassOver, RecordAnswered, Fetch
      <3>2. UNCHANGED <<pc[d], pos[d], tries[d], attempts[d], spent[d]>>
        <4>1. CASE Fetch(c)
          BY <4>1, <1>2, <2>2, OthersStand DEF Standing
        <4>2. CASE Revoke(c)
          BY <4>2 DEF Revoke
        <4> QED BY <3>1, <4>1, <4>2
      <3>3. /\ Pending(d) /\ Filed(d) /\ UNCHANGED RecordsOf(d)
            /\ pc[d] = "next" => tries[d] = 1
        BY <1>6, <2>2, OthersRecords DEF RecordInv, IInv, Fetching, Counted
      <3> QED BY <3>2, <3>3, RecordsStand
    <2> QED BY <1>2, <2>1, <2>2 DEF RecordInv
  <1> QED BY <1>4, <1>5, <1>6 DEF RecordNext

\* Keeping records changes nothing of what the fetches do.
THEOREM RecordsFollow == RecordSpec => Spec
  <1>1. RecordInit => Init
    BY DEF RecordInit
  <1>2. [RecordNext]_<<vars, records>> => [Next]_vars
    BY RecordStepIsStep
  <1> QED BY <1>1, <1>2, PTL DEF RecordSpec, Spec

\* Marking selects one provider and changes nothing else.
LEMMA Marking ==
  ASSUME NEW s \in Seq(AttemptRecords), NEW q \in 1..Len(s), Contiguous(s)
  PROVE  LET t == MarkSelected(s, q) IN
         /\ t # <<>> /\ Contiguous(t) /\ Selected(t) = {q}
         /\ t[q].answer = s[q].answer
  <1> DEFINE t == MarkSelected(s, q)
  <1>1. DOMAIN s = 1..Len(s) /\ DOMAIN t = 1..Len(s) /\ q \in DOMAIN t
    BY DEF MarkSelected
  <1>2. \A p \in 1..Len(s) :
          t[p].position = s[p].position /\ t[p].selected = (p = q)
          /\ t[p].answer = s[p].answer
    <2> TAKE p \in 1..Len(s)
    <2>1. s[p] \in AttemptRecords /\ t[p] = [s[p] EXCEPT !.selected = (p = q)]
      BY <1>1 DEF MarkSelected
    <2> QED BY <2>1 DEF AttemptRecords
  <1> HIDE DEF t
  <1>3. Contiguous(t) /\ Selected(t) = {q} /\ t[q].answer = s[q].answer
    BY <1>1, <1>2 DEF Contiguous, Selected
  <1>4. t # <<>>
    BY <1>1
  <1> QED BY <1>3, <1>4 DEF t

LEMMA InvDiagnostics == RecordInv => DiagnosticsTrue
  <1> SUFFICES ASSUME RecordInv, NEW c \in Calls
               PROVE  LET s == ReturnedAttempts(c) IN
                      /\ Len(diagnostics[c]) = Len(attempts[c])
                      /\ \A p \in DOMAIN diagnostics[c] : AttemptTrue(c, p)
                      /\ result[c].kind \in {"success", "partial"} =>
                           ChainResultAccepted(s, result[c])
                      /\ result[c].kind \in Errors => ChainErrorAccepted(s)
    BY DEF DiagnosticsTrue
  <1> DEFINE s == diagnostics[c]  a == attempts[c]  r == result[c]
  <1>1. s \in Seq(AttemptRecords) /\ a \in AllAnswers
    BY DEF RecordInv, IInv, RecordTypes, TypeOK, AllAnswers
  <1>2. Filed(c) /\ GoodResult(a, r)
    BY DEF RecordInv, IInv, Fetching, Concluded
  <1>3. /\ Len(s) = Len(a) /\ DOMAIN s = 1..Len(s) /\ DOMAIN a = 1..Len(s)
        /\ \A p \in 1..Len(s) : AttemptTrue(c, p)
        /\ \A p \in 1..Len(s) : s[p].selected <=> a[p].kind = "success"
    BY <1>1, <1>2 DEF Filed, AllAnswers
  <1>4. \A p \in 1..Len(s) : s[p].position = p /\ s[p].answer = a[p]
    BY <1>3 DEF AttemptTrue
  <1> HIDE DEF s, a, r
  <1>5. Contiguous(s) /\ Selected(s) = Positions(a, "success")
    BY <1>3, <1>4 DEF Contiguous, Selected, Positions
  <1>6. ASSUME r.kind = "success" PROVE ChainResultAccepted(s, r)
    <2>1. Positions(a, "success") = {r.at}
      BY <1>2, <1>6 DEF GoodResult
    <2>2. r.at \in 1..Len(s) /\ a[r.at].kind = "success"
      BY <2>1, <1>3 DEF Positions
    <2>3. s # <<>>
      BY <2>2, <1>1
    <2> QED BY <2>1, <2>2, <2>3, <1>4, <1>5, <1>6 DEF ChainResultAccepted
  <1>7. ASSUME r.kind = "partial" PROVE ChainResultAccepted(MarkSelected(s, r.at), r)
    <2>1. r.at \in Positions(a, "partial")
      BY <1>2, <1>7 DEF GoodResult
    <2>2. r.at \in 1..Len(s) /\ a[r.at].kind = "partial"
      BY <2>1, <1>3 DEF Positions
    <2>3. s[r.at].answer.kind = "partial"
      BY <2>2, <1>4
    <2> QED BY <2>2, <2>3, <1>1, <1>5, <1>7, Marking DEF ChainResultAccepted
  <1>8. ASSUME r.kind \in Errors PROVE ChainErrorAccepted(s)
    <2>1. Len(a) = NumProviders /\ Positions(a, "success") = {}
      BY <1>2, <1>8 DEF GoodResult
    <2>2. s # <<>>
      BY <2>1, <1>1, <1>3, ChainAssumption
    <2> QED BY <2>1, <2>2, <1>5 DEF ChainErrorAccepted
  <1>9. ReturnedAttempts(c) = IF r.kind = "partial" THEN MarkSelected(s, r.at) ELSE s
    BY DEF ReturnedAttempts, s, r
  <1>10. r.kind = "partial" => r.kind \notin Errors
    BY DEF Errors
  <1> QED BY <1>3, <1>6, <1>7, <1>8, <1>9, <1>10 DEF s, a, r

\* Whatever was retried, passed over, given up or fallen back to, the records
\* of a fetch tell it, and no constructor refuses them.
THEOREM DiagnosticsAlwaysTrue == RecordSpec => []DiagnosticsTrue
  <1>1. RecordSpec => []RecordInv
    BY RecordInitInv, RecordNextInv, PTL DEF RecordSpec
  <1> QED BY <1>1, InvDiagnostics, PTL
=============================================================================
