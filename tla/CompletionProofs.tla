-------------------------- MODULE CompletionProofs --------------------------
(***************************************************************************)
(* Theorems about Completion, for any number of concurrent calls, any      *)
(* answers and any parameters: types, the breaker's invariant, the retry   *)
(* budget and the safety part of the contract.                             *)
(***************************************************************************)
EXTENDS Completion, TLAPS

(* The books of a call: while it is in run() the sleeps it has taken are   *)
(* covered by the time that has passed, plus what is left of the present   *)
(* sleep; outside run() it has neither, and between sleeps no timer; and   *)
(* what it is about to record is a code with a status.                     *)
Books(r) ==
    /\ waited[r] <= Budget
    /\ pc[r] = "posted"    => waited[r] <= elapsed[r]
    /\ pc[r] = "sleeping"  => /\ waited[r] <= elapsed[r] + timer[r]
                              /\ attempt[r] < MaxAttempts
    /\ pc[r] = "recording" => code[r] \in Codes
    /\ pc[r] # "sleeping"  => timer[r] = 0
    /\ ~InRun(r)           => waited[r] = 0

BreakerTypes ==
    /\ state \in States
    /\ failures \in 0..FailureCap
    /\ sinceOpened \in 0..Reset

CallTypes ==
    /\ pc \in [Requests -> Points]
    /\ keyed \in [Requests -> BOOLEAN]
    /\ attempt \in [Requests -> 0..MaxAttempts]
    /\ elapsed \in [Requests -> 0..(Budget + 1)]
    /\ timer \in [Requests -> 0..MaxBackoff]
    /\ code \in [Requests -> Codes \cup {NoCode}]
    /\ row \in [Requests -> Nat]
    /\ waited \in [Requests -> Nat]
    /\ trial \in [Requests -> BOOLEAN]

ProviderTypes == healthy \in BOOLEAN /\ early \subseteq Requests

IInv == TypeOK /\ OpenIffFailing /\ \A r \in Requests : Books(r)

-----------------------------------------------------------------------------
(* Every code the provider's answers lead to has a status, which is a      *)
(* number (CodeOf, StatusOf; errors/exceptions.py).                        *)
LEMMA CodesHaveStatus ==
    /\ \A answer \in Answers : CodeOf[answer] \in Codes
    /\ \A c \in Codes : StatusOf[c] \in Nat
    /\ {"ok", "internal_error", "upstream_circuit_open"} \subseteq Codes
    /\ NoCode \notin Codes
  BY DEF Answers, CodeOf, Codes, StatusOf, NoCode

(* No wait the policy can choose exceeds MaxBackoff (delay_for).           *)
LEMMA DelayBounded ==
    ASSUME NEW r \in Requests, NEW answer \in Answers,
           NEW d \in Delays(r, answer)
    PROVE  d \in 0..MaxBackoff
  BY PolicyAssumption DEF Delays, BackoffDelays, HintedDelay, Hints

(* The initial state satisfies the inductive invariant.                    *)
LEMMA InitIInv == Init => IInv
<1> SUFFICES ASSUME Init PROVE IInv
  OBVIOUS
<1>1. TypeOK
  <2>1. state \in States /\ failures \in 0..FailureCap /\ sinceOpened \in 0..Reset
    BY BreakerAssumption DEF Init, States
  <2>2. /\ attempt \in [Requests -> 0..MaxAttempts]
        /\ elapsed \in [Requests -> 0..(Budget + 1)]
        /\ timer \in [Requests -> 0..MaxBackoff]
        /\ waited \in [Requests -> Nat]
        /\ row \in [Requests -> Nat]
    BY PolicyAssumption DEF Init, NoRow
  <2>3. /\ pc \in [Requests -> Points]
        /\ keyed \in [Requests -> BOOLEAN]
        /\ code \in [Requests -> Codes \cup {NoCode}]
        /\ healthy \in BOOLEAN /\ early \subseteq Requests
        /\ trial \in [Requests -> BOOLEAN]
    BY DEF Init, Points
  <2> QED
    BY <2>1, <2>2, <2>3 DEF TypeOK
<1>2. OpenIffFailing
  BY BreakerAssumption DEF Init, OpenIffFailing
<1>3. ASSUME NEW r \in Requests PROVE Books(r)
  BY PolicyAssumption DEF Init, Books, InRun
<1> QED
  BY <1>1, <1>2, <1>3 DEF IInv

(* TypeOK by its parts, which different actions disturb.                   *)
LEMMA TypeParts == TypeOK <=> BreakerTypes /\ CallTypes /\ ProviderTypes
  BY DEF TypeOK, BreakerTypes, CallTypes, ProviderTypes

(* Whatever a call does to the breaker keeps its types and keeps "out of   *)
(* CLOSED" equivalent to "the threshold is reached" (before_call,          *)
(* record_success, record_failure).                                        *)
LEMMA BreakerStep ==
    ASSUME BreakerTypes, OpenIffFailing,
           BeforeCall \/ RecordSuccess \/ RecordFailure \/ UNCHANGED breaker
    PROVE  BreakerTypes' /\ OpenIffFailing'
<1>1. CASE BeforeCall
  BY <1>1 DEF BeforeCall, BreakerTypes, OpenIffFailing, States
<1>2. CASE RecordSuccess
  BY <1>2, BreakerAssumption
     DEF RecordSuccess, BreakerTypes, OpenIffFailing, States
<1>3. CASE RecordFailure
  <2>1. Counted \in 0..FailureCap
    BY BreakerAssumption DEF Counted, BreakerTypes
  <2>2. failures >= Threshold => Counted >= Threshold
    BY BreakerAssumption DEF Counted, BreakerTypes
  <2>3. Trips <=> (state = "half_open" \/ Counted >= Threshold)
    BY DEF Trips
  <2>4. BreakerTypes'
    BY <1>3, <2>1, BreakerAssumption DEF RecordFailure, BreakerTypes, States
  <2>5. OpenIffFailing'
    BY <1>3, <2>1, <2>2, <2>3, BreakerAssumption
       DEF RecordFailure, BreakerTypes, OpenIffFailing, States
  <2> QED
    BY <2>4, <2>5
<1>4. CASE UNCHANGED breaker
  BY <1>4 DEF breaker, BreakerTypes, OpenIffFailing
<1> QED
  BY <1>1, <1>2, <1>3, <1>4

(* Leaving run() with a code that has a status keeps the types it touches  *)
(* and settles the books of the call.                                      *)
LEMMA ConcludeStep ==
    ASSUME CallTypes, NEW r \in Requests, NEW c \in Codes, Conclude(r, c)
    PROVE  /\ pc' \in [Requests -> Points]
           /\ code' \in [Requests -> Codes \cup {NoCode}]
           /\ elapsed' \in [Requests -> 0..(Budget + 1)]
           /\ timer' \in [Requests -> 0..MaxBackoff]
           /\ waited' \in [Requests -> Nat]
           /\ Books(r)'
<1>1. /\ pc' \in [Requests -> Points]
      /\ code' \in [Requests -> Codes \cup {NoCode}]
  BY DEF Conclude, CallTypes, Points
<1>2. /\ elapsed' \in [Requests -> 0..(Budget + 1)]
      /\ timer' \in [Requests -> 0..MaxBackoff]
      /\ waited' \in [Requests -> Nat]
  BY PolicyAssumption DEF Conclude, CallTypes
<1>3. Books(r)'
  BY PolicyAssumption DEF Conclude, CallTypes, Books, InRun
<1> QED
  BY <1>1, <1>2, <1>3

(* A step of one call that leaves the entries of another alone leaves the  *)
(* books of the other alone.                                               *)
LEMMA OthersBooks ==
    ASSUME NEW q \in Requests, Books(q),
           pc'[q] = pc[q], elapsed'[q] = elapsed[q], timer'[q] = timer[q],
           waited'[q] = waited[q], attempt'[q] = attempt[q], code'[q] = code[q]
    PROVE  Books(q)'
  BY DEF Books, InRun

(* Starting an attempt, the first or a later one, whether it is admitted   *)
(* or refused (complete, run, before_call).                                *)
LEMMA StartStep ==
    ASSUME IInv, NEW r \in Requests, Call(r) \/ Wake(r)
    PROVE  IInv'
<1>1. /\ BreakerTypes /\ CallTypes /\ ProviderTypes
      /\ OpenIffFailing /\ \A q \in Requests : Books(q)
  BY TypeParts DEF IInv
<1>2. BeforeCall \/ UNCHANGED breaker
  BY DEF Call, Wake, Post, Refuse
<1>3. BreakerTypes' /\ OpenIffFailing'
  BY <1>1, <1>2, BreakerStep
<1>4. attempt' \in [Requests -> 0..MaxAttempts]
  <2>1. CASE Call(r)
    BY <1>1, <2>1, PolicyAssumption DEF Call, CallTypes
  <2>2. CASE Wake(r)
    <3>1. attempt[r] < MaxAttempts
      BY <1>1, <2>2 DEF Wake, Books
    <3> QED
      BY <1>1, <2>2, <3>1, PolicyAssumption DEF Wake, CallTypes
  <2> QED
    BY <2>1, <2>2
<1>5. /\ keyed' \in [Requests -> BOOLEAN]
      /\ row' \in [Requests -> Nat]
      /\ trial' \in [Requests -> BOOLEAN]
      /\ ProviderTypes'
  BY <1>1 DEF Call, Wake, Post, Refuse, CallTypes, ProviderTypes, provider
<1>6. CASE Post(r) /\ UNCHANGED <<elapsed, timer, code, waited>>
  <2>1. /\ pc' \in [Requests -> Points]
        /\ pc' = [pc EXCEPT ![r] = "posted"]
    BY <1>1, <1>6 DEF Post, CallTypes, Points
  <2>2. waited[r] <= elapsed[r] /\ waited[r] <= Budget
    <3>1. CASE Call(r)
      BY <1>1, <3>1, PolicyAssumption DEF Call, Books, InRun, CallTypes
    <3>2. CASE Wake(r)
      BY <1>1, <3>2, PolicyAssumption DEF Wake, Books, CallTypes
    <3> QED
      BY <3>1, <3>2
  <2>3. timer[r] = 0
    BY <1>1 DEF Call, Wake, Books
  <2>4. Books(r)'
    BY <1>1, <1>6, <2>1, <2>2, <2>3 DEF Books, InRun, CallTypes
  <2>5. ASSUME NEW q \in Requests, q # r PROVE Books(q)'
    <3>1. attempt'[q] = attempt[q]
      BY <1>1, <2>5 DEF Call, Wake, CallTypes
    <3> QED
      BY <1>1, <1>6, <2>1, <2>5, <3>1, OthersBooks DEF CallTypes
  <2>6. CallTypes'
    BY <1>1, <1>4, <1>5, <1>6, <2>1 DEF CallTypes
  <2> QED
    BY <1>3, <1>5, <2>4, <2>5, <2>6, TypeParts DEF IInv, TypeOK, BreakerTypes, CallTypes, ProviderTypes
<1>7. CASE Refuse(r)
  <2>1. Conclude(r, "upstream_circuit_open")
    BY <1>7 DEF Refuse
  <2>2. "upstream_circuit_open" \in Codes
    BY CodesHaveStatus
  <2>3. /\ pc' \in [Requests -> Points]
        /\ code' \in [Requests -> Codes \cup {NoCode}]
        /\ elapsed' \in [Requests -> 0..(Budget + 1)]
        /\ timer' \in [Requests -> 0..MaxBackoff]
        /\ waited' \in [Requests -> Nat]
        /\ Books(r)'
    BY <1>1, <2>1, <2>2, ConcludeStep
  <2>4. ASSUME NEW q \in Requests, q # r PROVE Books(q)'
    <3>1. attempt'[q] = attempt[q]
      BY <1>1, <2>4 DEF Call, Wake, CallTypes
    <3> QED
      BY <1>1, <2>1, <2>4, <3>1, OthersBooks DEF CallTypes, Conclude
  <2>5. CallTypes'
    BY <1>4, <1>5, <2>3 DEF CallTypes
  <2> QED
    BY <1>3, <1>5, <2>3, <2>4, <2>5, TypeParts DEF IInv, TypeOK, BreakerTypes, CallTypes, ProviderTypes
<1> QED
  BY <1>6, <1>7 DEF Call, Wake

(* The steps that end run(): success, and an error it lets out (run,       *)
(* complete).                                                              *)
LEMMA EndStep ==
    ASSUME IInv, NEW r \in Requests, NEW c \in Codes, Conclude(r, c),
           BeforeCall \/ RecordSuccess \/ RecordFailure \/ UNCHANGED breaker,
           trial' = [trial EXCEPT ![r] = FALSE],
           early' = early \ {r},
           UNCHANGED <<keyed, attempt, row, healthy>>
    PROVE  IInv'
<1>1. /\ BreakerTypes /\ CallTypes /\ ProviderTypes
      /\ OpenIffFailing /\ \A q \in Requests : Books(q)
  BY TypeParts DEF IInv
<1>2. BreakerTypes' /\ OpenIffFailing'
  BY <1>1, BreakerStep
<1>3. /\ pc' \in [Requests -> Points]
      /\ code' \in [Requests -> Codes \cup {NoCode}]
      /\ elapsed' \in [Requests -> 0..(Budget + 1)]
      /\ timer' \in [Requests -> 0..MaxBackoff]
      /\ waited' \in [Requests -> Nat]
      /\ Books(r)'
  BY <1>1, ConcludeStep
<1>4. ASSUME NEW q \in Requests, q # r PROVE Books(q)'
  BY <1>1, <1>4, OthersBooks DEF CallTypes, Conclude
<1>5. trial' \in [Requests -> BOOLEAN]
  BY <1>1 DEF CallTypes
<1>6. CallTypes'
  BY <1>1, <1>3, <1>5 DEF CallTypes
<1> QED
  BY <1>1, <1>2, <1>3, <1>4, <1>6, TypeParts
     DEF IInv, TypeOK, BreakerTypes, CallTypes, ProviderTypes

(* An answer of the provider, in its four consequences (_guarded_call,     *)
(* run).                                                                   *)
LEMMA AnswerStep ==
    ASSUME IInv, NEW r \in Requests, Answer(r)
    PROVE  IInv'
<1>1. /\ BreakerTypes /\ CallTypes /\ ProviderTypes
      /\ OpenIffFailing /\ \A q \in Requests : Books(q)
  BY TypeParts DEF IInv
<1>2. CASE Succeed(r)
  <2>1. "ok" \in Codes
    BY CodesHaveStatus
  <2> QED
    BY <1>2, <2>1, EndStep DEF Succeed
<1>3. ASSUME NEW answer \in AnswersSeen, GiveUp(r, answer) PROVE IInv'
  <2>1. CodeOf[answer] \in Codes
    BY CodesHaveStatus, EnvironmentAssumption
  <2>2. RecordFailure \/ UNCHANGED breaker
    BY <1>3 DEF GiveUp, Report
  <2> QED
    BY <1>3, <2>1, <2>2, EndStep DEF GiveUp, Report
<1>4. ASSUME NEW answer \in AnswersSeen, Retry(r, answer) PROVE IInv'
  <2>1. BreakerTypes' /\ OpenIffFailing'
    BY <1>1, <1>4, BreakerStep DEF Retry, Report
  <2>2. PICK d \in Delays(r, answer) :
            /\ ~OverBudget(elapsed[r], d)
            /\ timer' = [timer EXCEPT ![r] = d]
            /\ waited' = [waited EXCEPT ![r] = @ + d]
    BY <1>4 DEF Retry
  <2>3. d \in 0..MaxBackoff
    BY DelayBounded, EnvironmentAssumption
  <2>4. /\ pc[r] = "posted"
        /\ attempt[r] < MaxAttempts
        /\ pc' = [pc EXCEPT ![r] = "sleeping"]
        /\ UNCHANGED <<code, elapsed, keyed, row, attempt, healthy>>
        /\ trial' = [trial EXCEPT ![r] = FALSE] /\ early' = early \ {r}
    BY <1>1, <1>4, PolicyAssumption DEF Retry, Report, Final, CallTypes
  <2>5. waited[r] <= elapsed[r]
    BY <1>1, <2>4 DEF Books
  <2>6. elapsed[r] + d <= Budget
    BY <1>1, <2>2, <2>3, PolicyAssumption DEF OverBudget, CallTypes
  <2>7. Books(r)'
    BY <1>1, <2>2, <2>3, <2>4, <2>5, <2>6, PolicyAssumption
       DEF Books, InRun, CallTypes
  <2>8. ASSUME NEW q \in Requests, q # r PROVE Books(q)'
    BY <1>1, <2>2, <2>4, <2>8, OthersBooks DEF CallTypes
  <2>9. CallTypes'
    <3>1. timer' \in [Requests -> 0..MaxBackoff] /\ waited' \in [Requests -> Nat]
      BY <1>1, <2>2, <2>3, PolicyAssumption DEF CallTypes
    <3>2. pc' \in [Requests -> Points] /\ trial' \in [Requests -> BOOLEAN]
      BY <1>1, <2>4 DEF CallTypes, Points
    <3> QED
      BY <1>1, <2>4, <3>1, <3>2 DEF CallTypes
  <2> QED
    BY <1>1, <2>1, <2>4, <2>7, <2>8, <2>9, TypeParts
       DEF IInv, TypeOK, BreakerTypes, CallTypes, ProviderTypes
<1>5. ASSUME NEW answer \in AnswersSeen, Crash(r, answer) PROVE IInv'
  <2>1. BreakerTypes' /\ OpenIffFailing'
    BY <1>1, <1>5, BreakerStep DEF Crash, Report
  <2>2. "internal_error" \in Codes
    BY CodesHaveStatus
  <2>3. /\ pc[r] = "posted"
        /\ pc' = [pc EXCEPT ![r] = "done"]
        /\ code' = [code EXCEPT ![r] = "internal_error"]
        /\ elapsed' = [elapsed EXCEPT ![r] = 0]
        /\ waited' = [waited EXCEPT ![r] = 0]
        /\ trial' = [trial EXCEPT ![r] = FALSE] /\ early' = early \ {r}
        /\ UNCHANGED <<timer, keyed, row, attempt, healthy>>
    BY <1>5 DEF Crash, Report
  <2>4. Books(r)'
    BY <1>1, <2>3, PolicyAssumption DEF Books, InRun, CallTypes
  <2>5. ASSUME NEW q \in Requests, q # r PROVE Books(q)'
    BY <1>1, <2>3, <2>5, OthersBooks DEF CallTypes
  <2>6. CallTypes'
    <3>1. elapsed' \in [Requests -> 0..(Budget + 1)] /\ waited' \in [Requests -> Nat]
      BY <1>1, <2>3, PolicyAssumption DEF CallTypes
    <3>2. /\ pc' \in [Requests -> Points]
          /\ code' \in [Requests -> Codes \cup {NoCode}]
          /\ trial' \in [Requests -> BOOLEAN]
      BY <1>1, <2>2, <2>3 DEF CallTypes, Points
    <3> QED
      BY <1>1, <2>3, <3>1, <3>2 DEF CallTypes
  <2> QED
    BY <1>1, <2>1, <2>3, <2>4, <2>5, <2>6, TypeParts
       DEF IInv, TypeOK, BreakerTypes, CallTypes, ProviderTypes
<1> QED
  BY <1>2, <1>3, <1>4, <1>5 DEF Answer

(* The usage row and the end of the call (_record).                        *)
LEMMA RowStep ==
    ASSUME IInv, NEW r \in Requests, Record(r) \/ Finish(r)
    PROVE  IInv'
<1>1. /\ BreakerTypes /\ CallTypes /\ ProviderTypes
      /\ OpenIffFailing /\ \A q \in Requests : Books(q)
  BY TypeParts DEF IInv
<1>2. BreakerTypes' /\ OpenIffFailing'
  BY <1>1, BreakerStep DEF Record, Finish
<1>3. /\ UNCHANGED <<elapsed, timer, healthy, early, waited, trial>>
      /\ pc' \in [Requests -> Points]
      /\ pc'[r] \in {"done", "idle"}
      /\ \A q \in Requests \ {r} : pc'[q] = pc[q]
  BY <1>1 DEF Record, Finish, CallTypes, Points, history, provider
<1>4. row' \in [Requests -> Nat]
  <2>1. CASE Record(r)
    <3>1. StatusOf[code[r]] \in Nat
      BY <1>1, <2>1, CodesHaveStatus DEF Record, Books
    <3> QED
      BY <1>1, <2>1, <3>1 DEF Record, CallTypes
  <2>2. CASE Finish(r)
    BY <1>1, <2>2 DEF Finish, CallTypes, NoRow
  <2> QED
    BY <2>1, <2>2
<1>5. /\ keyed' \in [Requests -> BOOLEAN]
      /\ code' \in [Requests -> Codes \cup {NoCode}]
  BY <1>1 DEF Record, Finish, CallTypes
<1>6. /\ attempt' \in [Requests -> 0..MaxAttempts]
      /\ \A q \in Requests \ {r} : attempt'[q] = attempt[q] /\ code'[q] = code[q]
  BY <1>1, PolicyAssumption DEF Record, Finish, CallTypes
<1>7. Books(r)'
  <2>1. waited[r] = 0 /\ timer[r] = 0
    BY <1>1 DEF Books, InRun, Record, Finish
  <2> QED
    BY <1>1, <1>3, <2>1, PolicyAssumption DEF Books, InRun
<1>8. ASSUME NEW q \in Requests, q # r PROVE Books(q)'
  BY <1>1, <1>3, <1>6, <1>8, OthersBooks
<1>9. CallTypes'
  BY <1>1, <1>3, <1>4, <1>5, <1>6 DEF CallTypes
<1> QED
  BY <1>1, <1>2, <1>3, <1>7, <1>8, <1>9, TypeParts
     DEF IInv, TypeOK, BreakerTypes, CallTypes, ProviderTypes

(* The passing of time: what a sleeping call has waited for moves from the *)
(* timer to the elapsed time, which saturates above anything waited.       *)
LEMMA TickStep == IInv /\ Tick => IInv'
<1> SUFFICES ASSUME IInv, Tick PROVE IInv'
  OBVIOUS
<1>1. /\ BreakerTypes /\ CallTypes /\ ProviderTypes
      /\ OpenIffFailing /\ \A q \in Requests : Books(q)
  BY TypeParts DEF IInv
<1>2. BreakerTypes' /\ OpenIffFailing'
  BY <1>1, BreakerAssumption DEF Tick, BreakerTypes, OpenIffFailing
<1>3. ASSUME NEW q \in Requests
      PROVE  /\ elapsed'[q] = IF InRun(q) THEN Older(elapsed[q]) ELSE elapsed[q]
             /\ timer'[q] = IF timer[q] > 0 THEN timer[q] - 1 ELSE 0
  BY DEF Tick
<1>4. UNCHANGED <<pc, keyed, attempt, code, row, healthy, early, waited, trial>>
  BY DEF Tick, history, provider
<1>5. ASSUME NEW q \in Requests
      PROVE  elapsed'[q] \in 0..(Budget + 1) /\ timer'[q] \in 0..MaxBackoff
  BY <1>1, <1>3, PolicyAssumption DEF CallTypes, Older
<1>6. ASSUME NEW q \in Requests PROVE Books(q)'
  <2>1. CASE ~InRun(q)
    BY <1>1, <1>3, <1>4, <2>1 DEF Books, InRun
  <2>2. CASE InRun(q)
    <3>1. /\ elapsed[q] \in 0..(Budget + 1) /\ timer[q] \in 0..MaxBackoff
          /\ waited[q] \in Nat
      BY <1>1 DEF CallTypes
    <3>2. waited[q] <= Budget
      BY <1>1 DEF Books
    <3>3. elapsed'[q] = IF elapsed[q] > Budget THEN elapsed[q] ELSE elapsed[q] + 1
      BY <1>3, <2>2 DEF Older
    <3>4. pc[q] = "posted" => waited[q] <= elapsed'[q]
      BY <1>1, <3>1, <3>3, PolicyAssumption DEF Books
    <3>5. pc[q] = "sleeping" => waited[q] <= elapsed'[q] + timer'[q]
      BY <1>1, <1>3, <3>1, <3>2, <3>3, PolicyAssumption DEF Books
    <3> QED
      BY <1>1, <1>3, <1>4, <2>2, <3>4, <3>5 DEF Books, InRun
  <2> QED
    BY <2>1, <2>2
<1>7. CallTypes'
  <2>1. /\ elapsed' \in [Requests -> 0..(Budget + 1)]
        /\ timer' \in [Requests -> 0..MaxBackoff]
    BY <1>5 DEF Tick
  <2> QED
    BY <1>1, <1>4, <2>1 DEF CallTypes
<1> QED
  BY <1>1, <1>2, <1>4, <1>6, <1>7, TypeParts
     DEF IInv, TypeOK, BreakerTypes, CallTypes, ProviderTypes

(* A step that leaves the service alone.                                   *)
LEMMA IdleStep ==
    ASSUME IInv, UNCHANGED <<breaker, calls, history>>, ProviderTypes'
    PROVE  IInv'
  BY DEF IInv, TypeOK, OpenIffFailing, Books, InRun, breaker, calls, history, ProviderTypes

-----------------------------------------------------------------------------
(* Every step keeps the inductive invariant.                               *)
LEMMA NextKeeps ==
    ASSUME IInv, [Next]_vars
    PROVE  IInv'
<1>1. ASSUME NEW r \in Requests, Call(r) \/ Wake(r) PROVE IInv'
  BY <1>1, StartStep
<1>2. ASSUME NEW r \in Requests, Answer(r) PROVE IInv'
  BY <1>2, AnswerStep
<1>3. ASSUME NEW r \in Requests, Record(r) \/ Finish(r) PROVE IInv'
  BY <1>3, RowStep
<1>4. CASE Tick
  BY <1>4, TickStep
<1>5. CASE Heal
  BY <1>5, IdleStep DEF Heal, ProviderTypes
<1>6. CASE UNCHANGED vars
  BY <1>6, IdleStep DEF vars, provider, ProviderTypes, IInv, TypeOK
<1> QED
  BY <1>1, <1>2, <1>3, <1>4, <1>5, <1>6 DEF Next

(* The inductive invariant holds throughout: the types, the equivalence of *)
(* "not CLOSED" and "threshold reached", and the books of every call.      *)
THEOREM Invariance == Safe => []IInv
<1>1. Init => IInv
  BY InitIInv
<1>2. IInv /\ [Next]_vars => IInv'
  BY NextKeeps
<1> QED
  BY <1>1, <1>2, PTL DEF Safe

(* Type correctness of the breaker and of every call.                      *)
THEOREM TypeCorrect == Safe => []TypeOK
  BY Invariance, PTL DEF IInv

(* The circuit is out of CLOSED exactly while the count of failures is at  *)
(* the threshold, for any number of calls reporting in any order.          *)
THEOREM BreakerCoherent == Safe => []OpenIffFailing
  BY Invariance, PTL DEF IInv

(* No call sleeps beyond its budget or exceeds its attempts, for any       *)
(* policy, any hints and any delay in waking it.                           *)
THEOREM BudgetRespected == Safe => []BudgetKept
<1>1. IInv => BudgetKept
  BY PolicyAssumption DEF IInv, TypeOK, Books, BudgetKept
<1> QED
  BY <1>1, Invariance, PTL

-----------------------------------------------------------------------------
(* Completion implements the safety part of CircuitContract.               *)

InFlight == {r \in Requests : pc[r] = "posted"}
Cooled   == state = "open" /\ sinceOpened >= Reset

(* An attempt that starts is an admission (before_call).                   *)
LEMMA PostAdmits ==
    ASSUME IInv, NEW r \in Requests, pc[r] # "posted", Post(r)
    PROVE  Contract!Admit(r)
<1>1. pc \in [Requests -> Points]
  BY DEF IInv, TypeOK
<1>2. r \notin InFlight
  BY DEF InFlight
<1>3. InFlight' = InFlight \cup {r}
  BY <1>1 DEF InFlight, Post
<1>4. state = "open" => Cooled
  BY BreakerAssumption DEF Post, BeforeCall, Refusing, Cooled, IInv, TypeOK
<1>5. state' = IF state = "open" THEN "half_open" ELSE state
  BY DEF Post, BeforeCall
<1>6. ~Cooled'
  BY <1>5 DEF Cooled
<1> QED
  BY <1>2, <1>3, <1>4, <1>5, <1>6 DEF Contract!Admit, InFlight, Cooled

(* A report is one of the outcomes of an admitted call: a failure opens    *)
(* whatever is not closed, because the count then is at the threshold.     *)
LEMMA ReportIsOutcome ==
    ASSUME IInv, NEW r \in Requests, NEW answer \in AnswersSeen,
           Report(r, answer), NEW p \in Points, p # "posted",
           pc' = [pc EXCEPT ![r] = p]
    PROVE  Contract!Failure(r) \/ Contract!NoVerdict(r)
<1>1. pc \in [Requests -> Points] /\ pc[r] = "posted"
  BY DEF IInv, TypeOK, Report
<1>2. r \in InFlight /\ InFlight' = InFlight \ {r}
  BY <1>1 DEF InFlight
<1>3. CASE Retryable(answer)
  <2>1. RecordFailure
    BY <1>3 DEF Report
  <2>2. state # "closed" => Trips
    BY BreakerAssumption DEF IInv, TypeOK, OpenIffFailing, Trips, Counted
  <2>3. state' \in IF state = "closed" THEN {"closed", "open"} ELSE {"open"}
    BY <2>1, <2>2 DEF RecordFailure
  <2>4. ~Cooled'
    <3>1. state' = "open" => Trips
      BY <2>1, <2>2 DEF RecordFailure
    <3>2. Trips => sinceOpened' = 0
      BY <2>1 DEF RecordFailure
    <3> QED
      BY <3>1, <3>2, BreakerAssumption DEF Cooled
  <2> QED
    BY <1>2, <2>3, <2>4 DEF Contract!Failure, InFlight, Cooled
<1>4. CASE ~Retryable(answer)
  <2>1. UNCHANGED <<state, sinceOpened>>
    BY <1>4 DEF Report, breaker
  <2> QED
    BY <1>2, <2>1 DEF Contract!NoVerdict, InFlight, Cooled
<1> QED
  BY <1>3, <1>4

(* Every step of the service is a step of the contract or leaves it alone. *)
LEMMA StepRefines ==
    ASSUME IInv, [Next]_vars
    PROVE  [Contract!ContractNext]_(Contract!contractVars)
<1>0. pc \in [Requests -> Points]
  BY DEF IInv, TypeOK
<1>1. ASSUME NEW r \in Requests, Call(r) \/ Wake(r)
      PROVE  [Contract!ContractNext]_(Contract!contractVars)
  <2>1. CASE Post(r)
    <3>1. Contract!Admit(r)
      BY <1>1, <2>1, PostAdmits DEF Call, Wake
    <3> QED
      BY <3>1 DEF Contract!ContractNext
  <2>2. CASE Refuse(r)
    <3>1. UNCHANGED <<state, sinceOpened>>
      BY <2>2 DEF Refuse, breaker
    <3>2. pc[r] # "posted" /\ pc' = [pc EXCEPT ![r] = "recording"]
      BY <1>1, <2>2 DEF Refuse, Conclude, Call, Wake
    <3>3. InFlight' = InFlight
      BY <1>0, <3>2 DEF InFlight
    <3> QED
      BY <3>1, <3>3 DEF Contract!contractVars, InFlight
  <2> QED
    BY <1>1, <2>1, <2>2 DEF Call, Wake
<1>2. ASSUME NEW r \in Requests, Succeed(r)
      PROVE  Contract!ContractNext
  <2>1. r \in InFlight /\ InFlight' = InFlight \ {r}
    BY <1>0, <1>2 DEF InFlight, Succeed, Conclude
  <2>2. state' = "closed"
    BY <1>2 DEF Succeed, RecordSuccess
  <2>3. Contract!Success(r)
    BY <2>1, <2>2 DEF Contract!Success, InFlight
  <2> QED
    BY <2>3 DEF Contract!ContractNext
<1>3. ASSUME NEW r \in Requests, NEW answer \in AnswersSeen,
             GiveUp(r, answer) \/ Retry(r, answer) \/ Crash(r, answer)
      PROVE  Contract!ContractNext
  <2>1. \E p \in Points \ {"posted"} : pc' = [pc EXCEPT ![r] = p]
    BY <1>3 DEF GiveUp, Retry, Crash, Conclude, Points
  <2>2. Report(r, answer)
    BY <1>3 DEF GiveUp, Retry, Crash
  <2>3. Contract!Failure(r) \/ Contract!NoVerdict(r)
    BY <2>1, <2>2, ReportIsOutcome
  <2> QED
    BY <2>3 DEF Contract!ContractNext
<1>4. ASSUME NEW r \in Requests, Record(r) \/ Finish(r)
      PROVE  UNCHANGED Contract!contractVars
  <2>1. UNCHANGED <<state, sinceOpened>>
    BY <1>4 DEF Record, Finish, breaker
  <2>2. InFlight' = InFlight
    BY <1>0, <1>4 DEF Record, Finish, InFlight
  <2> QED
    BY <2>1, <2>2 DEF Contract!contractVars, InFlight
<1>5. CASE Tick
  <2>1. UNCHANGED <<state, pc>>
    BY <1>5 DEF Tick
  <2>2. /\ sinceOpened \in 0..Reset
        /\ sinceOpened' = IF sinceOpened < Reset THEN sinceOpened + 1 ELSE sinceOpened
    BY <1>5 DEF Tick, IInv, TypeOK
  <2>3. CASE state = "open" /\ ~Cooled /\ Cooled'
    BY <2>1, <2>3 DEF Contract!ContractNext, Contract!CoolDown, Cooled
  <2>4. CASE ~(state = "open" /\ ~Cooled /\ Cooled')
    <3>1. Cooled' <=> Cooled
      BY <2>1, <2>2, <2>4, BreakerAssumption DEF Cooled
    <3> QED
      BY <2>1, <3>1 DEF Contract!contractVars, Cooled
  <2> QED
    BY <2>3, <2>4
<1>6. CASE Heal
  BY <1>6 DEF Heal, Contract!contractVars, breaker, calls
<1>7. CASE UNCHANGED vars
  BY <1>7 DEF vars, Contract!contractVars, breaker, calls
<1> QED
  BY <1>1, <1>2, <1>3, <1>4, <1>5, <1>6, <1>7 DEF Next, Answer

(* The service, with its counter, its clock and its retries, admits a call *)
(* only when the contract does and lets results change the mode only as    *)
(* the contract says.                                                      *)
THEOREM ContractKept == Safe => Contract!ContractSafe
<1>1. Init => Contract!ContractInit
  BY DEF Init, Contract!ContractInit
<1>2. IInv /\ [Next]_vars => [Contract!ContractNext]_(Contract!contractVars)
  BY StepRefines
<1> QED
  BY <1>1, <1>2, Invariance, PTL DEF Safe, Contract!ContractSafe

-----------------------------------------------------------------------------
(* The usage row, where nothing stands in its way: no call is anonymous,   *)
(* the database takes every row and no hint is NaN.  Without any one of   *)
(* the three the row may be missing.                                       *)
FairWeather ==
    RequireApiKey /\ ~UsageMayFail /\ "throttled_nan" \notin AnswersSeen

AllKeyed == \A r \in Requests : keyed[r]

LEMMA RowStepHolds ==
    ASSUME FairWeather, IInv, AllKeyed, RowTellsAnswer, [Next]_vars
    PROVE  AllKeyed' /\ RowTellsAnswer'
<1>0. /\ pc \in [Requests -> Points] /\ keyed \in [Requests -> BOOLEAN]
      /\ code \in [Requests -> Codes \cup {NoCode}] /\ row \in [Requests -> Nat]
  BY DEF IInv, TypeOK
<1> USE DEF AllKeyed, RowTellsAnswer
<1>1. ASSUME NEW r \in Requests, Call(r) \/ Wake(r)
      PROVE  AllKeyed' /\ RowTellsAnswer'
  <2>1. pc' = [pc EXCEPT ![r] = "posted"] \/ pc' = [pc EXCEPT ![r] = "recording"]
    BY <1>1 DEF Call, Wake, Post, Refuse, Conclude
  <2>2. row' = row /\ \A q \in Requests \ {r} : code'[q] = code[q]
    BY <1>0, <1>1 DEF Call, Wake, Post, Refuse, Conclude
  <2>3. keyed' = keyed \/ keyed' = [keyed EXCEPT ![r] = TRUE]
    BY <1>1 DEF Call, Wake, FairWeather
  <2> QED
    BY <1>0, <2>1, <2>2, <2>3
<1>2. ASSUME NEW r \in Requests, Answer(r)
      PROVE  AllKeyed' /\ RowTellsAnswer'
  <2>1. \A answer \in AnswersSeen : ~Crash(r, answer)
    BY DEF Crash, FairWeather
  <2>2. pc' = [pc EXCEPT ![r] = "sleeping"] \/ pc' = [pc EXCEPT ![r] = "recording"]
    BY <1>2, <2>1 DEF Answer, Succeed, GiveUp, Retry, Conclude
  <2>3. \A q \in Requests \ {r} : code'[q] = code[q]
    BY <1>0, <1>2, <2>1 DEF Answer, Succeed, GiveUp, Retry, Conclude
  <2>4. UNCHANGED <<row, keyed>>
    BY <1>2, <2>1 DEF Answer, Succeed, GiveUp, Retry, Report
  <2> QED
    BY <1>0, <2>2, <2>3, <2>4
<1>3. ASSUME NEW r \in Requests, Record(r)
      PROVE  AllKeyed' /\ RowTellsAnswer'
  <2>1. /\ row' = [row EXCEPT ![r] = StatusOf[code[r]]]
        /\ pc' = [pc EXCEPT ![r] = "done"]
        /\ UNCHANGED <<code, keyed>>
    BY <1>3 DEF Record, FairWeather
  <2> QED
    BY <1>0, <2>1
<1>4. ASSUME NEW r \in Requests, Finish(r)
      PROVE  AllKeyed' /\ RowTellsAnswer'
  BY <1>0, <1>4 DEF Finish
<1>5. CASE Tick \/ Heal \/ UNCHANGED vars
  BY <1>5 DEF Tick, Heal, vars, calls
<1> QED
  BY <1>1, <1>2, <1>3, <1>4, <1>5 DEF Next

(* In fair weather every call, whatever it comes to and however the calls  *)
(* interleave, leaves the row that tells what its caller was told.         *)
THEOREM RowsTellAnswers == FairWeather => (Safe => []RowTellsAnswer)
<1> SUFFICES ASSUME FairWeather PROVE Safe => []RowTellsAnswer
  OBVIOUS
<1>1. Init => AllKeyed /\ RowTellsAnswer
  BY DEF Init, AllKeyed, RowTellsAnswer
<1>2. IInv /\ AllKeyed /\ RowTellsAnswer /\ [Next]_vars
         => AllKeyed' /\ RowTellsAnswer'
  BY RowStepHolds
<1> QED
  BY <1>1, <1>2, Invariance, PTL DEF Safe

-----------------------------------------------------------------------------
(* Completion implements CallContract.                                     *)

Phase == [r \in Requests |-> IF InRun(r) THEN "working"
                             ELSE IF pc[r] = "recording" THEN "concluded"
                             ELSE IF pc[r] = "done" THEN "over"
                             ELSE "idle"]

Outcomes == {CodeOf[a] : a \in AnswersSeen} \cup {"upstream_circuit_open"}

(* Where a call moves is where the contract sees it move.                  *)
LEMMA PhaseMoves ==
    ASSUME pc \in [Requests -> Points], NEW r \in Requests, NEW p,
           pc' = [pc EXCEPT ![r] = p]
    PROVE  Phase' = [Phase EXCEPT ![r] =
                        IF p \in {"posted", "sleeping"} THEN "working"
                        ELSE IF p = "recording" THEN "concluded"
                        ELSE IF p = "done" THEN "over"
                        ELSE "idle"]
  BY DEF Phase, InRun

(* Leaving run() with one of the known outcomes concludes the call.        *)
LEMMA ConcludeConcludes ==
    ASSUME IInv, NEW r \in Requests, NEW c \in Outcomes, Conclude(r, c),
           InRun(r) \/ pc[r] = "idle", UNCHANGED row
    PROVE  Promise!Conclude(r)
<1>1. pc \in [Requests -> Points]
  BY DEF IInv, TypeOK
<1>2. Phase' = [Phase EXCEPT ![r] = "concluded"]
  BY <1>1, PhaseMoves DEF Conclude
<1>3. Phase[r] \in {"idle", "working"}
  BY DEF Phase, InRun
<1>4. \E o \in Outcomes : code' = [code EXCEPT ![r] = o]
  BY DEF Conclude
<1> QED
  BY <1>2, <1>3, <1>4 DEF Promise!Conclude, Promise!MoveTo, Phase, Outcomes

(* A first attempt starts the call, a later one goes on with it, and one   *)
(* that is refused concludes it (complete, run, before_call).              *)
LEMMA StartsOrGoesOn ==
    ASSUME IInv, NEW r \in Requests, Call(r) \/ Wake(r)
    PROVE  [Promise!CallNext]_(Promise!callVars)
<1>1. pc \in [Requests -> Points]
  BY DEF IInv, TypeOK
<1>2. UNCHANGED row
  BY DEF Call, Wake
<1>3. pc[r] \in {"idle", "sleeping"}
  BY DEF Call, Wake
<1>4. CASE Post(r) /\ UNCHANGED code
  <2>1. Phase' = [Phase EXCEPT ![r] = "working"]
    BY <1>1, <1>4, PhaseMoves DEF Post
  <2>2. CASE pc[r] = "idle"
    <3>1. Phase[r] = "idle"
      BY <2>2 DEF Phase, InRun
    <3>2. Promise!Start(r)
      BY <1>2, <1>4, <2>1, <3>1 DEF Promise!Start, Promise!MoveTo, Phase
    <3> QED
      BY <3>2 DEF Promise!CallNext
  <2>3. CASE pc[r] = "sleeping"
    <3>1. Phase[r] = "working"
      BY <2>3 DEF Phase, InRun
    <3>2. Phase' = Phase
      BY <2>1, <3>1 DEF Phase
    <3> QED
      BY <1>2, <1>4, <3>2 DEF Promise!callVars, Phase
  <2> QED
    BY <1>3, <2>2, <2>3
<1>5. CASE Refuse(r)
  <2>1. Conclude(r, "upstream_circuit_open") /\ "upstream_circuit_open" \in Outcomes
    BY <1>5 DEF Refuse, Outcomes
  <2>2. Promise!Conclude(r)
    BY <1>2, <1>3, <2>1, ConcludeConcludes DEF InRun
  <2> QED
    BY <2>2 DEF Promise!CallNext
<1> QED
  BY <1>4, <1>5 DEF Call, Wake

(* An answer concludes the call, breaks it, or goes unnoticed because the  *)
(* call sleeps and tries again (_guarded_call, run).                       *)
LEMMA AnswerConcludes ==
    ASSUME IInv, NEW r \in Requests, Answer(r)
    PROVE  [Promise!CallNext]_(Promise!callVars)
<1>1. pc \in [Requests -> Points]
  BY DEF IInv, TypeOK
<1>2. pc[r] = "posted" /\ UNCHANGED row
  BY DEF Answer, Succeed, GiveUp, Retry, Crash, Report
<1>3. Phase[r] = "working" /\ InRun(r)
  BY <1>2 DEF Phase, InRun
<1>4. CASE Succeed(r)
  <2>1. CodeOf["completion"] = "ok"
    BY DEF CodeOf, Answers
  <2>2. Conclude(r, "ok") /\ "ok" \in Outcomes
    BY <1>4, <2>1 DEF Succeed, Outcomes
  <2>3. Promise!Conclude(r)
    BY <1>2, <1>3, <2>2, ConcludeConcludes
  <2> QED
    BY <2>3 DEF Promise!CallNext
<1>5. ASSUME NEW answer \in AnswersSeen, GiveUp(r, answer)
      PROVE  Promise!CallNext
  <2>1. Conclude(r, CodeOf[answer]) /\ CodeOf[answer] \in Outcomes
    BY <1>5 DEF GiveUp, Outcomes
  <2>2. Promise!Conclude(r)
    BY <1>2, <1>3, <2>1, ConcludeConcludes
  <2> QED
    BY <2>2 DEF Promise!CallNext
<1>6. ASSUME NEW answer \in AnswersSeen, Retry(r, answer)
      PROVE  UNCHANGED Promise!callVars
  <2>1. pc' = [pc EXCEPT ![r] = "sleeping"] /\ UNCHANGED code
    BY <1>6 DEF Retry
  <2>2. Phase' = [Phase EXCEPT ![r] = "working"]
    BY <1>1, <2>1, PhaseMoves
  <2>3. Phase' = Phase
    BY <1>3, <2>2 DEF Phase
  <2> QED
    BY <1>2, <2>1, <2>3 DEF Promise!callVars, Phase
<1>7. ASSUME NEW answer \in AnswersSeen, Crash(r, answer)
      PROVE  Promise!CallNext
  <2>1. /\ pc' = [pc EXCEPT ![r] = "done"]
        /\ code' = [code EXCEPT ![r] = "internal_error"]
    BY <1>7 DEF Crash
  <2>2. Phase' = [Phase EXCEPT ![r] = "over"]
    BY <1>1, <2>1, PhaseMoves
  <2>3. Promise!Break(r)
    BY <1>2, <1>3, <2>1, <2>2 DEF Promise!Break, Promise!MoveTo, Phase
  <2> QED
    BY <2>3 DEF Promise!CallNext
<1> QED
  BY <1>4, <1>5, <1>6, <1>7 DEF Answer

(* The row, written or lost, and the return (_record).                     *)
LEMMA RowLogs ==
    ASSUME IInv, NEW r \in Requests, Record(r) \/ Finish(r)
    PROVE  Promise!CallNext
<1>1. pc \in [Requests -> Points]
  BY DEF IInv, TypeOK
<1>2. CASE Record(r)
  <2>1. Phase' = [Phase EXCEPT ![r] = "over"]
    BY <1>1, <1>2, PhaseMoves DEF Record
  <2>2. Phase[r] = "concluded"
    BY <1>2 DEF Record, Phase, InRun
  <2>3. row' \in {row, [row EXCEPT ![r] = StatusOf[code[r]]]} /\ UNCHANGED code
    BY <1>2 DEF Record
  <2>4. Promise!Log(r)
    BY <2>1, <2>2, <2>3 DEF Promise!Log, Promise!MoveTo, Phase
  <2> QED
    BY <2>4 DEF Promise!CallNext
<1>3. CASE Finish(r)
  <2>1. Phase' = [Phase EXCEPT ![r] = "idle"]
    <3>1. pc' = [pc EXCEPT ![r] = "idle"]
      BY <1>3 DEF Finish
    <3> QED
      BY <1>1, <3>1 DEF Phase, InRun
  <2>2. Phase[r] = "over"
    BY <1>3 DEF Finish, Phase, InRun
  <2>3. Promise!Leave(r)
    BY <1>3, <2>1, <2>2 DEF Finish, Promise!Leave, Promise!MoveTo, Phase
  <2> QED
    BY <2>3 DEF Promise!CallNext
<1> QED
  BY <1>2, <1>3

(* Every call comes to one of the outcomes its callers know of, and to one *)
(* row at most, that tells it: for any number of concurrent calls, any     *)
(* answers, retries and states of the breaker (complete, _record).         *)
THEOREM PromiseKept == Safe => KeepsPromise
<1>1. Init => Promise!CallInit
  BY DEF Init, Promise!CallInit, InRun
<1>2. IInv /\ [Next]_vars => [Promise!CallNext]_(Promise!callVars)
  <2> SUFFICES ASSUME IInv, [Next]_vars
               PROVE  [Promise!CallNext]_(Promise!callVars)
    OBVIOUS
  <2>1. ASSUME NEW r \in Requests, Call(r) \/ Wake(r)
        PROVE  [Promise!CallNext]_(Promise!callVars)
    BY <2>1, StartsOrGoesOn
  <2>2. ASSUME NEW r \in Requests, Answer(r)
        PROVE  [Promise!CallNext]_(Promise!callVars)
    BY <2>2, AnswerConcludes
  <2>3. ASSUME NEW r \in Requests, Record(r) \/ Finish(r)
        PROVE  [Promise!CallNext]_(Promise!callVars)
    BY <2>3, RowLogs
  <2>4. CASE Tick \/ Heal \/ UNCHANGED vars
    <3>1. UNCHANGED <<pc, code, row>>
      BY <2>4 DEF Tick, Heal, vars, calls
    <3>2. Phase' = Phase
      BY <3>1 DEF Phase, InRun
    <3> QED
      BY <3>1, <3>2 DEF Promise!callVars, Phase
  <2> QED
    BY <2>1, <2>2, <2>3, <2>4 DEF Next
<1> QED
  BY <1>1, <1>2, Invariance, PTL DEF Safe, KeepsPromise, Promise!CallSpec

-----------------------------------------------------------------------------
(* A call uses itself up.                                                  *)

(* What is left of a call at point p, in attempt a, with t of its sleep    *)
(* to go.                                                                  *)
Remaining(p, a, t) ==
    LET rounds == (MaxAttempts - a) * (MaxBackoff + 4)
    IN  CASE p = "posted"    -> rounds + MaxBackoff + 4
          [] p = "sleeping"  -> rounds + t + 3
          [] p = "recording" -> 1
          [] OTHER           -> 0

LEMMA LeftIsRemaining ==
    ASSUME NEW r \in Requests
    PROVE  /\ Left(r) = Remaining(pc[r], attempt[r], timer[r])
           /\ Left(r)' = Remaining(pc'[r], attempt'[r], timer'[r])
  BY DEF Left, Remaining

(* Another attempt costs a POST and a sleep at its longest, which is what  *)
(* one attempt less leaves (run's loop).                                   *)
LEMMA RoundsShrink ==
    ASSUME NEW a \in 0..MaxAttempts
    PROVE  LET rounds(n) == (MaxAttempts - n) * (MaxBackoff + 4)
           IN  /\ rounds(a) \in Nat
               /\ a < MaxAttempts => rounds(a) = rounds(a + 1) + MaxBackoff + 4
<1> DEFINE c == MaxBackoff + 4
           n == MaxAttempts - a
<1>1. n \in Nat /\ c \in Nat
  BY PolicyAssumption
<1>2. MaxAttempts - (a + 1) = n - 1
  BY PolicyAssumption
<1>3. n * c \in Nat /\ n * c = (n - 1) * c + c
  BY <1>1
<1> QED
  BY <1>2, <1>3, PolicyAssumption

(* Each step that a call takes leaves less of it.                          *)
LEMMA RemainingShrinks ==
    ASSUME NEW a \in 0..MaxAttempts, NEW t \in 0..MaxBackoff, NEW d \in 0..MaxBackoff
    PROVE  /\ \A p \in Points : Remaining(p, a, t) \in Nat
           /\ Remaining("sleeping", a, d) < Remaining("posted", a, t)
           /\ Remaining("recording", a, d) < Remaining("posted", a, t)
           /\ t > 0 => Remaining("sleeping", a, t - 1) < Remaining("sleeping", a, t)
           /\ Remaining("done", a, t) < Remaining("recording", a, t)
           /\ a < MaxAttempts =>
                  /\ Remaining("posted", a + 1, d) < Remaining("sleeping", a, t)
                  /\ Remaining("recording", a + 1, d) < Remaining("sleeping", a, t)
<1> DEFINE rounds(n) == (MaxAttempts - n) * (MaxBackoff + 4)
<1>1. rounds(a) \in Nat /\ (a < MaxAttempts => rounds(a) = rounds(a + 1) + MaxBackoff + 4)
  BY RoundsShrink
<1>2. a < MaxAttempts => a + 1 \in 0..MaxAttempts
  BY PolicyAssumption
<1>3. a < MaxAttempts => rounds(a + 1) \in Nat
  BY <1>2, RoundsShrink
<1>4. ASSUME NEW n, NEW u
      PROVE  /\ Remaining("posted", n, u) = rounds(n) + MaxBackoff + 4
             /\ Remaining("sleeping", n, u) = rounds(n) + u + 3
             /\ Remaining("recording", n, u) = 1
             /\ Remaining("done", n, u) = 0
             /\ Remaining("idle", n, u) = 0
  BY DEF Remaining
<1> HIDE DEF rounds
<1> QED
  BY <1>1, <1>2, <1>3, <1>4, PolicyAssumption DEF Points

(* What a step leaves of the call it belongs to.                           *)
LEMMA OwnStepShrinks ==
    ASSUME IInv, NEW r \in Requests, Wake(r) \/ Answer(r) \/ Record(r)
    PROVE  Left(r)' < Left(r)
<1>1. /\ pc \in [Requests -> Points] /\ attempt \in [Requests -> 0..MaxAttempts]
      /\ timer \in [Requests -> 0..MaxBackoff]
      /\ Books(r)
  BY DEF IInv, TypeOK
<1>2. 0 \in 0..MaxBackoff
  BY PolicyAssumption
<1>3. CASE Wake(r)
  <2>1. /\ pc[r] = "sleeping" /\ attempt[r] < MaxAttempts
        /\ attempt'[r] = attempt[r] + 1
    BY <1>1, <1>3 DEF Wake, Books
  <2>2. CASE Post(r) /\ UNCHANGED <<elapsed, timer, code, waited>>
    <3>1. pc'[r] = "posted" /\ timer'[r] = timer[r]
      BY <1>1, <2>2 DEF Post
    <3> QED
      BY <1>1, <2>1, <3>1, RemainingShrinks, LeftIsRemaining
  <2>3. CASE Refuse(r)
    <3>1. pc'[r] = "recording" /\ timer'[r] = 0
      BY <1>1, <2>3 DEF Refuse, Conclude
    <3> QED
      BY <1>1, <1>2, <2>1, <3>1, RemainingShrinks, LeftIsRemaining
  <2> QED
    BY <1>3, <2>2, <2>3 DEF Wake
<1>4. CASE Answer(r)
  <2>1. pc[r] = "posted" /\ attempt' = attempt
    BY <1>4 DEF Answer, Succeed, GiveUp, Retry, Crash, Report
  <2>2. CASE Succeed(r) \/ \E answer \in AnswersSeen : GiveUp(r, answer)
    <3>1. pc'[r] = "recording" /\ timer'[r] = 0
      BY <1>1, <2>2 DEF Succeed, GiveUp, Conclude
    <3> QED
      BY <1>1, <1>2, <2>1, <3>1, RemainingShrinks, LeftIsRemaining
  <2>3. ASSUME NEW answer \in AnswersSeen, Retry(r, answer)
        PROVE  Left(r)' < Left(r)
    <3>1. PICK d \in Delays(r, answer) : timer' = [timer EXCEPT ![r] = d]
      BY <2>3 DEF Retry
    <3>2. d \in 0..MaxBackoff
      BY DelayBounded, EnvironmentAssumption
    <3>3. pc'[r] = "sleeping" /\ timer'[r] = d
      BY <1>1, <2>3, <3>1 DEF Retry
    <3> QED
      BY <1>1, <2>1, <3>2, <3>3, RemainingShrinks, LeftIsRemaining
  <2>4. ASSUME NEW answer \in AnswersSeen, Crash(r, answer)
        PROVE  Left(r)' < Left(r)
    <3>1. pc'[r] = "done"
      BY <1>1, <2>4 DEF Crash
    <3>2. Left(r)' = 0
      BY <3>1, LeftIsRemaining DEF Remaining
    <3>3. /\ Remaining("recording", attempt[r], 0) \in Nat
          /\ Remaining("posted", attempt[r], timer[r]) \in Nat
          /\ Remaining("recording", attempt[r], 0) < Remaining("posted", attempt[r], timer[r])
      BY <1>1, <1>2, RemainingShrinks DEF Points
    <3> QED
      BY <2>1, <3>2, <3>3, LeftIsRemaining
  <2> QED
    BY <1>4, <2>2, <2>3, <2>4 DEF Answer
<1>5. CASE Record(r)
  <2>1. pc[r] = "recording" /\ pc'[r] = "done" /\ UNCHANGED <<attempt, timer>>
    BY <1>1, <1>5 DEF Record
  <2> QED
    BY <1>1, <2>1, RemainingShrinks, LeftIsRemaining
<1> QED
  BY <1>3, <1>4, <1>5

(* What others do takes nothing from a call and gives it nothing back.     *)
LEMMA OthersLeaveIt ==
    ASSUME IInv, NEW q \in Requests, NEW r \in Requests, q # r,
           Call(q) \/ Wake(q) \/ Answer(q) \/ Record(q) \/ Finish(q)
    PROVE  pc'[r] = pc[r] /\ attempt'[r] = attempt[r] /\ timer'[r] = timer[r]
<1>1. /\ pc \in [Requests -> Points] /\ attempt \in [Requests -> 0..MaxAttempts]
      /\ timer \in [Requests -> 0..MaxBackoff]
  BY DEF IInv, TypeOK
<1>2. CASE Call(q) \/ Wake(q)
  BY <1>1, <1>2 DEF Call, Wake, Post, Refuse, Conclude
<1>3. CASE Answer(q)
  <2>1. CASE Succeed(q) \/ \E answer \in AnswersSeen : GiveUp(q, answer)
    BY <1>1, <2>1 DEF Succeed, GiveUp, Report, Conclude
  <2>2. CASE \E answer \in AnswersSeen : Retry(q, answer) \/ Crash(q, answer)
    BY <1>1, <2>2 DEF Retry, Crash, Report
  <2> QED
    BY <1>3, <2>1, <2>2 DEF Answer
<1>4. CASE Record(q) \/ Finish(q)
  BY <1>1, <1>4 DEF Record, Finish
<1> QED
  BY <1>2, <1>3, <1>4

(* Every call ends after a number of steps known when it starts, whatever  *)
(* the others, the breaker and the clock do: the half of Answered that     *)
(* needs no fairness (run's loop).                                         *)
THEOREM CallsEnd == Safe => CallsRunOut
<1> DEFINE at(r) == <<pc[r], attempt[r], timer[r]>>
           Runs(r) == /\ Left(r)' \in 0..Left(r)
                      /\ at(r)' # at(r) => Left(r)' < Left(r)
<1>1. ASSUME IInv, IInv', [Next]_vars, NEW r \in Requests, pc[r] \notin {"idle", "done"}
      PROVE  Runs(r)
  <2>1. Left(r) \in Nat /\ Left(r)' \in Nat
    <3>1. /\ pc[r] \in Points /\ attempt[r] \in 0..MaxAttempts
          /\ timer[r] \in 0..MaxBackoff
          /\ pc'[r] \in Points /\ attempt'[r] \in 0..MaxAttempts
          /\ timer'[r] \in 0..MaxBackoff
      BY <1>1 DEF IInv, TypeOK
    <3> QED
      BY <3>1, RemainingShrinks, LeftIsRemaining
  <2>2. SUFFICES at(r)' = at(r) \/ Left(r)' < Left(r)
    <3>1. at(r)' = at(r) => Left(r)' = Left(r)
      BY LeftIsRemaining
    <3> QED
      BY <2>1, <3>1
  <2>3. ASSUME NEW q \in Requests,
               Call(q) \/ Wake(q) \/ Answer(q) \/ Record(q) \/ Finish(q)
        PROVE  at(r)' = at(r) \/ Left(r)' < Left(r)
    <3>1. CASE q # r
      BY <1>1, <2>3, <3>1, OthersLeaveIt
    <3>2. CASE q = r
      <4>1. Wake(r) \/ Answer(r) \/ Record(r)
        BY <1>1, <2>3, <3>2 DEF Call, Finish
      <4> QED
        BY <1>1, <4>1, OwnStepShrinks
    <3> QED
      BY <3>1, <3>2
  <2>4. CASE Tick
    <3>1. /\ pc'[r] = pc[r] /\ attempt'[r] = attempt[r]
          /\ timer'[r] = IF timer[r] > 0 THEN timer[r] - 1 ELSE 0
      BY <2>4 DEF Tick
    <3>2. /\ attempt[r] \in 0..MaxAttempts /\ timer[r] \in 0..MaxBackoff
          /\ pc[r] # "sleeping" => timer[r] = 0
      BY <1>1 DEF IInv, TypeOK, Books
    <3>3. CASE timer[r] = 0
      BY <3>1, <3>3
    <3>4. CASE timer[r] # 0
      <4>1. pc[r] = "sleeping" /\ timer[r] > 0 /\ timer'[r] = timer[r] - 1
        BY <3>1, <3>2, <3>4
      <4> QED
        BY <3>1, <3>2, <4>1, RemainingShrinks, LeftIsRemaining
    <3> QED
      BY <3>3, <3>4
  <2>5. CASE Heal \/ UNCHANGED vars
    BY <2>5 DEF Heal, vars, calls
  <2> QED
    BY <1>1, <2>3, <2>4, <2>5 DEF Next
<1>2. IInv /\ IInv' /\ [Next]_vars
        => [\A r \in Requests : pc[r] \notin {"idle", "done"} => Runs(r)]_vars
  BY <1>1
<1> QED
  BY <1>2, Invariance, PTL DEF Safe, CallsRunOut

-----------------------------------------------------------------------------
(* The way back to a closed circuit.                                       *)

(* What a step of a call does once the provider is healthy: a failure is   *)
(* reported only of a POST that the outage caught, which is then answered. *)
LEMMA HealthyStep ==
    ASSUME healthy, NEW r \in Requests,
           Call(r) \/ Wake(r) \/ Answer(r) \/ Record(r) \/ Finish(r)
    PROVE  /\ healthy' /\ early' \subseteq early
           /\ early' = early => UNCHANGED breaker \/ BeforeCall \/ RecordSuccess
<1>1. CASE Call(r) \/ Wake(r)
  BY <1>1 DEF Call, Wake, Post, Refuse, provider
<1>2. CASE Answer(r)
  BY <1>2 DEF Answer, Succeed, GiveUp, Retry, Crash, Report
<1>3. CASE Record(r) \/ Finish(r)
  BY <1>3 DEF Record, Finish, provider
<1> QED
  BY <1>1, <1>2, <1>3

(* Once the provider is healthy nothing delays the end of the outage but   *)
(* the answers to the POSTs that it caught, which get fewer and never      *)
(* more: for any number of calls, however often they are refused.  Of      *)
(* Recovers, only fairness is left: of the clock, of those who ask and of  *)
(* the answers.                                                            *)
THEOREM OutageEnds == Safe => NothingSetsBack
<1> DEFINE Ahead == /\ early' \subseteq early
                    /\ early' = early => ToClose' \in 0..ToClose
<1>1. ASSUME IInv, [Next]_vars, healthy
      PROVE  Ahead
  <2>1. /\ state \in States /\ sinceOpened \in 0..Reset /\ Reset \in Nat
        /\ ToClose \in Nat
    BY <1>1, BreakerAssumption DEF IInv, TypeOK, ToClose, States
  <2>2. UNCHANGED breaker => ToClose' \in 0..ToClose
    BY <2>1 DEF breaker, ToClose, States
  <2>3. BeforeCall => ToClose' \in 0..ToClose
    BY <2>1 DEF BeforeCall, ToClose, States
  <2>4. RecordSuccess => ToClose' \in 0..ToClose
    BY <2>1 DEF RecordSuccess, ToClose, States
  <2>5. CASE Tick
    BY <2>1, <2>5 DEF Tick, provider, ToClose, States
  <2>6. CASE Heal \/ UNCHANGED vars
    BY <1>1, <2>2, <2>6 DEF Heal, vars, provider
  <2>7. ASSUME NEW r \in Requests,
               Call(r) \/ Wake(r) \/ Answer(r) \/ Record(r) \/ Finish(r)
        PROVE  Ahead
    BY <1>1, <2>2, <2>3, <2>4, <2>7, HealthyStep
  <2> QED
    BY <1>1, <2>5, <2>6, <2>7 DEF Next
<1>2. IInv /\ [Next]_vars => [healthy => Ahead]_vars
  BY <1>1
<1> QED
  BY <1>2, Invariance, PTL DEF Safe, NothingSetsBack

(* The [] of Recovers: once the provider is healthy and has answered the   *)
(* POSTs that the outage caught, a closed circuit stays closed, whatever   *)
(* count of failures the outage has left it with.                          *)
THEOREM ClosedForGood ==
    Safe => [](healthy /\ early = {} /\ state = "closed" => [](state = "closed"))
<1> DEFINE Over == healthy /\ early = {} /\ state = "closed"
<1>1. ASSUME [Next]_vars, Over PROVE Over'
  <2>1. CASE Tick \/ Heal \/ UNCHANGED vars
    BY <1>1, <2>1 DEF Tick, Heal, vars, breaker, provider
  <2>2. ASSUME NEW r \in Requests,
               Call(r) \/ Wake(r) \/ Answer(r) \/ Record(r) \/ Finish(r)
        PROVE  Over'
    <3>1. healthy' /\ early' = early
      BY <1>1, <2>2, HealthyStep
    <3>2. UNCHANGED breaker \/ BeforeCall \/ RecordSuccess
      BY <1>1, <2>2, <3>1, HealthyStep
    <3> QED
      BY <1>1, <3>1, <3>2 DEF breaker, BeforeCall, RecordSuccess
  <2> QED
    BY <1>1, <2>1, <2>2 DEF Next
<1>2. Over /\ [Next]_vars => Over'
  BY <1>1
<1>3. Over => state = "closed"
  OBVIOUS
<1> QED
  BY <1>2, <1>3, PTL DEF Safe

=============================================================================
