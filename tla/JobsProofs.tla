----------------------------- MODULE JobsProofs -----------------------------
(***************************************************************************)
(* Theorems about Jobs, for any jobs, any retry policy, any of the faults  *)
(* and any number of crashes.                                              *)
(***************************************************************************)
EXTENDS Jobs, TLAPS

Sending == {"posting", "waiting", "marking", "noting"}

(* What the row and the history of j are while its coroutine is where it   *)
(* is: the coroutine knows the row it has written, and the last write has  *)
(* not happened yet.                                                       *)
RowFits(j) ==
    /\ pc[j] = "new" => status[j] = "none"
    /\ pc[j] \in {"accepted", "queued"} => status[j] = "pending"
    /\ pc[j] \in {"completing", "settling"} => status[j] = "running"
    /\ pc[j] \in Sending => status[j] = outcome[j] /\ attempt[j] > 0
    /\ pc[j] \in Alive \cup {"new"} => recorded[j] = 0 /\ ~delivered[j]

CoroutineFits(j) ==
    /\ pc[j] \in Sending \cup {"settling"} => outcome[j] \in FinalStatuses
    /\ pc[j] = "waiting" => attempt[j] < MaxAttempts
    /\ pc[j] = "marking" => heard[j] # {}
    /\ pc[j] \in Alive \cup {"new"} /\ pc[j] # "waiting" => timer[j] = 0

Known(j)  == told[j] => status[j] # "none"
Honest(j) == /\ recorded[j] <= attempt[j]
             /\ attempt[j] <= MaxAttempts
             /\ delivered[j] => recorded[j] = attempt[j] /\ attempt[j] > 0

Shape(j) == RowFits(j) /\ CoroutineFits(j) /\ Known(j) /\ Honest(j)

IInv == TypeOK /\ \A j \in Work : Shape(j)

(* What is kept of job k in every variable that has a value per job, the   *)
(* elapsed time aside.                                                     *)
Kept(k) ==
    /\ status'[k] = status[k] /\ recorded'[k] = recorded[k]
    /\ delivered'[k] = delivered[k] /\ told'[k] = told[k]
    /\ pc'[k] = pc[k] /\ outcome'[k] = outcome[k]
    /\ attempt'[k] = attempt[k] /\ heard'[k] = heard[k]
    /\ timer'[k] = timer[k]

-----------------------------------------------------------------------------
(* A step of one job's coroutine concerns that job alone.                  *)
LEMMA OneJob ==
    ASSUME IInv, NEW j \in Work, TypeOK', Shape(j)',
           \A k \in Work \ {j} : Kept(k)
    PROVE  IInv'
<1>1. ASSUME NEW k \in Work \ {j} PROVE Shape(k)'
  BY <1>1 DEF IInv, Kept, Shape, RowFits, CoroutineFits, Known, Honest
<1> QED
  BY <1>1 DEF IInv

(* accept and submit: create, then the 202.                                *)
LEMMA RequestStep ==
    ASSUME IInv, NEW j \in Work, Accept(j) \/ Respond(j)
    PROVE  IInv'
<1>1. TypeOK /\ Shape(j)
  BY DEF IInv
<1>2. CASE Accept(j)
  <2>1. \A k \in Work \ {j} : Kept(k)
    BY <1>1, <1>2 DEF TypeOK, Kept, Accept, Transaction, SetStatus, GoTo, row
  <2>2. TypeOK'
    BY <1>1, <1>2 DEF TypeOK, Accept, Transaction, SetStatus, GoTo, row,
                      Points, Statuses
  <2>3. Shape(j)'
    BY <1>1, <1>2 DEF TypeOK, Accept, Transaction, SetStatus, GoTo, row, Sending,
                      Alive, Shape, RowFits, CoroutineFits, Known, Honest
  <2> QED
    BY <2>1, <2>2, <2>3, OneJob
<1>3. CASE Respond(j)
  <2>1. \A k \in Work \ {j} : Kept(k)
    BY <1>1, <1>3 DEF TypeOK, Kept, Respond, GoTo, row
  <2>2. TypeOK'
    BY <1>1, <1>3 DEF TypeOK, Respond, GoTo, row, Points
  <2>3. Shape(j)'
    BY <1>1, <1>3 DEF TypeOK, Respond, GoTo, row, Sending, Alive, Points,
                      Shape, RowFits, CoroutineFits, Known, Honest
  <2> QED
    BY <2>1, <2>2, <2>3, OneJob
<1> QED
  BY <1>2, <1>3

(* run and _execute, up to the outcome in the row.                         *)
LEMMA ExecuteStep ==
    ASSUME IInv, NEW j \in Work, Begin(j) \/ Complete(j) \/ Settle(j)
    PROVE  IInv'
<1>1. TypeOK /\ Shape(j)
  BY DEF IInv
<1>2. CASE Begin(j)
  <2>1. \A k \in Work \ {j} : Kept(k)
    BY <1>1, <1>2 DEF TypeOK, Kept, Begin, Transaction, SetStatus, GoTo, row
  <2>2. TypeOK'
    BY <1>1, <1>2 DEF TypeOK, Begin, Transaction, SetStatus, GoTo, row,
                      Points, Statuses
  <2>3. Shape(j)'
    BY <1>1, <1>2 DEF TypeOK, Begin, Transaction, SetStatus, GoTo, row, Sending,
                      Alive, Points, Shape, RowFits, CoroutineFits, Known, Honest
  <2> QED
    BY <2>1, <2>2, <2>3, OneJob
<1>3. CASE Complete(j)
  <2>1. \A k \in Work \ {j} : Kept(k)
    BY <1>1, <1>3 DEF TypeOK, Kept, Complete, GoTo, row
  <2>2. TypeOK'
    BY <1>1, <1>3 DEF TypeOK, Complete, GoTo, row, Points
  <2>3. Shape(j)'
    BY <1>1, <1>3 DEF TypeOK, Complete, GoTo, row, Sending, Alive, Points,
                      Shape, RowFits, CoroutineFits, Known, Honest
  <2> QED
    BY <2>1, <2>2, <2>3, OneJob
<1>4. CASE Settle(j)
  <2>1. \A k \in Work \ {j} : Kept(k)
    BY <1>1, <1>4 DEF TypeOK, Kept, Settle, Transaction, SetStatus, GoTo, row
  <2>2. outcome[j] \in FinalStatuses /\ attempt[j] \in Nat /\ recorded[j] = 0
        /\ ~delivered[j] /\ status[j] = "running"
    BY <1>1, <1>4 DEF TypeOK, Settle, Shape, RowFits, CoroutineFits, Alive, Points
  <2>3. TypeOK'
    BY <1>1, <1>4, <2>2, PolicyAssumption
       DEF TypeOK, Settle, Transaction, SetStatus, GoTo, row, Points, Statuses
  <2>4. Shape(j)'
    <3>1. CASE pc' = [pc EXCEPT ![j] = "posting"]
      BY <1>1, <1>4, <2>2, <2>3, <3>1, PolicyAssumption
         DEF TypeOK, Settle, Transaction, SetStatus, GoTo, row, Sending, Alive,
             Points, FinalStatuses, Shape, RowFits, CoroutineFits, Known, Honest
    <3>2. CASE pc' = [pc EXCEPT ![j] = "raised"]
      BY <1>1, <1>4, <2>2, <2>3, <3>2
         DEF TypeOK, Settle, Transaction, SetStatus, GoTo, row, Sending, Alive,
             Points, FinalStatuses, Shape, RowFits, CoroutineFits, Known, Honest
    <3> QED
      BY <1>4, <3>1, <3>2 DEF Settle, Transaction, GoTo
  <2> QED
    BY <2>1, <2>3, <2>4, OneJob
<1> QED
  BY <1>2, <1>3, <1>4

(* deliver: one POST, whatever it comes to, and the wait before another.   *)
LEMMA DeliverStep ==
    ASSUME IInv, NEW j \in Work, Answered(j) \/ Repost(j)
    PROVE  IInv'
<1>1. TypeOK /\ Shape(j)
  BY DEF IInv
<1>2. CASE Answered(j)
  <2>1. /\ pc[j] = "posting"
        /\ \E o \in PostOutcomes :
              heard' = [heard EXCEPT ![j] = IF o \in Accepting
                                            THEN @ \cup {outcome[j]} ELSE @]
        /\ UNCHANGED <<status, recorded, delivered, told, outcome, attempt, crashes>>
    BY <1>2 DEF Answered, Deliver, GiveUp, Backoff, Abandon, Posted, PostOutcomes, row
  <2>2. /\ elapsed' = elapsed
        /\ timer' = timer \/ \E d \in 0..MaxBackoff : timer' = [timer EXCEPT ![j] = d]
    BY <1>2 DEF Answered, Deliver, GiveUp, Backoff, Abandon, BackoffDelays
  <2>3. \E p \in {"marking", "noting", "waiting", "logged"} :
           /\ pc' = [pc EXCEPT ![j] = p]
           /\ p = "waiting" => ~(attempt[j] >= MaxAttempts)
           /\ p = "marking" => heard' = [heard EXCEPT ![j] = @ \cup {outcome[j]}]
           /\ p # "waiting" => timer' = timer
    BY <1>2 DEF Answered, Deliver, GiveUp, Backoff, Abandon, GoTo, Final, Posted,
                Accepting
  <2>4. outcome[j] \in FinalStatuses /\ status[j] = outcome[j] /\ attempt[j] > 0
        /\ recorded[j] = 0 /\ ~delivered[j] /\ timer[j] = 0
    BY <1>1, <2>1 DEF Shape, RowFits, CoroutineFits, Sending, Alive, Points
  <2>5. \A k \in Work \ {j} : Kept(k)
    BY <1>1, <2>1, <2>2, <2>3 DEF TypeOK, Kept
  <2>6. TypeOK'
    BY <1>1, <2>1, <2>2, <2>3, <2>4 DEF TypeOK, Points
  <2>7. Shape(j)'
    <3>1. attempt[j] \in 0..MaxAttempts /\ MaxAttempts \in Nat
      BY <1>1, PolicyAssumption DEF TypeOK
    <3>2. /\ status'[j] = outcome'[j] /\ outcome'[j] \in FinalStatuses
          /\ attempt'[j] = attempt[j] /\ recorded'[j] = 0 /\ ~delivered'[j]
      BY <2>1, <2>4
    <3>3. pc'[j] \in {"marking", "noting", "waiting", "logged"}
      BY <1>1, <2>3 DEF TypeOK
    <3>4. RowFits(j)'
      BY <2>4, <3>2, <3>3 DEF RowFits, Sending
    <3>5. pc'[j] = "waiting" => attempt'[j] < MaxAttempts
      BY <1>1, <2>3, <3>1, <3>2 DEF TypeOK
    <3>6. pc'[j] = "marking" => heard'[j] # {}
      BY <1>1, <2>3 DEF TypeOK
    <3>7. pc'[j] # "waiting" => timer'[j] = 0
      BY <1>1, <2>3, <2>4 DEF TypeOK
    <3>8. CoroutineFits(j)'
      BY <3>2, <3>5, <3>6, <3>7 DEF CoroutineFits
    <3>9. Known(j)' /\ Honest(j)'
      BY <2>4, <3>1, <3>2 DEF Known, Honest, FinalStatuses
    <3> QED
      BY <3>4, <3>8, <3>9 DEF Shape
  <2> QED
    BY <2>5, <2>6, <2>7, OneJob
<1>3. CASE Repost(j)
  <2>1. \A k \in Work \ {j} : Kept(k)
    BY <1>1, <1>3 DEF TypeOK, Kept, Repost, GoTo, row
  <2>2. /\ attempt[j] \in 0..MaxAttempts /\ attempt[j] < MaxAttempts
        /\ recorded[j] = 0 /\ ~delivered[j]
    BY <1>1, <1>3 DEF TypeOK, Repost, Shape, RowFits, CoroutineFits, Alive, Points
  <2>3. TypeOK'
    BY <1>1, <1>3, <2>2, PolicyAssumption DEF TypeOK, Repost, GoTo, row, Points
  <2>4. Shape(j)'
    BY <1>1, <1>3, <2>2, PolicyAssumption
       DEF TypeOK, Repost, GoTo, row, Sending, Alive, Points,
           Shape, RowFits, CoroutineFits, Known, Honest
  <2> QED
    BY <2>1, <2>3, <2>4, OneJob
<1> QED
  BY <1>2, <1>3

(* _deliver: the last update, after a delivery or after giving up.         *)
LEMMA LastStep ==
    ASSUME IInv, NEW j \in Work, Mark(j) \/ Note(j)
    PROVE  IInv'
<1>1. TypeOK /\ Shape(j)
  BY DEF IInv
<1>2. /\ attempt[j] \in 0..MaxAttempts /\ attempt[j] > 0 /\ recorded[j] = 0
      /\ status[j] \in FinalStatuses
  BY <1>1 DEF TypeOK, Mark, Note, Shape, RowFits, CoroutineFits, Sending, Alive, Points
<1>3. \A k \in Work \ {j} : Kept(k)
  BY <1>1 DEF TypeOK, Kept, Mark, Note, Transaction, GoTo, row
<1>4. TypeOK'
  BY <1>1, <1>2 DEF TypeOK, Mark, Note, Transaction, GoTo, row, Points
<1>5. Shape(j)'
  BY <1>1, <1>2 DEF TypeOK, Mark, Note, Transaction, GoTo, row, Sending, Alive,
     FinalStatuses, Shape, RowFits, CoroutineFits, Known, Honest
<1> QED
  BY <1>3, <1>4, <1>5, OneJob

LEMMA TickStep ==
    ASSUME IInv, Tick
    PROVE  IInv'
<1>1. TypeOK'
  <2>1. ASSUME NEW k \in Work
        PROVE  elapsed'[k] \in 0..(Budget + 1) /\ timer'[k] \in 0..MaxBackoff
    BY PolicyAssumption DEF IInv, TypeOK, Tick, Older
  <2>2. /\ elapsed' \in [Work -> 0..(Budget + 1)]
        /\ timer' \in [Work -> 0..MaxBackoff]
    BY <2>1 DEF Tick
  <2> QED
    BY <2>2 DEF IInv, TypeOK, Tick, row
<1> QED
  BY <1>1 DEF IInv, Tick, row, Shape, RowFits, CoroutineFits, Known, Honest

(* A crash ends coroutines; the rows and the callback keep what they have. *)
LEMMA CrashStep ==
    ASSUME IInv, Crash
    PROVE  IInv'
<1>1. TypeOK'
  BY JobsAssumption DEF IInv, TypeOK, Crash, row, Points
<1>2. ASSUME NEW k \in Work PROVE Shape(k)'
  BY DEF IInv, TypeOK, Crash, row, Sending, Alive, Points,
         Shape, RowFits, CoroutineFits, Known, Honest
<1> QED
  BY <1>1, <1>2 DEF IInv

LEMMA IdleStep ==
    ASSUME IInv, UNCHANGED vars
    PROVE  IInv'
  BY DEF IInv, TypeOK, vars, row, task, Shape, RowFits, CoroutineFits, Known, Honest

LEMMA InitIInv == Init => IInv
  BY PolicyAssumption, JobsAssumption
     DEF Init, IInv, TypeOK, Statuses, Points, Sending, FinalStatuses, Shape,
         RowFits, CoroutineFits, Known, Honest

-----------------------------------------------------------------------------
(* Every step keeps the inductive invariant.                               *)
LEMMA NextKeeps == IInv /\ [Next]_vars => IInv'
  BY RequestStep, ExecuteStep, DeliverStep, LastStep, TickStep, CrashStep, IdleStep
     DEF Next, Step

(* The inductive invariant holds throughout: wherever a coroutine is, was  *)
(* refused, raised or was lost, its row is the one it believes in.         *)
THEOREM Invariance == Safe => []IInv
  BY NextKeeps, InitIInv, PTL DEF Safe

(* Type correctness of the rows and of every coroutine.                    *)
THEOREM TypeCorrect == Safe => []TypeOK
  BY Invariance, PTL DEF IInv

(* An id a caller holds is one it can look up (accept).                    *)
THEOREM IdsAreStored == Safe => []AcceptedIsStored
<1>1. IInv => AcceptedIsStored
  BY DEF IInv, Shape, Known, AcceptedIsStored
<1> QED
  BY <1>1, Invariance, PTL

(* delivery_attempts and delivered_at never claim more than was done, for  *)
(* any policy (deliver, _deliver).                                         *)
THEOREM AttemptsAreHonest == Safe => []AttemptsHonest
<1>1. IInv => AttemptsHonest
  BY DEF IInv, Shape, Honest, AttemptsHonest
<1> QED
  BY <1>1, Invariance, PTL

-----------------------------------------------------------------------------
(* The refinement.  A transaction that changes a status advances the stage *)
(* of its job, whether its acknowledgement is lost or not.                 *)
LEMMA StatusAdvances ==
    ASSUME NEW j \in Work, NEW from, NEW to, NEW next, NEW failed,
           status[j] = from,
           Transaction(j, SetStatus(j, to), next, failed), UNCHANGED heard
    PROVE  Contract!Advance(j, from, to) \/ UNCHANGED Contract!jobVars
<1>1. SetStatus(j, to) \/ UNCHANGED row
  BY DEF Transaction
<1>2. CASE SetStatus(j, to)
  BY <1>2 DEF SetStatus, Contract!Advance
<1>3. CASE UNCHANGED row
  BY <1>3 DEF row, Contract!jobVars
<1> QED
  BY <1>1, <1>2, <1>3

(* Every step of the service is a step of the contract or none.            *)
LEMMA StepRefines ==
    ASSUME IInv, [Next]_vars
    PROVE  [Contract!JobNext]_(Contract!jobVars)
<1> USE DEF Contract!JobNext
<1>1. ASSUME NEW j \in Work, Accept(j)
      PROVE  [Contract!JobNext]_(Contract!jobVars)
  <2>1. status[j] = "none"
    BY <1>1 DEF Accept, IInv, Shape, RowFits
  <2>2. CASE Transaction(j, SetStatus(j, "pending"), "accepted", "refused")
    BY <1>1, <2>1, <2>2, StatusAdvances DEF Accept
  <2>3. CASE UNCHANGED row
    BY <1>1, <2>3 DEF Accept, row, Contract!jobVars
  <2> QED
    BY <1>1, <2>2, <2>3 DEF Accept
<1>2. ASSUME NEW j \in Work, Begin(j)
      PROVE  [Contract!JobNext]_(Contract!jobVars)
  <2>1. status[j] = "pending"
    BY <1>2 DEF Begin, IInv, Shape, RowFits
  <2> QED
    BY <1>2, <2>1, StatusAdvances DEF Begin
<1>3. ASSUME NEW j \in Work, Settle(j)
      PROVE  [Contract!JobNext]_(Contract!jobVars)
  <2>1. status[j] = "running" /\ outcome[j] \in FinalStatuses
    BY <1>3 DEF Settle, IInv, Shape, RowFits, CoroutineFits
  <2>2. \/ Contract!Advance(j, "running", outcome[j])
        \/ UNCHANGED Contract!jobVars
    BY <1>3, <2>1, StatusAdvances DEF Settle
  <2> QED
    BY <2>1, <2>2 DEF Contract!Settle, Contract!FinalStages, FinalStatuses
<1>4. ASSUME NEW j \in Work, Answered(j)
      PROVE  [Contract!JobNext]_(Contract!jobVars)
  <2>1. /\ pc[j] = "posting" /\ UNCHANGED <<status, delivered>>
        /\ \/ heard' = [heard EXCEPT ![j] = @ \cup {outcome[j]}]
           \/ heard' = [heard EXCEPT ![j] = @]
    BY <1>4 DEF Answered, Deliver, GiveUp, Backoff, Abandon, Posted, PostOutcomes, row
  <2>2. status[j] = outcome[j] /\ outcome[j] \in FinalStatuses
    BY <2>1 DEF IInv, Shape, RowFits, CoroutineFits, Sending
  <2>3. CASE heard' = [heard EXCEPT ![j] = @ \cup {outcome[j]}]
    BY <2>1, <2>2, <2>3 DEF Contract!Hear, Contract!FinalStages, FinalStatuses
  <2>4. CASE heard' = [heard EXCEPT ![j] = @]
    BY <2>1, <2>4 DEF IInv, TypeOK, Contract!jobVars
  <2> QED
    BY <2>1, <2>3, <2>4
<1>5. ASSUME NEW j \in Work, Mark(j)
      PROVE  [Contract!JobNext]_(Contract!jobVars)
  <2>1. heard[j] # {}
    BY <1>5 DEF Mark, IInv, Shape, CoroutineFits
  <2>2. \/ UNCHANGED <<status, heard>> /\ delivered' = [delivered EXCEPT ![j] = TRUE]
        \/ UNCHANGED <<status, heard, delivered>>
    BY <1>5 DEF Mark, Transaction, row
  <2> QED
    BY <2>1, <2>2 DEF Contract!MarkDelivered, Contract!jobVars
<1>6. ASSUME NEW j \in Work, Respond(j) \/ Complete(j) \/ Repost(j) \/ Note(j)
      PROVE  UNCHANGED Contract!jobVars
  BY <1>6 DEF Respond, Complete, Repost, Note, Transaction, row, Contract!jobVars
<1>7. CASE Tick \/ Crash \/ UNCHANGED vars
  BY <1>7 DEF Tick, Crash, vars, row, Contract!jobVars
<1> QED
  BY <1>1, <1>2, <1>3, <1>4, <1>5, <1>6, <1>7 DEF Next, Step

(* For any faults and any number of crashes the status only moves forward, *)
(* the callback never hears what the row does not say, and only a          *)
(* delivered job is marked.                                                *)
THEOREM ContractKept == Safe => KeepsContract
<1>1. Init => Contract!JobInit
  BY DEF Init, Contract!JobInit
<1>2. IInv /\ [Next]_vars => [Contract!JobNext]_(Contract!jobVars)
  BY StepRefines
<1> QED
  BY <1>1, <1>2, Invariance, PTL DEF Safe, KeepsContract, Contract!JobSpec

-----------------------------------------------------------------------------
(* A job uses itself up.                                                   *)

(* What is left of a job at point p, in attempt a, with t of its backoff   *)
(* to go; rounds(n) is what n attempts take.                               *)
rounds(n) == n * (MaxBackoff + 2)

Remaining(p, a, t) ==
    CASE p = "accepted"   -> rounds(MaxAttempts + 1) + 3
      [] p = "queued"     -> rounds(MaxAttempts + 1) + 2
      [] p = "completing" -> rounds(MaxAttempts + 1) + 1
      [] p = "settling"   -> rounds(MaxAttempts + 1)
      [] p = "posting"    -> rounds(MaxAttempts - a + 1)
      [] p = "waiting"    -> rounds(MaxAttempts - a) + t + 1
      [] p \in {"marking", "noting"} -> 1
      [] OTHER -> 0

LEMMA LeftIsRemaining ==
    ASSUME NEW j \in Work
    PROVE  /\ Left(j) = Remaining(pc[j], attempt[j], timer[j])
           /\ Left(j)' = Remaining(pc'[j], attempt'[j], timer'[j])
  BY DEF Left, Remaining, rounds

(* One attempt more takes a POST and a wait at its longest more.           *)
LEMMA RoundsGrow ==
    ASSUME NEW n \in Nat
    PROVE  /\ rounds(n) \in Nat
           /\ rounds(n + 1) = rounds(n) + MaxBackoff + 2
  BY PolicyAssumption DEF rounds

(* Each step that a job takes leaves less of it.                           *)
LEMMA RemainingShrinks ==
    ASSUME NEW a \in 0..MaxAttempts, NEW t \in 0..MaxBackoff, NEW d \in 0..MaxBackoff
    PROVE  /\ \A p \in Points : Remaining(p, a, t) \in Nat
           /\ Remaining("queued", a, t) < Remaining("accepted", a, t)
           /\ Remaining("completing", a, t) < Remaining("queued", a, t)
           /\ Remaining("settling", a, t) < Remaining("completing", a, t)
           /\ Remaining("posting", 1, t) < Remaining("settling", a, t)
           /\ Remaining("waiting", a, d) < Remaining("posting", a, t)
           /\ 1 < Remaining("posting", a, t)
           /\ t > 0 => Remaining("waiting", a, t - 1) < Remaining("waiting", a, t)
           /\ a < MaxAttempts => Remaining("posting", a + 1, d) < Remaining("waiting", a, t)
           /\ \A p \in Alive : 0 < Remaining(p, a, t)
<1> DEFINE n == MaxAttempts - a
<1>1. n \in Nat /\ MaxAttempts \in Nat /\ MaxAttempts - a + 1 = n + 1
      /\ MaxAttempts - 1 + 1 = MaxAttempts /\ (MaxAttempts - (a + 1)) + 1 = n
  BY PolicyAssumption
<1>2. /\ rounds(n) \in Nat /\ rounds(n + 1) = rounds(n) + MaxBackoff + 2
      /\ rounds(MaxAttempts) \in Nat
      /\ rounds(MaxAttempts + 1) = rounds(MaxAttempts) + MaxBackoff + 2
  BY <1>1, RoundsGrow
<1>3. ASSUME NEW b, NEW u
      PROVE  /\ Remaining("accepted", b, u) = rounds(MaxAttempts + 1) + 3
             /\ Remaining("queued", b, u) = rounds(MaxAttempts + 1) + 2
             /\ Remaining("completing", b, u) = rounds(MaxAttempts + 1) + 1
             /\ Remaining("settling", b, u) = rounds(MaxAttempts + 1)
             /\ Remaining("posting", b, u) = rounds(MaxAttempts - b + 1)
             /\ Remaining("waiting", b, u) = rounds(MaxAttempts - b) + u + 1
             /\ \A p \in {"marking", "noting"} : Remaining(p, b, u) = 1
             /\ \A p \in Points \ Alive : Remaining(p, b, u) = 0
  BY DEF Remaining, Points, Alive
<1>4. Remaining("posting", a, t) = rounds(n) + MaxBackoff + 2
  BY <1>1, <1>2, <1>3
<1>5. /\ Remaining("posting", 1, t) = rounds(MaxAttempts)
      /\ Remaining("posting", a + 1, d) = rounds(n)
  BY <1>1, <1>3
<1>6. /\ Remaining("waiting", a, t) = rounds(n) + t + 1
      /\ Remaining("waiting", a, d) = rounds(n) + d + 1
      /\ Remaining("waiting", a, t - 1) = rounds(n) + (t - 1) + 1
  BY <1>3
<1> HIDE DEF n
<1>7. /\ Remaining("posting", 1, t) < Remaining("settling", a, t)
      /\ Remaining("waiting", a, d) < Remaining("posting", a, t)
      /\ 1 < Remaining("posting", a, t)
      /\ t > 0 => Remaining("waiting", a, t - 1) < Remaining("waiting", a, t)
      /\ Remaining("posting", a + 1, d) < Remaining("waiting", a, t)
  BY <1>2, <1>3, <1>4, <1>5, <1>6, PolicyAssumption
<1>8. /\ Remaining("queued", a, t) < Remaining("accepted", a, t)
      /\ Remaining("completing", a, t) < Remaining("queued", a, t)
      /\ Remaining("settling", a, t) < Remaining("completing", a, t)
  BY <1>2, <1>3, PolicyAssumption
<1>9. \A p \in Points : Remaining(p, a, t) \in Nat /\ (p \in Alive => 0 < Remaining(p, a, t))
  BY <1>2, <1>3, <1>4, <1>6, PolicyAssumption DEF Points, Alive
<1> QED
  BY <1>7, <1>8, <1>9 DEF Alive

(* What a step of its own leaves of a job.                                 *)
LEMMA OwnStepShrinks ==
    ASSUME IInv, NEW j \in Work, Step(j)
    PROVE  Left(j)' < Left(j)
<1>1. /\ pc \in [Work -> Points] /\ attempt \in [Work -> 0..MaxAttempts]
      /\ timer \in [Work -> 0..MaxBackoff]
      /\ CoroutineFits(j) /\ Shape(j)
  BY DEF IInv, TypeOK, Shape
<1>2. ASSUME pc[j] \in Alive, pc'[j] \notin Alive, pc'[j] \in Points PROVE Left(j)' < Left(j)
  <2>1. Left(j)' = 0
    BY <1>2, LeftIsRemaining DEF Remaining, Alive
  <2> QED
    BY <1>1, <1>2, <2>1, LeftIsRemaining, RemainingShrinks
<1>3. CASE Respond(j) \/ Begin(j) \/ Complete(j)
  <2>1. /\ UNCHANGED <<attempt, timer>>
        /\ \/ pc[j] = "accepted" /\ pc'[j] = "queued"
           \/ pc[j] = "queued" /\ pc'[j] \in {"completing", "raised"}
           \/ pc[j] = "completing" /\ pc'[j] \in {"settling", "raised"}
    BY <1>1, <1>3 DEF Respond, Begin, Complete, Transaction, GoTo
  <2> QED
    BY <1>1, <1>2, <2>1, LeftIsRemaining, RemainingShrinks DEF Alive, Points
<1>4. CASE Settle(j)
  <2>1. /\ pc[j] = "settling" /\ timer' = timer
        /\ \/ pc'[j] = "posting" /\ attempt'[j] = 1
           \/ pc'[j] = "raised"
    BY <1>1, <1>4 DEF Settle, Transaction, GoTo
  <2> QED
    BY <1>1, <1>2, <2>1, LeftIsRemaining, RemainingShrinks DEF Alive, Points
<1>5. CASE Answered(j)
  <2>1. pc[j] = "posting" /\ attempt' = attempt
    BY <1>5 DEF Answered, Deliver, GiveUp, Backoff, Abandon, Posted
  <2>2. \/ pc'[j] \in {"marking", "noting", "logged"}
        \/ pc'[j] = "waiting" /\ \E d \in 0..MaxBackoff : timer'[j] = d
    BY <1>1, <1>5, PolicyAssumption
       DEF Answered, Deliver, GiveUp, Backoff, Abandon, BackoffDelays, GoTo
  <2>3. CASE pc'[j] \in {"marking", "noting"}
    <3>1. Left(j)' = 1
      BY <2>3, LeftIsRemaining DEF Remaining
    <3> QED
      BY <1>1, <2>1, <3>1, LeftIsRemaining, RemainingShrinks
  <2>4. CASE pc'[j] = "waiting" /\ \E d \in 0..MaxBackoff : timer'[j] = d
    BY <1>1, <2>1, <2>4, LeftIsRemaining, RemainingShrinks
  <2> QED
    BY <1>2, <2>1, <2>2, <2>3, <2>4 DEF Alive, Points
<1>6. CASE Repost(j)
  <2>1. /\ pc[j] = "waiting" /\ pc'[j] = "posting" /\ timer' = timer
        /\ attempt[j] < MaxAttempts /\ attempt'[j] = attempt[j] + 1
    BY <1>1, <1>6 DEF Repost, GoTo, CoroutineFits
  <2> QED
    BY <1>1, <2>1, LeftIsRemaining, RemainingShrinks
<1>7. CASE Mark(j) \/ Note(j)
  <2>1. pc[j] \in {"marking", "noting"} /\ pc'[j] \in {"done", "logged", "raised"}
    BY <1>1, <1>7 DEF Mark, Note, Transaction, GoTo
  <2> QED
    BY <1>2, <2>1 DEF Alive, Points
<1> QED
  BY <1>3, <1>4, <1>5, <1>6, <1>7 DEF Step

(* Every accepted job ends after a number of steps known when it is        *)
(* accepted, for any faults and any answers of its callback: the half of   *)
(* JobConcludes that needs no fairness (_deliver, deliver).                *)
THEOREM JobsEnd == Safe => JobsRunOut
<1> DEFINE at(j) == <<pc[j], attempt[j], timer[j]>>
           Runs(j) == /\ Left(j)' \in 0..Left(j)
                      /\ at(j)' # at(j) => Left(j)' < Left(j)
<1>1. ASSUME IInv, IInv', [Next]_vars, NEW j \in Work, pc[j] \in Alive
      PROVE  Runs(j)
  <2>1. /\ pc \in [Work -> Points] /\ attempt \in [Work -> 0..MaxAttempts]
        /\ timer \in [Work -> 0..MaxBackoff]
    BY <1>1 DEF IInv, TypeOK
  <2>2. Left(j) \in Nat /\ Left(j)' \in Nat
    <3>1. pc'[j] \in Points /\ attempt'[j] \in 0..MaxAttempts /\ timer'[j] \in 0..MaxBackoff
      BY <1>1 DEF IInv, TypeOK
    <3> QED
      BY <2>1, <3>1, RemainingShrinks, LeftIsRemaining
  <2>3. SUFFICES at(j)' = at(j) \/ Left(j)' < Left(j)
    <3>1. at(j)' = at(j) => Left(j)' = Left(j)
      BY LeftIsRemaining
    <3> QED
      BY <2>2, <3>1
  <2>4. ASSUME NEW k \in Work, k # j, Accept(k) \/ Step(k) PROVE at(j)' = at(j)
    <3>1. CASE Accept(k) \/ Respond(k) \/ Begin(k) \/ Complete(k) \/ Settle(k)
      BY <2>1, <2>4, <3>1 DEF Accept, Respond, Begin, Complete, Settle, Transaction, GoTo
    <3>2. CASE Answered(k)
      BY <2>1, <2>4, <3>2 DEF Answered, Deliver, GiveUp, Backoff, Abandon, Posted, GoTo
    <3>3. CASE Repost(k) \/ Mark(k) \/ Note(k)
      BY <2>1, <2>4, <3>3 DEF Repost, Mark, Note, Transaction, GoTo
    <3> QED
      BY <2>4, <3>1, <3>2, <3>3 DEF Step
  <2>5. CASE Step(j)
    BY <1>1, <2>5, OwnStepShrinks
  <2>6. CASE Tick
    <3>1. /\ pc'[j] = pc[j] /\ attempt'[j] = attempt[j]
          /\ timer'[j] = IF timer[j] > 0 THEN timer[j] - 1 ELSE 0
      BY <2>6 DEF Tick
    <3>2. /\ attempt[j] \in 0..MaxAttempts /\ timer[j] \in 0..MaxBackoff
          /\ pc[j] # "waiting" => timer[j] = 0
      BY <1>1, <2>1 DEF IInv, Shape, CoroutineFits
    <3>3. CASE timer[j] = 0
      BY <3>1, <3>3
    <3>4. CASE timer[j] # 0
      <4>1. pc[j] = "waiting" /\ timer[j] > 0 /\ timer'[j] = timer[j] - 1
        BY <3>1, <3>2, <3>4
      <4> QED
        BY <3>1, <3>2, <4>1, RemainingShrinks, LeftIsRemaining
    <3> QED
      BY <3>3, <3>4
  <2>7. CASE Crash
    <3>1. pc'[j] = "lost"
      BY <1>1, <2>1, <2>7 DEF Crash
    <3>2. Left(j)' = 0
      BY <3>1, LeftIsRemaining DEF Remaining
    <3> QED
      BY <1>1, <2>1, <3>2, RemainingShrinks, LeftIsRemaining
  <2>8. ~Accept(j)
    BY <1>1 DEF Accept, Alive
  <2>9. CASE UNCHANGED vars
    BY <2>9 DEF vars, task
  <2> QED
    BY <1>1, <2>4, <2>5, <2>6, <2>7, <2>8, <2>9 DEF Next
<1>2. IInv /\ IInv' /\ [Next]_vars => [\A j \in Work : pc[j] \in Alive => Runs(j)]_vars
  BY <1>1
<1> QED
  BY <1>2, Invariance, PTL DEF Safe, JobsRunOut

-----------------------------------------------------------------------------
(* What a job comes to: the callback hears nothing before the outcome is   *)
(* in the row and only that afterwards, and a coroutine that is done has   *)
(* made its last update.  Only faults end it in another way.               *)
Failed == {"refused", "raised", "logged"}

Concluding(j) ==
    /\ pc[j] \in {"new", "accepted", "queued", "completing", "settling"} => heard[j] = {}
    /\ heard[j] \subseteq {status[j]}
    /\ delivered[j] => heard[j] # {}
    /\ pc[j] = "done" => /\ status[j] \in FinalStatuses
                         /\ recorded[j] = attempt[j] /\ attempt[j] > 0
    /\ Faults = {} => pc[j] \notin Failed

LEMMA ConcludingStep ==
    ASSUME IInv, [Next]_vars, \A j \in Work : Concluding(j)
    PROVE  \A j \in Work : Concluding(j)'
<1>1. /\ TypeOK
      /\ \A j \in Work : Concluding(j) /\ Shape(j)
  BY DEF IInv
<1>2. ASSUME NEW j \in Work, NEW k \in Work, k # j, Accept(k) \/ Step(k)
      PROVE  Concluding(j)'
  <2>1. CASE Accept(k) \/ Respond(k) \/ Begin(k) \/ Complete(k) \/ Settle(k)
    BY <1>1, <1>2, <2>1 DEF Accept, Respond, Begin, Complete, Settle, Transaction, GoTo,
                            SetStatus, row, TypeOK, Concluding
  <2>2. CASE Answered(k)
    <3>1. /\ pc'[j] = pc[j] /\ heard'[j] = heard[j]
          /\ UNCHANGED <<status, recorded, delivered, attempt>>
      BY <1>1, <1>2, <2>2 DEF Answered, Deliver, GiveUp, Backoff, Abandon, Posted, GoTo,
                              row, TypeOK
    <3> QED
      BY <1>1, <3>1 DEF Concluding
  <2>3. CASE Repost(k) \/ Mark(k) \/ Note(k)
    BY <1>1, <1>2, <2>3 DEF Repost, Mark, Note, Transaction, GoTo, row, TypeOK, Concluding
  <2> QED
    BY <1>2, <2>1, <2>2, <2>3 DEF Step
<1>3. ASSUME NEW j \in Work, Accept(j) \/ Step(j)
      PROVE  Concluding(j)'
  <2>1. CASE Accept(j) \/ Respond(j) \/ Begin(j) \/ Complete(j) \/ Settle(j)
    <3>1. heard[j] = {} /\ heard' = heard /\ ~delivered[j] /\ delivered' = delivered
      BY <1>1, <2>1 DEF Accept, Respond, Begin, Complete, Settle, Transaction, SetStatus, row,
                        Concluding
    <3>2. pc'[j] \in Points \ {"done"} /\ (Faults = {} => pc'[j] \notin Failed)
      BY <1>1, <2>1 DEF Accept, Respond, Begin, Complete, Settle, Transaction, GoTo, TypeOK,
                        Points, Failed
    <3> QED
      BY <3>1, <3>2 DEF Concluding
  <2>2. CASE Answered(j)
    <3>1. /\ status[j] = outcome[j] /\ ~delivered[j]
          /\ UNCHANGED <<status, delivered>>
          /\ heard'[j] \subseteq heard[j] \cup {outcome[j]}
      BY <1>1, <2>2 DEF Answered, Deliver, GiveUp, Backoff, Abandon, Posted, row, TypeOK,
                        Shape, RowFits, Sending, Alive, Points
    <3>2. /\ pc'[j] \in {"marking", "noting", "waiting", "logged"}
          /\ Faults = {} => pc'[j] # "logged"
      BY <1>1, <2>2 DEF Answered, Deliver, GiveUp, Backoff, Abandon, GoTo, TypeOK
    <3> QED
      BY <1>1, <3>1, <3>2 DEF Concluding, Failed
  <2>3. CASE Repost(j)
    BY <1>1, <2>3 DEF Repost, GoTo, row, TypeOK, Concluding, Failed
  <2>4. CASE Mark(j) \/ Note(j)
    <3>1. /\ status[j] \in FinalStatuses /\ attempt[j] > 0 /\ ~delivered[j]
          /\ pc[j] = "marking" => heard[j] # {}
      BY <1>1, <2>4 DEF Mark, Note, Shape, RowFits, CoroutineFits, Sending, Alive, Points
    <3>2. CASE Mark(j)
      BY <1>1, <3>1, <3>2 DEF Mark, Transaction, GoTo, TypeOK, row, Concluding, Failed
    <3>3. CASE Note(j)
      BY <1>1, <3>1, <3>3 DEF Note, Transaction, GoTo, TypeOK, row, Concluding, Failed
    <3> QED
      BY <2>4, <3>2, <3>3
  <2> QED
    BY <1>3, <2>1, <2>2, <2>3, <2>4 DEF Step
<1>4. ASSUME NEW j \in Work, Tick \/ Crash \/ UNCHANGED vars
      PROVE  Concluding(j)'
  BY <1>1, <1>4 DEF Tick, Crash, vars, task, row, TypeOK, Concluding, Alive, Points, Failed
<1> QED
  BY <1>2, <1>3, <1>4 DEF Next

(* The other half of JobConcludes: whatever the callback answers, whatever *)
(* faults and crashes there are, a job whose coroutine has come to its end *)
(* is concluded; and without faults none is refused and none ends in an    *)
(* exception (run, _execute, _deliver).                                    *)
EndsWell(j) ==
    /\ pc[j] = "done" => Concluded(j)
    /\ Faults = {} => pc[j] \notin Failed

THEOREM JobsConclude == Safe => [](\A j \in Work : EndsWell(j))
<1> DEFINE Going == \A j \in Work : Concluding(j)
<1>1. Init => Going
  BY DEF Init, Concluding, Failed
<1>2. IInv /\ Going /\ [Next]_vars => Going'
  BY ConcludingStep
<1>3. Going => \A j \in Work : EndsWell(j)
  BY DEF Concluding, Concluded, EndsWell
<1> QED
  BY <1>1, <1>2, <1>3, Invariance, PTL DEF Safe

=============================================================================
