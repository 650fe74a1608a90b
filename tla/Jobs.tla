-------------------------------- MODULE Jobs --------------------------------
(***************************************************************************)
(* JobService (services/jobs.py) with its rows (repositories/jobs.py) and  *)
(* WebhookService (services/webhooks.py): a job is accepted with a 202,    *)
(* run by a background task of the process that accepted it, and its       *)
(* outcome POSTed to the caller's callback.                                *)
(*                                                                         *)
(* What survives the process is the row.  Each repository operation is a   *)
(* transaction of its own, so it is one action; it may fail, before the    *)
(* commit or after it with only the acknowledgement lost.  The process may *)
(* die between any two actions, and nothing picks its jobs up again.  The  *)
(* completion itself is CompletionService.complete, here any of its        *)
(* outcomes.                                                               *)
(***************************************************************************)
EXTENDS RetryPolicy   \* the webhook_retry of factory.py

CONSTANTS Work,       \* jobs
          Faults,     \* which of FaultKinds may happen
          MaxCrashes  \* bound: crashes of the process

(* A repository operation fails; complete() raises something that is not   *)
(* an AppError; so does the callback's POST; the caller has no API key of  *)
(* ours (REQUIRE_API_KEY=false).                                           *)
FaultKinds == {"database", "completion", "callback", "anonymous"}

ASSUME JobsAssumption ==
    /\ Faults \subseteq FaultKinds
    /\ MaxCrashes \in Nat

VARIABLES
    status,     \* the row: status, "none" without a row
    recorded,   \* the row: delivery_attempts
    delivered,  \* the row: delivered_at is set
    told,       \* the caller has a 202 with the id
    pc,         \* where the job's coroutine is
    outcome,    \* of complete(), then the payload's status
    attempt,    \* POSTs to the callback, the `attempts` of deliver
    elapsed,    \* clock() - run()'s started
    timer,      \* what is left of the backoff
    heard,      \* the callback: payload statuses it has accepted
    crashes     \* crashes so far

row  == <<status, recorded, delivered>>
task == <<pc, outcome, attempt, elapsed, timer>>
vars == <<row, told, task, heard, crashes>>

FinalStatuses == {"succeeded", "failed"}
Statuses      == {"none", "pending", "running"} \cup FinalStatuses
NotYet        == "none"

(* "raised": the background task ended with an exception; "logged": with   *)
(* one that _deliver has logged; "lost": with the process.                 *)
Points == { "new", "refused", "accepted", "queued", "completing", "settling",
            "posting", "waiting", "marking", "noting", "done", "logged", "raised", "lost" }
Alive  == Points \ {"new", "refused", "done", "logged", "raised", "lost"}

TypeOK ==
    /\ status \in [Work -> Statuses]
    /\ recorded \in [Work -> 0..MaxAttempts]
    /\ delivered \in [Work -> BOOLEAN]
    /\ told \in [Work -> BOOLEAN]
    /\ pc \in [Work -> Points]
    /\ outcome \in [Work -> FinalStatuses \cup {NotYet}]
    /\ attempt \in [Work -> 0..MaxAttempts]
    /\ elapsed \in [Work -> 0..(Budget + 1)]
    /\ timer \in [Work -> 0..MaxBackoff]
    /\ heard \in [Work -> SUBSET FinalStatuses]
    /\ crashes \in 0..MaxCrashes

Init ==
    /\ status = [j \in Work |-> "none"]
    /\ recorded = [j \in Work |-> 0]
    /\ delivered = [j \in Work |-> FALSE]
    /\ told = [j \in Work |-> FALSE]
    /\ pc = [j \in Work |-> "new"]
    /\ outcome = [j \in Work |-> NotYet]
    /\ attempt = [j \in Work |-> 0]
    /\ elapsed = [j \in Work |-> 0]
    /\ timer = [j \in Work |-> 0]
    /\ heard = [j \in Work |-> {}]
    /\ crashes = 0

-----------------------------------------------------------------------------
(* Transactions.                                                           *)

GoTo(j, point) == pc' = [pc EXCEPT ![j] = point]

(* create and update: `change` is committed and the coroutine goes on, or  *)
(* the operation raises and it goes to `failed`, the change made or not.   *)
Transaction(j, change, next, failed) ==
    \/ change /\ GoTo(j, next)
    \/ /\ "database" \in Faults
       /\ change \/ UNCHANGED row
       /\ GoTo(j, failed)

SetStatus(j, s) ==
    /\ status' = [status EXCEPT ![j] = s]
    /\ UNCHANGED <<recorded, delivered>>

-----------------------------------------------------------------------------
(* The request: accept, submit.                                            *)

(* With a fault: the 202 goes out whatever became of the INSERT.           *)
AcceptUnstored(j) ==
    /\ pc[j] = "new"
    /\ Transaction(j, SetStatus(j, "pending"), "accepted", "accepted")
    /\ UNCHANGED <<told, outcome, attempt, elapsed, timer, heard, crashes>>

(* create: the row is committed before the 202.  The anonymous caller has  *)
(* no api_key row for the foreign key, so its INSERT always fails and the  *)
(* caller gets a 500.                                                      *)
Accept(j) ==
    /\ pc[j] = "new"
    /\ \/ Transaction(j, SetStatus(j, "pending"), "accepted", "refused")
       \/ "anonymous" \in Faults /\ GoTo(j, "refused") /\ UNCHANGED row
    /\ UNCHANGED <<told, outcome, attempt, elapsed, timer, heard, crashes>>

(* The 202 goes out; the background task is next.                          *)
Respond(j) ==
    /\ pc[j] = "accepted"
    /\ told' = [told EXCEPT ![j] = TRUE]
    /\ GoTo(j, "queued")
    /\ UNCHANGED <<row, outcome, attempt, elapsed, timer, heard, crashes>>

-----------------------------------------------------------------------------
(* The background task: run, _execute, _deliver.                           *)

Begin(j) ==
    /\ pc[j] = "queued"
    /\ Transaction(j, SetStatus(j, "running"), "completing", "raised")
    /\ UNCHANGED <<told, outcome, attempt, elapsed, timer, heard, crashes>>

(* complete() returns, raises an AppError, or something else, which        *)
(* _execute does not catch.                                                *)
Complete(j) ==
    /\ pc[j] = "completing"
    /\ \/ /\ \E s \in FinalStatuses : outcome' = [outcome EXCEPT ![j] = s]
          /\ GoTo(j, "settling")
       \/ /\ "completion" \in Faults
          /\ GoTo(j, "raised")
          /\ UNCHANGED outcome
    /\ UNCHANGED <<row, told, attempt, elapsed, timer, heard, crashes>>

(* With a fault: the payload is sent although the outcome was not written. *)
SettleRegardless(j) ==
    /\ pc[j] = "settling"
    /\ Transaction(j, SetStatus(j, outcome[j]), "posting", "posting")
    /\ attempt' = [attempt EXCEPT ![j] = 1]
    /\ UNCHANGED <<told, outcome, elapsed, timer, heard, crashes>>

(* The outcome is written, and the first POST of its payload starts.       *)
Settle(j) ==
    /\ pc[j] = "settling"
    /\ Transaction(j, SetStatus(j, outcome[j]), "posting", "raised")
    /\ attempt' = [attempt EXCEPT ![j] = IF pc'[j] = "posting" THEN 1 ELSE @]
    /\ UNCHANGED <<told, outcome, elapsed, timer, heard, crashes>>

(* What one POST comes to: accepted (any status below 400), accepted but   *)
(* with the answer lost, not reached, refused for now (429, 5xx), refused  *)
(* for good (any other 4xx), or an exception httpx does not class as a     *)
(* RequestError.                                                           *)
PostOutcomes == { "accepted", "answer_lost", "unreachable", "busy", "rejected",
                  "raises" }
Accepting    == {"accepted", "answer_lost"}
WorthRetry   == {"answer_lost", "unreachable", "busy"}

Posted(j, o) ==
    /\ pc[j] = "posting"
    /\ heard' = [heard EXCEPT ![j] = IF o \in Accepting THEN @ \cup {outcome[j]} ELSE @]
    /\ UNCHANGED <<row, told, outcome, attempt, crashes>>

Deliver(j) ==
    /\ Posted(j, "accepted")
    /\ GoTo(j, "marking")
    /\ UNCHANGED <<elapsed, timer>>

(* run()'s handler lets WebhookDeliveryFailed out.                         *)
GiveUp(j, o) ==
    /\ o \in WorthRetry \cup {"rejected"}
    /\ Posted(j, o)
    /\ \/ Final(o \in WorthRetry, attempt[j])
       \/ \E d \in BackoffDelays(attempt[j]) : OverBudget(elapsed[j], d)
    /\ GoTo(j, "noting")
    /\ UNCHANGED <<elapsed, timer>>

Backoff(j, o) ==
    /\ o \in WorthRetry
    /\ Posted(j, o)
    /\ ~Final(TRUE, attempt[j])
    /\ \E d \in BackoffDelays(attempt[j]) :
           /\ ~OverBudget(elapsed[j], d)
           /\ timer' = [timer EXCEPT ![j] = d]
    /\ GoTo(j, "waiting")
    /\ UNCHANGED elapsed

(* Any other exception is logged by _deliver, and that is the end of it.   *)
Abandon(j) ==
    /\ "callback" \in Faults
    /\ Posted(j, "raises")
    /\ GoTo(j, "logged")
    /\ UNCHANGED <<elapsed, timer>>

(* With a fault: only the first POST is counted.                           *)
RepostUncounted(j) ==
    /\ pc[j] = "waiting"
    /\ timer[j] = 0
    /\ GoTo(j, "posting")
    /\ UNCHANGED <<row, told, outcome, attempt, elapsed, timer, heard, crashes>>

Repost(j) ==
    /\ pc[j] = "waiting"
    /\ timer[j] = 0
    /\ attempt' = [attempt EXCEPT ![j] = @ + 1]
    /\ GoTo(j, "posting")
    /\ UNCHANGED <<row, told, outcome, elapsed, timer, heard, crashes>>

(* With a fault: delivered_at is written without the attempts.             *)
MarkWithoutAttempts(j) ==
    /\ pc[j] = "marking"
    /\ Transaction(j, /\ delivered' = [delivered EXCEPT ![j] = TRUE]
                      /\ UNCHANGED <<status, recorded>>,
                   "done", "logged")
    /\ UNCHANGED <<told, outcome, attempt, elapsed, timer, heard, crashes>>

(* The last update.  After a delivery it is inside the try whose handler   *)
(* logs a failure; after a failed one it is in a handler, and a failure    *)
(* escapes.                                                                *)
Mark(j) ==
    /\ pc[j] = "marking"
    /\ Transaction(j, /\ recorded' = [recorded EXCEPT ![j] = attempt[j]]
                      /\ delivered' = [delivered EXCEPT ![j] = TRUE]
                      /\ UNCHANGED status,
                   "done", "logged")
    /\ UNCHANGED <<told, outcome, attempt, elapsed, timer, heard, crashes>>

(* With a fault: an undelivered job is not written to at all.              *)
NoteNothing(j) ==
    /\ pc[j] = "noting"
    /\ GoTo(j, "done")
    /\ UNCHANGED <<row, told, outcome, attempt, elapsed, timer, heard, crashes>>

Note(j) ==
    /\ pc[j] = "noting"
    /\ Transaction(j, /\ recorded' = [recorded EXCEPT ![j] = attempt[j]]
                      /\ UNCHANGED <<status, delivered>>,
                   "done", "raised")
    /\ UNCHANGED <<told, outcome, attempt, elapsed, timer, heard, crashes>>

-----------------------------------------------------------------------------
(* The environment.                                                        *)

Tick ==
    /\ elapsed' = [j \in Work |-> IF pc[j] \in {"posting", "waiting"}
                                  THEN Older(elapsed[j]) ELSE elapsed[j]]
    /\ timer' = [j \in Work |-> IF timer[j] > 0 THEN timer[j] - 1 ELSE 0]
    /\ UNCHANGED <<row, told, pc, outcome, attempt, heard, crashes>>

(* The process dies with every coroutine in it.  A new one serves new      *)
(* submissions; it does not look for the jobs of the old one.              *)
Crash ==
    /\ crashes < MaxCrashes
    /\ crashes' = crashes + 1
    /\ pc' = [j \in Work |-> IF pc[j] \in Alive THEN "lost" ELSE pc[j]]
    /\ UNCHANGED <<row, told, outcome, attempt, elapsed, timer, heard>>

Answered(j) ==
    \/ Deliver(j)
    \/ \E o \in PostOutcomes : GiveUp(j, o) \/ Backoff(j, o)
    \/ Abandon(j)

Step(j) ==
    \/ Respond(j) \/ Begin(j) \/ Complete(j) \/ Settle(j)
    \/ Answered(j) \/ Repost(j) \/ Mark(j) \/ Note(j)

Next ==
    \/ \E j \in Work : Accept(j) \/ Step(j)
    \/ Tick
    \/ Crash

Safe == Init /\ [][Next]_vars

(* The loop runs what is ready, the clock runs, every POST times out and   *)
(* complete() always ends (Answered of Completion).                        *)
Spec == Safe /\ WF_vars(Tick) /\ \A j \in Work : WF_vars(Step(j))

-----------------------------------------------------------------------------
(* Properties.                                                             *)

Contract == INSTANCE JobContract WITH stage <- status, news <- heard, marked <- delivered

(* Through crashes, failed transactions and lost answers: the status a     *)
(* poller sees only moves forward and a final one stays, the callback      *)
(* never hears an outcome the row does not have, and delivered_at is only  *)
(* set for a job the callback accepted (JobContract).                      *)
KeepsContract == Contract!JobSpec

(* "an id we hand out must be one the caller can look up, even if the      *)
(* process dies before the work starts" (accept).                          *)
AcceptedIsStored == \A j \in Work : told[j] => status[j] # "none"

(* The column tells how hard delivery was tried: never more than it was,   *)
(* never more than the policy allows, and a delivered job was tried at     *)
(* least once (deliver's `attempts`, delivery_attempts).                   *)
AttemptsHonest ==
    \A j \in Work : /\ recorded[j] <= attempt[j]
                    /\ attempt[j] <= MaxAttempts
                    /\ delivered[j] => recorded[j] = attempt[j] /\ attempt[j] > 0

(* How much is left of a job, at most: of every attempt a POST and a wait  *)
(* that runs down, before them the stages of run, after them one update.   *)
Left(j) ==
    LET round == MaxBackoff + 2
    IN  CASE pc[j] = "accepted"   -> (MaxAttempts + 1) * round + 3
          [] pc[j] = "queued"     -> (MaxAttempts + 1) * round + 2
          [] pc[j] = "completing" -> (MaxAttempts + 1) * round + 1
          [] pc[j] = "settling"   -> (MaxAttempts + 1) * round
          [] pc[j] = "posting"    -> (MaxAttempts - attempt[j] + 1) * round
          [] pc[j] = "waiting"    -> (MaxAttempts - attempt[j]) * round + timer[j] + 1
          [] pc[j] \in {"marking", "noting"} -> 1
          [] OTHER -> 0

(* Whatever the callback answers and whatever fails, no step of an         *)
(* accepted job goes round in a circle: each uses up some of what is left, *)
(* and neither the clock nor other jobs give any of it back (_deliver,     *)
(* deliver).                                                               *)
JobsRunOut ==
    [][\A j \in Work : pc[j] \in Alive =>
           /\ Left(j)' \in 0..Left(j)
           /\ <<pc[j], attempt[j], timer[j]>>' # <<pc[j], attempt[j], timer[j]>>
              => Left(j)' < Left(j)]_vars

(* What a job comes to if nothing fails: a final status, at least one POST *)
(* to its callback, and a row that says how often and with what success.   *)
Concluded(j) ==
    /\ status[j] \in FinalStatuses
    /\ recorded[j] = attempt[j] /\ attempt[j] > 0
    /\ delivered[j] => heard[j] = {status[j]}

(* Every accepted job is concluded in the end, whatever its receiver       *)
(* answers and whatever befalls other jobs, unless a crash or a failure in *)
(* its own run ends it.                                                    *)
JobConcludes ==
    \A j \in Work : told[j] ~> Concluded(j) \/ pc[j] \in {"logged", "raised", "lost"}

(* "Nothing here may raise" (run).                                         *)
NothingRaises == \A j \in Work : pc[j] # "raised"

=============================================================================
