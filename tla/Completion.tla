----------------------------- MODULE Completion -----------------------------
(***************************************************************************)
(* CompletionService.complete (services/completion.py) with the two        *)
(* process-wide objects every call shares: the RetryPolicy and the         *)
(* CircuitBreaker (services/resilience.py).                                *)
(*                                                                         *)
(* The process is one event loop, so everything between two awaits is one  *)
(* action.  A call awaits in three places: the POST to the provider        *)
(* ("posted"), the sleep between two attempts ("sleeping") and the write   *)
(* of its usage row ("recording").  Whatever other calls do to the breaker *)
(* meanwhile is the difficulty: a call is admitted in one state of the     *)
(* breaker and reports its result to another.                              *)
(*                                                                         *)
(* Time is a count of ticks.  `clock() - _opened_at`, `clock() - started`  *)
(* and the remaining sleep are kept as ages and timers, each saturating    *)
(* where the code stops telling values apart.  A due timer does not stop   *)
(* the clock: the loop may wake a call late.                               *)
(***************************************************************************)
EXTENDS RetryPolicy, Taxonomy

CONSTANTS Requests,       \* slots for concurrent calls of complete()
          Threshold,      \* failure_threshold
          Reset,          \* reset_timeout, in ticks
          FailureCap,     \* bound: where the failure count saturates
          AnswersSeen,    \* what the provider may come up with
          RequireApiKey,  \* REQUIRE_API_KEY
          UsageMayFail    \* the database may refuse a usage row

ASSUME BreakerAssumption ==
    /\ Threshold \in Nat \ {0}
    /\ Reset \in Nat \ {0}
    /\ FailureCap \in Nat
    /\ FailureCap > Threshold

ASSUME EnvironmentAssumption ==
    /\ AnswersSeen \subseteq Answers
    /\ RequireApiKey \in BOOLEAN
    /\ UsageMayFail \in BOOLEAN

VARIABLES
    state,        \* CircuitBreaker._state
    failures,     \* CircuitBreaker._failures
    sinceOpened,  \* clock() - CircuitBreaker._opened_at
    pc,           \* where each call is suspended
    keyed,        \* whether its caller came with an API key of ours
    attempt,      \* run()'s attempt
    elapsed,      \* clock() - run()'s started
    timer,        \* what is left of the sleep
    code,         \* what complete() returned or raised: "ok" or an error code
    row,          \* status_code of the usage row, NoRow without one
    healthy,      \* the provider's outage is over
    early,        \* the POSTs that were in flight when it ended
    waited,       \* history: the sum of the sleeps of the call
    trial         \* history: the POST in flight was let out of OPEN/HALF_OPEN

breaker  == <<state, failures, sinceOpened>>
calls    == <<pc, keyed, attempt, elapsed, timer, code, row>>
provider == <<healthy, early>>
history  == <<waited, trial>>
vars     == <<breaker, calls, provider, history>>

States == {"closed", "open", "half_open"}
Points == {"idle", "posted", "sleeping", "recording", "done"}
NoRow  == 0
NoCode == "none"

InRun(r) == pc[r] \in {"posted", "sleeping"}

TypeOK ==
    /\ state \in States
    /\ failures \in 0..FailureCap
    /\ sinceOpened \in 0..Reset
    /\ pc \in [Requests -> Points]
    /\ keyed \in [Requests -> BOOLEAN]
    /\ attempt \in [Requests -> 0..MaxAttempts]
    /\ elapsed \in [Requests -> 0..(Budget + 1)]
    /\ timer \in [Requests -> 0..MaxBackoff]
    /\ code \in [Requests -> Codes \cup {NoCode}]
    /\ row \in [Requests -> Nat]
    /\ healthy \in BOOLEAN
    /\ early \subseteq Requests
    /\ waited \in [Requests -> Nat]
    /\ trial \in [Requests -> BOOLEAN]

Init ==
    /\ state = "closed"
    /\ failures = 0
    /\ sinceOpened = Reset
    /\ pc = [r \in Requests |-> "idle"]
    /\ keyed = [r \in Requests |-> TRUE]
    /\ attempt = [r \in Requests |-> 0]
    /\ elapsed = [r \in Requests |-> 0]
    /\ timer = [r \in Requests |-> 0]
    /\ code = [r \in Requests |-> NoCode]
    /\ row = [r \in Requests |-> NoRow]
    /\ healthy = FALSE
    /\ early = {}
    /\ waited = [r \in Requests |-> 0]
    /\ trial = [r \in Requests |-> FALSE]

-----------------------------------------------------------------------------
(* The circuit breaker.                                                    *)

(* With a fault: an open circuit never tries again.                        *)
RefusingForEver == state = "open"

Refusing == state = "open" /\ sinceOpened < Reset

(* With a fault: the pause is not looked at.                               *)
BeforeCallDuringPause ==
    /\ state' = IF state = "open" THEN "half_open" ELSE state
    /\ UNCHANGED <<failures, sinceOpened>>

(* before_call, when it does not raise.  Only the first call out of OPEN   *)
(* moves the state; nothing counts the calls that follow it.               *)
BeforeCall ==
    /\ ~Refusing
    /\ state' = IF state = "open" THEN "half_open" ELSE state
    /\ UNCHANGED <<failures, sinceOpened>>

(* With a fault: success closes the circuit but keeps the count.           *)
RecordSuccessKeepingCount ==
    /\ state' = "closed"
    /\ UNCHANGED <<failures, sinceOpened>>

(* record_success: CLOSED from whatever state the breaker is in by now.    *)
RecordSuccess ==
    /\ state' = "closed"
    /\ failures' = 0
    /\ UNCHANGED sinceOpened

Counted == IF failures < FailureCap THEN failures + 1 ELSE failures

Trips == state = "half_open" \/ Counted >= Threshold

(* record_failure and _trip, which restarts the pause even when the        *)
(* circuit is open already.                                                *)
RecordFailure ==
    /\ failures' = Counted
    /\ state' = IF Trips THEN "open" ELSE state
    /\ sinceOpened' = IF Trips THEN 0 ELSE sinceOpened

-----------------------------------------------------------------------------
(* One call of complete().                                                 *)

(* run() is over: complete() goes on to _record the outcome.               *)
Conclude(r, outcome) ==
    /\ pc' = [pc EXCEPT ![r] = "recording"]
    /\ code' = [code EXCEPT ![r] = outcome]
    /\ elapsed' = [elapsed EXCEPT ![r] = 0]
    /\ timer' = [timer EXCEPT ![r] = 0]
    /\ waited' = [waited EXCEPT ![r] = 0]

(* An attempt starts: _guarded_call up to its await.                       *)
Post(r) ==
    /\ BeforeCall
    /\ pc' = [pc EXCEPT ![r] = "posted"]
    /\ trial' = [trial EXCEPT ![r] = state # "closed"]

(* With a fault: a refusal before the first attempt skips the usage row.   *)
RefuseUnrecorded(r) ==
    /\ Refusing
    /\ pc' = [pc EXCEPT ![r] = "done"]
    /\ code' = [code EXCEPT ![r] = "upstream_circuit_open"]
    /\ UNCHANGED <<breaker, elapsed, timer, history>>

(* With a fault: whoever asks during the pause starts it again.            *)
RefuseProlonging(r) ==
    /\ Refusing
    /\ Conclude(r, "upstream_circuit_open")
    /\ sinceOpened' = 0
    /\ UNCHANGED <<state, failures, trial>>

(* before_call raises UpstreamCircuitOpen, which no policy retries.        *)
Refuse(r) ==
    /\ Refusing
    /\ Conclude(r, "upstream_circuit_open")
    /\ UNCHANGED <<breaker, trial>>

(* complete() is called and its first attempt starts or is refused, with   *)
(* no await on the way.                                                    *)
Call(r) ==
    /\ pc[r] = "idle"
    /\ \E k \in IF RequireApiKey THEN {TRUE} ELSE BOOLEAN :
           keyed' = [keyed EXCEPT ![r] = k]
    /\ attempt' = [attempt EXCEPT ![r] = 1]
    /\ \/ Post(r) /\ UNCHANGED <<elapsed, timer, code, waited>>
       \/ Refuse(r)
    /\ UNCHANGED <<row, provider>>

(* With a fault: only the first attempt is counted.                        *)
WakeUncounted(r) ==
    /\ pc[r] = "sleeping"
    /\ timer[r] = 0
    /\ \/ Post(r) /\ UNCHANGED <<elapsed, timer, code, waited>>
       \/ Refuse(r)
    /\ UNCHANGED <<keyed, attempt, row, provider>>

(* The sleep is over and the next attempt starts or is refused.            *)
Wake(r) ==
    /\ pc[r] = "sleeping"
    /\ timer[r] = 0
    /\ attempt' = [attempt EXCEPT ![r] = @ + 1]
    /\ \/ Post(r) /\ UNCHANGED <<elapsed, timer, code, waited>>
       \/ Refuse(r)
    /\ UNCHANGED <<keyed, row, provider>>

(* The provider answered with a completion.                                *)
Succeed(r) ==
    /\ pc[r] = "posted"
    /\ "completion" \in AnswersSeen
    /\ RecordSuccess
    /\ Conclude(r, "ok")
    /\ trial' = [trial EXCEPT ![r] = FALSE]
    /\ early' = early \ {r}
    /\ UNCHANGED <<keyed, attempt, row, healthy>>

(* The attempt failed: the breaker is told if the error is retryable, and  *)
(* the error is then on its way to run()'s handler.  A POST that the       *)
(* outage caught may time out long after it is over.                       *)
Report(r, answer) ==
    /\ pc[r] = "posted"
    /\ answer \in AnswersSeen \ {"completion"}
    /\ healthy => r \in early
    /\ IF Retryable(answer) THEN RecordFailure ELSE UNCHANGED breaker
    /\ trial' = [trial EXCEPT ![r] = FALSE]
    /\ early' = early \ {r}
    /\ UNCHANGED <<keyed, row, attempt, healthy>>

(* delay_for an error the handler may retry.                               *)
Delays(r, answer) ==
    IF answer = "throttled_for" THEN {HintedDelay(h) : h \in Hints}
                                ELSE BackoffDelays(attempt[r])

(* run() gives up.  With a NaN for a delay neither side of the budget test *)
(* is ever true: Retry below has that case.                                *)
GiveUp(r, answer) ==
    /\ Report(r, answer)
    /\ \/ Final(Retryable(answer), attempt[r])
       \/ /\ answer # "throttled_nan"
          /\ \E d \in Delays(r, answer) : OverBudget(elapsed[r], d)
    /\ Conclude(r, CodeOf[answer])

(* run() sleeps before another attempt.                                    *)
Retry(r, answer) ==
    /\ Report(r, answer)
    /\ ~Final(Retryable(answer), attempt[r])
    /\ answer # "throttled_nan"
    /\ \E d \in Delays(r, answer) :
           /\ ~OverBudget(elapsed[r], d)
           /\ timer' = [timer EXCEPT ![r] = d]
           /\ waited' = [waited EXCEPT ![r] = @ + d]
    /\ pc' = [pc EXCEPT ![r] = "sleeping"]
    /\ UNCHANGED <<code, elapsed>>

(* asyncio.sleep refuses a NaN: the ValueError is no AppError, so          *)
(* complete() does not catch it, records nothing, and the caller is        *)
(* answered by the handler of unexpected errors.                           *)
Crash(r, answer) ==
    /\ Report(r, answer)
    /\ ~Final(Retryable(answer), attempt[r])
    /\ answer = "throttled_nan"
    /\ pc' = [pc EXCEPT ![r] = "done"]
    /\ code' = [code EXCEPT ![r] = "internal_error"]
    /\ elapsed' = [elapsed EXCEPT ![r] = 0]
    /\ waited' = [waited EXCEPT ![r] = 0]
    /\ UNCHANGED timer

(* With a fault: complete() insists on writing the row.                    *)
RecordOrWait(r) ==
    /\ pc[r] = "recording"
    /\ keyed[r]
    /\ row' = [row EXCEPT ![r] = StatusOf[code[r]]]
    /\ pc' = [pc EXCEPT ![r] = "done"]
    /\ UNCHANGED <<breaker, keyed, attempt, elapsed, timer, code, provider, history>>

(* With a fault: every row says 200.                                       *)
RecordServed(r) ==
    /\ pc[r] = "recording"
    /\ \/ keyed[r] /\ row' = [row EXCEPT ![r] = StatusOf["ok"]]
       \/ (UsageMayFail \/ ~keyed[r]) /\ UNCHANGED row
    /\ pc' = [pc EXCEPT ![r] = "done"]
    /\ UNCHANGED <<breaker, keyed, attempt, elapsed, timer, code, provider, history>>

(* _record: the row is committed, or the write fails and is logged.  The   *)
(* anonymous caller has no api_key row for the foreign key to reference,   *)
(* so its usage rows are always refused.                                   *)
Record(r) ==
    /\ pc[r] = "recording"
    /\ \/ keyed[r] /\ row' = [row EXCEPT ![r] = StatusOf[code[r]]]
       \/ (UsageMayFail \/ ~keyed[r]) /\ UNCHANGED row
    /\ pc' = [pc EXCEPT ![r] = "done"]
    /\ UNCHANGED <<breaker, keyed, attempt, elapsed, timer, code, provider, history>>

(* complete() has returned or raised; the slot is free for another call.   *)
Finish(r) ==
    /\ pc[r] = "done"
    /\ pc' = [pc EXCEPT ![r] = "idle"]
    /\ keyed' = [keyed EXCEPT ![r] = TRUE]
    /\ attempt' = [attempt EXCEPT ![r] = 0]
    /\ code' = [code EXCEPT ![r] = NoCode]
    /\ row' = [row EXCEPT ![r] = NoRow]
    /\ UNCHANGED <<breaker, elapsed, timer, provider, history>>

-----------------------------------------------------------------------------
(* The environment.                                                        *)

Tick ==
    /\ sinceOpened' = IF sinceOpened < Reset THEN sinceOpened + 1 ELSE sinceOpened
    /\ elapsed' = [r \in Requests |-> IF InRun(r) THEN Older(elapsed[r])
                                                  ELSE elapsed[r]]
    /\ timer' = [r \in Requests |-> IF timer[r] > 0 THEN timer[r] - 1 ELSE 0]
    /\ UNCHANGED <<state, failures, pc, keyed, attempt, code, row, provider, history>>

(* The outage is over: every POST from now on is answered with a           *)
(* completion, and those in flight in whatever way.                        *)
Heal ==
    /\ ~healthy
    /\ healthy' = TRUE
    /\ early' = {r \in Requests : pc[r] = "posted"}
    /\ UNCHANGED <<breaker, calls, history>>

Answer(r) ==
    \/ Succeed(r)
    \/ \E answer \in AnswersSeen :
           GiveUp(r, answer) \/ Retry(r, answer) \/ Crash(r, answer)

Next ==
    \/ \E r \in Requests :
           Call(r) \/ Wake(r) \/ Answer(r) \/ Record(r) \/ Finish(r)
    \/ Tick
    \/ Heal

Safe == Init /\ [][Next]_vars

(* The clock runs, the loop resumes what is due, and httpx's timeouts end  *)
(* every POST one way or another.                                          *)
Fairness ==
    /\ WF_vars(Tick)
    /\ \A r \in Requests : /\ WF_vars(Answer(r))
                           /\ WF_vars(Wake(r))
                           /\ WF_vars(Record(r))
                           /\ WF_vars(Finish(r))

Spec == Safe /\ Fairness

(* The same with callers that keep asking.                                 *)
BusySpec == Spec /\ \A r \in Requests : WF_vars(Call(r))

-----------------------------------------------------------------------------
(* Properties.                                                             *)

Contract == INSTANCE CircuitContract WITH
    Calls    <- Requests,
    mode     <- state,
    cooled   <- state = "open" /\ sinceOpened >= Reset,
    inflight <- {r \in Requests : pc[r] = "posted"}

(* The breaker, with its counter, its clock and the retrying calls around  *)
(* it, does what CircuitContract promises: no call is admitted during the  *)
(* pause, results count in the mode they arrive in, a failed trial always  *)
(* reopens the circuit, and every pause ends.                              *)
KeepsContract == Contract!ContractSpec

Promise == INSTANCE CallContract WITH
    Calls      <- Requests,
    Outcomes   <- {CodeOf[a] : a \in AnswersSeen} \cup {"upstream_circuit_open"},
    Status     <- StatusOf,
    NoOutcome  <- NoCode,
    Unforeseen <- "internal_error",
    NoEntry    <- NoRow,
    phase      <- [r \in Requests |-> IF InRun(r) THEN "working"
                                      ELSE IF pc[r] = "recording" THEN "concluded"
                                      ELSE IF pc[r] = "done" THEN "over"
                                      ELSE "idle"],
    said       <- code,
    entry      <- row

(* Whatever the provider, the breaker, the retries and the database do to  *)
(* it, a call is to its caller what CallContract promises: Jobs and        *)
(* Sessions rely on no more than that (complete, _record).                 *)
KeepsPromise == Promise!CallSpec

(* The circuit is out of CLOSED exactly while the failures counted since   *)
(* the last success reach the threshold, whatever calls were admitted in   *)
(* one state and reported in another (record_success, record_failure): a   *)
(* failed trial needs no threshold of its own, and a circuit never stays   *)
(* open with a count a single failure would have to build up again.        *)
OpenIffFailing == (state # "closed") <=> (failures >= Threshold)

(* RETRY_BUDGET_SECONDS and RETRY_MAX_ATTEMPTS: a call never sleeps longer *)
(* in total than its budget, however late it is woken and however its      *)
(* hints and backoffs add up, and never POSTs more than max_attempts times *)
(* (run).                                                                  *)
BudgetKept ==
    \A r \in Requests : waited[r] <= Budget /\ attempt[r] <= MaxAttempts

(* How much is left of a call, at most: of every attempt a POST and a      *)
(* sleep that runs down, then the row.                                     *)
Left(r) ==
    LET rounds == (MaxAttempts - attempt[r]) * (MaxBackoff + 4)
    IN  CASE pc[r] = "posted"    -> rounds + MaxBackoff + 4
          [] pc[r] = "sleeping"  -> rounds + timer[r] + 3
          [] pc[r] = "recording" -> 1
          [] OTHER               -> 0

(* The reason why every call ends (Answered), and why it does so after a   *)
(* number of steps known from the start: it uses up what is left of it,    *)
(* and nothing others do, no state of the breaker and no passing of time   *)
(* gives it back (run's loop).                                             *)
CallsRunOut ==
    [][\A r \in Requests : pc[r] \notin {"idle", "done"} =>
           /\ Left(r)' \in 0..Left(r)
           /\ <<pc[r], attempt[r], timer[r]>>' # <<pc[r], attempt[r], timer[r]>>
              => Left(r)' < Left(r)]_vars

(* What is left until the circuit is closed: the rest of the pause, a call *)
(* that finds it over, a success.                                          *)
ToClose == CASE state = "closed"    -> 0
             [] state = "half_open" -> 1
             [] state = "open"      -> 2 + (Reset - sinceOpened)

(* The reason why the circuit closes once the provider is healthy, and for *)
(* good (Recovers): only the answer to a POST that the outage caught can   *)
(* take it further from CLOSED, each once, and they get no more.  The      *)
(* calls it refuses meanwhile must not prolong the pause, and no call let  *)
(* through since reopens it (before_call, record_success).                 *)
NothingSetsBack ==
    [][healthy => /\ early' \subseteq early
                  /\ early' = early => ToClose' \in 0..ToClose]_vars

(* Every call leaves exactly the usage row that tells what its caller was  *)
(* told, retries, refusals and failures included (complete, _record;       *)
(* models/tables.py, "One row per request, successful or not").            *)
RowTellsAnswer ==
    \A r \in Requests : pc[r] = "done" => row[r] = StatusOf[code[r]]

(* The diagram of the state machine (docs/index.html) has one way out of   *)
(* OPEN: the reset timeout has elapsed and a trial starts.                 *)
OpenOnlyLeadsToTrial ==
    [][state = "open" => state' \in {"open", "half_open"}]_vars

(* "Exactly one request is let through to test the water"                  *)
(* (docs/index.html): while HALF_OPEN at most one trial is in flight.      *)
AtMostOneTrial ==
    state = "half_open" =>
        \A q, r \in Requests : /\ pc[q] = "posted" /\ trial[q]
                               /\ pc[r] = "posted" /\ trial[r] => q = r

(* Once the provider is healthy again, callers that keep asking close the  *)
(* circuit and it stays closed: no state of the breaker keeps a healthy    *)
(* provider shut out, and neither do the POSTs that the outage caught,     *)
(* though they may still time out, reopen a half-open circuit, restart the *)
(* pause of an open one or trip a closed one (record_failure, _trip).      *)
Recovers == healthy ~> [](state = "closed")

(* Every call that POSTs is answered: retries, refusals by a circuit that  *)
(* opened meanwhile and lost usage rows all end it.                        *)
Answered == \A r \in Requests : pc[r] = "posted" ~> pc[r] = "done"

=============================================================================
