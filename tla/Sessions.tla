------------------------------ MODULE Sessions ------------------------------
(***************************************************************************)
(* A request and its database session, from authentication to the end of   *)
(* the transaction: get_session, AuthenticationService, find_by_hash, the  *)
(* endpoints, and what they compete for.                                   *)
(*                                                                         *)
(* A session takes a connection from the pool for its first statement and  *)
(* keeps it to the end of the request.  Usage and job rows are written and *)
(* read over a second connection, for one statement each.  find_by_hash    *)
(* updates the key's row, so Postgres locks that row for everybody else    *)
(* who wants to update it until the request's transaction ends; the        *)
(* foreign keys of usage and job only take a share lock, which does not    *)
(* conflict.  FastAPI leaves a dependency with yield after the response is *)
(* sent, hence after the background tasks, which are part of sending it;   *)
(* after an exception it leaves it before the handlers answer.             *)
(*                                                                         *)
(* A wait for a connection ends after the pool's timeout; a wait for the   *)
(* row has none.  What the provider answers and the rate limiter decides   *)
(* is any of what Completion and RateLimiter allow.                        *)
(***************************************************************************)
EXTENDS Responses, FiniteSets

CONSTANTS Requests, Keys,
          NoKey,          \* the request has no Authorization header
          PoolSize,       \* pool_size + max_overflow of the engine
          RequireApiKey,  \* settings.REQUIRE_API_KEY
          ProviderCodes,  \* what complete() may come to
          Faults          \* which of FaultKinds may happen

(* A statement or a commit fails; complete() raises something that is not  *)
(* an AppError.                                                            *)
FaultKinds == {"database", "completion"}

ASSUME SessionsAssumption ==
    /\ NoKey \notin Keys
    /\ PoolSize \in Nat \ {0}
    /\ RequireApiKey \in BOOLEAN
    /\ ProviderCodes \subseteq {CodeOf[a] : a \in Answers} \cup {"upstream_circuit_open"}
    /\ Faults \subseteq FaultKinds

VARIABLES
    keyState,  \* the api_key rows: no row, revoked_at null, revoked_at set
    kind,      \* the endpoint of a request
    key,       \* the key it presents
    pc,        \* where its coroutine is
    outcome,   \* what its endpoint, or complete(), has come to
    stash,     \* request.state.response_headers
    sent,      \* its response
    pool,      \* the requests whose session holds a connection
    locked,    \* the requests whose transaction has updated their key's row
    stamped,   \* the requests whose last_used_at is committed
    usage,     \* the requests with a usage row
    jobs,      \* the status of the job a request submitted
    spent,     \* history: the requests that were charged a token
    barred,    \* history: the requests whose key was revoked when they came
    hurt       \* history: the requests that a fault or a timeout hit

session == <<pool, locked, stamped>>
rows    == <<usage, jobs>>
arrival == <<kind, key, barred>>
vars    == <<keyState, arrival, pc, outcome, stash, sent, session, rows, spent, hurt>>

Kinds     == {"complete", "submit", "show", "ready"}
Limited   == {"complete", "submit"}
KeyStates == {"unknown", "live", "revoked"}
Final     == {"succeeded", "failed"}

(* "leaving" is the commit at the end of get_session, "failing" its        *)
(* rollback.                                                               *)
Serving == { "calling", "recording", "storing", "reading", "answering", "queued",
             "settling", "noting", "leaving" }
Points  == Serving \cup { "idle", "connecting", "stamping", "probing", "checking",
                          "failing", "done" }

TypeOK ==
    /\ keyState \in [Keys -> KeyStates]
    /\ kind \in [Requests -> Kinds]
    /\ key \in [Requests -> Keys \cup {NoKey}]
    /\ pc \in [Requests -> Points]
    /\ outcome \in [Requests -> Outcomes]
    /\ stash \in [Requests -> SUBSET HeaderNames]
    /\ sent \in [Requests -> Outcomes \cup {Unsent}]
    /\ pool \subseteq Requests /\ locked \subseteq Requests /\ stamped \subseteq Requests
    /\ usage \subseteq Requests
    /\ jobs \in [Requests -> {"none", "pending", "running"} \cup Final]
    /\ spent \subseteq Requests /\ barred \subseteq Requests /\ hurt \subseteq Requests

Init ==
    /\ keyState \in [Keys -> KeyStates]
    /\ kind = [r \in Requests |-> "complete"]
    /\ key = [r \in Requests |-> NoKey]
    /\ pc = [r \in Requests |-> "idle"]
    /\ outcome = [r \in Requests |-> Return("ok")]
    /\ stash = [r \in Requests |-> {}]
    /\ sent = [r \in Requests |-> Unsent]
    /\ pool = {} /\ locked = {} /\ stamped = {} /\ usage = {}
    /\ jobs = [r \in Requests |-> "none"]
    /\ spent = {} /\ barred = {} /\ hurt = {}

-----------------------------------------------------------------------------
(* The pool, the row lock, and transactions of their own.                  *)

GoTo(r, point) == pc' = [pc EXCEPT ![r] = point]

Raise(r, code) ==
    /\ \E e \in ErrorsOf(code) : outcome' = [outcome EXCEPT ![r] = e]
    /\ GoTo(r, "failing")

(* With a fault: a wait for a connection never ends.                       *)
WaitsForEver == FALSE

Free        == Cardinality(pool) < PoolSize
TimesOut    == ~Free
Connect(r)  == Free /\ pool' = pool \cup {r}
RowFree(k)  == \A s \in locked : key[s] # k

(* The statement fails, or there was no connection for it in time.         *)
Fault(r) ==
    /\ TimesOut \/ (Free /\ "database" \in Faults)
    /\ hurt' = hurt \cup {r}

(* `change` over a connection of its own.  A failed commit may have taken  *)
(* place all the same.                                                     *)
Commits(change) == Free /\ change /\ UNCHANGED hurt
Fails(r, change) ==
    /\ Fault(r)
    /\ (Free /\ change) \/ UNCHANGED rows

SetJob(r, s) == jobs' = [jobs EXCEPT ![r] = s] /\ UNCHANGED usage

-----------------------------------------------------------------------------
(* Arrival and authentication.                                             *)

(* What follows authentication without an await: the rate limiter and the  *)
(* validation of the body, where the endpoint `kd` has them, and the       *)
(* endpoint up to its first await.                                         *)
Refused(r, kd) ==
    /\ kd \in Limited
    /\ Raise(r, "rate_limit_exceeded")
    /\ UNCHANGED <<stash, spent>>

Charge(r) ==
    /\ spent' = spent \cup {r}
    /\ stash' = [stash EXCEPT ![r] = {"X-RateLimit"}]

Invalid(r, kd) == kd \in Limited /\ Charge(r) /\ Raise(r, "validation_error")

FirstAwait == [complete |-> "calling", submit |-> "storing", show |-> "reading"]

Admitted(r, kd) ==
    /\ IF kd \in Limited THEN Charge(r) ELSE UNCHANGED <<stash, spent>>
    /\ GoTo(r, FirstAwait[kd])
    /\ UNCHANGED outcome

Enter(r, kd) == Refused(r, kd) \/ Invalid(r, kd) \/ Admitted(r, kd)

Arriving(r, kd, k) ==
    /\ pc[r] = "idle"
    /\ kind' = [kind EXCEPT ![r] = kd]
    /\ key' = [key EXCEPT ![r] = k]
    /\ barred' = IF k \in Keys /\ keyState[k] = "revoked" THEN barred \cup {r} ELSE barred
    /\ UNCHANGED <<keyState, sent, session, rows, hurt>>

(* A body that is not JSON is refused before any dependency runs.          *)
ArriveMalformed(r) ==
    /\ \E kd \in Limited, k \in Keys \cup {NoKey} : Arriving(r, kd, k)
    /\ Raise(r, "validation_error")
    /\ UNCHANGED <<stash, spent>>

ArriveProbe(r) ==
    /\ Arriving(r, "ready", NoKey)
    /\ GoTo(r, "probing")
    /\ UNCHANGED <<outcome, stash, spent>>

ArriveWithKey(r) ==
    /\ \E kd \in DOMAIN FirstAwait, k \in Keys : Arriving(r, kd, k)
    /\ GoTo(r, "connecting")
    /\ UNCHANGED <<outcome, stash, spent>>

ArriveWithoutKey(r) ==
    \E kd \in DOMAIN FirstAwait :
        /\ Arriving(r, kd, NoKey)
        /\ IF RequireApiKey
           THEN Raise(r, "missing_credentials") /\ UNCHANGED <<stash, spent>>
           ELSE Enter(r, kd)

(* With a fault: revocation is not part of the query.                      *)
LookupUnrevoked(r) ==
    /\ pc[r] = "connecting"
    /\ Connect(r)
    /\ \/ keyState[key[r]] # "unknown" /\ GoTo(r, "stamping") /\ UNCHANGED outcome
       \/ keyState[key[r]] = "unknown" /\ Raise(r, "invalid_credentials")
    /\ UNCHANGED <<keyState, arrival, stash, sent, locked, stamped, rows, spent, hurt>>

(* find_by_hash: the SELECT, over the session's connection from now on.    *)
Lookup(r) ==
    /\ pc[r] = "connecting"
    /\ Connect(r)
    /\ \/ keyState[key[r]] = "live" /\ GoTo(r, "stamping") /\ UNCHANGED outcome
       \/ keyState[key[r]] # "live" /\ Raise(r, "invalid_credentials")
    /\ UNCHANGED <<keyState, arrival, stash, sent, locked, stamped, rows, spent, hurt>>

(* With a fault: the UPDATE is committed at once.                          *)
StampAtOnce(r) ==
    /\ pc[r] = "stamping"
    /\ RowFree(key[r])
    /\ stamped' = stamped \cup {r}
    /\ Enter(r, kind[r])
    /\ UNCHANGED <<keyState, arrival, sent, pool, locked, rows, hurt>>

(* find_by_hash: the UPDATE, once nobody else's transaction holds the row. *)
Stamp(r) ==
    /\ pc[r] = "stamping"
    /\ RowFree(key[r])
    /\ locked' = locked \cup {r}
    /\ Enter(r, kind[r])
    /\ UNCHANGED <<keyState, arrival, sent, pool, stamped, rows, hurt>>

LookupFails(r) ==
    /\ pc[r] = "connecting"
    /\ Fault(r)
    /\ Connect(r) \/ UNCHANGED pool
    /\ Raise(r, "internal_error")
    /\ UNCHANGED <<keyState, arrival, stash, sent, locked, stamped, rows, spent>>

(* The connection may be lost while the UPDATE waits for the row.          *)
StampFails(r) ==
    /\ pc[r] = "stamping"
    /\ "database" \in Faults
    /\ hurt' = hurt \cup {r}
    /\ Raise(r, "internal_error")
    /\ UNCHANGED <<keyState, arrival, stash, sent, session, rows, spent>>

-----------------------------------------------------------------------------
(* The endpoints.                                                          *)

(* complete() comes to an outcome; a bug ends it without a usage row.      *)
Complete(r) ==
    /\ pc[r] = "calling"
    /\ \/ \E code \in ProviderCodes :
              /\ \E o \in ErrorsOf(code) : outcome' = [outcome EXCEPT ![r] = o]
              /\ GoTo(r, "recording")
              /\ UNCHANGED hurt
       \/ /\ "completion" \in Faults
          /\ Raise(r, "internal_error")
          /\ hurt' = hurt \cup {r}
    /\ UNCHANGED <<keyState, arrival, stash, sent, session, rows, spent>>

AfterRecord(r) ==
    IF kind[r] = "submit" THEN "settling"
    ELSE IF outcome[r].code = "ok" THEN "answering"
    ELSE "failing"

(* _record: the foreign key refuses the row of the anonymous caller, and   *)
(* whatever goes wrong is only logged.                                     *)
Record(r) ==
    /\ pc[r] = "recording"
    /\ \/ key[r] # NoKey /\ Commits(usage' = usage \cup {r} /\ UNCHANGED jobs)
       \/ Fails(r, key[r] # NoKey /\ usage' = usage \cup {r} /\ UNCHANGED jobs)
       \/ key[r] = NoKey /\ Free /\ UNCHANGED <<rows, hurt>>
    /\ GoTo(r, AfterRecord(r))
    /\ UNCHANGED <<keyState, arrival, outcome, stash, sent, session, spent>>

(* create, for accept.                                                     *)
Store(r) ==
    /\ pc[r] = "storing"
    /\ \/ /\ key[r] # NoKey
          /\ Commits(SetJob(r, "pending"))
          /\ GoTo(r, "answering")
          /\ UNCHANGED outcome
       \/ /\ Fails(r, key[r] # NoKey /\ SetJob(r, "pending"))
          /\ Raise(r, "internal_error")
       \/ /\ key[r] = NoKey /\ Free
          /\ Raise(r, "internal_error")
          /\ UNCHANGED <<rows, hurt>>
    /\ UNCHANGED <<keyState, arrival, stash, sent, session, spent>>

(* get, for a job of the caller's or another.                              *)
Read(r) ==
    /\ pc[r] = "reading"
    /\ \/ Free /\ GoTo(r, "answering") /\ UNCHANGED <<outcome, hurt>>
       \/ Free /\ Raise(r, "job_not_found") /\ UNCHANGED hurt
       \/ Fault(r) /\ Raise(r, "internal_error")
    /\ UNCHANGED <<keyState, arrival, stash, sent, session, rows, spent>>

(* ready: _database_ok takes the session's connection, or gives up on it   *)
(* like on a database that does not answer; then _upstream_ok.             *)
Probe(r) ==
    /\ pc[r] = "probing"
    /\ \/ Connect(r) /\ UNCHANGED <<outcome, hurt>>
       \/ /\ Fault(r) /\ (Connect(r) \/ UNCHANGED pool)
          /\ outcome' = [outcome EXCEPT ![r] = Return("degraded")]
    /\ GoTo(r, "checking")
    /\ UNCHANGED <<keyState, arrival, stash, sent, locked, stamped, rows, spent>>

Check(r) ==
    /\ pc[r] = "checking"
    /\ \E o \in {outcome[r], Return("degraded")} : outcome' = [outcome EXCEPT ![r] = o]
    /\ GoTo(r, "answering")
    /\ UNCHANGED <<keyState, arrival, stash, sent, session, rows, spent, hurt>>

(* With a fault: get_session commits before the response is sent, as it    *)
(* would have under a FastAPI before 0.118.                                *)
RespondCommitted(r) ==
    /\ pc[r] = "answering"
    /\ sent' = [sent EXCEPT ![r] = Response(stash[r], outcome[r])]
    /\ pool' = pool \ {r} /\ locked' = locked \ {r}
    /\ stamped' = stamped \cup (locked \cap {r})
    /\ GoTo(r, IF kind[r] = "submit" THEN "queued" ELSE "leaving")
    /\ UNCHANGED <<keyState, arrival, outcome, stash, rows, spent, hurt>>

(* The endpoint has returned, and its response is sent.                    *)
Respond(r) ==
    /\ pc[r] = "answering"
    /\ sent' = [sent EXCEPT ![r] = Response(stash[r], outcome[r])]
    /\ GoTo(r, IF kind[r] = "submit" THEN "queued" ELSE "leaving")
    /\ UNCHANGED <<keyState, arrival, outcome, stash, session, rows, spent, hurt>>

-----------------------------------------------------------------------------
(* The background task of a submitted job: JobService.run.                 *)

(* An update of the row; its failure escapes the task.                     *)
Update(r, s, point) ==
    /\ \/ Commits(SetJob(r, s)) /\ GoTo(r, point) /\ UNCHANGED outcome
       \/ Fails(r, SetJob(r, s)) /\ Raise(r, "internal_error")
    /\ UNCHANGED <<keyState, arrival, stash, sent, session, spent>>

Begin(r) == pc[r] = "queued" /\ Update(r, "running", "calling")

(* With a fault: the row gets the code of the error, not a JobStatus.      *)
SettleByCode(r) == pc[r] = "settling" /\ Update(r, outcome[r].code, "noting")

(* With a fault: a job whose result could not be stored is done again.     *)
SettleAgain(r) ==
    /\ pc[r] = "settling"
    /\ LET s == IF outcome[r].code = "ok" THEN "succeeded" ELSE "failed"
       IN  \/ Commits(SetJob(r, s)) /\ GoTo(r, "noting")
           \/ Fails(r, SetJob(r, s)) /\ GoTo(r, "queued")
    /\ UNCHANGED <<keyState, arrival, outcome, stash, sent, session, spent>>

Settle(r) ==
    /\ pc[r] = "settling"
    /\ Update(r, IF outcome[r].code = "ok" THEN "succeeded" ELSE "failed", "noting")

(* _deliver, of which only its last update touches the database; after a   *)
(* delivery the failure of that update is swallowed.                       *)
Note(r) ==
    /\ pc[r] = "noting"
    /\ \/ Free /\ GoTo(r, "leaving") /\ UNCHANGED <<outcome, hurt>>
       \/ Fault(r) /\ GoTo(r, "leaving") /\ UNCHANGED outcome
       \/ Fault(r) /\ Raise(r, "internal_error")
    /\ UNCHANGED <<keyState, arrival, stash, sent, session, rows, spent>>

-----------------------------------------------------------------------------
(* The end of get_session.                                                 *)

Close(r) == pool' = pool \ {r} /\ locked' = locked \ {r} /\ GoTo(r, "done")

(* The commit may fail, its effect may stay: the response is out already.  *)
Commit(r) ==
    /\ pc[r] = "leaving"
    /\ Close(r)
    /\ \/ stamped' = stamped \cup (locked \cap {r}) /\ UNCHANGED hurt
       \/ /\ "database" \in Faults
          /\ \/ stamped' = stamped \cup (locked \cap {r})
             \/ UNCHANGED stamped
          /\ hurt' = hurt \cup {r}
    /\ UNCHANGED <<keyState, arrival, outcome, stash, sent, rows, spent>>

(* The handlers' answer, unless the 202 is out already.                    *)
AnswerError(r) ==
    sent' = [sent EXCEPT ![r] = IF @ = Unsent THEN Response(stash[r], outcome[r]) ELSE @]

(* With a fault: usage is written in the request's own transaction.        *)
RollbackWithUsage(r) ==
    /\ pc[r] = "failing"
    /\ Close(r)
    /\ usage' = usage \ {r}
    /\ AnswerError(r)
    /\ UNCHANGED <<keyState, arrival, outcome, stash, stamped, jobs, spent, hurt>>

(* With a fault: the session is committed on every path.                   *)
CommitOnError(r) ==
    /\ pc[r] = "failing"
    /\ Close(r)
    /\ stamped' = stamped \cup (locked \cap {r})
    /\ AnswerError(r)
    /\ UNCHANGED <<keyState, arrival, outcome, stash, rows, spent, hurt>>

(* With a fault: the connection and the row are kept.                      *)
RollbackOpen(r) ==
    /\ pc[r] = "failing"
    /\ GoTo(r, "done")
    /\ AnswerError(r)
    /\ UNCHANGED <<keyState, arrival, outcome, stash, session, rows, spent, hurt>>

(* The rollback, which comes before the answer.                            *)
Rollback(r) ==
    /\ pc[r] = "failing"
    /\ Close(r)
    /\ AnswerError(r)
    /\ UNCHANGED <<keyState, arrival, outcome, stash, stamped, rows, spent, hurt>>

-----------------------------------------------------------------------------
(* Other processes: issue_key, and an operator who sets revoked_at, which  *)
(* needs the row like every other update.                                  *)

Issue(k) ==
    /\ keyState[k] = "unknown"
    /\ keyState' = [keyState EXCEPT ![k] = "live"]
    /\ UNCHANGED <<arrival, pc, outcome, stash, sent, session, rows, spent, hurt>>

Revoke(k) ==
    /\ keyState[k] = "live"
    /\ RowFree(k)
    /\ keyState' = [keyState EXCEPT ![k] = "revoked"]
    /\ UNCHANGED <<arrival, pc, outcome, stash, sent, session, rows, spent, hurt>>

Arrive(r) ==
    \/ ArriveMalformed(r) \/ ArriveProbe(r) \/ ArriveWithKey(r) \/ ArriveWithoutKey(r)

Step(r) ==
    \/ Lookup(r) \/ LookupFails(r) \/ Stamp(r)
    \/ Complete(r) \/ Record(r) \/ Store(r) \/ Read(r) \/ Probe(r) \/ Check(r)
    \/ Respond(r) \/ Begin(r) \/ Settle(r) \/ Note(r)
    \/ Commit(r) \/ Rollback(r)

Next ==
    \/ \E r \in Requests : Arrive(r) \/ Step(r) \/ StampFails(r)
    \/ \E k \in Keys : Issue(k) \/ Revoke(k)

Safe == Init /\ [][Next]_vars

(* The loop runs what is ready; the provider and the pool's waits time     *)
(* out; a row that stays free is locked in the end.  A wait for the row    *)
(* cannot count on being cut short: StampFails is not fair.                *)
Spec == Safe /\ \A r \in Requests : WF_vars(Step(r))

-----------------------------------------------------------------------------
(* Properties.                                                             *)

(* The pool is never overdrawn, and a request that is over holds neither a *)
(* connection nor its key's row, whatever it ended with (get_session).     *)
ConnectionsReturned ==
    /\ Cardinality(pool) <= PoolSize
    /\ \A r \in pool \cup locked : pc[r] \notin {"idle", "done"}

(* The requests of one key are served one at a time: from find_by_hash to  *)
(* the end of its transaction, a job's background task included, a request *)
(* keeps every other request of its key waiting.                           *)
OneRequestPerKey ==
    \A r, s \in Requests :
        pc[r] \in Serving /\ pc[s] \in Serving /\ key[r] = key[s] /\ key[r] # NoKey => r = s

(* A request that came after its key was revoked is never served and       *)
(* leaves no trace, however it interleaves with requests the key still     *)
(* has; it is told what an unknown key is told ("indistinguishable from    *)
(* one that never existed", find_by_hash).                                 *)
RevokedKeysRefused ==
    \A r \in barred :
        /\ r \notin locked \cup stamped \cup usage
        /\ jobs[r] = "none"
        /\ sent[r].code \in {"none", "invalid_credentials", "validation_error",
                             "internal_error"}

(* A usage row "must survive a rollback" (get_usage_repository): a request *)
(* with a key whose complete() was answered has its row in the end,        *)
(* however it ended, unless a fault or a timeout hit it.                   *)
UsageSurvives ==
    \A r \in Requests \ hurt :
        /\ pc[r] = "done" /\ key[r] # NoKey
        /\ kind[r] \in Limited /\ outcome[r].code \in ProviderCodes
        => r \in usage

(* last_used_at tells which requests were served: it is committed for      *)
(* those answered without an error and for no others, unless a fault or a  *)
(* timeout hit the request after its answer.                               *)
StampTellsAnswer ==
    \A r \in Requests :
        /\ r \in stamped => sent[r].code \in Returned
        /\ pc[r] = "done" /\ key[r] # NoKey /\ sent[r].code \in Returned /\ r \notin hurt
           => r \in stamped

(* What the headers tell is true and is told: X-RateLimit-* only where a   *)
(* token was spent or refused, and always there unless the request turned  *)
(* out invalid; WWW-Authenticate on every 401 and only there; Retry-After  *)
(* only where there is something to wait for; X-Request-ID on whatever     *)
(* passes the middleware (app_error_handler, dispatch).                    *)
HeadersTell ==
    \A r \in Requests : sent[r] # Unsent =>
        LET code == sent[r].code
            headers == sent[r].headers
        IN  /\ "X-RateLimit" \in headers => r \in spent \/ code = "rate_limit_exceeded"
            /\ (r \in spent /\ code # "validation_error") \/ code = "rate_limit_exceeded"
               => "X-RateLimit" \in headers
            /\ "WWW-Authenticate" \in headers <=>
                   code \in Codes /\ StatusOf[code] = 401
            /\ "Retry-After" \in headers =>
                   code \in {"rate_limit_exceeded", "upstream_rate_limited"}
            /\ code # "internal_error" => "X-Request-ID" \in headers

(* "Every response - success or failure - reports where they stand"        *)
(* (README.md, "Rate limits"): whoever was charged a token is told.        *)
EveryCallerTold ==
    \A r \in spent : sent[r] # Unsent => "X-RateLimit" \in sent[r].headers

(* "Every request gets an id ... returned in the response header"          *)
(* (README.md, "Tracing a request"), "unhandled crashes" included          *)
(* (RequestIdMiddleware).                                                  *)
EveryResponseTraceable ==
    \A r \in Requests : sent[r] # Unsent => "X-Request-ID" \in sent[r].headers

reply == [r \in Requests |-> IF sent[r] = Unsent THEN "none"
                             ELSE IF sent[r].code \in Returned THEN "served"
                             ELSE "refused"]

(* A job whose request ended in an error is nobody's.                      *)
work == [r \in Requests |-> IF /\ jobs[r] = "pending" /\ reply[r] # "served"
                               /\ pc[r] \in {"failing", "done"}
                            THEN "stranded" ELSE jobs[r]]

Contract == INSTANCE RequestContract WITH used <- stamped, logged <- usage

(* What a request leaves behind (RequestContract).                         *)
KeepsContract == Contract!RequestSpec

(* How far a request is.  The answer comes before the job's background     *)
(* task and after a completion.                                            *)
Stage == [idle |-> 0, connecting |-> 1, stamping |-> 2, probing |-> 3, checking |-> 4,
          storing |-> 4, reading |-> 4, answering |-> 5, queued |-> 6, calling |-> 7,
          recording |-> 8, settling |-> 9, noting |-> 10, leaving |-> 11,
          failing |-> 12, done |-> 13]
Progress(r) ==
    IF pc[r] = "answering" /\ kind[r] = "complete" THEN Stage["settling"] ELSE Stage[pc[r]]

(* No step sends a request back, whatever fails on the way and whatever    *)
(* its job comes to: one half of the reason why every request ends         *)
(* (EveryRequestEnds), after no more than a dozen steps of its own.        *)
RequestsAdvance ==
    [][\A r \in Requests : pc'[r] # pc[r] => Progress(r)' > Progress(r)]_vars

(* What a request that is over has come to: it is answered, and the job it *)
(* submitted is worked off unless a fault or a timeout hit it.             *)
Concluded(r) ==
    /\ sent[r] # Unsent
    /\ kind[r] = "submit" /\ sent[r].code = "ok" => jobs[r] \in Final \/ r \in hurt

(* Every request is concluded and gives everything back, although those    *)
(* who hold a connection wait for a second one and for the row of a key.   *)
EveryRequestEnds ==
    \A r \in Requests : pc[r] # "idle" ~> pc[r] = "done" /\ Concluded(r)

(* "the response was sent and its transaction closed long before" the job  *)
(* is worked on (PostgresJobRepository).                                   *)
ClosedBeforeWork ==
    \A r \in Requests : jobs[r] = "running" => r \notin pool \cup locked

=============================================================================
