# Verification of prd-api-wrapper

TLA+ models of the service in `src/` (a FastAPI wrapper around an OpenAI-compatible
completion provider), the TLC runs that check them on small instances, and theorems about
them that TLAPS proves for every value of the constants. File names below are relative to
`src/src/` unless they say otherwise; "the docs" are the repository's `README.md` and
`docs/index.html`.

## The system

One process is one asyncio event loop. A request goes through the request-id middleware,
authentication (which reads and touches the `api_key` row), the rate limiter, an endpoint,
and one of two services:

```
client --> middleware --> authenticate --> rate limiter --> POST /v1/complete --> CompletionService --> provider
                               |                                                       |   ^
                               v                                                       v   |
                           Postgres  <------------- usage row -------------------------+   |
                               ^                                                           |
                               +----------- job row ---- JobService <-- POST /v1/jobs      |
                                                             |  +--------- complete() -----+
                                                             +--> WebhookService --> caller's callback
```

All completions of a process share one `RetryPolicy`, one `CircuitBreaker` and one rate
limiter (`factory.py`, lifespan). Nothing between two `await`s is interrupted, and anything
may happen at an `await`: that is where the hard behaviour is.

| Component | State | Operations | What is hard | What makes it correct |
|---|---|---|---|---|
| Error taxonomy (`errors/exceptions.py`) | none | status, code, `retryable` of a failure | one wrong flag retries for ever or opens the circuit | every exchange has one code; only infrastructure failures are retryable |
| Retry policy (`services/resilience.py`) | `attempt`, `started` per call | `delay_for`, `run` | the clock runs during attempts and sleeps | sum of waits within the budget, attempts within the limit |
| Circuit breaker (`services/resilience.py`) | `_state`, `_failures`, `_opened_at` | `before_call`, `record_success`, `record_failure` | admitted in one state, reported to another | mode and count agree; refusals only in the pause; a healthy provider is let in again |
| Completion (`services/completion.py`) | the calls in flight | `complete` | retries meeting an open circuit; failing usage writes | every call is answered and leaves its row |
| Rate limiter (`services/rate_limiter.py`, `dependencies/rate_limit.py`) | a bucket per key | `check`, the headers | lazy refill, rounding | bounded admissions over every interval; headers that come true |
| Jobs (`services/jobs.py`, `repositories/jobs.py`) | the `job` row, a background task | `accept`, `run`, `get` | failed transactions, lost acknowledgements, death of the process | ids that exist, statuses that only move forward, callbacks that hear what the row says |
| Webhooks (`services/webhooks.py`) | attempts per delivery | `deliver` | receivers that lose answers or refuse | honest `delivery_attempts` and `delivered_at` |
| Request session and pool (`dependencies/common.py`, `databases/session.py`) | connections, row locks | `get_session` | requests that hold one connection and wait for a second, a row lock kept for a whole request | everything is given back, whatever the request came to; every request ends |
| Authentication (`services/authentication.py`, `repositories/api_keys.py`) | `api_key` rows | `authenticate`, `find_by_hash`, issue, revoke | revocation while requests of the key are under way | a revoked key is never served and leaves no trace; `last_used_at` tells who was served |
| Endpoints (`endpoints/*.py`) | what they commit in passing | complete, submit, show, ready | what a rollback undoes and what it must not | usage survives, everything else looks as if the request had not happened |
| Handlers and middleware (`errors/handlers.py`, `middleware/request_id.py`) | headers stashed on the request | the three handlers, `dispatch` | which headers survive which failure | the headers tell what happened to the caller's token |
| Logging, configuration, start-up | none | | | not modelled: they read, format or parse |

## Modules

| Module | Models |
|---|---|
| `Taxonomy` | what one exchange with the provider can come to, and its code, status and `retryable` |
| `RetryPolicy` | the decisions of the retry policy over whole ticks, used by both its users |
| `CircuitContract` | abstract: when a call may be admitted and what an outcome may do to the breaker's mode |
| `CallContract` | abstract: what a call of `complete()` promises those who await it |
| `Completion` | `complete`, `run` and the breaker: any number of concurrent calls |
| `MCCompletion` | sets of answers and the symmetry of the calls, for TLC |
| `CompletionProofs` | theorems about `Completion` |
| `BucketContract` | abstract: a bucket that fills as time passes, whether anybody looks or not |
| `RateLimiter`, `RateLimiterProofs` | the limiter and theorems about it |
| `JobContract` | abstract: what a job promises whoever submitted it |
| `Jobs`, `JobsProofs` | the job service, its rows and its webhooks, and theorems about them |
| `Responses` | the headers of errors, the three exception handlers and the request-id middleware |
| `RequestContract` | abstract: what a request leaves in the database, however it ends |
| `Sessions`, `SessionsProofs` | a request from authentication to the end of its transaction, the pool and the key's row it competes for, and theorems about them |

### Completion

A slot `r` of `Requests` is one call of `complete()` at a time. `pc[r]` is the `await` it is
suspended in: `posted` (the POST to the provider), `sleeping` (between attempts), `recording`
(the usage row). Each action runs from one `await` to the next and so contains everything the
code does on the way:

- `Call`, `Wake`: `before_call` of the first and of every later attempt, either the POST
  (`Post`) or the refusal (`Refuse`);
- `Succeed`: `record_success`, then on to the row;
- `GiveUp`, `Retry`, `Crash`: `record_failure` if the error is retryable (`Report`), then
  `run()`'s handler in its order: not retryable or out of attempts, the delay, the budget, the
  sleep. `Crash` is the sleep that refuses a NaN;
- `Record`: `_record`, which may lose the row; `Finish`: the caller has its answer.

`clock() - x` is kept as an age that saturates where the code stops telling values apart
(`sinceOpened` at `Reset`, `elapsed` above `Budget`); a sleep is a timer. A timer at zero does
not stop the clock, so a call may be woken late. The jitter is any wait up to the cap. The
failure count saturates at `FailureCap` above the threshold; nothing reads it further up.
`waited` and `trial` are history variables for two properties.

The module implements two contracts, each about one side of it. `CircuitContract` (as `Contract`)
sees the breaker and the POSTs in flight; `CallContract` (as `Promise`) sees one call at a time as
its caller does: idle, working, concluded, over, with one outcome and at most one usage row. Its
`Outcomes` are the codes of the answers and the refusal by the circuit, or an exception nobody
maps. `Jobs` and `Sessions` let `complete()` come to any of these and use nothing else of it, so
`KeepsPromise` is the half of a composition that `Completion` owes them.

`Left(r)` bounds what is left of a call: for every attempt a POST and a sleep, then the row.
`CallsRunOut` says that each step of a call uses some of it up and that nothing else gives any
back. `ToClose` does the same for the breaker: the rest of the pause, a call that finds it over, a
success.

`Heal` is the end of an outage: every POST sent from then on is answered with a completion. Those
in flight at that moment are `early`; they may still time out, a minute later, and the breaker
counts that against a provider that has long recovered: it reopens HALF_OPEN, restarts the pause
of OPEN or trips CLOSED. `NothingSetsBack` says that nothing else does. Once the provider is
healthy `early` only shrinks, and as long as it stays as it is `ToClose` does not grow.

### RateLimiter

`check()` has no `await`, so `Admit` and `Refuse` are one action each. A token is `Unit` units
and a tick refills `Rate` of them, which makes every rational rate an instance; the arithmetic
is exact, the rounding of floats is not modelled. `Second` ticks are a second, to which the
headers are rounded up. `start` and `admitted` are an observer who may start counting whenever
he likes; `retryAt` and `fullAt` remember what the headers said.

`KeepsContract` maps a bucket to what a refill at this instant would leave in it
(`Refilled(k, now)`), and so turns one that is only brought up to date when somebody asks into
one of `BucketContract` that gains `Drip` at every tick. A limiter that forgot to move
`updated` along, refused a caller whose token is there, or charged one it refuses, has no such
mapping.

### Jobs

A job has its row (`status`, `recorded` for `delivery_attempts`, `delivered` for
`delivered_at`) and its coroutine (`pc`, `outcome`, `attempt`). Every repository operation is a
transaction of its own, so it is one action: it commits, fails before the commit, or fails after
it with only the acknowledgement lost (`Transaction`). `Crash` ends every coroutine and keeps
the rows. The completion is any outcome `complete()` may have; that it has one is what
`Completion` shows (`Answered`). The two models share `RetryPolicy`, each with its own
parameters, as the code does. `Faults` selects which failures an instance has.

`Left(j)` bounds what is left of a job as above, and `JobsRunOut` says that a coroutine uses it
up. `Concluded(j)` is what a job comes to if neither a crash nor a failure in its own run ends it;
the points `logged` and `raised` are where such a failure ends, in the log of `_deliver` or as an
exception of the background task.

### Responses and Sessions

`Responses` holds the functions from an outcome to a response: `ErrorHeaders` (the `headers` of
an exception), one operator per handler, `Dispatched` (the middleware) and `HeadersFor`, which
puts them in the order of `factory.py`. The three `X-RateLimit-*` headers always come together
and are one name.

`Sessions` is about what requests compete for. `pc[r]` is the `await` request `r` is suspended
in, and as before an action runs from one `await` to the next:

- `ArriveMalformed`, `ArriveProbe`, `ArriveWithKey`, `ArriveWithoutKey`: a request comes, and
  without a key goes on to the limiter and the endpoint at once;
- `Lookup`, `Stamp`, and their failures `LookupFails`, `StampFails`: the SELECT of `find_by_hash`, which takes a
  connection for the session; its UPDATE, which takes the row's lock and runs on through the
  limiter and the validation of the body to the endpoint's first `await` (`Enter`);
- `Complete`, `Record`, `Store`, `Read`, `Probe`, `Check`: the endpoints. `Record`, `Store` and
  `Read` need a second connection for one statement;
- `Respond`, then for a submitted job its background task `Begin`, `Complete`, `Record`,
  `Settle`, `Note`;
- `Commit` or `Rollback`: the end of `get_session`. An exception comes here before its handler
  answers, so the answer is part of `Rollback`.

The pool is the set of requests whose session holds a connection. A statement on a connection of
its own takes it and gives it back within its action, which is why `Free` is its guard. If the
pool is exhausted the wait may end in the pool's timeout (`TimesOut`), and then it fails like a
statement does. A wait for the row has no such limit, and the lock is free once the holder's
transaction is over. `Complete` is any outcome `Completion` allows and `Refused` any refusal
`RateLimiter` allows: what they decide is their subject. `spent`, `barred` and `hurt` are history
variables for the properties.

`Stage` numbers the points a request passes; `Progress(r)` is its number, with the one endpoint
that answers after the completion (`POST /v1/complete`) put in order. `RequestsAdvance` says that
no step leads back.

`RequestContract` says what is left of a request. After an error that is its usage row, if it got
that far, and in one case a job row: `create` commits it over a connection of its own, and if the
acknowledgement of that commit is lost the caller gets a 500 while the row stays, pending and with
nobody to run it. The contract calls such a job `stranded` and lets it be left by that failure
alone; a job that was stored may not be refused, and a stranded one may not be worked on.

Outside `src/`, and modelled from how the code relies on it: FastAPI leaves a dependency with
`yield` after the response and its background tasks (as it does from 0.118 on, and
`pyproject.toml` asks for a later version), and before the handlers if there was an exception;
Starlette handles exceptions that nobody else does outside every other middleware; Postgres
lets an update of a key's row (FOR NO KEY UPDATE) and the foreign keys that refer to it (FOR KEY
SHARE) pass each other. `DEBUG` and `RATE_LIMIT_ENABLED` have their defaults.

## Runs

| Run | Instance | Shows |
|---|---|---|
| `completion_safety` | 2 calls, 3 attempts, hints and jitter, every answer but NaN | `OpenIffFailing`, `BudgetKept`, `RowTellsAnswer`, `CallsRunOut`, the types |
| `completion_live` | 2 calls that keep asking, an outage that ends, refused usage rows, anonymous callers, NaN | `Recovers`, `NothingSetsBack`, `Answered`, `CircuitContract` is implemented, liveness included, and so is `CallContract` |
| `rate_limiter` | 1 key, burst 2, 4/3 of a token a second, 14 ticks of half a second | `WindowBound`, `RetryAfterKept`, `ResetKept`, `BucketContract` is implemented |
| `jobs` | 2 jobs, every fault, a crash | `AcceptedIsStored`, `AttemptsHonest`, `JobContract` is implemented, `JobsRunOut`, `JobConcludes` |
| `sessions` | 2 requests of every kind, 1 key, 2 connections, anonymous callers, failing statements and a bug in `complete()` | `ConnectionsReturned`, `OneRequestPerKey`, `RevokedKeysRefused`, `UsageSurvives`, `StampTellsAnswer`, `HeadersTell`, `RequestContract` is implemented, `RequestsAdvance`, `EveryRequestEnds` |

Two calls are enough for the breaker: a property fails when one call's result meets
the state another has left, and the theorems carry the invariants to any number. The threshold
of 2 makes the difference between counting and tripping, a pause of 2 ticks that between open
and cooled, and `FailureCap` 3 lets failures arrive beyond the threshold. Keys of the limiter do
not influence each other, so one is enough; 14 ticks are more than four times the time from
empty to full. Symmetry is only used where no liveness is checked.

Two requests over two connections show every wait of `Sessions`: one request holds its connection
and the key's row and waits for a second connection, which the other holds while it waits for
that row. Only the pool's timeout resolves this circle, and it does so by failing the first
request's statement. The theorems carry the invariants to any number of requests, keys and
connections. A request is one-shot: a caller who asks again is another request.

These runs state what the repository says of itself and find it violated (the entries of
`findings` quote both sides):

| Run | Statement | What happens |
|---|---|---|
| `completion_trials` | exactly one request is let through | HALF_OPEN admits every call (a comment in the code admits it, the docs do not) |
| `completion_late_success` | OPEN is left by the timeout alone | a call admitted earlier succeeds and closes it |
| `completion_nan` | one usage row per request | `Retry-After: nan` makes the sleep raise; no row, a 500 |
| `jobs_raises` | nothing in `run` may raise | a failed update does, and the job stays where it was |
| `sessions_closed` | a request's transaction is closed long before its job is worked on | the background task runs before `get_session` is left: connection and row are held to the job's end |
| `sessions_untold` | every response, success or failure, carries `X-RateLimit-*` | an invalid body is found after the token is spent, and the handler of the 422 drops the stashed headers |
| `sessions_untraced` | every response carries `X-Request-ID`, unhandled crashes included; anonymous callers are let through | the foreign key refuses the job of an anonymous caller, so POST /v1/jobs is a 500, and its handler runs outside the middleware that sets the header |

`sessions_closed` has consequences that `OneRequestPerKey` states as what does hold: while a job
is worked on, every other request with its key waits in `find_by_hash`, `GET /v1/jobs/{id}` for
that job included.

`HeadersTell` is the complement of the last two: what the headers do tell, and on which responses
they are there. It asserts nothing of the two that lack them.

More disagreements show in the modules and have no run of their own. After an error "the database
should look as though the request never happened" (`get_session`), but a `create` whose
acknowledgement is lost leaves a pending job behind a 500 (`Strand` of `RequestContract`).
`GET /v1/jobs/{id}` is not limited and so never has the `X-RateLimit-*` headers. A request whose key is revoked between the SELECT and the UPDATE of
`find_by_hash` is still served (`Stamp` does not look at `keyState`). A trial the provider
rejects decides nothing and leaves the breaker HALF_OPEN (`NoVerdict` of `CircuitContract`; the
diagram in `docs/index.html` has no such outcome). A straggler that fails during the pause
restarts it (`Failure` keeps an open circuit open and uncools it), even if the provider has
recovered since it was sent (`early`). And the usage row of an
anonymous caller is refused by the same foreign key as its job (`Record`).

`KeepsContract` of `Completion` is the complement of the runs about the breaker: it says what the
breaker does promise, given that it behaves like that. `Recovers` shows that none of it keeps a
healthy provider shut out. Likewise `AttemptsHonest` and `JobContract` say what a null or set
`delivered_at` does tell: a marked job was delivered, an unmarked one may have been.

### Fairness

`Fairness` of `Completion` and `Spec` of `Jobs` assume weak fairness of the clock and of every
step of a coroutine that is ready: the event loop runs what is due, and httpx's read and connect
timeouts end every POST one way or another, which is why `Answer` is fair although no single
outcome is. Nothing is assumed about when a caller asks, except in `BusySpec`, where callers
keep asking: without them a breaker that is open stays open, since only a call can make it
HALF_OPEN. `Heal` is not fair either; `Recovers` speaks of the time after it. `JobConcludes` is
checked with every fault and a crash, and excepts the jobs they end: a crash loses jobs for good,
as the repository's README says under "Known limits".

`Spec` of `Sessions` assumes weak fairness of each request's `Step` only: the loop runs what is
ready, the provider's and the pool's timeouts end every wait for them, and a row that stays free
is locked in the end. `StampFails` is not part of `Step`: a lost connection may free a request
that waits for the row, but nothing may count on it. Nobody has to ask, to issue a key or to
revoke one. Strong fairness is not needed, because the requests are finitely many and each is
one-shot. With an endless stream of requests on one key the promise would rest on the order in
which Postgres grants the row, which is not modelled.

## Proofs

Every theorem is for all values of the constants that satisfy the named assumptions
(`PolicyAssumption`, `BreakerAssumption`, `EnvironmentAssumption`, `LimiterAssumption`,
`JobsAssumption`, `SessionsAssumption`), which only give their types and say that a threshold, a
pause, a capacity, a rate, a pool and a number of attempts are at least one, that the cap on
failures lies above the threshold and that no key is the missing one.

`CompletionProofs`. `IInv` is `TypeOK`, `OpenIffFailing` and, for every call, `Books`: while an
attempt runs, what it has waited is at most what has elapsed, and while it sleeps, at most what
has elapsed plus what is left of the timer, which is zero at every other point. `BudgetKept`
alone is not inductive, since the test in `run()` compares the budget with the clock and not
with the waits. From it follow `TypeCorrect`, `BreakerCoherent` and `BudgetRespected`, for any
number of calls. `ContractKept` maps every step to a step of `CircuitContract` or to a stutter.
`RowsTellAnswers` adds that in `FairWeather` (keyed callers, a database that takes the row, no
NaN) every finished call has its row. `completion_nan` shows what happens without the last of
these, and `Record` has the two disjuncts for the others. `PromiseKept` maps every step to one
of `CallContract` or to a stutter. Its hard step is `GiveUp`, where the code of the answer must
be one of `Outcomes` and its status that of the row. `CallsEnd` is `CallsRunOut`: a retry pays
for the next sleep with an attempt (`RoundsShrink`), a tick with the timer, and the steps of
others leave `Left(r)` alone (`OthersLeaveIt`). That the timer is zero outside a sleep is needed
here: a tick would otherwise count against a POST. `OutageEnds` is `NothingSetsBack`: a call can
do three things to the breaker of a healthy provider without giving up one of `early`
(`HealthyStep`), and none of them is a trip. `ClosedForGood` follows from the same lemma: with a
healthy provider and `early` empty a closed circuit stays closed, whatever count the outage has
left. Before `early` is empty it need not, and is not claimed to.

`RateLimiterProofs`. `Held(k, t)` is what the bucket of `k` will hold at `t` if it is left
alone. `Spent` says that what was admitted since `start` and what is held now together stay
within a burst plus the refill; `Told` that at the times the headers named the bucket will hold
what they said. Both rest on two facts about a lazily refilled level: refilling in two steps is
refilling in one (`LevelComposes`), and rounding the wait up is enough (`WaitSuffices`).
`WindowBounded`, `RetryAfterComesTrue` and `ResetComesTrue` follow, without a bound on time.
`ContractKept` maps every step to one of `BucketContract`. A tick is `Fill` because a refill
over one more tick is one more `Rate`, capped once or capped twice (`TickFills`); taking a token
out of the refilled level is taking it out of the bucket (`TakeIsSeen`); and a refusal writes the
refilled level back, which is what the bucket holds already (`RefuseDenies`).

`JobsProofs`. `Shape(j)` ties the row to where the coroutine is: it is the row the coroutine has
written last, the delivery columns are untouched until the last update, an outcome is in the
row before it is POSTed, and a delivery is only marked after the callback took it. `TypeCorrect`,
`IdsAreStored` and `AttemptsAreHonest` follow, and `ContractKept` shows that `Jobs` implements
`JobContract`, for any faults and any number of crashes. `JobsEnd` is `JobsRunOut`, by the
same argument as `CallsEnd`. `JobsConclude` says that with any faults and crashes a coroutine that
is `done` has left its job `Concluded`, and that with `Faults = {}` none is refused or ends in an
exception; it rests on `Concluding`, an invariant relative to `IInv`, which follows an outcome
through the deliveries to the last update. A crash or an exception ends a coroutine without its
being `done`.

`SessionsProofs`. `IInv` is `TypeOK`, `PoolFits` (the pool is a finite set no larger than
`PoolSize`), `RowsFit` (no two requests hold the row of one key) and, for every request,
`Shape(r)`, which ties what it holds, owes and has said to its `pc`: a connection and a row
exactly at the points between taking and closing (`Holding`), a usage row once `Record` is past
(`Telling`), which answer is out when the session is left (`Leaving`), which headers are stashed
and sent (`Headers`, `HeadersSent`), and how far a barred request can get (`Barred`). None of the
properties is inductive alone: that `last_used_at` is only committed for the served, say, needs
that a request reaches `Commit` only after an answer without an error. `NextKeeps` has a lemma
per action. `NothingLeaks`, `KeysSerialize`, `RevocationHolds`, `UsageOutlivesRollback`,
`StampFollowsAnswer` and `HeadersAreTrue` are its consequences, and `ContractKept` maps every
step to one of `RequestContract`, for which `Telling` also carries that a job of a request not yet
answered is pending and its request about to answer, with a 202 or a 500. They are theorems of `Safe`, hence of `Spec`.

Two more are about the ways of a request. `NoWayBack` is `RequestsAdvance`: each action is `Onward` by one
of the arrows of `StepsGoOnward`, and `Stage` grows along every arrow. `RequestsConclude` says
that a request that is over is `Concluded`; for that `Telling` also carries that once a job's
result is noted, or its session left, its row is final unless something hit the request.

Only model-checked: the liveness properties (`Recovers`, `Answered`, `JobConcludes`,
`EveryRequestEnds`, and that every pause ends in `KeepsContract` of `Completion`), which need
fairness and ENABLED and so are beyond the prover. The parts of them that do not need
these are theorems:

| Liveness | it runs out | it ends well | left to TLC |
|---|---|---|---|
| `Answered` | `CallsEnd` | `PromiseKept` | a call that is not done can step, and fairness makes it |
| `Recovers` | `OutageEnds` | `ClosedForGood` | `early` is answered, the pause ends, and a caller who asks is let in and answered |
| `JobConcludes` | `JobsEnd` | `JobsConclude` | the same of a coroutine |
| `EveryRequestEnds` | `NoWayBack` | `RequestsConclude` | the same of a request, given the pool's timeout and that a row is free in the end |

So no larger instance can go round in circles or end badly; what the small ones have to show is
that nothing stands still. No recursive definition is involved.

## Not modelled

Request and response bodies beyond whether they are valid, prompts, messages and details of
errors, logging, signatures, the hashing and minting of keys, configuration parsing, the command
line and the text of the migrations: none of them keeps state that the
properties are about. `pool_pre_ping`, which only turns one failing statement into a fresh
connection, and httpx's own pool, whose exhaustion is one of the answers of `Completion`.
Cancellation at shutdown: it ends a call like a crash of the process. Float rounding in the
limiter. Several worker processes: each has its own breaker and its own buckets, so the limits
multiply, as the repository documents.

## Plan

`Completion`, `RateLimiter`, `Jobs`, `Responses` and `Sessions` cover the service, each with its
theorems. What is left:

1. The rounding of the limiter's floats as a bounded slack at every refill, with
   `WindowBound` and the headers restated up to the slack that adds up, and proved.
2. A composition of `Completion` and `Jobs` around one breaker: jobs and direct requests share
   its mode, and a job's outcome is the code of the call it made. `KeepsPromise` is what the
   composition needs of `Completion`; what `Jobs` and `Sessions` assume is the set of outcomes in
   `CallContract`.
3. A request that is cancelled because its caller is gone, in `Sessions`.
