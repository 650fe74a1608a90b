--------------------------- MODULE SessionsProofs ---------------------------
(***************************************************************************)
(* Theorems about Sessions, for any requests and keys, any size of the     *)
(* pool and any of the faults.                                             *)
(***************************************************************************)
EXTENDS Sessions, FiniteSetTheorems, TLAPS

(* The points of a request that has not been answered, whatever its kind;  *)
(* of a job's background task; and of those past the usage row.            *)
Unanswered == { "idle", "connecting", "stamping", "storing", "reading", "probing",
                "checking", "answering" }
Background == {"queued", "settling", "noting"}
Calling    == {"calling", "recording"}
Asking     == {"connecting", "stamping"}

PastRecord(r) ==
    \/ pc[r] \in {"settling", "noting"}
    \/ pc[r] = "answering" /\ kind[r] = "complete"
    \/ pc[r] \in {"leaving", "failing", "done"} /\ kind[r] \in Limited
           /\ outcome[r].code \in ProviderCodes

Served(r) == sent[r] # Unsent /\ sent[r].code \in Returned

(* Who it is and what it holds.                                            *)
Holding(r) ==
    /\ pc[r] \in Asking => key[r] \in Keys /\ kind[r] \in DOMAIN FirstAwait
    /\ pc[r] \in {"probing", "checking"} => key[r] = NoKey
    /\ pc[r] \in {"idle", "done"} => r \notin pool \cup locked
    /\ r \in locked => /\ key[r] \in Keys
                       /\ pc[r] \notin Asking \cup {"probing", "checking"}
    /\ pc[r] \in Serving /\ key[r] # NoKey => r \in locked

(* What it has been told, and what its job is at.                          *)
Telling(r) ==
    /\ pc[r] \in Unanswered => sent[r] = Unsent
    /\ pc[r] \in Background => kind[r] = "submit"
    /\ pc[r] = "storing" => kind[r] = "submit"
    /\ pc[r] = "reading" => kind[r] = "show"
    /\ pc[r] \in {"probing", "checking"} => kind[r] = "ready"
    /\ pc[r] \in Calling => kind[r] \in Limited
    /\ pc[r] \in Calling /\ kind[r] = "complete" => sent[r] = Unsent
    /\ pc[r] \in Calling \cup Background /\ kind[r] = "submit" => Served(r)
    /\ pc[r] = "leaving" => Served(r)
    /\ pc[r] = "done" => sent[r] # Unsent
    /\ pc[r] = "failing" => /\ outcome[r].code \notin Returned
                            /\ sent[r] # Unsent => Served(r) /\ r \in hurt
    /\ pc[r] \in Unanswered => outcome[r].code \in Returned
    /\ pc[r] = "recording" => outcome[r].code \in ProviderCodes
    /\ pc[r] \in Unanswered \ {"answering"} => jobs[r] = "none" /\ r \notin usage
    /\ sent[r] = Unsent /\ jobs[r] # "none" =>
           jobs[r] = "pending" /\ pc[r] \in {"answering", "failing"}
    /\ pc[r] \in {"answering", "queued"} /\ kind[r] = "submit" => jobs[r] = "pending"
    /\ pc[r] \in Calling \cup {"settling"} /\ kind[r] = "submit" => jobs[r] = "running"
    /\ pc[r] \in {"noting", "leaving", "done"} /\ kind[r] = "submit" /\ sent[r].code = "ok"
       => jobs[r] \in Final \/ r \in hurt

(* What it leaves behind.                                                  *)
Leaving(r) ==
    /\ r \in stamped => pc[r] = "done" /\ Served(r)
    /\ pc[r] = "done" /\ key[r] # NoKey /\ Served(r) /\ r \notin hurt => r \in stamped
    /\ PastRecord(r) /\ key[r] # NoKey /\ r \notin hurt => r \in usage

(* What the handlers and the middleware will make of it.                   *)
Headers(r) ==
    /\ stash[r] = IF r \in spent THEN {"X-RateLimit"} ELSE {}
    /\ outcome[r].code \notin Returned =>
           outcome[r].code \in Codes /\ outcome[r] \in ErrorsOf(outcome[r].code)

HeadersSent(r) ==
    sent[r] # Unsent =>
        LET code == sent[r].code
            headers == sent[r].headers
        IN  /\ "X-RateLimit" \in headers => r \in spent \/ code = "rate_limit_exceeded"
            /\ (r \in spent /\ code # "validation_error") \/ code = "rate_limit_exceeded"
               => "X-RateLimit" \in headers
            /\ "WWW-Authenticate" \in headers <=>
                   code \in Codes /\ StatusOf[code] = 401
            /\ "Retry-After" \in headers =>
                   code \in {"rate_limit_exceeded", "upstream_rate_limited"}
            /\ code # "internal_error" => "X-Request-ID" \in headers

(* Once its key was revoked when it came.                                  *)
Turned == {"invalid_credentials", "validation_error", "internal_error"}
Barred(r) ==
    r \in barred =>
        /\ key[r] \in Keys /\ keyState[key[r]] = "revoked"
        /\ pc[r] \in {"connecting", "failing", "done"}
        /\ r \notin locked \cup stamped \cup usage
        /\ jobs[r] = "none"
        /\ pc[r] = "failing" => outcome[r].code \in Turned
        /\ sent[r].code \in Turned \cup {"none"}

Shape(r) == /\ Holding(r) /\ Telling(r) /\ Leaving(r) /\ Headers(r) /\ HeadersSent(r)
            /\ Barred(r)

PoolFits == IsFiniteSet(pool) /\ Cardinality(pool) <= PoolSize
RowsFit  == \A r, s \in locked : key[r] = key[s] => r = s

IInv == TypeOK /\ PoolFits /\ RowsFit /\ \A r \in Requests : Shape(r)

-----------------------------------------------------------------------------
(* Codes and headers.                                                      *)

LEMMA CodeFacts ==
    /\ {"ok", "internal_error", "missing_credentials", "invalid_credentials",
         "validation_error", "rate_limit_exceeded", "job_not_found"} \subseteq Codes
    /\ "degraded" \notin Codes /\ "none" \notin Codes
    /\ \A code \in Codes : StatusOf[code] = 401 <=> code \in Unauthenticated
  BY DEF Codes, StatusOf, Unauthenticated

LEMMA ProviderFacts ==
    /\ ProviderCodes \subseteq Codes
    /\ ProviderCodes \cap {"internal_error", "missing_credentials", "degraded",
                           "invalid_credentials", "validation_error",
                           "rate_limit_exceeded", "job_not_found"} = {}
<1>1. {CodeOf[a] : a \in Answers} \cup {"upstream_circuit_open"} =
         {"ok", "invalid_upstream_response", "upstream_timeout", "upstream_unavailable",
          "model_not_found", "upstream_rate_limited", "upstream_auth_failed",
          "upstream_rejected_request", "upstream_error", "upstream_circuit_open"}
  BY DEF CodeOf, Answers
<1> QED
  BY <1>1, SessionsAssumption DEF Codes, StatusOf

LEMMA ErrorFacts ==
    ASSUME NEW code \in Codes, NEW e \in ErrorsOf(code)
    PROVE  /\ e \in Outcomes /\ e.code = code
           /\ "WWW-Authenticate" \in e.headers <=> code \in Unauthenticated
           /\ "X-RateLimit" \in e.headers <=> code = "rate_limit_exceeded"
           /\ "Retry-After" \in e.headers =>
                 code \in {"rate_limit_exceeded", "upstream_rate_limited"}
           /\ "X-Request-ID" \notin e.headers
<1>1. PICK h \in ErrorHeaders(code) : e = [code |-> code, headers |-> h]
  BY DEF ErrorsOf
<1>2. h \in SUBSET HeaderNames
  BY <1>1 DEF ErrorHeaders, HeaderNames
<1>3. e \in Outcomes /\ e.code = code /\ e.headers = h
  BY <1>1, <1>2 DEF Outcomes
<1>4. CASE code \in Unauthenticated
  BY <1>1, <1>3, <1>4 DEF ErrorHeaders, Unauthenticated
<1>5. CASE code \notin Unauthenticated
  BY <1>1, <1>3, <1>5 DEF ErrorHeaders
<1> QED
  BY <1>4, <1>5

(* What `a`, sent to a request with `o` and the stash `st`, tells it.       *)
Tells(a, o, st) ==
    /\ a \in Outcomes /\ a.code = o.code /\ a # Unsent
    /\ "X-RateLimit" \in a.headers <=>
          \/ "X-RateLimit" \in st /\ o.code # "validation_error"
          \/ o.code = "rate_limit_exceeded"
    /\ "WWW-Authenticate" \in a.headers <=> o.code \in Unauthenticated
    /\ "Retry-After" \in a.headers =>
          o.code \in {"rate_limit_exceeded", "upstream_rate_limited"}
    /\ "X-Request-ID" \in a.headers <=> o.code # "internal_error"

(* Whether the limiter has charged it or not.                              *)
LEMMA ResponseFacts ==
    ASSUME NEW o \in Outcomes, NEW st \in {{}, {"X-RateLimit"}},
           o.code \notin Returned => o.code \in Codes /\ o \in ErrorsOf(o.code),
           NEW a, a = Response(st, o)
    PROVE  Tells(a, o, st)
<1> DEFINE H == HeadersFor(st, o)
<1>1. o.code \in Codes \cup Returned /\ o.headers \in SUBSET HeaderNames
  BY DEF Outcomes
<1>2. o.code # "none"
  BY <1>1, CodeFacts DEF Returned
<1>3. H \in SUBSET HeaderNames
  BY <1>1 DEF HeadersFor, Dispatched, AppErrorHeaders, ValidationErrorHeaders,
              UnhandledErrorHeaders, HeaderNames
<1>4. Response(st, o) = [code |-> o.code, headers |-> H]
  BY DEF Response
<1>5. Response(st, o) \in Outcomes /\ Response(st, o).code = o.code
      /\ Response(st, o).headers = H /\ Response(st, o) # Unsent
  BY <1>1, <1>2, <1>3, <1>4 DEF Outcomes, Unsent
<1>6. /\ "X-RateLimit" \in H <=>
            \/ "X-RateLimit" \in st /\ o.code # "validation_error"
            \/ o.code = "rate_limit_exceeded"
      /\ "WWW-Authenticate" \in H <=> o.code \in Unauthenticated
      /\ "Retry-After" \in H => o.code \in {"rate_limit_exceeded", "upstream_rate_limited"}
      /\ "X-Request-ID" \in H <=> o.code # "internal_error"
  <2>1. CASE o.code \in Returned
    BY <2>1 DEF HeadersFor, Dispatched, Returned, Unauthenticated
  <2>2. CASE o.code = "internal_error"
    BY <2>2 DEF HeadersFor, UnhandledErrorHeaders, Returned, Unauthenticated
  <2>3. CASE o.code = "validation_error"
    BY <2>3 DEF HeadersFor, Dispatched, ValidationErrorHeaders, Returned, Unauthenticated
  <2>4. CASE o.code \notin Returned \cup {"internal_error", "validation_error"}
    <3>1. H = Dispatched(AppErrorHeaders(st, o.headers))
      BY <2>4 DEF HeadersFor
    <3> QED
      BY <2>4, <3>1, ErrorFacts DEF Dispatched, AppErrorHeaders
  <2> QED
    BY <2>1, <2>2, <2>3, <2>4
<1> QED
  BY <1>5, <1>6 DEF Tells

LEMMA AnswerFacts ==
    ASSUME TypeOK, NEW r \in Requests, Headers(r),
           UNCHANGED spent, sent'[r] = Response(stash[r], outcome[r])
    PROVE  /\ sent'[r] \in Outcomes /\ sent'[r].code = outcome[r].code
           /\ sent'[r] # Unsent /\ HeadersSent(r)'
<1>1. outcome[r] \in Outcomes
  BY DEF TypeOK
<1>2. outcome[r].code \notin Returned =>
         outcome[r].code \in Codes /\ outcome[r] \in ErrorsOf(outcome[r].code)
  BY DEF Headers
<1>3. stash[r] \in {{}, {"X-RateLimit"}} /\ ("X-RateLimit" \in stash[r] <=> r \in spent)
  BY DEF Headers
<1>4. Tells(sent'[r], outcome[r], stash[r])
  BY <1>1, <1>2, <1>3, ResponseFacts, Zenon
<1>5. sent'[r].code \in Unauthenticated <=>
         sent'[r].code \in Codes /\ StatusOf[sent'[r].code] = 401
  BY CodeFacts DEF Unauthenticated
<1> QED
  BY <1>3, <1>4, <1>5 DEF HeadersSent, Tells

-----------------------------------------------------------------------------
(* A step of one request concerns that request alone.                      *)

Kept(k) ==
    /\ pc'[k] = pc[k] /\ kind'[k] = kind[k] /\ key'[k] = key[k]
    /\ outcome'[k] = outcome[k] /\ stash'[k] = stash[k] /\ sent'[k] = sent[k]
    /\ jobs'[k] = jobs[k]
    /\ k \in pool' <=> k \in pool
    /\ k \in locked' <=> k \in locked
    /\ k \in stamped' <=> k \in stamped
    /\ k \in usage' <=> k \in usage
    /\ k \in spent' <=> k \in spent
    /\ k \in barred' <=> k \in barred
    /\ k \in hurt' <=> k \in hurt

LEMMA KeptShape ==
    ASSUME IInv, NEW k \in Requests, Kept(k),
           \A x \in Keys : keyState[x] = "revoked" => keyState'[x] = "revoked"
    PROVE  Shape(k)'
<1>1. Shape(k)
  BY DEF IInv
<1>2. Holding(k)' /\ Leaving(k)'
  BY <1>1 DEF Shape, Kept, Holding, Leaving, PastRecord, Served
<1>3. Telling(k)'
  BY <1>1 DEF Shape, Kept, Telling, Served
<1>4. Headers(k)' /\ HeadersSent(k)'
  BY <1>1 DEF Shape, Kept, Headers, HeadersSent
<1>5. Barred(k)'
  BY <1>1 DEF Shape, Kept, Barred
<1> QED
  BY <1>2, <1>3, <1>4, <1>5 DEF Shape

LEMMA OneRequest ==
    ASSUME IInv, NEW r \in Requests, TypeOK', PoolFits', RowsFit', Shape(r)',
           UNCHANGED keyState, \A k \in Requests \ {r} : Kept(k)
    PROVE  IInv'
  BY KeptShape DEF IInv

(* The pool and the locked rows, if r takes a connection or gives it back. *)
LEMMA PoolMoves ==
    ASSUME IInv, NEW r \in Requests,
           \/ Connect(r) \/ UNCHANGED pool \/ pool' = pool \ {r}
    PROVE  PoolFits'
<1>1. IsFiniteSet(pool) /\ Cardinality(pool) \in Nat /\ Cardinality(pool) <= PoolSize
      /\ PoolSize \in Nat
  BY FS_CardinalityType, SessionsAssumption DEF IInv, PoolFits
<1>2. CASE Connect(r)
  BY <1>1, <1>2, FS_AddElement DEF Connect, Free, PoolFits
<1>3. CASE UNCHANGED pool
  BY <1>1, <1>3 DEF PoolFits
<1>4. CASE pool' = pool \ {r}
  BY <1>1, <1>4, FS_RemoveElement DEF PoolFits
<1> QED
  BY <1>2, <1>3, <1>4

LEMMA RowsStay ==
    ASSUME IInv, NEW r \in Requests, UNCHANGED key,
           UNCHANGED locked \/ locked' = locked \ {r}
    PROVE  RowsFit'
  BY DEF IInv, RowsFit

LEMMA LookupStep ==
    ASSUME IInv, NEW r \in Requests, Lookup(r)
    PROVE  IInv'
<1>0. TypeOK /\ Shape(r)
  BY DEF IInv
<1>1. pc[r] = "connecting" /\ r \notin locked
  BY <1>0 DEF Lookup, Shape, Holding, Asking
<1>2. PoolFits' /\ RowsFit'
  BY PoolMoves, RowsStay DEF Lookup, arrival
<1>3. \/ pc' = [pc EXCEPT ![r] = "stamping"] /\ UNCHANGED outcome
         /\ keyState[key[r]] = "live"
      \/ /\ pc' = [pc EXCEPT ![r] = "failing"]
         /\ \E e \in ErrorsOf("invalid_credentials") : outcome' = [outcome EXCEPT ![r] = e]
  BY DEF Lookup, Raise, GoTo
<1>4. TypeOK'
  BY <1>0, <1>3, ErrorFacts, CodeFacts
     DEF TypeOK, Lookup, Connect, arrival, rows, Points, Serving
<1>5. \A k \in Requests \ {r} : Kept(k)
  BY <1>0, <1>3 DEF TypeOK, Kept, Lookup, Connect, arrival, rows
<1>6. \/ pc'[r] = "stamping" /\ outcome'[r] = outcome[r] /\ keyState[key[r]] = "live"
      \/ pc'[r] = "failing" /\ outcome'[r].code = "invalid_credentials"
         /\ outcome'[r] \in ErrorsOf("invalid_credentials")
  BY <1>0, <1>3, ErrorFacts, CodeFacts DEF TypeOK
<1>7. Shape(r)'
  BY <1>0, <1>1, <1>6, CodeFacts, ProviderFacts
     DEF Lookup, arrival, rows, Shape, Holding, Telling, Leaving, PastRecord, Served,
         Headers, HeadersSent, Barred, Turned, Returned, Asking, Unanswered, Background,
         Calling, Serving
<1> QED
  BY <1>2, <1>4, <1>5, <1>7, OneRequest DEF Lookup

(* What Raise and Enter do to the request they are for and to the others.  *)
LEMMA RaiseMoves ==
    ASSUME TypeOK, NEW r \in Requests, NEW code \in Codes, Raise(r, code)
    PROVE  /\ pc' \in [Requests -> Points] /\ outcome' \in [Requests -> Outcomes]
           /\ \A k \in Requests \ {r} : pc'[k] = pc[k] /\ outcome'[k] = outcome[k]
           /\ pc'[r] = "failing" /\ outcome'[r].code = code
           /\ outcome'[r] \in ErrorsOf(code)
<1>1. PICK e \in ErrorsOf(code) : outcome' = [outcome EXCEPT ![r] = e]
  BY DEF Raise
<1>2. e \in Outcomes /\ e.code = code
  BY ErrorFacts
<1> QED
  BY <1>1, <1>2 DEF TypeOK, Raise, GoTo, Points

LEMMA EnterMoves ==
    ASSUME TypeOK, NEW r \in Requests, NEW kd \in DOMAIN FirstAwait, Enter(r, kd),
           stash[r] = IF r \in spent THEN {"X-RateLimit"} ELSE {}
    PROVE  /\ pc' \in [Requests -> Points] /\ outcome' \in [Requests -> Outcomes]
           /\ stash' \in [Requests -> SUBSET HeaderNames] /\ spent' \subseteq Requests
           /\ \A k \in Requests \ {r} :
                 /\ pc'[k] = pc[k] /\ outcome'[k] = outcome[k] /\ stash'[k] = stash[k]
                 /\ k \in spent' <=> k \in spent
           /\ stash'[r] = IF r \in spent' THEN {"X-RateLimit"} ELSE {}
           /\ \/ /\ pc'[r] = "failing" /\ outcome'[r] \in ErrorsOf(outcome'[r].code)
                 /\ outcome'[r].code \in {"rate_limit_exceeded", "validation_error"}
              \/ pc'[r] = FirstAwait[kd] /\ outcome'[r] = outcome[r]
<1>1. CASE Refused(r, kd)
  BY <1>1, RaiseMoves, CodeFacts DEF TypeOK, Refused
<1>2. CASE Invalid(r, kd)
  <2>1. Charge(r) /\ Raise(r, "validation_error")
    BY <1>2 DEF Invalid
  <2> QED
    BY <2>1, RaiseMoves, CodeFacts DEF TypeOK, Charge, HeaderNames
<1>3. CASE Admitted(r, kd)
  <2>1. pc' = [pc EXCEPT ![r] = FirstAwait[kd]] /\ UNCHANGED outcome
    BY <1>3 DEF Admitted, GoTo
  <2>2. FirstAwait[kd] \in Points
    BY DEF FirstAwait, Points, Serving
  <2>3. Charge(r) \/ UNCHANGED <<stash, spent>>
    BY <1>3 DEF Admitted
  <2> QED
    BY <2>1, <2>2, <2>3 DEF TypeOK, Charge, HeaderNames
<1> QED
  BY <1>1, <1>2, <1>3 DEF Enter

-----------------------------------------------------------------------------
(* Arrival and authentication.                                             *)

LEMMA ArriveStep ==
    ASSUME IInv, NEW r \in Requests, Arrive(r)
    PROVE  IInv'
<1>0. TypeOK /\ Shape(r)
  BY DEF IInv
<1> DEFINE Came(kd, k) ==
               Arriving(r, kd, k) /\ kd \in Kinds /\ k \in Keys \cup {NoKey}
<1>1. ASSUME NEW kd, NEW k, Came(kd, k)
      PROVE  /\ pc[r] = "idle" /\ sent[r] = Unsent /\ jobs[r] = "none"
             /\ r \notin pool \cup locked \cup stamped \cup barred
             /\ kind'[r] = kd /\ key'[r] = k
             /\ r \in barred' => k \in Keys /\ keyState[k] = "revoked"
             /\ PoolFits' /\ RowsFit' /\ UNCHANGED <<keyState, sent, session, rows, hurt>>
             /\ kind' \in [Requests -> Kinds] /\ key' \in [Requests -> Keys \cup {NoKey}]
             /\ barred' \subseteq Requests
             /\ \A x \in Requests \ {r} :
                   /\ kind'[x] = kind[x] /\ key'[x] = key[x]
                   /\ x \in barred' <=> x \in barred
  <2>1. /\ pc[r] = "idle" /\ sent[r] = Unsent /\ jobs[r] = "none"
        /\ r \notin pool \cup locked \cup stamped \cup barred
    BY <1>0, <1>1 DEF Arriving, Shape, Holding, Telling, Leaving, Barred, Unanswered
  <2>2. PoolFits'
    BY <1>1, PoolMoves DEF Arriving, session
  <2>3. RowsFit'
    BY <1>0, <1>1, <2>1 DEF IInv, RowsFit, TypeOK, Arriving, session
  <2> QED
    BY <1>0, <1>1, <2>1, <2>2, <2>3 DEF TypeOK, Arriving
<1>2. ASSUME NEW kd, NEW k, Came(kd, k), TypeOK', Shape(r)',
             \A x \in Requests \ {r} :
                /\ pc'[x] = pc[x] /\ outcome'[x] = outcome[x] /\ stash'[x] = stash[x]
                /\ x \in spent' <=> x \in spent
      PROVE  IInv'
  <2>1. /\ PoolFits' /\ RowsFit' /\ UNCHANGED <<keyState, sent, session, rows, hurt>>
        /\ \A x \in Requests \ {r} :
              /\ kind'[x] = kind[x] /\ key'[x] = key[x]
              /\ x \in barred' <=> x \in barred
    BY <1>1, <1>2
  <2>2. /\ sent' = sent /\ pool' = pool /\ locked' = locked /\ stamped' = stamped
        /\ usage' = usage /\ jobs' = jobs /\ hurt' = hurt
    BY <2>1 DEF session, rows
  <2>3. ASSUME NEW x \in Requests \ {r} PROVE Kept(x)
    <3>1. pc'[x] = pc[x] /\ outcome'[x] = outcome[x] /\ stash'[x] = stash[x]
      BY <1>2
    <3>2. x \in spent' <=> x \in spent
      BY <1>2
    <3> QED
      BY <2>1, <2>2, <3>1, <3>2 DEF Kept
  <2> QED
    BY <1>2, <2>1, <2>3, OneRequest
<1>3. ASSUME NEW kd, NEW k, Came(kd, k), NEW code \in Codes, Raise(r, code),
             code = "validation_error" \/ (code = "missing_credentials" /\ k = NoKey),
             UNCHANGED <<stash, spent>>
      PROVE  IInv'
  <2>1. TypeOK'
    BY <1>0, <1>1, <1>3, RaiseMoves DEF TypeOK, session, rows
  <2>2. pc'[r] = "failing" /\ outcome'[r].code = code /\ outcome'[r] \in ErrorsOf(code)
    BY <1>0, <1>3, RaiseMoves
  <2>3. /\ pc[r] = "idle" /\ sent[r] = Unsent /\ jobs[r] = "none"
        /\ r \notin pool \cup locked \cup stamped \cup barred
        /\ kind'[r] = kd /\ key'[r] = k
        /\ r \in barred' => k \in Keys /\ keyState[k] = "revoked"
        /\ UNCHANGED <<keyState, sent, session, rows, hurt>>
    BY <1>1, <1>3
  <2>4. /\ code \in Codes \ (Returned \cup ProviderCodes)
        /\ r \in barred' => code \in Turned
    BY <1>3, <2>3, CodeFacts, ProviderFacts, SessionsAssumption DEF Returned, Turned
  <2>5. Shape(r)'
    BY <1>0, <1>3, <2>2, <2>3, <2>4
       DEF Shape, Holding, Telling, Leaving, PastRecord, Served, Headers, HeadersSent,
           Barred, Asking, Unanswered, Background, Calling, Serving, Unsent, session, rows
  <2> QED
    BY <1>0, <1>2, <1>3, <2>1, <2>5, RaiseMoves
<1>4. CASE ArriveMalformed(r)
  <2>1. PICK kd \in Limited, k \in Keys \cup {NoKey} : Arriving(r, kd, k)
    BY <1>4 DEF ArriveMalformed
  <2>2. Came(kd, k)
    BY <2>1 DEF Limited, Kinds
  <2>3. Raise(r, "validation_error") /\ UNCHANGED <<stash, spent>>
    BY <1>4 DEF ArriveMalformed
  <2>4. "validation_error" \in Codes
    BY CodeFacts
  <2> QED
    BY <1>3, <2>2, <2>3, <2>4
<1>5. CASE ArriveProbe(r)
  <2>1. Came("ready", NoKey)
    BY <1>5 DEF ArriveProbe, Kinds
  <2>2. TypeOK'
    BY <1>0, <1>1, <1>5, <2>1 DEF TypeOK, ArriveProbe, GoTo, Points, session, rows
  <2>3. Shape(r)'
    BY <1>0, <1>1, <1>5, <2>1, SessionsAssumption
       DEF Shape, Holding, Telling, Leaving, PastRecord, Served, Headers, HeadersSent,
           Barred, Turned, Returned, Asking, Unanswered, Background, Calling, Serving,
           TypeOK, ArriveProbe, GoTo, session, rows
  <2> QED
    BY <1>0, <1>2, <1>5, <2>1, <2>2, <2>3 DEF TypeOK, ArriveProbe, GoTo
<1>6. CASE ArriveWithKey(r)
  <2>1. PICK kd \in DOMAIN FirstAwait, k \in Keys : Arriving(r, kd, k)
    BY <1>6 DEF ArriveWithKey
  <2>2. Came(kd, k)
    BY <2>1 DEF FirstAwait, Kinds
  <2>3. TypeOK'
    BY <1>0, <1>1, <1>6, <2>2 DEF TypeOK, ArriveWithKey, GoTo, Points, session, rows
  <2>4. /\ pc' = [pc EXCEPT ![r] = "connecting"] /\ pc'[r] = "connecting"
        /\ UNCHANGED <<outcome, stash, spent>>
    BY <1>0, <1>6 DEF TypeOK, ArriveWithKey, GoTo
  <2>5. /\ pc[r] = "idle" /\ sent[r] = Unsent /\ jobs[r] = "none"
        /\ r \notin pool \cup locked \cup stamped \cup barred
        /\ kind'[r] = kd /\ key'[r] = k
        /\ r \in barred' => keyState[k] = "revoked"
        /\ UNCHANGED <<keyState, sent, session, rows, hurt>>
    BY <1>1, <2>2
  <2>6. Shape(r)'
    BY <1>0, <2>1, <2>4, <2>5
       DEF Shape, Holding, Telling, Leaving, PastRecord, Served, Headers, HeadersSent,
           Barred, Turned, Asking, Unanswered, Background, Calling, Serving, Unsent,
           session, rows
  <2> QED
    BY <1>0, <1>2, <2>2, <2>3, <2>4, <2>6 DEF TypeOK
<1>7. CASE ArriveWithoutKey(r)
  <2>1. PICK kd \in DOMAIN FirstAwait :
           /\ Arriving(r, kd, NoKey)
           /\ \/ Raise(r, "missing_credentials") /\ UNCHANGED <<stash, spent>>
              \/ Enter(r, kd)
    BY <1>7 DEF ArriveWithoutKey
  <2>2. Came(kd, NoKey)
    BY <2>1 DEF FirstAwait, Kinds
  <2>3. CASE Raise(r, "missing_credentials") /\ UNCHANGED <<stash, spent>>
    BY <1>3, <2>2, <2>3, CodeFacts
  <2>4. CASE Enter(r, kd)
    <3>1. stash[r] = IF r \in spent THEN {"X-RateLimit"} ELSE {}
      BY <1>0 DEF Shape, Headers
    <3>2. TypeOK'
      BY <1>0, <1>1, <2>1, <2>2, <2>4, <3>1, EnterMoves DEF TypeOK, session, rows
    <3>3. Shape(r)'
      BY <1>0, <1>1, <2>1, <2>2, <2>4, <3>1, EnterMoves, CodeFacts, ProviderFacts,
         SessionsAssumption
         DEF Shape, Holding, Telling, Leaving, PastRecord, Served, Headers, HeadersSent,
             Barred, Turned, Returned, Asking, Unanswered, Background, Calling, Serving,
             FirstAwait, Limited, session, rows
    <3> QED
      BY <1>0, <1>2, <2>1, <2>2, <2>4, <3>1, <3>2, <3>3, EnterMoves
  <2> QED
    BY <2>1, <2>3, <2>4
<1> QED
  BY <1>4, <1>5, <1>6, <1>7 DEF Arrive

LEMMA StampStep ==
    ASSUME IInv, NEW r \in Requests, Stamp(r)
    PROVE  IInv'
<1>0. TypeOK /\ Shape(r)
  BY DEF IInv
<1>1. pc[r] = "stamping" /\ key[r] \in Keys /\ kind[r] \in DOMAIN FirstAwait
  BY <1>0 DEF Stamp, Shape, Holding, Asking
<1>2. PoolFits' /\ RowsFit'
  BY <1>0, PoolMoves DEF IInv, RowsFit, Stamp, RowFree, arrival
<1>3. Enter(r, kind[r]) /\ stash[r] = IF r \in spent THEN {"X-RateLimit"} ELSE {}
  BY <1>0 DEF Stamp, Shape, Headers
<1>4. TypeOK'
  BY <1>0, <1>1, <1>3, EnterMoves DEF TypeOK, Stamp, arrival, rows
<1>5. \A k \in Requests \ {r} : Kept(k)
  BY <1>0, <1>1, <1>3, EnterMoves DEF Kept, Stamp, arrival, rows
<1>6. Shape(r)'
  BY <1>0, <1>1, <1>3, EnterMoves, CodeFacts, ProviderFacts
     DEF Shape, Holding, Telling, Leaving, PastRecord, Served, Headers, HeadersSent,
         Barred, Turned, Returned, Asking, Unanswered, Background, Calling, Serving,
         FirstAwait, Limited, Stamp, arrival, rows
<1> QED
  BY <1>2, <1>4, <1>5, <1>6, OneRequest DEF Stamp

LEMMA LookupFailsStep ==
    ASSUME IInv, NEW r \in Requests, LookupFails(r)
    PROVE  IInv'
<1>0. TypeOK /\ Shape(r)
  BY DEF IInv
<1>1. /\ pc[r] = "connecting" /\ hurt' = hurt \cup {r}
      /\ Connect(r) \/ UNCHANGED pool
      /\ Raise(r, "internal_error")
  BY DEF LookupFails, Fault
<1>2. PoolFits' /\ RowsFit'
  BY <1>1, PoolMoves, RowsStay DEF LookupFails, arrival
<1>3. TypeOK'
  BY <1>0, <1>1, RaiseMoves, CodeFacts
     DEF TypeOK, LookupFails, Connect, arrival, rows
<1>4. \A k \in Requests \ {r} : Kept(k)
  BY <1>0, <1>1, RaiseMoves, CodeFacts
     DEF Kept, LookupFails, Connect, arrival, rows
<1>5. Shape(r)'
  BY <1>0, <1>1, RaiseMoves, CodeFacts, ProviderFacts
     DEF Shape, Holding, Telling, Leaving, PastRecord, Served, Headers, HeadersSent,
         Barred, Turned, Returned, Asking, Unanswered, Background, Calling, Serving,
         LookupFails, arrival, rows
<1> QED
  BY <1>2, <1>3, <1>4, <1>5, OneRequest DEF LookupFails

LEMMA StampFailsStep ==
    ASSUME IInv, NEW r \in Requests, StampFails(r)
    PROVE  IInv'
<1>0. TypeOK /\ Shape(r)
  BY DEF IInv
<1>1. /\ pc[r] = "stamping" /\ hurt' = hurt \cup {r}
      /\ UNCHANGED <<pool, locked, stamped>>
      /\ Raise(r, "internal_error")
  BY DEF StampFails, session
<1>2. PoolFits' /\ RowsFit'
  BY <1>1, PoolMoves, RowsStay DEF StampFails, arrival
<1>3. TypeOK'
  BY <1>0, <1>1, RaiseMoves, CodeFacts
     DEF TypeOK, StampFails, arrival, rows
<1>4. \A k \in Requests \ {r} : Kept(k)
  BY <1>0, <1>1, RaiseMoves, CodeFacts
     DEF Kept, StampFails, arrival, rows
<1>5. Shape(r)'
  BY <1>0, <1>1, RaiseMoves, CodeFacts, ProviderFacts
     DEF Shape, Holding, Telling, Leaving, PastRecord, Served, Headers, HeadersSent,
         Barred, Turned, Returned, Asking, Unanswered, Background, Calling, Serving,
         StampFails, arrival, rows
<1> QED
  BY <1>2, <1>3, <1>4, <1>5, OneRequest DEF StampFails

-----------------------------------------------------------------------------
(* The endpoints and the background task.                                  *)

LEMMA CompleteStep ==
    ASSUME IInv, NEW r \in Requests, Complete(r)
    PROVE  IInv'
<1>0. TypeOK /\ Shape(r) /\ pc[r] = "calling"
  BY DEF IInv, Complete
<1>1. /\ pc' \in [Requests -> Points] /\ outcome' \in [Requests -> Outcomes]
      /\ \A x \in Requests \ {r} : pc'[x] = pc[x] /\ outcome'[x] = outcome[x]
      /\ outcome'[r] \in ErrorsOf(outcome'[r].code)
      /\ \/ pc'[r] = "recording" /\ outcome'[r].code \in ProviderCodes /\ UNCHANGED hurt
         \/ pc'[r] = "failing" /\ outcome'[r].code = "internal_error" /\ hurt' = hurt \cup {r}
  <2>1. CASE \E code \in ProviderCodes :
                /\ \E o \in ErrorsOf(code) : outcome' = [outcome EXCEPT ![r] = o]
                /\ GoTo(r, "recording")
                /\ UNCHANGED hurt
    <3>1. PICK code \in ProviderCodes :
             \E o \in ErrorsOf(code) : outcome' = [outcome EXCEPT ![r] = o]
      BY <2>1
    <3>2. \A o \in ErrorsOf(code) : o \in Outcomes /\ o.code = code
      BY ErrorFacts, ProviderFacts
    <3>3. pc' = [pc EXCEPT ![r] = "recording"] /\ UNCHANGED hurt
      BY <2>1 DEF GoTo
    <3> QED
      BY <1>0, <3>1, <3>2, <3>3 DEF TypeOK, Points, Serving
  <2>2. CASE Raise(r, "internal_error") /\ hurt' = hurt \cup {r}
    BY <1>0, <2>2, RaiseMoves, CodeFacts
  <2> QED
    BY <2>1, <2>2 DEF Complete
<1>2. PoolFits' /\ RowsFit'
  BY PoolMoves, RowsStay DEF Complete, arrival, session
<1>3. TypeOK'
  BY <1>0, <1>1 DEF TypeOK, Complete, arrival, session, rows
<1>4. \A k \in Requests \ {r} : Kept(k)
  BY <1>1 DEF Kept, Complete, arrival, session, rows
<1>5. UNCHANGED <<keyState, arrival, stash, sent, session, rows, spent>>
  BY DEF Complete
<1>6. Shape(r)'
  BY <1>0, <1>1, <1>5, CodeFacts, ProviderFacts
     DEF Shape, Holding, Telling, Leaving, PastRecord, Served, Headers, HeadersSent,
         Barred, Returned, Asking, Unanswered, Background, Calling, Serving, Limited,
         arrival, session, rows
<1> QED
  BY <1>2, <1>3, <1>4, <1>6, OneRequest DEF Complete

LEMMA RecordStep ==
    ASSUME IInv, NEW r \in Requests, Record(r)
    PROVE  IInv'
<1>0. TypeOK /\ Shape(r) /\ pc[r] = "recording"
  BY DEF IInv, Record
<1>1. /\ pc' \in [Requests -> Points] /\ \A x \in Requests \ {r} : pc'[x] = pc[x]
      /\ \/ pc'[r] = "settling" /\ kind[r] = "submit"
         \/ pc'[r] = "answering" /\ kind[r] = "complete" /\ outcome[r].code = "ok"
         \/ pc'[r] = "failing" /\ kind[r] = "complete" /\ outcome[r].code # "ok"
  <2>1. kind[r] \in {"submit", "complete"}
    BY <1>0 DEF Shape, Telling, Calling, Limited
  <2>2. /\ AfterRecord(r) \in {"settling", "answering", "failing"}
        /\ AfterRecord(r) = "settling" => kind[r] = "submit"
        /\ AfterRecord(r) = "answering" => kind[r] = "complete" /\ outcome[r].code = "ok"
        /\ AfterRecord(r) = "failing" => kind[r] = "complete" /\ outcome[r].code # "ok"
    BY <2>1 DEF AfterRecord
  <2>3. pc' = [pc EXCEPT ![r] = AfterRecord(r)]
    BY DEF Record, GoTo
  <2>4. AfterRecord(r) \in Points
    BY <2>2 DEF Points, Serving
  <2>5. /\ pc' \in [Requests -> Points] /\ pc'[r] = AfterRecord(r)
        /\ \A x \in Requests \ {r} : pc'[x] = pc[x]
    BY <1>0, <2>3, <2>4 DEF TypeOK
  <2> QED
    BY <2>2, <2>5
<1>2. /\ UNCHANGED jobs
      /\ usage' = usage \/ usage' = usage \cup {r}
      /\ hurt' = hurt \/ hurt' = hurt \cup {r}
      /\ key[r] # NoKey => r \in usage' \/ r \in hurt'
  BY DEF Record, Commits, Fails, Fault, rows
<1>3. PoolFits' /\ RowsFit'
  BY PoolMoves, RowsStay DEF Record, arrival, session
<1>4. TypeOK'
  BY <1>0, <1>1, <1>2 DEF TypeOK, Record, arrival, session
<1>5. \A k \in Requests \ {r} : Kept(k)
  BY <1>1, <1>2 DEF Kept, Record, arrival, session
<1>6. Shape(r)'
  BY <1>0, <1>1, <1>2, ProviderFacts
     DEF Shape, Holding, Telling, Leaving, PastRecord, Served, Headers, HeadersSent,
         Barred, Returned, Asking, Unanswered, Background, Calling, Serving,
         Record, arrival, session
<1> QED
  BY <1>3, <1>4, <1>5, <1>6, OneRequest DEF Record

(* A write of the job's row, of which a failure may leave the effect.      *)
LEMMA JobMoves ==
    ASSUME TypeOK, NEW r \in Requests, NEW s \in {"pending", "running"} \cup Final,
           SetJob(r, s) \/ UNCHANGED rows
    PROVE  /\ jobs' \in [Requests -> {"none", "pending", "running"} \cup Final]
           /\ UNCHANGED usage
           /\ \A x \in Requests \ {r} : jobs'[x] = jobs[x]
           /\ jobs'[r] \in {jobs[r], s}
           /\ SetJob(r, s) => jobs'[r] = s
  BY DEF TypeOK, SetJob, rows

LEMMA StoreStep ==
    ASSUME IInv, NEW r \in Requests, Store(r)
    PROVE  IInv'
<1>0. TypeOK /\ Shape(r) /\ pc[r] = "storing"
  BY DEF IInv, Store
<1>1. /\ pc' \in [Requests -> Points] /\ outcome' \in [Requests -> Outcomes]
      /\ \A x \in Requests \ {r} : pc'[x] = pc[x] /\ outcome'[x] = outcome[x]
      /\ \/ /\ pc'[r] = "answering" /\ UNCHANGED outcome
            /\ SetJob(r, "pending") /\ UNCHANGED hurt
         \/ /\ pc'[r] = "failing" /\ outcome'[r].code = "internal_error"
            /\ outcome'[r] \in ErrorsOf("internal_error")
            /\ \/ (SetJob(r, "pending") \/ UNCHANGED rows) /\ hurt' = hurt \cup {r}
               \/ UNCHANGED <<rows, hurt>>
  <2>1. CASE GoTo(r, "answering") /\ UNCHANGED outcome /\ Commits(SetJob(r, "pending"))
    BY <1>0, <2>1 DEF TypeOK, GoTo, Commits, Points, Serving
  <2>2. CASE Raise(r, "internal_error") /\ Fails(r, key[r] # NoKey /\ SetJob(r, "pending"))
    BY <1>0, <2>2, RaiseMoves, CodeFacts DEF Fails, Fault
  <2>3. CASE Raise(r, "internal_error") /\ UNCHANGED <<rows, hurt>>
    BY <1>0, <2>3, RaiseMoves, CodeFacts
  <2> QED
    BY <2>1, <2>2, <2>3 DEF Store
<1>2. /\ jobs' \in [Requests -> {"none", "pending", "running"} \cup Final]
      /\ UNCHANGED usage /\ \A x \in Requests \ {r} : jobs'[x] = jobs[x]
      /\ hurt' = hurt \/ hurt' = hurt \cup {r}
      /\ pc'[r] = "answering" => jobs'[r] = "pending"
      /\ jobs'[r] \in {jobs[r], "pending"}
  <2>1. CASE pc'[r] = "answering" /\ SetJob(r, "pending") /\ UNCHANGED hurt
    BY <1>0, <2>1, JobMoves
  <2>2. CASE /\ pc'[r] = "failing" /\ hurt' = hurt \cup {r}
             /\ SetJob(r, "pending") \/ UNCHANGED rows
    BY <1>0, <2>2, JobMoves
  <2>3. CASE UNCHANGED <<rows, hurt>> /\ pc'[r] = "failing"
    BY <1>0, <2>3 DEF TypeOK, rows
  <2> QED
    BY <1>1, <2>1, <2>2, <2>3
<1>3. PoolFits' /\ RowsFit'
  BY PoolMoves, RowsStay DEF Store, arrival, session
<1>4. TypeOK'
  BY <1>0, <1>1, <1>2 DEF TypeOK, Store, arrival, session
<1>5. \A k \in Requests \ {r} : Kept(k)
  BY <1>1, <1>2 DEF Kept, Store, arrival, session
<1>6. Shape(r)'
  BY <1>0, <1>1, <1>2, CodeFacts, ProviderFacts
     DEF Shape, Holding, Telling, Leaving, PastRecord, Served, Headers, HeadersSent,
         Barred, Returned, Asking, Unanswered, Background, Calling, Serving,
         Store, arrival, session
<1> QED
  BY <1>3, <1>4, <1>5, <1>6, OneRequest DEF Store

LEMMA ReadStep ==
    ASSUME IInv, NEW r \in Requests, Read(r)
    PROVE  IInv'
<1>0. TypeOK /\ Shape(r) /\ pc[r] = "reading"
  BY DEF IInv, Read
<1>1. /\ pc' \in [Requests -> Points] /\ outcome' \in [Requests -> Outcomes]
      /\ \A x \in Requests \ {r} : pc'[x] = pc[x] /\ outcome'[x] = outcome[x]
      /\ hurt' = hurt \/ hurt' = hurt \cup {r}
      /\ \/ pc'[r] = "answering" /\ UNCHANGED outcome
         \/ /\ pc'[r] = "failing" /\ outcome'[r] \in ErrorsOf(outcome'[r].code)
            /\ outcome'[r].code \in {"job_not_found", "internal_error"}
  <2>1. CASE GoTo(r, "answering") /\ UNCHANGED <<outcome, hurt>>
    BY <1>0, <2>1 DEF TypeOK, GoTo, Points, Serving
  <2>2. CASE Raise(r, "job_not_found") /\ UNCHANGED hurt
    BY <1>0, <2>2, RaiseMoves, CodeFacts
  <2>3. CASE Raise(r, "internal_error") /\ Fault(r)
    BY <1>0, <2>3, RaiseMoves, CodeFacts DEF Fault
  <2> QED
    BY <2>1, <2>2, <2>3 DEF Read
<1>2. PoolFits' /\ RowsFit'
  BY PoolMoves, RowsStay DEF Read, arrival, session
<1>3. TypeOK'
  BY <1>0, <1>1 DEF TypeOK, Read, arrival, session, rows
<1>4. \A k \in Requests \ {r} : Kept(k)
  BY <1>1 DEF Kept, Read, arrival, session, rows
<1>5. UNCHANGED <<keyState, arrival, stash, sent, session, rows, spent>>
  BY DEF Read
<1>6. Shape(r)'
  BY <1>0, <1>1, <1>5, CodeFacts, ProviderFacts
     DEF Shape, Holding, Telling, Leaving, PastRecord, Served, Headers, HeadersSent,
         Barred, Returned, Asking, Unanswered, Background, Calling, Serving, Limited,
         arrival, session, rows
<1> QED
  BY <1>2, <1>3, <1>4, <1>6, OneRequest DEF Read

LEMMA ProbeStep ==
    ASSUME IInv, NEW r \in Requests, Probe(r)
    PROVE  IInv'
<1>0. TypeOK /\ Shape(r) /\ pc[r] = "probing"
  BY DEF IInv, Probe
<1>1. pc' = [pc EXCEPT ![r] = "checking"] /\ (Connect(r) \/ UNCHANGED pool)
      /\ UNCHANGED <<keyState, arrival, stash, sent, locked, stamped, rows, spent>>
  BY DEF Probe, GoTo
<1>2. \/ UNCHANGED <<outcome, hurt>>
      \/ outcome' = [outcome EXCEPT ![r] = Return("degraded")] /\ hurt' = hurt \cup {r}
  BY DEF Probe, Fault
<1>3. Return("degraded") \in Outcomes /\ Return("degraded").code \in Returned
  BY DEF Return, Outcomes, Returned
<1>4. /\ pc' \in [Requests -> Points] /\ outcome' \in [Requests -> Outcomes]
      /\ \A x \in Requests \ {r} : pc'[x] = pc[x] /\ outcome'[x] = outcome[x]
      /\ pc'[r] = "checking" /\ outcome'[r].code \in Returned
  BY <1>0, <1>1, <1>2, <1>3 DEF TypeOK, Points, Shape, Telling, Unanswered
<1>5. PoolFits' /\ RowsFit'
  BY <1>1, PoolMoves, RowsStay DEF arrival
<1>6. TypeOK'
  BY <1>0, <1>1, <1>2, <1>4 DEF TypeOK, Connect, arrival, rows
<1>7. \A k \in Requests \ {r} : Kept(k)
  BY <1>1, <1>2, <1>4 DEF Kept, Connect, arrival, rows
<1>8. Shape(r)'
  BY <1>0, <1>1, <1>4
     DEF Shape, Holding, Telling, Leaving, PastRecord, Served, Headers, HeadersSent,
         Barred, Asking, Unanswered, Background, Calling, Serving, Limited, arrival, rows
<1> QED
  BY <1>1, <1>5, <1>6, <1>7, <1>8, OneRequest

LEMMA CheckStep ==
    ASSUME IInv, NEW r \in Requests, Check(r)
    PROVE  IInv'
<1>0. TypeOK /\ Shape(r) /\ pc[r] = "checking"
  BY DEF IInv, Check
<1>1. /\ pc' = [pc EXCEPT ![r] = "answering"]
      /\ \E o \in {outcome[r], Return("degraded")} : outcome' = [outcome EXCEPT ![r] = o]
      /\ UNCHANGED <<keyState, arrival, stash, sent, session, rows, spent, hurt>>
  BY DEF Check, GoTo
<1>2. Return("degraded") \in Outcomes /\ Return("degraded").code \in Returned
  BY DEF Return, Outcomes, Returned
<1>3. /\ pc' \in [Requests -> Points] /\ outcome' \in [Requests -> Outcomes]
      /\ \A x \in Requests \ {r} : pc'[x] = pc[x] /\ outcome'[x] = outcome[x]
      /\ pc'[r] = "answering" /\ outcome'[r].code \in Returned
  BY <1>0, <1>1, <1>2 DEF TypeOK, Points, Serving, Shape, Telling, Unanswered
<1>4. PoolFits' /\ RowsFit'
  BY <1>1, PoolMoves, RowsStay DEF arrival, session
<1>5. TypeOK'
  BY <1>0, <1>1, <1>3 DEF TypeOK, arrival, session, rows
<1>6. \A k \in Requests \ {r} : Kept(k)
  BY <1>1, <1>3 DEF Kept, arrival, session, rows
<1>7. Shape(r)'
  BY <1>0, <1>1, <1>3
     DEF Shape, Holding, Telling, Leaving, PastRecord, Served, Headers, HeadersSent,
         Barred, Asking, Unanswered, Background, Calling, Serving, Limited,
         arrival, session, rows
<1> QED
  BY <1>1, <1>4, <1>5, <1>6, <1>7, OneRequest

LEMMA RespondStep ==
    ASSUME IInv, NEW r \in Requests, Respond(r)
    PROVE  IInv'
<1>0. TypeOK /\ Shape(r) /\ pc[r] = "answering"
  BY DEF IInv, Respond
<1>1. sent[r] = Unsent /\ outcome[r].code \in Returned /\ Headers(r)
  BY <1>0 DEF Shape, Telling, Unanswered
<1>2. /\ sent' = [sent EXCEPT ![r] = Response(stash[r], outcome[r])]
      /\ pc' = [pc EXCEPT ![r] = IF kind[r] = "submit" THEN "queued" ELSE "leaving"]
      /\ UNCHANGED <<keyState, arrival, outcome, stash, session, rows, spent, hurt>>
  BY DEF Respond, GoTo
<1>3. sent'[r] = Response(stash[r], outcome[r])
  BY <1>0, <1>2 DEF TypeOK
<1>4. /\ sent'[r] \in Outcomes /\ sent'[r].code = outcome[r].code
      /\ sent'[r] # Unsent /\ HeadersSent(r)'
  BY <1>0, <1>1, <1>2, <1>3, AnswerFacts
<1>5. /\ sent' \in [Requests -> Outcomes \cup {Unsent}] /\ pc' \in [Requests -> Points]
      /\ \A x \in Requests \ {r} : pc'[x] = pc[x] /\ sent'[x] = sent[x]
      /\ \/ pc'[r] = "queued" /\ kind[r] = "submit"
         \/ pc'[r] = "leaving" /\ kind[r] # "submit"
  BY <1>0, <1>2, <1>3, <1>4 DEF TypeOK, Points, Serving
<1>6. PoolFits' /\ RowsFit'
  BY <1>2, PoolMoves, RowsStay DEF arrival, session
<1>7. TypeOK'
  BY <1>0, <1>2, <1>5 DEF TypeOK, arrival, session, rows
<1>8. \A k \in Requests \ {r} : Kept(k)
  BY <1>2, <1>5 DEF Kept, arrival, session, rows
<1>9. Shape(r)'
  BY <1>0, <1>1, <1>2, <1>4, <1>5
     DEF Shape, Holding, Telling, Leaving, PastRecord, Served, Headers, Limited,
         Barred, Asking, Unanswered, Background, Calling, Serving, arrival, session, rows
<1> QED
  BY <1>2, <1>6, <1>7, <1>8, <1>9, OneRequest

(* What an update of the job's row does, and to whom.                      *)
LEMMA UpdateMoves ==
    ASSUME TypeOK, NEW r \in Requests, NEW s \in {"running"} \cup Final,
           NEW point \in {"calling", "noting"}, Update(r, s, point)
    PROVE  /\ pc' \in [Requests -> Points] /\ outcome' \in [Requests -> Outcomes]
           /\ jobs' \in [Requests -> {"none", "pending", "running"} \cup Final]
           /\ \A x \in Requests \ {r} :
                 pc'[x] = pc[x] /\ outcome'[x] = outcome[x] /\ jobs'[x] = jobs[x]
           /\ UNCHANGED <<keyState, arrival, stash, sent, session, spent>>
           /\ UNCHANGED usage
           /\ \/ /\ pc'[r] = point /\ jobs'[r] = s
                 /\ UNCHANGED <<outcome, hurt>>
              \/ /\ pc'[r] = "failing" /\ jobs'[r] \in {jobs[r], s}
                 /\ outcome'[r].code = "internal_error"
                 /\ outcome'[r] \in ErrorsOf("internal_error")
                 /\ hurt' = hurt \cup {r}
<1>1. CASE SetJob(r, s) /\ UNCHANGED <<outcome, hurt>> /\ GoTo(r, point)
  <2>1. point \in Points
    BY DEF Points, Serving
  <2> QED
    BY <1>1, <2>1, JobMoves DEF TypeOK, GoTo, Update
<1>2. CASE /\ SetJob(r, s) \/ UNCHANGED rows
           /\ hurt' = hurt \cup {r} /\ Raise(r, "internal_error")
  BY <1>2, JobMoves, RaiseMoves, CodeFacts DEF Update
<1>3. Commits(SetJob(r, s)) => SetJob(r, s) /\ UNCHANGED hurt
  BY DEF Commits
<1>4. Fails(r, SetJob(r, s)) =>
         (SetJob(r, s) \/ UNCHANGED rows) /\ hurt' = hurt \cup {r}
  BY DEF Fails, Fault
<1> QED
  BY <1>1, <1>2, <1>3, <1>4 DEF Update

LEMMA BeginStep ==
    ASSUME IInv, NEW r \in Requests, Begin(r)
    PROVE  IInv'
<1>0. TypeOK /\ Shape(r) /\ pc[r] = "queued" /\ Update(r, "running", "calling")
  BY DEF IInv, Begin
<1>1. UNCHANGED <<keyState, arrival, stash, sent, session, spent>> /\ UNCHANGED usage
  BY <1>0, UpdateMoves
<1>2. PoolFits' /\ RowsFit'
  BY <1>1, PoolMoves, RowsStay DEF arrival, session
<1>3. TypeOK'
  BY <1>0, <1>1, UpdateMoves DEF TypeOK, arrival, session
<1>4. \A k \in Requests \ {r} : Kept(k)
  BY <1>0, <1>1, UpdateMoves DEF Kept, arrival, session
<1>5. /\ kind[r] = "submit" /\ Served(r)
      /\ \/ pc'[r] = "calling" /\ jobs'[r] = "running" /\ UNCHANGED <<outcome, hurt>>
         \/ /\ pc'[r] = "failing" /\ outcome'[r].code = "internal_error"
            /\ outcome'[r] \in ErrorsOf("internal_error") /\ hurt' = hurt \cup {r}
  BY <1>0, UpdateMoves DEF Shape, Telling, Background
<1>6. Shape(r)'
  BY <1>0, <1>1, <1>5, CodeFacts, ProviderFacts
     DEF Shape, Holding, Telling, Leaving, PastRecord, Served, Headers, HeadersSent, Barred,
         Returned, Asking, Unanswered, Background, Calling, Serving, Limited,
         arrival, session
<1> QED
  BY <1>1, <1>2, <1>3, <1>4, <1>6, OneRequest

LEMMA SettleStep ==
    ASSUME IInv, NEW r \in Requests, Settle(r)
    PROVE  IInv'
<1>0. TypeOK /\ Shape(r) /\ pc[r] = "settling"
  BY DEF IInv, Settle
<1>1. PICK s \in Final : Update(r, s, "noting")
  <2> DEFINE S == IF outcome[r].code = "ok" THEN "succeeded" ELSE "failed"
  <2>1. S \in Final /\ Update(r, S, "noting")
    BY DEF Settle, Final
  <2> QED
    BY <2>1
<1>2. UNCHANGED <<keyState, arrival, stash, sent, session, spent>> /\ UNCHANGED usage
  BY <1>0, <1>1, UpdateMoves
<1>3. PoolFits' /\ RowsFit'
  BY <1>2, PoolMoves, RowsStay DEF arrival, session
<1>4. TypeOK'
  <2>1. /\ pc' \in [Requests -> Points] /\ outcome' \in [Requests -> Outcomes]
        /\ jobs' \in [Requests -> {"none", "pending", "running"} \cup Final]
        /\ hurt' = hurt \/ hurt' = hurt \cup {r}
    BY <1>0, <1>1, UpdateMoves
  <2> QED
    BY <1>0, <1>2, <2>1 DEF TypeOK, arrival, session
<1>5. \A k \in Requests \ {r} : Kept(k)
  BY <1>0, <1>1, <1>2, UpdateMoves DEF Kept, arrival, session
<1>6. /\ kind[r] = "submit" /\ Served(r)
      /\ \/ pc'[r] = "noting" /\ jobs'[r] \in Final /\ UNCHANGED <<outcome, hurt>>
         \/ /\ pc'[r] = "failing" /\ outcome'[r].code = "internal_error"
            /\ outcome'[r] \in ErrorsOf("internal_error") /\ hurt' = hurt \cup {r}
  BY <1>0, <1>1, UpdateMoves DEF Shape, Telling, Background
<1>7. Shape(r)'
  BY <1>0, <1>2, <1>6, CodeFacts, ProviderFacts
     DEF Shape, Holding, Telling, Leaving, PastRecord, Served, Headers, HeadersSent, Barred,
         Returned, Asking, Unanswered, Background, Calling, Serving, Limited,
         arrival, session
<1> QED
  BY <1>2, <1>3, <1>4, <1>5, <1>7, OneRequest

LEMMA NoteStep ==
    ASSUME IInv, NEW r \in Requests, Note(r)
    PROVE  IInv'
<1>0. TypeOK /\ Shape(r) /\ pc[r] = "noting"
  BY DEF IInv, Note
<1>1. /\ pc' \in [Requests -> Points] /\ outcome' \in [Requests -> Outcomes]
      /\ \A x \in Requests \ {r} : pc'[x] = pc[x] /\ outcome'[x] = outcome[x]
      /\ hurt' = hurt \/ hurt' = hurt \cup {r}
      /\ \/ pc'[r] = "leaving" /\ UNCHANGED outcome
         \/ /\ pc'[r] = "failing" /\ outcome'[r].code = "internal_error"
            /\ outcome'[r] \in ErrorsOf("internal_error") /\ r \in hurt'
  <2>1. CASE GoTo(r, "leaving") /\ UNCHANGED outcome
    BY <1>0, <2>1 DEF TypeOK, GoTo, Points, Serving, Note, Fault
  <2>2. CASE Raise(r, "internal_error") /\ hurt' = hurt \cup {r}
    BY <1>0, <2>2, RaiseMoves, CodeFacts
  <2> QED
    BY <2>1, <2>2 DEF Note, Fault
<1>2. UNCHANGED <<keyState, arrival, stash, sent, session, rows, spent>>
  BY DEF Note
<1>3. PoolFits' /\ RowsFit'
  BY <1>2, PoolMoves, RowsStay DEF arrival, session
<1>4. TypeOK'
  BY <1>0, <1>1, <1>2 DEF TypeOK, arrival, session, rows
<1>5. \A k \in Requests \ {r} : Kept(k)
  BY <1>1, <1>2 DEF Kept, arrival, session, rows
<1>6. Shape(r)'
  BY <1>0, <1>1, <1>2, CodeFacts, ProviderFacts
     DEF Shape, Holding, Telling, Leaving, PastRecord, Served, Headers, HeadersSent, Barred,
         Returned, Asking, Unanswered, Background, Calling, Serving, Limited,
         arrival, session, rows
<1> QED
  BY <1>2, <1>3, <1>4, <1>5, <1>6, OneRequest

-----------------------------------------------------------------------------
(* The end of a session.                                                   *)

LEMMA CommitStep ==
    ASSUME IInv, NEW r \in Requests, Commit(r)
    PROVE  IInv'
<1>0. TypeOK /\ Shape(r) /\ pc[r] = "leaving"
  BY DEF IInv, Commit
<1>1. /\ pool' = pool \ {r} /\ locked' = locked \ {r} /\ pc' = [pc EXCEPT ![r] = "done"]
      /\ UNCHANGED <<keyState, arrival, outcome, stash, sent, rows, spent>>
  BY DEF Commit, Close, GoTo
<1>2. \/ stamped' = stamped \cup (locked \cap {r}) /\ UNCHANGED hurt
      \/ /\ stamped' = stamped \cup (locked \cap {r}) \/ UNCHANGED stamped
         /\ hurt' = hurt \cup {r}
  BY DEF Commit
<1>3. pc'[r] = "done" /\ \A x \in Requests \ {r} : pc'[x] = pc[x]
  BY <1>0, <1>1 DEF TypeOK
<1>4. PoolFits' /\ RowsFit'
  BY <1>1, PoolMoves, RowsStay DEF arrival
<1>5. TypeOK'
  BY <1>0, <1>1, <1>2 DEF TypeOK, Points, arrival, rows
<1>6. \A k \in Requests \ {r} : Kept(k)
  BY <1>1, <1>2, <1>3 DEF Kept, arrival, rows
<1>7. Shape(r)'
  BY <1>0, <1>1, <1>2, <1>3
     DEF Shape, Holding, Telling, Leaving, PastRecord, Served, Headers, HeadersSent, Barred,
         Asking, Unanswered, Background, Calling, Serving, Limited, arrival, rows
<1> QED
  BY <1>1, <1>4, <1>5, <1>6, <1>7, OneRequest

LEMMA RollbackStep ==
    ASSUME IInv, NEW r \in Requests, Rollback(r)
    PROVE  IInv'
<1>0. TypeOK /\ Shape(r) /\ pc[r] = "failing"
  BY DEF IInv, Rollback
<1>1. /\ pool' = pool \ {r} /\ locked' = locked \ {r} /\ pc' = [pc EXCEPT ![r] = "done"]
      /\ UNCHANGED <<keyState, arrival, outcome, stash, stamped, rows, spent, hurt>>
  BY DEF Rollback, Close, GoTo
<1>2. sent' = [sent EXCEPT ![r] = IF sent[r] = Unsent THEN Response(stash[r], outcome[r])
                                  ELSE sent[r]]
  BY <1>0 DEF Rollback, AnswerError, TypeOK
<1>3. /\ pc'[r] = "done" /\ \A x \in Requests \ {r} : pc'[x] = pc[x] /\ sent'[x] = sent[x]
      /\ sent'[r] = IF sent[r] = Unsent THEN Response(stash[r], outcome[r]) ELSE sent[r]
  BY <1>0, <1>1, <1>2 DEF TypeOK
<1>4. /\ HeadersSent(r)' /\ sent'[r] \in Outcomes \cup {Unsent} /\ sent'[r] # Unsent
      /\ \/ sent[r] = Unsent /\ sent'[r].code = outcome[r].code
         \/ sent[r] # Unsent /\ sent'[r] = sent[r]
  <2>1. CASE sent[r] = Unsent
    BY <1>0, <1>1, <1>3, <2>1, AnswerFacts DEF Shape
  <2>2. CASE sent[r] # Unsent
    BY <1>0, <1>1, <1>3, <2>2 DEF TypeOK, Shape, HeadersSent
  <2> QED
    BY <2>1, <2>2
<1>5. PoolFits' /\ RowsFit'
  BY <1>1, PoolMoves, RowsStay DEF arrival
<1>6. TypeOK'
  BY <1>0, <1>1, <1>2, <1>3, <1>4 DEF TypeOK, Points, arrival, rows
<1>7. \A k \in Requests \ {r} : Kept(k)
  BY <1>1, <1>3 DEF Kept, arrival, rows
<1>8. sent'[r].code = "ok" => r \in hurt
  BY <1>0, <1>4 DEF Shape, Telling, Returned
<1>9. Shape(r)'
  BY <1>0, <1>1, <1>3, <1>4, <1>8
     DEF Shape, Holding, Telling, Leaving, PastRecord, Served, Headers, Barred, Turned,
         Asking, Unanswered, Background, Calling, Serving, Limited, arrival, rows
<1> QED
  BY <1>1, <1>5, <1>6, <1>7, <1>9, OneRequest

-----------------------------------------------------------------------------
(* The invariant.                                                          *)

LEMMA InitHolds == Init => IInv
<1> SUFFICES ASSUME Init PROVE IInv
  OBVIOUS
<1>1. Return("ok") \in Outcomes /\ Return("ok").code \in Returned
  BY CodeFacts DEF Return, Outcomes, Returned
<1>2. TypeOK
  BY <1>1 DEF Init, TypeOK, Kinds, Points
<1>3. PoolFits /\ RowsFit
  BY FS_EmptySet, SessionsAssumption DEF Init, PoolFits, RowsFit
<1>4. ASSUME NEW r \in Requests PROVE Shape(r)
  BY <1>1 DEF Init, Shape, Holding, Telling, Leaving, PastRecord, Served, Headers,
              HeadersSent, Barred, Asking, Unanswered, Background, Calling, Serving, Unsent
<1> QED
  BY <1>2, <1>3, <1>4 DEF IInv

LEMMA KeyStep ==
    ASSUME IInv, NEW k \in Keys, Issue(k) \/ Revoke(k)
    PROVE  IInv'
<1>1. /\ keyState' \in [Keys -> KeyStates]
      /\ \A x \in Keys : keyState[x] = "revoked" => keyState'[x] = "revoked"
  BY DEF IInv, TypeOK, KeyStates, Issue, Revoke
<1>2. UNCHANGED <<arrival, pc, outcome, stash, sent, session, rows, spent, hurt>>
  BY DEF Issue, Revoke
<1>3. \A r \in Requests : Shape(r)'
  BY <1>1, <1>2, KeptShape DEF Kept, arrival, session, rows
<1>4. TypeOK'
  BY <1>1, <1>2 DEF IInv, TypeOK, arrival, session, rows
<1>5. PoolFits' /\ RowsFit'
  BY <1>2 DEF IInv, PoolFits, RowsFit, arrival, session
<1> QED
  BY <1>3, <1>4, <1>5 DEF IInv

LEMMA StutterStep ==
    ASSUME IInv, UNCHANGED vars
    PROVE  IInv'
<1>1. \A r \in Requests : Shape(r)'
  BY KeptShape DEF Kept, vars, arrival, session, rows
<1>2. TypeOK' /\ PoolFits' /\ RowsFit'
  BY DEF IInv, TypeOK, PoolFits, RowsFit, vars, arrival, session, rows
<1> QED
  BY <1>1, <1>2 DEF IInv

LEMMA NextKeeps == IInv /\ [Next]_vars => IInv'
<1> SUFFICES ASSUME IInv, [Next]_vars PROVE IInv'
  OBVIOUS
<1>1. ASSUME NEW r \in Requests, Step(r) PROVE IInv'
  BY <1>1, LookupStep, LookupFailsStep, StampStep, CompleteStep, RecordStep,
     StoreStep, ReadStep, ProbeStep, CheckStep, RespondStep, BeginStep, SettleStep,
     NoteStep, CommitStep, RollbackStep DEF Step
<1> QED
  BY <1>1, ArriveStep, StampFailsStep, KeyStep, StutterStep DEF Next

LEMMA Invariance == Safe => []IInv
  BY InitHolds, NextKeeps, PTL DEF Safe

(* Every variable keeps its type.                                          *)
THEOREM TypeCorrect == Safe => []TypeOK
  BY Invariance, PTL DEF IInv

(* No connection and no row outlives its request, and the pool is never    *)
(* overdrawn.                                                              *)
THEOREM NothingLeaks == Safe => []ConnectionsReturned
<1>1. IInv => ConnectionsReturned
  BY DEF IInv, TypeOK, PoolFits, Shape, Holding, ConnectionsReturned
<1> QED
  BY <1>1, Invariance, PTL

(* One request of a key at a time, however many requests and keys.         *)
THEOREM KeysSerialize == Safe => []OneRequestPerKey
<1>1. IInv => OneRequestPerKey
  BY DEF IInv, RowsFit, Shape, Holding, OneRequestPerKey
<1> QED
  BY <1>1, Invariance, PTL

(* A revoked key gets nothing served and leaves no trace.                  *)
THEOREM RevocationHolds == Safe => []RevokedKeysRefused
<1>1. IInv => RevokedKeysRefused
  BY DEF IInv, TypeOK, Shape, Barred, Turned, RevokedKeysRefused
<1> QED
  BY <1>1, Invariance, PTL

(* The usage row of an answered call outlives the request's rollback.      *)
THEOREM UsageOutlivesRollback == Safe => []UsageSurvives
<1>1. IInv => UsageSurvives
  BY DEF IInv, Shape, Leaving, PastRecord, UsageSurvives
<1> QED
  BY <1>1, Invariance, PTL

(* last_used_at is committed for the requests served, and for no others.   *)
THEOREM StampFollowsAnswer == Safe => []StampTellsAnswer
<1>1. IInv => StampTellsAnswer
  <2> SUFFICES ASSUME IInv, NEW r \in Requests
               PROVE  /\ r \in stamped => sent[r].code \in Returned
                      /\ pc[r] = "done" /\ key[r] # NoKey /\ sent[r].code \in Returned
                            /\ r \notin hurt => r \in stamped
    BY DEF StampTellsAnswer
  <2> QED
    BY DEF IInv, Shape, Telling, Leaving, Served
<1> QED
  BY <1>1, Invariance, PTL

(* What the headers of a response tell its caller is so.                   *)
THEOREM HeadersAreTrue == Safe => []HeadersTell
<1>1. IInv => HeadersTell
  BY DEF IInv, Shape, HeadersSent, HeadersTell
<1> QED
  BY <1>1, Invariance, PTL

-----------------------------------------------------------------------------
(* The refinement.  A step answers r, or changes one of its three marks, or *)
(* does nothing the contract sees.                                         *)

LEMMA RepliesStay ==
    ASSUME UNCHANGED sent
    PROVE  UNCHANGED reply
  BY DEF reply

(* work, request by request.                                               *)
WorkOf(j, given, p) ==
    IF j = "pending" /\ given # "served" /\ p \in {"failing", "done"} THEN "stranded" ELSE j

LEMMA WorkAt ==
    ASSUME NEW r \in Requests
    PROVE  /\ work[r] = WorkOf(jobs[r], reply[r], pc[r])
           /\ work'[r] = WorkOf(jobs'[r], reply'[r], pc'[r])
  BY DEF work, WorkOf

LEMMA WorkOfOne ==
    ASSUME NEW r \in Requests,
           \A x \in Requests \ {r} :
               pc'[x] = pc[x] /\ reply'[x] = reply[x] /\ jobs'[x] = jobs[x]
    PROVE  work' = [work EXCEPT ![r] = work'[r]]
<1>1. \A x \in Requests \ {r} : work'[x] = work[x]
  BY WorkAt
<1>2. work = [x \in Requests |-> work[x]] /\ work' = [x \in Requests |-> work'[x]]
  BY DEF work
<1> DEFINE w == work'[r]
<1>3. work'[r] = w
  OBVIOUS
<1> HIDE DEF w
<1>4. work' = [x \in Requests |-> IF x = r THEN w ELSE work[x]]
  BY <1>1, <1>2, <1>3
<1> QED
  BY <1>2, <1>3, <1>4

(* Whoever is not at the end has been served or has no job.                *)
LEMMA WorkStays ==
    ASSUME IInv, NEW r \in Requests, UNCHANGED <<sent, jobs>>,
           pc[r] \notin {"answering", "failing", "done"},
           \A x \in Requests \ {r} : pc'[x] = pc[x]
    PROVE  UNCHANGED work
<1>1. Telling(r) /\ pc[r] \in Points /\ kind[r] \in Kinds
  BY DEF IInv, TypeOK, Shape
<1>2. jobs[r] = "none" \/ reply[r] = "served"
  BY <1>1 DEF Telling, Served, reply, Points, Serving, Unanswered, Background, Calling, Limited
<1>3. work'[r] = work[r]
  BY <1>2, RepliesStay, WorkAt DEF WorkOf
<1>4. work' = [work EXCEPT ![r] = work'[r]]
  BY RepliesStay, WorkOfOne
<1> QED
  BY <1>3, <1>4 DEF work

(* An answer is a reply.                                                   *)
LEMMA ReplyGiven ==
    ASSUME IInv, NEW r \in Requests, sent[r] = Unsent, sent'[r] # Unsent,
           \A x \in Requests \ {r} : sent'[x] = sent[x] /\ pc'[x] = pc[x],
           \/ pc[r] = "answering" /\ pc'[r] \in {"queued", "leaving"}
           \/ pc[r] = "failing" /\ pc'[r] = "done",
           sent'[r].code = outcome[r].code,
           UNCHANGED <<stamped, rows>>
    PROVE  [Contract!ContractNext]_(Contract!contractVars)
<1> DEFINE given == IF sent'[r].code \in Returned THEN "served" ELSE "refused"
<1>1. /\ reply[r] = "none"
      /\ reply' = [reply EXCEPT ![r] = given]
  <2>1. reply[r] = "none" /\ reply'[r] = given
    BY DEF reply
  <2>2. \A x \in Requests \ {r} : reply'[x] = reply[x]
    BY DEF reply
  <2>3. DOMAIN reply = Requests /\ DOMAIN reply' = Requests
        /\ reply = [x \in Requests |-> reply[x]] /\ reply' = [x \in Requests |-> reply'[x]]
    BY DEF reply
  <2> HIDE DEF given
  <2>4. reply' = [x \in Requests |-> IF x = r THEN given ELSE reply[x]]
    BY <2>1, <2>2, <2>3
  <2> QED
    BY <2>1, <2>3, <2>4
<1>2. reply'[r] = given /\ Telling(r)
  BY DEF reply, IInv, Shape
<1>3. /\ work'[r] = work[r]
      /\ given = "served" \/ work[r] \in {"none", "stranded"}
  <2>1. CASE pc[r] = "answering"
    <3>1. given = "served"
      BY <1>2, <2>1 DEF Telling, Unanswered
    <3>2. work'[r] = work[r]
      BY <2>1, WorkAt DEF WorkOf, rows
    <3> QED
      BY <3>1, <3>2
  <2>2. CASE pc[r] = "failing"
    <3>1. given = "refused" /\ jobs[r] \in {"none", "pending"}
      BY <1>2, <2>2 DEF Telling
    <3> QED
      BY <1>1, <1>2, <2>2, <3>1, WorkAt DEF WorkOf, rows
  <2> QED
    BY <2>1, <2>2
<1>4. UNCHANGED work
  <2>1. work' = [work EXCEPT ![r] = work'[r]]
    BY <1>1, WorkOfOne DEF rows, reply
  <2> QED
    BY <1>3, <2>1 DEF work
<1>5. Contract!Reply(r, given)
  BY <1>1, <1>3, <1>4 DEF Contract!Reply, rows
<1> QED
  BY <1>5 DEF Contract!ContractNext

(* A job's row goes on.                                                    *)
LEMMA JobAdvances ==
    ASSUME NEW r \in Requests, UNCHANGED <<sent, session, usage>>,
           \A x \in Requests \ {r} : pc'[x] = pc[x] /\ jobs'[x] = jobs[x]
    PROVE  /\ Contract!Advance(r, work[r], work'[r])
           /\ work'[r] = work[r] => UNCHANGED Contract!contractVars
<1>1. UNCHANGED reply /\ UNCHANGED stamped
  BY RepliesStay DEF session
<1>2. work' = [work EXCEPT ![r] = work'[r]]
  BY <1>1, WorkOfOne
<1>3. work'[r] = work[r] => UNCHANGED work
  BY <1>2 DEF work
<1> QED
  BY <1>1, <1>2, <1>3 DEF Contract!Advance, Contract!contractVars

LEMMA StepRefines ==
    ASSUME IInv, [Next]_vars
    PROVE  [Contract!ContractNext]_(Contract!contractVars)
<1>0. TypeOK /\ \A r \in Requests : Shape(r)
  BY DEF IInv
<1>1. ASSUME NEW r \in Requests, Store(r)
      PROVE  [Contract!ContractNext]_(Contract!contractVars)
  <2>1. jobs[r] = "none" /\ reply[r] = "none" /\ pc[r] = "storing"
    BY <1>0, <1>1 DEF Store, Shape, Telling, Unanswered, reply
  <2>2. /\ UNCHANGED <<sent, session, usage>>
        /\ \A x \in Requests \ {r} : pc'[x] = pc[x] /\ jobs'[x] = jobs[x]
        /\ pc'[r] \in {"answering", "failing"} /\ jobs'[r] \in {"none", "pending"}
    BY <1>0, <1>1, <2>1 DEF Store, Commits, Fails, SetJob, Raise, GoTo, rows, TypeOK
  <2>3. work[r] = "none" /\ work'[r] \in {"none", "pending", "stranded"}
    BY <2>1, <2>2, WorkAt DEF WorkOf
  <2>4. /\ Contract!Advance(r, "none", work'[r])
        /\ work'[r] = "none" => UNCHANGED Contract!contractVars
    BY <2>2, <2>3, JobAdvances
  <2> QED
    BY <2>1, <2>3, <2>4 DEF Contract!ContractNext, Contract!Submit, Contract!Strand
<1>2. ASSUME NEW r \in Requests, Begin(r)
      PROVE  [Contract!ContractNext]_(Contract!contractVars)
  <2>1. jobs[r] = "pending" /\ reply[r] = "served"
    BY <1>0, <1>2 DEF Begin, Shape, Telling, Background, Served, reply
  <2>2. /\ UNCHANGED <<sent, session, usage>>
        /\ \A x \in Requests \ {r} : pc'[x] = pc[x] /\ jobs'[x] = jobs[x]
        /\ jobs'[r] \in {"pending", "running"}
    BY <1>0, <1>2, <2>1 DEF Begin, Update, Commits, Fails, SetJob, Raise, GoTo, rows, TypeOK
  <2>3. work[r] = "pending" /\ work'[r] \in {"pending", "running"}
    BY <2>1, <2>2, RepliesStay, WorkAt DEF WorkOf
  <2>4. /\ Contract!Advance(r, "pending", work'[r])
        /\ work'[r] = "pending" => UNCHANGED Contract!contractVars
    BY <2>2, <2>3, JobAdvances
  <2> QED
    BY <2>1, <2>3, <2>4 DEF Contract!ContractNext, Contract!Begin
<1>3. ASSUME NEW r \in Requests, Settle(r)
      PROVE  [Contract!ContractNext]_(Contract!contractVars)
  <2>1. jobs[r] = "running" /\ reply[r] = "served"
    BY <1>0, <1>3 DEF Settle, Shape, Telling, Background, Served, reply
  <2>2. /\ UNCHANGED <<sent, session, usage>>
        /\ \A x \in Requests \ {r} : pc'[x] = pc[x] /\ jobs'[x] = jobs[x]
        /\ jobs'[r] \in {"running", "succeeded", "failed"}
    BY <1>0, <1>3, <2>1 DEF Settle, Update, Commits, Fails, SetJob, Raise, GoTo, rows, TypeOK
  <2>3. work[r] = "running" /\ work'[r] \in {"running", "succeeded", "failed"}
    BY <2>1, <2>2, RepliesStay, WorkAt DEF WorkOf
  <2>4. /\ Contract!Advance(r, "running", work'[r])
        /\ work'[r] = "running" => UNCHANGED Contract!contractVars
    BY <2>2, <2>3, JobAdvances
  <2> QED
    BY <2>3, <2>4 DEF Contract!ContractNext, Contract!Conclude
<1>4. ASSUME NEW r \in Requests, Record(r)
      PROVE  [Contract!ContractNext]_(Contract!contractVars)
  <2>1. pc[r] = "recording"
    BY <1>4 DEF Record
  <2>2. reply[r] = "none" \/ work[r] = "running"
    BY <1>0, <2>1, WorkAt DEF Shape, Telling, Calling, Limited, Served, reply, WorkOf
  <2>3. /\ UNCHANGED <<sent, stamped, jobs>>
        /\ usage' = usage \/ usage' = usage \cup {r}
        /\ \A x \in Requests \ {r} : pc'[x] = pc[x]
    BY <1>0, <1>4 DEF Record, Commits, Fails, GoTo, rows, session, TypeOK
  <2>4. UNCHANGED reply /\ UNCHANGED work
    BY <2>1, <2>3, RepliesStay, WorkStays
  <2>5. CASE r \notin usage /\ usage' = usage \cup {r}
    BY <2>2, <2>3, <2>4, <2>5 DEF Contract!ContractNext, Contract!Log
  <2>6. CASE usage' = usage
    BY <2>3, <2>4, <2>6 DEF Contract!contractVars
  <2> QED
    BY <2>3, <2>5, <2>6
<1>5. ASSUME NEW r \in Requests, Commit(r)
      PROVE  [Contract!ContractNext]_(Contract!contractVars)
  <2>1. reply[r] = "served" /\ r \notin stamped /\ pc[r] = "leaving"
    BY <1>0, <1>5 DEF Commit, Shape, Telling, Leaving, Served, reply
  <2>2. /\ UNCHANGED <<sent, usage, jobs>>
        /\ stamped' = stamped \/ stamped' = stamped \cup {r}
        /\ \A x \in Requests \ {r} : pc'[x] = pc[x]
    BY <1>0, <1>5 DEF Commit, Close, GoTo, rows, TypeOK
  <2>3. UNCHANGED reply /\ UNCHANGED work
    BY <2>1, <2>2, RepliesStay, WorkStays
  <2>4. CASE stamped' = stamped \cup {r}
    BY <2>1, <2>2, <2>3, <2>4 DEF Contract!ContractNext, Contract!MarkUsed
  <2>5. CASE stamped' = stamped
    BY <2>2, <2>3, <2>5 DEF Contract!contractVars
  <2> QED
    BY <2>2, <2>4, <2>5
<1>6. ASSUME NEW r \in Requests, Respond(r) \/ Rollback(r)
      PROVE  [Contract!ContractNext]_(Contract!contractVars)
  <2>1. /\ sent[r] # Unsent => UNCHANGED sent /\ Served(r)
        /\ sent[r] = Unsent => sent'[r] = Response(stash[r], outcome[r])
        /\ \A x \in Requests \ {r} : sent'[x] = sent[x] /\ pc'[x] = pc[x]
        /\ \/ pc[r] = "answering" /\ pc'[r] \in {"queued", "leaving"}
           \/ pc[r] = "failing" /\ pc'[r] = "done"
        /\ UNCHANGED <<stamped, rows, spent>>
    BY <1>0, <1>6 DEF Respond, Rollback, AnswerError, Close, GoTo, session, Shape, Telling,
                      Unanswered, TypeOK
  <2>2. CASE sent[r] # Unsent
    <3>1. UNCHANGED reply /\ reply[r] = "served"
      BY <2>1, <2>2, RepliesStay DEF Served, reply
    <3>2. work'[r] = work[r]
      BY <2>1, <3>1, WorkAt DEF WorkOf, rows
    <3>3. work' = [work EXCEPT ![r] = work'[r]]
      BY <2>1, <3>1, WorkOfOne DEF rows
    <3>4. UNCHANGED work
      BY <3>2, <3>3 DEF work
    <3> QED
      BY <2>1, <3>1, <3>4 DEF Contract!contractVars, rows
  <2>3. CASE sent[r] = Unsent
    <3>1. sent'[r] # Unsent /\ sent'[r].code = outcome[r].code
      BY <1>0, <2>1, <2>3, AnswerFacts DEF Shape
    <3> QED
      BY <2>1, <2>3, <3>1, ReplyGiven
  <2> QED
    BY <2>2, <2>3
<1>7. ASSUME NEW r \in Requests,
             \/ Arrive(r) \/ Lookup(r) \/ LookupFails(r) \/ Stamp(r) \/ StampFails(r)
             \/ Complete(r) \/ Read(r) \/ Probe(r) \/ Check(r) \/ Note(r)
      PROVE  UNCHANGED Contract!contractVars
  <2>1. UNCHANGED <<sent, stamped, usage, jobs>>
    BY <1>7 DEF Arrive, ArriveMalformed, ArriveProbe, ArriveWithKey, ArriveWithoutKey,
                Arriving, Lookup, LookupFails, Stamp, StampFails, Complete, Read, Probe, Check,
                Note, session, rows
  <2>2. pc[r] \notin {"answering", "failing", "done"}
    BY <1>7 DEF Arrive, ArriveMalformed, ArriveProbe, ArriveWithKey, ArriveWithoutKey,
                Arriving, Lookup, LookupFails, Stamp, StampFails, Complete, Read, Probe, Check,
                Note
  <2>3. \A x \in Requests \ {r} : pc'[x] = pc[x]
    BY <1>0, <1>7
       DEF Arrive, ArriveMalformed, ArriveProbe, ArriveWithKey, ArriveWithoutKey, Arriving,
           Enter, Refused, Invalid, Admitted, Lookup, LookupFails, Stamp, StampFails, Complete,
           Read, Probe, Check, Note, Raise, GoTo, TypeOK
  <2> QED
    BY <2>1, <2>2, <2>3, RepliesStay, WorkStays DEF Contract!contractVars
<1>8. CASE (\E k \in Keys : Issue(k) \/ Revoke(k)) \/ UNCHANGED vars
  <2>1. UNCHANGED <<sent, stamped, usage, jobs, pc>>
    BY <1>8 DEF Issue, Revoke, vars, session, rows
  <2>2. UNCHANGED reply /\ UNCHANGED work
    BY <2>1, RepliesStay DEF work
  <2> QED
    BY <2>1, <2>2 DEF Contract!contractVars
<1> QED
  BY <1>1, <1>2, <1>3, <1>4, <1>5, <1>6, <1>7, <1>8 DEF Next, Step

(* With any faults, a request is answered once, marks its key as used only *)
(* if it was served and works on a job only if it was accepted; nothing    *)
(* else of it is left but the usage row.                                   *)
THEOREM ContractKept == Safe => KeepsContract
<1>1. Init => Contract!ContractInit
  BY DEF Init, Contract!ContractInit, reply, work
<1>2. IInv /\ [Next]_vars => [Contract!ContractNext]_(Contract!contractVars)
  BY StepRefines
<1> QED
  BY <1>1, <1>2, Invariance, PTL DEF Safe, KeepsContract, Contract!RequestSpec

-----------------------------------------------------------------------------
(* How far a request is.                                                   *)

(* Stage, point by point.                                                  *)
LEMMA StageValues ==
    /\ Stage["idle"] = 0 /\ Stage["connecting"] = 1 /\ Stage["stamping"] = 2
    /\ Stage["probing"] = 3 /\ Stage["checking"] = 4
    /\ Stage["storing"] = 4 /\ Stage["reading"] = 4
    /\ Stage["answering"] = 5 /\ Stage["queued"] = 6 /\ Stage["calling"] = 7
    /\ Stage["recording"] = 8 /\ Stage["settling"] = 9 /\ Stage["noting"] = 10
    /\ Stage["leaving"] = 11 /\ Stage["failing"] = 12 /\ Stage["done"] = 13
  BY DEF Stage

(* Where a step can take a request from where it is, by the endpoint it is *)
(* for.                                                                    *)
Onward(p, kd, q) ==
    \/ p = "idle"       /\ q \in {"connecting", "probing", "calling", "storing", "reading"}
    \/ p = "connecting" /\ q = "stamping"
    \/ p = "stamping"   /\ q \in {"calling", "storing", "reading"}
    \/ p = "probing"    /\ q = "checking"
    \/ p \in {"checking", "storing", "reading"} /\ q = "answering"
    \/ p = "answering"  /\ q = IF kd = "submit" THEN "queued" ELSE "leaving"
    \/ p = "queued"     /\ q = "calling"
    \/ p = "calling"    /\ q = "recording"
    \/ p = "recording"  /\ \/ q = "settling"
                           \/ q = "answering" /\ kd = "complete"
    \/ p = "settling"   /\ q = "noting"
    \/ p = "noting"     /\ q = "leaving"
    \/ p \notin {"failing", "done"} /\ q = "failing"
    \/ p \in {"leaving", "failing"} /\ q = "done"

(* A request moves onward and alone: the steps, one by one.                *)
LEMMA StepsGoOnward ==
    ASSUME IInv, NEW r \in Requests, Arrive(r) \/ Step(r) \/ StampFails(r)
    PROVE  /\ \E q \in Points : pc' = [pc EXCEPT ![r] = q] /\ Onward(pc[r], kind'[r], q)
           /\ kind' = IF pc[r] = "idle" THEN [kind EXCEPT ![r] = kind'[r]] ELSE kind
<1>0. /\ pc \in [Requests -> Points] /\ kind \in [Requests -> Kinds]
      /\ Holding(r) /\ Telling(r)
  BY DEF IInv, TypeOK, Shape
<1>1. CASE Arrive(r)
  <2>1. /\ pc[r] = "idle"
        /\ kind' = [kind EXCEPT ![r] = kind'[r]]
    BY <1>0, <1>1 DEF Arrive, ArriveMalformed, ArriveProbe, ArriveWithKey, ArriveWithoutKey,
                      Arriving
  <2>2. \E q \in {"connecting", "probing", "calling", "storing", "reading", "failing"} :
            pc' = [pc EXCEPT ![r] = q]
    BY <1>1 DEF Arrive, ArriveMalformed, ArriveProbe, ArriveWithKey, ArriveWithoutKey,
                Enter, Refused, Invalid, Admitted, FirstAwait, Raise, GoTo
  <2> QED
    BY <2>1, <2>2 DEF Onward, Points, Serving
<1>2. CASE Lookup(r) \/ LookupFails(r)
  <2>1. pc[r] = "connecting" /\ UNCHANGED kind
    BY <1>2 DEF Lookup, LookupFails, arrival
  <2>2. \E q \in {"stamping", "failing"} : pc' = [pc EXCEPT ![r] = q]
    BY <1>2 DEF Lookup, LookupFails, Raise, GoTo
  <2> QED
    BY <2>1, <2>2 DEF Onward, Points
<1>3. CASE Stamp(r) \/ StampFails(r)
  <2>1. pc[r] = "stamping" /\ UNCHANGED kind /\ kind[r] \in DOMAIN FirstAwait
    BY <1>0, <1>3 DEF Stamp, StampFails, arrival, Holding, Asking
  <2>2. \E q \in {"calling", "storing", "reading", "failing"} : pc' = [pc EXCEPT ![r] = q]
    BY <1>3, <2>1 DEF Stamp, StampFails, Enter, Refused, Invalid, Admitted, FirstAwait,
                      Raise, GoTo
  <2> QED
    BY <2>1, <2>2 DEF Onward, Points, Serving
<1>4. CASE Complete(r)
  <2>1. pc[r] = "calling" /\ UNCHANGED kind
    BY <1>4 DEF Complete, arrival
  <2>2. \E q \in {"recording", "failing"} : pc' = [pc EXCEPT ![r] = q]
    BY <1>4 DEF Complete, Raise, GoTo
  <2> QED
    BY <2>1, <2>2 DEF Onward, Points, Serving
<1>5. CASE Record(r)
  <2>1. pc[r] = "recording" /\ UNCHANGED kind /\ kind[r] \in Limited
    BY <1>0, <1>5 DEF Record, arrival, Telling, Calling
  <2>2. pc' = [pc EXCEPT ![r] = AfterRecord(r)]
    BY <1>5 DEF Record, GoTo
  <2> QED
    BY <2>1, <2>2 DEF Onward, AfterRecord, Limited, Points, Serving
<1>6. CASE Store(r) \/ Read(r) \/ Check(r)
  <2>1. pc[r] \in {"storing", "reading", "checking"} /\ UNCHANGED kind
    BY <1>6 DEF Store, Read, Check, arrival
  <2>2. \E q \in {"answering", "failing"} : pc' = [pc EXCEPT ![r] = q]
    BY <1>6 DEF Store, Read, Check, Raise, GoTo
  <2> QED
    BY <2>1, <2>2 DEF Onward, Points, Serving
<1>7. CASE Probe(r) \/ Respond(r)
  BY <1>7 DEF Probe, Respond, arrival, GoTo, Onward, Points, Serving
<1>8. CASE Begin(r) \/ Settle(r) \/ Note(r)
  <2>1. pc[r] \in {"queued", "settling", "noting"} /\ UNCHANGED kind
    BY <1>8 DEF Begin, Settle, Note, Update, arrival
  <2>2. \E q \in {"failing", IF pc[r] = "queued" THEN "calling"
                            ELSE IF pc[r] = "settling" THEN "noting" ELSE "leaving"} :
            pc' = [pc EXCEPT ![r] = q]
    BY <1>8 DEF Begin, Settle, Note, Update, Raise, GoTo
  <2> QED
    BY <2>1, <2>2 DEF Onward, Points, Serving
<1>9. CASE Commit(r) \/ Rollback(r)
  BY <1>9 DEF Commit, Rollback, Close, GoTo, arrival, Onward, Points
<1> QED
  BY <1>1, <1>2, <1>3, <1>4, <1>5, <1>6, <1>7, <1>8, <1>9 DEF Step

(* Onward is forward.                                                      *)
LEMMA OnwardAdvances ==
    ASSUME NEW r \in Requests, pc[r] \in Points, pc'[r] \in Points,
           kind'[r] = kind[r] \/ pc[r] = "idle",
           Onward(pc[r], kind'[r], pc'[r])
    PROVE  Progress(r)' > Progress(r)
<1> DEFINE at(p, kd) == IF p = "answering" /\ kd = "complete" THEN Stage["settling"]
                                                             ELSE Stage[p]
<1>1. Progress(r) = at(pc[r], kind[r]) /\ Progress(r)' = at(pc'[r], kind'[r])
  BY DEF Progress
<1>2. at(pc[r], kind[r]) = at(pc[r], kind'[r])
  OBVIOUS
<1>3. ASSUME NEW p, NEW q, NEW kd, Onward(p, kd, q), p \in Points PROVE at(q, kd) > at(p, kd)
  BY <1>3, StageValues DEF Onward, Points, Serving
<1> QED
  BY <1>1, <1>2, <1>3

(* No request ever goes back to where it was, whatever its endpoint, its   *)
(* job and the failures on the way.                                        *)
THEOREM NoWayBack == Safe => RequestsAdvance
<1>1. ASSUME IInv, [Next]_vars, NEW r \in Requests, pc'[r] # pc[r]
      PROVE  Progress(r)' > Progress(r)
  <2>1. pc \in [Requests -> Points] /\ kind \in [Requests -> Kinds]
    BY <1>1 DEF IInv, TypeOK
  <2>2. ASSUME NEW s \in Requests, Arrive(s) \/ Step(s) \/ StampFails(s)
        PROVE  Progress(r)' > Progress(r)
    <3>1. PICK q \in Points : pc' = [pc EXCEPT ![s] = q] /\ Onward(pc[s], kind'[s], q)
      BY <1>1, <2>2, StepsGoOnward
    <3>2. s = r
      BY <1>1, <2>1, <3>1
    <3>3. pc'[r] = q /\ (kind'[r] = kind[r] \/ pc[r] = "idle")
      BY <1>1, <2>1, <2>2, <3>1, <3>2, StepsGoOnward
    <3> QED
      BY <2>1, <3>1, <3>2, <3>3, OnwardAdvances
  <2>3. CASE (\E k \in Keys : Issue(k) \/ Revoke(k)) \/ UNCHANGED vars
    BY <1>1, <2>3 DEF Issue, Revoke, vars
  <2> QED
    BY <1>1, <2>2, <2>3 DEF Next
<1>2. IInv /\ [Next]_vars
        => [\A r \in Requests : pc'[r] # pc[r] => Progress(r)' > Progress(r)]_vars
  BY <1>1
<1> QED
  BY <1>2, Invariance, PTL DEF Safe, RequestsAdvance

(* A request that is over is concluded, whatever happened to it: with      *)
(* NoWayBack, all of EveryRequestEnds but what fairness and the pool's     *)
(* timeout give.                                                           *)
THEOREM RequestsConclude == Safe => [](\A r \in Requests : pc[r] = "done" => Concluded(r))
<1>1. IInv => \A r \in Requests : pc[r] = "done" => Concluded(r)
  BY DEF IInv, Shape, Telling, Concluded
<1> QED
  BY <1>1, Invariance, PTL

=============================================================================
