------------------------------ MODULE Responses ------------------------------
(***************************************************************************)
(* How the outcome of a request becomes a response: the headers an error   *)
(* brings, the three exception handlers (errors/handlers.py), and the      *)
(* request-id middleware (middleware/request_id.py) around them.  Of a     *)
(* response only its code and the headers the service adds are kept; the   *)
(* three X-RateLimit-* headers are always sent together and are one name.  *)
(* DEBUG and RATE_LIMIT_ENABLED have their defaults.                       *)
(***************************************************************************)
EXTENDS Taxonomy

HeaderNames == {"X-RateLimit", "Retry-After", "WWW-Authenticate", "X-Request-ID"}

Unauthenticated == {"missing_credentials", "invalid_credentials"}

(* `headers` of the exception.  The provider's Retry-After is passed on if *)
(* it sent one.                                                            *)
ErrorHeaders(code) ==
    CASE code \in Unauthenticated        -> {{"WWW-Authenticate"}}
      [] code = "rate_limit_exceeded"   -> {{"X-RateLimit", "Retry-After"}}
      [] code = "upstream_rate_limited" -> {{}, {"Retry-After"}}
      [] OTHER                          -> {{}}

(* What an endpoint returns or raises; GET /health/ready answers a 503 by  *)
(* returning.                                                              *)
Returned == {"ok", "degraded"}
Outcomes == [code : Codes \cup Returned, headers : SUBSET HeaderNames]

Return(code)   == [code |-> code, headers |-> {}]
ErrorsOf(code) == {[code |-> code, headers |-> h] : h \in ErrorHeaders(code)}

(* With a fault: the error's own headers replace the stashed ones.         *)
AppErrorHeadersReplacing(stash, headers) == IF headers = {} THEN stash ELSE headers

(* The handlers: which headers they send for an error with `headers`, when *)
(* the dependencies have stashed `stash`.                                  *)
AppErrorHeaders(stash, headers) == stash \cup headers
ValidationErrorHeaders          == {}
UnhandledErrorHeaders(stash)    == stash

(* dispatch: every response that comes out of the application.             *)
Dispatched(headers) == headers \cup {"X-Request-ID"}

(* Any exception that is no AppError is handled by Starlette's outermost   *)
(* middleware, so that response does not pass through dispatch.            *)
HeadersFor(stash, o) ==
    CASE o.code \in Returned         -> Dispatched(stash)
      [] o.code = "internal_error"   -> UnhandledErrorHeaders(stash)
      [] o.code = "validation_error" -> Dispatched(ValidationErrorHeaders)
      [] OTHER                       -> Dispatched(AppErrorHeaders(stash, o.headers))

Response(stash, o) == [code |-> o.code, headers |-> HeadersFor(stash, o)]

Unsent == [code |-> "none", headers |-> {}]

=============================================================================
