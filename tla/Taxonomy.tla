------------------------------ MODULE Taxonomy ------------------------------
(***************************************************************************)
(* The error taxonomy of the service: what one upstream exchange can come  *)
(* to, the AppError subclass each outcome is turned into, and the two      *)
(* things a subclass pins, its HTTP status and whether it is retryable     *)
(* (errors/exceptions.py, CompletionService._call_upstream and             *)
(* _as_app_error).  Messages and `details` are left out: nothing branches  *)
(* on them.  So are Unauthenticated, which only its subclasses raise, and  *)
(* WebhookDeliveryFailed, which no client ever gets.                       *)
(***************************************************************************)
EXTENDS Naturals

(* What one POST to the provider comes to.  The first two raise in httpx;  *)
(* the next two have a status below 400, and a body that does or does not  *)
(* map onto CompletionResponse; the others are the error statuses, in the  *)
(* classes _as_app_error tells apart.  A 429 is split by its Retry-After:  *)
(* absent or not a number, a number of seconds, or the number "nan".       *)
Answers == { "timeout", "unreachable", "completion", "unparseable",
             "not_found", "throttled", "throttled_for", "throttled_nan",
             "our_key_refused", "rejected", "server_error" }

(* The `code` of the error _call_upstream raises, or "ok".                 *)
CodeOf ==
    [ completion      |-> "ok",
      unparseable     |-> "invalid_upstream_response",
      timeout         |-> "upstream_timeout",
      unreachable     |-> "upstream_unavailable",
      not_found       |-> "model_not_found",
      throttled       |-> "upstream_rate_limited",
      throttled_for   |-> "upstream_rate_limited",
      throttled_nan   |-> "upstream_rate_limited",
      our_key_refused |-> "upstream_auth_failed",
      rejected        |-> "upstream_rejected_request",
      server_error    |-> "upstream_error" ]

(* `status_code` of each subclass, and 200 for a completion.               *)
StatusOf ==
    [ ok                        |-> 200,
      internal_error            |-> 500,
      missing_credentials       |-> 401,
      invalid_credentials       |-> 401,
      validation_error          |-> 422,
      rate_limit_exceeded       |-> 429,
      job_not_found             |-> 404,
      model_not_found           |-> 400,
      upstream_rejected_request |-> 400,
      upstream_rate_limited     |-> 429,
      upstream_error            |-> 502,
      upstream_auth_failed      |-> 502,
      invalid_upstream_response |-> 502,
      upstream_unavailable      |-> 503,
      upstream_circuit_open     |-> 503,
      upstream_timeout          |-> 504 ]

Codes == DOMAIN StatusOf

(* `retryable`: False on AppError, overridden by four subclasses.          *)
RetryableCodes == { "upstream_rate_limited", "upstream_error",
                    "upstream_unavailable", "upstream_timeout" }

Retryable(answer) == CodeOf[answer] \in RetryableCodes

=============================================================================
