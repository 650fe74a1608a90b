---------------------------- MODULE RetryPolicy ----------------------------
(***************************************************************************)
(* The decisions of RetryPolicy (services/resilience.py), over whole ticks *)
(* of the clock.  The service has two of them, one for the provider and    *)
(* one for callbacks (factory.py), with their own parameters: the modules  *)
(* that use this one instantiate it.                                       *)
(*                                                                         *)
(* run() is a loop; its iterations are actions of the module that models   *)
(* the operation being retried, since every attempt and every sleep is an  *)
(* await during which the rest of the process runs.                        *)
(***************************************************************************)
EXTENDS Naturals

CONSTANTS MaxAttempts,     \* max_attempts
          InitialBackoff,  \* initial_backoff, in ticks
          MaxBackoff,      \* max_backoff, in ticks
          Budget           \* budget, in ticks

ASSUME PolicyAssumption ==
    /\ MaxAttempts \in Nat \ {0}
    /\ InitialBackoff \in Nat
    /\ MaxBackoff \in Nat
    /\ Budget \in Nat

(* delay_for without a hint: the jitter picks any wait up to the           *)
(* exponential backoff of a 1-based attempt, itself capped.                *)
BackoffDelays(attempt) ==
    {d \in 0..MaxBackoff : d <= InitialBackoff * 2^(attempt - 1)}

(* delay_for with one: the provider is believed, up to MaxBackoff.  Hints  *)
(* above the ceiling are all alike, so one of them stands for the rest.    *)
Hints == 0..(MaxBackoff + 1)

HintedDelay(hint) == IF hint < MaxBackoff THEN hint ELSE MaxBackoff

(* With a fault: one attempt too many.                                     *)
FinalTooLate(retryable, attempt) == ~retryable \/ attempt > MaxAttempts

(* run() lets a failure out when repeating it is pointless or no attempt   *)
(* is left...                                                              *)
Final(retryable, attempt) == ~retryable \/ attempt >= MaxAttempts

(* With a fault: the budget is tested against one wait at a time.          *)
OverBudgetPerWait(elapsed, delay) == delay > Budget

(* ... or when the wait before the next one would blow the budget.         *)
OverBudget(elapsed, delay) == elapsed + delay > Budget

(* Elapsed time is only ever compared with Budget, so it saturates above.  *)
Older(elapsed) == IF elapsed > Budget THEN elapsed ELSE elapsed + 1

=============================================================================
