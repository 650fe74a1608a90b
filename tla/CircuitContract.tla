--------------------------- MODULE CircuitContract ---------------------------
(***************************************************************************)
(* What the circuit breaker promises the calls that go through it, without *)
(* its counter, its clock or the retries: when a call may be admitted, and *)
(* what the outcome of an admitted call may do to the mode.  The outcome   *)
(* of a call counts in whatever mode the breaker is in when it arrives,    *)
(* which need not be the one the call was admitted in.                     *)
(***************************************************************************)
EXTENDS Naturals

CONSTANT Calls

VARIABLES mode,      \* closed, open or half_open
          cooled,    \* open for so long that a trial may start
          inflight   \* the calls admitted and not yet answered

contractVars == <<mode, cooled, inflight>>

ContractTypeOK ==
    /\ mode \in {"closed", "open", "half_open"}
    /\ cooled \in BOOLEAN
    /\ inflight \subseteq Calls

ContractInit ==
    /\ mode = "closed"
    /\ cooled = FALSE
    /\ inflight = {}

(* No call is admitted to an open circuit that has not cooled; the first   *)
(* one after that makes the trial.                                         *)
Admit(c) ==
    /\ c \notin inflight
    /\ mode = "open" => cooled
    /\ mode' = IF mode = "open" THEN "half_open" ELSE mode
    /\ cooled' = FALSE
    /\ inflight' = inflight \cup {c}

(* Success is believed at once.                                            *)
Success(c) ==
    /\ c \in inflight
    /\ mode' = "closed"
    /\ cooled' = FALSE
    /\ inflight' = inflight \ {c}

(* Failure opens a circuit on trial, keeps an open one open and starts its *)
(* pause again, and opens a closed one once there were enough.             *)
Failure(c) ==
    /\ c \in inflight
    /\ mode' \in IF mode = "closed" THEN {"closed", "open"} ELSE {"open"}
    /\ cooled' = FALSE
    /\ inflight' = inflight \ {c}

(* An error that says nothing about the provider changes nothing.          *)
NoVerdict(c) ==
    /\ c \in inflight
    /\ inflight' = inflight \ {c}
    /\ UNCHANGED <<mode, cooled>>

CoolDown ==
    /\ mode = "open"
    /\ ~cooled
    /\ cooled' = TRUE
    /\ UNCHANGED <<mode, inflight>>

ContractNext ==
    \/ \E c \in Calls : Admit(c) \/ Success(c) \/ Failure(c) \/ NoVerdict(c)
    \/ CoolDown

ContractSafe == ContractInit /\ [][ContractNext]_contractVars

(* An open circuit does not stay shut for ever: only calls in flight can   *)
(* restart the pause, and no new one is admitted until it is over.         *)
ContractSpec == ContractSafe /\ WF_contractVars(CoolDown)

=============================================================================
