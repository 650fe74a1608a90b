--------------------------- MODULE RequestContract ---------------------------
(***************************************************************************)
(* What a request leaves in the database, however it ends.  It gets one    *)
(* reply.  Only a request that was served marks its key as used, and only  *)
(* after the reply; only its job is ever worked on.  After an error "the   *)
(* database should look as though the request never happened"              *)
(* (get_session), with two exceptions.  The usage row stays whatever the   *)
(* reply, and is written before it or by a job.  And a job row may stay,   *)
(* which get_session does not say: create commits it by itself, and if the *)
(* acknowledgement of that commit is lost the caller gets a 500 and the    *)
(* row is stranded, pending for good.                                      *)
(***************************************************************************)
CONSTANT Requests

VARIABLES reply,   \* "none", then "served" or "refused"
          used,    \* the requests whose last_used_at is committed
          logged,  \* the requests with a usage row
          work     \* the status of the job a request submitted, or "stranded"

contractVars == <<reply, used, logged, work>>

ContractInit ==
    /\ reply = [r \in Requests |-> "none"]
    /\ used = {}
    /\ logged = {}
    /\ work = [r \in Requests |-> "none"]

Advance(r, from, to) ==
    /\ work[r] = from
    /\ work' = [work EXCEPT ![r] = to]
    /\ UNCHANGED <<reply, used, logged>>

Reply(r, kind) ==
    /\ reply[r] = "none"
    /\ kind = "refused" => work[r] \in {"none", "stranded"}
    /\ reply' = [reply EXCEPT ![r] = kind]
    /\ UNCHANGED <<used, logged, work>>

MarkUsed(r) ==
    /\ reply[r] = "served"
    /\ r \notin used
    /\ used' = used \cup {r}
    /\ UNCHANGED <<reply, logged, work>>

Log(r) ==
    /\ r \notin logged
    /\ reply[r] = "none" \/ work[r] = "running"
    /\ logged' = logged \cup {r}
    /\ UNCHANGED <<reply, used, work>>

Submit(r)   == reply[r] = "none" /\ Advance(r, "none", "pending")
Strand(r)   == reply[r] = "none" /\ Advance(r, "none", "stranded")
Begin(r)    == reply[r] = "served" /\ Advance(r, "pending", "running")
Conclude(r) == \E s \in {"succeeded", "failed"} : Advance(r, "running", s)

ContractNext ==
    \E r \in Requests :
        \/ Reply(r, "served") \/ Reply(r, "refused")
        \/ MarkUsed(r) \/ Log(r)
        \/ Submit(r) \/ Strand(r) \/ Begin(r) \/ Conclude(r)

RequestSpec == ContractInit /\ [][ContractNext]_contractVars

=============================================================================
