----------------------------- MODULE JobContract -----------------------------
(***************************************************************************)
(* What a job promises the caller who submitted it, however the process    *)
(* that runs it fares: the statuses a poller sees only move forward and    *)
(* the last one is for ever, the callback never hears an outcome the row   *)
(* does not have, and a job is marked delivered only if it was.            *)
(***************************************************************************)
CONSTANT Work

VARIABLES stage,   \* the status GET /v1/jobs/{id} shows, "none" before there is one
          news,    \* the outcomes the callback has accepted
          marked   \* delivered_at is set

jobVars == <<stage, news, marked>>

FinalStages == {"succeeded", "failed"}

JobInit ==
    /\ stage = [j \in Work |-> "none"]
    /\ news = [j \in Work |-> {}]
    /\ marked = [j \in Work |-> FALSE]

Advance(j, from, to) ==
    /\ stage[j] = from
    /\ stage' = [stage EXCEPT ![j] = to]
    /\ UNCHANGED <<news, marked>>

Settle(j) == \E outcome \in FinalStages : Advance(j, "running", outcome)

Hear(j) ==
    /\ stage[j] \in FinalStages
    /\ news' = [news EXCEPT ![j] = @ \cup {stage[j]}]
    /\ UNCHANGED <<stage, marked>>

MarkDelivered(j) ==
    /\ news[j] # {}
    /\ marked' = [marked EXCEPT ![j] = TRUE]
    /\ UNCHANGED <<stage, news>>

JobNext ==
    \E j \in Work :
        \/ Advance(j, "none", "pending")
        \/ Advance(j, "pending", "running")
        \/ Settle(j)
        \/ Hear(j)
        \/ MarkDelivered(j)

JobSpec == JobInit /\ [][JobNext]_jobVars

=============================================================================
