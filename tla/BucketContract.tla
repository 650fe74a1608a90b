---------------------------- MODULE BucketContract ----------------------------
(***************************************************************************)
(* What the rate limiter promises its callers: each has a bucket that      *)
(* fills at a steady rate, as time passes and whether anybody looks at it  *)
(* or not.  A request takes its price out of the bucket, and is refused    *)
(* only if the bucket holds less than that, at no cost.                    *)
(***************************************************************************)
EXTENDS Naturals

CONSTANTS Callers,
          Brim,   \* what a bucket holds
          Price,  \* what a request takes
          Drip    \* what a bucket gains in a tick

VARIABLES level,  \* what each bucket holds
          denied  \* the callers whose last request was refused

contractVars == <<level, denied>>

ContractInit ==
    /\ level = [c \in Callers |-> Brim]
    /\ denied = {}

Grant(c) ==
    /\ level[c] >= Price
    /\ level' = [level EXCEPT ![c] = @ - Price]
    /\ denied' = denied \ {c}

Deny(c) ==
    /\ level[c] < Price
    /\ denied' = denied \cup {c}
    /\ UNCHANGED level

Fill ==
    /\ level' = [c \in Callers |-> IF level[c] + Drip > Brim THEN Brim ELSE level[c] + Drip]
    /\ UNCHANGED denied

ContractNext == Fill \/ \E c \in Callers : Grant(c) \/ Deny(c)

BucketSpec == ContractInit /\ [][ContractNext]_contractVars

=============================================================================
