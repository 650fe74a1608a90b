----------------------------- MODULE CallContract -----------------------------
(***************************************************************************)
(* What complete() promises those who await it, the endpoint and the job   *)
(* service: a call comes to one outcome, of a known few, and sticks to it; *)
(* its usage row is written after the outcome is known, at most once, and  *)
(* says what the caller is told.  The row may be missing, and an exception *)
(* nobody foresaw ends a call without one.                                 *)
(***************************************************************************)
CONSTANTS Calls,
          Outcomes,  \* what a call may come to
          Status,    \* the status each outcome has
          NoOutcome, Unforeseen, NoEntry

VARIABLES phase,  \* idle, working, concluded or over
          said,   \* the outcome of a call
          entry   \* its usage row

callVars == <<phase, said, entry>>

CallInit ==
    /\ phase = [c \in Calls |-> "idle"]
    /\ said = [c \in Calls |-> NoOutcome]
    /\ entry = [c \in Calls |-> NoEntry]

MoveTo(c, p) == phase' = [phase EXCEPT ![c] = p]

Start(c) ==
    /\ phase[c] = "idle"
    /\ MoveTo(c, "working")
    /\ UNCHANGED <<said, entry>>

(* A call may be turned away before it starts to work.                     *)
Conclude(c) ==
    /\ phase[c] \in {"idle", "working"}
    /\ \E o \in Outcomes : said' = [said EXCEPT ![c] = o]
    /\ MoveTo(c, "concluded")
    /\ UNCHANGED entry

Break(c) ==
    /\ phase[c] = "working"
    /\ said' = [said EXCEPT ![c] = Unforeseen]
    /\ MoveTo(c, "over")
    /\ UNCHANGED entry

Log(c) ==
    /\ phase[c] = "concluded"
    /\ entry' \in {entry, [entry EXCEPT ![c] = Status[said[c]]]}
    /\ MoveTo(c, "over")
    /\ UNCHANGED said

Leave(c) ==
    /\ phase[c] = "over"
    /\ MoveTo(c, "idle")
    /\ said' = [said EXCEPT ![c] = NoOutcome]
    /\ entry' = [entry EXCEPT ![c] = NoEntry]

CallNext == \E c \in Calls : Start(c) \/ Conclude(c) \/ Break(c) \/ Log(c) \/ Leave(c)

CallSpec == CallInit /\ [][CallNext]_callVars

=============================================================================
