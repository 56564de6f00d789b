-------------------------- MODULE ReliableDelivery --------------------------
(***************************************************************************)
(* What an application is promised about a Command sent with a receipt     *)
(* request: the call either refuses it, and then nothing more is heard of  *)
(* it, or accepts it, and then exactly one receipt code follows.  Several  *)
(* Commands may move in one step, because one pass over the transaction    *)
(* table settles all those that are due.                                   *)
(***************************************************************************)
CONSTANT Requests

VARIABLE phase

Receipt == {"CONFIRMED_DELIVERY", "SERVER_ERROR", "CANCELED", "TIMEOUT"}

Phase == {"idle", "refused", "pending"} \cup Receipt

\* The moves of one Command.
Move(from, to) ==
    \/ from = to
    \/ from = "idle" /\ to \in {"refused", "pending"}
    \/ from = "pending" /\ to \in Receipt

Init == phase = [r \in Requests |-> "idle"]

Next ==
    /\ phase' \in [Requests -> Phase]
    /\ \A r \in Requests : Move(phase[r], phase'[r])

SafeSpec == Init /\ [][Next]_phase

Settles == \A r \in Requests : (phase[r] = "pending") ~> (phase[r] \in Receipt)

Spec == SafeSpec /\ Settles
=============================================================================
