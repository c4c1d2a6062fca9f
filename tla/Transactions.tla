---------------------------- MODULE Transactions ----------------------------
(***************************************************************************)
(* What sc_lock and sc_unlock promise a caller: between the two the        *)
(* process has the card to itself, until the card is lost (reset, or its   *)
(* reader unplugged), and a loss is the only other way to leave.           *)
(***************************************************************************)
CONSTANT Procs

VARIABLE inside   \* the processes that have the card to themselves

Enter(p) == inside = {} /\ inside' = {p}
Leave(p) == p \in inside /\ inside' = inside \ {p}

Init == inside = {}
Next == \E p \in Procs : Enter(p) \/ Leave(p)
Spec == Init /\ [][Next]_inside
=============================================================================
