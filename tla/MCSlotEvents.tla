---------------------------- MODULE MCSlotEvents ----------------------------
(* Worlds for TLC.                                                         *)
EXTENDS SlotEvents

AllWorlds == [poller : BOOLEAN, slow : BOOLEAN, faults : BOOLEAN]
SlowWorld == {[poller |-> FALSE, slow |-> TRUE, faults |-> FALSE]}
=============================================================================
