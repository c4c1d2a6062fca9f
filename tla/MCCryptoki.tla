---------------------------- MODULE MCCryptoki ----------------------------
(* Instances of Cryptoki for TLC.                                          *)
EXTENDS CloseAllLoop

OneReader == [s \in Slots |-> 1]     \* slots_per_card slots of one reader
OwnReader == [s \in Slots |-> s]     \* slots_per_card = 1
=============================================================================
