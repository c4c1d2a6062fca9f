--------------------------- MODULE MCTokenAccess ---------------------------
(* Settings for TLC.                                                       *)
EXTENDS TokenAccess, TLC

(* `atomic' brings `lock_login' with it unless the latter is set as well.   *)
Plain         == [atomic |-> FALSE, lock_login |-> FALSE]
LockLogin     == [atomic |-> FALSE, lock_login |-> TRUE]
AtomicOps     == [atomic |-> TRUE, lock_login |-> FALSE]
AtomicDefault == [atomic |-> TRUE, lock_login |-> TRUE]

AllConfs  == {Plain, LockLogin, AtomicOps}
LockConfs == {LockLogin, AtomicDefault}

(* Nothing tells processes, or PINs, apart.                                *)
Alike == Permutations(Procs) \cup Permutations(Pins)
=============================================================================
