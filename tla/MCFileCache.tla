---------------------------- MODULE MCFileCache ----------------------------
(* Worlds for TLC.                                                         *)
EXTENDS FileCache

Window(i, n) == [index |-> i, count |-> n]

(* Cards whose paths have no index, where everything may go wrong; and     *)
(* cards whose paths are windows that neither overlap nor leave a gap.     *)
SoundWorlds == {[paths |-> {Whole}, faults |-> TRUE],
                [paths |-> {Whole, Window(0, 2), Window(2, 1), Window(3, 2)},
                 faults |-> FALSE]}
=============================================================================
