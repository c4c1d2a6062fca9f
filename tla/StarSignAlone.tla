--------------------------- MODULE StarSignAlone ---------------------------
(* A card of StarSign's that one process at a time uses, that is never     *)
(* reset and loses no command, beside the others: there the driver may     *)
(* leave out the SELECT of a directory that it remembers.                  *)
EXTENDS StarSign

CONSTANT QuietPaths   \* the paths asked for on such a card

HasPlaceholder(p) == \E i \in 1 .. Len(p) - 1 : p[i] = PLACEHOLDER

(* Virtual paths, and the MF and directories below it that none of them    *)
(* goes through.                                                           *)
ASSUME QuietAssumption ==
  /\ QuietPaths \subseteq Paths
  /\ \A p \in QuietPaths :
       IF HasPlaceholder(p) THEN DirOf(p) # NoFid
       ELSE /\ Len(p) <= 2 /\ LastOf(p) \in Dirs
            /\ Len(p) > 1 => DirOf(p) = MF
  /\ \A p, q \in QuietPaths :
       HasPlaceholder(p) /\ ~HasPlaceholder(q) => DirOf(p) = MF \/ DirOf(p) # LastOf(q)

Quiet == INSTANCE StarSign WITH
           Paths <- QuietPaths, Failures <- FALSE, Resets <- FALSE, AidRefused <- FALSE

VARIABLE alone   \* this is such a card

InitBoth == Init /\ alone \in BOOLEAN
NextBoth ==
  /\ UNCHANGED alone
  /\ IF alone
     THEN Quiet!Next /\ \E c \in Clients : connected' \subseteq {c}
     ELSE Next

SpecBoth == InitBoth /\ [][NextBoth]_<<vars, alone>>

(* On such a card a call that succeeds has selected the file its path      *)
(* names, also when the driver left out the SELECT of the directory.       *)
AloneSelectsNamed == alone => SelectedIsNamed

(* On such a card a file that exists is found: no command the driver left  *)
(* out was needed, and none it sent was one the card refuses.              *)
AloneFindsFile == alone => FileFound

(* On such a card the remembered directory is the one the card is in.      *)
AloneMidIsCurrent == alone => MidIsCurrent
===========================================================================
