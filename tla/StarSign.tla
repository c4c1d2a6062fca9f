------------------------------ MODULE StarSign ------------------------------
(***************************************************************************)
(* File selection of the StarSign driver                                   *)
(* (src/OpenSC/src/libopensc/card-starsign.c).                             *)
(*                                                                         *)
(* starsign_select_file turns a path into a few SELECT commands and leaves *)
(* out those its driver data says are not needed: df5031_selected and      *)
(* mid_fid record which directory the card is in.  The card keeps one      *)
(* current directory on logical channel 1, which every process that uses   *)
(* this driver shares; the driver data is each process's own.              *)
(*                                                                         *)
(* One action is one command and its answer.  The callers select and read  *)
(* under sc_lock, so that one call at a time is under way.                 *)
(***************************************************************************)
EXTENDS Integers, Sequences

CONSTANTS
  Clients,    \* processes with the driver loaded
  Dirs,       \* file ids of the card's directories
  Files,      \* its elementary files, as <<directory, file id>>
  Paths,      \* the paths callers ask for, as sequences of file ids
  Failures,   \* a command or its answer may be lost
  Resets,     \* the card may be reset between two transactions
  AidRefused  \* it may refuse to select the application again and stay where it is

MF          == "3F00"
DF5031      == "5031"    \* the PKCS#15 application
PLACEHOLDER == "3FFF"    \* a component the card refuses to select

ASSUME CardAssumption ==
  /\ MF \in Dirs /\ PLACEHOLDER \notin Dirs
  /\ \A f \in Files : Len(f) = 2 /\ f[1] \in Dirs /\ f[2] \notin Dirs
  /\ {Failures, Resets, AidRefused} \subseteq BOOLEAN

(* Only the last component of a path may be an elementary file.            *)
ASSUME PathAssumption ==
  \A p \in Paths :
    /\ p \in Seq(STRING) /\ p # <<>>
    /\ \A i \in 1 .. Len(p) - 1 : \A f \in Files : f[2] # p[i]

NoClient == "nobody"
NoFid    == "none"       \* mid_fid_valid = 0
NoFile   == <<>>

VARIABLES
  cur,               \* card: current directory of channel 1
  ef,                \* card: selected elementary file, NoFile if none is
  open,              \* card: channel 1 is open
  connected,         \* the clients whose starsign_init succeeded
  df5031_selected,   \* driver data of each client
  mid_fid,           \* driver data of each client
  call               \* the select_file under way

card == <<cur, ef, open>>
data == <<connected, df5031_selected, mid_fid>>
vars == <<cur, ef, open, connected, df5031_selected, mid_fid, call>>

(* way: how the path is resolved; at: the next component of a walk, or     *)
(* whether a virtual path's directory is behind it; state: how far it is.  *)
NoCall == [client |-> NoClient, path |-> <<>>, way |-> "walk", at |-> 1,
           state |-> "idle"]

LastOf(p) == p[Len(p)]
DirOf(p)  == p[Len(p) - 1]

-----------------------------------------------------------------------------
(* The card.                                                               *)

(* SELECT with P1 = 00: the MF, a directory other than the current one     *)
(* ("re-selecting it while it is already current also fails"), or a file   *)
(* of the current one.                                                     *)
SelectById(fid, ok) ==
  LET accepts == open /\ \/ fid = MF
                         \/ fid \in Dirs /\ fid # cur
                         \/ <<cur, fid>> \in Files
  IN  /\ UNCHANGED open
      /\ \/ /\ accepts /\ (ok \/ Failures)
            /\ cur' = IF fid \in Dirs THEN fid ELSE cur
            /\ ef' = IF fid \in Dirs THEN NoFile ELSE <<cur, fid>>
         \/ /\ ~ok /\ (Failures \/ ~accepts)
            /\ UNCHANGED <<cur, ef>>

(* SELECT with P1 = 02, starsign_select_ef_child: a file of the current    *)
(* directory.                                                              *)
SelectEfChild(fid, ok) ==
  LET accepts == open /\ <<cur, fid>> \in Files
  IN  /\ UNCHANGED <<cur, open>>
      /\ \/ accepts /\ (ok \/ Failures) /\ ef' = <<cur, fid>>
         \/ ~ok /\ (Failures \/ ~accepts) /\ UNCHANGED ef

(* Another program resets the card: the channel is closed.                 *)
Reset ==
  /\ Resets
  /\ call = NoCall
  /\ open' = FALSE /\ cur' = MF /\ ef' = NoFile
  /\ UNCHANGED <<data, call>>

-----------------------------------------------------------------------------
(* The driver.                                                             *)

(* starsign_init: MANAGE CHANNEL opens the channel or finds it open; the   *)
(* application is selected on it unless the card says it already is.       *)
Connect(c) ==
  /\ call = NoCall /\ c \notin connected
  /\ ef' = NoFile
  /\ \/ /\ open' = TRUE
        /\ cur' \in IF open /\ AidRefused THEN {MF, cur} ELSE {MF}
        /\ connected' = connected \cup {c}
     \/ /\ Failures
        /\ open' \in {open, TRUE}
        /\ UNCHANGED <<cur, connected>>
  /\ UNCHANGED <<df5031_selected, mid_fid, call>>

(* starsign_finish frees the driver data; the next starsign_init finds it  *)
(* zeroed.                                                                 *)
Disconnect(c) ==
  /\ call = NoCall /\ c \in connected
  /\ connected' = connected \ {c}
  /\ df5031_selected' = [df5031_selected EXCEPT ![c] = FALSE]
  /\ mid_fid' = [mid_fid EXCEPT ![c] = NoFid]
  /\ UNCHANGED <<card, call>>

Way(c, p) ==
  IF \E i \in 1 .. Len(p) - 1 : p[i] = PLACEHOLDER THEN "virtual"
  ELSE IF Len(p) = 2 /\ p[1] = MF /\ df5031_selected[c] /\ p[2] # DF5031
       THEN "child" ELSE "walk"

(* Mutant: the length of a virtual path is not looked at.                  *)
SelectFileUnchecked(c, p) ==
  /\ call = NoCall /\ c \in connected
  /\ call' = [client |-> c, path |-> p, way |-> Way(c, p), at |-> 1,
              state |-> "selecting"]
  /\ UNCHANGED <<card, data>>

(* A call begins.  A virtual path that is too short is refused.            *)
SelectFile(c, p) ==
  /\ call = NoCall /\ c \in connected
  /\ Way(c, p) = "virtual" => Len(p) >= 4
  /\ call' = [client |-> c, path |-> p, way |-> Way(c, p), at |-> 1,
              state |-> "selecting"]
  /\ UNCHANGED <<card, data>>

Selecting(way) == call.state = "selecting" /\ call.way = way

(* The call goes on after a positive answer, or returns an error.          *)
Continue(ok) ==
  call' = IF ok THEN [call EXCEPT !.at = @ + 1] ELSE [call EXCEPT !.state = "error"]
Finish(ok) ==
  call' = [call EXCEPT !.state = IF ok THEN "ok" ELSE "error"]

(* Mutant: the directory is selected whether or not it is current.         *)
SelectMidAlways(ok) ==
  LET c == call.client  mid == DirOf(call.path) IN
  /\ Selecting("virtual") /\ call.at = 1
  /\ SelectById(mid, ok)
  /\ mid_fid' = IF ok THEN [mid_fid EXCEPT ![c] = mid] ELSE mid_fid
  /\ Continue(ok)
  /\ UNCHANGED <<connected, df5031_selected>>

(* Mutant: the directory selected first serves every virtual path.         *)
SelectMidOnce(ok) ==
  LET c == call.client  mid == DirOf(call.path) IN
  /\ Selecting("virtual") /\ call.at = 1
  /\ IF mid_fid[c] # NoFid
     THEN ok /\ UNCHANGED <<card, mid_fid>>
     ELSE /\ SelectById(mid, ok)
          /\ mid_fid' = IF ok THEN [mid_fid EXCEPT ![c] = mid] ELSE mid_fid
  /\ Continue(ok)
  /\ UNCHANGED <<connected, df5031_selected>>

(* A virtual path's directory, unless it is the one selected last.         *)
SelectMid(ok) ==
  LET c == call.client  mid == DirOf(call.path) IN
  /\ Selecting("virtual") /\ call.at = 1
  /\ IF mid_fid[c] = mid
     THEN ok /\ UNCHANGED <<card, mid_fid>>
     ELSE /\ SelectById(mid, ok)
          /\ mid_fid' = IF ok THEN [mid_fid EXCEPT ![c] = mid] ELSE mid_fid
  /\ Continue(ok)
  /\ UNCHANGED <<connected, df5031_selected>>

(* A virtual path's file, or a file of the application directory.          *)
SelectFinal(ok) ==
  /\ \/ Selecting("virtual") /\ call.at = 2
     \/ Selecting("child")
  /\ SelectEfChild(LastOf(call.path), ok)
  /\ Finish(ok)
  /\ UNCHANGED data

(* Mutant: the walk goes on after a refusal.                               *)
SelectNextUnchecked(ok) ==
  /\ Selecting("walk") /\ call.at < Len(call.path)
  /\ SelectById(call.path[call.at], ok)
  /\ Continue(TRUE)
  /\ UNCHANGED data

(* A walk: every component but the last ...                                *)
SelectNext(ok) ==
  /\ Selecting("walk") /\ call.at < Len(call.path)
  /\ SelectById(call.path[call.at], ok)
  /\ Continue(ok)
  /\ UNCHANGED data

(* Mutant: the remembered directory survives a walk.                       *)
SelectLastKeepsMid(ok) ==
  LET c == call.client  p == call.path IN
  /\ Selecting("walk") /\ call.at = Len(p)
  /\ IF Len(p) > 2 THEN SelectEfChild(LastOf(p), ok) ELSE SelectById(LastOf(p), ok)
  /\ df5031_selected' =
       [df5031_selected EXCEPT ![c] = @ \/ (ok /\ Len(p) = 2 /\ p[2] = DF5031)]
  /\ Finish(ok)
  /\ UNCHANGED <<connected, mid_fid>>

(* ... and the last, which is a file unless the path has two components.   *)
(* Only a walk that succeeded forgets the remembered directory.            *)
SelectLast(ok) ==
  LET c == call.client  p == call.path IN
  /\ Selecting("walk") /\ call.at = Len(p)
  /\ IF Len(p) > 2 THEN SelectEfChild(LastOf(p), ok) ELSE SelectById(LastOf(p), ok)
  /\ df5031_selected' =
       [df5031_selected EXCEPT ![c] = @ \/ (ok /\ Len(p) = 2 /\ p[2] = DF5031)]
  /\ mid_fid' = [mid_fid EXCEPT ![c] = IF ok THEN NoFid ELSE @]
  /\ Finish(ok)
  /\ UNCHANGED connected

(* The caller has read the file, or seen the error, and unlocks the card.  *)
Unlock ==
  /\ call.state \in {"ok", "error"}
  /\ call' = NoCall
  /\ UNCHANGED <<card, data>>

Init ==
  /\ cur = MF /\ ef = NoFile /\ open = FALSE
  /\ connected = {}
  /\ df5031_selected = [c \in Clients |-> FALSE]
  /\ mid_fid = [c \in Clients |-> NoFid]
  /\ call = NoCall

Next ==
  \/ Reset
  \/ \E c \in Clients : \/ Connect(c)
                        \/ Disconnect(c)
                        \/ \E p \in Paths : SelectFile(c, p)
  \/ \E ok \in BOOLEAN : \/ SelectMid(ok)
                         \/ SelectFinal(ok)
                         \/ SelectNext(ok)
                         \/ SelectLast(ok)
  \/ Unlock

Spec == Init /\ [][Next]_vars

-----------------------------------------------------------------------------
(* Properties                                                              *)

(* The types; and a virtual path that is selected has a directory and a    *)
(* file behind the placeholder.                                            *)
TypeOK ==
  /\ cur \in Dirs /\ ef \in Files \cup {NoFile} /\ open \in BOOLEAN
  /\ connected \subseteq Clients
  /\ df5031_selected \in [Clients -> BOOLEAN]
  /\ DOMAIN mid_fid = Clients
  /\ call \in [client : Clients \cup {NoClient}, path : Paths \cup {<<>>},
               way : {"walk", "virtual", "child"}, at : Nat \ {0},
               state : {"idle", "selecting", "ok", "error"}]
  /\ call.way = "virtual" => Len(call.path) >= 4

Named(p) == <<DirOf(p), LastOf(p)>>

(* While a walk is under way the card is in the directory the walk         *)
(* selected last.                                                          *)
WalkSoFar ==
  Selecting("walk") =>
    /\ call.at <= Len(call.path)
    /\ call.at > 1 => cur = call.path[call.at - 1]

(* Whatever other clients, failures and resets did to the card's current   *)
(* directory, a walk that succeeds has selected the file its path names.   *)
WalkIsNamed ==
  call.state = "ok" /\ call.way = "walk" /\ Len(call.path) > 2 => ef = Named(call.path)

(* A call that succeeds has selected the file its path names, also when    *)
(* the driver left out the selection of the file's directory.              *)
SelectedIsNamed ==
  call.state = "ok" /\ Len(call.path) > 2 => ef = Named(call.path)

(* A file that exists is found: no command the driver left out was needed, *)
(* and none it sent was one the card refuses.                              *)
FileFound ==
  call.state = "error" /\ Len(call.path) > 1 => Named(call.path) \notin Files

(* The remembered directory is the one the card is in.                     *)
MidIsCurrent ==
  call = NoCall => \A c \in connected : mid_fid[c] # NoFid => cur = mid_fid[c]
=============================================================================
