--------------------------- MODULE StarSignProofs ---------------------------
(* A walk that succeeds has selected the file its path names, for every     *)
(* file tree, every set of paths and every number of clients, and with      *)
(* lost commands and answers, resets and refused applications; and on a     *)
(* quiet card the driver's records allow every SELECT they leave out.       *)
EXTENDS StarSignAlone, TLAPS

(* The walk's progress is the strengthening that makes the property        *)
(* inductive: what the last command selects is looked up in cur.           *)
Inv == TypeOK /\ WalkSoFar /\ WalkIsNamed

LEMMA InitInv == Init => Inv
<1> SUFFICES ASSUME Init PROVE Inv
  OBVIOUS
<1>1. NoCall \in [client : Clients \cup {NoClient}, path : Paths \cup {<<>>},
                  way : {"walk", "virtual", "child"}, at : Nat \ {0},
                  state : {"idle", "selecting", "ok", "error"}]
  BY DEF NoCall
<1>2. call.state = "idle" /\ call.way = "walk"
  BY DEF Init, NoCall
<1>3. df5031_selected \in [Clients -> BOOLEAN] /\ DOMAIN mid_fid = Clients
  BY DEF Init
<1> QED
  BY <1>1, <1>2, <1>3, CardAssumption DEF Init, Inv, TypeOK, WalkSoFar, WalkIsNamed,
     Selecting

(* A directory's id is no file's, so a component that is not the last       *)
(* selects a directory.                                                     *)
LEMMA ComponentIsDirectory ==
  ASSUME TypeOK, NEW p \in Paths, NEW i \in 1 .. Len(p) - 1, NEW ok \in BOOLEAN,
         SelectById(p[i], ok)
  PROVE  /\ cur' \in Dirs /\ ef' \in Files \cup {NoFile}
         /\ ok => cur' = p[i]
<1>1. <<cur, p[i]>> \notin Files
  BY PathAssumption
<1> QED
  BY <1>1, CardAssumption DEF SelectById, TypeOK

(* Whatever is selected, the card is in a directory.                       *)
LEMMA SelectByIdTypes ==
  ASSUME TypeOK, NEW fid, NEW ok \in BOOLEAN, SelectById(fid, ok)
  PROVE  cur' \in Dirs /\ ef' \in Files \cup {NoFile} /\ open' = open
BY CardAssumption DEF SelectById, TypeOK

LEMMA SelectEfChildTypes ==
  ASSUME TypeOK, NEW fid, NEW ok \in BOOLEAN, SelectEfChild(fid, ok)
  PROVE  /\ cur' = cur /\ open' = open /\ ef' \in Files \cup {NoFile}
         /\ ok => ef' = <<cur, fid>>
BY DEF SelectEfChild, TypeOK

LEMMA NextInv == Inv /\ [Next]_vars => Inv'
<1> SUFFICES ASSUME Inv, [Next]_vars PROVE Inv'
  OBVIOUS
<1> USE DEF Inv
<1>1. CASE Reset
  BY <1>1, CardAssumption DEF Reset, TypeOK, WalkSoFar, WalkIsNamed, Selecting,
     NoCall, data
<1>2. ASSUME NEW c \in Clients, Connect(c) PROVE Inv'
  BY <1>2, CardAssumption DEF Connect, TypeOK, WalkSoFar, WalkIsNamed, Selecting,
     NoCall
<1>3. ASSUME NEW c \in Clients, Disconnect(c) PROVE Inv'
  BY <1>3 DEF Disconnect, TypeOK, WalkSoFar, WalkIsNamed, Selecting, NoCall, card
<1>4. ASSUME NEW c \in Clients, NEW p \in Paths, SelectFile(c, p) PROVE Inv'
  <2>1. Len(p) \in Nat \ {0} /\ p \in Seq(STRING)
    BY PathAssumption
  <2>2. TypeOK'
    BY <1>4, <2>1 DEF SelectFile, TypeOK, Way, card, data
  <2>3. WalkSoFar' /\ WalkIsNamed'
    BY <1>4, <2>1 DEF SelectFile, WalkSoFar, WalkIsNamed, Selecting, card
  <2> QED
    BY <2>2, <2>3
<1>5. ASSUME NEW ok \in BOOLEAN, SelectMid(ok) PROVE Inv'
  <2>1. TypeOK'
    <3>1. cur' \in Dirs /\ ef' \in Files \cup {NoFile} /\ open' = open
      BY <1>5, SelectByIdTypes DEF SelectMid, TypeOK, card
    <3>2. DOMAIN mid_fid' = Clients
      BY <1>5 DEF SelectMid, TypeOK
    <3> QED
      BY <1>5, <3>1, <3>2 DEF SelectMid, Selecting, Continue, TypeOK
  <2>2. WalkSoFar' /\ WalkIsNamed'
    BY <1>5 DEF SelectMid, Selecting, Continue, TypeOK, WalkSoFar, WalkIsNamed
  <2> QED
    BY <2>1, <2>2
<1>6. ASSUME NEW ok \in BOOLEAN, SelectFinal(ok) PROVE Inv'
  <2>1. TypeOK'
    BY <1>6, SelectEfChildTypes DEF SelectFinal, Selecting, Finish, TypeOK, data
  <2>2. WalkSoFar' /\ WalkIsNamed'
    BY <1>6 DEF SelectFinal, Selecting, Finish, TypeOK, WalkSoFar, WalkIsNamed
  <2> QED
    BY <2>1, <2>2
<1>7. ASSUME NEW ok \in BOOLEAN, SelectNext(ok) PROVE Inv'
  <2> DEFINE p == call.path
  <2>1. /\ Selecting("walk") /\ call.at < Len(p)
        /\ SelectById(p[call.at], ok)
        /\ Continue(ok)
        /\ UNCHANGED data
    BY <1>7 DEF SelectNext
  <2>2. p \in Paths /\ call.at \in 1 .. Len(p) - 1 /\ Len(p) \in Nat
    BY <2>1, PathAssumption DEF TypeOK
  <2>3. /\ cur' \in Dirs /\ ef' \in Files \cup {NoFile} /\ open' = open
        /\ ok => cur' = p[call.at]
    BY <2>1, <2>2, ComponentIsDirectory, SelectByIdTypes
  <2>4. TypeOK'
    BY <2>1, <2>3 DEF Selecting, Continue, TypeOK, data
  <2>5. WalkSoFar' /\ WalkIsNamed'
    BY <2>1, <2>2, <2>3 DEF Selecting, Continue, TypeOK, WalkSoFar, WalkIsNamed
  <2> QED
    BY <2>4, <2>5
<1>8. ASSUME NEW ok \in BOOLEAN, SelectLast(ok) PROVE Inv'
  <2> DEFINE p == call.path
  <2>1. /\ Selecting("walk") /\ call.at = Len(p)
        /\ IF Len(p) > 2 THEN SelectEfChild(LastOf(p), ok)
                         ELSE SelectById(LastOf(p), ok)
        /\ Finish(ok)
        /\ connected' = connected
        /\ df5031_selected' \in [Clients -> BOOLEAN]
        /\ DOMAIN mid_fid' = Clients
    BY <1>8 DEF SelectLast, TypeOK
  <2>2. /\ cur' \in Dirs /\ ef' \in Files \cup {NoFile} /\ open' = open
        /\ ok /\ Len(p) > 2 => ef' = <<cur, LastOf(p)>>
    BY <2>1, SelectByIdTypes, SelectEfChildTypes DEF TypeOK
  <2>3. Len(p) > 2 => cur = DirOf(p)
    BY <2>1 DEF WalkSoFar, TypeOK, DirOf
  <2>4. TypeOK'
    BY <2>1, <2>2 DEF Selecting, Finish, TypeOK
  <2>5. WalkSoFar'
    BY <2>1 DEF Selecting, Finish, TypeOK, WalkSoFar
  <2>6. WalkIsNamed'
    BY <2>1, <2>2, <2>3 DEF Selecting, Finish, TypeOK, WalkIsNamed, Named
  <2> QED
    BY <2>4, <2>5, <2>6
<1>9. CASE Unlock
  BY <1>9 DEF Unlock, TypeOK, WalkSoFar, WalkIsNamed, Selecting, NoCall, card, data
<1>10. CASE UNCHANGED vars
  BY <1>10 DEF vars, TypeOK, WalkSoFar, WalkIsNamed, Selecting
<1> QED
  BY <1>1, <1>2, <1>3, <1>4, <1>5, <1>6, <1>7, <1>8, <1>9, <1>10 DEF Next

(* The types; a virtual path that is selected has a directory and a file    *)
(* behind the placeholder.                                                  *)
THEOREM TypeCorrect == Spec => []TypeOK
<1> Inv => TypeOK
  BY DEF Inv
<1> QED
  BY InitInv, NextInv, PTL DEF Spec

(* A walk that starsign_select_file reports as done has selected the file   *)
(* the path names, whatever was selected before it and by whom.             *)
THEOREM WalkSelectsNamed == Spec => []WalkIsNamed
<1> Inv => WalkIsNamed
  BY DEF Inv
<1> QED
  BY InitInv, NextInv, PTL DEF Spec

-----------------------------------------------------------------------------
(* A quiet card is one of StarSign's cards, on which a command fails only  *)
(* when the card refuses it.                                               *)

Accepts(fid) ==
  open /\ (fid = MF \/ (fid \in Dirs /\ fid # cur) \/ <<cur, fid>> \in Files)
AcceptsChild(fid) == open /\ <<cur, fid>> \in Files

QuietConnect(c) ==
  /\ Connect(c)
  /\ open' = TRUE /\ cur' = MF /\ connected' = connected \cup {c}

QuietMid(ok) ==
  LET mid == DirOf(call.path) IN
  SelectMid(ok) /\ (ok <=> mid_fid[call.client] = mid \/ Accepts(mid))

QuietFinal(ok) == SelectFinal(ok) /\ (ok <=> AcceptsChild(LastOf(call.path)))
QuietWalk(ok) == SelectNext(ok) /\ (ok <=> Accepts(call.path[call.at]))

QuietLast(ok) ==
  LET last == LastOf(call.path) IN
  SelectLast(ok) /\ (ok <=> IF Len(call.path) > 2 THEN AcceptsChild(last) ELSE Accepts(last))

LEMMA QuietSelectById ==
  ASSUME NEW fid, NEW ok \in BOOLEAN, Quiet!SelectById(fid, ok)
  PROVE  SelectById(fid, ok) /\ (ok <=> Accepts(fid))
BY DEF Quiet!SelectById, SelectById, Accepts, Quiet!MF, MF, Quiet!NoFile, NoFile

LEMMA QuietSelectEfChild ==
  ASSUME NEW fid, NEW ok \in BOOLEAN, Quiet!SelectEfChild(fid, ok)
  PROVE  SelectEfChild(fid, ok) /\ (ok <=> AcceptsChild(fid))
BY DEF Quiet!SelectEfChild, SelectEfChild, AcceptsChild

LEMMA QuietSteps ==
  ASSUME Quiet!Next
  PROVE  \/ \E c \in Clients : \/ QuietConnect(c)
                               \/ Disconnect(c)
                               \/ \E p \in QuietPaths : SelectFile(c, p)
         \/ \E ok \in BOOLEAN : \/ QuietMid(ok)
                                \/ QuietFinal(ok)
                                \/ QuietWalk(ok)
                                \/ QuietLast(ok)
         \/ Unlock
<1> USE DEF Quiet!NoCall, NoCall, Quiet!NoClient, NoClient, Quiet!NoFid, NoFid, Quiet!NoFile,
            NoFile, Quiet!card, card, Quiet!data, data, Quiet!Selecting, Selecting,
            Quiet!Continue, Continue, Quiet!Finish, Finish, Quiet!LastOf, LastOf,
            Quiet!DirOf, DirOf, Quiet!MF, MF, Quiet!DF5031, DF5031
<1>1. ~Quiet!Reset
  BY DEF Quiet!Reset
<1>2. ASSUME NEW c \in Clients, Quiet!Connect(c)
      PROVE  QuietConnect(c)
  BY <1>2 DEF Quiet!Connect, QuietConnect, Connect
<1>3. ASSUME NEW c \in Clients, Quiet!Disconnect(c)
      PROVE  Disconnect(c)
  BY <1>3 DEF Quiet!Disconnect, Disconnect
<1>4. ASSUME NEW c \in Clients, NEW p \in QuietPaths, Quiet!SelectFile(c, p)
      PROVE  SelectFile(c, p)
  BY <1>4 DEF Quiet!SelectFile, SelectFile, Quiet!Way, Way, Quiet!PLACEHOLDER, PLACEHOLDER
<1>5. ASSUME NEW ok \in BOOLEAN, Quiet!SelectMid(ok)
      PROVE  QuietMid(ok)
  BY <1>5, QuietSelectById DEF Quiet!SelectMid, QuietMid, SelectMid
<1>6. ASSUME NEW ok \in BOOLEAN, Quiet!SelectFinal(ok)
      PROVE  QuietFinal(ok)
  BY <1>6, QuietSelectEfChild DEF Quiet!SelectFinal, QuietFinal, SelectFinal
<1>7. ASSUME NEW ok \in BOOLEAN, Quiet!SelectNext(ok)
      PROVE  QuietWalk(ok)
  BY <1>7, QuietSelectById DEF Quiet!SelectNext, QuietWalk, SelectNext
<1>8. ASSUME NEW ok \in BOOLEAN, Quiet!SelectLast(ok)
      PROVE  QuietLast(ok)
  BY <1>8, QuietSelectById, QuietSelectEfChild DEF Quiet!SelectLast, QuietLast, SelectLast
<1>9. Quiet!Unlock => Unlock
  BY DEF Quiet!Unlock, Unlock
<1> QED
  BY <1>1, <1>2, <1>3, <1>4, <1>5, <1>6, <1>7, <1>8, <1>9 DEF Quiet!Next

(* So what holds of StarSign's cards in general holds of the quiet ones.   *)
THEOREM QuietIsStarSign == SpecBoth => Spec
<1>1. InitBoth => Init
  BY DEF InitBoth
<1>2. [NextBoth]_<<vars, alone>> => [Next]_vars
  BY QuietSteps, QuietAssumption
     DEF NextBoth, Next, QuietConnect, QuietMid, QuietFinal, QuietWalk, QuietLast
<1> QED
  BY <1>1, <1>2, PTL DEF SpecBoth, Spec

-----------------------------------------------------------------------------
(* Where a quiet card is: in the directory that is remembered or, when     *)
(* none is, in one that no virtual path has to select.                     *)

Ends == {MF} \cup {LastOf(p) : p \in {q \in QuietPaths : ~HasPlaceholder(q)}}

OneClient ==
  /\ \A c, d \in connected : c = d
  /\ connected # {} => open
  /\ \A c \in Clients \ connected : mid_fid[c] = NoFid

QuietCall ==
  call.state # "idle" =>
    /\ call.client \in connected /\ call.path \in QuietPaths
    /\ call.way = "virtual" <=> HasPlaceholder(call.path)
    /\ Selecting("virtual") => call.at \in {1, 2}

Remembered ==
  ~(Selecting("walk") /\ call.at > 1) =>
    \A c \in connected : IF mid_fid[c] = NoFid THEN cur \in Ends ELSE cur = mid_fid[c]

MidSelected ==
  Selecting("virtual") /\ call.at = 2 => mid_fid[call.client] = DirOf(call.path)

QuietInv ==
  /\ OneClient /\ QuietCall /\ Remembered /\ MidSelected
  /\ SelectedIsNamed /\ FileFound

(* A path of a quiet card that is no virtual one has a directory as its    *)
(* last component, so that it names no file.                               *)
LEMMA QuietPath ==
  ASSUME NEW p \in QuietPaths
  PROVE  /\ p \in Paths /\ Len(p) \in Nat /\ Len(p) > 0
         /\ ~HasPlaceholder(p) =>
              /\ Len(p) <= 2 /\ LastOf(p) \in Dirs \cap Ends
              /\ Len(p) > 1 => DirOf(p) = MF
         /\ ~HasPlaceholder(p) /\ Len(p) > 1 => Named(p) \notin Files
         /\ HasPlaceholder(p) /\ Len(p) >= 4 =>
              /\ DirOf(p) # NoFid
              /\ DirOf(p) \in Ends => DirOf(p) = MF
              /\ \A f \in Files : f[2] # DirOf(p)
<1>1. p \in Paths /\ Len(p) \in Nat /\ Len(p) > 0
  BY QuietAssumption, PathAssumption
<1>2. /\ HasPlaceholder(p) => DirOf(p) # NoFid
      /\ ~HasPlaceholder(p) => /\ Len(p) <= 2 /\ LastOf(p) \in Dirs
                               /\ Len(p) > 1 => DirOf(p) = MF
  BY QuietAssumption
<1>3. ~HasPlaceholder(p) => LastOf(p) \in Ends
  BY DEF Ends
<1>4. ~HasPlaceholder(p) /\ Len(p) > 1 => Named(p) \notin Files
  BY <1>2, CardAssumption DEF Named
<1>5. HasPlaceholder(p) /\ DirOf(p) \in Ends => DirOf(p) = MF
  BY QuietAssumption DEF Ends
<1>6. Len(p) >= 4 => \A f \in Files : f[2] # DirOf(p)
  <2>1. Len(p) >= 4 => Len(p) - 1 \in 1 .. Len(p) - 1
    BY <1>1
  <2> QED
    BY <1>1, <2>1, PathAssumption DEF DirOf
<1> QED
  BY <1>1, <1>2, <1>3, <1>4, <1>5, <1>6

LEMMA QuietInit == Init => QuietInv
BY DEF Init, NoCall, QuietInv, OneClient, QuietCall, Remembered, MidSelected,
       Selecting, SelectedIsNamed, FileFound

LEMMA QuietStep ==
  ASSUME Inv, QuietInv, Quiet!Next, NEW only, connected' \subseteq {only}
  PROVE  QuietInv'
<1> USE DEF QuietInv
<1>0. TypeOK /\ WalkSoFar
  BY DEF Inv
<1>1. ASSUME NEW c \in Clients, QuietConnect(c)
      PROVE  QuietInv'
  <2>1. /\ call = NoCall /\ call' = call /\ connected' = {c} /\ open' = TRUE /\ cur' = MF
        /\ UNCHANGED mid_fid /\ c \notin connected
    BY <1>1 DEF QuietConnect, Connect
  <2>2. mid_fid[c] = NoFid
    BY <2>1 DEF OneClient
  <2>3. OneClient' /\ Remembered'
    BY <1>1, <2>1, <2>2 DEF OneClient, Remembered, Ends, QuietConnect
  <2> QED
    BY <2>1, <2>3 DEF NoCall, QuietCall, MidSelected, Selecting, SelectedIsNamed, FileFound
<1>2. ASSUME NEW c \in Clients, Disconnect(c)
      PROVE  QuietInv'
  <2>1. /\ call = NoCall /\ call' = call /\ connected' = connected \ {c}
        /\ mid_fid' = [mid_fid EXCEPT ![c] = NoFid] /\ UNCHANGED card
    BY <1>2 DEF Disconnect
  <2>2. OneClient' /\ Remembered'
    BY <1>0, <2>1 DEF OneClient, Remembered, card, TypeOK, Selecting, Ends
  <2> QED
    BY <2>1, <2>2 DEF NoCall, QuietCall, MidSelected, Selecting, SelectedIsNamed, FileFound
<1>3. ASSUME NEW c \in Clients, NEW p \in QuietPaths, SelectFile(c, p)
      PROVE  QuietInv'
  <2>1. /\ call = NoCall /\ c \in connected /\ UNCHANGED <<card, data>>
        /\ call' = [client |-> c, path |-> p, way |-> Way(c, p), at |-> 1,
                    state |-> "selecting"]
    BY <1>3 DEF SelectFile
  <2>2. Way(c, p) = "virtual" <=> HasPlaceholder(p)
    BY DEF Way, HasPlaceholder
  <2>3. ~Selecting("walk")
    BY <2>1 DEF Selecting, NoCall
  <2>4. OneClient' /\ Remembered'
    BY <2>1, <2>3 DEF OneClient, Remembered, card, data, Ends, Selecting
  <2>5. QuietCall'
    BY <2>1, <2>2 DEF QuietCall, Selecting, data
  <2> QED
    BY <2>1, <2>4, <2>5 DEF MidSelected, Selecting, SelectedIsNamed, FileFound
<1>4. ASSUME NEW ok \in BOOLEAN, QuietMid(ok)
      PROVE  QuietInv'
  <2> DEFINE c == call.client
             mid == DirOf(call.path)
  <2>1. /\ Selecting("virtual") /\ call.at = 1 /\ call.state # "idle"
        /\ IF mid_fid[c] = mid
           THEN ok /\ UNCHANGED <<card, mid_fid>>
           ELSE /\ SelectById(mid, ok)
                /\ mid_fid' = IF ok THEN [mid_fid EXCEPT ![c] = mid] ELSE mid_fid
        /\ Continue(ok) /\ connected' = connected
        /\ ok <=> mid_fid[c] = mid \/ Accepts(mid)
    BY <1>4 DEF QuietMid, SelectMid, Selecting
  <2>2. /\ c \in connected /\ c \in Clients /\ call.path \in QuietPaths
        /\ HasPlaceholder(call.path) /\ Len(call.path) >= 4 /\ open
        /\ \A d \in connected : d = c
    BY <1>0, <2>1 DEF QuietCall, TypeOK, Selecting, OneClient
  <2>3. /\ mid # NoFid
        /\ mid \in Ends => mid = MF
        /\ <<cur, mid>> \notin Files
    BY <2>2, QuietPath
  <2>4. IF mid_fid[c] = NoFid THEN cur \in Ends ELSE cur = mid_fid[c]
    BY <2>1, <2>2 DEF Remembered, Selecting
  <2>5. /\ open' /\ (ok => mid_fid'[c] = mid /\ cur' = mid)
        /\ \A d \in Clients \ {c} : mid_fid'[d] = mid_fid[d]
    <3>1. CASE mid_fid[c] = mid
      BY <2>1, <2>2, <2>3, <2>4, <3>1 DEF card
    <3>2. CASE mid_fid[c] # mid
      BY <1>0, <2>1, <2>2, <2>3, <3>2, CardAssumption DEF SelectById, TypeOK, Accepts
    <3> QED
      BY <3>1, <3>2
  <2>6. ~ok => UNCHANGED <<mid_fid, cur>> /\ mid \notin Dirs
    BY <2>1, <2>2, <2>3, <2>4, CardAssumption DEF SelectById, card, Accepts
  <2>7. OneClient' /\ Remembered'
    BY <1>0, <2>1, <2>2, <2>3, <2>4, <2>5, <2>6
       DEF OneClient, Remembered, TypeOK, Selecting, Continue, Ends
  <2>8. QuietCall' /\ MidSelected'
    BY <1>0, <2>1, <2>2, <2>5 DEF QuietCall, MidSelected, TypeOK, Selecting, Continue
  <2>9. FileFound' /\ SelectedIsNamed'
    BY <1>0, <2>1, <2>6, CardAssumption
       DEF FileFound, SelectedIsNamed, TypeOK, Continue, Named, Selecting
  <2> QED
    BY <2>7, <2>8, <2>9
<1>5. ASSUME NEW ok \in BOOLEAN, QuietFinal(ok)
      PROVE  QuietInv'
  <2>1. /\ \/ Selecting("virtual") /\ call.at = 2
           \/ Selecting("child")
        /\ SelectEfChild(LastOf(call.path), ok)
        /\ Finish(ok) /\ UNCHANGED data
        /\ ok <=> AcceptsChild(LastOf(call.path))
    BY <1>5 DEF QuietFinal, SelectFinal
  <2>2. /\ call.state # "idle" /\ call.way # "walk"
        /\ call.client \in connected /\ call.path \in QuietPaths /\ open
        /\ ok => ef' = <<cur, LastOf(call.path)>>
        /\ UNCHANGED <<cur, open>>
    BY <2>1 DEF Selecting, SelectEfChild, QuietCall, OneClient
  <2>3. OneClient' /\ Remembered'
    BY <1>0, <2>1, <2>2 DEF OneClient, Remembered, Ends, data, Selecting, Finish, TypeOK
  <2>4. QuietCall' /\ MidSelected'
    BY <1>0, <2>1, <2>2 DEF QuietCall, MidSelected, TypeOK, Selecting, Finish, data
  <2>5. FileFound' /\ SelectedIsNamed'
    <3>1. CASE Selecting("virtual")
      <4>1. HasPlaceholder(call.path) /\ Len(call.path) >= 4
        BY <1>0, <2>2, <3>1 DEF QuietCall, TypeOK, Selecting
      <4>2. cur = DirOf(call.path)
        BY <2>1, <2>2, <3>1, <4>1, QuietPath DEF Remembered, MidSelected, Selecting
      <4>3. ok <=> Named(call.path) \in Files
        BY <2>1, <2>2, <4>2 DEF AcceptsChild, Named
      <4> QED
        BY <1>0, <2>1, <2>2, <4>2, <4>3 DEF FileFound, SelectedIsNamed, Finish, Named, TypeOK
    <3>2. CASE Selecting("child")
      <4>1. ~HasPlaceholder(call.path)
        BY <2>2, <3>2 DEF QuietCall, Selecting
      <4>2. Len(call.path) \in Nat /\ Len(call.path) > 0 /\ Len(call.path) <= 2 /\ (Len(call.path) > 1 => Named(call.path) \notin Files)
        BY <2>2, <4>1, QuietPath
      <4> QED
        BY <1>0, <2>1, <4>2 DEF FileFound, SelectedIsNamed, Finish, Named, TypeOK
    <3> QED
      BY <2>1, <3>1, <3>2
  <2> QED
    BY <2>3, <2>4, <2>5
<1>6. ASSUME NEW ok \in BOOLEAN, QuietWalk(ok)
      PROVE  QuietInv'
  <2>1. /\ Selecting("walk") /\ call.at < Len(call.path)
        /\ SelectById(call.path[call.at], ok)
        /\ Continue(ok) /\ UNCHANGED data
        /\ ok <=> Accepts(call.path[call.at])
    BY <1>6 DEF QuietWalk, SelectNext
  <2>2. /\ call.state # "idle" /\ call.path \in QuietPaths /\ call.client \in connected
        /\ ~HasPlaceholder(call.path) /\ open
    BY <2>1 DEF Selecting, QuietCall, OneClient
  <2>3. call.at = 1 /\ call.path[call.at] = MF
    <3>1. call.at \in Nat \ {0} /\ call.at < Len(call.path)
      BY <1>0, <2>1 DEF TypeOK
    <3>2. /\ Len(call.path) \in Nat /\ Len(call.path) > 0 /\ Len(call.path) <= 2
          /\ Len(call.path) > 1 => DirOf(call.path) = MF
      BY <2>2, QuietPath
    <3>3. call.at = 1 /\ call.at = Len(call.path) - 1 /\ Len(call.path) > 1
      BY <3>1, <3>2
    <3> QED
      BY <3>2, <3>3 DEF DirOf
  <2>4. ok /\ open' /\ call' = [call EXCEPT !.at = 2]
    BY <1>0, <2>1, <2>2, <2>3 DEF Accepts, SelectById, Continue
  <2>5. OneClient' /\ Remembered'
    BY <1>0, <2>1, <2>4 DEF OneClient, Remembered, data, Selecting, TypeOK
  <2> QED
    BY <1>0, <2>1, <2>2, <2>4, <2>5
       DEF QuietCall, MidSelected, Selecting, FileFound, SelectedIsNamed, TypeOK, data
<1>7. ASSUME NEW ok \in BOOLEAN, QuietLast(ok)
      PROVE  QuietInv'
  <2> DEFINE c == call.client
             last == LastOf(call.path)
  <2>1. Selecting("walk") /\ call.at = Len(call.path) /\ call.state # "idle"
    BY <1>7 DEF QuietLast, SelectLast, Selecting
  <2>2. /\ call.path \in QuietPaths /\ c \in connected /\ c \in Clients /\ open
        /\ \A d \in connected : d = c
        /\ Len(call.path) \in Nat /\ Len(call.path) > 0 /\ Len(call.path) <= 2 /\ last \in Dirs \cap Ends
        /\ Len(call.path) > 1 => DirOf(call.path) = MF /\ Named(call.path) \notin Files
        /\ ~HasPlaceholder(call.path)
    <3>1. c \in connected /\ call.path \in QuietPaths /\ ~HasPlaceholder(call.path)
      BY <2>1 DEF QuietCall, Selecting
    <3>2. open /\ c \in Clients /\ \A d \in connected : d = c
      BY <1>0, <3>1 DEF OneClient, TypeOK
    <3>3. /\ Len(call.path) \in Nat /\ Len(call.path) > 0 /\ Len(call.path) <= 2 /\ last \in Dirs \cap Ends
          /\ Len(call.path) > 1 => DirOf(call.path) = MF
          /\ Len(call.path) > 1 => Named(call.path) \notin Files
      BY <3>1, QuietPath
    <3> QED
      BY <3>1, <3>2, <3>3
  <2>3. /\ SelectById(last, ok) /\ Finish(ok) /\ connected' = connected
        /\ mid_fid' = [mid_fid EXCEPT ![c] = IF ok THEN NoFid ELSE @]
        /\ ok <=> Accepts(last)
    BY <1>7, <2>2 DEF QuietLast, SelectLast
  <2>4. open' /\ (ok => cur' = last) /\ (~ok => cur' = cur)
    BY <2>2, <2>3 DEF SelectById, Accepts
  <2>5. ~ok => ~(call.at > 1)
    <3> SUFFICES ASSUME Len(call.path) > 1
                 PROVE  ok
      BY <2>1, <2>2
    <3>1. cur = MF
      BY <1>0, <2>1, <2>2 DEF WalkSoFar, DirOf
    <3> QED
      BY <2>1, <2>2, <2>3, <3>1 DEF Accepts
  <2>6. Remembered'
    <3>1. ~ok => /\ mid_fid'[c] = mid_fid[c] /\ cur' = cur
                 /\ IF mid_fid[c] = NoFid THEN cur \in Ends ELSE cur = mid_fid[c]
      BY <1>0, <2>2, <2>3, <2>4, <2>5 DEF Remembered, TypeOK
    <3>2. ok => mid_fid'[c] = NoFid /\ cur' \in Ends
      BY <1>0, <2>2, <2>3, <2>4 DEF TypeOK
    <3> QED
      BY <2>2, <2>3, <3>1, <3>2 DEF Remembered, Ends
  <2>7. OneClient'
    BY <1>0, <2>1, <2>3, <2>4 DEF OneClient, TypeOK
  <2> QED
    BY <1>0, <2>1, <2>2, <2>3, <2>6, <2>7
       DEF QuietCall, MidSelected, Selecting, FileFound, SelectedIsNamed, TypeOK, Finish
<1>8. CASE Unlock
  <2>1. call.state \in {"ok", "error"} /\ call' = NoCall /\ UNCHANGED <<card, data>>
    BY <1>8 DEF Unlock
  <2> QED
    BY <2>1 DEF card, data, NoCall, OneClient, QuietCall, Remembered, MidSelected,
                Selecting, SelectedIsNamed, FileFound, Ends
<1> QED
  BY <1>1, <1>2, <1>3, <1>4, <1>5, <1>6, <1>7, <1>8, QuietSteps

LEMMA QuietInvariant == SpecBoth => [](alone => QuietInv)
<1>1. InitBoth => (alone => QuietInv)
  BY QuietInit DEF InitBoth
<1>2. Inv /\ (alone => QuietInv) /\ [NextBoth]_<<vars, alone>> => (alone => QuietInv)'
  <2>1. ASSUME QuietInv, UNCHANGED vars
        PROVE  QuietInv'
    BY <2>1 DEF vars, QuietInv, OneClient, QuietCall, Remembered, MidSelected,
                Selecting, SelectedIsNamed, FileFound, Ends
  <2> QED
    BY <2>1, QuietStep DEF NextBoth
<1>3. Spec => []Inv
  BY InitInv, NextInv, PTL DEF Spec
<1> QED
  BY <1>1, <1>2, <1>3, QuietIsStarSign, PTL DEF SpecBoth

(* On a card that one process uses by virtual paths, and that nothing      *)
(* resets, a call that starsign_select_file reports as done has selected   *)
(* the file the path names, with or without the SELECT of its directory.   *)
THEOREM QuietSelectsNamed == SpecBoth => []AloneSelectsNamed
<1>1. (alone => QuietInv) => AloneSelectsNamed
  BY DEF QuietInv, AloneSelectsNamed
<1> QED
  BY <1>1, QuietInvariant, PTL

(* On such a card a file that exists is found: the directory that is not   *)
(* selected is the current one, and the one that is selected is another.   *)
THEOREM QuietFindsFile == SpecBoth => []AloneFindsFile
<1>1. (alone => QuietInv) => AloneFindsFile
  BY DEF QuietInv, AloneFindsFile
<1> QED
  BY <1>1, QuietInvariant, PTL

(* On such a card mid_fid is, between the calls, the directory the card    *)
(* is in.                                                                  *)
THEOREM QuietMidIsCurrent == SpecBoth => []AloneMidIsCurrent
<1>1. (alone => QuietInv) => AloneMidIsCurrent
  BY DEF QuietInv, Remembered, NoCall, Selecting, AloneMidIsCurrent, MidIsCurrent
<1> QED
  BY <1>1, QuietInvariant, PTL
=============================================================================
