--------------------------- MODULE CryptokiProofs ---------------------------
(* Proofs about Cryptoki, for every set of slots and readers: types; who   *)
(* is logged in to what; what the session counters count; and that a call  *)
(* that looks for cards comes to an end.                                   *)
EXTENDS Cryptoki, FiniteSetTheorems, WellFoundedInduction, TLAPS

-----------------------------------------------------------------------------
(* Lemmas about the operators                                              *)

(* A residue is in range.                                                  *)
LEMMA ModRange ==
  ASSUME NEW a \in Int
  PROVE  a % UIntMod \in 0 .. UIntMod - 1
BY BoundAssumption

(* A number in range is its own residue.                                   *)
LEMMA ModSame ==
  ASSUME NEW a \in Nat, a < UIntMod
  PROVE  a % UIntMod = a
BY BoundAssumption, SMTT(30)

(* The sessions a close-all loop closes are finitely many.                 *)
LEMMA ClosedFinite ==
  ASSUME NEW s, IsFiniteSet(sessions)
  PROVE  /\ IsFiniteSet(Closed(s))
         /\ Cardinality(Closed(s)) \in Nat
         /\ Closed(s) \subseteq sessions
<1>1. Closed(s) \subseteq sessions
  BY DEF Closed, SessionsOn
<1> QED
  BY <1>1, FS_Subset, FS_CardinalityType

(* A set of numbers has a smallest one.                                    *)
NatLess == {pair \in Nat \X Nat : pair[1] < pair[2]}

LEMMA SmallestNat ==
  ASSUME NEW S, S \subseteq Nat, S # {}
  PROVE  \E x \in S : \A y \in S : x <= y
<1>1. IsWellFoundedOn(NatLess, Nat)
  BY NatLessThanWellFounded DEF OpToRel, NatLess
<1>2. PICK x \in S : \A y \in S : ~ (<<y, x>> \in NatLess)
  BY <1>1, WFMin, Zenon
<1>3. ASSUME NEW y \in S
      PROVE  x <= y
  <2>1. ~ (<<y, x>> \in NatLess)
    BY <1>2
  <2>2. x \in Nat /\ y \in Nat
    OBVIOUS
  <2>3. y < x => <<y, x>> \in NatLess
    BY <2>2, SMT DEF NatLess
  <2> QED
    BY <2>1, <2>2, <2>3, SMT
<1> QED
  BY <1>3

LEMMA MinOfIsIn ==
  ASSUME NEW S, S \subseteq Nat, S # {}
  PROVE  MinOf(S) \in S
BY SmallestNat, Zenon DEF MinOf

-----------------------------------------------------------------------------
(* Types                                                                   *)

(* TypeOK alone is not inductive.  A close-all loop takes the number of    *)
(* closed sessions off the counter, which is a number only if the table is *)
(* finite; and the steps of a call refer to the slot it was called for.    *)
WorkOfACall(w) == w = NoWork \/ (w.slot \in Slots /\ w.call # "none")

Typed ==
  /\ TypeOK
  /\ IsFiniteSet(sessions)
  /\ WorkOfACall(work)

LEMMA LessType ==
  ASSUME Typed, NEW s \in Slots, NEW n \in Nat
  PROVE  Less(s, n) \in 0 .. UIntMod - 1
<1>1. nsessions[s] - n \in Int
  BY BoundAssumption DEF Typed, TypeOK
<1> QED
  BY <1>1, ModRange DEF Less

LEMMA ForgetLoginType ==
  ASSUME Typed, NEW s, ForgetLogin(s)
  PROVE  /\ login_user' \in [Slots -> Users \cup {NONE}]
         /\ logins' \in [Slots -> Seq(Users)]
<1>1. <<>> \in Seq(Users)
  OBVIOUS
<1>2. login_user' \in [Slots -> Users \cup {NONE}]
  BY DEF Typed, TypeOK, ForgetLogin
<1>3. logins' \in [Slots -> Seq(Users)]
  BY <1>1 DEF Typed, TypeOK, ForgetLogin
<1> QED
  BY <1>2, <1>3

LEMMA ResetType ==
  ASSUME Typed, NEW s, NEW rv, ResetLoginState(s, rv)
  PROVE  /\ login_user' \in [Slots -> Users \cup {NONE}]
         /\ logins' \in [Slots -> Seq(Users)]
BY ForgetLoginType DEF ResetLoginState, Typed, TypeOK

LEMMA CloseAllType ==
  ASSUME Typed, NEW s \in Slots, NEW user \in Users \cup {NONE}, CloseAll(s, user)
  PROVE  /\ sessions' \subseteq Session
         /\ IsFiniteSet(sessions')
         /\ nsessions' \in [Slots -> 0 .. UIntMod - 1]
         /\ login_user' \in [Slots -> Users \cup {NONE}]
         /\ logins' \in [Slots -> Seq(Users)]
<1> DEFINE n == Cardinality(Closed(s))
<1>1. Less(s, n) \in 0 .. UIntMod - 1
  BY LessType, ClosedFinite DEF Typed
<1>2. sessions' \subseteq Session /\ IsFiniteSet(sessions')
  BY FS_Difference DEF CloseAll, Typed, TypeOK
<1>3. nsessions' \in [Slots -> 0 .. UIntMod - 1]
  BY <1>1 DEF CloseAll, Typed, TypeOK
<1>4. /\ login_user' \in [Slots -> Users \cup {NONE}]
      /\ logins' \in [Slots -> Seq(Users)]
  BY ForgetLoginType DEF CloseAll, Typed, TypeOK
<1> QED
  BY <1>2, <1>3, <1>4

(* A call that is at work has a slot.                                      *)
LEMMA Busy ==
  ASSUME Typed,
         \/ work.call # "none" \/ work.readers # {}
         \/ work.removing # {} \/ work.next # "none"
  PROVE  work.slot \in Slots /\ work.call # "none"
BY DEF Typed, WorkOfACall, NoWork

LEMMA TypedInit == Init => Typed
<1> SUFFICES ASSUME Init PROVE Typed
  OBVIOUS
<1>1. IsFiniteSet(sessions)
  BY FS_EmptySet DEF Init
<1>2. work \in Work
  BY DEF Init, NoWork, Work, Calls
<1>3. logins \in [Slots -> Seq(Users)]
  BY DEF Init
<1>4. nsessions \in [Slots -> 0 .. UIntMod - 1]
  BY BoundAssumption DEF Init
<1>5. login_user \in [Slots -> Users \cup {NONE}]
  BY DEF Init
<1>6. TypeOK
  BY <1>2, <1>3, <1>4, <1>5 DEF Init, TypeOK
<1>7. WorkOfACall(work)
  BY DEF Init, WorkOfACall
<1> QED
  BY <1>1, <1>6, <1>7 DEF Typed

LEMMA TypedNext == Typed /\ [Next]_vars => Typed'
<1> SUFFICES ASSUME Typed, [Next]_vars PROVE Typed'
  OBVIOUS
<1> USE SlotsAssumption, BoundAssumption
<1>a. NoWork \in Work /\ WorkOfACall(NoWork)
  BY DEF NoWork, Work, Calls, WorkOfACall
<1>1. ASSUME NEW x \in sessions, C_CloseSession(x) PROVE Typed'
  <2>1. x.slot \in Slots
    BY DEF Typed, TypeOK, Session
  <2>2. Less(x.slot, 1) \in 0 .. UIntMod - 1
    BY <2>1, LessType
  <2>3. sessions' \subseteq Session /\ IsFiniteSet(sessions')
    BY <1>1, FS_RemoveElement DEF C_CloseSession, Typed, TypeOK
  <2>4. /\ login_user' \in [Slots -> Users \cup {NONE}]
        /\ logins' \in [Slots -> Seq(Users)]
    BY <1>1, ForgetLoginType DEF C_CloseSession, Typed, TypeOK
  <2> QED
    BY <1>1, <2>2, <2>3, <2>4 DEF C_CloseSession, Typed, TypeOK, cardVars
<1>2. ASSUME NEW x \in sessions, C_GetSessionInfo(x) PROVE Typed'
  <2>1. x.slot \in Slots
    BY DEF Typed, TypeOK, Session
  <2> QED
    BY <1>2, <2>1, CloseAllType DEF C_GetSessionInfo, Typed, TypeOK, cardVars
<1>3. ASSUME NEW x \in sessions, C_Logout(x) PROVE Typed'
  BY <1>3, ForgetLoginType DEF C_Logout, Typed, TypeOK, cardVars
<1>4. ASSUME NEW x \in sessions, NEW rv, UseToken(x, rv) PROVE Typed'
  BY <1>4, ResetType DEF UseToken, Typed, TypeOK, cardVars
<1>5. ASSUME NEW x \in sessions, NEW rv, C_InitPIN(x, rv) PROVE Typed'
  <2>1. userPin' \in [Slots -> BOOLEAN]
    <3>1. PICK init \in BOOLEAN :
            userPin' = [userPin EXCEPT ![x.slot] = @ \/ (init /\ rv = "CKR_OK")]
      BY <1>5 DEF C_InitPIN
    <3> QED
      BY <3>1 DEF Typed, TypeOK
  <2> QED
    BY <1>5, <2>1, ResetType DEF C_InitPIN, Typed, TypeOK
<1>6. ASSUME NEW x \in sessions, NEW rv, C_SetPIN(x, rv) PROVE Typed'
  BY <1>6, ResetType DEF C_SetPIN, Typed, TypeOK, cardVars
<1>7. ASSUME NEW x \in sessions, NEW user \in Users, NEW rv, C_Login(x, user, rv)
      PROVE  Typed'
  <2>1. CASE UNCHANGED userVars
    BY <1>7, <2>1 DEF C_Login, Typed, TypeOK, cardVars, userVars
  <2>2. CASE /\ login_user' = [login_user EXCEPT ![x.slot] = user]
             /\ logins' = [logins EXCEPT ![x.slot] =
                             IF Atomic THEN Append(@, user) ELSE @]
             /\ UNCHANGED <<sessions, nsessions, lock>>
    <3>1. x.slot \in Slots
      BY DEF Typed, TypeOK, Session
    <3>2. Append(logins[x.slot], user) \in Seq(Users)
      BY <3>1 DEF Typed, TypeOK
    <3> QED
      BY <1>7, <2>2, <3>2 DEF C_Login, Typed, TypeOK, cardVars
  <2>3. CASE ResetLoginState(x.slot, rv) /\ UNCHANGED <<sessions, nsessions, lock>>
    BY <1>7, <2>3, ResetType DEF C_Login, Typed, TypeOK, cardVars
  <2> QED
    BY <1>7, <2>1, <2>2, <2>3 DEF C_Login
<1>8. ASSUME NEW call \in {"C_GetSlotList", "C_GetSlotInfo"}, NEW s \in Slots,
             DetectAll(call, s)
      PROVE  Typed'
  <2>1. work' \in Work
    BY <1>8 DEF DetectAll, NoWork, Work, Calls
  <2>2. WorkOfACall(work')
    BY <1>8 DEF DetectAll, NoWork, WorkOfACall
  <2> QED
    BY <1>8, <2>1, <2>2 DEF DetectAll, Typed, TypeOK, userVars, cardVars
<1>9. ASSUME NEW call \in {"C_OpenSession", "C_CloseAllSessions", "C_InitToken"},
             NEW s \in Slots, NEW rw \in BOOLEAN, GetToken(call, s, rw)
      PROVE  Typed'
  <2> DEFINE rs == IF present[s] THEN {} ELSE {ReaderOf[s]}
  <2>1. rs \in SUBSET Readers
    OBVIOUS
  <2>2. work' = [NoWork EXCEPT !.call = call, !.slot = s, !.rw = rw, !.readers = rs]
    BY <1>9 DEF GetToken
  <2> HIDE DEF rs
  <2>3. work' \in Work /\ WorkOfACall(work')
    BY <2>1, <2>2 DEF NoWork, Work, Calls, WorkOfACall
  <2> QED
    BY <1>9, <2>3 DEF GetToken, Typed, TypeOK, userVars, cardVars
<1>10. CASE DetectKeep
  <2>1. work.slot \in Slots /\ work.call # "none"
    BY <1>10, Busy DEF DetectKeep, Looking
  <2>2. PICK seen \in BOOLEAN :
          work' = [work EXCEPT !.seen = seen,
                     !.readers = @ \ {MinOf(@)}]
    BY <1>10 DEF DetectKeep
  <2>3. work' \in Work
    BY <2>2 DEF Typed, TypeOK, Work
  <2>4. WorkOfACall(work')
    BY <2>1, <2>2 DEF Typed, TypeOK, Work, WorkOfACall
  <2> QED
    BY <1>10, <2>3, <2>4 DEF DetectKeep, Typed, TypeOK, userVars, cardVars
<1>11. ASSUME NEW next \in {"done", "bind", "detach"}, DetectRemoved(next)
       PROVE  Typed'
  <2>1. work.slot \in Slots /\ work.call # "none"
    BY <1>11, Busy DEF DetectRemoved, Looking
  <2>2. work' \in Work
    BY <1>11 DEF DetectRemoved, Typed, TypeOK, Work, SlotsOf
  <2>3. WorkOfACall(work')
    BY <1>11, <2>1 DEF DetectRemoved, Typed, TypeOK, Work, WorkOfACall
  <2> QED
    BY <1>11, <2>2, <2>3 DEF DetectRemoved, Typed, TypeOK, userVars, cardVars
<1>12. CASE DetectNew
  <2>1. work.slot \in Slots /\ work.call # "none"
    BY <1>12, Busy DEF DetectNew, Looking
  <2>2. work' \in Work
    BY <1>12 DEF DetectNew, Typed, TypeOK, Work
  <2>3. WorkOfACall(work')
    BY <1>12, <2>1 DEF DetectNew, Typed, TypeOK, Work, WorkOfACall
  <2> QED
    BY <1>12, <2>2, <2>3 DEF DetectNew, Typed, TypeOK, userVars, cardVars
<1>13. CASE CreateSlots
  <2>1. nsessions' \in [Slots -> 0 .. UIntMod - 1]
    BY <1>13 DEF CreateSlots, Typed, TypeOK
  <2>2. login_user' \in [Slots -> Users \cup {NONE}]
    BY <1>13 DEF CreateSlots, Typed, TypeOK
  <2>3. /\ attached' \in [Slots -> BOOLEAN]
        /\ present' \in [Slots -> BOOLEAN]
        /\ p11card' \in [Slots -> BOOLEAN]
        /\ userPin' \in [Slots -> BOOLEAN]
    BY <1>13 DEF CreateSlots, Typed, TypeOK
  <2> QED
    BY <1>13, <2>1, <2>2, <2>3 DEF CreateSlots, Typed, TypeOK
<1>14. CASE SlotTokenRemoved
  <2> DEFINE s == MinOf(work.removing)
  <2>1. sessions' \subseteq Session /\ IsFiniteSet(sessions')
    BY <1>14, FS_Difference DEF SlotTokenRemoved, Typed, TypeOK
  <2>2. Cardinality(Closed(s)) \in Nat
    BY ClosedFinite DEF Typed
  <2>3. s \in Slots => Less(s, Cardinality(Closed(s))) \in 0 .. UIntMod - 1
    BY <2>2, LessType
  <2>4. nsessions' \in [Slots -> 0 .. UIntMod - 1]
    BY <1>14, <2>3 DEF SlotTokenRemoved, Typed, TypeOK
  <2>5. work.slot \in Slots /\ work.call # "none"
    BY <1>14, Busy DEF SlotTokenRemoved
  <2>6. work' \in Work
    BY <1>14 DEF SlotTokenRemoved, Typed, TypeOK, Work
  <2>7. WorkOfACall(work')
    BY <1>14, <2>5 DEF SlotTokenRemoved, Typed, TypeOK, Work, WorkOfACall
  <2>8. /\ login_user' \in [Slots -> Users \cup {NONE}]
        /\ logins' \in [Slots -> Seq(Users)]
    BY <1>14, ForgetLoginType DEF SlotTokenRemoved
  <2>9. /\ present' \in [Slots -> BOOLEAN]
        /\ p11card' \in [Slots -> BOOLEAN]
        /\ userPin' \in [Slots -> BOOLEAN]
    BY <1>14 DEF SlotTokenRemoved, ForgetToken, Typed, TypeOK
  <2> QED
    BY <1>14, <2>1, <2>4, <2>6, <2>7, <2>8, <2>9 DEF SlotTokenRemoved, Typed, TypeOK
<1>15. CASE DetectDone
  <2>1. work.slot \in Slots /\ work.call # "none"
    BY <1>15, Busy DEF DetectDone, Removed
  <2>2. work' \in Work
    BY <1>15 DEF DetectDone, Typed, TypeOK, Work
  <2>3. WorkOfACall(work')
    BY <1>15, <2>1 DEF DetectDone, Typed, TypeOK, Work, WorkOfACall
  <2> QED
    BY <1>15, <2>2, <2>3 DEF DetectDone, Typed, TypeOK, userVars, cardVars
<1>16. CASE DetachReader
  <2>1. work.slot \in Slots /\ work.call # "none"
    BY <1>16, Busy DEF DetachReader, Removed
  <2>2. work' \in Work
    BY <1>16 DEF DetachReader, Typed, TypeOK, Work
  <2>3. WorkOfACall(work')
    BY <1>16, <2>1 DEF DetachReader, Typed, TypeOK, Work, WorkOfACall
  <2> QED
    BY <1>16, <2>2, <2>3 DEF DetachReader, Typed, TypeOK, userVars
<1>17. ASSUME NEW k \in PinSlots, BindCard(k) PROVE Typed'
  <2>1. work.slot \in Slots /\ work.call # "none"
    BY <1>17, Busy DEF BindCard, Removed
  <2>2. work' \in Work
    BY <1>17 DEF BindCard, Typed, TypeOK, Work
  <2>3. WorkOfACall(work')
    BY <1>17, <2>1 DEF BindCard, Typed, TypeOK, Work, WorkOfACall
  <2> QED
    BY <1>17, <2>2, <2>3 DEF BindCard, Typed, TypeOK, userVars
<1>18. CASE BindFails
  <2>1. work.slot \in Slots /\ work.call # "none"
    BY <1>18, Busy DEF BindFails, Removed
  <2>2. PICK seen \in BOOLEAN :
          work' = [work EXCEPT !.next = "none", !.seen = seen,
                     !.readers = @ \ {MinOf(@)}]
    BY <1>18 DEF BindFails
  <2>3. work' \in Work
    BY <2>2 DEF Typed, TypeOK, Work
  <2>4. WorkOfACall(work')
    BY <2>1, <2>2 DEF Typed, TypeOK, Work, WorkOfACall
  <2> QED
    BY <1>18, <2>3, <2>4 DEF BindFails, Typed, TypeOK, userVars, cardVars
<1>19. CASE C_GetSlotList
  BY <1>19, <1>a DEF C_GetSlotList, Return, Typed, TypeOK, userVars, cardVars
<1>20. CASE C_GetSlotInfo
  <2>1. work.slot \in Slots
    BY <1>20, Busy DEF C_GetSlotInfo, Found
  <2>2. CASE Return
    BY <1>20, <2>2, <1>a DEF C_GetSlotInfo, Return, Typed, TypeOK, userVars, cardVars
  <2>3. CASE ~Return
    <3>1. /\ work' = [work EXCEPT !.call = "C_GetSlotInfo again", !.seen = FALSE,
                        !.readers = {ReaderOf[work.slot]}]
          /\ lock' = lock
      BY <1>20, <2>3 DEF C_GetSlotInfo
    <3>2. ReaderOf[work.slot] \in Readers
      BY <2>1
    <3>3. work' \in Work
      BY <3>1, <3>2 DEF Typed, TypeOK, Work, Calls
    <3>4. WorkOfACall(work')
      BY <2>1, <3>1 DEF Typed, TypeOK, Work, WorkOfACall
    <3> QED
      BY <1>20, <3>1, <3>3, <3>4 DEF C_GetSlotInfo, Typed, TypeOK, userVars, cardVars
  <2> QED
    BY <2>2, <2>3
<1>21. CASE C_GetSlotInfoMarks
  <2>1. work.seen \in BOOLEAN
    BY DEF Typed, TypeOK, Work
  <2>2. present' \in [Slots -> BOOLEAN]
    BY <1>21, <2>1 DEF C_GetSlotInfoMarks, Typed, TypeOK
  <2> QED
    BY <1>21, <1>a, <2>2 DEF C_GetSlotInfoMarks, Return, Typed, TypeOK, userVars
<1>22. CASE C_OpenSession
  <2> DEFINE s == work.slot
  <2>1. lock' \in BOOLEAN /\ work' \in Work /\ WorkOfACall(work')
    BY <1>22, <1>a DEF C_OpenSession, Return
  <2>2. CASE UNCHANGED userVars
    BY <1>22, <2>1, <2>2 DEF C_OpenSession, Typed, TypeOK, userVars, cardVars
  <2>3. CASE ~UNCHANGED userVars
    <3>1. /\ nsessions' = [nsessions EXCEPT ![s] = (@ + 1) % UIntMod]
          /\ UNCHANGED <<login_user, logins>>
      BY <1>22, <2>3 DEF C_OpenSession
    <3>2. PICK h \in Handles :
            sessions' = sessions \cup {[handle |-> h, slot |-> s, rw |-> work.rw]}
      BY <1>22, <2>3 DEF C_OpenSession
    <3>3. s \in Slots
      BY <1>22, Busy DEF C_OpenSession, Found
    <3>4. (nsessions[s] + 1) % UIntMod \in 0 .. UIntMod - 1
      <4>1. nsessions[s] \in 0 .. UIntMod - 1
        BY <3>3 DEF Typed, TypeOK
      <4>2. nsessions[s] + 1 \in Int
        BY <4>1
      <4> QED
        BY <4>2, ModRange
    <3>5. nsessions' \in [Slots -> 0 .. UIntMod - 1]
      BY <3>1, <3>4 DEF Typed, TypeOK
    <3>6. [handle |-> h, slot |-> s, rw |-> work.rw] \in Session
      BY <3>3 DEF Typed, TypeOK, Session, Work
    <3>7. sessions' \subseteq Session /\ IsFiniteSet(sessions')
      BY <3>2, <3>6, FS_AddElement DEF Typed, TypeOK
    <3> QED
      BY <1>22, <2>1, <3>1, <3>5, <3>7 DEF C_OpenSession, Typed, TypeOK, cardVars
  <2> QED
    BY <2>2, <2>3
<1>23. CASE C_CloseAllSessions
  <2>1. lock' \in BOOLEAN /\ work' \in Work /\ WorkOfACall(work')
    BY <1>23, <1>a DEF C_CloseAllSessions, Return
  <2>2. CASE UNCHANGED userVars
    BY <1>23, <2>1, <2>2
       DEF C_CloseAllSessions, Typed, TypeOK, userVars, cardVars
  <2>3. CASE CloseAll(work.slot, login_user[work.slot])
    <3>1. work.slot \in Slots
      BY <1>23, Busy DEF C_CloseAllSessions, Found
    <3>2. login_user[work.slot] \in Users \cup {NONE}
      BY <3>1 DEF Typed, TypeOK
    <3>3. /\ sessions' \subseteq Session
          /\ IsFiniteSet(sessions')
          /\ nsessions' \in [Slots -> 0 .. UIntMod - 1]
          /\ login_user' \in [Slots -> Users \cup {NONE}]
          /\ logins' \in [Slots -> Seq(Users)]
      BY <2>3, <3>1, <3>2, CloseAllType
    <3> QED
      BY <1>23, <2>1, <3>3 DEF C_CloseAllSessions, Typed, TypeOK, cardVars
  <2> QED
    BY <1>23, <2>2, <2>3 DEF C_CloseAllSessions
<1>24. CASE C_InitToken
  <2>1. work.slot \in Slots /\ work.call # "none"
    BY <1>24, Busy DEF C_InitToken, Found
  <2>2. CASE Return
    BY <1>24, <2>2, <1>a DEF C_InitToken, Return, Typed, TypeOK, userVars, cardVars
  <2>3. CASE ~Return
    <3> DEFINE gone == {t \in SlotsOf(ReaderOf[work.slot]) : attached[t]}
    <3>1. work' = [work EXCEPT !.next = "rescan", !.removing = gone] /\ lock' = lock
      BY <1>24, <2>3 DEF C_InitToken
    <3>2. gone \in SUBSET Slots
      BY DEF SlotsOf
    <3> HIDE DEF gone
    <3>3. work' \in Work
      BY <3>1, <3>2 DEF Typed, TypeOK, Work
    <3>4. WorkOfACall(work')
      BY <2>1, <3>1 DEF Typed, TypeOK, Work, WorkOfACall
    <3> QED
      BY <1>24, <3>1, <3>3, <3>4 DEF C_InitToken, Typed, TypeOK, userVars, cardVars
  <2> QED
    BY <2>2, <2>3
<1>25. CASE Rescan
  <2>1. work.slot \in Slots /\ work.call # "none"
    BY <1>25, Busy DEF Rescan, Removed
  <2>2. work' \in Work
    BY <1>25 DEF Rescan, Typed, TypeOK, Work, Calls
  <2>3. WorkOfACall(work')
    BY <1>25, <2>1 DEF Rescan, Typed, TypeOK, Work, WorkOfACall
  <2> QED
    BY <1>25, <2>2, <2>3 DEF Rescan, Typed, TypeOK, userVars, cardVars
<1>26. CASE C_Finalize
  <2>1. IsFiniteSet(sessions') /\ sessions' \subseteq Session
    BY <1>26, FS_EmptySet DEF C_Finalize
  <2>2. nsessions' \in [Slots -> 0 .. UIntMod - 1]
    BY <1>26 DEF C_Finalize
  <2>3. login_user' \in [Slots -> Users \cup {NONE}]
    BY <1>26 DEF C_Finalize
  <2>4. logins' \in [Slots -> Seq(Users)]
    BY <1>26 DEF C_Finalize
  <2>5. /\ attached' \in [Slots -> BOOLEAN]
        /\ present' \in [Slots -> BOOLEAN]
        /\ p11card' \in [Slots -> BOOLEAN]
        /\ userPin' \in [Slots -> BOOLEAN]
    BY <1>26 DEF C_Finalize
  <2> QED
    BY <1>26, <2>1, <2>2, <2>3, <2>4, <2>5 DEF C_Finalize, Typed, TypeOK
<1>27. CASE UNCHANGED vars
  BY <1>27 DEF vars, Typed, TypeOK
<1> QED
  BY <1>1, <1>2, <1>3, <1>4, <1>5, <1>6, <1>7, <1>8, <1>9, <1>10, <1>11, <1>12,
     <1>13, <1>14, <1>15, <1>16, <1>17, <1>18, <1>19, <1>20, <1>21, <1>22, <1>23,
     <1>24, <1>25, <1>26, <1>27
     DEF Next, SessionCall, SlotCall, Progress

(* Every reachable state is well typed, whatever the slots, the readers,   *)
(* the number of PINs of a card and the width of the session counter.      *)
THEOREM TypeCorrect == Spec => []TypeOK
<1>1. Typed => TypeOK
  BY DEF Typed
<1> QED
  BY TypedInit, TypedNext, <1>1, PTL DEF Spec

-----------------------------------------------------------------------------
(* Logins, cards and readers                                               *)

(* What a slot is in: a card is shown as a token, a token is in a plugged- *)
(* in reader, and what belongs to the card is there only with the card.    *)
SlotState ==
  /\ \A s \in Slots : present[s] => attached[s]
  /\ \A s \in Slots : p11card[s] => present[s]
  /\ \A s \in Slots : login_user[s] >= 0 => p11card[s]
  /\ UserPinNeedsCard
  /\ ReclaimedLoginsEmpty
  /\ Atomic \/ \A s \in Slots : logins[s] = <<>>

(* What a call that looks for cards relies on from one step to the next:   *)
(* nothing else runs, the slot C_GetSlotInfo will mark keeps its reader,   *)
(* and of a reader being detached only the slots in `removing' still show  *)
(* a token or keep a login.                                                *)
CallState ==
  /\ ~lock => work = NoWork
  /\ work.call = "C_GetSlotInfo again" =>
       attached[work.slot] /\ work.next # "detach"
  /\ work.next = "detach" =>
       \A s \in Slots : ReaderOf[s] = MinOf(work.readers) /\ s \notin work.removing
                        => ~present[s] /\ logins[s] = <<>>

Inv == Typed /\ SlotState /\ CallState

(* A step that takes logins and saved PINs away and adds none; saved PINs  *)
(* go only together with the login.                                        *)
Forgets ==
  \A s \in Slots :
    \/ login_user'[s] = login_user[s] /\ logins'[s] = logins[s]
    \/ login_user'[s] = NONE /\ logins'[s] \in {logins[s], <<>>}

LEMMA ForgetLoginForgets ==
  ASSUME Typed, NEW s, ForgetLogin(s)
  PROVE  Forgets
<1> SUFFICES ASSUME NEW t \in Slots
             PROVE  \/ login_user'[t] = login_user[t] /\ logins'[t] = logins[t]
                    \/ login_user'[t] = NONE /\ logins'[t] \in {logins[t], <<>>}
  BY DEF Forgets
<1>1. CASE s = t
  BY <1>1 DEF ForgetLogin, Typed, TypeOK
<1>2. CASE s # t
  BY <1>2 DEF ForgetLogin, Typed, TypeOK
<1> QED
  BY <1>1, <1>2

LEMMA ResetForgets ==
  ASSUME Typed, NEW s, NEW rv, ResetLoginState(s, rv)
  PROVE  Forgets
BY ForgetLoginForgets DEF ResetLoginState, Forgets

LEMMA CloseAllForgets ==
  ASSUME Typed, NEW s \in Slots, NEW user \in {NONE, login_user[s]}, CloseAll(s, user)
  PROVE  Forgets
<1>1. CASE ForgetLogin(s)
  BY <1>1, ForgetLoginForgets
<1>2. CASE login_user' = [login_user EXCEPT ![s] = user] /\ UNCHANGED logins
  BY <1>2 DEF Forgets, Typed, TypeOK
<1> QED
  BY <1>1, <1>2 DEF CloseAll

(* Taking logins away keeps everything a slot is in.                       *)
LEMMA ForgetsKeepsSlotState ==
  ASSUME SlotState, Forgets, UNCHANGED cardVars
  PROVE  SlotState'
BY DEF SlotState, Forgets, cardVars, UserPinNeedsCard, ReclaimedLoginsEmpty, NONE

(* A call that ends, or that starts while no other runs.                   *)
LEMMA ReturnKeepsCallState ==
  ASSUME Return
  PROVE  CallState'
BY DEF Return, CallState, NoWork

LEMMA IdleKeepsCallState ==
  ASSUME CallState, ~lock, work' = work
  PROVE  CallState'
<1>1. work' = NoWork
  BY DEF CallState
<1>2. work'.call = "none" /\ work'.next = "none"
  BY <1>1 DEF NoWork
<1> QED
  BY <1>1, <1>2 DEF CallState

LEMMA SlotStateInit == Init => SlotState /\ CallState
BY DEF Init, SlotState, CallState, NoWork, UserPinNeedsCard, ReclaimedLoginsEmpty, NONE

LEMMA SlotStateNext == Inv /\ [Next]_vars => SlotState' /\ CallState'
<1> SUFFICES ASSUME Inv, [Next]_vars PROVE SlotState' /\ CallState'
  OBVIOUS
<1>typed. Typed /\ Typed'
  BY TypedNext DEF Inv
<1>state. SlotState /\ CallState
  BY DEF Inv
<1>1. ASSUME NEW x \in sessions, C_CloseSession(x) PROVE SlotState' /\ CallState'
  <2>1. Forgets
    BY <1>1, <1>typed, ForgetLoginForgets DEF C_CloseSession, Forgets
  <2> QED
    BY <1>1, <2>1, <1>state, ForgetsKeepsSlotState, IdleKeepsCallState
       DEF C_CloseSession, cardVars
<1>2. ASSUME NEW x \in sessions, C_GetSessionInfo(x) PROVE SlotState' /\ CallState'
  <2>1. x.slot \in Slots
    BY <1>typed DEF Typed, TypeOK, Session
  <2>2. Forgets
    BY <1>2, <2>1, <1>typed, CloseAllForgets DEF C_GetSessionInfo
  <2> QED
    BY <1>2, <2>2, <1>state, ForgetsKeepsSlotState, IdleKeepsCallState
       DEF C_GetSessionInfo
<1>3. ASSUME NEW x \in sessions, C_Logout(x) PROVE SlotState' /\ CallState'
  BY <1>3, <1>typed, <1>state, ForgetLoginForgets, ForgetsKeepsSlotState,
     IdleKeepsCallState DEF C_Logout
<1>4. ASSUME NEW x \in sessions, NEW rv, UseToken(x, rv)
      PROVE  SlotState' /\ CallState'
  BY <1>4, <1>typed, <1>state, ResetForgets, ForgetsKeepsSlotState,
     IdleKeepsCallState DEF UseToken
<1>5. ASSUME NEW x \in sessions, NEW rv, C_InitPIN(x, rv)
      PROVE  SlotState' /\ CallState'
  <2>1. Forgets
    BY <1>5, <1>typed, ResetForgets DEF C_InitPIN
  <2>2. \A s \in Slots : userPin'[s] => userPin[s] \/ p11card[s]
    BY <1>5, <1>typed DEF C_InitPIN, Typed, TypeOK
  <2>3. SlotState'
    BY <1>5, <2>1, <2>2, <1>state
       DEF C_InitPIN, SlotState, Forgets, UserPinNeedsCard, ReclaimedLoginsEmpty, NONE
  <2> QED
    BY <1>5, <2>3, <1>state, IdleKeepsCallState DEF C_InitPIN
<1>6. ASSUME NEW x \in sessions, NEW rv, C_SetPIN(x, rv)
      PROVE  SlotState' /\ CallState'
  <2>1. Forgets
    BY <1>6, <1>typed, ResetForgets DEF C_SetPIN, Forgets
  <2> QED
    BY <1>6, <2>1, <1>state, ForgetsKeepsSlotState, IdleKeepsCallState DEF C_SetPIN
<1>7. ASSUME NEW x \in sessions, NEW user \in Users, NEW rv, C_Login(x, user, rv)
      PROVE  SlotState' /\ CallState'
  <2>1. CallState'
    BY <1>7, <1>state, IdleKeepsCallState DEF C_Login
  <2>2. CASE UNCHANGED userVars
    <3>1. Forgets
      BY <2>2 DEF userVars, Forgets
    <3> QED
      BY <1>7, <2>1, <3>1, <1>state, ForgetsKeepsSlotState DEF C_Login
  <2>3. CASE ResetLoginState(x.slot, rv)
    BY <1>7, <2>1, <2>3, <1>typed, <1>state, ResetForgets, ForgetsKeepsSlotState
       DEF C_Login
  <2>4. CASE /\ p11card[x.slot]
             /\ login_user' = [login_user EXCEPT ![x.slot] = user]
             /\ logins' = [logins EXCEPT ![x.slot] =
                             IF Atomic THEN Append(@, user) ELSE @]
    <3>1. \A s \in Slots : login_user'[s] = login_user[s] \/ p11card[s]
      BY <2>4, <1>typed DEF Typed, TypeOK
    <3>2. \A s \in Slots : logins'[s] = logins[s] \/ (Atomic /\ p11card[s])
      BY <2>4, <1>typed, SlotsAssumption DEF Typed, TypeOK
    <3>3. SlotState'
      BY <1>7, <3>1, <3>2, <1>state
         DEF C_Login, cardVars, SlotState, UserPinNeedsCard, ReclaimedLoginsEmpty
    <3> QED
      BY <2>1, <3>3
  <2> QED
    BY <1>7, <2>2, <2>3, <2>4 DEF C_Login
<1>8. ASSUME NEW call \in {"C_GetSlotList", "C_GetSlotInfo"}, NEW s \in Slots,
             DetectAll(call, s)
      PROVE  SlotState' /\ CallState'
  <2>1. Forgets /\ UNCHANGED cardVars
    BY <1>8 DEF DetectAll, userVars, Forgets
  <2>2. CallState'
    BY <1>8 DEF DetectAll, NoWork, CallState
  <2> QED
    BY <2>1, <2>2, <1>state, ForgetsKeepsSlotState
<1>9. ASSUME NEW call \in {"C_OpenSession", "C_CloseAllSessions", "C_InitToken"},
             NEW s \in Slots, NEW rw \in BOOLEAN, GetToken(call, s, rw)
      PROVE  SlotState' /\ CallState'
  <2>1. Forgets /\ UNCHANGED cardVars
    BY <1>9 DEF GetToken, userVars, Forgets
  <2>2. lock' /\ work'.call = call /\ work'.next = "none"
    BY <1>9 DEF GetToken, NoWork
  <2>3. CallState'
    BY <2>2 DEF CallState
  <2> QED
    BY <2>1, <2>3, <1>state, ForgetsKeepsSlotState
<1>10. CASE DetectKeep
  <2>1. Forgets /\ UNCHANGED cardVars
    BY <1>10 DEF DetectKeep, userVars, Forgets
  <2>2. /\ lock' /\ work'.call = work.call /\ work'.slot = work.slot
        /\ work'.next = "none"
    BY <1>10, <1>typed DEF DetectKeep, Looking, Typed, TypeOK, Work
  <2>3. CallState'
    BY <2>1, <2>2, <1>state DEF CallState, cardVars
  <2> QED
    BY <2>1, <2>3, <1>state, ForgetsKeepsSlotState
<1>11. ASSUME NEW next \in {"done", "bind", "detach"}, DetectRemoved(next)
       PROVE  SlotState' /\ CallState'
  <2> DEFINE r == MinOf(work.readers)
  <2>1. Forgets /\ UNCHANGED cardVars
    BY <1>11 DEF DetectRemoved, userVars, Forgets
  <2>2. /\ lock' /\ work'.call = work.call /\ work'.slot = work.slot
        /\ work'.next = next /\ work'.readers = work.readers
        /\ work'.removing = {s \in SlotsOf(r) : attached[s]}
    BY <1>11, <1>typed DEF DetectRemoved, Looking, Typed, TypeOK, Work
  <2>3. ASSUME next = "detach"
        PROVE  /\ work.call # "C_GetSlotInfo again"
               /\ \A s \in Slots : ReaderOf[s] = r /\ s \notin work'.removing
                                  => ~present[s] /\ logins[s] = <<>>
    BY <1>11, <2>2, <2>3, <1>state
       DEF DetectRemoved, DetectingAll, SlotsOf, SlotState, ReclaimedLoginsEmpty
  <2>4. UNCHANGED logins
    BY <1>11 DEF DetectRemoved, userVars
  <2>5. CallState'
    BY <2>1, <2>2, <2>3, <2>4, <1>state DEF CallState, cardVars
  <2> QED
    BY <2>1, <2>5, <1>state, ForgetsKeepsSlotState
<1>12. CASE DetectNew
  <2>1. Forgets /\ UNCHANGED cardVars
    BY <1>12 DEF DetectNew, userVars, Forgets
  <2>2. /\ lock' /\ work'.call = work.call /\ work'.slot = work.slot
        /\ work'.next = "bind"
    BY <1>12, <1>typed DEF DetectNew, Looking, Typed, TypeOK, Work
  <2>3. CallState'
    BY <2>1, <2>2, <1>state DEF CallState, cardVars
  <2> QED
    BY <2>1, <2>3, <1>state, ForgetsKeepsSlotState
<1>13. CASE CreateSlots
  <2> DEFINE r == MinOf(work.readers)
  <2>1. /\ lock' = lock /\ work' = work /\ work.next = "none" /\ logins' = logins
        /\ work.call # "C_GetSlotInfo again" /\ lock
    BY <1>13 DEF CreateSlots, Looking, DetectingAll
  <2>2. CallState'
    BY <2>1 DEF CallState
  <2>3. \A s \in Slots :
          IF ReaderOf[s] = r
          THEN /\ login_user'[s] = NONE /\ attached'[s] /\ ~present'[s]
               /\ ~p11card'[s] /\ ~userPin'[s]
          ELSE /\ login_user'[s] = login_user[s] /\ attached'[s] = attached[s]
               /\ present'[s] = present[s] /\ p11card'[s] = p11card[s]
               /\ userPin'[s] = userPin[s]
    BY <1>13 DEF CreateSlots
  <2>4. ~(NONE >= 0)
    BY DEF NONE
  <2>5. ASSUME NEW s \in Slots
        PROVE  /\ present'[s] => attached'[s]
               /\ p11card'[s] => present'[s]
               /\ login_user'[s] >= 0 => p11card'[s]
               /\ userPin'[s] => p11card'[s]
               /\ ~attached'[s] => logins[s] = <<>>
    <3>1. CASE ReaderOf[s] = r
      BY <2>3, <2>4, <3>1
    <3>2. CASE ReaderOf[s] # r
      BY <2>3, <3>2, <1>state DEF SlotState, UserPinNeedsCard, ReclaimedLoginsEmpty
    <3> QED
      BY <3>1, <3>2
  <2>6. SlotState'
    BY <2>1, <2>5, <1>state DEF SlotState, UserPinNeedsCard, ReclaimedLoginsEmpty
  <2> QED
    BY <2>2, <2>6
<1>14. CASE SlotTokenRemoved
  <2> DEFINE m == MinOf(work.removing)
  <2>1. Forgets
    BY <1>14, <1>typed, ForgetLoginForgets DEF SlotTokenRemoved
  <2>2. \A s \in Slots :
          IF s = m THEN ~present'[s] /\ ~p11card'[s] /\ ~userPin'[s]
          ELSE /\ present'[s] = present[s] /\ p11card'[s] = p11card[s]
               /\ userPin'[s] = userPin[s]
    BY <1>14, <1>typed DEF SlotTokenRemoved, ForgetToken, Typed, TypeOK
  <2>3. \A s \in Slots : s = m => login_user'[s] = NONE
    BY <1>14, <1>typed DEF SlotTokenRemoved, ForgetLogin, Typed, TypeOK
  <2>4. \A s \in Slots : s = m => logins'[s] = <<>>
    <3>1. CASE Atomic
      BY <1>14, <3>1, <1>typed DEF SlotTokenRemoved, ForgetLogin, Typed, TypeOK
    <3>2. CASE ~Atomic
      BY <2>1, <3>2, <1>state DEF Forgets, SlotState
    <3> QED
      BY <3>1, <3>2
  <2>5. /\ lock' /\ work'.call = work.call /\ work'.slot = work.slot
        /\ work'.next = work.next /\ work'.readers = work.readers
        /\ work'.removing = work.removing \ {m} /\ attached' = attached
    BY <1>14, <1>typed DEF SlotTokenRemoved, Typed, TypeOK, Work
  <2>6. SlotState'
    BY <2>1, <2>2, <2>3, <2>5, <1>state
       DEF SlotState, Forgets, UserPinNeedsCard, ReclaimedLoginsEmpty, NONE
  <2>7. CallState'
    BY <2>1, <2>2, <2>4, <2>5, <1>state DEF CallState, Forgets
  <2> QED
    BY <2>6, <2>7
<1>15. CASE DetectDone
  <2>1. Forgets /\ UNCHANGED cardVars
    BY <1>15 DEF DetectDone, userVars, Forgets
  <2>2. /\ lock' /\ work'.call = work.call /\ work'.slot = work.slot
        /\ work'.next = "none"
    BY <1>15, <1>typed DEF DetectDone, Removed, Typed, TypeOK, Work
  <2>3. CallState'
    BY <2>1, <2>2, <1>state DEF CallState, cardVars
  <2> QED
    BY <2>1, <2>3, <1>state, ForgetsKeepsSlotState
<1>16. CASE DetachReader
  <2> DEFINE r == MinOf(work.readers)
  <2>1. \A s \in Slots : ReaderOf[s] = r => ~present[s] /\ logins[s] = <<>>
    BY <1>16, <1>state DEF DetachReader, Removed, CallState
  <2>2. \A s \in Slots : attached'[s] <=> ReaderOf[s] # r /\ attached[s]
    BY <1>16 DEF DetachReader
  <2>3. /\ lock' /\ work'.call = work.call /\ work'.next = "none"
        /\ work.call # "C_GetSlotInfo again"
    BY <1>16, <1>typed, <1>state
       DEF DetachReader, Removed, CallState, Typed, TypeOK, Work
  <2>4. SlotState'
    BY <1>16, <2>1, <2>2, <1>state
       DEF DetachReader, userVars, SlotState, UserPinNeedsCard, ReclaimedLoginsEmpty
  <2>5. CallState'
    BY <2>3 DEF CallState
  <2> QED
    BY <2>4, <2>5
<1>17. ASSUME NEW k \in PinSlots, BindCard(k) PROVE SlotState' /\ CallState'
  <2>1. PICK given \in SUBSET {s \in Slots : attached[s]} :
          /\ present' = [s \in Slots |-> s \in given \/ present[s]]
          /\ p11card' = [s \in Slots |-> s \in given \/ p11card[s]]
          /\ userPin' = [s \in Slots |-> (k > 0 /\ s \in given) \/ userPin[s]]
    BY <1>17 DEF BindCard, SlotsOf
  <2>2. SlotState'
    BY <1>17, <2>1, <1>state
       DEF BindCard, userVars, SlotState, UserPinNeedsCard, ReclaimedLoginsEmpty
  <2>3. /\ lock' /\ work'.call = work.call /\ work'.slot = work.slot
        /\ work'.next = "none" /\ attached' = attached
    BY <1>17, <1>typed DEF BindCard, Removed, Typed, TypeOK, Work
  <2>4. CallState'
    BY <2>3, <1>state DEF CallState
  <2> QED
    BY <2>2, <2>4
<1>18. CASE BindFails
  <2>1. Forgets /\ UNCHANGED cardVars
    BY <1>18 DEF BindFails, userVars, Forgets
  <2>2. /\ lock' /\ work'.call = work.call /\ work'.slot = work.slot
        /\ work'.next = "none"
    BY <1>18, <1>typed DEF BindFails, Removed, Typed, TypeOK, Work
  <2>3. CallState'
    BY <2>1, <2>2, <1>state DEF CallState, cardVars
  <2> QED
    BY <2>1, <2>3, <1>state, ForgetsKeepsSlotState
<1>19. CASE C_GetSlotList
  BY <1>19, <1>state, ForgetsKeepsSlotState, ReturnKeepsCallState
     DEF C_GetSlotList, userVars, Forgets
<1>20. CASE C_GetSlotInfo
  <2>1. Forgets /\ UNCHANGED cardVars
    BY <1>20 DEF C_GetSlotInfo, userVars, Forgets
  <2>2. CASE Return
    BY <2>1, <2>2, <1>state, ForgetsKeepsSlotState, ReturnKeepsCallState
  <2>3. CASE ~Return
    <3>1. /\ lock' /\ attached[work.slot] /\ work'.slot = work.slot
          /\ work'.next = "none"
      BY <1>20, <2>3, <1>typed DEF C_GetSlotInfo, Found, Typed, TypeOK, Work
    <3>2. CallState'
      BY <2>1, <3>1 DEF CallState, cardVars
    <3> QED
      BY <2>1, <3>2, <1>state, ForgetsKeepsSlotState
  <2> QED
    BY <2>2, <2>3
<1>21. CASE C_GetSlotInfoMarks
  <2>1. attached[work.slot]
    BY <1>21, <1>state DEF C_GetSlotInfoMarks, Found, CallState
  <2>2. \A s \in Slots : present'[s] = present[s] \/ (present'[s] /\ s = work.slot)
    <3>1. work.seen \in BOOLEAN
      BY <1>typed DEF Typed, TypeOK, Work
    <3>2. \A s \in Slots : s # work.slot => present'[s] = present[s]
      BY <1>21, <1>typed DEF C_GetSlotInfoMarks, Typed, TypeOK
    <3>3. \A s \in Slots : s = work.slot => present'[s] = (present[s] \/ work.seen)
      BY <1>21, <1>typed DEF C_GetSlotInfoMarks, Typed, TypeOK
    <3> QED
      BY <3>1, <3>2, <3>3, <1>typed DEF Typed, TypeOK
  <2>3. SlotState'
    BY <1>21, <2>1, <2>2, <1>state
       DEF C_GetSlotInfoMarks, userVars, SlotState, UserPinNeedsCard,
           ReclaimedLoginsEmpty
  <2> QED
    BY <1>21, <2>3, ReturnKeepsCallState DEF C_GetSlotInfoMarks
<1>22. CASE C_OpenSession
  <2>1. Forgets
    BY <1>22 DEF C_OpenSession, userVars, Forgets
  <2> QED
    BY <1>22, <2>1, <1>state, ForgetsKeepsSlotState, ReturnKeepsCallState
       DEF C_OpenSession
<1>23. CASE C_CloseAllSessions
  <2>1. work.slot \in Slots
    BY <1>23, <1>typed, Busy DEF C_CloseAllSessions, Found
  <2>2. CASE UNCHANGED userVars
    BY <1>23, <2>2, <1>state, ForgetsKeepsSlotState, ReturnKeepsCallState
       DEF C_CloseAllSessions, userVars, Forgets
  <2>3. CASE CloseAll(work.slot, login_user[work.slot])
    <3>1. Forgets
      BY <2>1, <2>3, <1>typed, CloseAllForgets
    <3> QED
      BY <1>23, <3>1, <1>state, ForgetsKeepsSlotState, ReturnKeepsCallState
         DEF C_CloseAllSessions
  <2> QED
    BY <1>23, <2>2, <2>3 DEF C_CloseAllSessions
<1>24. CASE C_InitToken
  <2>1. Forgets /\ UNCHANGED cardVars
    BY <1>24 DEF C_InitToken, userVars, Forgets
  <2>2. CASE Return
    BY <2>1, <2>2, <1>state, ForgetsKeepsSlotState, ReturnKeepsCallState
  <2>3. CASE ~Return
    <3>1. lock' /\ work'.call = "C_InitToken" /\ work'.next = "rescan"
      BY <1>24, <2>3, <1>typed DEF C_InitToken, Found, Typed, TypeOK, Work
    <3>2. CallState'
      BY <3>1 DEF CallState
    <3> QED
      BY <2>1, <3>2, <1>state, ForgetsKeepsSlotState
  <2> QED
    BY <2>2, <2>3
<1>25. CASE Rescan
  <2>1. Forgets /\ UNCHANGED cardVars
    BY <1>25 DEF Rescan, userVars, Forgets
  <2>2. lock' /\ work'.call = "C_GetSlotList" /\ work'.next = "none"
    BY <1>25, <1>typed DEF Rescan, Removed, Typed, TypeOK, Work
  <2>3. CallState'
    BY <2>2 DEF CallState
  <2> QED
    BY <2>1, <2>3, <1>state, ForgetsKeepsSlotState
<1>26. CASE C_Finalize
  <2>1. SlotState'
    BY <1>26 DEF C_Finalize, SlotState, UserPinNeedsCard, ReclaimedLoginsEmpty, NONE
  <2> QED
    BY <1>26, <2>1, <1>state, IdleKeepsCallState DEF C_Finalize
<1>27. CASE UNCHANGED vars
  BY <1>27, <1>state
     DEF vars, SlotState, CallState, UserPinNeedsCard, ReclaimedLoginsEmpty
<1> QED
  BY <1>1, <1>2, <1>3, <1>4, <1>5, <1>6, <1>7, <1>8, <1>9, <1>10, <1>11, <1>12,
     <1>13, <1>14, <1>15, <1>16, <1>17, <1>18, <1>19, <1>20, <1>21, <1>22, <1>23,
     <1>24, <1>25, <1>26, <1>27
     DEF Next, SessionCall, SlotCall, Progress

LEMMA Invariance == Spec => []Inv
<1>1. Init => Inv
  BY TypedInit, SlotStateInit DEF Inv
<1>2. Inv /\ [Next]_vars => Inv'
  BY TypedNext, SlotStateNext DEF Inv
<1> QED
  BY <1>1, <1>2, PTL DEF Spec

(* However cards and readers come and go, a slot somebody is logged in to  *)
(* has a card, shows it as a token and belongs to a plugged-in reader.     *)
THEOREM LoginOnlyOnCard == Spec => []LoginNeedsCard
<1>1. Inv => LoginNeedsCard
  BY DEF Inv, SlotState, LoginNeedsCard
<1> QED
  BY Invariance, <1>1, PTL

(* token_info, and with it the right to log in as user, goes with the card. *)
THEOREM UserPinOnlyOnCard == Spec => []UserPinNeedsCard
<1>1. Inv => UserPinNeedsCard
  BY DEF Inv, SlotState
<1> QED
  BY Invariance, <1>1, PTL

(* No saved PIN outlives the reader it was entered for: the list of logins *)
(* that create_slot takes over from a reclaimed slot is empty.             *)
THEOREM ReclaimedSlotsHaveNoLogins == Spec => []ReclaimedLoginsEmpty
<1>1. Inv => ReclaimedLoginsEmpty
  BY DEF Inv, SlotState
<1> QED
  BY Invariance, <1>1, PTL

-----------------------------------------------------------------------------
(* What may happen to a login                                              *)

(* C_Login that succeeds.                                                  *)
LogsIn(s, user) ==
  /\ login_user[s] = NONE
  /\ login_user' = [login_user EXCEPT ![s] = user]
  /\ logins' = [logins EXCEPT ![s] = IF Atomic THEN Append(@, user) ELSE @]

(* Only a successful C_Login adds a login, and only where there is none.   *)
LEMMA LoginSteps ==
  ASSUME Inv, [Next]_vars
  PROVE  Forgets \/ \E s \in Slots, user \in Users : LogsIn(s, user)
<1>typed. Typed
  BY DEF Inv
<1>same. UNCHANGED userVars => Forgets
  BY DEF userVars, Forgets
<1>0. ASSUME NEW x \in sessions PROVE x.slot \in Slots
  BY <1>typed DEF Typed, TypeOK, Session
<1>1. ASSUME NEW x \in sessions, C_CloseSession(x) PROVE Forgets
  BY <1>1, <1>typed, ForgetLoginForgets DEF C_CloseSession, Forgets
<1>2. ASSUME NEW x \in sessions, C_GetSessionInfo(x) PROVE Forgets
  BY <1>0, <1>2, <1>typed, CloseAllForgets DEF C_GetSessionInfo
<1>3. ASSUME NEW x \in sessions, C_Logout(x) PROVE Forgets
  BY <1>3, <1>typed, ForgetLoginForgets DEF C_Logout
<1>4. ASSUME NEW x \in sessions, NEW rv,
             UseToken(x, rv) \/ C_InitPIN(x, rv)
      PROVE  Forgets
  BY <1>4, <1>typed, ResetForgets DEF UseToken, C_InitPIN
<1>5. ASSUME NEW x \in sessions, NEW rv, C_SetPIN(x, rv) PROVE Forgets
  BY <1>5, <1>typed, ResetForgets DEF C_SetPIN, Forgets
<1>6. ASSUME NEW x \in sessions, NEW user \in Users, NEW rv, C_Login(x, user, rv)
      PROVE  Forgets \/ \E s \in Slots, u \in Users : LogsIn(s, u)
  <2>1. CASE ResetLoginState(x.slot, rv)
    BY <2>1, <1>typed, ResetForgets
  <2>2. CASE ~ResetLoginState(x.slot, rv) /\ ~UNCHANGED userVars
    <3>1. LogsIn(x.slot, user)
      BY <1>6, <2>2 DEF C_Login, MayLogin, LogsIn
    <3> QED
      BY <1>0, <3>1
  <2> QED
    BY <2>1, <2>2, <1>same
<1>7. CASE CreateSlots
  BY <1>7, <1>typed DEF CreateSlots, Forgets, Typed, TypeOK
<1>8. CASE SlotTokenRemoved
  BY <1>8, <1>typed, ForgetLoginForgets DEF SlotTokenRemoved
<1>9. CASE C_OpenSession
  BY <1>9 DEF C_OpenSession, userVars, Forgets
<1>10. CASE C_CloseAllSessions
  <2>1. work.slot \in Slots
    BY <1>10, <1>typed, Busy DEF C_CloseAllSessions, Found
  <2> QED
    BY <1>10, <2>1, <1>typed, <1>same, CloseAllForgets DEF C_CloseAllSessions
<1>11. CASE C_Finalize
  BY <1>11 DEF C_Finalize, Forgets
<1>12. CASE UNCHANGED vars
  BY <1>12, <1>same DEF vars, userVars
<1>13. CASE SlotCall
  BY <1>13, <1>same DEF SlotCall, DetectAll, GetToken
<1>14. CASE \/ DetectKeep \/ (\E next \in {"done", "bind", "detach"} : DetectRemoved(next))
            \/ DetectNew \/ DetectDone \/ DetachReader
            \/ (\E k \in PinSlots : BindCard(k)) \/ BindFails \/ C_GetSlotList
            \/ C_GetSlotInfo \/ C_GetSlotInfoMarks \/ C_InitToken \/ Rescan
  BY <1>14, <1>same
     DEF DetectKeep, DetectRemoved, DetectNew, DetectDone, DetachReader, BindCard,
         BindFails, C_GetSlotList, C_GetSlotInfo, C_GetSlotInfoMarks, C_InitToken,
         Rescan
<1> QED
  BY <1>1, <1>2, <1>3, <1>4, <1>5, <1>6, <1>7, <1>8, <1>9, <1>10, <1>11, <1>12,
     <1>13, <1>14 DEF Next, SessionCall, Progress

(* The user a slot is logged in as never changes without a logout between. *)
THEOREM LoginNotTakenOver == Spec => NoUserSwitch
<1>1. ASSUME Inv, [Next]_vars
      PROVE  \A s \in Slots : login_user[s] >= 0 /\ login_user'[s] >= 0
                              => login_user'[s] = login_user[s]
  <2> SUFFICES ASSUME NEW s \in Slots, login_user[s] >= 0, login_user'[s] >= 0
               PROVE  login_user'[s] = login_user[s]
    OBVIOUS
  <2>1. ~(NONE >= 0)
    BY DEF NONE
  <2>2. CASE Forgets
    BY <2>1, <2>2 DEF Forgets
  <2>3. CASE \E t \in Slots, user \in Users : LogsIn(t, user)
    <3>1. PICK t \in Slots, user \in Users : LogsIn(t, user)
      BY <2>3
    <3>2. s # t
      BY <2>1, <3>1 DEF LogsIn
    <3> QED
      BY <1>1, <3>1, <3>2 DEF LogsIn, Inv, Typed, TypeOK
  <2> QED
    BY <1>1, <2>2, <2>3, LoginSteps
<1> QED
  BY <1>1, Invariance, PTL DEF Spec, NoUserSwitch

(* With `atomic', what is replayed last before an operation is the login   *)
(* the slot says it has.                                                   *)
THEOREM LoginIsReplayed == Spec => []LoginReplayable
<1>1. Init => LoginReplayable
  BY DEF Init, LoginReplayable, NONE
<1>2. ASSUME Inv, [Next]_vars, LoginReplayable
      PROVE  LoginReplayable'
  <2> SUFFICES ASSUME Atomic, NEW s \in Slots, login_user'[s] >= 0
               PROVE  logins'[s] # <<>> /\ logins'[s][Len(logins'[s])] = login_user'[s]
    BY DEF LoginReplayable
  <2>1. ~(NONE >= 0)
    BY DEF NONE
  <2>2. CASE login_user'[s] = login_user[s] /\ logins'[s] = logins[s]
    BY <1>2, <2>2 DEF LoginReplayable
  <2>3. CASE \E t \in Slots, user \in Users : LogsIn(t, user)
    <3>1. PICK t \in Slots, user \in Users : LogsIn(t, user)
      BY <2>3
    <3>2. CASE s # t
      BY <1>2, <2>2, <3>1, <3>2 DEF LogsIn, Inv, Typed, TypeOK
    <3>3. CASE s = t
      <4>1. login_user'[s] = user /\ logins'[s] = Append(logins[s], user)
        BY <1>2, <3>1, <3>3 DEF LogsIn, Inv, Typed, TypeOK
      <4>2. logins[s] \in Seq(Users)
        BY <1>2 DEF Inv, Typed, TypeOK
      <4> QED
        BY <4>1, <4>2
    <3> QED
      BY <3>2, <3>3
  <2> QED
    BY <1>2, <2>1, <2>2, <2>3, LoginSteps DEF Forgets
<1> QED
  BY <1>1, <1>2, Invariance, PTL DEF Spec

-----------------------------------------------------------------------------
(* Counting sessions, as long as no reader is unplugged                    *)

(* Beside the two properties: a slot with sessions has a reader, so that   *)
(* create_slot clears only counters of slots without sessions, and handles *)
(* are unique, so that there are fewer sessions than the counter can hold. *)
UniqueHandles == \A x, y \in sessions : x.handle = y.handle => x = y

Counted ==
  /\ SessionCount
  /\ LastSessionLogsOut
  /\ SessionNeedsReader
  /\ UniqueHandles
  /\ work.next # "detach"

(* Sessions with different handles are no more than there are handles.     *)
LEMMA HandlesBound ==
  ASSUME NEW S \in SUBSET Session, IsFiniteSet(S),
         \A x, y \in S : x.handle = y.handle => x = y
  PROVE  Cardinality(S) \in 0 .. MaxSessions
<1> DEFINE f == [x \in S |-> x.handle]
<1>1. f \in [S -> Handles]
  BY DEF Session
<1>2. IsFiniteSet(Handles) /\ Cardinality(Handles) = MaxSessions
  <2>1. IsFiniteSet(1 .. MaxSessions)
    BY FS_Interval, BoundAssumption
  <2>2. Cardinality(1 .. MaxSessions) = MaxSessions
    BY FS_Interval, BoundAssumption
  <2> QED
    BY <2>1, <2>2 DEF Handles
<1>3. Cardinality(S) \in Nat
  BY FS_CardinalityType
<1>4. ASSUME Cardinality(Handles) < Cardinality(S)
      PROVE  \E x, y \in S : x # y /\ f[x] = f[y]
  <2> HIDE DEF f
  <2> QED
    BY <1>1, <1>2, <1>4, FS_PigeonHole
<1> QED
  BY <1>2, <1>3, <1>4, BoundAssumption

LEMMA CountBounded ==
  ASSUME Typed, UniqueHandles, NEW s
  PROVE  /\ IsFiniteSet(SessionsOn(s))
         /\ Cardinality(SessionsOn(s)) \in 0 .. MaxSessions
<1>1. SessionsOn(s) \in SUBSET sessions
  BY DEF SessionsOn
<1>2. IsFiniteSet(SessionsOn(s))
  BY <1>1, FS_Subset DEF Typed
<1>3. SessionsOn(s) \in SUBSET Session
  BY <1>1 DEF Typed, TypeOK
<1> QED
  BY <1>1, <1>2, <1>3, HandlesBound DEF UniqueHandles

(* Closing sessions of one slot: the counter follows, and a slot that      *)
(* keeps its login keeps a session.                                        *)
LEMMA ClosingCounts ==
  ASSUME Typed, Counted, NEW s \in Slots, NEW D \in SUBSET SessionsOn(s),
         sessions' = sessions \ D,
         nsessions' = [nsessions EXCEPT ![s] = Less(s, Cardinality(D))],
         \A t \in Slots : login_user'[t] >= 0 => login_user[t] >= 0,
         login_user'[s] >= 0 => ~PassesZero(s, Cardinality(D)),
         UNCHANGED attached, work'.next # "detach"
  PROVE  Counted'
<1> DEFINE n == Cardinality(D)
           c == Cardinality(SessionsOn(s))
<1>1. /\ IsFiniteSet(SessionsOn(s))
      /\ c \in 0 .. MaxSessions
  BY CountBounded DEF Counted
<1>2. n \in Nat /\ n <= c
  BY <1>1, FS_Subset, FS_CardinalityType
<1>3. /\ Cardinality(SessionsOn(s) \ D) = c - n
      /\ IsFiniteSet(SessionsOn(s) \ D)
  <2>1. SessionsOn(s) \cap D = D
    OBVIOUS
  <2> QED
    BY <1>1, <2>1, FS_Difference
<1>4. SessionsOn(s)' = SessionsOn(s) \ D
  BY DEF SessionsOn
<1>5. \A t \in Slots : t # s => SessionsOn(t)' = SessionsOn(t)
  BY DEF SessionsOn
<1>6. nsessions[s] = c
  BY DEF Counted, SessionCount
<1>7. Less(s, n) = c - n
  BY <1>1, <1>2, <1>6, ModSame, BoundAssumption DEF Less
<1>8. SessionCount'
  BY <1>3, <1>4, <1>5, <1>7 DEF Counted, SessionCount, Typed, TypeOK
<1>9. login_user'[s] >= 0 => SessionsOn(s)' # {}
  <2> SUFFICES ASSUME login_user'[s] >= 0 PROVE SessionsOn(s)' # {}
    OBVIOUS
  <2>1. SessionsOn(s) # {}
    BY DEF Counted, LastSessionLogsOut
  <2>2. c # 0
    BY <1>1, <2>1, FS_EmptySet
  <2>3. c \notin 1 .. n
    BY <1>6 DEF PassesZero
  <2>4. c - n # 0
    BY <1>1, <1>2, <2>2, <2>3
  <2> QED
    BY <1>3, <1>4, <2>4, FS_EmptySet
<1>10. LastSessionLogsOut'
  BY <1>5, <1>9 DEF Counted, LastSessionLogsOut
<1>11. SessionNeedsReader' /\ UniqueHandles'
  BY DEF Counted, SessionNeedsReader, UniqueHandles
<1> QED
  BY <1>8, <1>10, <1>11 DEF Counted

(* Sessions, counters and readers unchanged.                               *)
LEMMA StayingCounts ==
  ASSUME Counted, UNCHANGED <<sessions, nsessions, attached>>,
         \A t \in Slots : login_user'[t] >= 0 => SessionsOn(t) # {},
         work'.next # "detach"
  PROVE  Counted'
BY DEF Counted, SessionCount, LastSessionLogsOut, SessionNeedsReader, UniqueHandles,
       SessionsOn

LEMMA CountedInit == Init => Counted
<1> SUFFICES ASSUME Init PROVE Counted
  OBVIOUS
<1>1. \A s \in Slots : SessionsOn(s) = {}
  BY DEF Init, SessionsOn
<1>2. SessionCount
  BY <1>1, FS_EmptySet DEF Init, SessionCount
<1>3. LastSessionLogsOut
  BY DEF Init, LastSessionLogsOut, NONE
<1>4. work.next # "detach"
  BY DEF Init, NoWork
<1> QED
  BY <1>2, <1>3, <1>4 DEF Init, Counted, SessionNeedsReader, UniqueHandles

LEMMA CountedNext ==
  ASSUME ~Hotplug, Inv, Counted, [Next]_vars
  PROVE  Counted'
<1>typed. Typed /\ SlotState /\ CallState
  BY DEF Inv
<1>a. ~(NONE >= 0)
  BY DEF NONE
<1>b. Forgets => \A t \in Slots : login_user'[t] >= 0 => login_user[t] >= 0
  BY <1>a DEF Forgets
<1>c. \A t \in Slots : login_user[t] >= 0 => SessionsOn(t) # {}
  BY DEF Counted, LastSessionLogsOut
<1>d. ASSUME NEW x \in sessions
      PROVE  x.slot \in Slots /\ x \in SessionsOn(x.slot)
  BY <1>typed DEF Typed, TypeOK, Session, SessionsOn
<1>e. ASSUME NEW s PROVE Closed(s) \in SUBSET SessionsOn(s)
  BY DEF Closed
<1>f. ~lock => work.next # "detach" /\ (work' = work => work'.next # "detach")
  BY DEF Counted
<1>1. ASSUME NEW x \in sessions, C_CloseSession(x) PROVE Counted'
  <2> DEFINE s == x.slot
  <2>1. Cardinality({x}) = 1
    BY FS_Singleton
  <2>2. sessions' = sessions \ {x}
    <3>1. login_user[s] >= 0 => p11card[s]
      BY <1>d, <1>typed DEF SlotState
    <3> QED
      BY <1>1, <3>1 DEF C_CloseSession
  <2>3. Forgets
    BY <1>1, <1>typed, ForgetLoginForgets DEF C_CloseSession, Forgets
  <2>4. login_user'[s] >= 0 => ~PassesZero(s, 1)
    <3>1. CASE login_user[s] >= 0 /\ PassesZero(s, 1)
      BY <1>1, <1>a, <1>d, <3>1, <1>typed DEF C_CloseSession, ForgetLogin, Typed, TypeOK
    <3>2. CASE ~(login_user[s] >= 0 /\ PassesZero(s, 1))
      BY <1>1, <3>2 DEF C_CloseSession
    <3> QED
      BY <3>1, <3>2
  <2>5. work'.next # "detach" /\ UNCHANGED attached
    BY <1>1, <1>f DEF C_CloseSession, cardVars
  <2> QED
    BY <1>1, <1>b, <1>d, <2>1, <2>2, <2>3, <2>4, <2>5, <1>typed, ClosingCounts
       DEF C_CloseSession
<1>2. ASSUME NEW s \in Slots, NEW user \in {NONE, login_user[s]}, CloseAll(s, user),
             UNCHANGED attached, work'.next # "detach"
      PROVE  Counted'
  <2> DEFINE n == Cardinality(Closed(s))
  <2>1. login_user'[s] >= 0 => ~PassesZero(s, n)
    <3>1. CASE user >= 0 /\ PassesZero(s, n)
      BY <1>2, <1>a, <3>1, <1>typed DEF CloseAll, ForgetLogin, Typed, TypeOK
    <3>2. CASE ~(user >= 0 /\ PassesZero(s, n))
      BY <1>2, <3>2, <1>typed DEF CloseAll, Typed, TypeOK
    <3> QED
      BY <3>1, <3>2
  <2>2. \A t \in Slots : login_user'[t] >= 0 => login_user[t] >= 0
    BY <1>2, <1>b, <1>typed, CloseAllForgets
  <2> QED
    BY <1>2, <1>e, <2>1, <2>2, <1>typed, ClosingCounts DEF CloseAll
<1>3. ASSUME NEW x \in sessions, C_GetSessionInfo(x) PROVE Counted'
  BY <1>d, <1>f, <1>2, <1>3 DEF C_GetSessionInfo, cardVars
<1>4. ASSUME Forgets, UNCHANGED <<sessions, nsessions, attached>>,
             work'.next # "detach"
      PROVE  Counted'
  BY <1>4, <1>b, <1>c, StayingCounts
<1>5. ASSUME NEW x \in sessions, C_Logout(x) PROVE Counted'
  BY <1>f, <1>4, <1>5, <1>typed, ForgetLoginForgets DEF C_Logout, cardVars
<1>6. ASSUME NEW x \in sessions, NEW rv, UseToken(x, rv) \/ C_InitPIN(x, rv)
      PROVE  Counted'
  BY <1>f, <1>4, <1>6, <1>typed, ResetForgets DEF UseToken, C_InitPIN, cardVars
<1>7. ASSUME NEW x \in sessions, NEW rv, C_SetPIN(x, rv) PROVE Counted'
  <2>1. Forgets
    BY <1>7, <1>typed, ResetForgets DEF C_SetPIN, Forgets
  <2> QED
    BY <1>f, <1>4, <1>7, <2>1 DEF C_SetPIN, cardVars
<1>8. ASSUME NEW x \in sessions, NEW user \in Users, NEW rv, C_Login(x, user, rv)
      PROVE  Counted'
  <2>1. UNCHANGED <<sessions, nsessions, attached>> /\ work'.next # "detach"
    BY <1>f, <1>8 DEF C_Login, cardVars, userVars
  <2>2. CASE UNCHANGED userVars
    BY <1>c, <2>1, <2>2, StayingCounts DEF userVars
  <2>3. CASE ResetLoginState(x.slot, rv)
    BY <1>4, <2>1, <2>3, <1>typed, ResetForgets
  <2>4. CASE login_user' = [login_user EXCEPT ![x.slot] = user]
    <3>1. \A t \in Slots : login_user'[t] >= 0 => SessionsOn(t) # {}
      BY <1>c, <1>d, <2>4, <1>typed DEF Typed, TypeOK
    <3> QED
      BY <2>1, <3>1, StayingCounts
  <2> QED
    BY <1>8, <2>2, <2>3, <2>4 DEF C_Login
<1>9. CASE SlotCall
  <2>1. UNCHANGED <<userVars, cardVars>> /\ work'.next = "none"
    BY <1>9 DEF SlotCall, DetectAll, GetToken, NoWork
  <2> QED
    BY <1>c, <2>1, StayingCounts DEF userVars, cardVars
<1>10. ASSUME NEW next \in {"done", "bind", "detach"}, DetectRemoved(next)
       PROVE  Counted'
  <2>1. UNCHANGED <<userVars, cardVars>> /\ work'.next # "detach"
    BY <1>10, <1>typed DEF DetectRemoved, Typed, TypeOK, Work
  <2> QED
    BY <1>c, <2>1, StayingCounts DEF userVars, cardVars
<1>11. CASE \/ DetectKeep \/ DetectNew \/ DetectDone \/ BindFails \/ C_GetSlotList
            \/ C_GetSlotInfo \/ C_InitToken \/ Rescan
  <2>1. UNCHANGED <<userVars, cardVars>>
    BY <1>11 DEF DetectKeep, DetectNew, DetectDone, BindFails, C_GetSlotList,
                 C_GetSlotInfo, C_InitToken, Rescan
  <2>2. work'.next # "detach"
    <3>1. work.next # "detach" /\ work \in Work
      BY <1>typed DEF Counted, Typed, TypeOK
    <3>2. CASE DetectKeep
      BY <3>1, <3>2 DEF DetectKeep, Work
    <3>3. CASE DetectNew
      BY <3>1, <3>3 DEF DetectNew, Work
    <3>4. CASE DetectDone \/ Rescan
      BY <3>1, <3>4 DEF DetectDone, Rescan, Work
    <3>5. CASE BindFails
      BY <3>1, <3>5 DEF BindFails, Work
    <3>6. CASE C_GetSlotList
      BY <3>6 DEF C_GetSlotList, Return, NoWork
    <3>7. CASE C_GetSlotInfo
      <4>1. \/ work' = NoWork
            \/ work' = [work EXCEPT !.call = "C_GetSlotInfo again", !.seen = FALSE,
                          !.readers = {ReaderOf[work.slot]}]
        BY <3>7 DEF C_GetSlotInfo, Return
      <4>2. CASE work' = NoWork
        BY <4>2 DEF NoWork
      <4> QED
        BY <3>1, <4>1, <4>2 DEF Work
    <3>8. CASE C_InitToken
      <4>1. \/ work' = NoWork
            \/ \E S : work' = [work EXCEPT !.next = "rescan", !.removing = S]
        BY <3>8 DEF C_InitToken, Return
      <4>2. CASE work' = NoWork
        BY <4>2 DEF NoWork
      <4> QED
        BY <3>1, <4>1, <4>2 DEF Work
    <3> QED
      BY <1>11, <3>2, <3>3, <3>4, <3>5, <3>6, <3>7, <3>8
  <2> QED
    BY <1>c, <2>1, <2>2, StayingCounts DEF userVars, cardVars
<1>12. CASE CreateSlots
  <2> DEFINE r == MinOf(work.readers)
  <2>1. \A s \in Slots :
          IF ReaderOf[s] = r
          THEN ~attached[s] /\ nsessions'[s] = 0 /\ login_user'[s] = NONE /\ attached'[s]
          ELSE /\ nsessions'[s] = nsessions[s] /\ login_user'[s] = login_user[s]
               /\ attached'[s] = attached[s]
    BY <1>12 DEF CreateSlots, SlotsOf
  <2>2. sessions' = sessions /\ work' = work
    BY <1>12 DEF CreateSlots
  <2>3. \A s \in Slots : ~attached[s] => SessionsOn(s) = {}
    BY DEF Counted, SessionNeedsReader, SessionsOn
  <2>4. \A s \in Slots : SessionsOn(s)' = SessionsOn(s)
    BY <2>2 DEF SessionsOn
  <2>5. SessionCount'
    BY <2>1, <2>3, <2>4, FS_EmptySet DEF Counted, SessionCount
  <2>6. LastSessionLogsOut'
    BY <1>a, <1>c, <2>1, <2>4 DEF LastSessionLogsOut
  <2>7. SessionNeedsReader'
    BY <1>d, <2>1, <2>2 DEF Counted, SessionNeedsReader
  <2> QED
    BY <2>2, <2>5, <2>6, <2>7 DEF Counted, UniqueHandles
<1>13. CASE SlotTokenRemoved
  <2> DEFINE s == MinOf(work.removing)
  <2>1. Forgets
    BY <1>13, <1>typed, ForgetLoginForgets DEF SlotTokenRemoved
  <2>2. work'.next # "detach"
    BY <1>13, <1>typed DEF SlotTokenRemoved, Counted, Typed, TypeOK, Work
  <2>3. CASE s \in Slots
    <3>1. login_user'[s] = NONE
      BY <1>13, <2>3, <1>typed DEF SlotTokenRemoved, ForgetLogin, Typed, TypeOK
    <3> QED
      BY <1>13, <1>a, <1>b, <1>e, <2>1, <2>2, <2>3, <3>1, <1>typed, ClosingCounts
         DEF SlotTokenRemoved
  <2>4. CASE s \notin Slots
    <3>1. Closed(s) = {}
      BY <1>d, <2>4 DEF Closed, SessionsOn
    <3>2. UNCHANGED <<sessions, nsessions, attached>>
      BY <1>13, <2>4, <3>1, <1>typed DEF SlotTokenRemoved, Typed, TypeOK
    <3> QED
      BY <1>4, <2>1, <2>2, <3>2
  <2> QED
    BY <2>3, <2>4
<1>14. CASE DetachReader
  BY <1>14 DEF DetachReader, Removed, Counted
<1>15. ASSUME NEW k \in PinSlots, BindCard(k) PROVE Counted'
  <2>1. UNCHANGED <<userVars, attached>> /\ work'.next # "detach"
    BY <1>15, <1>typed DEF BindCard, Typed, TypeOK, Work
  <2> QED
    BY <1>c, <2>1, StayingCounts DEF userVars
<1>16. CASE C_GetSlotInfoMarks
  <2>1. UNCHANGED <<userVars, attached>> /\ work'.next # "detach"
    BY <1>16 DEF C_GetSlotInfoMarks, Return, NoWork
  <2> QED
    BY <1>c, <2>1, StayingCounts DEF userVars
<1>17. CASE C_OpenSession
  <2> PICK s : s = work.slot
    OBVIOUS
  <2>1. UNCHANGED attached /\ work'.next # "detach"
    BY <1>17 DEF C_OpenSession, cardVars, Return, NoWork
  <2>2. CASE UNCHANGED userVars
    BY <1>c, <2>1, <2>2, StayingCounts DEF userVars
  <2>3. CASE ~UNCHANGED userVars
    <3>1. /\ present[s]
          /\ nsessions' = [nsessions EXCEPT ![s] = (@ + 1) % UIntMod]
          /\ UNCHANGED login_user
      BY <1>17, <2>3 DEF C_OpenSession
    <3>2. PICK h \in Handles :
            /\ \A x \in sessions : x.handle < h
            /\ sessions' = sessions \cup {[handle |-> h, slot |-> s, rw |-> work.rw]}
      BY <1>17, <2>3 DEF C_OpenSession
    <3> DEFINE new == [handle |-> h, slot |-> s, rw |-> work.rw]
    <3>3. s \in Slots /\ attached[s]
      BY <1>17, <3>1, <1>typed, Busy DEF C_OpenSession, Found, SlotState
    <3>4. UniqueHandles'
      <4>1. \A x \in sessions : x.handle \in Nat
        BY <1>typed DEF Typed, TypeOK, Session, Handles
      <4>2. \A x \in sessions : x.handle # new.handle
        BY <3>2, <4>1 DEF Handles
      <4> QED
        BY <3>2, <4>2 DEF Counted, UniqueHandles
    <3>5. new \notin sessions
      <4>1. ~(h < h)
        BY DEF Handles
      <4> QED
        BY <3>2, <4>1
    <3>6. /\ SessionsOn(s)' = SessionsOn(s) \cup {new}
          /\ \A t \in Slots : t # s => SessionsOn(t)' = SessionsOn(t)
      <4>1. new.slot = s
        OBVIOUS
      <4>2. sessions' = sessions \cup {new}
        BY <3>2
      <4> HIDE DEF new
      <4> QED
        BY <4>1, <4>2 DEF SessionsOn
    <3>7. /\ IsFiniteSet(SessionsOn(s))
          /\ Cardinality(SessionsOn(s)) \in 0 .. MaxSessions
      BY <1>typed, CountBounded DEF Counted
    <3>8. Cardinality(SessionsOn(s)') = Cardinality(SessionsOn(s)) + 1
      <4>1. new \notin SessionsOn(s)
        BY <3>5 DEF SessionsOn
      <4> HIDE DEF new
      <4> QED
        BY <3>6, <3>7, <4>1, FS_AddElement
    <3>9. Cardinality(SessionsOn(s)') \in 0 .. MaxSessions
      <4>1. sessions' \in SUBSET Session
        BY <1>typed, TypedNext DEF Typed, TypeOK
      <4>2. SessionsOn(s)' \in SUBSET sessions'
        BY DEF SessionsOn
      <4>3. IsFiniteSet(SessionsOn(s)')
        <5> HIDE DEF new
        <5> QED
          BY <3>6, <3>7, FS_AddElement
      <4> QED
        BY <3>4, <4>1, <4>2, <4>3, HandlesBound DEF UniqueHandles
    <3>10. nsessions[s] = Cardinality(SessionsOn(s))
      BY <3>3 DEF Counted, SessionCount
    <3>11. (nsessions[s] + 1) % UIntMod = Cardinality(SessionsOn(s)')
      BY <3>7, <3>8, <3>9, <3>10, ModSame, BoundAssumption
    <3>12. SessionCount'
      <4> SUFFICES ASSUME NEW t \in Slots
                   PROVE  nsessions'[t] = Cardinality(SessionsOn(t)')
        BY DEF SessionCount
      <4>1. nsessions \in [Slots -> 0 .. UIntMod - 1]
        BY <1>typed DEF Typed, TypeOK
      <4>2. CASE t = s
        BY <3>1, <3>3, <3>11, <4>1, <4>2
      <4>3. CASE t # s
        BY <3>1, <3>6, <4>1, <4>3 DEF Counted, SessionCount
      <4> QED
        BY <4>2, <4>3
    <3>13. LastSessionLogsOut'
      <4> SUFFICES ASSUME NEW t \in Slots, login_user'[t] >= 0
                   PROVE  SessionsOn(t)' # {}
        BY DEF LastSessionLogsOut
      <4>1. SessionsOn(t) # {}
        BY <1>c, <3>1
      <4> HIDE DEF new
      <4> QED
        BY <3>6, <4>1
    <3>14. SessionNeedsReader'
      BY <2>1, <3>2, <3>3 DEF Counted, SessionNeedsReader
    <3> QED
      BY <2>1, <3>4, <3>12, <3>13, <3>14 DEF Counted
  <2> QED
    BY <2>2, <2>3
<1>18. CASE C_CloseAllSessions
  <2>1. work.slot \in Slots
    BY <1>18, <1>typed, Busy DEF C_CloseAllSessions, Found
  <2>2. UNCHANGED attached /\ work'.next # "detach"
    BY <1>18 DEF C_CloseAllSessions, cardVars, Return, NoWork
  <2>3. CASE UNCHANGED userVars
    BY <1>c, <2>2, <2>3, StayingCounts DEF userVars
  <2> QED
    BY <1>18, <1>2, <2>1, <2>2, <2>3 DEF C_CloseAllSessions
<1>19. CASE C_Finalize
  <2>1. \A s \in Slots : SessionsOn(s)' = {}
    BY <1>19 DEF C_Finalize, SessionsOn
  <2>2. SessionCount'
    BY <1>19, <2>1, FS_EmptySet DEF C_Finalize, SessionCount
  <2>3. LastSessionLogsOut'
    BY <1>19, <1>a DEF C_Finalize, LastSessionLogsOut
  <2> QED
    BY <1>19, <1>f, <2>2, <2>3 DEF C_Finalize, Counted, SessionNeedsReader, UniqueHandles
<1>20. CASE UNCHANGED vars
  BY <1>20, <1>c, StayingCounts DEF vars, Counted
<1> QED
  BY <1>1, <1>3, <1>5, <1>6, <1>7, <1>8, <1>9, <1>10, <1>11, <1>12, <1>13, <1>14,
     <1>15, <1>16, <1>17, <1>18, <1>19, <1>20
     DEF Next, SessionCall, Progress

LEMMA CountedInvariance == ASSUME ~Hotplug PROVE Spec => []Counted
BY CountedInit, CountedNext, Invariance, PTL DEF Spec

(* While readers stay plugged in, the counter of a slot is the number of   *)
(* its sessions, although close-all loops leave sessions behind.           *)
THEOREM CounterIsExact == ASSUME ~Hotplug PROVE Spec => []SessionCount
<1>1. Counted => SessionCount
  BY DEF Counted
<1> QED
  BY CountedInvariance, <1>1, PTL

(* While readers stay plugged in, nobody is logged in to a slot without    *)
(* sessions: the last one to close logs out, whichever way it is closed.   *)
THEOREM NoLoginWithoutSession == ASSUME ~Hotplug PROVE Spec => []LastSessionLogsOut
<1>1. Counted => LastSessionLogsOut
  BY DEF Counted
<1> QED
  BY CountedInvariance, <1>1, PTL
-----------------------------------------------------------------------------
(* A call ends: each of its steps brings it nearer to its return.          *)

(* SlotTokenRemoved for every slot, and the steps around it.               *)
PerReader == Cardinality(Slots) + 3
AllReaders == PerReader * Cardinality(Readers)

(* What a call has to do once it has looked: the slot's own reader once    *)
(* more, or the removal of the card and all readers once more.             *)
Later(call) ==
  CASE call = "none"          -> 0
    [] call = "C_GetSlotInfo" -> PerReader + 3
    [] call = "C_InitToken"   -> AllReaders + PerReader + 1
    [] OTHER                  -> 1

(* How many steps a call may still take; new: the slots of the reader it   *)
(* is at have to be created first.                                         *)
AheadOf(w, new) ==
  CASE w.next = "none"   -> PerReader * Cardinality(w.readers) + (IF new THEN 1 ELSE 0)
                              + Later(w.call)
    [] w.next = "rescan" -> Cardinality(w.removing) + AllReaders + 3
    [] OTHER             -> PerReader * (Cardinality(w.readers) - 1)
                              + Cardinality(w.removing) + 2 + Later(w.call)

Unplugged == \A s \in SlotsOf(MinOf(work.readers)) : ~attached[s]
Ahead == AheadOf(work, work.readers # {} /\ Unplugged)

(* Cards are removed from the slots of a reader that is looked at, or on   *)
(* the way to a look at all of them.                                       *)
WorkShape(w) ==
  /\ w \in Work
  /\ w.next \in {"done", "bind", "detach"} => w.readers # {}
  /\ w.next = "none" => w.removing = {}
  /\ w.next = "rescan" => w.readers = {}

LEMMA Products ==
  ASSUME NEW k \in Nat, NEW n \in Nat
  PROVE  /\ k * n \in Nat
         /\ n > 0 => k * (n - 1) \in Nat /\ k * n = k * (n - 1) + k
OBVIOUS

LEMMA Sizes ==
  ASSUME NEW w, WorkShape(w)
  PROVE  /\ IsFiniteSet(w.readers) /\ IsFiniteSet(w.removing)
         /\ Cardinality(w.readers) \in Nat
         /\ w.readers # {} <=> Cardinality(w.readers) > 0
         /\ Cardinality(w.removing) \in Nat
         /\ Cardinality(w.removing) + 3 <= PerReader
         /\ PerReader \in Nat /\ PerReader >= 3
         /\ AllReaders \in Nat
         /\ Later(w.call) \in Nat
<1>1. w.readers \subseteq Readers /\ w.removing \subseteq Slots
  BY DEF WorkShape, Work
<1>2. /\ IsFiniteSet(w.readers) /\ IsFiniteSet(w.removing)
      /\ Cardinality(w.removing) <= Cardinality(Slots)
  BY <1>1, FS_Subset, SlotsAssumption
<1>3. /\ Cardinality(w.readers) \in Nat /\ Cardinality(w.removing) \in Nat
      /\ Cardinality(Slots) \in Nat /\ Cardinality(Readers) \in Nat
  BY <1>2, FS_CardinalityType, SlotsAssumption
<1>4. w.readers # {} <=> Cardinality(w.readers) > 0
  BY <1>2, <1>3, FS_EmptySet
<1>5. PerReader \in Nat /\ PerReader >= 3 /\ Cardinality(w.removing) + 3 <= PerReader
  BY <1>2, <1>3 DEF PerReader
<1>6. AllReaders \in Nat
  BY <1>3, <1>5, Products DEF AllReaders
<1>7. Later(w.call) \in Nat
  BY <1>5, <1>6 DEF Later
<1> QED
  BY <1>2, <1>3, <1>4, <1>5, <1>6, <1>7

LEMMA AheadIsNat ==
  ASSUME NEW w, WorkShape(w), NEW new \in BOOLEAN
  PROVE  AheadOf(w, new) \in Nat
<1> DEFINE n == Cardinality(w.readers)
           m == Cardinality(w.removing)
           later == Later(w.call)
<1>1. n \in Nat /\ m \in Nat /\ later \in Nat /\ AllReaders \in Nat /\ PerReader \in Nat
  BY Sizes
<1>2. w.next \in {"none", "done", "bind", "detach", "rescan"}
  BY DEF WorkShape, Work
<1>3. w.next \notin {"none", "rescan"} => n > 0
  BY <1>2, Sizes DEF WorkShape
<1>4. PerReader * n \in Nat /\ (n > 0 => PerReader * (n - 1) \in Nat)
  BY <1>1, Products
<1>5. AheadOf(w, new) =
        CASE w.next = "none"   -> PerReader * n + (IF new THEN 1 ELSE 0) + later
          [] w.next = "rescan" -> m + AllReaders + 3
          [] OTHER             -> PerReader * (n - 1) + m + 2 + later
  BY DEF AheadOf
<1> HIDE DEF n, m, later
<1> QED
  BY <1>1, <1>3, <1>4, <1>5

(* The next reader's turn.                                                 *)
LEMMA NextReaderIsNearer ==
  ASSUME NEW w, WorkShape(w), NEW v, WorkShape(v), NEW old \in BOOLEAN, NEW new \in BOOLEAN,
         NEW r \in w.readers, v.readers = w.readers \ {r},
         v.call = w.call, w.next # "rescan", v.next = "none"
  PROVE  AheadOf(v, new) < AheadOf(w, old)
<1> DEFINE n == Cardinality(w.readers)
           m == Cardinality(w.removing)
           later == Later(w.call)
<1>1. n \in Nat /\ n > 0 /\ m \in Nat /\ later \in Nat
      /\ PerReader \in Nat /\ PerReader >= 3
  BY Sizes
<1>2. Cardinality(v.readers) = n - 1
  BY Sizes, FS_RemoveElement
<1>3. PerReader * (n - 1) \in Nat /\ PerReader * n = PerReader * (n - 1) + PerReader
  BY <1>1, Products
<1>4. AheadOf(v, new) = PerReader * (n - 1) + (IF new THEN 1 ELSE 0) + later
  BY <1>2 DEF AheadOf
<1>5. AheadOf(w, old) = IF w.next = "none"
                        THEN PerReader * n + (IF old THEN 1 ELSE 0) + later
                        ELSE PerReader * (n - 1) + m + 2 + later
  BY DEF AheadOf
<1> DEFINE some == PerReader * (n - 1)
           all == PerReader * n
<1> HIDE DEF n, m, later, some, all
<1>6. /\ AheadOf(v, new) <= some + 1 + later
      /\ AheadOf(w, old) >= some + 2 + later
      /\ some \in Nat /\ AheadOf(v, new) \in Int /\ AheadOf(w, old) \in Int
  <2>1. some \in Nat /\ all = some + PerReader
    BY <1>3 DEF some, all
  <2>2. AheadOf(v, new) = some + (IF new THEN 1 ELSE 0) + later
    BY <1>4 DEF some
  <2>3. AheadOf(w, old) = IF w.next = "none"
                          THEN all + (IF old THEN 1 ELSE 0) + later
                          ELSE some + m + 2 + later
    BY <1>5 DEF some, all
  <2> QED
    BY <1>1, <2>1, <2>2, <2>3
<1> QED
  BY <1>1, <1>6

(* Cards are about to be removed, or a new one to be bound.                *)
LEMMA LookIsNearer ==
  ASSUME NEW w, WorkShape(w), NEW v, WorkShape(v), NEW old \in BOOLEAN, NEW new \in BOOLEAN,
         w.readers # {}, v.readers = w.readers, v.call = w.call,
         w.next = "none", v.next \in {"done", "bind", "detach"}
  PROVE  AheadOf(v, new) < AheadOf(w, old)
<1> DEFINE n == Cardinality(w.readers)
           m == Cardinality(v.removing)
           later == Later(w.call)
<1>1. n \in Nat /\ n > 0 /\ m \in Nat /\ later \in Nat
      /\ PerReader \in Nat /\ m + 3 <= PerReader
  BY Sizes
<1>2. PerReader * (n - 1) \in Nat /\ PerReader * n = PerReader * (n - 1) + PerReader
  BY <1>1, Products
<1>3. AheadOf(v, new) = PerReader * (n - 1) + m + 2 + later
  BY DEF AheadOf
<1>4. AheadOf(w, old) = PerReader * n + (IF old THEN 1 ELSE 0) + later
  BY DEF AheadOf
<1> HIDE DEF n, m, later
<1> QED
  BY <1>1, <1>2, <1>3, <1>4

(* One slot less from which the card has to be removed.                    *)
LEMMA RemovalIsNearer ==
  ASSUME NEW w, WorkShape(w), NEW v, WorkShape(v), NEW old \in BOOLEAN, NEW new \in BOOLEAN,
         NEW s \in w.removing, v.removing = w.removing \ {s},
         v.readers = w.readers, v.call = w.call, v.next = w.next
  PROVE  AheadOf(v, new) < AheadOf(w, old)
<1> DEFINE n == Cardinality(w.readers)
           m == Cardinality(w.removing)
           later == Later(w.call)
<1>1. n \in Nat /\ m \in Nat /\ later \in Nat /\ AllReaders \in Nat /\ PerReader \in Nat
  BY Sizes
<1>2. Cardinality(v.removing) = m - 1
  BY Sizes, FS_RemoveElement
<1>3. w.next # "none"
  BY DEF WorkShape
<1>4. n > 0 => PerReader * (n - 1) \in Nat
  BY <1>1, Products
<1>5. w.next # "rescan" => n > 0
  BY <1>3, Sizes DEF WorkShape, Work
<1>6. AheadOf(v, new) = IF w.next = "rescan" THEN m - 1 + AllReaders + 3
                        ELSE PerReader * (n - 1) + (m - 1) + 2 + later
  BY <1>2, <1>3 DEF AheadOf
<1>7. AheadOf(w, old) = IF w.next = "rescan" THEN m + AllReaders + 3
                        ELSE PerReader * (n - 1) + m + 2 + later
  BY <1>3 DEF AheadOf
<1> HIDE DEF n, m, later
<1> QED
  BY <1>1, <1>4, <1>5, <1>6, <1>7

(* How a step of a call changes what it works at.                          *)
NextReader(w, v) ==
  /\ w.next # "rescan" /\ w.removing = {}
  /\ v.next = "none" /\ v.removing = {} /\ v.call = w.call
  /\ \E r \in w.readers : v.readers = w.readers \ {r}

StartsRemoval(w, v) ==
  /\ w.next = "none" /\ w.readers # {}
  /\ v.next \in {"done", "bind", "detach"} /\ v.readers = w.readers /\ v.call = w.call

RemovesOne(w, v) ==
  /\ \E s \in w.removing : v.removing = w.removing \ {s}
  /\ v.next = w.next /\ v.readers = w.readers /\ v.call = w.call

LooksAgain(w, v) ==
  /\ w.call = "C_GetSlotInfo" /\ w.next = "none" /\ w.readers = {} /\ w.removing = {}
  /\ v.call = "C_GetSlotInfo again" /\ v.next = "none" /\ v.removing = {}
  /\ \E r \in Readers : v.readers = {r}

ReplacesToken(w, v) ==
  /\ w.call = "C_InitToken" /\ w.next = "none" /\ w.readers = {}
  /\ v.call = w.call /\ v.next = "rescan" /\ v.readers = {}

Rescans(w, v) ==
  /\ w.next = "rescan" /\ w.removing = {}
  /\ v.call = "C_GetSlotList" /\ v.next = "none" /\ v.removing = {} /\ v.readers = Readers

Returns(w, v) ==
  /\ w.call # "none" /\ w.next = "none" /\ w.readers = {}
  /\ v = NoWork

LEMMA WorkSteps ==
  ASSUME Typed, WorkShape(work), Progress
  PROVE  \/ CreateSlots
         \/ NextReader(work, work') \/ StartsRemoval(work, work')
         \/ RemovesOne(work, work') \/ LooksAgain(work, work')
         \/ ReplacesToken(work, work') \/ Rescans(work, work') \/ Returns(work, work')
<1> USE DEF WorkShape
<1>1. work \in Work
  OBVIOUS
<1>2. work.readers # {} => MinOf(work.readers) \in work.readers
  BY <1>1, MinOfIsIn, SlotsAssumption DEF Work
<1>3. work.removing # {} => MinOf(work.removing) \in work.removing
  BY <1>1, MinOfIsIn, SlotsAssumption DEF Work
<1>4. CASE DetectKeep
  BY <1>1, <1>2, <1>4 DEF DetectKeep, Looking, NextReader, Work
<1>5. CASE \E next \in {"done", "bind", "detach"} : DetectRemoved(next)
  BY <1>1, <1>5 DEF DetectRemoved, Looking, StartsRemoval, Work
<1>6. CASE DetectNew
  BY <1>1, <1>6 DEF DetectNew, Looking, StartsRemoval, Work
<1>7. CASE SlotTokenRemoved
  BY <1>1, <1>3, <1>7 DEF SlotTokenRemoved, RemovesOne, Work
<1>8. CASE DetectDone
  BY <1>1, <1>2, <1>8 DEF DetectDone, Removed, NextReader, Work
<1>9. CASE DetachReader
  BY <1>1, <1>2, <1>9 DEF DetachReader, Removed, NextReader, Work
<1>10. CASE \E k \in PinSlots : BindCard(k)
  BY <1>1, <1>2, <1>10 DEF BindCard, Removed, NextReader, Work
<1>11. CASE BindFails
  BY <1>1, <1>2, <1>11 DEF BindFails, Removed, NextReader, Work
<1>12. CASE /\ Return /\ work.call # "none"
            /\ work.readers = {} /\ work.next = "none"
  BY <1>12 DEF Return, Returns
<1>13. CASE C_GetSlotList \/ C_GetSlotInfoMarks \/ C_OpenSession \/ C_CloseAllSessions
  BY <1>12, <1>13 DEF C_GetSlotList, C_GetSlotInfoMarks, C_OpenSession,
     C_CloseAllSessions, Found
<1>14. CASE C_GetSlotInfo
  <2>1. CASE Return
    BY <1>12, <1>14, <2>1 DEF C_GetSlotInfo, Found
  <2>2. CASE ~Return
    <3>1. ReaderOf[work.slot] \in Readers
      BY <1>14, Busy, SlotsAssumption DEF C_GetSlotInfo, Found
    <3>2. LooksAgain(work, work')
      BY <1>1, <1>14, <2>2, <3>1 DEF C_GetSlotInfo, Found, LooksAgain, Work
    <3> QED
      BY <3>2
  <2> QED
    BY <2>1, <2>2
<1>15. CASE C_InitToken
  <2>1. CASE Return
    BY <1>12, <1>15, <2>1 DEF C_InitToken, Found
  <2>2. CASE ~Return
    BY <1>1, <1>15, <2>2 DEF C_InitToken, Found, ReplacesToken, Work
  <2> QED
    BY <2>1, <2>2
<1>16. CASE Rescan
  BY <1>1, <1>16 DEF Rescan, Removed, Rescans, Work
<1> QED
  BY <1>4, <1>5, <1>6, <1>7, <1>8, <1>9, <1>10, <1>11, <1>13, <1>14, <1>15, <1>16
     DEF Progress

LEMMA WorkShapeInit == Init => WorkShape(work)
BY TypedInit DEF Init, NoWork, WorkShape, Typed, TypeOK

LEMMA WorkShapeNext ==
  ASSUME Typed, Typed', WorkShape(work), [Next]_vars
  PROVE  WorkShape(work')
<1>1. work' \in Work
  BY DEF Typed, TypeOK
<1>2. CASE UNCHANGED work
  BY <1>2
<1>3. CASE SessionCall \/ C_Finalize
  BY <1>2, <1>3 DEF SessionCall, C_CloseSession, C_GetSessionInfo, C_Logout, UseToken,
     C_InitPIN, C_SetPIN, C_Login, C_Finalize
<1>4. CASE SlotCall
  <2>1. ASSUME NEW call, NEW s, DetectAll(call, s)
        PROVE  work'.next = "none" /\ work'.removing = {}
    BY <2>1 DEF DetectAll, NoWork
  <2>2. ASSUME NEW call, NEW s, NEW rw, GetToken(call, s, rw)
        PROVE  work'.next = "none" /\ work'.removing = {}
    BY <2>2 DEF GetToken, NoWork
  <2>3. work'.next = "none" /\ work'.removing = {}
    BY <1>4, <2>1, <2>2 DEF SlotCall
  <2> QED
    BY <1>1, <2>3 DEF WorkShape
<1>5. CASE Progress
  <2>1. CASE CreateSlots
    BY <1>2, <2>1 DEF CreateSlots
  <2>2. CASE NextReader(work, work') \/ LooksAgain(work, work')
    BY <1>1, <2>2 DEF NextReader, LooksAgain, WorkShape
  <2>3. CASE StartsRemoval(work, work')
    BY <1>1, <2>3 DEF StartsRemoval, WorkShape
  <2>4. CASE RemovesOne(work, work')
    BY <1>1, <2>4 DEF RemovesOne, WorkShape
  <2>5. CASE ReplacesToken(work, work') \/ Rescans(work, work')
    BY <1>1, <2>5 DEF ReplacesToken, Rescans, WorkShape
  <2>6. CASE Returns(work, work')
    BY <1>1, <2>6 DEF Returns, NoWork, WorkShape
  <2> QED
    BY <1>5, <2>1, <2>2, <2>3, <2>4, <2>5, <2>6, WorkSteps
<1>6. CASE UNCHANGED vars
  BY <1>2, <1>6 DEF vars
<1> QED
  BY <1>3, <1>4, <1>5, <1>6 DEF Next

LEMMA StepIsNearer ==
  ASSUME Typed, Typed', WorkShape(work), Progress
  PROVE  Ahead' \in Nat /\ Ahead' < Ahead
<1> DEFINE old == work.readers # {} /\ Unplugged
           new == work'.readers # {} /\ Unplugged'
<1>1. WorkShape(work')
  BY WorkShapeNext DEF Next
<1>2. old \in BOOLEAN /\ new \in BOOLEAN
  OBVIOUS
<1>3. Ahead = AheadOf(work, old) /\ Ahead' = AheadOf(work', new)
  BY DEF Ahead
<1> HIDE DEF old, new
<1>4. Ahead' \in Nat
  BY <1>1, <1>2, <1>3, AheadIsNat
<1>5. CASE CreateSlots
  <2>1. work' = work /\ work.readers # {} /\ work.next = "none" /\ old
    BY <1>5 DEF CreateSlots, Looking, Unplugged, old
  <2>2. ~new
    <3>1. MinOf(work.readers) \in Readers
      BY <2>1, MinOfIsIn, SlotsAssumption DEF WorkShape, Work
    <3>2. PICK s \in Slots : ReaderOf[s] = MinOf(work.readers)
      BY <3>1, SlotsAssumption
    <3>3. s \in SlotsOf(MinOf(work'.readers)) /\ attached'[s]
      BY <1>5, <2>1, <3>2 DEF CreateSlots, SlotsOf
    <3> QED
      BY <3>3 DEF new, Unplugged
  <2>3. Cardinality(work.readers) \in Nat /\ PerReader \in Nat /\ Later(work.call) \in Nat
    BY Sizes
  <2>4. PerReader * Cardinality(work.readers) \in Nat
    BY <2>3, Products
  <2>5. /\ Ahead = PerReader * Cardinality(work.readers) + 1 + Later(work.call)
        /\ Ahead' = PerReader * Cardinality(work.readers) + 0 + Later(work.call)
    BY <1>3, <2>1, <2>2 DEF AheadOf
  <2> QED
    BY <1>4, <2>3, <2>4, <2>5
<1>6. CASE NextReader(work, work')
  BY <1>1, <1>2, <1>3, <1>4, <1>6, NextReaderIsNearer DEF NextReader
<1>7. CASE StartsRemoval(work, work')
  BY <1>1, <1>2, <1>3, <1>4, <1>7, LookIsNearer DEF StartsRemoval
<1>8. CASE RemovesOne(work, work')
  BY <1>1, <1>2, <1>3, <1>4, <1>8, RemovalIsNearer DEF RemovesOne
<1>9. PerReader \in Nat /\ PerReader >= 3 /\ AllReaders \in Nat
  BY Sizes
<1>10. CASE LooksAgain(work, work')
  <2>1. Cardinality(work.readers) = 0 /\ Cardinality(work'.readers) = 1
    BY <1>10, FS_EmptySet, FS_Singleton DEF LooksAgain
  <2>2. Later(work.call) = PerReader + 3 /\ Later(work'.call) = 1
    BY <1>10 DEF LooksAgain, Later
  <2>3. /\ Ahead = PerReader * 0 + (IF old THEN 1 ELSE 0) + (PerReader + 3)
        /\ Ahead' = PerReader * 1 + (IF new THEN 1 ELSE 0) + 1
    BY <1>3, <1>10, <2>1, <2>2 DEF LooksAgain, AheadOf
  <2> QED
    BY <1>4, <1>9, <2>3
<1>11. CASE ReplacesToken(work, work')
  <2>1. Cardinality(work.readers) = 0 /\ Later(work.call) = AllReaders + PerReader + 1
    BY <1>11, FS_EmptySet DEF ReplacesToken, Later
  <2>2. /\ Cardinality(work'.removing) \in Nat
        /\ Cardinality(work'.removing) + 3 <= PerReader
    BY <1>1, Sizes
  <2>3. /\ Ahead = PerReader * 0 + (IF old THEN 1 ELSE 0) + (AllReaders + PerReader + 1)
        /\ Ahead' = Cardinality(work'.removing) + AllReaders + 3
    BY <1>3, <1>11, <2>1 DEF ReplacesToken, AheadOf
  <2> QED
    BY <1>4, <1>9, <2>2, <2>3
<1>12. CASE Rescans(work, work')
  <2>1. Cardinality(work.removing) = 0 /\ Later(work'.call) = 1
    BY <1>12, FS_EmptySet DEF Rescans, Later
  <2>2. /\ Ahead = 0 + AllReaders + 3
        /\ Ahead' = AllReaders + (IF new THEN 1 ELSE 0) + 1
    BY <1>3, <1>12, <2>1 DEF Rescans, AheadOf, AllReaders
  <2> QED
    BY <1>4, <1>9, <2>2
<1>13. CASE Returns(work, work')
  <2>1. Cardinality(work.readers) = 0 /\ Later(work.call) \in Nat /\ Later(work.call) > 0
    <3>1. Later(work.call) > 0
      BY <1>9, <1>13 DEF Returns, Later
    <3> QED
      BY <1>13, <3>1, Sizes, FS_EmptySet DEF Returns
  <2>2. Ahead = PerReader * 0 + (IF old THEN 1 ELSE 0) + Later(work.call)
    BY <1>3, <1>13, <2>1 DEF Returns, AheadOf
  <2>3. ~new /\ work'.next = "none" /\ Cardinality(work'.readers) = 0 /\ Later(work'.call) = 0
    BY <1>13, FS_EmptySet DEF Returns, NoWork, new, Later
  <2>4. Ahead' = PerReader * 0 + 0 + 0
    BY <1>3, <2>3 DEF AheadOf
  <2> QED
    BY <1>4, <1>9, <2>1, <2>2, <2>4
<1> QED
  BY <1>5, <1>6, <1>7, <1>8, <1>10, <1>11, <1>12, <1>13, WorkSteps

(* Every step of a call that looks for cards brings its return nearer,     *)
(* whatever readers and cards do meanwhile: a call takes no more steps     *)
(* than Ahead says when it starts, so the loop over readers, the one over  *)
(* their slots and the second looks at them end.                           *)
THEOREM EveryStepCounts ==
  Spec => [][Progress => Ahead' \in Nat /\ Ahead' < Ahead]_vars
<1>1. Spec => []Typed
  BY TypedInit, TypedNext, PTL DEF Spec
<1>2. Typed /\ Typed' /\ WorkShape(work) /\ [Next]_vars => WorkShape(work)'
  BY WorkShapeNext
<1>3. Spec => []WorkShape(work)
  BY <1>1, <1>2, WorkShapeInit, PTL DEF Spec
<1>4. Typed /\ Typed' /\ WorkShape(work) /\ [Next]_vars
        => [Progress => Ahead' \in Nat /\ Ahead' < Ahead]_vars
  BY StepIsNearer
<1> QED
  BY <1>1, <1>3, <1>4, PTL DEF Spec
=============================================================================
