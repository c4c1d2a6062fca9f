------------------------------ MODULE Cryptoki ------------------------------
(***************************************************************************)
(* Sessions, slots and login state of the PKCS#11 module                   *)
(* (src/OpenSC/src/pkcs11/pkcs11-session.c, slot.c, misc.c and the calls   *)
(* of pkcs11-global.c that look for cards).                                *)
(*                                                                         *)
(* Every C_ function runs under one global lock.  A call that only edits   *)
(* the session table is one action; a call that has to look for cards      *)
(* (card_detect, card_detect_all, slot_get_token) is a sequence of actions *)
(* with `lock' held and `work' holding the call's local state, because     *)
(* each reader and each slot is processed by a loop of its own.            *)
(*                                                                         *)
(* The reader hardware is the environment: what sc_detect_card_presence,   *)
(* sc_connect_card and the framework's bind, login and change_pin return   *)
(* is chosen by the action.                                                *)
(***************************************************************************)
EXTENDS Integers, FiniteSets, Sequences

CONSTANTS
  Slots,        \* slot ids, numbered in the order of the list virtual_slots
  Readers,      \* readers, numbered in the order of the context's list
  ReaderOf,     \* the reader a virtual slot is created for
  PinSlots,     \* how many PINs with a slot of their own a card may have
  Atomic,       \* sc_pkcs11_conf.atomic
  Hotplug,      \* readers may be unplugged and plugged in again
  UIntMod,      \* width of `unsigned int': 2^32 in the code
  MaxSessions,  \* bound: session handles
  MaxLogins     \* bound: saved logins of a slot

ASSUME SlotsAssumption ==
  /\ Slots \subseteq Nat /\ IsFiniteSet(Slots)
  /\ Readers \subseteq Nat /\ IsFiniteSet(Readers)
  /\ ReaderOf \in [Slots -> Readers]
  /\ \A r \in Readers : \E s \in Slots : ReaderOf[s] = r
  /\ PinSlots \subseteq Nat
  /\ Atomic \in BOOLEAN /\ Hotplug \in BOOLEAN

ASSUME BoundAssumption ==
  /\ MaxSessions \in Nat /\ MaxLogins \in Nat
  /\ UIntMod \in Nat /\ UIntMod > MaxSessions

NONE     == -1        \* slot->login_user of a slot nobody is logged in to
CKU_SO   == 0
CKU_USER == 1
Users    == {CKU_SO, CKU_USER}

Handles == 1 .. MaxSessions
Session == [handle : Handles, slot : Slots, rw : BOOLEAN]

(* What a framework call (verify, change or initialise a PIN, sign, ...)   *)
(* hands back, as far as misc.c tells results apart.                       *)
Results == {"CKR_OK", "CKR_PIN_INCORRECT", "CKR_USER_NOT_LOGGED_IN"}

VARIABLES
  sessions,     \* the list `sessions'; list order is handle order
  nsessions,    \* slot->nsessions
  login_user,   \* slot->login_user
  logins,       \* slot->logins: the user types of the saved PINs
  attached,     \* slot->reader # NULL
  present,      \* slot->slot_info.flags & CKF_TOKEN_PRESENT
  p11card,      \* slot->p11card # NULL
  userPin,      \* slot->token_info.flags & CKF_USER_PIN_INITIALIZED
  lock,         \* the global mutex is held
  work          \* locals of the call that is looking for cards

cardVars == <<attached, present, p11card, userPin>>
userVars == <<sessions, nsessions, login_user, logins>>
vars == <<sessions, nsessions, login_user, logins, attached, present, p11card,
          userPin, lock, work>>

Calls == {"none", "C_GetSlotList", "C_GetSlotInfo", "C_GetSlotInfo again",
          "C_OpenSession", "C_CloseAllSessions", "C_InitToken"}

(* call: the C_ function; slot, rw: its arguments; readers: the readers    *)
(* still to be looked at; removing: the slots card_removed has still to    *)
(* reset; next: what follows the removal; seen: card_detect returned       *)
(* CKR_OK or CKR_TOKEN_NOT_RECOGNIZED.                                     *)
NoWork == [call |-> "none", slot |-> 0, rw |-> FALSE, readers |-> {},
           removing |-> {}, next |-> "none", seen |-> FALSE]

Work == [call : Calls, slot : Slots \cup {0}, rw : BOOLEAN,
         readers : SUBSET Readers, removing : SUBSET Slots,
         next : {"none", "done", "bind", "detach", "rescan"},
         seen : BOOLEAN]

MinOf(S) == CHOOSE x \in S : \A y \in S : x <= y

SlotsOf(r) == {s \in Slots : ReaderOf[s] = r}
SessionsOn(s) == {x \in sessions : x.slot = s}

-----------------------------------------------------------------------------
(* Session table: pkcs11-session.c                                         *)

(* The sessions of x's slot that directly precede x in the list, with no   *)
(* session of another slot in between.                                     *)
RunBefore(x) ==
  {y \in sessions : /\ y.slot = x.slot /\ y.handle < x.handle
                    /\ \A z \in sessions :
                         y.handle < z.handle /\ z.handle < x.handle
                           => z.slot = x.slot}

(* sc_pkcs11_close_all_sessions walks the list by index and deletes from   *)
(* the list it walks: each deletion moves the next entry into the index    *)
(* just visited, so of adjacent sessions of the slot it closes the first,  *)
(* the third, ...  (CloseAllLoop checks this closed form of the loop.)     *)
Closed(s) == {x \in SessionsOn(s) : Cardinality(RunBefore(x)) % 2 = 0}

(* Mutant: the counter does not wrap.                                      *)
LessSigned(s, n) == nsessions[s] - n

(* The counter after close_session ran for n sessions of the slot ...      *)
Less(s, n) == (nsessions[s] - n) % UIntMod

(* Mutant: the counter is tested before it is decremented.                 *)
PassesZeroEarly(s, n) == nsessions[s] \in 0 .. n - 1

(* ... and whether it was zero after one of them.                          *)
PassesZero(s, n) == nsessions[s] \in 1 .. n

(* Mutants: only one half of the login is forgotten.                       *)
ForgetLoginPinsOnly(s) ==
  /\ logins' = [logins EXCEPT ![s] = IF Atomic THEN <<>> ELSE @]
  /\ UNCHANGED login_user

ForgetLoginUserOnly(s) ==
  /\ login_user' = [login_user EXCEPT ![s] = NONE]
  /\ UNCHANGED logins

(* login_user = -1 and pop_all_login_states, which is for `atomic' only.   *)
ForgetLogin(s) ==
  /\ login_user' = [login_user EXCEPT ![s] = NONE]
  /\ logins' = [logins EXCEPT ![s] = IF Atomic THEN <<>> ELSE @]

(* Mutant: the counter is reset as if every session had been closed.       *)
CloseAllAtOnce(s, user) ==
  /\ sessions' = sessions \ Closed(s)
  /\ nsessions' = [nsessions EXCEPT ![s] = 0]
  /\ ForgetLogin(s)

(* The loop over close_session, starting from the login `user': the slot   *)
(* is logged out when the counter passes zero.  (Without a card close_session *)
(* keeps the session it logs out with; LoginNeedsCard rules that out.)     *)
CloseAll(s, user) ==
  LET n == Cardinality(Closed(s)) IN
  /\ sessions' = sessions \ Closed(s)
  /\ nsessions' = [nsessions EXCEPT ![s] = Less(s, n)]
  /\ IF user >= 0 /\ PassesZero(s, n)
     THEN ForgetLogin(s)
     ELSE /\ login_user' = [login_user EXCEPT ![s] = user]
          /\ UNCHANGED logins

(* reset_login_state: a result that says the card forgot the login.        *)
ResetLoginState(s, rv) ==
  IF rv = "CKR_USER_NOT_LOGGED_IN"
  THEN ForgetLogin(s)
  ELSE UNCHANGED <<login_user, logins>>

C_CloseSession(x) ==
  LET s == x.slot IN
  /\ ~lock
  /\ nsessions' = [nsessions EXCEPT ![s] = Less(s, 1)]
  /\ IF login_user[s] >= 0 /\ PassesZero(s, 1)
     THEN /\ ForgetLogin(s)
          /\ sessions' = IF ~Atomic /\ ~p11card[s]
                         THEN sessions ELSE sessions \ {x}
     ELSE /\ sessions' = sessions \ {x}
          /\ UNCHANGED <<login_user, logins>>
  /\ UNCHANGED <<cardVars, lock, work>>

(* The card is gone or another one is in its place: the sessions of the    *)
(* slot are invalid.  The login is forgotten before the sessions go.       *)
C_GetSessionInfo(x) ==
  /\ ~lock
  /\ CloseAll(x.slot, NONE)
  /\ UNCHANGED <<cardVars, lock, work>>

(* Mutant: only a second login of the same user is refused.                *)
MayLoginOther(s, user) == login_user[s] # user

(* CKR_USER_ALREADY_LOGGED_IN and CKR_USER_ANOTHER_ALREADY_LOGGED_IN.      *)
MayLogin(s, user) == login_user[s] = NONE

C_Login(x, user, rv) ==
  LET s == x.slot IN
  /\ ~lock
  /\ user = CKU_USER => userPin[s]
  /\ MayLogin(s, user)
  /\ \/ /\ ~p11card[s]                \* returns past sc_pkcs11_unlock
        /\ lock' = TRUE
        /\ UNCHANGED userVars
     \/ /\ p11card[s] /\ rv = "CKR_OK"
        /\ Len(logins[s]) < MaxLogins
        /\ login_user' = [login_user EXCEPT ![s] = user]
        /\ logins' = [logins EXCEPT ![s] = IF Atomic THEN Append(@, user) ELSE @]
        /\ UNCHANGED <<sessions, nsessions, lock>>
     \/ /\ p11card[s] /\ rv # "CKR_OK"
        /\ ResetLoginState(s, rv)
        /\ UNCHANGED <<sessions, nsessions, lock>>
  /\ UNCHANGED <<cardVars, work>>

(* Context specific login, and every operation that uses a key: the saved  *)
(* logins are replayed, the card is asked, the result may say that the     *)
(* card no longer knows the user.                                          *)
UseToken(x, rv) ==
  /\ ~lock
  /\ p11card[x.slot]
  /\ ResetLoginState(x.slot, rv)
  /\ UNCHANGED <<sessions, nsessions, cardVars, lock, work>>

C_Logout(x) ==
  LET s == x.slot IN
  /\ ~lock
  /\ login_user[s] >= 0
  /\ ForgetLogin(s)
  /\ lock' = (~Atomic /\ ~p11card[s])
  /\ UNCHANGED <<sessions, nsessions, cardVars, work>>

C_InitPIN(x, rv) ==
  LET s == x.slot IN
  /\ ~lock
  /\ x.rw /\ login_user[s] = CKU_SO /\ p11card[s]
  /\ \E init \in BOOLEAN :
       userPin' = [userPin EXCEPT ![s] = @ \/ (init /\ rv = "CKR_OK")]
  /\ ResetLoginState(s, rv)
  /\ UNCHANGED <<sessions, nsessions, attached, present, p11card, lock, work>>

C_SetPIN(x, rv) ==
  LET s == x.slot IN
  /\ ~lock
  /\ x.rw
  /\ \/ /\ ~p11card[s]                \* returns past sc_pkcs11_unlock
        /\ lock' = TRUE
        /\ UNCHANGED <<login_user, logins>>
     \/ /\ p11card[s]
        /\ ResetLoginState(s, rv)
        /\ lock' = FALSE
  /\ UNCHANGED <<sessions, nsessions, cardVars, work>>

-----------------------------------------------------------------------------
(* Looking for cards: slot.c                                               *)

(* C_GetSlotList, C_WaitForSlotEvent and, with init_sloppy, C_GetSlotInfo  *)
(* run card_detect_all.                                                    *)
DetectAll(call, s) ==
  /\ ~lock
  /\ lock' = TRUE
  /\ work' = [NoWork EXCEPT !.call = call, !.slot = s, !.readers = Readers]
  /\ UNCHANGED <<userVars, cardVars>>

(* slot_get_token: looks for a card only in a slot that shows none.        *)
GetToken(call, s, rw) ==
  /\ ~lock
  /\ present[s] \/ attached[s]
  /\ lock' = TRUE
  /\ work' = [NoWork EXCEPT !.call = call, !.slot = s, !.rw = rw,
                !.readers = IF present[s] THEN {} ELSE {ReaderOf[s]}]
  /\ UNCHANGED <<userVars, cardVars>>

Looking == /\ lock /\ work.readers # {}
           /\ work.removing = {} /\ work.next = "none"

DetectingAll == work.call \in {"C_GetSlotList", "C_GetSlotInfo"}

(* card_detect leaves the slots alone: an error, an unchanged card, or a   *)
(* card that is already bound.                                             *)
DetectKeep ==
  /\ Looking
  /\ Hotplug \/ \E s \in SlotsOf(MinOf(work.readers)) : attached[s]
  /\ \E seen \in BOOLEAN :
       work' = [work EXCEPT !.readers = @ \ {MinOf(@)}, !.seen = seen]
  /\ UNCHANGED <<userVars, cardVars, lock>>

(* card_detect finds no card (next = done) or a changed one (next = bind), *)
(* card_detect_all finds the reader unplugged (next = detach): card_removed *)
(* starts over the slots of the reader.                                    *)
DetectRemoved(next) ==
  LET r == MinOf(work.readers) IN
  /\ Looking
  /\ \E s \in SlotsOf(r) : attached[s]
  /\ next = "detach" => Hotplug /\ DetectingAll
  /\ work' = [work EXCEPT !.next = next, !.seen = FALSE,
                !.removing = {s \in SlotsOf(r) : attached[s]}]
  /\ UNCHANGED <<userVars, cardVars, lock>>

(* card_detect finds a card it has not bound.                              *)
DetectNew ==
  LET r == MinOf(work.readers) IN
  /\ Looking
  /\ \E s \in SlotsOf(r) : attached[s]
  /\ ~p11card[MinOf(SlotsOf(r))]
  /\ work' = [work EXCEPT !.next = "bind"]
  /\ UNCHANGED <<userVars, cardVars, lock>>

(* card_detect_all finds a reader without slots: create_slot reclaims the  *)
(* slots the reader had before, or creates them, and clears everything in  *)
(* them but the lists.                                                     *)
CreateSlots ==
  LET r == MinOf(work.readers)
      reset(f, v) == [s \in Slots |-> IF ReaderOf[s] = r THEN v ELSE f[s]]
  IN  /\ Looking /\ DetectingAll
      /\ \A s \in SlotsOf(r) : ~attached[s]
      /\ nsessions' = reset(nsessions, 0)
      /\ login_user' = reset(login_user, NONE)
      /\ attached' = reset(attached, TRUE)
      /\ present' = reset(present, FALSE)
      /\ p11card' = reset(p11card, FALSE)
      /\ userPin' = reset(userPin, FALSE)
      /\ UNCHANGED <<sessions, logins, lock, work>>

(* Mutant: token_info is left as it was.                                   *)
ForgetTokenNotInfo(s) ==
  /\ present' = [present EXCEPT ![s] = FALSE]
  /\ p11card' = [p11card EXCEPT ![s] = FALSE]
  /\ UNCHANGED userPin

(* The slot shows no token, has no card, and token_info is cleared.        *)
ForgetToken(s) ==
  /\ present' = [present EXCEPT ![s] = FALSE]
  /\ p11card' = [p11card EXCEPT ![s] = FALSE]
  /\ userPin' = [userPin EXCEPT ![s] = FALSE]

(* slot_token_removed, for the next slot of card_removed's loop.           *)
SlotTokenRemoved ==
  LET s == MinOf(work.removing) IN
  /\ lock /\ work.removing # {}
  /\ sessions' = sessions \ Closed(s)
  /\ nsessions' = [nsessions EXCEPT ![s] = Less(s, Cardinality(Closed(s)))]
  /\ ForgetLogin(s)
  /\ ForgetToken(s)
  /\ work' = [work EXCEPT !.removing = @ \ {s}]
  /\ UNCHANGED <<attached, lock>>

Removed(next) == lock /\ work.removing = {} /\ work.next = next

(* Mutant: the same reader is looked at again.                             *)
DetectDoneAgain ==
  /\ Removed("done")
  /\ work' = [work EXCEPT !.next = "none"]
  /\ UNCHANGED <<userVars, cardVars, lock>>

DetectDone ==
  /\ Removed("done")
  /\ work' = [work EXCEPT !.next = "none", !.readers = @ \ {MinOf(@)}]
  /\ UNCHANGED <<userVars, cardVars, lock>>

(* card_detect_all drops the relation between the reader and its slots.    *)
DetachReader ==
  LET r == MinOf(work.readers) IN
  /\ Removed("detach")
  /\ attached' = [s \in Slots |-> ReaderOf[s] # r /\ attached[s]]
  /\ work' = [work EXCEPT !.next = "none", !.readers = @ \ {r}]
  /\ UNCHANGED <<userVars, present, p11card, userPin, lock>>

(* pkcs15_bind and pkcs15_create_tokens: the first free slots of the       *)
(* reader are given to the card's k PINs, one slot to a card that has      *)
(* none.                                                                   *)
BindCard(k) ==
  LET r == MinOf(work.readers)
      free == {s \in SlotsOf(r) : attached[s] /\ ~p11card[s]}
      given == {s \in free :
                  Cardinality({t \in free : t < s}) < (IF k = 0 THEN 1 ELSE k)}
  IN  /\ Removed("bind")
      /\ present' = [s \in Slots |-> s \in given \/ present[s]]
      /\ p11card' = [s \in Slots |-> s \in given \/ p11card[s]]
      /\ userPin' = [s \in Slots |-> (k > 0 /\ s \in given) \/ userPin[s]]
      /\ work' = [work EXCEPT !.next = "none", !.seen = TRUE,
                    !.readers = @ \ {r}]
      /\ UNCHANGED <<userVars, attached, lock>>

(* The card does not answer, no driver or no PKCS#15 structure matches it  *)
(* (CKR_TOKEN_NOT_RECOGNIZED), or it changed again too often.              *)
BindFails ==
  /\ Removed("bind")
  /\ \E seen \in BOOLEAN :
       work' = [work EXCEPT !.next = "none", !.seen = seen,
                  !.readers = @ \ {MinOf(@)}]
  /\ UNCHANGED <<userVars, cardVars, lock>>

-----------------------------------------------------------------------------
(* What the calls do once the readers have been looked at.                 *)

Found(call) == /\ lock /\ work.call = call /\ work.readers = {}
               /\ work.removing = {} /\ work.next = "none"

Return == lock' = FALSE /\ work' = NoWork

C_GetSlotList ==
  /\ Found("C_GetSlotList")
  /\ Return
  /\ UNCHANGED <<userVars, cardVars>>

(* After card_detect_all the slot's own reader is asked again, unless that *)
(* was done within the last second or the slot has no reader.              *)
C_GetSlotInfo ==
  LET s == work.slot IN
  /\ Found("C_GetSlotInfo")
  /\ \/ Return
     \/ /\ attached[s]
        /\ work' = [work EXCEPT !.call = "C_GetSlotInfo again", !.seen = FALSE,
                      !.readers = {ReaderOf[s]}]
        /\ UNCHANGED lock
  /\ UNCHANGED <<userVars, cardVars>>

(* A card in the reader is reported in the slot it was asked for, whether  *)
(* or not one of the card's tokens lives there.                            *)
C_GetSlotInfoMarks ==
  /\ Found("C_GetSlotInfo again")
  /\ present' = [present EXCEPT ![work.slot] = @ \/ work.seen]
  /\ Return
  /\ UNCHANGED <<userVars, attached, p11card, userPin>>

C_OpenSession ==
  LET s == work.slot IN
  /\ Found("C_OpenSession")
  /\ \/ UNCHANGED userVars            \* no token, a conflict, no memory
     \/ /\ present[s]
        /\ work.rw \/ login_user[s] # CKU_SO
        /\ \E h \in Handles :
             /\ \A x \in sessions : x.handle < h
             /\ h = 1 \/ \E x \in sessions : x.handle = h - 1
             /\ sessions' = sessions \cup
                              {[handle |-> h, slot |-> s, rw |-> work.rw]}
        /\ nsessions' = [nsessions EXCEPT ![s] = (@ + 1) % UIntMod]
        /\ UNCHANGED <<login_user, logins>>
  /\ Return
  /\ UNCHANGED cardVars

C_CloseAllSessions ==
  LET s == work.slot IN
  /\ Found("C_CloseAllSessions")
  /\ IF present[s] THEN CloseAll(s, login_user[s]) ELSE UNCHANGED userVars
  /\ Return
  /\ UNCHANGED cardVars

(* The token is initialised only while no session is open on its slot;     *)
(* success removes the card from all slots of the reader and looks for     *)
(* cards again.                                                            *)
C_InitToken ==
  LET s == work.slot IN
  /\ Found("C_InitToken")
  /\ \/ Return
     \/ /\ present[s] /\ p11card[s]
        /\ SessionsOn(s) = {}
        /\ work' = [work EXCEPT !.next = "rescan",
                      !.removing = {t \in SlotsOf(ReaderOf[s]) : attached[t]}]
        /\ UNCHANGED lock
  /\ UNCHANGED <<userVars, cardVars>>

Rescan ==
  /\ Removed("rescan")
  /\ work' = [work EXCEPT !.next = "none", !.call = "C_GetSlotList",
                !.readers = Readers]
  /\ UNCHANGED <<userVars, cardVars, lock>>

(* C_Finalize frees all sessions and slots; C_Initialize starts over.      *)
C_Finalize ==
  /\ ~lock
  /\ sessions' = {}
  /\ nsessions' = [s \in Slots |-> 0]
  /\ login_user' = [s \in Slots |-> NONE]
  /\ logins' = [s \in Slots |-> <<>>]
  /\ attached' = [s \in Slots |-> FALSE]
  /\ present' = [s \in Slots |-> FALSE]
  /\ p11card' = [s \in Slots |-> FALSE]
  /\ userPin' = [s \in Slots |-> FALSE]
  /\ UNCHANGED <<lock, work>>

-----------------------------------------------------------------------------
Init ==
  /\ sessions = {}
  /\ nsessions = [s \in Slots |-> 0]
  /\ login_user = [s \in Slots |-> NONE]
  /\ logins = [s \in Slots |-> <<>>]
  /\ attached = [s \in Slots |-> FALSE]
  /\ present = [s \in Slots |-> FALSE]
  /\ p11card = [s \in Slots |-> FALSE]
  /\ userPin = [s \in Slots |-> FALSE]
  /\ lock = FALSE
  /\ work = NoWork

SessionCall ==
  \E x \in sessions :
    \/ C_CloseSession(x)
    \/ C_GetSessionInfo(x)
    \/ C_Logout(x)
    \/ \E rv \in Results :
         \/ UseToken(x, rv)
         \/ C_InitPIN(x, rv)
         \/ C_SetPIN(x, rv)
         \/ \E user \in Users : C_Login(x, user, rv)

SlotCall ==
  \E s \in Slots :
    \/ \E call \in {"C_GetSlotList", "C_GetSlotInfo"} : DetectAll(call, s)
    \/ \E rw \in BOOLEAN : GetToken("C_OpenSession", s, rw)
    \/ \E call \in {"C_CloseAllSessions", "C_InitToken"} : GetToken(call, s, FALSE)

(* The steps of a call that holds the lock.                                *)
Progress ==
  \/ DetectKeep
  \/ \E next \in {"done", "bind", "detach"} : DetectRemoved(next)
  \/ DetectNew
  \/ CreateSlots
  \/ SlotTokenRemoved
  \/ DetectDone
  \/ DetachReader
  \/ \E k \in PinSlots : BindCard(k)
  \/ BindFails
  \/ C_GetSlotList
  \/ C_GetSlotInfo
  \/ C_GetSlotInfoMarks
  \/ C_OpenSession
  \/ C_CloseAllSessions
  \/ C_InitToken
  \/ Rescan

Next == SessionCall \/ SlotCall \/ Progress \/ C_Finalize

Spec == Init /\ [][Next]_vars

FairSpec == Spec /\ WF_vars(Progress)

-----------------------------------------------------------------------------
(* Properties                                                              *)

(* Every variable has its type: the session table holds well formed        *)
(* records, counters stay within `unsigned int'.                           *)
TypeOK ==
  /\ sessions \subseteq Session
  /\ nsessions \in [Slots -> 0 .. UIntMod - 1]
  /\ login_user \in [Slots -> Users \cup {NONE}]
  /\ logins \in [Slots -> Seq(Users)]
  /\ attached \in [Slots -> BOOLEAN]
  /\ present \in [Slots -> BOOLEAN]
  /\ p11card \in [Slots -> BOOLEAN]
  /\ userPin \in [Slots -> BOOLEAN]
  /\ lock \in BOOLEAN
  /\ work \in Work

(* A slot somebody is logged in to has a card behind it, shows a token and *)
(* belongs to a plugged-in reader: no removal, reinsertion, unplugging or  *)
(* re-creation of slots leaves a login behind.                             *)
LoginNeedsCard ==
  \A s \in Slots : login_user[s] >= 0 => p11card[s] /\ present[s] /\ attached[s]

(* The flag that admits C_Login(CKU_USER) is only set while the slot has a *)
(* card: token_info does not outlive the token.                            *)
UserPinNeedsCard == \A s \in Slots : userPin[s] => p11card[s]

(* With `atomic', the login that is replayed before every operation is the *)
(* one the slot says it has.                                               *)
LoginReplayable ==
  Atomic => \A s \in Slots :
    login_user[s] >= 0 =>
      logins[s] # <<>> /\ logins[s][Len(logins[s])] = login_user[s]

(* "reuse the old list of logins/objects since they should be empty"       *)
(* (create_slot): no saved PIN outlives the reader it was entered for.     *)
ReclaimedLoginsEmpty == \A s \in Slots : ~attached[s] => logins[s] = <<>>

(* slot->nsessions counts the sessions of the slot.                        *)
SessionCount == \A s \in Slots : nsessions[s] = Cardinality(SessionsOn(s))

(* A login lives only as long as a session of its slot: the last session   *)
(* to close logs the slot out, however its sessions are closed.            *)
LastSessionLogsOut ==
  \A s \in Slots : login_user[s] >= 0 => SessionsOn(s) # {}

(* Sessions exist only on slots of plugged-in readers.                     *)
SessionNeedsReader == \A x \in sessions : attached[x.slot]

(* The mutex is held only by a call that is still running.                 *)
LockReleased == lock => work.call # "none"

(* While no call runs, every session is on a slot that shows a token: what *)
(* removes a token terminates the sessions of its slot.                    *)
RemovedTokenHasNoSession == ~lock => \A x \in sessions : present[x.slot]

(* A login is never taken over by another user type without a logout.      *)
NoUserSwitch ==
  [][\A s \in Slots : login_user[s] >= 0 /\ login_user'[s] >= 0
                         => login_user'[s] = login_user[s]]_vars

(* A call that looks for cards ends: the loops over readers and slots and  *)
(* the rescan after C_InitToken terminate.                                 *)
CallsReturn == (work.call # "none") ~> (work.call = "none")
=============================================================================
