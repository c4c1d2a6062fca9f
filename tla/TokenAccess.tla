---------------------------- MODULE TokenAccess ----------------------------
(***************************************************************************)
(* Several processes, each with its own PKCS#11 module, use one token: how *)
(* a login, a signature and a PIN change lock the card, present PINs and   *)
(* set the card's state (pkcs11-session.c, pkcs11-object.c, misc.c and     *)
(* framework-pkcs15.c in src/OpenSC/src/pkcs11; pkcs15-pin.c and           *)
(* pkcs15-sec.c in src/OpenSC/src/libopensc), on top of CardLock.          *)
(*                                                                         *)
(* A call is the list of steps it has still to do, `todo'.  The card is    *)
(* external: a user PIN, whether it was verified, and whose security       *)
(* environment is set; it signs when the PIN was verified.  PIN caching is *)
(* on, no key asks for user consent, and the reader has no PIN pad.  Only  *)
(* the user logs in; the card never blocks the PIN.                        *)
(***************************************************************************)
EXTENDS CardLock, Sequences, SequencesExt

CONSTANTS
  Pins, NoPin,
  Confs,         \* settings a process may run with
  CacheCounter,  \* pin_cache_counter
  MaxLocked      \* bound: fw_data->locked

ASSUME TokenAssumption ==
  /\ NoPin \notin Pins
  /\ CacheCounter \in Nat /\ MaxLocked \in Nat
  /\ Confs \subseteq [atomic : BOOLEAN, lock_login : BOOLEAN]

VARIABLES
  conf,        \* sc_pkcs11_conf
  loggedIn,    \* slot->login_user is CKU_USER
  saved,       \* the PIN in slot->logins
  locked,      \* fw_data->locked
  cache,       \* pin_obj->content
  usage,       \* pin_obj->usage_counter
  given,       \* the application gave a PIN since it last logged out
  todo,        \* the steps the running call has still to do
  arg,         \* the call's PIN
  rv,          \* its result so far
  pin,         \* card: the user PIN
  verified,    \* card: the PIN was verified
  env          \* card: the process whose security environment is set

cardVars == <<pin, verified, env>>
loginVars == <<conf, loggedIn, saved, given>>
pinVars == <<cache, usage>>
vars == <<lockVars, cardVars, loginVars, pinVars, locked, todo, arg, rv>>

Results == {"CKR_OK", "CKR_PIN_INCORRECT", "CKR_USER_NOT_LOGGED_IN",
            "CKR_DEVICE_ERROR"}

Idle(p) == todo[p] = <<>>
At(p, step) == todo[p] # <<>> /\ Head(todo[p]) = step
AtOneOf(p, S) == todo[p] # <<>> /\ Head(todo[p]) \in S

Count(steps, x) == Cardinality({i \in DOMAIN steps : steps[i] = x})

(* sc_lock calls of the running call that are not unlocked yet.            *)
Depth(p) == Count(todo[p], "unlock") - Count(todo[p], "lock")

Advance(p) == todo' = [todo EXCEPT ![p] = Tail(@)] /\ UNCHANGED rv

(* Mutant: an error leaves the call without unlocking.                     *)
FailLeavesLock(p, result) ==
  /\ todo' = [todo EXCEPT ![p] = <<Last(@)>>]
  /\ rv' = [rv EXCEPT ![p] = result]

(* An error: what is locked is unlocked, the rest of the call is left out. *)
Fail(p, result) ==
  /\ todo' = [todo EXCEPT ![p] = [i \in 1 .. Depth(p) |-> "unlock"] \o <<Last(@)>>]
  /\ rv' = [rv EXCEPT ![p] = result]

Verifies == {"verify given", "verify saved", "verify cache"}
Commands == Verifies \cup {"change", "env", "sign", "sign again"}
Locks    == {"lock", "lock_card"}
Returns  == {"login", "return"}
Steps    == Commands \cup Locks \cup Returns \cup {"unlock"}

-----------------------------------------------------------------------------
(* Calls                                                                   *)

(* sc_pkcs15_verify_pin_with_session_pin.                                  *)
Verify(source) == <<"lock", source, "unlock">>

(* pkcs15_login.                                                           *)
Login(p, source) ==
  (IF conf[p].lock_login THEN <<"lock_card">> ELSE <<>>) \o Verify(source)

(* restore_login_state.                                                    *)
Restore(p) ==
  IF conf[p].atomic /\ saved[p] # NoPin THEN Login(p, "verify saved") ELSE <<>>

Start(p, x, own) ==
  LET steps == Restore(p) \o own IN
  /\ Idle(p) /\ locked[p] + Count(steps, "lock_card") <= MaxLocked
  /\ todo' = [todo EXCEPT ![p] = steps]
  /\ arg' = [arg EXCEPT ![p] = x]
  /\ given' = [given EXCEPT ![p] = @ \/ x # NoPin]
  /\ UNCHANGED <<lockVars, cardVars, pinVars, conf, loggedIn, saved, locked, rv>>

C_Login(p, x) ==
  ~loggedIn[p] /\ Start(p, x, Login(p, "verify given") \o <<"login">>)

(* C_Login(CKU_CONTEXT_SPECIFIC) does not lock the card for the login.     *)
C_LoginContextSpecific(p, x) ==
  loggedIn[p] /\ Start(p, x, Verify("verify given") \o <<"return">>)

C_SetPIN(p, x) == Start(p, x, <<"lock", "change", "unlock", "return">>)

(* pkcs15_prkey_sign and use_key.                                          *)
C_Sign(p) == Start(p, NoPin, <<"lock", "env", "sign", "unlock", "return">>)

(* Mutant: the cached PIN survives the logout.                             *)
C_LogoutKeepsCache(p) ==
  /\ Idle(p) /\ loggedIn[p]
  /\ loggedIn' = [loggedIn EXCEPT ![p] = FALSE]
  /\ saved' = [saved EXCEPT ![p] = NoPin]
  /\ given' = [given EXCEPT ![p] = FALSE]
  /\ UNCHANGED <<lockVars, cardVars, pinVars, conf, locked, todo, arg, rv>>

(* C_Logout forgets the saved PIN or, without `atomic', the cached one.    *)
(* The card stays verified, and locked: SW_PIN_LOGOUT_ONLY.                *)
C_Logout(p) ==
  /\ Idle(p) /\ loggedIn[p]
  /\ loggedIn' = [loggedIn EXCEPT ![p] = FALSE]
  /\ saved' = [saved EXCEPT ![p] = NoPin]
  /\ cache' = [cache EXCEPT ![p] = IF conf[p].atomic THEN @ ELSE NoPin]
  /\ given' = [given EXCEPT ![p] = FALSE]
  /\ UNCHANGED <<lockVars, cardVars, conf, usage, locked, todo, arg, rv>>

(* C_Finalize, the removal of the card, or the end of the process: the     *)
(* framework's data is freed and the card disconnected (pkcs15_unbind      *)
(* unlocks it first).                                                      *)
End(p) ==
  /\ Disconnect(p)
  /\ loggedIn' = [loggedIn EXCEPT ![p] = FALSE]
  /\ saved' = [saved EXCEPT ![p] = NoPin]
  /\ cache' = [cache EXCEPT ![p] = NoPin]
  /\ usage' = [usage EXCEPT ![p] = 0]
  /\ given' = [given EXCEPT ![p] = FALSE]
  /\ locked' = [locked EXCEPT ![p] = 0]
  /\ todo' = [todo EXCEPT ![p] = <<>>]
  /\ arg' = [arg EXCEPT ![p] = NoPin]
  /\ rv' = [rv EXCEPT ![p] = "CKR_OK"]
  /\ UNCHANGED <<cardVars, conf>>

-----------------------------------------------------------------------------
(* Steps                                                                   *)

LockDone(p) ==
  /\ locked' = [locked EXCEPT ![p] = IF At(p, "lock_card") THEN @ + 1 ELSE @]
  /\ Advance(p)
  /\ UNCHANGED <<cardVars, loginVars, pinVars, arg>>

StepLockFirst(p) ==
  /\ AtOneOf(p, Locks)
  /\ LockFirst(p)
  /\ UNCHANGED <<cardVars, loginVars, pinVars, locked, todo, arg, rv>>

StepLockRetry(p) ==
  /\ LockRetry(p)
  /\ UNCHANGED <<cardVars, loginVars, pinVars, locked, todo, arg, rv>>

StepLockAgain(p) == AtOneOf(p, Locks) /\ LockAgain(p) /\ LockDone(p)
StepLockGranted(p) == LockGranted(p) /\ LockDone(p)

StepLockFails(p) ==
  /\ LockFails(p)
  /\ Fail(p, "CKR_DEVICE_ERROR")
  /\ UNCHANGED <<cardVars, loginVars, pinVars, locked, arg>>

StepUnlock(p) ==
  /\ At(p, "unlock")
  /\ Unlock(p)
  /\ Advance(p)
  /\ UNCHANGED <<cardVars, loginVars, pinVars, locked, arg>>

(* A PIN that was presented from the cache and not accepted, for whatever  *)
(* reason, leaves the cache; the caller is told it is not logged in.       *)
CommandFails(p, result) ==
  LET cached == At(p, "verify cache") IN
  /\ Fail(p, IF cached THEN "CKR_USER_NOT_LOGGED_IN" ELSE result)
  /\ cache' = [cache EXCEPT ![p] = IF cached THEN NoPin ELSE @]
  /\ UNCHANGED <<loginVars, usage, locked, arg>>

CommandLost(p) ==
  /\ AtOneOf(p, Commands)
  /\ TransmitLost(p)
  /\ CommandFails(p, "CKR_DEVICE_ERROR")
  /\ UNCHANGED cardVars

(* The resource manager refuses the command: it is another's transaction.  *)
CommandRefused(p) ==
  /\ AtOneOf(p, Commands)
  /\ ~stale[p] /\ txn \notin {p, NoProc}
  /\ CommandFails(p, "CKR_DEVICE_ERROR")
  /\ UNCHANGED <<lockVars, cardVars>>

Presented(p) ==
  CASE At(p, "verify saved") -> saved[p]
    [] At(p, "verify cache") -> cache[p]
    [] OTHER                 -> arg[p]

(* sc_pkcs15_pincache_add: the counter starts again.                       *)
PincacheAdd(p, x) ==
  /\ cache' = [cache EXCEPT ![p] = x]
  /\ usage' = [usage EXCEPT ![p] = 0]

VerifyAccepted(p) ==
  /\ AtOneOf(p, Verifies) /\ Reaches(p)
  /\ Presented(p) = pin
  /\ verified' = TRUE
  /\ PincacheAdd(p, pin)
  /\ Advance(p)
  /\ UNCHANGED <<lockVars, loginVars, locked, arg, pin, env>>

(* A PIN the card does not accept, to be verified or to be changed.        *)
PinRefused(p) ==
  /\ AtOneOf(p, Verifies \cup {"change"}) /\ Reaches(p)
  /\ Presented(p) # pin
  /\ verified' = FALSE
  /\ CommandFails(p, "CKR_PIN_INCORRECT")
  /\ UNCHANGED <<lockVars, pin, env>>

(* sc_pkcs15_change_pin: the new PIN is cached, but not saved.             *)
ChangePin(p, x) ==
  /\ At(p, "change") /\ Reaches(p)
  /\ arg[p] = pin
  /\ pin' = x
  /\ PincacheAdd(p, x)
  /\ Advance(p)
  /\ UNCHANGED <<lockVars, loginVars, locked, arg, verified, env>>

SetSecurityEnv(p) ==
  /\ At(p, "env") /\ Reaches(p)
  /\ env' = p
  /\ Advance(p)
  /\ UNCHANGED <<lockVars, loginVars, pinVars, locked, arg, pin, verified>>

Signs == {"sign", "sign again"}

ComputeSignature(p) ==
  /\ AtOneOf(p, Signs) /\ Reaches(p)
  /\ verified
  /\ Advance(p)
  /\ UNCHANGED <<lockVars, cardVars, loginVars, pinVars, locked, arg>>

Unsatisfied(p) == AtOneOf(p, Signs) /\ Reaches(p) /\ ~verified

(* Mutant: the command is repeated without its security environment.       *)
RevalidateSkipsEnv(p) ==
  /\ Unsatisfied(p) /\ At(p, "sign")
  /\ usage[p] < CacheCounter /\ cache[p] # NoPin
  /\ usage' = [usage EXCEPT ![p] = @ + 1]
  /\ todo' = [todo EXCEPT ![p] =
                <<"unlock", "lock">> \o Verify("verify cache")
                  \o <<"sign again">> \o Tail(@)]
  /\ UNCHANGED <<lockVars, cardVars, loginVars, cache, locked, arg, rv>>

(* sc_pkcs15_pincache_revalidate presents the cached PIN; then the key is  *)
(* used once more.                                                         *)
Revalidate(p) ==
  /\ Unsatisfied(p) /\ At(p, "sign")
  /\ usage[p] < CacheCounter /\ cache[p] # NoPin
  /\ usage' = [usage EXCEPT ![p] = @ + 1]
  /\ todo' = [todo EXCEPT ![p] =
                Verify("verify cache") \o <<"env", "sign again">> \o Tail(@)]
  /\ UNCHANGED <<lockVars, cardVars, loginVars, cache, locked, arg, rv>>

NotRevalidated(p) ==
  /\ Unsatisfied(p)
  /\ At(p, "sign again") \/ usage[p] >= CacheCounter \/ cache[p] = NoPin
  /\ cache' = [cache EXCEPT ![p] =
                 IF At(p, "sign") /\ usage[p] >= CacheCounter THEN NoPin ELSE @]
  /\ Fail(p, "CKR_USER_NOT_LOGGED_IN")
  /\ UNCHANGED <<lockVars, cardVars, loginVars, usage, locked, arg>>

(* The end of C_Login, push_login_state, and of every call,                *)
(* reset_login_state: with `atomic' the framework's logout clears the      *)
(* cache.                                                                  *)
Return(p) ==
  LET in == IF rv[p] = "CKR_USER_NOT_LOGGED_IN" THEN FALSE
            ELSE loggedIn[p] \/ (At(p, "login") /\ rv[p] = "CKR_OK")
  IN
  /\ AtOneOf(p, Returns)
  /\ loggedIn' = [loggedIn EXCEPT ![p] = in]
  /\ saved' = [saved EXCEPT ![p] =
                 IF ~conf[p].atomic \/ rv[p] = "CKR_USER_NOT_LOGGED_IN" THEN NoPin
                 ELSE IF At(p, "login") /\ rv[p] = "CKR_OK" THEN arg[p] ELSE @]
  /\ cache' = [cache EXCEPT ![p] = IF conf[p].atomic THEN NoPin ELSE @]
  /\ todo' = [todo EXCEPT ![p] = <<>>]
  /\ arg' = [arg EXCEPT ![p] = NoPin]
  /\ rv' = [rv EXCEPT ![p] = "CKR_OK"]
  /\ UNCHANGED <<lockVars, cardVars, conf, given, usage, locked>>

(* The card loses what it was told along with the transaction.             *)
CardReset ==
  /\ LoseCard
  /\ verified' = FALSE /\ env' = NoProc
  /\ UNCHANGED <<loginVars, pinVars, locked, todo, arg, rv, pin>>

-----------------------------------------------------------------------------
Init ==
  /\ LockInit
  /\ conf \in [Procs -> Confs]
  /\ loggedIn = [p \in Procs |-> FALSE]
  /\ saved = [p \in Procs |-> NoPin]
  /\ locked = [p \in Procs |-> 0]
  /\ cache = [p \in Procs |-> NoPin]
  /\ usage = [p \in Procs |-> 0]
  /\ given = [p \in Procs |-> FALSE]
  /\ todo = [p \in Procs |-> <<>>]
  /\ arg = [p \in Procs |-> NoPin]
  /\ rv = [p \in Procs |-> "CKR_OK"]
  /\ pin \in Pins /\ verified = FALSE /\ env = NoProc

Call(p) ==
  \/ \E x \in Pins : C_Login(p, x) \/ C_LoginContextSpecific(p, x) \/ C_SetPIN(p, x)
  \/ C_Sign(p)
  \/ C_Logout(p)

Step(p) ==
  \/ StepLockFirst(p) \/ StepLockAgain(p) \/ StepLockRetry(p) \/ StepLockFails(p)
  \/ StepUnlock(p)
  \/ CommandLost(p) \/ CommandRefused(p)
  \/ VerifyAccepted(p) \/ PinRefused(p)
  \/ \E x \in Pins : ChangePin(p, x)
  \/ SetSecurityEnv(p) \/ ComputeSignature(p)
  \/ Revalidate(p) \/ NotRevalidated(p)
  \/ Return(p)

Next ==
  \/ CardReset
  \/ \E p \in Procs : Call(p) \/ End(p) \/ Step(p) \/ StepLockGranted(p)

Spec == Init /\ [][Next]_vars

(* A call goes on with its steps; a process that waits for a transaction   *)
(* gets one when the card is free again and again.                         *)
FairSpec ==
  /\ Spec
  /\ \A p \in Procs : WF_vars(Step(p)) /\ SF_vars(StepLockGranted(p))

-----------------------------------------------------------------------------
(* Properties                                                              *)

(* The variables this module adds to CardLock have their types.            *)
TypeOK ==
  /\ LockTypeOK
  /\ conf \in [Procs -> Confs]
  /\ loggedIn \in [Procs -> BOOLEAN]
  /\ saved \in [Procs -> Pins \cup {NoPin}]
  /\ locked \in [Procs -> 0 .. MaxLocked]
  /\ cache \in [Procs -> Pins \cup {NoPin}]
  /\ usage \in [Procs -> 0 .. CacheCounter]
  /\ given \in [Procs -> BOOLEAN]
  /\ todo \in [Procs -> Seq(Steps)]
  /\ arg \in [Procs -> Pins \cup {NoPin}]
  /\ rv \in [Procs -> Results]
  /\ pin \in Pins /\ verified \in BOOLEAN /\ env \in Procs \cup {NoProc}

(* card->lock_count is what the login and the running call have locked,    *)
(* through errors, revalidation and loss of the card; so sc_unlock is      *)
(* never called on a card that is not locked, and leaves no mutex locked.  *)
LockAccounted ==
  /\ \A p \in Procs : lock_count[p] = locked[p] + Depth(p)
  /\ left = {}

(* A key is used with the security environment its own process set, unless *)
(* the process was told before that it no longer has the card to itself.   *)
EnvIsOwn ==
  \A p \in Procs : AtOneOf(p, Signs) /\ Reaches(p) /\ ~told[p] => env = p

(* Whoever is logged in under `lock_login' keeps the others out, or has    *)
(* lost the card.                                                          *)
LoginHolds ==
  \A p \in Procs :
    loggedIn[p] /\ conf[p].lock_login => txn = p \/ stale[p] \/ told[p]

(* After C_Logout the module has no PIN it could present by itself, until  *)
(* the application gives it one again.                                     *)
OnlyGivenPins ==
  \A p \in Procs : ~given[p] => saved[p] = NoPin /\ cache[p] = NoPin

(* A call that waits for the card gets it, or an error, unless somebody    *)
(* has locked it for a login.                                              *)
LockReturns ==
  \A p \in Procs :
    p \in waiting ~> (p \notin waiting \/ \E q \in Procs \ {p} : locked[q] > 0)
=============================================================================
