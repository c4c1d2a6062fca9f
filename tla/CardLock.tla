------------------------------ MODULE CardLock ------------------------------
(***************************************************************************)
(* Locking one card from several processes: sc_lock, sc_unlock and         *)
(* sc_disconnect_card (src/OpenSC/src/libopensc/card.c) over the           *)
(* transactions of the PC/SC resource manager, with the reconnections of   *)
(* src/OpenSC/src/libopensc/reader-pcsc.c.                                 *)
(*                                                                         *)
(* A process has one handle to the card and runs one call at a time (the   *)
(* PKCS#11 module's global lock), so card->mutex is never waited for; what *)
(* can go wrong with it is that sc_unlock returns without releasing it.    *)
(* Nested sc_lock/sc_unlock pairs around a single command of a locked      *)
(* section are left out: they only count up and down.                      *)
(*                                                                         *)
(* The resource manager is external.  When the card is reset or its reader *)
(* is plugged in again, it ends the transaction, and the next request over *)
(* each older handle is refused until the process has reconnected (with    *)
(* PC/SC-lite a transaction survives its holder's reconnection; a reader   *)
(* that was plugged in again loses it there, too).                         *)
(***************************************************************************)
EXTENDS Integers, FiniteSets

CONSTANTS
  Procs,      \* processes that use the card
  NoProc,
  MaxRetry    \* how often sc_lock tries again after a reset: 5 in the code

ASSUME ProcsAssumption == NoProc \notin Procs /\ MaxRetry \in Nat

VARIABLES
  txn,         \* resource manager: whose transaction is open
  stale,       \* resource manager: the next request of the handle is refused
  lock_count,  \* card->lock_count
  waiting,     \* processes in sc_lock, at the loop around reader->ops->lock
  was_reset,   \* sc_lock's local: refusals so far
  told,        \* a command of this locked section reported the loss of the card
  left         \* processes whose card->mutex was left locked

lockVars == <<txn, stale, lock_count, waiting, was_reset, told, left>>

-----------------------------------------------------------------------------
(* sc_lock                                                                 *)

(* The card is locked by this process already.                             *)
LockAgain(p) ==
  /\ p \notin waiting /\ p \notin left /\ lock_count[p] > 0
  /\ lock_count' = [lock_count EXCEPT ![p] = @ + 1]
  /\ UNCHANGED <<txn, stale, waiting, was_reset, told, left>>

(* It is not: reader->ops->lock, SCardBeginTransaction.                    *)
LockFirst(p) ==
  /\ p \notin waiting /\ p \notin left /\ lock_count[p] = 0
  /\ waiting' = waiting \cup {p}
  /\ was_reset' = [was_reset EXCEPT ![p] = 0]
  /\ UNCHANGED <<txn, stale, lock_count, told, left>>

(* SCardBeginTransaction blocks while another transaction is open.         *)
LockGranted(p) ==
  /\ p \in waiting /\ ~stale[p] /\ txn = NoProc
  /\ txn' = p
  /\ lock_count' = [lock_count EXCEPT ![p] = @ + 1]
  /\ waiting' = waiting \ {p}
  /\ was_reset' = [was_reset EXCEPT ![p] = 0]
  /\ UNCHANGED <<stale, told, left>>

(* Mutant: a handle that was reconnected counts as locked.                 *)
LockRetryCounts(p) ==
  /\ p \in waiting /\ stale[p] /\ was_reset[p] < MaxRetry
  /\ stale' = [stale EXCEPT ![p] = FALSE]
  /\ waiting' = waiting \ {p}
  /\ lock_count' = [lock_count EXCEPT ![p] = @ + 1]
  /\ UNCHANGED <<txn, was_reset, told, left>>

(* Mutant: the retries are counted from one more.                          *)
LockRetriesOnceMore(p) ==
  /\ p \in waiting /\ stale[p] /\ was_reset[p] <= MaxRetry
  /\ stale' = [stale EXCEPT ![p] = FALSE]
  /\ was_reset' = [was_reset EXCEPT ![p] = @ + 1]
  /\ UNCHANGED <<txn, lock_count, waiting, told, left>>

(* Refused because of a reset: pcsc_lock reconnects and the loop goes on.  *)
LockRetry(p) ==
  /\ p \in waiting /\ stale[p] /\ was_reset[p] < MaxRetry
  /\ stale' = [stale EXCEPT ![p] = FALSE]
  /\ was_reset' = [was_reset EXCEPT ![p] = @ + 1]
  /\ UNCHANGED <<txn, lock_count, waiting, told, left>>

(* One reset too many (the last refusal reconnected, too), or reconnecting *)
(* failed: sc_lock returns the error.                                      *)
LockFails(p) ==
  /\ p \in waiting /\ stale[p]
  /\ \/ was_reset[p] = MaxRetry /\ stale' = [stale EXCEPT ![p] = FALSE]
     \/ UNCHANGED stale
  /\ waiting' = waiting \ {p}
  /\ was_reset' = [was_reset EXCEPT ![p] = 0]
  /\ UNCHANGED <<txn, lock_count, told, left>>

-----------------------------------------------------------------------------
(* Mutant: every unlock ends the transaction.                              *)
UnlockAlways(p) ==
  /\ p \notin waiting /\ p \notin left /\ lock_count[p] > 0
  /\ lock_count' = [lock_count EXCEPT ![p] = @ - 1]
  /\ txn' = IF txn = p THEN NoProc ELSE txn
  /\ UNCHANGED <<stale, waiting, was_reset, told, left>>

(* Mutant: the transaction is ended before the last unlock is counted.     *)
UnlockKeepsTxn(p) ==
  LET last == lock_count[p] = 0 IN
  /\ p \notin waiting /\ p \notin left
  /\ lock_count' = [lock_count EXCEPT ![p] = IF @ < 1 THEN @ ELSE @ - 1]
  /\ left' = IF lock_count[p] < 1 THEN left \cup {p} ELSE left
  /\ txn' = IF last /\ txn = p THEN NoProc ELSE txn
  /\ told' = [told EXCEPT ![p] = @ /\ ~last]
  /\ UNCHANGED <<stale, waiting, was_reset>>

(* sc_unlock: the last one ends the transaction, if there still is one.    *)
(* On a card that is not locked it returns with card->mutex held.          *)
Unlock(p) ==
  LET last == lock_count[p] = 1 IN
  /\ p \notin waiting /\ p \notin left
  /\ lock_count' = [lock_count EXCEPT ![p] = IF @ < 1 THEN @ ELSE @ - 1]
  /\ left' = IF lock_count[p] < 1 THEN left \cup {p} ELSE left
  /\ txn' = IF last /\ txn = p THEN NoProc ELSE txn
  /\ told' = [told EXCEPT ![p] = @ /\ ~last]
  /\ UNCHANGED <<stale, waiting, was_reset>>

-----------------------------------------------------------------------------
(* pcsc_internal_transmit, in a locked section                             *)

(* The resource manager passes the command on, unless another process has  *)
(* a transaction.                                                          *)
Reaches(p) == ~stale[p] /\ txn \in {p, NoProc}

(* Mutant: the command is sent again after the reconnection.               *)
TransmitRepeats(p) ==
  /\ p \notin waiting /\ lock_count[p] > 0 /\ stale[p]
  /\ stale' = [stale EXCEPT ![p] = FALSE]
  /\ UNCHANGED <<txn, lock_count, waiting, was_reset, told, left>>

(* Refused because of a reset: the process reconnects (or fails to), and   *)
(* its caller is told.                                                     *)
TransmitLost(p) ==
  /\ p \notin waiting /\ lock_count[p] > 0 /\ stale[p]
  /\ \E back \in BOOLEAN : stale' = [stale EXCEPT ![p] = ~back]
  /\ told' = [told EXCEPT ![p] = TRUE]
  /\ UNCHANGED <<txn, lock_count, waiting, was_reset, left>>

(* sc_disconnect_card, or the process ends, wherever it was; and a new     *)
(* handle when the card is next used.                                      *)
Disconnect(p) ==
  /\ txn' = IF txn = p THEN NoProc ELSE txn
  /\ stale' = [stale EXCEPT ![p] = FALSE]
  /\ lock_count' = [lock_count EXCEPT ![p] = 0]
  /\ told' = [told EXCEPT ![p] = FALSE]
  /\ waiting' = waiting \ {p}
  /\ was_reset' = [was_reset EXCEPT ![p] = 0]
  /\ left' = left \ {p}

(* The card is reset, or its reader unplugged and plugged in again.        *)
LoseCard ==
  /\ txn' = NoProc
  /\ stale' = [p \in Procs |-> TRUE]
  /\ UNCHANGED <<lock_count, waiting, was_reset, told, left>>

-----------------------------------------------------------------------------
LockInit ==
  /\ txn = NoProc
  /\ stale = [p \in Procs |-> FALSE]
  /\ lock_count = [p \in Procs |-> 0]
  /\ waiting = {}
  /\ was_reset = [p \in Procs |-> 0]
  /\ told = [p \in Procs |-> FALSE]
  /\ left = {}

LockNext ==
  \/ LoseCard
  \/ \E p \in Procs :
       \/ LockAgain(p) \/ LockFirst(p) \/ LockGranted(p)
       \/ LockRetry(p) \/ LockFails(p)
       \/ Unlock(p) \/ TransmitLost(p) \/ Disconnect(p)

LockSpec == LockInit /\ [][LockNext]_lockVars

-----------------------------------------------------------------------------
(* Properties                                                              *)

LockTypeOK ==
  /\ txn \in Procs \cup {NoProc}
  /\ stale \in [Procs -> BOOLEAN]
  /\ lock_count \in [Procs -> Nat]
  /\ waiting \subseteq Procs
  /\ was_reset \in [Procs -> 0 .. MaxRetry]
  /\ told \in [Procs -> BOOLEAN]
  /\ left \subseteq Procs

(* A transaction belongs to a process that has the card locked and knows   *)
(* it: sc_lock that failed, and sc_unlock, leave none open.                *)
NoOrphan ==
  \A p \in Procs : txn = p => lock_count[p] > 0 /\ ~stale[p] /\ ~told[p]

(* A process that has the card locked either has it to itself, or was told *)
(* that it has not, or will be with its next command.                      *)
LossIsNoticed ==
  \A p \in Procs : lock_count[p] > 0 => txn = p \/ stale[p] \/ told[p]

(* Processes that may go on as if they had the card to themselves.         *)
Inside == {p \in Procs : lock_count[p] > 0 /\ ~stale[p] /\ ~told[p]}

T == INSTANCE Transactions WITH inside <- Inside

(* To its callers the lock is the abstract one: whoever relies on having   *)
(* the card to itself is alone with it.                                    *)
Exclusive == T!Spec
=============================================================================
