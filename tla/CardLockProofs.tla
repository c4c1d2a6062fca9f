--------------------------- MODULE CardLockProofs ---------------------------
(* The lock's invariants, and that it implements Transactions.             *)
EXTENDS CardLock, TLAPS

LockCalm ==
  /\ \A p \in waiting : lock_count[p] = 0
  /\ \A p \in Procs : lock_count[p] = 0 => ~told[p]

LockInv == LockTypeOK /\ NoOrphan /\ LossIsNoticed /\ LockCalm

LEMMA LockInitInv == LockInit => LockInv
BY ProcsAssumption
   DEF LockInit, LockInv, LockTypeOK, NoOrphan, LossIsNoticed, LockCalm

LEMMA LockStepInv ==
  ASSUME LockInv, LockNext
  PROVE  LockInv'
<1> USE ProcsAssumption DEF LockInv, LockTypeOK
<1>1. CASE LoseCard
  BY <1>1 DEF LoseCard, NoOrphan, LossIsNoticed, LockCalm
<1>2. ASSUME NEW p \in Procs, LockAgain(p)
      PROVE  LockInv'
  <2>1. LockTypeOK'
    BY <1>2 DEF LockAgain
  <2>2. NoOrphan'
    BY <1>2 DEF LockAgain, NoOrphan, LockCalm
  <2>3. LossIsNoticed'
    BY <1>2 DEF LockAgain, NoOrphan, LossIsNoticed
  <2>4. LockCalm'
    BY <1>2 DEF LockAgain, LockCalm
  <2> QED
    BY <2>1, <2>2, <2>3, <2>4
<1>3. ASSUME NEW p \in Procs, LockFirst(p)
      PROVE  LockInv'
  <2>1. LockTypeOK'
    BY <1>3 DEF LockFirst
  <2>2. NoOrphan'
    BY <1>3 DEF LockFirst, NoOrphan, LockCalm
  <2>3. LossIsNoticed'
    BY <1>3 DEF LockFirst, NoOrphan, LossIsNoticed
  <2>4. LockCalm'
    BY <1>3 DEF LockFirst, LockCalm
  <2> QED
    BY <2>1, <2>2, <2>3, <2>4
<1>4. ASSUME NEW p \in Procs, LockGranted(p)
      PROVE  LockInv'
  <2>1. LockTypeOK'
    BY <1>4 DEF LockGranted
  <2>2. NoOrphan'
    BY <1>4 DEF LockGranted, NoOrphan, LockCalm
  <2>3. LossIsNoticed'
    BY <1>4 DEF LockGranted, NoOrphan, LossIsNoticed
  <2>4. LockCalm'
    BY <1>4 DEF LockGranted, LockCalm
  <2> QED
    BY <2>1, <2>2, <2>3, <2>4
<1>5. ASSUME NEW p \in Procs, LockRetry(p)
      PROVE  LockInv'
  <2>1. LockTypeOK'
    BY <1>5 DEF LockRetry
  <2>2. NoOrphan'
    BY <1>5 DEF LockRetry, NoOrphan, LockCalm
  <2>3. LossIsNoticed'
    BY <1>5 DEF LockRetry, NoOrphan, LossIsNoticed, LockCalm
  <2>4. LockCalm'
    BY <1>5 DEF LockRetry, LockCalm
  <2> QED
    BY <2>1, <2>2, <2>3, <2>4
<1>6. ASSUME NEW p \in Procs, LockFails(p)
      PROVE  LockInv'
  <2>1. LockTypeOK'
    <3>1. stale' \in [Procs -> BOOLEAN]
      <4>1. CASE stale' = [stale EXCEPT ![p] = FALSE]
        BY <4>1
      <4>2. CASE stale' = stale
        BY <4>2
      <4>3. stale' = [stale EXCEPT ![p] = FALSE] \/ stale' = stale
        BY <1>6, SMT DEF LockFails
      <4> QED
        BY <4>1, <4>2, <4>3, Zenon
    <3>2. /\ waiting' = waiting \ {p}
          /\ was_reset' = [was_reset EXCEPT ![p] = 0]
          /\ UNCHANGED <<txn, lock_count, told, left>>
      BY <1>6 DEF LockFails
    <3>3. was_reset' \in [Procs -> 0 .. MaxRetry]
      BY <3>2
    <3> QED
      BY <3>1, <3>2, <3>3
  <2>2. NoOrphan'
    BY <1>6 DEF LockFails, NoOrphan, LockCalm
  <2>3. LossIsNoticed'
    BY <1>6 DEF LockFails, NoOrphan, LossIsNoticed, LockCalm
  <2>4. LockCalm'
    BY <1>6 DEF LockFails, LockCalm
  <2> QED
    BY <2>1, <2>2, <2>3, <2>4
<1>7. ASSUME NEW p \in Procs, Unlock(p)
      PROVE  LockInv'
  <2>1. LockTypeOK'
    BY <1>7 DEF Unlock
  <2>2. NoOrphan'
    BY <1>7 DEF Unlock, NoOrphan, LockCalm
  <2>3. LossIsNoticed'
    BY <1>7 DEF Unlock, NoOrphan, LossIsNoticed
  <2>4. LockCalm'
    <3>1. \A q \in Procs \ {p} : lock_count'[q] = lock_count[q] /\ told'[q] = told[q]
      BY <1>7 DEF Unlock
    <3>2. lock_count'[p] = 0 => lock_count[p] \in {0, 1}
      BY <1>7 DEF Unlock
    <3>3. told'[p] = (told[p] /\ lock_count[p] # 1)
      BY <1>7 DEF Unlock
    <3> QED
      BY <1>7, <3>1, <3>2, <3>3 DEF Unlock, LockCalm
  <2> QED
    BY <2>1, <2>2, <2>3, <2>4
<1>8. ASSUME NEW p \in Procs, TransmitLost(p)
      PROVE  LockInv'
  <2>1. LockTypeOK'
    BY <1>8 DEF TransmitLost
  <2>2. NoOrphan'
    BY <1>8 DEF TransmitLost, NoOrphan, LockCalm
  <2>3. LossIsNoticed'
    BY <1>8 DEF TransmitLost, NoOrphan, LossIsNoticed
  <2>4. LockCalm'
    BY <1>8 DEF TransmitLost, LockCalm
  <2> QED
    BY <2>1, <2>2, <2>3, <2>4
<1>9. ASSUME NEW p \in Procs, Disconnect(p)
      PROVE  LockInv'
  <2>1. LockTypeOK'
    BY <1>9 DEF Disconnect
  <2>2. NoOrphan'
    BY <1>9 DEF Disconnect, NoOrphan, LockCalm
  <2>3. LossIsNoticed'
    BY <1>9 DEF Disconnect, NoOrphan, LossIsNoticed
  <2>4. LockCalm'
    BY <1>9 DEF Disconnect, LockCalm
  <2> QED
    BY <2>1, <2>2, <2>3, <2>4
<1> QED
  BY <1>1, <1>2, <1>3, <1>4, <1>5, <1>6, <1>7, <1>8, <1>9 DEF LockNext

LEMMA LockStutterInv ==
  ASSUME LockInv, UNCHANGED lockVars
  PROVE  LockInv'
BY DEF lockVars, LockInv, LockTypeOK, NoOrphan, LossIsNoticed, LockCalm

(* The lock's state is always well typed, and sc_lock's counter of resets  *)
(* never exceeds the number of retries.                                    *)
THEOREM LockTypeCorrect == LockSpec => []LockTypeOK
<1>1. LockInit => LockInv
  BY LockInitInv
<1>2. LockInv /\ [LockNext]_lockVars => LockInv'
  BY LockStepInv, LockStutterInv
<1>3. LockInv => LockTypeOK
  BY DEF LockInv
<1> QED
  BY <1>1, <1>2, <1>3, PTL DEF LockSpec

LEMMA LockInvariant == LockSpec => []LockInv
<1>1. LockInv /\ [LockNext]_lockVars => LockInv'
  BY LockStepInv, LockStutterInv
<1> QED
  BY LockInitInv, <1>1, PTL DEF LockSpec

(* Whatever is reset, refused or given up: an open transaction belongs to  *)
(* a process that has the card locked.                                     *)
THEOREM NoTransactionOrphaned == LockSpec => []NoOrphan
<1>1. LockInv => NoOrphan
  BY DEF LockInv
<1> QED
  BY LockInvariant, <1>1, PTL

(* A process with the card locked has the transaction, or learns of its    *)
(* loss not later than with its next command.                              *)
THEOREM LossNoticed == LockSpec => []LossIsNoticed
<1>1. LockInv => LossIsNoticed
  BY DEF LockInv
<1> QED
  BY LockInvariant, <1>1, PTL

-----------------------------------------------------------------------------
(* Refinement: Inside is the holder of the transaction.                    *)

LEMMA InsideIsHolder ==
  ASSUME LockInv
  PROVE  Inside = {p \in Procs : txn = p}
BY DEF LockInv, LockTypeOK, NoOrphan, LossIsNoticed, Inside

LEMMA TransactionStep ==
  ASSUME LockInv, LockInv', LockNext
  PROVE  [T!Next]_Inside
<1> USE ProcsAssumption DEF LockInv, LockTypeOK
<1>1. Inside = {p \in Procs : txn = p}
  BY InsideIsHolder
<1>2. Inside' = {p \in Procs : txn' = p}
  BY DEF NoOrphan, LossIsNoticed, Inside
<1>3. CASE txn' = txn
  BY <1>1, <1>2, <1>3
<1>4. CASE txn' = NoProc /\ txn \in Procs
  <2>1. txn \in Inside /\ Inside' = Inside \ {txn}
    BY <1>1, <1>2, <1>4
  <2> QED
    BY <2>1, <1>4 DEF T!Next, T!Leave
<1>5. CASE txn = NoProc /\ txn' \in Procs
  <2>1. Inside = {} /\ Inside' = {txn'}
    BY <1>1, <1>2, <1>5
  <2> QED
    BY <2>1, <1>5 DEF T!Next, T!Enter
<1>6. \/ txn' = txn
      \/ txn' = NoProc /\ txn \in Procs
      \/ txn = NoProc /\ txn' \in Procs
  BY DEF LockNext, LoseCard, LockAgain, LockFirst, LockGranted, LockRetry, LockFails,
         Unlock, TransmitLost, Disconnect
<1> QED
  BY <1>3, <1>4, <1>5, <1>6

(* sc_lock and sc_unlock, with their retries and reconnections, implement  *)
(* the abstract lock: at most one process relies on having the card.       *)
THEOREM LockIsExclusive == LockSpec => Exclusive
<1>1. LockInit => T!Init
  BY DEF LockInit, T!Init, Inside
<1>2. LockInv /\ LockInv' /\ [LockNext]_lockVars => [T!Next]_Inside
  BY TransactionStep DEF lockVars, Inside
<1> QED
  BY <1>1, <1>2, LockInvariant, PTL DEF LockSpec, Exclusive, T!Spec
=============================================================================
