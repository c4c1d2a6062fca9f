------------------------- MODULE TokenAccessProofs -------------------------
(* The processes of TokenAccess use the card lock only through its         *)
(* operations; each unlocks what it locked, sends commands only while the  *)
(* card is locked, signs with its own security environment, keeps the card *)
(* for its login, and presents no PIN after a logout.                      *)
EXTENDS TokenAccess, CardLockProofs, SequenceTheorems,
        FiniteSetTheorems

-----------------------------------------------------------------------------
(* Every step of a call is a step of the lock, or none.                    *)

LEMMA StepIsLockStep ==
  ASSUME Next
  PROVE  [LockNext]_lockVars
<1> USE DEF LockNext
<1>1. CASE CardReset
  BY <1>1 DEF CardReset
<1>2. ASSUME NEW p \in Procs, Call(p)
      PROVE  UNCHANGED lockVars
  BY <1>2 DEF Call, C_Login, C_LoginContextSpecific, C_SetPIN, C_Sign, C_Logout, Start
<1>3. ASSUME NEW p \in Procs, End(p)
      PROVE  LockNext
  BY <1>3 DEF End
<1>4. ASSUME NEW p \in Procs, Step(p)
      PROVE  [LockNext]_lockVars
  <2>1. CASE StepLockFirst(p) \/ StepLockAgain(p) \/ StepLockRetry(p) \/ StepLockFails(p)
    BY <2>1 DEF StepLockFirst, StepLockAgain, StepLockRetry, StepLockFails
  <2>2. CASE StepUnlock(p) \/ CommandLost(p)
    BY <2>2 DEF StepUnlock, CommandLost
  <2>3. CASE CommandRefused(p) \/ VerifyAccepted(p) \/ PinRefused(p)
    BY <2>3 DEF CommandRefused, VerifyAccepted, PinRefused
  <2>4. CASE (\E x \in Pins : ChangePin(p, x)) \/ SetSecurityEnv(p) \/ ComputeSignature(p)
    BY <2>4 DEF ChangePin, SetSecurityEnv, ComputeSignature
  <2>5. CASE Revalidate(p) \/ NotRevalidated(p) \/ Return(p)
    BY <2>5 DEF Revalidate, NotRevalidated, Return
  <2> QED
    BY <1>4, <2>1, <2>2, <2>3, <2>4, <2>5 DEF Step
<1>5. ASSUME NEW p \in Procs, StepLockGranted(p)
      PROVE  LockNext
  BY <1>5 DEF StepLockGranted
<1> QED
  BY <1>1, <1>2, <1>3, <1>4, <1>5 DEF Next

(* The PKCS#11 calls of all processes together use the lock as CardLock    *)
(* says, so that the theorems about the lock hold of them.                 *)
THEOREM CallsUseLock == Spec => LockSpec
<1>1. Init => LockInit
  BY DEF Init
<1>2. [Next]_vars => [LockNext]_lockVars
  BY StepIsLockStep DEF vars
<1> QED
  BY <1>1, <1>2, PTL DEF Spec, LockSpec

(* In particular: no process sets a security environment and signs while   *)
(* another one relies on having the card to itself ...                     *)
THEOREM CallsAreExclusive == Spec => Exclusive
BY CallsUseLock, LockIsExclusive

(* ... an open transaction belongs to a call or login in progress ...      *)
THEOREM CallsOrphanNothing == Spec => []NoOrphan
BY CallsUseLock, NoTransactionOrphaned

(* ... and a call or login that lost the card learns of it.                *)
THEOREM CallsNoticeLoss == Spec => []LossIsNoticed
BY CallsUseLock, LossNoticed

-----------------------------------------------------------------------------
(* What is left to do always ends with the return of the call.             *)

WellFormed(s) == s \in Seq(Steps) /\ (s # <<>> => Last(s) \in Returns)

LEMMA TailWellFormed ==
  ASSUME NEW s, WellFormed(s), s # <<>>, Head(s) \notin Returns
  PROVE  WellFormed(Tail(s)) /\ Tail(s) # <<>>
<1>1. s \in Seq(Steps) /\ Len(s) \in Nat /\ Len(s) > 0
  BY DEF WellFormed
<1>2. Len(s) # 1
  BY <1>1 DEF WellFormed, Last
<1>3. /\ Tail(s) \in Seq(Steps) /\ Len(Tail(s)) = Len(s) - 1
      /\ \A i \in 1 .. Len(s) - 1 : Tail(s)[i] = s[i + 1]
  BY <1>1
<1>4. Tail(s)[Len(s) - 1] = s[Len(s)]
  BY <1>1, <1>2, <1>3
<1>5. Last(Tail(s)) = Last(s)
  BY <1>3, <1>4 DEF Last
<1>6. Tail(s) # <<>>
  BY <1>1, <1>2, <1>3
<1> QED
  BY <1>1, <1>3, <1>5, <1>6 DEF WellFormed

LEMMA ConcatWellFormed ==
  ASSUME NEW s \in Seq(Steps), NEW t, WellFormed(t), t # <<>>
  PROVE  WellFormed(s \o t) /\ s \o t # <<>>
<1>1. t \in Seq(Steps) /\ Len(t) \in Nat /\ Len(t) > 0 /\ Len(s) \in Nat
  BY DEF WellFormed
<1>2. /\ s \o t \in Seq(Steps) /\ Len(s \o t) = Len(s) + Len(t)
      /\ (s \o t)[Len(s) + Len(t)] = t[Len(t)]
  BY <1>1
<1> QED
  BY <1>1, <1>2 DEF WellFormed, Last

LEMMA LastWellFormed ==
  ASSUME NEW x \in Returns
  PROVE  WellFormed(<<x>>) /\ <<x>> # <<>>
BY DEF WellFormed, Steps, Last

LEMMA CountType ==
  ASSUME NEW s \in Seq(Steps), NEW x
  PROVE  Count(s, x) \in Nat
<1>1. IsFiniteSet(1 .. Len(s))
  BY FS_Interval
<1>2. {i \in DOMAIN s : s[i] = x} \subseteq 1 .. Len(s)
  OBVIOUS
<1> QED
  BY <1>1, <1>2, FS_Subset, FS_CardinalityType DEF Count

(* Unlocking what is locked and returning, after an error.                 *)
LEMMA UnwoundWellFormed ==
  ASSUME NEW p \in Procs, WellFormed(todo[p]), todo[p] # <<>>
  PROVE  LET s == [i \in 1 .. Depth(p) |-> "unlock"] \o <<Last(todo[p])>>
         IN  WellFormed(s) /\ s # <<>>
<1> DEFINE u == [i \in 1 .. Depth(p) |-> "unlock"]
<1>1. Depth(p) \in Int
  BY CountType DEF WellFormed, Depth
<1>2. u \in Seq(Steps)
  <2>1. PICK n \in Nat : 1 .. Depth(p) = 1 .. n
    <3>1. CASE Depth(p) >= 0
      BY <1>1, <3>1
    <3>2. CASE Depth(p) < 0
      <4>1. 1 .. Depth(p) = 1 .. 0
        BY <1>1, <3>2
      <4> QED
        BY <4>1
    <3> QED
      BY <1>1, <3>1, <3>2
  <2>2. "unlock" \in Steps
    BY DEF Steps
  <2>3. u \in [1 .. n -> Steps]
    BY <2>1, <2>2
  <2>4. [1 .. n -> Steps] \subseteq UNION {[1 .. k -> Steps] : k \in Nat}
    OBVIOUS
  <2>5. Seq(Steps) = UNION {[1 .. k -> Steps] : k \in Nat}
    BY SeqDef
  <2> HIDE DEF u
  <2> QED
    BY <2>3, <2>4, <2>5, Zenon
<1>3. WellFormed(<<Last(todo[p])>>) /\ <<Last(todo[p])>> # <<>>
  BY LastWellFormed DEF WellFormed
<1> QED
  BY <1>2, <1>3, ConcatWellFormed

TodoInv ==
  /\ todo \in [Procs -> Seq(Steps)] /\ arg \in [Procs -> Pins \cup {NoPin}]
  /\ \A p \in Procs : WellFormed(todo[p])
  /\ \A p \in Procs : todo[p] = <<>> => arg[p] = NoPin
  /\ \A p \in Procs \cap waiting : AtOneOf(p, Locks)

LEMMA TodoAdvance ==
  ASSUME TodoInv, NEW p \in Procs, todo[p] # <<>>, Head(todo[p]) \notin Returns,
         Advance(p), UNCHANGED arg, waiting' \subseteq waiting, p \notin waiting'
  PROVE  TodoInv'
<1>1. WellFormed(Tail(todo[p])) /\ Tail(todo[p]) # <<>>
  BY TailWellFormed DEF TodoInv
<1>2. todo' = [todo EXCEPT ![p] = Tail(todo[p])]
  BY DEF Advance
<1>3. Tail(todo[p]) \in Seq(Steps)
  BY <1>1 DEF WellFormed
<1> QED
  BY <1>1, <1>2, <1>3 DEF TodoInv, AtOneOf

LEMMA TodoFail ==
  ASSUME TodoInv, NEW p \in Procs, todo[p] # <<>>, NEW result, Fail(p, result),
         UNCHANGED arg, waiting' \subseteq waiting, p \notin waiting'
  PROVE  TodoInv'
<1> DEFINE s == [i \in 1 .. Depth(p) |-> "unlock"] \o <<Last(todo[p])>>
<1>1. WellFormed(s) /\ s # <<>>
  BY UnwoundWellFormed DEF TodoInv
<1>2. todo' = [todo EXCEPT ![p] = s]
  BY DEF Fail
<1>3. s \in Seq(Steps)
  BY <1>1 DEF WellFormed
<1> HIDE DEF s
<1> QED
  BY <1>1, <1>2, <1>3 DEF TodoInv, AtOneOf

LEMMA VerifyType ==
  ASSUME NEW source \in Verifies
  PROVE  Verify(source) \in Seq(Steps) /\ Verify(source) # <<>>
<1>1. "lock" \in Steps /\ source \in Steps /\ "unlock" \in Steps
  BY DEF Steps, Locks, Commands
<1> QED
  BY <1>1 DEF Verify

LEMMA PairType ==
  ASSUME NEW S, NEW a \in S, NEW b \in S
  PROVE  <<a, b>> \in Seq(S)
OBVIOUS

LEMMA AgainType == <<"env", "sign again">> \in Seq(Steps)
<1>1. "env" \in Steps /\ "sign again" \in Steps
  BY DEF Steps, Commands
<1> QED
  BY <1>1, PairType, Zenon

LEMMA LoginType ==
  ASSUME NEW p, NEW source \in Verifies
  PROVE  Login(p, source) \in Seq(Steps)
<1>1. <<"lock_card">> \in Seq(Steps) /\ <<>> \in Seq(Steps)
  BY DEF Steps, Locks
<1>2. Verify(source) \in Seq(Steps)
  BY VerifyType
<1> QED
  BY <1>1, <1>2 DEF Login

LEMMA TodoStart ==
  ASSUME TodoInv, NEW p \in Procs, NEW x \in Pins \cup {NoPin}, NEW own,
         WellFormed(own), own # <<>>, Start(p, x, own)
  PROVE  TodoInv'
<1> DEFINE s == Restore(p) \o own
<1>1. Restore(p) \in Seq(Steps)
  <2>1. <<>> \in Seq(Steps)
    OBVIOUS
  <2>2. Login(p, "verify saved") \in Seq(Steps)
    BY LoginType DEF Verifies
  <2> QED
    BY <2>1, <2>2 DEF Restore
<1>2. WellFormed(s) /\ s # <<>>
  BY <1>1, ConcatWellFormed
<1>3. todo' = [todo EXCEPT ![p] = s] /\ arg' = [arg EXCEPT ![p] = x]
      /\ waiting' = waiting /\ todo[p] = <<>>
  BY DEF Start, Idle, lockVars
<1>4. s \in Seq(Steps)
  BY <1>2 DEF WellFormed
<1> HIDE DEF s
<1> QED
  BY <1>2, <1>3, <1>4 DEF TodoInv, AtOneOf

LEMMA TodoReset ==
  ASSUME TodoInv, NEW p \in Procs, todo' = [todo EXCEPT ![p] = <<>>],
         arg' = [arg EXCEPT ![p] = NoPin], waiting' \subseteq waiting, p \notin waiting'
  PROVE  TodoInv'
<1>1. <<>> \in Seq(Steps) /\ WellFormed(<<>>)
  BY DEF WellFormed
<1> QED
  BY <1>1 DEF TodoInv, AtOneOf

LEMMA TodoSame ==
  ASSUME TodoInv, UNCHANGED <<todo, arg>>, waiting' \subseteq waiting
  PROVE  TodoInv'
BY DEF TodoInv, AtOneOf

LEMMA TodoNext ==
  ASSUME TodoInv, LockTypeOK, Next
  PROVE  TodoInv'
<1>1. CASE CardReset
  BY <1>1, TodoSame DEF CardReset, LoseCard
<1>2. ASSUME NEW p \in Procs, Call(p)
      PROVE  TodoInv'
  <2>1. ASSUME NEW x \in Pins, C_Login(p, x)
        PROVE  TodoInv'
    <3>1. Login(p, "verify given") \in Seq(Steps)
      BY LoginType DEF Verifies
    <3>2. WellFormed(<<"login">>) /\ <<"login">> # <<>>
      BY LastWellFormed DEF Returns
    <3>3. LET s == Login(p, "verify given") \o <<"login">> IN WellFormed(s) /\ s # <<>>
      BY <3>1, <3>2, ConcatWellFormed
    <3> QED
      BY <2>1, <3>3, TodoStart DEF C_Login
  <2>2. ASSUME NEW x \in Pins, C_LoginContextSpecific(p, x)
        PROVE  TodoInv'
    <3>1. Verify("verify given") \in Seq(Steps)
      BY VerifyType DEF Verifies
    <3>2. WellFormed(<<"return">>) /\ <<"return">> # <<>>
      BY LastWellFormed DEF Returns
    <3>3. LET s == Verify("verify given") \o <<"return">> IN WellFormed(s) /\ s # <<>>
      BY <3>1, <3>2, ConcatWellFormed
    <3> QED
      BY <2>2, <3>3, TodoStart DEF C_LoginContextSpecific
  <2>3. ASSUME NEW x \in Pins, C_SetPIN(p, x)
        PROVE  TodoInv'
    <3>1. LET s == <<"lock", "change", "unlock", "return">> IN WellFormed(s) /\ s # <<>>
      BY DEF WellFormed, Last, Steps, Locks, Commands, Returns
    <3> QED
      BY <2>3, <3>1, TodoStart DEF C_SetPIN
  <2>4. CASE C_Sign(p)
    <3>1. LET s == <<"lock", "env", "sign", "unlock", "return">>
          IN  WellFormed(s) /\ s # <<>>
      BY DEF WellFormed, Last, Steps, Locks, Commands, Returns
    <3> QED
      BY <2>4, <3>1, TodoStart DEF C_Sign
  <2>5. CASE C_Logout(p)
    BY <2>5, TodoSame DEF C_Logout, lockVars
  <2> QED
    BY <1>2, <2>1, <2>2, <2>3, <2>4, <2>5 DEF Call
<1>3. ASSUME NEW p \in Procs, End(p)
      PROVE  TodoInv'
  BY <1>3, TodoReset DEF End, Disconnect, LockTypeOK
<1>4. ASSUME NEW p \in Procs, Step(p)
      PROVE  TodoInv'
  <2> USE DEF TodoInv
  <2>1. CASE StepLockFirst(p)
    BY <2>1 DEF StepLockFirst, LockFirst, AtOneOf
  <2>2. CASE StepLockAgain(p)
    BY <2>2, TodoAdvance
       DEF StepLockAgain, LockAgain, LockDone, AtOneOf, Locks, Returns
  <2>3. CASE StepLockRetry(p)
    BY <2>3, TodoSame DEF StepLockRetry, LockRetry
  <2>4. CASE StepLockFails(p)
    BY <2>4, TodoFail DEF StepLockFails, LockFails, AtOneOf
  <2>5. CASE StepUnlock(p)
    BY <2>5, TodoAdvance DEF StepUnlock, Unlock, At, Returns
  <2>6. CASE CommandLost(p)
    BY <2>6, TodoFail
       DEF CommandLost, TransmitLost, CommandFails, AtOneOf, Commands, Verifies, Locks
  <2>7. CASE CommandRefused(p)
    BY <2>7, TodoFail
       DEF CommandRefused, CommandFails, lockVars, AtOneOf, Commands, Verifies, Locks
  <2>8. CASE VerifyAccepted(p)
    BY <2>8, TodoAdvance DEF VerifyAccepted, lockVars, AtOneOf, Verifies, Locks, Returns
  <2>9. CASE PinRefused(p)
    BY <2>9, TodoFail DEF PinRefused, CommandFails, lockVars, AtOneOf, Verifies, Locks
  <2>10. ASSUME NEW x \in Pins, ChangePin(p, x)
         PROVE  TodoInv'
    BY <2>10, TodoAdvance DEF ChangePin, lockVars, At, AtOneOf, Locks, Returns
  <2>11. CASE SetSecurityEnv(p)
    BY <2>11, TodoAdvance DEF SetSecurityEnv, lockVars, At, AtOneOf, Locks, Returns
  <2>12. CASE ComputeSignature(p)
    BY <2>12, TodoAdvance DEF ComputeSignature, Signs, lockVars, AtOneOf, Locks, Returns
  <2>13. CASE Revalidate(p)
    <3> DEFINE s == Verify("verify cache") \o <<"env", "sign again">> \o Tail(todo[p])
    <3>1. todo[p] # <<>> /\ Head(todo[p]) = "sign"
      BY <2>13 DEF Revalidate, At
    <3>2. WellFormed(Tail(todo[p])) /\ Tail(todo[p]) # <<>>
      BY <3>1, TailWellFormed DEF Returns
    <3>3. Verify("verify cache") \o <<"env", "sign again">> \in Seq(Steps)
      <4>1. Verify("verify cache") \in Seq(Steps)
        BY VerifyType DEF Verifies
      <4> QED
        BY <4>1, AgainType, ConcatProperties
    <3>4. WellFormed(s) /\ s # <<>>
      BY <3>2, <3>3, ConcatWellFormed
    <3>5. s \in Seq(Steps)
      BY <3>4 DEF WellFormed
    <3>6. todo' = [todo EXCEPT ![p] = s] /\ UNCHANGED <<arg, waiting>>
      BY <2>13 DEF Revalidate, lockVars
    <3>7. p \notin waiting
      BY <3>1 DEF AtOneOf, Locks
    <3> HIDE DEF s
    <3> QED
      BY <3>4, <3>5, <3>6, <3>7 DEF AtOneOf
  <2>14. CASE NotRevalidated(p)
    BY <2>14, TodoFail DEF NotRevalidated, Unsatisfied, Signs, lockVars, AtOneOf, Locks
  <2>15. CASE Return(p)
    BY <2>15, TodoReset DEF Return, lockVars, AtOneOf, Locks, Returns
  <2> QED
    BY <1>4, <2>1, <2>2, <2>3, <2>4, <2>5, <2>6, <2>7, <2>8, <2>9, <2>10, <2>11,
       <2>12, <2>13, <2>14, <2>15 DEF Step
<1>5. ASSUME NEW p \in Procs, StepLockGranted(p)
      PROVE  TodoInv'
  BY <1>5, TodoAdvance
     DEF StepLockGranted, LockGranted, LockDone, TodoInv, AtOneOf, Locks, Returns
<1> QED
  BY <1>1, <1>2, <1>3, <1>4, <1>5 DEF Next

-----------------------------------------------------------------------------
(* PINs                                                                    *)

PinInv ==
  /\ saved \in [Procs -> Pins \cup {NoPin}]
  /\ cache \in [Procs -> Pins \cup {NoPin}]
  /\ given \in [Procs -> BOOLEAN]
  /\ pin \in Pins
  /\ OnlyGivenPins
  /\ \A p \in Procs : ~given[p] => arg[p] = NoPin

(* With `atomic' nothing is cached between calls.                          *)
AtomicInv ==
  /\ conf \in [Procs -> Confs]
  /\ \A p \in Procs : conf[p].atomic /\ todo[p] = <<>> => cache[p] = NoPin

LEMMA AdvanceStaysBusy ==
  ASSUME TodoInv, NEW p \in Procs, todo[p] # <<>>, Head(todo[p]) \notin Returns,
         Advance(p)
  PROVE  todo'[p] # <<>> /\ \A q \in Procs \ {p} : todo'[q] = todo[q]
<1>1. Tail(todo[p]) # <<>>
  BY TailWellFormed DEF TodoInv
<1> QED
  BY <1>1 DEF Advance, TodoInv

LEMMA FailStaysBusy ==
  ASSUME TodoInv, NEW p \in Procs, todo[p] # <<>>, NEW result, Fail(p, result)
  PROVE  todo'[p] # <<>> /\ \A q \in Procs \ {p} : todo'[q] = todo[q]
<1> DEFINE s == [i \in 1 .. Depth(p) |-> "unlock"] \o <<Last(todo[p])>>
<1>1. s # <<>>
  BY UnwoundWellFormed DEF TodoInv
<1>2. todo' = [todo EXCEPT ![p] = s]
  BY DEF Fail
<1> HIDE DEF s
<1> QED
  BY <1>1, <1>2 DEF TodoInv

LEMMA AtomicNext ==
  ASSUME AtomicInv, TodoInv, PinInv, Next
  PROVE  AtomicInv'
<1> USE DEF AtomicInv
<1> todo \in [Procs -> Seq(Steps)] /\ cache \in [Procs -> Pins \cup {NoPin}]
  BY DEF TodoInv, PinInv
<1>1. CASE CardReset
  BY <1>1 DEF CardReset, loginVars, pinVars
<1>2. ASSUME NEW p \in Procs, Call(p)
      PROVE  AtomicInv'
  <2>1. ASSUME NEW x, NEW own, Start(p, x, own)
        PROVE  AtomicInv'
    BY <2>1 DEF Start, Idle, pinVars
  <2>2. CASE C_Logout(p)
    BY <2>2 DEF C_Logout
  <2> QED
    BY <1>2, <2>1, <2>2 DEF Call, C_Login, C_LoginContextSpecific, C_SetPIN, C_Sign
<1>3. ASSUME NEW p \in Procs, End(p)
      PROVE  AtomicInv'
  BY <1>3 DEF End
<1>4. ASSUME NEW p \in Procs, todo'[p] # <<>>,
             \A q \in Procs \ {p} : todo'[q] = todo[q] /\ cache'[q] = cache[q],
             UNCHANGED conf
      PROVE  AtomicInv'
  BY <1>4
<1>5. ASSUME NEW p \in Procs, Step(p)
      PROVE  AtomicInv'
  <2> \A q \in Procs \cap waiting : AtOneOf(q, Locks)
    BY DEF TodoInv
  <2>1. CASE StepLockFirst(p) \/ StepLockRetry(p)
    BY <2>1 DEF StepLockFirst, StepLockRetry, loginVars, pinVars
  <2>2. CASE StepLockAgain(p)
    BY <2>2, <1>4, AdvanceStaysBusy
       DEF StepLockAgain, LockDone, AtOneOf, Locks, Returns, loginVars, pinVars
  <2>3. CASE StepLockFails(p)
    BY <2>3, <1>4, FailStaysBusy DEF StepLockFails, LockFails, AtOneOf, loginVars, pinVars
  <2>4. CASE StepUnlock(p)
    BY <2>4, <1>4, AdvanceStaysBusy DEF StepUnlock, At, Returns, loginVars, pinVars
  <2>5. CASE CommandLost(p) \/ CommandRefused(p) \/ PinRefused(p)
    <3>1. \E result : CommandFails(p, result)
      BY <2>5 DEF CommandLost, CommandRefused, PinRefused
    <3>2. todo[p] # <<>>
      BY <2>5 DEF CommandLost, CommandRefused, PinRefused, AtOneOf
    <3> QED
      BY <3>1, <3>2, <1>4, FailStaysBusy DEF CommandFails, loginVars
  <2>6. CASE VerifyAccepted(p)
    BY <2>6, <1>4, AdvanceStaysBusy
       DEF VerifyAccepted, PincacheAdd, AtOneOf, Verifies, Returns, loginVars
  <2>7. ASSUME NEW x \in Pins, ChangePin(p, x)
        PROVE  AtomicInv'
    BY <2>7, <1>4, AdvanceStaysBusy DEF ChangePin, PincacheAdd, At, Returns, loginVars
  <2>8. CASE SetSecurityEnv(p)
    BY <2>8, <1>4, AdvanceStaysBusy DEF SetSecurityEnv, At, Returns, loginVars, pinVars
  <2>9. CASE ComputeSignature(p)
    BY <2>9, <1>4, AdvanceStaysBusy
       DEF ComputeSignature, Signs, AtOneOf, Returns, loginVars, pinVars
  <2>10. CASE Revalidate(p)
    <3>1. todo[p] # <<>> /\ Head(todo[p]) = "sign"
      BY <2>10 DEF Revalidate, At
    <3>2. UNCHANGED <<conf, cache>> /\ \A q \in Procs \ {p} : todo'[q] = todo[q]
      BY <2>10 DEF Revalidate, loginVars
    <3>3. todo'[p] # <<>>
      <4> DEFINE s == Verify("verify cache") \o <<"env", "sign again">>
      <4>1. WellFormed(Tail(todo[p])) /\ Tail(todo[p]) # <<>>
        BY <3>1, TailWellFormed DEF Returns, TodoInv
      <4>2. s \in Seq(Steps)
        <5>1. Verify("verify cache") \in Seq(Steps)
          BY VerifyType DEF Verifies
        <5> QED
          BY <5>1, AgainType, ConcatProperties
      <4>3. todo'[p] = s \o Tail(todo[p])
        BY <2>10 DEF Revalidate
      <4> HIDE DEF s
      <4> QED
        BY <4>1, <4>2, <4>3, ConcatWellFormed
    <3> QED
      BY <3>2, <3>3, <1>4
  <2>11. CASE NotRevalidated(p)
    BY <2>11, <1>4, FailStaysBusy
       DEF NotRevalidated, Unsatisfied, AtOneOf, loginVars
  <2>12. CASE Return(p)
    BY <2>12 DEF Return
  <2> QED
    BY <1>5, <2>1, <2>2, <2>3, <2>4, <2>5, <2>6, <2>7, <2>8, <2>9, <2>10, <2>11,
       <2>12 DEF Step
<1>6. ASSUME NEW p \in Procs, StepLockGranted(p)
      PROVE  AtomicInv'
  <2>1. todo[p] # <<>> /\ Head(todo[p]) \notin Returns
    BY <1>6 DEF StepLockGranted, LockGranted, TodoInv, AtOneOf, Locks, Returns
  <2> QED
    BY <1>6, <2>1, <1>4, AdvanceStaysBusy DEF StepLockGranted, LockDone, loginVars, pinVars
<1> QED
  BY <1>1, <1>2, <1>3, <1>5, <1>6 DEF Next

(* What the card accepts was a PIN, so the application had given one.      *)
LEMMA AcceptedWasGiven ==
  ASSUME PinInv, NEW p \in Procs, Presented(p) = pin
  PROVE  given[p]
BY TokenAssumption DEF PinInv, OnlyGivenPins, Presented

LEMMA PinNext ==
  ASSUME PinInv, TodoInv, AtomicInv, Next
  PROVE  PinInv'
<1> USE TokenAssumption DEF PinInv, OnlyGivenPins
<1> arg \in [Procs -> Pins \cup {NoPin}]
  BY DEF TodoInv
<1>1. CASE CardReset
  BY <1>1 DEF CardReset, loginVars, pinVars
<1>2. ASSUME NEW p \in Procs, Call(p)
      PROVE  PinInv'
  <2>1. ASSUME NEW x \in Pins \cup {NoPin}, NEW own, Start(p, x, own)
        PROVE  PinInv'
    <3>1. /\ given' = [given EXCEPT ![p] = given[p] \/ x # NoPin]
          /\ arg' = [arg EXCEPT ![p] = x]
          /\ UNCHANGED <<saved, cache, pin>>
      BY <2>1 DEF Start, cardVars, pinVars
    <3>2. /\ given' \in [Procs -> BOOLEAN]
          /\ given'[p] = (given[p] \/ x # NoPin)
          /\ \A q \in Procs \ {p} : given'[q] = given[q]
      BY <3>1
    <3> QED
      BY <3>1, <3>2
  <2>2. CASE C_Logout(p)
    <3>1. arg[p] = NoPin
      BY <2>2 DEF C_Logout, Idle, TodoInv
    <3>2. cache' \in [Procs -> Pins \cup {NoPin}] /\ cache'[p] \in {cache[p], NoPin}
      BY <2>2 DEF C_Logout
    <3>3. /\ \A q \in Procs \ {p} : cache'[q] = cache[q] /\ given'[q] = given[q]
          /\ cache'[p] = NoPin
      BY <2>2 DEF C_Logout, AtomicInv, Idle
    <3> QED
      BY <2>2, <3>1, <3>2, <3>3 DEF C_Logout, cardVars
  <2> QED
    BY <1>2, <2>1, <2>2 DEF Call, C_Login, C_LoginContextSpecific, C_SetPIN, C_Sign
<1>3. ASSUME NEW p \in Procs, End(p)
      PROVE  PinInv'
  BY <1>3 DEF End, cardVars
<1>4. ASSUME NEW p \in Procs, Step(p)
      PROVE  PinInv'
  <2>1. CASE StepLockFirst(p) \/ StepLockAgain(p) \/ StepLockRetry(p) \/ StepLockFails(p)
    BY <2>1 DEF StepLockFirst, StepLockAgain, StepLockRetry, StepLockFails, LockDone,
                cardVars, loginVars, pinVars
  <2>2. CASE StepUnlock(p) \/ SetSecurityEnv(p) \/ ComputeSignature(p) \/ Revalidate(p)
    BY <2>2 DEF StepUnlock, SetSecurityEnv, ComputeSignature, Revalidate,
                cardVars, loginVars, pinVars
  <2>3. CASE CommandLost(p) \/ CommandRefused(p) \/ PinRefused(p)
    BY <2>3 DEF CommandLost, CommandRefused, PinRefused, CommandFails, cardVars, loginVars
  <2>4. CASE NotRevalidated(p)
    BY <2>4 DEF NotRevalidated, cardVars, loginVars
  <2>5. CASE VerifyAccepted(p)
    <3>1. given[p]
      BY <2>5, AcceptedWasGiven DEF VerifyAccepted
    <3> QED
      BY <2>5, <3>1 DEF VerifyAccepted, PincacheAdd, loginVars
  <2>6. ASSUME NEW x \in Pins, ChangePin(p, x)
        PROVE  PinInv'
    BY <2>6 DEF ChangePin, PincacheAdd, loginVars
  <2>7. CASE Return(p)
    <3>1. saved' \in [Procs -> Pins \cup {NoPin}] /\ saved'[p] \in {saved[p], arg[p], NoPin}
      BY <2>7 DEF Return
    <3>2. cache' \in [Procs -> Pins \cup {NoPin}] /\ cache'[p] \in {cache[p], NoPin}
      BY <2>7 DEF Return
    <3> QED
      BY <2>7, <3>1, <3>2 DEF Return, cardVars
  <2> QED
    BY <1>4, <2>1, <2>2, <2>3, <2>4, <2>5, <2>6, <2>7 DEF Step
<1>5. ASSUME NEW p \in Procs, StepLockGranted(p)
      PROVE  PinInv'
  BY <1>5 DEF StepLockGranted, LockDone, cardVars, loginVars, pinVars
<1> QED
  BY <1>1, <1>2, <1>3, <1>4, <1>5 DEF Next

-----------------------------------------------------------------------------
(* Counting the steps that are left, from a position on.                   *)

From(s, n, x) == {i \in n .. Len(s) : s[i] = x}
CountFrom(s, n, x) == Cardinality(From(s, n, x))

LEMMA CountFromType ==
  ASSUME NEW s \in Seq(Steps), NEW n \in Int, NEW x
  PROVE  IsFiniteSet(From(s, n, x)) /\ CountFrom(s, n, x) \in Nat
<1>1. IsFiniteSet(n .. Len(s))
  BY FS_Interval
<1>2. From(s, n, x) \subseteq n .. Len(s)
  BY DEF From
<1> QED
  BY <1>1, <1>2, FS_Subset, FS_CardinalityType DEF CountFrom

LEMMA CountIsFromFirst ==
  ASSUME NEW s \in Seq(Steps), NEW x
  PROVE  Count(s, x) = CountFrom(s, 1, x)
<1>1. DOMAIN s = 1 .. Len(s)
  OBVIOUS
<1> QED
  BY <1>1 DEF Count, CountFrom, From

LEMMA CountFromNext ==
  ASSUME NEW s \in Seq(Steps), NEW n \in 1 .. Len(s), NEW x
  PROVE  CountFrom(s, n, x) = CountFrom(s, n + 1, x) + (IF s[n] = x THEN 1 ELSE 0)
<1>1. IsFiniteSet(From(s, n + 1, x)) /\ CountFrom(s, n + 1, x) \in Nat
  BY CountFromType
<1>2. CASE s[n] = x
  <2>1. From(s, n, x) = From(s, n + 1, x) \cup {n} /\ n \notin From(s, n + 1, x)
    BY <1>2 DEF From
  <2> QED
    BY <1>1, <1>2, <2>1, FS_AddElement DEF CountFrom
<1>3. CASE s[n] # x
  <2>1. From(s, n, x) = From(s, n + 1, x)
    BY <1>3 DEF From
  <2> QED
    BY <1>1, <1>3, <2>1 DEF CountFrom
<1> QED
  BY <1>2, <1>3

(* Counting in what is left after the first step.                          *)
LEMMA CountFromTail ==
  ASSUME NEW s \in Seq(Steps), NEW t \in Seq(Steps), NEW n \in 1 .. Len(s), NEW x,
         Len(t) = Len(s) - 1, \A i \in 1 .. Len(s) - 1 : t[i] = s[i + 1]
  PROVE  CountFrom(t, n, x) = CountFrom(s, n + 1, x)
<1> DEFINE A == From(s, n + 1, x)
           B == From(t, n, x)
           f == [i \in A |-> i - 1]
<1>1. f \in Bijection(A, B)
  <2>1. \A i \in A : i \in Int /\ i - 1 \in B
    BY DEF From
  <2>2. \A i \in B : i \in Int /\ i + 1 \in A
    BY DEF From
  <2> HIDE DEF A, B
  <2>3. f \in Injection(A, B)
    BY <2>1 DEF Injection, IsInjective
  <2>4. f \in Surjection(A, B)
    <3>1. \A i \in B : f[i + 1] = i
      BY <2>2
    <3> QED
      BY <2>1, <2>2, <3>1 DEF Surjection
  <2> QED
    BY <2>3, <2>4 DEF Bijection
<1>2. IsFiniteSet(A)
  BY CountFromType
<1>3. Cardinality(B) = Cardinality(A)
  BY <1>1, <1>2, FS_Bijection DEF ExistsBijection
<1> QED
  BY <1>3 DEF CountFrom

-----------------------------------------------------------------------------
(* The shape of what is left to do: it returns at its end and only there,  *)
(* every lock is undone by an unlock after it, commands are sent between   *)
(* the two, and a signature follows its security environment.              *)

Weight(e) == IF e = "unlock" THEN 1 ELSE IF e = "lock" THEN -1 ELSE 0

(* Unlocks from position n on whose lock is before n.                      *)
Open(s, n) == CountFrom(s, n, "unlock") - CountFrom(s, n, "lock")

Needed(e) == IF e \in Commands THEN 1 ELSE 0

Shaped(s) ==
  /\ s \in Seq(Steps)
  /\ \A n \in 1 .. Len(s) : s[n] \in Returns <=> n = Len(s)
  /\ \A n \in 1 .. Len(s) : Open(s, n) >= Needed(s[n])
  /\ \A n \in 2 .. Len(s) : s[n] \in Signs => s[n - 1] = "env"

(* What a lemma says of s, whose rest after its first step is t.           *)
Precedes(s, t) ==
  /\ Open(s, 1) = Open(t, 1) + Weight(Head(s))
  /\ Count(s, "lock_card") = Count(t, "lock_card")
                               + (IF Head(s) = "lock_card" THEN 1 ELSE 0)
  /\ Last(s) = Last(t)

LEMMA OpenType ==
  ASSUME NEW s \in Seq(Steps), NEW n \in Int
  PROVE  Open(s, n) \in Int
<1>1. CountFrom(s, n, "unlock") \in Nat /\ CountFrom(s, n, "lock") \in Nat
  BY CountFromType
<1> QED
  BY <1>1 DEF Open

LEMMA OpenNext ==
  ASSUME NEW s \in Seq(Steps), NEW n \in 1 .. Len(s)
  PROVE  Open(s, n) = Open(s, n + 1) + Weight(s[n])
<1>1. \A x : CountFrom(s, n + 1, x) \in Nat
  BY CountFromType
<1>2. \A x : CountFrom(s, n, x) = CountFrom(s, n + 1, x) + (IF s[n] = x THEN 1 ELSE 0)
  BY CountFromNext
<1>3. /\ CountFrom(s, n + 1, "lock") \in Nat /\ CountFrom(s, n + 1, "unlock") \in Nat
      /\ CountFrom(s, n, "lock") = CountFrom(s, n + 1, "lock")
                                     + (IF s[n] = "lock" THEN 1 ELSE 0)
      /\ CountFrom(s, n, "unlock") = CountFrom(s, n + 1, "unlock")
                                       + (IF s[n] = "unlock" THEN 1 ELSE 0)
  BY <1>1, <1>2, Zenon
<1> QED
  BY <1>3 DEF Open, Weight

LEMMA OpenEnd ==
  ASSUME NEW s \in Seq(Steps)
  PROVE  Open(s, Len(s) + 1) = 0
<1>1. From(s, Len(s) + 1, "lock") = {} /\ From(s, Len(s) + 1, "unlock") = {}
  BY DEF From
<1>2. /\ CountFrom(s, Len(s) + 1, "lock") = 0
      /\ CountFrom(s, Len(s) + 1, "unlock") = 0
  BY <1>1, FS_EmptySet, Zenon DEF CountFrom
<1> QED
  BY <1>2 DEF Open

(* Two sequences of which one is the rest of the other.                    *)
LEMMA RestCounts ==
  ASSUME NEW s \in Seq(Steps), NEW t \in Seq(Steps), s # <<>>, t # <<>>,
         Len(t) = Len(s) - 1, \A i \in 1 .. Len(s) - 1 : t[i] = s[i + 1]
  PROVE  Precedes(s, t) /\ \A n \in 1 .. Len(s) : Open(t, n) = Open(s, n + 1)
<1>1. \A n \in 1 .. Len(s) : \A x : CountFrom(t, n, x) = CountFrom(s, n + 1, x)
  BY CountFromTail
<1>2. \A n \in 1 .. Len(s) : Open(t, n) = Open(s, n + 1)
  BY <1>1 DEF Open
<1>3. Len(s) \in Nat /\ Len(s) > 1 /\ 1 \in 1 .. Len(s) /\ Head(s) = s[1]
  OBVIOUS
<1>4. Open(s, 1) = Open(t, 1) + Weight(Head(s))
  BY <1>2, <1>3, OpenNext
<1>5. Count(s, "lock_card") = Count(t, "lock_card")
                                + (IF Head(s) = "lock_card" THEN 1 ELSE 0)
  BY <1>1, <1>3, CountIsFromFirst, CountFromNext
<1>6. Last(s) = Last(t)
  BY <1>3 DEF Last
<1> QED
  BY <1>2, <1>4, <1>5, <1>6 DEF Precedes

LEMMA ShapedTail ==
  ASSUME NEW s, Shaped(s), s # <<>>, Head(s) \notin Returns
  PROVE  /\ Shaped(Tail(s)) /\ Tail(s) # <<>>
         /\ Precedes(s, Tail(s))
         /\ Head(Tail(s)) \in Signs => Head(s) = "env"
<1> DEFINE t == Tail(s)
<1>1. s \in Seq(Steps) /\ Len(s) \in Nat /\ Len(s) > 0 /\ Head(s) = s[1]
  BY DEF Shaped
<1>2. Len(s) # 1
  BY <1>1 DEF Shaped
<1>3. t \in Seq(Steps) /\ Len(t) = Len(s) - 1 /\ \A i \in 1 .. Len(s) - 1 : t[i] = s[i + 1]
  BY <1>1, HeadTailProperties
<1> HIDE DEF t
<1>4. t # <<>> /\ Head(t) = t[1] /\ t[1] = s[2]
  BY <1>1, <1>2, <1>3
<1>5. Precedes(s, t) /\ \A n \in 1 .. Len(s) : Open(t, n) = Open(s, n + 1)
  BY <1>1, <1>3, <1>4, RestCounts
<1>6. Shaped(t)
  <2>1. \A n \in 1 .. Len(t) : n + 1 \in 1 .. Len(s) /\ t[n] = s[n + 1]
    BY <1>1, <1>3
  <2>2. \A n \in 1 .. Len(t) : t[n] \in Returns <=> n = Len(t)
    BY <1>1, <1>3, <2>1 DEF Shaped
  <2>3. \A n \in 1 .. Len(t) : Open(t, n) >= Needed(t[n])
    <3>1. \A n \in 1 .. Len(t) : Open(t, n) = Open(s, n + 1)
      BY <1>1, <1>3, <1>5
    <3> QED
      BY <2>1, <3>1 DEF Shaped
  <2>4. \A n \in 2 .. Len(t) : t[n] \in Signs => t[n - 1] = "env"
    <3>1. \A n \in 2 .. Len(t) : /\ n + 1 \in 2 .. Len(s)
                                 /\ t[n] = s[n + 1] /\ t[n - 1] = s[n + 1 - 1]
      BY <1>1, <1>3
    <3> QED
      BY <3>1 DEF Shaped
  <2> QED
    BY <1>3, <2>2, <2>3, <2>4 DEF Shaped
<1>7. t[1] \in Signs => s[1] = "env"
  BY <1>1, <1>2, <1>4 DEF Shaped
<1> QED
  BY <1>1, <1>4, <1>5, <1>6, <1>7 DEF t

IsRest(s, t) ==
  s \in Seq(Steps) /\ Len(s) = Len(t) + 1 /\ \A i \in 1 .. Len(t) : s[i + 1] = t[i]

LEMMA ShapedRest ==
  ASSUME NEW s, NEW t, IsRest(s, t), Shaped(t), t # <<>>, NEW e \in Steps \ Returns,
         s[1] = e, Open(t, 1) + Weight(e) >= Needed(e), Head(t) \in Signs => e = "env"
  PROVE  Shaped(s) /\ s # <<>> /\ Head(s) = e /\ Precedes(s, t)
<1> s \in Seq(Steps) /\ Len(s) = Len(t) + 1 /\ \A i \in 1 .. Len(t) : s[i + 1] = t[i]
  BY DEF IsRest
<1>1. t \in Seq(Steps) /\ Len(t) \in Nat /\ Len(t) > 0 /\ Head(t) = t[1]
  BY DEF Shaped
<1>2. \A i \in 1 .. Len(s) - 1 : t[i] = s[i + 1]
  BY <1>1
<1>3. s # <<>> /\ Head(s) = e
  BY <1>1, <1>2
<1>4. Precedes(s, t) /\ \A n \in 1 .. Len(s) : Open(t, n) = Open(s, n + 1)
  BY <1>1, <1>2, <1>3, RestCounts
<1>5. \A n \in 2 .. Len(s) : n - 1 \in 1 .. Len(t) /\ s[n] = t[n - 1] /\ Open(s, n) = Open(t, n - 1)
  <2>1. \A n \in 2 .. Len(s) : /\ n - 1 \in 1 .. Len(s) - 1 /\ n - 1 \in 1 .. Len(s)
                               /\ (n - 1) + 1 = n
    BY <1>1, <1>2
  <2> QED
    BY <1>2, <1>4, <2>1
<1>6. \A n \in 1 .. Len(s) : n = 1 \/ n \in 2 .. Len(s)
  BY <1>1, <1>2
<1>7. \A n \in 1 .. Len(s) : s[n] \in Returns <=> n = Len(s)
  <2>1. \A n \in 2 .. Len(s) : s[n] \in Returns <=> n - 1 = Len(t)
    BY <1>5 DEF Shaped
  <2>2. \A n \in 2 .. Len(s) : n - 1 = Len(t) <=> n = Len(s)
    BY <1>1, <1>2
  <2>3. s[1] \notin Returns /\ 1 # Len(s)
    BY <1>1, <1>2
  <2> QED
    BY <1>6, <2>1, <2>2, <2>3
<1>8. \A n \in 1 .. Len(s) : Open(s, n) >= Needed(s[n])
  BY <1>2, <1>3, <1>4, <1>5, <1>6 DEF Shaped, Precedes
<1>9. \A n \in 2 .. Len(s) : s[n] \in Signs => s[n - 1] = "env"
  <2>1. \A n \in 3 .. Len(s) : /\ n - 1 \in 2 .. Len(s) /\ n - 1 \in 2 .. Len(t)
                               /\ s[n] = t[n - 1] /\ s[n - 1] = t[n - 1 - 1]
    BY <1>1, <1>2, <1>5
  <2>2. \A n \in 3 .. Len(s) : s[n] \in Signs => s[n - 1] = "env"
    BY <2>1 DEF Shaped
  <2>3. s[2] \in Signs => s[1] = "env"
    BY <1>1, <1>2, <1>5
  <2>4. \A n \in 2 .. Len(s) : n = 2 \/ n \in 3 .. Len(s)
    BY <1>1, <1>2
  <2> QED
    BY <2>2, <2>3, <2>4
<1> QED
  BY <1>2, <1>3, <1>4, <1>7, <1>8, <1>9 DEF Shaped

LEMMA ShapedCons ==
  ASSUME NEW t, Shaped(t), t # <<>>, NEW e \in Steps \ Returns,
         Open(t, 1) + Weight(e) >= Needed(e), Head(t) \in Signs => e = "env"
  PROVE  LET s == <<e>> \o t
         IN  Shaped(s) /\ s # <<>> /\ Head(s) = e /\ Precedes(s, t)
<1> DEFINE s == <<e>> \o t
<1>1. t \in Seq(Steps) /\ Len(t) \in Nat
  BY DEF Shaped
<1>2. IsRest(s, t) /\ s[1] = e
  <2>1. <<e>> \in Seq(Steps) /\ Len(<<e>>) = 1 /\ <<e>>[1] = e
    OBVIOUS
  <2> QED
    BY <1>1, <2>1, ConcatProperties DEF IsRest
<1> HIDE DEF s
<1>3. Shaped(s) /\ s # <<>> /\ Head(s) = e /\ Precedes(s, t)
  BY <1>2, ShapedRest
<1> QED
  BY <1>3 DEF s

LEMMA ShapedReturn ==
  ASSUME NEW x \in Returns
  PROVE  /\ Shaped(<<x>>) /\ <<x>> # <<>> /\ Head(<<x>>) = x /\ Last(<<x>>) = x
         /\ Open(<<x>>, 1) = 0
<1>1. <<x>> \in Seq(Steps) /\ Len(<<x>>) = 1 /\ <<x>>[1] = x
  BY DEF Steps
<1>2. From(<<x>>, 1, "lock") = {} /\ From(<<x>>, 1, "unlock") = {}
  BY <1>1 DEF From, Returns
<1>3. CountFrom(<<x>>, 1, "lock") = 0 /\ CountFrom(<<x>>, 1, "unlock") = 0
  BY <1>2, FS_EmptySet, Zenon DEF CountFrom
<1>4. Open(<<x>>, 1) = 0
  BY <1>3 DEF Open
<1>5. Needed(x) = 0
  BY DEF Needed, Commands, Verifies, Returns
<1> QED
  BY <1>1, <1>4, <1>5 DEF Shaped, Last

(* Unlocking what is locked and returning, after an error.                 *)
LEMMA ShapedUnwound ==
  ASSUME NEW p \in Procs, Shaped(todo[p]), todo[p] # <<>>, WellFormed(todo[p])
  PROVE  LET s == [i \in 1 .. Depth(p) |-> "unlock"] \o <<Last(todo[p])>>
         IN  /\ Shaped(s) /\ s # <<>> /\ Head(s) \notin Signs
             /\ Open(s, 1) = Open(todo[p], 1)
             /\ Count(s, "lock_card") = 0
             /\ Last(s) = Last(todo[p])
<1> DEFINE d == Depth(p)
           r == Last(todo[p])
           u == [i \in 1 .. d |-> "unlock"]
           s == u \o <<r>>
<1>1. todo[p] \in Seq(Steps) /\ 1 \in 1 .. Len(todo[p]) /\ r \in Returns
  BY DEF Shaped, WellFormed
<1>2. d = Open(todo[p], 1) /\ d \in Nat
  <2>1. d = Open(todo[p], 1)
    BY <1>1, CountIsFromFirst DEF Depth, Open
  <2>2. Open(todo[p], 1) \in Int /\ Open(todo[p], 1) >= Needed(todo[p][1])
    BY <1>1, OpenType DEF Shaped
  <2> QED
    BY <2>1, <2>2 DEF Needed
<1> HIDE DEF d, r
<1>3. /\ s \in Seq(Steps) /\ Len(s) = d + 1 /\ s[d + 1] = r
      /\ \A i \in 1 .. d : s[i] = "unlock"
  <2>1. "unlock" \in Steps /\ r \in Steps
    BY <1>1 DEF Steps
  <2>2. u \in Seq(Steps) /\ Len(u) = d /\ \A i \in 1 .. d : u[i] = "unlock"
    BY <1>2, <2>1
  <2>3. <<r>> \in Seq(Steps) /\ Len(<<r>>) = 1 /\ <<r>>[1] = r
    BY <2>1
  <2> HIDE DEF u
  <2> QED
    BY <1>2, <2>2, <2>3, ConcatProperties
<1> HIDE DEF s
<1>4. /\ r # "unlock" /\ r # "lock" /\ r # "lock_card"
      /\ Needed(r) = 0 /\ Needed("unlock") = 0
  BY <1>1 DEF Needed, Commands, Verifies, Returns
<1>5. \A n \in 1 .. d + 1 : Open(s, n) = d - n + 1
  <2> SUFFICES ASSUME NEW n \in 1 .. d + 1
               PROVE  Open(s, n) = d - n + 1
    OBVIOUS
  <2>1. From(s, n, "lock") = {}
    BY <1>2, <1>3, <1>4 DEF From
  <2>2. From(s, n, "unlock") = n .. d
    BY <1>2, <1>3, <1>4 DEF From
  <2>3. CountFrom(s, n, "lock") = 0
    BY <2>1, FS_EmptySet, Zenon DEF CountFrom
  <2>4. Cardinality(n .. d) = d - n + 1
    <3>1. n \in Int /\ d \in Int /\ n \in 1 .. d + 1
      BY <1>2
    <3>2. Cardinality(n .. d) = IF n > d THEN 0 ELSE d - n + 1
      BY <3>1, FS_Interval, Zenon
    <3> QED
      BY <3>1, <3>2
  <2>5. CountFrom(s, n, "unlock") = d - n + 1
    BY <2>2, <2>4 DEF CountFrom
  <2> QED
    BY <1>2, <2>3, <2>5 DEF Open
<1>6. Count(s, "lock_card") = 0
  <2>1. From(s, 1, "lock_card") = {}
    BY <1>2, <1>3, <1>4 DEF From
  <2>2. CountFrom(s, 1, "lock_card") = 0
    BY <2>1, FS_EmptySet, Zenon DEF CountFrom
  <2> QED
    BY <1>3, <2>2, CountIsFromFirst
<1>7. \A n \in 1 .. Len(s) : n = d + 1 \/ n \in 1 .. d
  BY <1>2, <1>3
<1>8. \A n \in 1 .. Len(s) : s[n] \in Returns <=> n = Len(s)
  BY <1>1, <1>2, <1>3, <1>7 DEF Returns
<1>9. \A n \in 1 .. Len(s) : Open(s, n) >= Needed(s[n])
  <2>1. \A n \in 1 .. Len(s) : Needed(s[n]) = 0
    BY <1>3, <1>4, <1>7
  <2>2. \A n \in 1 .. Len(s) : n \in 1 .. d + 1 /\ d - n + 1 >= 0
    BY <1>2, <1>3
  <2> QED
    BY <1>5, <2>1, <2>2
<1>10. \A n \in 1 .. Len(s) : s[n] \notin Signs
  BY <1>1, <1>3, <1>7 DEF Returns, Signs
<1>11. Shaped(s)
  BY <1>3, <1>8, <1>9, <1>10 DEF Shaped
<1>12. s # <<>> /\ Head(s) = s[1] /\ 1 \in 1 .. Len(s) /\ 1 \in 1 .. d + 1
  BY <1>2, <1>3
<1>13. Open(s, 1) = d
  BY <1>2, <1>5, <1>12
<1> QED
  BY <1>2, <1>3, <1>6, <1>10, <1>11, <1>12, <1>13 DEF s, u, d, r, Last

-----------------------------------------------------------------------------
(* The calls have that shape.                                              *)

(* What is put before t keeps its end and locks no more than it unlocks.   *)
Extends(s, t) ==
  /\ Shaped(s) /\ s # <<>> /\ Head(s) \notin Signs
  /\ Open(s, 1) = Open(t, 1)
  /\ Last(s) = Last(t)

LEMMA VerifyShaped ==
  ASSUME NEW t, Shaped(t), t # <<>>, Head(t) \notin Signs, NEW source \in Verifies
  PROVE  LET s == Verify(source) \o t
         IN  Extends(s, t) /\ Count(s, "lock_card") = Count(t, "lock_card")
<1> DEFINE c == <<"unlock">> \o t
           b == <<source>> \o c
           a == <<"lock">> \o b
<1>1. t \in Seq(Steps) /\ Len(t) \in Nat /\ Len(t) > 0 /\ Head(t) = t[1] /\ 1 \in 1 .. Len(t)
  BY DEF Shaped
<1>2. Open(t, 1) \in Int /\ Open(t, 1) >= 0
  <2>1. Open(t, 1) \in Int /\ Open(t, 1) >= Needed(t[1])
    BY <1>1, OpenType DEF Shaped
  <2> QED
    BY <2>1 DEF Needed
<1>3. Shaped(c) /\ c # <<>> /\ Head(c) = "unlock" /\ Precedes(c, t)
  <2>1. Weight("unlock") = 1 /\ Needed("unlock") = 0
    BY DEF Weight, Needed, Commands, Verifies
  <2>2. "unlock" \in Steps \ Returns
    BY DEF Steps, Returns
  <2> QED
    BY <1>2, <2>1, <2>2, ShapedCons
<1>4. Open(c, 1) = Open(t, 1) + 1
  BY <1>3 DEF Precedes, Weight
<1> HIDE DEF c
<1>5. Shaped(b) /\ b # <<>> /\ Head(b) = source /\ Precedes(b, c)
  <2>1. Weight(source) = 0 /\ Needed(source) = 1
    BY DEF Weight, Needed, Commands, Verifies
  <2>2. source \in Steps \ Returns
    BY DEF Steps, Returns, Commands, Verifies
  <2>3. Head(c) \notin Signs
    BY <1>3 DEF Signs
  <2> QED
    BY <1>2, <1>3, <1>4, <2>1, <2>2, <2>3, ShapedCons
<1> HIDE DEF b
<1>6. Open(b, 1) = Open(t, 1) + 1 /\ source \notin Signs \cup {"lock_card"}
  <2>1. Weight(source) = 0 /\ source \notin Signs \cup {"lock_card"}
    BY DEF Weight, Verifies, Signs
  <2> QED
    BY <1>2, <1>4, <1>5, <2>1 DEF Precedes
<1>7. Shaped(a) /\ a # <<>> /\ Head(a) = "lock" /\ Precedes(a, b)
  <2>1. Weight("lock") = -1 /\ Needed("lock") = 0
    BY DEF Weight, Needed, Commands, Verifies
  <2>2. "lock" \in Steps \ Returns
    BY DEF Steps, Returns, Locks
  <2> QED
    BY <1>2, <1>5, <1>6, <2>1, <2>2, ShapedCons
<1>8. Open(a, 1) = Open(t, 1)
  BY <1>2, <1>6, <1>7 DEF Precedes, Weight
<1>9. Count(a, "lock_card") = Count(t, "lock_card")
  <2>1. Count(t, "lock_card") \in Nat
    BY <1>1, CountType
  <2> QED
    BY <2>1, <1>3, <1>5, <1>6, <1>7 DEF Precedes
<1>10. Last(a) = Last(t)
  BY <1>3, <1>5, <1>7 DEF Precedes
<1> HIDE DEF a
<1>11. Verify(source) \o t = a
  <2>1. Verify(source) = <<"lock">> \o (<<source>> \o <<"unlock">>)
    BY DEF Verify
  <2>2. <<"lock">> \in Seq(Steps) /\ <<source>> \in Seq(Steps) /\ <<"unlock">> \in Seq(Steps)
    <3>1. "lock" \in Steps /\ source \in Steps /\ "unlock" \in Steps
      BY DEF Steps, Locks, Commands
    <3> QED
      BY <3>1
  <2>3. <<source>> \o <<"unlock">> \in Seq(Steps)
    BY <2>2, ConcatProperties
  <2> QED
    BY <1>1, <2>1, <2>2, <2>3, ConcatAssociative DEF a, b, c
<1> QED
  BY <1>7, <1>8, <1>9, <1>10, <1>11 DEF Extends, Signs

LEMMA StepKinds ==
  /\ \A e \in Commands : e \in Steps \ Returns /\ Weight(e) = 0 /\ Needed(e) = 1
  /\ "unlock" \in Steps \ Returns /\ Weight("unlock") = 1 /\ Needed("unlock") = 0
  /\ "lock" \in Steps \ Returns /\ Weight("lock") = -1 /\ Needed("lock") = 0
  /\ "lock_card" \in Steps \ Returns /\ Weight("lock_card") = 0 /\ Needed("lock_card") = 0
<1>1. \A e \in Commands : e \in Steps \ Returns /\ Weight(e) = 0
  BY DEF Weight, Commands, Verifies, Steps, Returns
<1>2. \A e \in Commands : Needed(e) = 1
  BY DEF Needed
<1>3. \A e \in {"unlock", "lock", "lock_card"} : e \in Steps \ Returns /\ e \notin Commands
  BY DEF Commands, Verifies, Steps, Returns, Locks
<1> QED
  BY <1>1, <1>2, <1>3 DEF Needed, Weight

LEMMA LoginShaped ==
  ASSUME NEW p, NEW t, Shaped(t), t # <<>>, Head(t) \notin Signs, NEW source \in Verifies
  PROVE  LET s == Login(p, source) \o t
         IN  /\ Extends(s, t)
             /\ Count(s, "lock_card") = Count(t, "lock_card")
                                          + (IF conf[p].lock_login THEN 1 ELSE 0)
<1> DEFINE v == Verify(source)
           w == v \o t
<1>1. t \in Seq(Steps) /\ 1 \in 1 .. Len(t)
  BY DEF Shaped
<1>2. v \in Seq(Steps)
  BY VerifyType
<1>3. Extends(w, t) /\ Count(w, "lock_card") = Count(t, "lock_card")
  BY VerifyShaped
<1>4. Count(t, "lock_card") \in Nat
  BY <1>1, CountType
<1>5. CASE conf[p].lock_login
  <2>1. <<"lock_card">> \in Seq(Steps)
    BY StepKinds
  <2>2. Login(p, source) \o t = <<"lock_card">> \o w
    BY <1>1, <1>2, <1>5, <2>1, ConcatAssociative DEF Login
  <2> HIDE DEF w
  <2>3. Open(w, 1) \in Int /\ Open(w, 1) >= 0
    <3>1. w \in Seq(Steps) /\ 1 \in 1 .. Len(w)
      BY <1>3 DEF Extends, Shaped
    <3>2. Open(w, 1) \in Int /\ Open(w, 1) >= Needed(w[1])
      BY <1>3, <3>1, OpenType DEF Extends, Shaped
    <3> QED
      BY <3>2 DEF Needed
  <2> DEFINE s == <<"lock_card">> \o w
  <2>4. Shaped(s) /\ s # <<>> /\ Head(s) = "lock_card" /\ Precedes(s, w)
    BY <1>3, <2>3, StepKinds, ShapedCons DEF Extends
  <2> HIDE DEF s
  <2>5. Extends(s, t) /\ Count(s, "lock_card") = Count(t, "lock_card") + 1
    <3>1. Head(s) \notin Signs
      BY <2>4 DEF Signs
    <3> QED
      BY <1>3, <1>4, <2>3, <2>4, <3>1, StepKinds DEF Extends, Precedes
  <2> QED
    BY <1>5, <2>2, <2>5 DEF s
<1>6. CASE ~conf[p].lock_login
  <2>1. Login(p, source) = v
    BY <1>2, <1>6, ConcatEmptySeq DEF Login
  <2> QED
    BY <1>3, <1>4, <1>6, <2>1
<1> QED
  BY <1>5, <1>6

(* A call may start with the login that `atomic' restores.                 *)
LEMMA RestoreShaped ==
  ASSUME NEW p, NEW own, Shaped(own), own # <<>>, Head(own) \notin Signs
  PROVE  LET s == Restore(p) \o own
         IN  Extends(s, own) /\ Count(s, "lock_card") >= Count(own, "lock_card")
<1>1. own \in Seq(Steps) /\ Count(own, "lock_card") \in Nat
  BY CountType DEF Shaped
<1>2. "verify saved" \in Verifies
  BY DEF Verifies
<1>3. CASE Restore(p) = Login(p, "verify saved")
  <2> DEFINE s == Login(p, "verify saved") \o own
  <2>1. /\ Extends(s, own)
        /\ Count(s, "lock_card") = Count(own, "lock_card")
                                     + (IF conf[p].lock_login THEN 1 ELSE 0)
    BY <1>2, LoginShaped
  <2> HIDE DEF s
  <2>2. Count(s, "lock_card") >= Count(own, "lock_card")
    BY <1>1, <2>1
  <2> QED
    BY <1>3, <2>1, <2>2 DEF s
<1>4. CASE Restore(p) = <<>>
  <2>1. Restore(p) \o own = own
    BY <1>1, <1>4, ConcatEmptySeq
  <2> QED
    BY <1>1, <2>1 DEF Extends
<1> QED
  BY <1>3, <1>4 DEF Restore

(* A section of one command, and the return.                               *)
LEMMA SectionShaped ==
  ASSUME NEW e \in Commands \ Signs
  PROVE  LET s == <<"lock", e, "unlock", "return">>
         IN  Shaped(s) /\ s # <<>> /\ Head(s) \notin Signs /\ Open(s, 1) = 0 /\ Last(s) = "return"
<1> DEFINE r == <<"return">>
           u == <<"unlock", "return">>
           c == <<e, "unlock", "return">>
           s == <<"lock", e, "unlock", "return">>
<1>1. "lock" \in Steps /\ e \in Steps /\ "unlock" \in Steps /\ "return" \in Steps
  BY StepKinds DEF Steps, Returns
<1>2. /\ IsRest(u, r) /\ IsRest(c, u) /\ IsRest(s, c)
      /\ u[1] = "unlock" /\ c[1] = e /\ s[1] = "lock"
  BY <1>1 DEF IsRest
<1>3. /\ Shaped(r) /\ r # <<>> /\ Head(r) = "return" /\ Last(r) = "return"
      /\ Open(r, 1) = 0
  BY ShapedReturn DEF Returns
<1> HIDE DEF r, u, c, s
<1>4. Shaped(u) /\ u # <<>> /\ Head(u) = "unlock" /\ Precedes(u, r)
  <2>1. Head(r) \notin Signs
    BY <1>3 DEF Signs
  <2> QED
    BY <1>2, <1>3, <2>1, StepKinds, ShapedRest
<1>5. Open(u, 1) = 1 /\ Last(u) = "return" /\ Head(u) \notin Signs
  <2>1. Head(u) \notin Signs
    BY <1>4 DEF Signs
  <2> QED
    BY <1>3, <1>4, <2>1, StepKinds DEF Precedes
<1>6. Shaped(c) /\ c # <<>> /\ Head(c) = e /\ Precedes(c, u)
  BY <1>2, <1>4, <1>5, StepKinds, ShapedRest
<1>7. Open(c, 1) = 1 /\ Last(c) = "return"
  BY <1>5, <1>6, StepKinds DEF Precedes
<1>8. Shaped(s) /\ s # <<>> /\ Head(s) = "lock" /\ Precedes(s, c)
  BY <1>2, <1>6, <1>7, StepKinds, ShapedRest
<1>9. Open(s, 1) = 0 /\ Last(s) = "return" /\ Head(s) \notin Signs
  <2>1. Head(s) \notin Signs
    BY <1>8 DEF Signs
  <2> QED
    BY <1>7, <1>8, <2>1, StepKinds DEF Precedes
<1> QED
  BY <1>8, <1>9 DEF s

LEMMA SignShaped ==
  LET s == <<"lock", "env", "sign", "unlock", "return">>
  IN  Shaped(s) /\ s # <<>> /\ Head(s) \notin Signs /\ Open(s, 1) = 0 /\ Last(s) = "return"
<1> DEFINE r == <<"return">>
           u == <<"unlock", "return">>
           g == <<"sign", "unlock", "return">>
           c == <<"env", "sign", "unlock", "return">>
           s == <<"lock", "env", "sign", "unlock", "return">>
<1>1. /\ "lock" \in Steps /\ "env" \in Steps /\ "sign" \in Steps
      /\ "unlock" \in Steps /\ "return" \in Steps
  BY StepKinds DEF Steps, Returns, Commands
<1>2. /\ IsRest(u, r) /\ IsRest(g, u) /\ IsRest(c, g) /\ IsRest(s, c)
      /\ u[1] = "unlock" /\ g[1] = "sign" /\ c[1] = "env" /\ s[1] = "lock"
  BY <1>1 DEF IsRest
<1>3. /\ Shaped(r) /\ r # <<>> /\ Head(r) = "return" /\ Last(r) = "return"
      /\ Open(r, 1) = 0
  BY ShapedReturn DEF Returns
<1>4. "sign" \in Commands /\ "env" \in Commands
  BY DEF Commands
<1> HIDE DEF r, u, g, c, s
<1>5. Shaped(u) /\ u # <<>> /\ Head(u) = "unlock" /\ Precedes(u, r)
  <2>1. Head(r) \notin Signs
    BY <1>3 DEF Signs
  <2> QED
    BY <1>2, <1>3, <2>1, StepKinds, ShapedRest
<1>6. Open(u, 1) = 1 /\ Last(u) = "return" /\ Head(u) \notin Signs
  <2>1. Head(u) \notin Signs
    BY <1>5 DEF Signs
  <2> QED
    BY <1>3, <1>5, <2>1, StepKinds DEF Precedes
<1>7. Shaped(g) /\ g # <<>> /\ Head(g) = "sign" /\ Precedes(g, u)
  BY <1>2, <1>4, <1>5, <1>6, StepKinds, ShapedRest
<1>8. Open(g, 1) = 1 /\ Last(g) = "return"
  BY <1>4, <1>6, <1>7, StepKinds DEF Precedes
<1>9. Shaped(c) /\ c # <<>> /\ Head(c) = "env" /\ Precedes(c, g)
  BY <1>2, <1>4, <1>7, <1>8, StepKinds, ShapedRest
<1>10. Open(c, 1) = 1 /\ Last(c) = "return" /\ Head(c) \notin Signs
  <2>1. Head(c) \notin Signs
    BY <1>9 DEF Signs
  <2> QED
    BY <1>4, <1>8, <1>9, <2>1, StepKinds DEF Precedes
<1>11. Shaped(s) /\ s # <<>> /\ Head(s) = "lock" /\ Precedes(s, c)
  BY <1>2, <1>9, <1>10, StepKinds, ShapedRest
<1>12. Open(s, 1) = 0 /\ Last(s) = "return" /\ Head(s) \notin Signs
  <2>1. Head(s) \notin Signs
    BY <1>11 DEF Signs
  <2> QED
    BY <1>10, <1>11, <2>1, StepKinds DEF Precedes
<1> QED
  BY <1>11, <1>12 DEF s

(* Presenting the cached PIN again, in the middle of a signature.          *)
LEMMA RevalidateShaped ==
  ASSUME NEW t, Shaped(t), t # <<>>, Open(t, 1) >= 1, Head(t) \notin Signs,
         NEW source \in Verifies, NEW again \in Signs, NEW set, set = "env"
  PROVE  LET s == Verify(source) \o <<set, again>> \o t
         IN  Extends(s, t) /\ Count(s, "lock_card") = Count(t, "lock_card")
<1> DEFINE v == Verify(source)
           g == <<again>> \o t
           c == <<set, again>> \o t
           s == v \o c
<1>1. t \in Seq(Steps) /\ 1 \in 1 .. Len(t) /\ Len(t) \in Nat
  BY DEF Shaped
<1>2. Open(t, 1) \in Int /\ Count(t, "lock_card") \in Nat
  BY <1>1, OpenType, CountType
<1>3. again \in Commands /\ set \in Commands
  BY DEF Commands, Signs
<1>4. again # "lock_card" /\ set # "lock_card" /\ set \notin Signs
  BY DEF Signs
<1>5. /\ Weight(again) = 0 /\ Needed(again) = 1 /\ again \in Steps \ Returns
      /\ Weight(set) = 0 /\ Needed(set) = 1 /\ set \in Steps \ Returns
  BY <1>3, StepKinds
<1>6. Shaped(g) /\ g # <<>> /\ Head(g) = again /\ Precedes(g, t)
  BY <1>2, <1>5, ShapedCons
<1>7. IsRest(c, g) /\ c[1] = set
  <2>1. /\ <<again>> \in Seq(Steps) /\ Len(<<again>>) = 1 /\ <<again>>[1] = again
        /\ <<set, again>> \in Seq(Steps) /\ Len(<<set, again>>) = 2
        /\ <<set, again>>[1] = set /\ <<set, again>>[2] = again
    BY <1>5
  <2>2. /\ g \in Seq(Steps) /\ Len(g) = Len(t) + 1 /\ g[1] = again
        /\ \A i \in 2 .. Len(g) : g[i] = t[i - 1]
    BY <1>1, <2>1, ConcatProperties
  <2>3. /\ c \in Seq(Steps) /\ Len(c) = Len(t) + 2 /\ c[1] = set /\ c[2] = again
        /\ \A i \in 3 .. Len(c) : c[i] = t[i - 2]
    BY <1>1, <2>1, ConcatProperties
  <2> HIDE DEF g, c
  <2>4. \A i \in 2 .. Len(g) : i + 1 \in 3 .. Len(c) /\ i + 1 - 2 = i - 1
    BY <1>1, <2>2, <2>3
  <2>5. \A i \in 1 .. Len(g) : i = 1 \/ i \in 2 .. Len(g)
    BY <1>1, <2>2
  <2> QED
    BY <1>1, <2>2, <2>3, <2>4, <2>5 DEF IsRest
<1> HIDE DEF g
<1>8. /\ Open(g, 1) = Open(t, 1) /\ Last(g) = Last(t)
      /\ Count(g, "lock_card") = Count(t, "lock_card")
  BY <1>2, <1>4, <1>5, <1>6 DEF Precedes
<1> HIDE DEF c
<1>9. Shaped(c) /\ c # <<>> /\ Head(c) = set /\ Precedes(c, g)
  BY <1>2, <1>5, <1>6, <1>7, <1>8, ShapedRest
<1>10. /\ Open(c, 1) = Open(t, 1) /\ Last(c) = Last(t) /\ Head(c) \notin Signs
       /\ Count(c, "lock_card") = Count(t, "lock_card")
  BY <1>2, <1>4, <1>5, <1>8, <1>9 DEF Precedes
<1>11. Extends(s, c) /\ Count(s, "lock_card") = Count(c, "lock_card")
  BY <1>9, <1>10, VerifyShaped
<1>12. Verify(source) \o <<set, again>> \o t = s
  <2>1. v \in Seq(Steps)
    BY VerifyType
  <2>2. <<set, again>> \in Seq(Steps)
    BY <1>5
  <2> HIDE DEF v
  <2>3. (v \o <<set, again>>) \o t = v \o (<<set, again>> \o t)
    BY <1>1, <2>1, <2>2, ConcatAssociative
  <2> QED
    BY <2>3 DEF s, c, v
<1> HIDE DEF s
<1> QED
  BY <1>10, <1>11, <1>12 DEF Extends

-----------------------------------------------------------------------------
(* What is locked is accounted for.                                        *)

KeptTypes ==
  /\ conf \in [Procs -> Confs]
  /\ loggedIn \in [Procs -> BOOLEAN]
  /\ locked \in [Procs -> Nat]
  /\ usage \in [Procs -> 0 .. CacheCounter]
  /\ rv \in [Procs -> Results]
  /\ verified \in BOOLEAN /\ env \in Procs \cup {NoProc}

(* The lock count is that of the login and the running call; under         *)
(* `lock_login' a login that goes well has locked the card, or is about to.*)
Account(p) ==
  /\ Shaped(todo[p])
  /\ lock_count[p] = locked[p] + Open(todo[p], 1)
  /\ locked[p] + Count(todo[p], "lock_card") <= MaxLocked
  /\ conf[p].lock_login =>
       /\ loggedIn[p] => locked[p] > 0
       /\ todo[p] # <<>> /\ Last(todo[p]) = "login" /\ rv[p] = "CKR_OK"
            => locked[p] + Count(todo[p], "lock_card") > 0

AccountInv == left = {} /\ \A p \in Procs : Account(p)

(* A step of p is none of the others'.                                     *)
OnlyFor(p) ==
  /\ UNCHANGED <<conf, left>>
  /\ \A q \in Procs \ {p} :
       /\ todo'[q] = todo[q] /\ lock_count'[q] = lock_count[q] /\ locked'[q] = locked[q]
       /\ loggedIn'[q] = loggedIn[q] /\ rv'[q] = rv[q]

LEMMA OthersKept ==
  ASSUME AccountInv, NEW p \in Procs, OnlyFor(p), Account(p)'
  PROVE  AccountInv'
<1>1. left' = {} /\ conf' = conf
  BY DEF AccountInv, OnlyFor
<1>2. ASSUME NEW q \in Procs \ {p}
      PROVE  Account(q)'
  <2>1. /\ Account(q) /\ todo'[q] = todo[q] /\ lock_count'[q] = lock_count[q]
        /\ locked'[q] = locked[q] /\ loggedIn'[q] = loggedIn[q] /\ rv'[q] = rv[q]
    BY <1>2 DEF AccountInv, OnlyFor
  <2> QED
    BY <1>1, <2>1 DEF Account
<1> QED
  BY <1>1, <1>2 DEF AccountInv

LEMMA ShapedFacts ==
  ASSUME NEW s, Shaped(s)
  PROVE  s \in Seq(Steps) /\ Open(s, 1) \in Int /\ Count(s, "lock_card") \in Nat
BY OpenType, CountType DEF Shaped

LEMMA EmptyShaped ==
  Shaped(<<>>) /\ Open(<<>>, 1) = 0 /\ Count(<<>>, "lock_card") = 0
<1>1. <<>> \in Seq(Steps) /\ Len(<<>>) = 0
  OBVIOUS
<1>2. Shaped(<<>>)
  BY <1>1 DEF Shaped
<1>3. \A x : From(<<>>, 1, x) = {}
  BY <1>1 DEF From
<1>4. \A x : CountFrom(<<>>, 1, x) = 0
  BY <1>3, FS_EmptySet, Zenon DEF CountFrom
<1>5. Open(<<>>, 1) = 0
  BY <1>4 DEF Open
<1> QED
  BY <1>1, <1>2, <1>4, <1>5, CountIsFromFirst

(* A step that is done: what it locks or unlocks moves from the steps that *)
(* are left to the count.                                                  *)
LEMMA AdvanceAccount ==
  ASSUME NEW p \in Procs, Account(p), KeptTypes, LockTypeOK,
         todo[p] # <<>>, Head(todo[p]) \notin Returns, todo'[p] = Tail(todo[p]),
         UNCHANGED conf, loggedIn'[p] = loggedIn[p], rv'[p] = rv[p],
         NEW c \in {0, 1}, c = 1 <=> Head(todo[p]) = "lock_card",
         locked'[p] = locked[p] + c,
         lock_count'[p] = lock_count[p] + c - Weight(Head(todo[p]))
  PROVE  Account(p)'
<1> DEFINE s == todo[p]
           t == Tail(todo[p])
<1>1. Shaped(t) /\ t # <<>> /\ Precedes(s, t)
  BY ShapedTail DEF Account
<1>2. Shaped(s)
  BY DEF Account
<1>3. /\ Open(s, 1) \in Int /\ Open(t, 1) \in Int
      /\ Count(s, "lock_card") \in Nat /\ Count(t, "lock_card") \in Nat
  BY <1>1, <1>2, ShapedFacts
<1>4. locked[p] \in Nat /\ lock_count[p] \in Nat /\ Weight(Head(s)) \in Int
  BY DEF KeptTypes, LockTypeOK, Weight
<1>5. todo'[p] = t
  OBVIOUS
<1>6. Count(s, "lock_card") = Count(t, "lock_card") + c
  BY <1>1, <1>3 DEF Precedes
<1> HIDE DEF t
<1>7. lock_count'[p] = locked'[p] + Open(t, 1)
  BY <1>1, <1>3, <1>4 DEF Account, Precedes
<1>8. locked'[p] + Count(t, "lock_card") = locked[p] + Count(s, "lock_card")
  BY <1>3, <1>4, <1>6
<1>9. locked[p] > 0 => locked'[p] > 0
  BY <1>4
<1>10. MaxLocked' = MaxLocked
  OBVIOUS
<1> QED
  BY <1>1, <1>5, <1>7, <1>8, <1>9 DEF Account, Precedes

(* An error: the unlocks that are left stay the same.                      *)
LEMMA FailAccount ==
  ASSUME NEW p \in Procs, TodoInv, KeptTypes, Account(p), todo[p] # <<>>,
         NEW result, result # "CKR_OK", Fail(p, result), UNCHANGED conf,
         loggedIn'[p] = loggedIn[p], locked'[p] = locked[p], lock_count'[p] = lock_count[p]
  PROVE  Account(p)'
<1> DEFINE s == [i \in 1 .. Depth(p) |-> "unlock"] \o <<Last(todo[p])>>
<1>1. /\ Shaped(s) /\ s # <<>> /\ Open(s, 1) = Open(todo[p], 1)
      /\ Count(s, "lock_card") = 0
  BY ShapedUnwound DEF Account, TodoInv
<1>2. todo'[p] = s /\ rv'[p] = result
  BY DEF Fail, TodoInv, KeptTypes
<1> HIDE DEF s
<1>3. locked[p] \in Nat /\ Count(todo[p], "lock_card") \in Nat
  BY ShapedFacts DEF KeptTypes, Account
<1> QED
  BY <1>1, <1>2, <1>3, TokenAssumption DEF Account

(* What a call does of its own: it unlocks what it locks, and a login      *)
(* under `lock_login' locks the card for itself.                           *)
ShapedCall(p, own) ==
  /\ Shaped(own) /\ own # <<>> /\ Head(own) \notin Signs /\ Open(own, 1) = 0
  /\ conf[p].lock_login /\ Last(own) = "login" => Count(own, "lock_card") > 0

LEMMA CallShaped ==
  ASSUME NEW p \in Procs, Call(p)
  PROVE  C_Logout(p) \/ \E x, own : Start(p, x, own) /\ ShapedCall(p, own)
<1>1. "verify given" \in Verifies
  BY DEF Verifies
<1>2. ASSUME NEW x \in Pins, C_Login(p, x)
      PROVE  \E own : Start(p, x, own) /\ ShapedCall(p, own)
  <2> DEFINE r == <<"login">>
             own == Login(p, "verify given") \o r
  <2>1. /\ Shaped(r) /\ r # <<>> /\ Head(r) \notin Signs /\ Open(r, 1) = 0
        /\ Last(r) = "login"
    BY ShapedReturn DEF Returns, Signs
  <2>2. /\ Extends(own, r)
        /\ Count(own, "lock_card") = Count(r, "lock_card")
                                       + (IF conf[p].lock_login THEN 1 ELSE 0)
    BY <1>1, <2>1, LoginShaped
  <2>3. Start(p, x, own)
    BY <1>2 DEF C_Login
  <2> HIDE DEF r, own
  <2>4. Count(r, "lock_card") \in Nat
    BY <2>1, ShapedFacts
  <2>5. conf[p].lock_login => Count(own, "lock_card") > 0
    BY <2>2, <2>4
  <2>6. ShapedCall(p, own)
    BY <2>1, <2>2, <2>5 DEF Extends, ShapedCall
  <2> QED
    BY <2>3, <2>6
<1>3. ASSUME NEW x \in Pins, C_LoginContextSpecific(p, x)
      PROVE  \E own : Start(p, x, own) /\ ShapedCall(p, own)
  <2> DEFINE r == <<"return">>
             own == Verify("verify given") \o r
  <2>1. /\ Shaped(r) /\ r # <<>> /\ Head(r) \notin Signs /\ Open(r, 1) = 0
        /\ Last(r) # "login"
    BY ShapedReturn DEF Returns, Signs
  <2>2. Extends(own, r)
    BY <1>1, <2>1, VerifyShaped
  <2>3. Start(p, x, own)
    BY <1>3 DEF C_LoginContextSpecific
  <2> HIDE DEF r, own
  <2>4. ShapedCall(p, own)
    BY <2>1, <2>2 DEF Extends, ShapedCall
  <2> QED
    BY <2>3, <2>4
<1>4. ASSUME NEW x \in Pins, C_SetPIN(p, x)
      PROVE  \E own : Start(p, x, own) /\ ShapedCall(p, own)
  <2> DEFINE own == <<"lock", "change", "unlock", "return">>
  <2>1. "change" \in Commands \ Signs
    BY DEF Commands, Signs
  <2>2. /\ Shaped(own) /\ own # <<>> /\ Head(own) \notin Signs /\ Open(own, 1) = 0
        /\ Last(own) # "login"
    BY <2>1, SectionShaped
  <2>3. Start(p, x, own)
    BY <1>4 DEF C_SetPIN
  <2> HIDE DEF own
  <2> QED
    BY <2>2, <2>3 DEF ShapedCall
<1>5. ASSUME C_Sign(p)
      PROVE  \E own : Start(p, NoPin, own) /\ ShapedCall(p, own)
  <2> DEFINE own == <<"lock", "env", "sign", "unlock", "return">>
  <2>1. /\ Shaped(own) /\ own # <<>> /\ Head(own) \notin Signs /\ Open(own, 1) = 0
        /\ Last(own) # "login"
    BY SignShaped
  <2>2. Start(p, NoPin, own)
    BY <1>5 DEF C_Sign
  <2> HIDE DEF own
  <2> QED
    BY <2>1, <2>2 DEF ShapedCall
<1> QED
  BY <1>2, <1>3, <1>4, <1>5 DEF Call

LEMMA StartAccount ==
  ASSUME NEW p \in Procs, TodoInv, KeptTypes, LockTypeOK, Account(p), NEW x, NEW own,
         Start(p, x, own), ShapedCall(p, own)
  PROVE  Account(p)' /\ todo'[p] # <<>> /\ Head(todo'[p]) \notin Signs
<1> DEFINE s == Restore(p) \o own
<1>1. Extends(s, own) /\ Count(s, "lock_card") >= Count(own, "lock_card")
  BY RestoreShaped DEF ShapedCall
<1>2. /\ todo' = [todo EXCEPT ![p] = s] /\ todo[p] = <<>>
      /\ locked[p] + Count(s, "lock_card") <= MaxLocked
      /\ UNCHANGED <<lock_count, locked, conf, loggedIn, rv>>
  BY DEF Start, Idle, lockVars
<1>3. todo'[p] = s
  BY <1>2 DEF TodoInv
<1> HIDE DEF s
<1>4. lock_count[p] = locked[p] + 0 /\ locked[p] \in Nat
  BY <1>2, EmptyShaped DEF Account, KeptTypes
<1>5. Count(own, "lock_card") \in Nat /\ Count(s, "lock_card") \in Nat
  BY <1>1, ShapedFacts DEF Extends, ShapedCall
<1> QED
  BY <1>1, <1>2, <1>3, <1>4, <1>5 DEF Account, Extends, ShapedCall

LEMMA RevalidateAccount ==
  ASSUME NEW p \in Procs, Account(p), TodoInv, KeptTypes, Revalidate(p)
  PROVE  /\ Account(p)' /\ Head(todo'[p]) \notin Signs
         /\ todo' = [todo EXCEPT ![p] = todo'[p]]
         /\ UNCHANGED <<txn, env, lock_count, left, conf, loggedIn, locked, rv>>
<1> todo \in [Procs -> Seq(Steps)] /\ locked \in [Procs -> Nat]
  BY DEF TodoInv, KeptTypes
<1> DEFINE s == todo[p]
           t == Tail(s)
           again == "sign again"
           source == "verify cache"
           set == "env"
           new == Verify(source) \o <<set, again>> \o t
<1>1. s # <<>> /\ Head(s) = "sign"
  BY Zenon DEF Revalidate, At
<1>2. Shaped(s) /\ lock_count[p] = locked[p] + Open(s, 1)
  BY DEF Account
<1>3. Shaped(t) /\ t # <<>> /\ Precedes(s, t) /\ Head(t) \notin Signs
  BY <1>1, <1>2, ShapedTail DEF Returns
<1>4. "sign" \in Commands
  BY DEF Commands
<1>5. /\ Open(s, 1) = Open(t, 1) /\ Open(t, 1) >= 1 /\ Last(t) = Last(s)
      /\ Count(s, "lock_card") = Count(t, "lock_card")
  <2>1. Open(s, 1) \in Int /\ Open(t, 1) \in Int /\ Count(t, "lock_card") \in Nat
    BY <1>2, <1>3, ShapedFacts
  <2>2. 1 \in 1 .. Len(s) /\ s[1] = "sign"
    BY <1>1, <1>2 DEF Shaped
  <2>3. Open(s, 1) >= 1
    BY <2>2, <1>2, <1>4, StepKinds DEF Shaped
  <2> QED
    BY <2>1, <2>3, <1>1, <1>3, <1>4, StepKinds DEF Precedes
<1>6. todo' = [todo EXCEPT ![p] = new]
  BY Zenon DEF Revalidate
<1>7. UNCHANGED <<txn, env, lock_count, left, conf, loggedIn, locked, rv>>
  BY Zenon DEF Revalidate, lockVars, cardVars, loginVars
<1>8. source \in Verifies /\ again \in Signs /\ set = "env"
  BY Zenon DEF Verifies, Signs
<1> HIDE DEF again, source, set
<1>9. Extends(new, t) /\ Count(new, "lock_card") = Count(t, "lock_card")
  BY <1>3, <1>5, <1>8, RevalidateShaped
<1> HIDE DEF new, t
<1>10. todo'[p] = new
  BY <1>6
<1>11. Account(p)'
  BY <1>1, <1>2, <1>5, <1>7, <1>9, <1>10 DEF Extends, Account
<1>12. Head(new) \notin Signs
  BY <1>9 DEF Extends
<1> QED
  BY <1>6, <1>7, <1>10, <1>11, <1>12

LEMMA KeptNext ==
  ASSUME KeptTypes, TodoInv, Next
  PROVE  KeptTypes'
<1> USE DEF KeptTypes
<1>1. ASSUME NEW p \in Procs, NEW r \in Results, Fail(p, r)
      PROVE  rv' \in [Procs -> Results]
  BY <1>1 DEF Fail
<1>2. CASE CardReset
  BY <1>2 DEF CardReset, loginVars, pinVars
<1>3. ASSUME NEW p \in Procs, Call(p)
      PROVE  KeptTypes'
  <2>1. ASSUME NEW x, NEW own, Start(p, x, own)
        PROVE  KeptTypes'
    BY <2>1 DEF Start, cardVars, pinVars
  <2>2. CASE C_Logout(p)
    BY <2>2 DEF C_Logout, cardVars
  <2> QED
    BY <1>3, <2>1, <2>2 DEF Call, C_Login, C_LoginContextSpecific, C_SetPIN, C_Sign
<1>4. ASSUME NEW p \in Procs, End(p)
      PROVE  KeptTypes'
  <2>1. 0 \in 0 .. CacheCounter
    BY TokenAssumption
  <2> QED
    BY <1>4, <2>1 DEF End, cardVars, Results
<1>5. ASSUME NEW p \in Procs, LockDone(p)
      PROVE  KeptTypes'
  <2>1. locked' \in [Procs -> Nat]
    BY <1>5 DEF LockDone
  <2> QED
    BY <1>5, <2>1 DEF LockDone, Advance, cardVars, loginVars, pinVars
<1>6. ASSUME NEW p \in Procs, Step(p)
      PROVE  KeptTypes'
  <2>1. CASE StepLockFirst(p) \/ StepLockRetry(p)
    BY <2>1 DEF StepLockFirst, StepLockRetry, cardVars, loginVars, pinVars
  <2>2. CASE StepLockAgain(p)
    BY <2>2, <1>5 DEF StepLockAgain
  <2>3. CASE StepLockFails(p)
    BY <2>3, <1>1 DEF StepLockFails, Results, cardVars, loginVars, pinVars
  <2>4. CASE StepUnlock(p) \/ ComputeSignature(p)
    BY <2>4 DEF StepUnlock, ComputeSignature, Advance, cardVars, loginVars, pinVars
  <2>5. ASSUME NEW r \in Results, CommandFails(p, r)
        PROVE  UNCHANGED <<conf, loggedIn, locked, usage>> /\ rv' \in [Procs -> Results]
    <3>1. \E result \in Results : Fail(p, result)
      BY <2>5 DEF CommandFails, Results
    <3> QED
      BY <2>5, <3>1, <1>1 DEF CommandFails, loginVars
  <2>6. CASE CommandLost(p) \/ CommandRefused(p)
    BY <2>6, <2>5 DEF CommandLost, CommandRefused, cardVars, Results
  <2>7. CASE PinRefused(p)
    BY <2>7, <2>5 DEF PinRefused, Results
  <2>8. CASE VerifyAccepted(p)
    <3>1. 0 \in 0 .. CacheCounter
      BY TokenAssumption
    <3> QED
      BY <2>8, <3>1 DEF VerifyAccepted, PincacheAdd, Advance, loginVars
  <2>9. ASSUME NEW x \in Pins, ChangePin(p, x)
        PROVE  KeptTypes'
    <3>1. 0 \in 0 .. CacheCounter
      BY TokenAssumption
    <3> QED
      BY <2>9, <3>1 DEF ChangePin, PincacheAdd, Advance, loginVars
  <2>10. CASE SetSecurityEnv(p)
    BY <2>10 DEF SetSecurityEnv, Advance, loginVars, pinVars
  <2>11. CASE Revalidate(p)
    <3>1. /\ usage[p] < CacheCounter /\ usage' = [usage EXCEPT ![p] = usage[p] + 1]
          /\ UNCHANGED <<cardVars, loginVars, locked, rv>>
      BY <2>11, Zenon DEF Revalidate
    <3>2. usage[p] + 1 \in 0 .. CacheCounter
      BY <3>1, TokenAssumption
    <3> QED
      BY <3>1, <3>2 DEF cardVars, loginVars
  <2>12. CASE NotRevalidated(p)
    BY <2>12, <1>1 DEF NotRevalidated, Results, cardVars, loginVars
  <2>13. CASE Return(p)
    <3>1. /\ loggedIn' \in [Procs -> BOOLEAN] /\ rv' \in [Procs -> Results]
          /\ UNCHANGED <<conf, locked, usage, verified, env>>
      BY <2>13 DEF Return, Results, cardVars
    <3> QED
      BY <3>1
  <2> QED
    BY <1>6, <2>1, <2>2, <2>3, <2>4, <2>6, <2>7, <2>8, <2>9, <2>10, <2>11, <2>12,
       <2>13 DEF Step
<1>7. ASSUME NEW p \in Procs, StepLockGranted(p)
      PROVE  KeptTypes'
  BY <1>7, <1>5 DEF StepLockGranted
<1> QED
  BY <1>2, <1>3, <1>4, <1>6, <1>7 DEF Next

LEMMA AccountNext ==
  ASSUME AccountInv, KeptTypes, TodoInv, LockInv, Next
  PROVE  AccountInv'
<1> LockTypeOK /\ LockCalm
  BY DEF LockInv
<1> /\ conf \in [Procs -> Confs] /\ loggedIn \in [Procs -> BOOLEAN]
    /\ locked \in [Procs -> Nat] /\ rv \in [Procs -> Results]
    /\ lock_count \in [Procs -> Nat]
  BY DEF KeptTypes, LockTypeOK
<1> todo \in [Procs -> Seq(Steps)] /\ \A q \in Procs \cap waiting : AtOneOf(q, Locks)
  BY DEF TodoInv
<1>1. CASE CardReset
  BY <1>1 DEF CardReset, LoseCard, loginVars, AccountInv, Account
<1>2. ASSUME NEW p \in Procs, Call(p)
      PROVE  AccountInv'
  <2>1. ASSUME NEW x, NEW own, Start(p, x, own), ShapedCall(p, own)
        PROVE  AccountInv'
    <3>1. Account(p)'
      BY <2>1, StartAccount DEF AccountInv
    <3>2. OnlyFor(p)
      BY <2>1 DEF Start, lockVars, OnlyFor
    <3> QED
      BY <3>1, <3>2, OthersKept
  <2>2. CASE C_Logout(p)
    <3>1. OnlyFor(p)
      BY <2>2 DEF C_Logout, lockVars, OnlyFor
    <3>2. Account(p)'
      BY <2>2 DEF C_Logout, lockVars, Account, AccountInv
    <3> QED
      BY <3>1, <3>2, OthersKept
  <2> QED
    BY <1>2, <2>1, <2>2, CallShaped
<1>3. ASSUME NEW p \in Procs, End(p)
      PROVE  AccountInv'
  <2>1. left' = {} /\ OnlyFor(p)
    BY <1>3 DEF End, Disconnect, AccountInv, OnlyFor
  <2>2. Account(p)'
    BY <1>3, EmptyShaped, TokenAssumption DEF End, Disconnect, Account
  <2> QED
    BY <2>1, <2>2, OthersKept
<1>4. ASSUME NEW p \in Procs, todo[p] # <<>>, Head(todo[p]) \in Commands \cup {"unlock"},
             Advance(p), UNCHANGED <<conf, loggedIn, locked, left>>,
             \A q \in Procs \ {p} : lock_count'[q] = lock_count[q],
             lock_count'[p] = lock_count[p] - Weight(Head(todo[p]))
      PROVE  AccountInv'
  <2>1. Head(todo[p]) \notin Returns /\ Head(todo[p]) # "lock_card"
    <3>1. \A e \in Commands \cup {"unlock"} : e \notin Returns /\ e # "lock_card"
      BY StepKinds DEF Commands, Verifies
    <3> QED
      BY <1>4, <3>1
  <2>2. Account(p)'
    <3>1. todo'[p] = Tail(todo[p]) /\ UNCHANGED rv
      BY <1>4 DEF Advance
    <3>2. 0 \in {0, 1} /\ locked'[p] = locked[p] + 0
      BY <1>4
    <3>3. lock_count'[p] = lock_count[p] + 0 - Weight(Head(todo[p]))
      BY <1>4 DEF Weight
    <3> QED
      BY <1>4, <2>1, <3>1, <3>2, <3>3, AdvanceAccount DEF AccountInv
  <2>3. OnlyFor(p)
    BY <1>4 DEF Advance, OnlyFor
  <2> QED
    BY <2>2, <2>3, OthersKept
<1>5. ASSUME NEW p \in Procs, AtOneOf(p, Locks), LockDone(p), UNCHANGED left,
             lock_count' = [lock_count EXCEPT ![p] = @ + 1]
      PROVE  AccountInv'
  <2>1. todo[p] # <<>> /\ Head(todo[p]) \in {"lock", "lock_card"}
    BY <1>5 DEF AtOneOf, Locks
  <2>2. PICK c \in {0, 1} : c = 1 <=> Head(todo[p]) = "lock_card"
    <3>1. CASE Head(todo[p]) = "lock_card"
      BY <3>1
    <3>2. CASE Head(todo[p]) # "lock_card"
      BY <3>2
    <3> QED
      BY <3>1, <3>2
  <2>3. locked'[p] = locked[p] + c
    BY <1>5, <2>1, <2>2 DEF LockDone, At
  <2>4. lock_count'[p] = lock_count[p] + c - Weight(Head(todo[p]))
    <3>1. c - Weight(Head(todo[p])) = 1 /\ Weight(Head(todo[p])) \in Int
      BY <2>1, <2>2 DEF Weight
    <3> QED
      BY <1>5, <3>1
  <2>5. Account(p)'
    <3>1. /\ todo'[p] = Tail(todo[p]) /\ UNCHANGED <<rv, conf, loggedIn>>
          /\ Head(todo[p]) \notin Returns
      BY <1>5, <2>1 DEF LockDone, Advance, loginVars, Returns
    <3> QED
      BY <2>1, <2>2, <2>3, <2>4, <3>1, AdvanceAccount DEF AccountInv
  <2>6. OnlyFor(p)
    BY <1>5 DEF LockDone, Advance, loginVars, OnlyFor
  <2> QED
    BY <2>5, <2>6, OthersKept
<1>6. ASSUME NEW p \in Procs, todo[p] # <<>>, NEW result, result # "CKR_OK", Fail(p, result),
             UNCHANGED <<conf, loggedIn, locked, lock_count, left>>
      PROVE  AccountInv'
  <2>1. Account(p)'
    BY <1>6, FailAccount DEF AccountInv
  <2>2. OnlyFor(p)
    BY <1>6 DEF Fail, OnlyFor
  <2> QED
    BY <2>1, <2>2, OthersKept
<1>7. ASSUME NEW p \in Procs, Step(p)
      PROVE  AccountInv'
  <2>1. CASE StepLockFirst(p)
    BY <2>1 DEF StepLockFirst, LockFirst, loginVars, AccountInv, Account
  <2>2. CASE StepLockRetry(p)
    BY <2>2 DEF StepLockRetry, LockRetry, loginVars, AccountInv, Account
  <2>3. CASE StepLockAgain(p)
    BY <2>3, <1>5 DEF StepLockAgain, LockAgain
  <2>4. CASE StepLockFails(p)
    <3>1. /\ todo[p] # <<>> /\ Fail(p, "CKR_DEVICE_ERROR")
          /\ UNCHANGED <<conf, loggedIn, locked, lock_count, left>>
      BY <2>4 DEF StepLockFails, LockFails, AtOneOf, loginVars
    <3> QED
      BY <3>1, <1>6
  <2>5. CASE StepUnlock(p)
    <3>1. todo[p] # <<>> /\ Head(todo[p]) = "unlock"
      BY <2>5 DEF StepUnlock, At
    <3>2. lock_count[p] >= 1
      <4> DEFINE s == todo[p]
      <4>1. Shaped(s) /\ lock_count[p] = locked[p] + Open(s, 1)
        BY DEF AccountInv, Account
      <4>2. Shaped(Tail(s)) /\ Tail(s) # <<>> /\ Precedes(s, Tail(s))
        BY <3>1, <4>1, ShapedTail DEF Returns
      <4>3. Open(s, 1) = Open(Tail(s), 1) + 1
        BY <3>1, <4>2, StepKinds DEF Precedes
      <4>4. Open(Tail(s), 1) \in Int /\ Open(Tail(s), 1) >= 0
        <5> DEFINE t == Tail(s)
        <5>1. Shaped(t) /\ t # <<>>
          BY <4>2
        <5> HIDE DEF t
        <5>2. t \in Seq(Steps) /\ 1 \in 1 .. Len(t) /\ Shaped(t)
          BY <5>1 DEF Shaped
        <5>3. Open(t, 1) \in Int /\ Open(t, 1) >= Needed(t[1])
          BY <5>2, OpenType DEF Shaped
        <5>4. Open(t, 1) \in Int /\ Open(t, 1) >= 0
          BY <5>3 DEF Needed
        <5> QED
          BY <5>4 DEF t
      <4> QED
        BY <4>1, <4>3, <4>4
    <3>3. /\ Advance(p) /\ UNCHANGED <<conf, loggedIn, locked, left>>
          /\ lock_count' = [lock_count EXCEPT ![p] = @ - 1]
      <4>1. ~(lock_count[p] < 1)
        BY <3>2
      <4>2. /\ lock_count' = [lock_count EXCEPT
                               ![p] = IF lock_count[p] < 1 THEN @ ELSE @ - 1]
            /\ left' = IF lock_count[p] < 1 THEN left \cup {p} ELSE left
        BY <2>5 DEF StepUnlock, Unlock
      <4>3. Advance(p) /\ UNCHANGED <<conf, loggedIn, locked>>
        BY <2>5 DEF StepUnlock, loginVars
      <4> QED
        BY <4>1, <4>2, <4>3
    <3> QED
      BY <3>1, <3>3, <1>4, StepKinds
  <2>6. ASSUME AtOneOf(p, Commands), Advance(p),
               UNCHANGED <<conf, loggedIn, locked, lockVars>>
        PROVE  AccountInv'
    <3>1. /\ todo[p] # <<>> /\ Head(todo[p]) \in Commands /\ Weight(Head(todo[p])) = 0
          /\ lock_count[p] - 0 = lock_count[p]
      BY <2>6, StepKinds DEF AtOneOf
    <3> QED
      BY <2>6, <3>1, <1>4 DEF lockVars
  <2>7. CASE VerifyAccepted(p)
    <3>1. AtOneOf(p, Commands)
      BY <2>7 DEF VerifyAccepted, AtOneOf, Commands
    <3> QED
      BY <2>7, <3>1, <2>6 DEF VerifyAccepted, loginVars
  <2>8. ASSUME NEW x \in Pins, ChangePin(p, x)
        PROVE  AccountInv'
    <3>1. AtOneOf(p, Commands)
      BY <2>8 DEF ChangePin, At, AtOneOf, Commands
    <3> QED
      BY <2>8, <3>1, <2>6 DEF ChangePin, loginVars
  <2>9. CASE SetSecurityEnv(p)
    <3>1. AtOneOf(p, Commands)
      BY <2>9 DEF SetSecurityEnv, At, AtOneOf, Commands
    <3> QED
      BY <2>9, <3>1, <2>6 DEF SetSecurityEnv, loginVars
  <2>10. CASE ComputeSignature(p)
    <3>1. AtOneOf(p, Commands)
      BY <2>10 DEF ComputeSignature, Signs, AtOneOf, Commands
    <3> QED
      BY <2>10, <3>1, <2>6 DEF ComputeSignature, loginVars
  <2>11. ASSUME NEW result, result # "CKR_OK", CommandFails(p, result), todo[p] # <<>>,
                UNCHANGED <<lock_count, left>>
         PROVE  AccountInv'
    <3>1. \E r : r # "CKR_OK" /\ Fail(p, r)
      BY <2>11 DEF CommandFails
    <3> QED
      BY <2>11, <3>1, <1>6 DEF CommandFails, loginVars
  <2>12. CASE CommandLost(p)
    BY <2>12, <2>11 DEF CommandLost, TransmitLost, AtOneOf
  <2>13. CASE CommandRefused(p)
    BY <2>13, <2>11 DEF CommandRefused, AtOneOf, lockVars
  <2>14. CASE PinRefused(p)
    BY <2>14, <2>11 DEF PinRefused, AtOneOf, lockVars
  <2>15. CASE NotRevalidated(p)
    BY <2>15, <1>6 DEF NotRevalidated, Unsatisfied, AtOneOf, lockVars, loginVars
  <2>16. CASE Revalidate(p)
    <3>1. Account(p)'
      BY <2>16, RevalidateAccount DEF AccountInv
    <3>2. OnlyFor(p)
      <4>1. /\ todo' = [todo EXCEPT ![p] = todo'[p]]
            /\ UNCHANGED <<lock_count, left, conf, loggedIn, locked, rv>>
        BY <2>16, RevalidateAccount DEF AccountInv
      <4> QED
        BY <4>1 DEF OnlyFor
    <3> QED
      BY <3>1, <3>2, OthersKept
  <2>17. CASE Return(p)
    <3>1. todo[p] # <<>> /\ Head(todo[p]) \in Returns /\ Account(p)
      BY <2>17 DEF Return, AtOneOf, AccountInv
    <3>2. /\ todo[p] \in Seq(Steps) /\ Len(todo[p]) = 1 /\ Open(todo[p], 1) = 0
          /\ Last(todo[p]) = Head(todo[p]) /\ Count(todo[p], "lock_card") = 0
      <4> DEFINE s == todo[p]
      <4>1. s \in Seq(Steps) /\ Shaped(s) /\ 1 \in 1 .. Len(s) /\ Head(s) = s[1]
        BY <3>1 DEF Account, Shaped
      <4> HIDE DEF s
      <4>2. Len(s) = 1
        BY <3>1, <4>1 DEF Shaped, s
      <4>3. Open(s, 2) = 0
        <5>1. Open(s, Len(s) + 1) = 0
          BY <4>1, OpenEnd
        <5>2. Len(s) + 1 = 2
          BY <4>2
        <5> QED
          BY <5>1, <5>2
      <4>4. Open(s, 1) = 0
        <5>1. Weight(s[1]) = 0
          BY <3>1, <4>1 DEF Weight, Returns, s
        <5> QED
          BY <4>1, <4>3, <5>1, OpenNext
      <4>5. Count(s, "lock_card") = 0
        <5>1. From(s, 1, "lock_card") = {}
          BY <3>1, <4>1, <4>2 DEF From, Returns, s
        <5>2. CountFrom(s, 1, "lock_card") = 0
          BY <5>1, FS_EmptySet, Zenon DEF CountFrom
        <5> QED
          BY <4>1, <5>2, CountIsFromFirst
      <4>6. Last(s) = Head(s)
        BY <4>1, <4>2 DEF Last
      <4> QED
        BY <4>1, <4>2, <4>4, <4>5, <4>6 DEF s
    <3>3. /\ todo'[p] = <<>> /\ UNCHANGED <<lock_count, left, conf, locked>>
          /\ loggedIn'[p] => loggedIn[p] \/ (Head(todo[p]) = "login" /\ rv[p] = "CKR_OK")
      BY <2>17 DEF Return, At, lockVars
    <3>4. Account(p)'
      BY <3>1, <3>2, <3>3, EmptyShaped DEF Account
    <3>5. OnlyFor(p)
      BY <2>17 DEF Return, lockVars, OnlyFor
    <3> QED
      BY <3>4, <3>5, OthersKept
  <2> QED
    BY <1>7, <2>1, <2>2, <2>3, <2>4, <2>5, <2>7, <2>8, <2>9, <2>10, <2>12, <2>13,
       <2>14, <2>15, <2>16, <2>17 DEF Step
<1>8. ASSUME NEW p \in Procs, StepLockGranted(p)
      PROVE  AccountInv'
  BY <1>8, <1>5 DEF StepLockGranted, LockGranted
<1> QED
  BY <1>1, <1>2, <1>3, <1>7, <1>8 DEF Next

-----------------------------------------------------------------------------
(* Who signs within a transaction has set its security environment.        *)

SignInv == \A p \in Procs : AtOneOf(p, Signs) /\ txn = p => env = p

(* A step of p that does not bring it to a signature.                      *)
LEMMA SignElsewhere ==
  ASSUME SignInv, NEW p \in Procs, \A q \in Procs \ {p} : todo'[q] = todo[q],
         txn' \in {txn, NoProc, p}, env' = env \/ (env' = p /\ txn \in {p, NoProc}),
         (todo'[p] = todo[p] /\ txn' # p) \/ todo'[p] = <<>> \/ Head(todo'[p]) \notin Signs
  PROVE  SignInv'
<1> SUFFICES ASSUME NEW q \in Procs, todo'[q] # <<>>, Head(todo'[q]) \in Signs, txn' = q
             PROVE  env' = q
  BY DEF SignInv, AtOneOf
<1>1. q # p
  OBVIOUS
<1>2. todo[q] = todo'[q] /\ txn = q
  BY <1>1, ProcsAssumption
<1>3. env = q
  BY <1>2 DEF SignInv, AtOneOf
<1> QED
  BY <1>1, <1>2, <1>3, ProcsAssumption

LEMMA NoSignAfterAdvance ==
  ASSUME NEW p \in Procs, TodoInv, Account(p), todo[p] # <<>>,
         Head(todo[p]) \notin Returns \cup {"env"}, Advance(p)
  PROVE  /\ Head(todo'[p]) \notin Signs
         /\ \A q \in Procs \ {p} : todo'[q] = todo[q]
<1>1. Head(Tail(todo[p])) \notin Signs
  BY ShapedTail DEF Account
<1>2. todo' = [todo EXCEPT ![p] = Tail(todo[p])]
  BY DEF Advance
<1> QED
  BY <1>1, <1>2 DEF TodoInv

LEMMA NoSignAfterFail ==
  ASSUME NEW p \in Procs, TodoInv, Account(p), todo[p] # <<>>, NEW result, Fail(p, result)
  PROVE  /\ Head(todo'[p]) \notin Signs
         /\ \A q \in Procs \ {p} : todo'[q] = todo[q]
<1> DEFINE s == [i \in 1 .. Depth(p) |-> "unlock"] \o <<Last(todo[p])>>
<1>1. Head(s) \notin Signs
  BY ShapedUnwound DEF Account, TodoInv
<1>2. todo' = [todo EXCEPT ![p] = s]
  BY DEF Fail
<1> HIDE DEF s
<1> QED
  BY <1>1, <1>2 DEF TodoInv

LEMMA SignNext ==
  ASSUME SignInv, AccountInv, KeptTypes, TodoInv, LockTypeOK, Next
  PROVE  SignInv'
<1> USE DEF AccountInv
<1> todo \in [Procs -> Seq(Steps)] /\ \A q \in Procs \cap waiting : AtOneOf(q, Locks)
  BY DEF TodoInv
<1>1. CASE CardReset
  BY <1>1, ProcsAssumption DEF CardReset, LoseCard, SignInv
<1>2. ASSUME NEW p \in Procs, Call(p)
      PROVE  SignInv'
  <2>1. ASSUME NEW x, NEW own, Start(p, x, own), ShapedCall(p, own)
        PROVE  SignInv'
    <3>1. Head(todo'[p]) \notin Signs
      BY <2>1, StartAccount
    <3>2. UNCHANGED <<txn, env>> /\ \A q \in Procs \ {p} : todo'[q] = todo[q]
      BY <2>1 DEF Start, lockVars, cardVars
    <3> QED
      BY <3>1, <3>2, SignElsewhere
  <2>2. CASE C_Logout(p)
    BY <2>2 DEF C_Logout, lockVars, cardVars, SignInv, AtOneOf
  <2> QED
    BY <1>2, <2>1, <2>2, CallShaped
<1>3. ASSUME NEW p \in Procs, End(p)
      PROVE  SignInv'
  <2>1. /\ todo'[p] = <<>> /\ \A q \in Procs \ {p} : todo'[q] = todo[q]
        /\ txn' \in {txn, NoProc} /\ env' = env
    BY <1>3 DEF End, Disconnect, cardVars
  <2> QED
    BY <2>1, SignElsewhere
<1>4. ASSUME NEW p \in Procs, Head(todo[p]) \in (Commands \ {"env"}) \cup Locks \cup {"unlock"},
             todo[p] # <<>>, Advance(p), txn' \in {txn, NoProc, p}, env' = env
      PROVE  SignInv'
  <2>1. Head(todo[p]) \notin Returns \cup {"env"}
    <3>1. \A e \in Commands \cup Locks \cup {"unlock"} : e \notin Returns
      BY StepKinds DEF Locks
    <3>2. "env" \notin Locks \cup {"unlock"}
      BY DEF Locks
    <3> QED
      BY <1>4, <3>1, <3>2
  <2> QED
    BY <1>4, <2>1, NoSignAfterAdvance, SignElsewhere
<1>5. ASSUME NEW p \in Procs, todo[p] # <<>>, NEW result, Fail(p, result),
             UNCHANGED <<txn, env>>
      PROVE  SignInv'
  BY <1>5, NoSignAfterFail, SignElsewhere
<1>6. ASSUME NEW p \in Procs, Step(p)
      PROVE  SignInv'
  <2>1. CASE StepLockFirst(p)
    BY <2>1 DEF StepLockFirst, LockFirst, cardVars, SignInv, AtOneOf
  <2>2. CASE StepLockRetry(p)
    BY <2>2 DEF StepLockRetry, LockRetry, cardVars, SignInv, AtOneOf
  <2>3. CASE StepLockAgain(p)
    BY <2>3, <1>4 DEF StepLockAgain, LockAgain, LockDone, AtOneOf, cardVars
  <2>4. CASE StepLockFails(p)
    BY <2>4, <1>5 DEF StepLockFails, LockFails, AtOneOf, cardVars
  <2>5. CASE StepUnlock(p)
    BY <2>5, <1>4 DEF StepUnlock, Unlock, At, cardVars
  <2>6. CASE CommandLost(p) \/ CommandRefused(p) \/ PinRefused(p)
    <3>1. todo[p] # <<>> /\ (\E r : Fail(p, r)) /\ UNCHANGED <<txn, env>>
      BY <2>6 DEF CommandLost, CommandRefused, PinRefused, CommandFails, TransmitLost,
                  AtOneOf, lockVars, cardVars
    <3> QED
      BY <3>1, <1>5
  <2>7. CASE VerifyAccepted(p)
    <3>1. Head(todo[p]) \in Commands \ {"env"}
      BY <2>7 DEF VerifyAccepted, AtOneOf, Verifies, Commands
    <3> QED
      BY <2>7, <3>1, <1>4 DEF VerifyAccepted, AtOneOf, lockVars
  <2>8. ASSUME NEW x \in Pins, ChangePin(p, x)
        PROVE  SignInv'
    <3>1. Head(todo[p]) \in Commands \ {"env"}
      BY <2>8 DEF ChangePin, At, Commands
    <3> QED
      BY <2>8, <3>1, <1>4 DEF ChangePin, At, lockVars
  <2>9. CASE SetSecurityEnv(p)
    <3>1. /\ env' = p /\ UNCHANGED txn /\ txn \in {p, NoProc} /\ Advance(p)
      BY <2>9 DEF SetSecurityEnv, Reaches, lockVars
    <3>2. \A q \in Procs \ {p} : todo'[q] = todo[q]
      BY <3>1 DEF Advance
    <3> SUFFICES ASSUME NEW q \in Procs, q # p, txn = q
                 PROVE  FALSE
      BY <3>1 DEF SignInv
    <3> QED
      BY <3>1, ProcsAssumption
  <2>10. CASE ComputeSignature(p)
    <3>1. Head(todo[p]) \in Commands \ {"env"}
      BY <2>10 DEF ComputeSignature, Signs, AtOneOf, Commands
    <3> QED
      BY <2>10, <3>1, <1>4 DEF ComputeSignature, AtOneOf, lockVars, cardVars
  <2>11. CASE NotRevalidated(p)
    BY <2>11, <1>5 DEF NotRevalidated, Unsatisfied, AtOneOf, lockVars, cardVars
  <2>12. CASE Revalidate(p)
    <3>1. /\ Head(todo'[p]) \notin Signs /\ todo' = [todo EXCEPT ![p] = todo'[p]]
          /\ UNCHANGED <<txn, env>>
      BY <2>12, RevalidateAccount
    <3> QED
      BY <3>1, SignElsewhere
  <2>13. CASE Return(p)
    <3>1. /\ todo'[p] = <<>> /\ \A q \in Procs \ {p} : todo'[q] = todo[q]
          /\ UNCHANGED <<txn, env>>
      BY <2>13 DEF Return, lockVars, cardVars
    <3> QED
      BY <3>1, SignElsewhere
  <2> QED
    BY <1>6, <2>1, <2>2, <2>3, <2>4, <2>5, <2>6, <2>7, <2>8, <2>9, <2>10, <2>11,
       <2>12, <2>13 DEF Step
<1>7. ASSUME NEW p \in Procs, StepLockGranted(p)
      PROVE  SignInv'
  BY <1>7, <1>4 DEF StepLockGranted, LockGranted, LockDone, AtOneOf, cardVars
<1> QED
  BY <1>1, <1>2, <1>3, <1>6, <1>7 DEF Next

-----------------------------------------------------------------------------
(* The theorems                                                            *)

TokenInv ==
  /\ TodoInv /\ PinInv /\ AtomicInv
  /\ KeptTypes /\ AccountInv /\ SignInv

LEMMA TokenInit == Init => TokenInv
<1> SUFFICES ASSUME Init
             PROVE  TokenInv
  OBVIOUS
<1>1. <<>> \in Seq(Steps) /\ WellFormed(<<>>)
  BY DEF WellFormed
<1>2. TodoInv /\ PinInv /\ AtomicInv
  BY <1>1 DEF Init, LockInit, PinInv, TodoInv, AtomicInv, OnlyGivenPins
<1>3. KeptTypes
  <2>1. 0 \in 0 .. CacheCounter
    BY TokenAssumption
  <2> QED
    BY <2>1 DEF Init, KeptTypes, Results
<1>4. AccountInv
  BY EmptyShaped, TokenAssumption DEF Init, LockInit, AccountInv, Account
<1>5. SignInv
  BY DEF Init, SignInv, AtOneOf
<1> QED
  BY <1>2, <1>3, <1>4, <1>5 DEF TokenInv

LEMMA TokenStutter ==
  ASSUME TokenInv, UNCHANGED vars
  PROVE  TokenInv'
<1> USE DEF TokenInv, vars, lockVars, cardVars, loginVars, pinVars
<1>1. TodoInv' /\ PinInv' /\ AtomicInv'
  BY DEF TodoInv, PinInv, AtomicInv, OnlyGivenPins, AtOneOf
<1>2. KeptTypes' /\ SignInv'
  BY DEF KeptTypes, SignInv, AtOneOf
<1>3. AccountInv'
  BY DEF AccountInv, Account
<1> QED
  BY <1>1, <1>2, <1>3

LEMMA TokenInvariant == Spec => [](TokenInv /\ LockInv)
<1>1. TokenInv /\ LockInv /\ [Next]_vars => TokenInv'
  <2>1. LockInv => LockTypeOK
    BY DEF LockInv
  <2> QED
    BY <2>1, TokenStutter, TodoNext, PinNext, AtomicNext, KeptNext, AccountNext, SignNext
       DEF TokenInv
<1> QED
  BY <1>1, TokenInit, CallsUseLock, LockInvariant, PTL DEF Spec

(* Every variable has its type at all times; among the types, the use      *)
(* count of a cached PIN never passes pin_cache_counter.                   *)
THEOREM TokenTypeCorrect == Spec => []TypeOK
<1>1. ASSUME TokenInv, LockInv
      PROVE  TypeOK
  <2>1. ASSUME NEW p \in Procs
        PROVE  locked[p] \in 0 .. MaxLocked
    <3>1. Count(todo[p], "lock_card") \in Nat
      BY <1>1, ShapedFacts DEF TokenInv, AccountInv, Account
    <3>2. locked[p] \in Nat /\ locked[p] + Count(todo[p], "lock_card") <= MaxLocked
      BY <1>1 DEF TokenInv, AccountInv, Account, KeptTypes
    <3> QED
      BY <3>1, <3>2, TokenAssumption
  <2>2. locked \in [Procs -> 0 .. MaxLocked]
    BY <1>1, <2>1 DEF TokenInv, KeptTypes
  <2> QED
    BY <1>1, <2>2 DEF TypeOK, TokenInv, LockInv, KeptTypes, TodoInv, PinInv
<1> QED
  BY <1>1, TokenInvariant, PTL

(* After C_Logout, C_Finalize or a crash, no process has a PIN left that   *)
(* it could present to the card, in the cache or among the saved logins.   *)
THEOREM NoPinAfterLogout == Spec => []OnlyGivenPins
<1>1. TokenInv => OnlyGivenPins
  BY DEF TokenInv, PinInv
<1> QED
  BY <1>1, TokenInvariant, PTL

(* card->lock_count is at all times what the login and the calls in        *)
(* progress have locked, whatever fails on the way: no call leaves the     *)
(* card locked, unlocks it for another, or leaves its mutex locked.        *)
THEOREM LockIsAccounted == Spec => []LockAccounted
<1>1. ASSUME TokenInv
      PROVE  LockAccounted
  <2>1. ASSUME NEW p \in Procs
        PROVE  lock_count[p] = locked[p] + Depth(p)
    <3>1. todo[p] \in Seq(Steps) /\ lock_count[p] = locked[p] + Open(todo[p], 1)
      BY <1>1 DEF TokenInv, TodoInv, AccountInv, Account
    <3>2. Depth(p) = Open(todo[p], 1)
      BY <3>1, CountIsFromFirst DEF Depth, Open
    <3> QED
      BY <3>1, <3>2
  <2> QED
    BY <1>1, <2>1 DEF LockAccounted, TokenInv, AccountInv
<1> QED
  BY <1>1, TokenInvariant, PTL

LEMMA CommandHasLock ==
  ASSUME TokenInv, NEW p \in Procs, AtOneOf(p, Commands)
  PROVE  lock_count[p] > 0
<1> DEFINE s == todo[p]
<1>1. /\ Shaped(s) /\ s # <<>> /\ s[1] \in Commands
      /\ lock_count[p] = locked[p] + Open(s, 1) /\ locked[p] \in Nat
  BY DEF TokenInv, AccountInv, Account, KeptTypes, AtOneOf, Shaped
<1>2. Open(s, 1) \in Int
  BY <1>1, ShapedFacts
<1> HIDE DEF s
<1>3. 1 \in 1 .. Len(s)
  BY <1>1 DEF Shaped
<1>4. Open(s, 1) >= 1
  BY <1>1, <1>3 DEF Shaped, Needed
<1> QED
  BY <1>1, <1>2, <1>4

(* No command goes to the card outside a section that sc_lock opened.      *)
THEOREM CommandsLocked ==
  Spec => [](\A p \in Procs : AtOneOf(p, Commands) => lock_count[p] > 0)
<1>1. TokenInv => \A p \in Procs : AtOneOf(p, Commands) => lock_count[p] > 0
  BY CommandHasLock
<1> QED
  BY <1>1, TokenInvariant, PTL

(* A signature is made with the security environment of the process that   *)
(* asked for it, unless it was told that it had lost the card.             *)
THEOREM SignsWithOwnEnv == Spec => []EnvIsOwn
<1>1. ASSUME TokenInv, LockInv
      PROVE  EnvIsOwn
  <2> SUFFICES ASSUME NEW p \in Procs, AtOneOf(p, Signs), Reaches(p), ~told[p]
               PROVE  env = p
    BY DEF EnvIsOwn
  <2>1. AtOneOf(p, Commands)
    BY DEF AtOneOf, Signs, Commands
  <2>2. lock_count[p] > 0 /\ ~stale[p]
    BY <1>1, <2>1, CommandHasLock DEF Reaches
  <2>3. txn = p
    BY <1>1, <2>2 DEF LockInv, LossIsNoticed
  <2> QED
    BY <1>1, <2>3 DEF TokenInv, SignInv
<1> QED
  BY <1>1, TokenInvariant, PTL

(* A login under `lock_login' keeps the other processes out until the      *)
(* logout, unless the card was lost.                                       *)
THEOREM LoginKeepsCard == Spec => []LoginHolds
<1>1. ASSUME TokenInv, LockInv
      PROVE  LoginHolds
  <2> SUFFICES ASSUME NEW p \in Procs, loggedIn[p], conf[p].lock_login
               PROVE  txn = p \/ stale[p] \/ told[p]
    BY DEF LoginHolds
  <2>1. /\ Shaped(todo[p]) /\ lock_count[p] = locked[p] + Open(todo[p], 1)
        /\ locked[p] > 0 /\ locked[p] \in Nat
    BY <1>1 DEF TokenInv, AccountInv, Account, KeptTypes
  <2>2. Open(todo[p], 1) \in Int /\ Open(todo[p], 1) >= 0
    <3>1. CASE todo[p] = <<>>
      BY <3>1, EmptyShaped
    <3>2. CASE todo[p] # <<>>
      <4>1. 1 \in 1 .. Len(todo[p])
        BY <2>1, <3>2 DEF Shaped
      <4>2. Open(todo[p], 1) \in Int /\ Open(todo[p], 1) >= Needed(todo[p][1])
        BY <2>1, <4>1, ShapedFacts DEF Shaped
      <4> QED
        BY <4>2 DEF Needed
    <3> QED
      BY <3>1, <3>2
  <2>3. lock_count[p] > 0
    BY <2>1, <2>2
  <2> QED
    BY <1>1, <2>3 DEF LockInv, LossIsNoticed
<1> QED
  BY <1>1, TokenInvariant, PTL
=============================================================================
