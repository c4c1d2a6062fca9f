-------------------------- MODULE SlotEventsProofs --------------------------
(* Proofs about SlotEvents, for any readers, any number of card changes    *)
(* and of retries: the type invariant, that the single event a slot can    *)
(* hold never leaves the application with a token it was not told of, and  *)
(* that cards which come one at a time are noticed while retries last.     *)
EXTENDS SlotEvents, FiniteSetTheorems, WellFoundedInduction, TLAPS

Less == {pair \in Nat \X Nat : pair[1] < pair[2]}

LEMMA LessIsWellFounded == IsWellFoundedOn(Less, Nat)
BY NatLessThanWellFounded DEF OpToRel, Less

(* MinOf is defined for every set of numbers that is not empty.            *)
LEMMA MinOfIsIn ==
  ASSUME NEW S, S \subseteq Nat, S # {}
  PROVE  MinOf(S) \in S
<1>1. PICK x \in S : \A y \in S : ~ (<<y, x>> \in Less)
  BY LessIsWellFounded, WFMin, Zenon
<1>2. ASSUME NEW y \in S
      PROVE  x <= y
  <2>1. ~ (<<y, x>> \in Less)
    BY <1>1
  <2>2. x \in Nat /\ y \in Nat
    OBVIOUS
  <2>3. y < x => <<y, x>> \in Less
    BY <2>2, SMT DEF Less
  <2>4. QED
    BY <2>1, <2>2, <2>3, SMT
<1>3. \E z \in S : \A y \in S : z <= y
  BY <1>2
<1>4. QED
  BY <1>3, Zenon DEF MinOf

(* Connecting and binding are for a slot without a token.                  *)
BindsEmpty ==
  call.readers # {} /\ call.at \in {"connect", "bind"} => ~shown[This]

(* An event of an insertion is pending for a slot with a token only.       *)
InsertedIsShown == \A r \in Readers : events[r] = "inserted" => shown[r]

IInv == TypeOK /\ BindsEmpty /\ InsertedIsShown /\ NoEventLost

(* The reader card_detect looks at is one of them.                         *)
LEMMA ThisIsReader ==
  ASSUME TypeOK, call.readers # {}
  PROVE  This \in Readers
<1>1. call.readers \subseteq Readers
  BY DEF TypeOK
<1>2. call.readers \subseteq Nat
  BY <1>1, WorldsAssumption
<1>3. QED
  BY <1>1, <1>2, MinOfIsIn DEF This

(* What is read of the events names readers only.                          *)
LEMMA ReadIsReaders ==
  ASSUME NEW s \in SUBSET Readers
  PROVE  Read(s) \in SUBSET Readers
BY DEF Read

THEOREM InitInv == Init => IInv
<1> SUFFICES ASSUME Init PROVE IInv
  OBVIOUS
<1>1. TypeOK
  <2>1. count \in [Readers -> Nat] /\ seen \in [Readers -> Nat]
    <3>1. 0..1 \subseteq Nat
      BY SMT
    <3>2. count \in [Readers -> 0..1]
      BY DEF Init
    <3>3. QED
      BY <3>1, <3>2 DEF Init
  <2>2. retry \in 0..Retries
    BY WorldsAssumption, SMT DEF Init
  <2>3. call \in [name : {"none", "C_Initialize", "C_GetSlotList", "C_WaitForSlotEvent"},
                  block : BOOLEAN, readers : SUBSET Readers,
                  at : {"none", "watch", "look", "connect", "bind"}, same : BOOLEAN]
    BY DEF Init, Begin, NoCall
  <2>4. QED
    BY <2>1, <2>2, <2>3 DEF Init, TypeOK
<1>2. BindsEmpty
  BY DEF Init, BindsEmpty, Begin, NoCall
<1>3. InsertedIsShown /\ NoEventLost
  BY DEF Init, InsertedIsShown, NoEventLost, Token
<1>4. QED
  BY <1>1, <1>2, <1>3 DEF IInv

(* A step that leaves the slots, and what the application knows, alone.    *)
LEMMA SlotsKept ==
  ASSUME InsertedIsShown, NoEventLost, UNCHANGED <<handle, shown, events, known>>
  PROVE  InsertedIsShown' /\ NoEventLost'
BY DEF InsertedIsShown, NoEventLost, Token

(* card_removed leaves a removal behind where there was a token.           *)
LEMMA RemovalIsTold ==
  ASSUME TypeOK, InsertedIsShown, NoEventLost, call.readers # {},
         CardRemoved, known' = known
  PROVE  /\ InsertedIsShown' /\ NoEventLost'
         /\ handle' \in [Readers -> Nat] /\ shown' \in [Readers -> BOOLEAN]
         /\ events' \in [Readers -> {"none", "inserted", "removed"}]
<1>1. This \in Readers
  BY ThisIsReader
<1>2. QED
  BY <1>1 DEF TypeOK, InsertedIsShown, NoEventLost, CardRemoved, Token

(* card_detect goes on with the next reader.                               *)
LEMMA DoneIsCall ==
  ASSUME TypeOK, Done
  PROVE  /\ call' \in [name : {"none", "C_Initialize", "C_GetSlotList", "C_WaitForSlotEvent"},
                       block : BOOLEAN, readers : SUBSET Readers,
                       at : {"none", "watch", "look", "connect", "bind"}, same : BOOLEAN]
         /\ call'.at = "watch"
BY DEF TypeOK, Done

LEMMA GoIsCall ==
  ASSUME TypeOK, NEW at \in {"connect", "bind"}, Go(at)
  PROVE  /\ call' \in [name : {"none", "C_Initialize", "C_GetSlotList", "C_WaitForSlotEvent"},
                       block : BOOLEAN, readers : SUBSET Readers,
                       at : {"none", "watch", "look", "connect", "bind"}, same : BOOLEAN]
         /\ call'.readers = call.readers
BY DEF TypeOK, Go

(* What the reader driver reads of PC/SC.                                  *)
LEMMA RefreshIsType ==
  ASSUME TypeOK, Refresh, count' = count, call.readers # {}
  PROVE  seen' \in [Readers -> Nat]
BY ThisIsReader DEF TypeOK, Refresh

LEMMA StepInv ==
  ASSUME IInv, [Next]_vars
  PROVE  IInv'
<1> USE DEF IInv
<1>1. ASSUME NEW r \in Readers, CardMoves(r) PROVE IInv'
  <2>1. TypeOK'
    BY <1>1 DEF CardMoves, TypeOK, waitVars
  <2>2. BindsEmpty'
    BY <1>1 DEF CardMoves, BindsEmpty, This
  <2>3. QED
    BY <1>1, <2>1, <2>2, SlotsKept DEF CardMoves
<1>2. CASE C_GetSlotList
  <2>1. TypeOK'
    BY <1>2 DEF C_GetSlotList, TypeOK, pcscVars, waitVars, Begin, NoCall
  <2>2. BindsEmpty'
    BY <1>2 DEF C_GetSlotList, BindsEmpty, Begin, NoCall
  <2>3. QED
    BY <1>2, <2>1, <2>2, SlotsKept DEF C_GetSlotList
<1>3. CASE C_WaitForSlotEvent
  <2>1. TypeOK'
    BY <1>3 DEF C_WaitForSlotEvent, TypeOK, pcscVars, waitVars, Begin, NoCall
  <2>2. BindsEmpty'
    BY <1>3 DEF C_WaitForSlotEvent, BindsEmpty, Begin, NoCall
  <2>3. QED
    BY <1>3, <2>1, <2>2, SlotsKept DEF C_WaitForSlotEvent
<1>4. CASE Wake
  <2>1. Read(states) \in SUBSET Readers
    BY ReadIsReaders DEF TypeOK
  <2>2. TypeOK'
    BY <1>4, <2>1 DEF Wake, TypeOK, pcscVars, Begin, NoCall
  <2>3. BindsEmpty'
    BY <1>4 DEF Wake, BindsEmpty, Begin, NoCall
  <2>4. QED
    BY <1>4, <2>2, <2>3, SlotsKept DEF Wake
<1>5. CASE CreateSlot
  <2>1. This \in Readers
    BY <1>5, ThisIsReader DEF CreateSlot, Looking
  <2>2. Read(WithCard(seen)) \in SUBSET Readers
    BY ReadIsReaders DEF WithCard
  <2>3. TypeOK'
    BY <1>5, <2>1, <2>2 DEF CreateSlot, TypeOK, pcscVars, waitVars
  <2>4. BindsEmpty'
    BY <1>5 DEF CreateSlot, BindsEmpty, TypeOK
  <2>5. QED
    BY <1>5, <2>3, <2>4, SlotsKept DEF CreateSlot
<1>6. CASE Watch
  <2>1. This \in Readers
    BY <1>6, ThisIsReader DEF Watch, Looking
  <2>2. Read(watch[This]) \in SUBSET Readers
    BY <2>1, ReadIsReaders DEF TypeOK
  <2>3. TypeOK'
    <3>1. call' \in [name : {"none", "C_Initialize", "C_GetSlotList", "C_WaitForSlotEvent"},
                     block : BOOLEAN, readers : SUBSET Readers,
                     at : {"none", "watch", "look", "connect", "bind"}, same : BOOLEAN]
      BY <1>6 DEF Watch, TypeOK
    <3>2. watch' \in [Readers -> SUBSET Readers]
      BY <1>6, <2>1, <2>2 DEF Watch, TypeOK
    <3>3. QED
      BY <1>6, <3>1, <3>2 DEF Watch, TypeOK, pcscVars, waitVars
  <2>4. BindsEmpty'
    BY <1>6 DEF Watch, BindsEmpty, TypeOK
  <2>5. QED
    BY <1>6, <2>3, <2>4, SlotsKept DEF Watch
<1>7. CASE LookAbsent
  <2>1. call.readers # {} /\ CardRemoved /\ Done /\ Refresh
    BY <1>7 DEF LookAbsent, Looking
  <2>2. TypeOK'
    BY <1>7, <2>1, RemovalIsTold, DoneIsCall, RefreshIsType
       DEF LookAbsent, TypeOK, pcscVars, waitVars
  <2>3. BindsEmpty'
    BY <2>1, DoneIsCall DEF BindsEmpty
  <2>4. QED
    BY <1>7, <2>1, <2>2, <2>3, RemovalIsTold DEF LookAbsent
<1>8. CASE LookSame
  <2>1. call.readers # {} /\ Done /\ Refresh
    BY <1>8 DEF LookSame, Looking
  <2>2. TypeOK'
    BY <1>8, <2>1, DoneIsCall, RefreshIsType, ThisIsReader
       DEF LookSame, TypeOK, pcscVars, waitVars
  <2>3. BindsEmpty'
    BY <2>1, DoneIsCall DEF BindsEmpty
  <2>4. QED
    BY <1>8, <2>2, <2>3, SlotsKept DEF LookSame
<1>9. CASE LookAgain
  <2>1. call.readers # {} /\ CardRemoved /\ Refresh /\ call.at = "look"
    BY <1>9 DEF LookAgain, LookChanged, Looking
  <2>2. TypeOK'
    BY <1>9, <2>1, RemovalIsTold, RefreshIsType, WorldsAssumption
       DEF LookAgain, TypeOK, pcscVars, waitVars
  <2>3. BindsEmpty'
    BY <1>9, <2>1 DEF LookAgain, BindsEmpty
  <2>4. QED
    BY <1>9, <2>1, <2>2, <2>3, RemovalIsTold DEF LookAgain
<1>10. CASE LookGivesUp
  <2>1. call.readers # {} /\ CardRemoved /\ Done /\ Refresh
    BY <1>10 DEF LookGivesUp, LookChanged, Looking
  <2>2. TypeOK'
    <3>1. retry' \in 0..Retries
      BY <1>10, WorldsAssumption, SMT DEF LookGivesUp
    <3>2. missed' \in SUBSET Readers
      BY <1>10, <2>1, ThisIsReader DEF LookGivesUp, TypeOK
    <3>3. known' = known
      BY <1>10 DEF LookGivesUp
    <3>4. /\ handle' \in [Readers -> Nat] /\ shown' \in [Readers -> BOOLEAN]
          /\ events' \in [Readers -> {"none", "inserted", "removed"}]
      BY <2>1, <3>3, RemovalIsTold
    <3>5. seen' \in [Readers -> Nat]
      BY <1>10, <2>1, RefreshIsType DEF LookGivesUp, pcscVars
    <3>6. QED
      BY <1>10, <2>1, <3>1, <3>2, <3>4, <3>5, DoneIsCall
         DEF LookGivesUp, TypeOK, pcscVars, waitVars
  <2>3. BindsEmpty'
    BY <2>1, DoneIsCall DEF BindsEmpty
  <2>4. QED
    BY <1>10, <2>1, <2>2, <2>3, RemovalIsTold DEF LookGivesUp
<1>11. CASE LookFound
  <2>1. call.readers # {} /\ Refresh /\ This \in Readers
    BY <1>11, ThisIsReader DEF LookFound, Looking
  <2>2. TypeOK'
    BY <1>11, <2>1, DoneIsCall, GoIsCall, RefreshIsType
       DEF LookFound, TypeOK, pcscVars, waitVars
  <2>3. BindsEmpty'
    <3>1. CASE shown[This]
      BY <1>11, <3>1, DoneIsCall DEF LookFound, BindsEmpty
    <3>2. CASE ~shown[This]
      BY <1>11, <3>2, GoIsCall DEF LookFound, BindsEmpty, This
    <3>3. QED
      BY <3>1, <3>2
  <2>4. QED
    BY <1>11, <2>2, <2>3, SlotsKept DEF LookFound
<1>12. CASE Connect
  <2>1. call.readers # {} /\ Refresh /\ This \in Readers /\ call.at = "connect"
    BY <1>12, ThisIsReader DEF Connect, Looking
  <2>2. ~shown[This]
    BY <2>1 DEF BindsEmpty
  <2>3. handle' \in [Readers -> Nat]
    BY <1>12, <2>1 DEF Connect, Card, TypeOK
  <2>4. TypeOK'
    BY <1>12, <2>1, <2>3, DoneIsCall, GoIsCall, RefreshIsType
       DEF Connect, TypeOK, pcscVars, waitVars
  <2>5. BindsEmpty'
    <3>1. CASE HasCard(count[This])
      BY <1>12, <2>2, <3>1, GoIsCall DEF Connect, BindsEmpty, This
    <3>2. CASE ~HasCard(count[This])
      BY <1>12, <3>2, DoneIsCall DEF Connect, BindsEmpty
    <3>3. QED
      BY <3>1, <3>2
  <2>6. InsertedIsShown' /\ NoEventLost'
    BY <1>12, <2>2, <2>3 DEF Connect, InsertedIsShown, NoEventLost, Token, TypeOK
  <2>7. QED
    BY <2>4, <2>5, <2>6
<1>13. CASE Bind
  <2>1. call.readers # {} /\ This \in Readers /\ Done
    BY <1>13, ThisIsReader DEF Bind, Looking
  <2>2. TypeOK'
    BY <1>13, <2>1, DoneIsCall DEF Bind, TypeOK, pcscVars, waitVars
  <2>3. BindsEmpty'
    BY <2>1, DoneIsCall DEF BindsEmpty
  <2>4. InsertedIsShown' /\ NoEventLost'
    BY <1>13, <2>1 DEF Bind, InsertedIsShown, NoEventLost, Token, TypeOK
  <2>5. QED
    BY <2>2, <2>3, <2>4
<1>14. CASE BindFails
  <2>1. call.readers # {} /\ This \in Readers /\ Done /\ call.at = "bind"
    BY <1>14, ThisIsReader DEF BindFails, Looking
  <2>2. ~shown[This]
    BY <2>1 DEF BindsEmpty
  <2>3. TypeOK'
    BY <1>14, <2>1, DoneIsCall DEF BindFails, TypeOK, pcscVars, waitVars
  <2>4. BindsEmpty'
    BY <2>1, DoneIsCall DEF BindsEmpty
  <2>5. InsertedIsShown' /\ NoEventLost'
    BY <1>14, <2>1, <2>2 DEF BindFails, InsertedIsShown, NoEventLost, Token, TypeOK
  <2>6. QED
    BY <2>3, <2>4, <2>5
<1>15. CASE Return
  <2>1. TypeOK'
    BY <1>15 DEF Return, TypeOK, pcscVars, waitVars, NoCall
  <2>2. BindsEmpty'
    BY <1>15 DEF Return, BindsEmpty, NoCall
  <2>3. QED
    BY <1>15, <2>1, <2>2, SlotsKept DEF Return
<1>16. CASE ReportEvent
  <2> DEFINE s == MinOf(WithEvent)
  <2>1. s \in Readers
    <3>1. WithEvent \subseteq Readers /\ WithEvent # {}
      BY <1>16 DEF ReportEvent, WithEvent
    <3>2. WithEvent \subseteq Nat
      BY <3>1, WorldsAssumption
    <3>3. QED
      BY <3>1, <3>2, MinOfIsIn
  <2>2. ASSUME NEW r \in Readers
        PROVE  Event(r) = events[r]
    BY DEF Event, InsertedIsShown
  <2>3. /\ events' = [events EXCEPT ![s] = "none"]
        /\ known' = [known EXCEPT ![s] = Token(s)]
    <3>1. events' = [r \in Readers |-> IF r < s THEN Event(r)
                                       ELSE IF r = s THEN "none" ELSE events[r]]
      BY <1>16 DEF ReportEvent
    <3>2. ASSUME NEW r \in Readers
          PROVE  events'[r] = IF r = s THEN "none" ELSE events[r]
      <4>1. r \in Nat /\ s \in Nat
        BY <2>1, WorldsAssumption
      <4>2. ~ (s < s)
        BY <4>1, SMT
      <4>3. QED
        BY <2>2, <3>1, <4>2, Zenon
    <3>3. events \in [Readers -> {"none", "inserted", "removed"}]
      BY DEF TypeOK
    <3>4. events' = [events EXCEPT ![s] = "none"]
      BY <3>1, <3>2, <3>3, Zenon
    <3>5. QED
      BY <1>16, <3>4 DEF ReportEvent
  <2>4. TypeOK'
    BY <1>16, <2>1, <2>3 DEF ReportEvent, TypeOK, pcscVars, NoCall, Token
  <2>5. BindsEmpty'
    BY <1>16 DEF ReportEvent, BindsEmpty, NoCall
  <2>6. InsertedIsShown' /\ NoEventLost'
    <3>1. shown' = shown /\ handle' = handle
      BY <1>16 DEF ReportEvent
    <3>2. QED
      BY <2>1, <2>3, <3>1 DEF TypeOK, InsertedIsShown, NoEventLost, Token
  <2>7. QED
    BY <2>4, <2>5, <2>6
<1>17. CASE NoEvent
  <2>1. ASSUME NEW r \in Readers
        PROVE  Event(r) = events[r]
    BY DEF Event, InsertedIsShown
  <2>2. events' = events
    BY <1>17, <2>1 DEF NoEvent, TypeOK
  <2>3. TypeOK'
    BY <1>17, <2>2 DEF NoEvent, TypeOK, pcscVars, NoCall
  <2>4. BindsEmpty'
    BY <1>17 DEF NoEvent, BindsEmpty, NoCall
  <2>5. QED
    BY <1>17, <2>2, <2>3, <2>4, SlotsKept DEF NoEvent
<1>18. CASE EnterWait
  <2>1. TypeOK'
    BY <1>18 DEF EnterWait, TypeOK, pcscVars, WithCard
  <2>2. BindsEmpty'
    BY <1>18 DEF EnterWait, BindsEmpty, This
  <2>3. QED
    BY <1>18, <2>1, <2>2, SlotsKept DEF EnterWait
<1>19. CASE UNCHANGED vars
  <2>1. TypeOK'
    BY <1>19 DEF vars, TypeOK, pcscVars, waitVars
  <2>2. BindsEmpty'
    BY <1>19 DEF vars, BindsEmpty, This
  <2>3. QED
    BY <1>19, <2>1, <2>2, SlotsKept DEF vars
<1>20. QED
  BY <1>1, <1>2, <1>3, <1>4, <1>5, <1>6, <1>7, <1>8, <1>9, <1>10, <1>11, <1>12,
     <1>13, <1>14, <1>15, <1>16, <1>17, <1>18, <1>19 DEF Next, Progress

THEOREM SlotEventsInv == Spec => []IInv
<1>1. IInv /\ [Next]_vars => IInv'
  BY StepInv
<1>2. QED
  BY InitInv, <1>1, PTL DEF Spec

(* The variables of card detection and of the waiting call keep their      *)
(* types.                                                                  *)
THEOREM SlotsTypeCorrect == Spec => []TypeOK
<1>1. IInv => TypeOK
  BY DEF IInv
<1>2. QED
  BY SlotEventsInv, <1>1, PTL

(* slot->events holds one event, which slot_find_changed takes away, and   *)
(* C_GetSlotList may bind or remove cards in between: the application is   *)
(* never left with a token it was not told of.                             *)
THEOREM EventsAreKept == Spec => []NoEventLost
<1>1. IInv => NoEventLost
  BY DEF IInv
<1>2. QED
  BY SlotEventsInv, <1>1, PTL

-----------------------------------------------------------------------------
(* Slow cards: one change at a time, after which the module settles.       *)

Slow == world.slow /\ ~world.faults /\ ~world.poller

(* The slot does not show what is in the reader.                           *)
Due(r) == Token(r) # Card(r)

(* The readers whose slots have still to be told of events.                *)
Unwatched == {r \in call.readers : r # This \/ call.at = "watch"}

(* C_WaitForSlotEvent is about to wake.                                    *)
Waking == call = NoCall /\ wait = "waiting" /\ Moved(states) # {}

(* Cards put in since the reader was looked at.                            *)
LateCards == {r \in Readers : HasCard(count[r]) /\ seen[r] # count[r]}

(* A slot's own look at the readers is at most one event behind, and up to *)
(* date once card_detect has asked for events.                             *)
WatchesFollow ==
  /\ \A r \in Readers \ Unwatched : Moved(watch[r]) = {} \/ Waking
  /\ call.name # "C_Initialize" =>
       \A r \in Readers : \A a, b \in Moved(watch[r]) : a = b

(* Whoever waits will be woken, and the slot told of its event and no other, *)
Awaited(r) ==
  /\ call = NoCall /\ wait = "waiting"
  /\ Moved(states) = {r} /\ Moved(watch[r]) = {r}

(* the call under way has still to come to the reader,                     *)
ToWatch(r) ==
  r \in Unwatched /\ (call.name = "C_Initialize" \/ Moved(watch[r]) = {r})

(* or is there and does not take it for unchanged.                         *)
LookedAt(r) ==
  /\ call.readers # {} /\ r = This
  /\ \/ call.at = "look" /\ ~call.same
     \/ call.at \in {"connect", "bind"}

DueIsNoticed ==
  \A r \in Readers : Due(r) => Awaited(r) \/ ToWatch(r) \/ LookedAt(r)

(* The reader driver is right about every reader but the one whose card    *)
(* has moved, and a card is bound only if it is the one in the reader.     *)
SeenIsRight ==
  /\ \A r \in Readers : Due(r) \/ seen[r] = count[r]
  /\ \A r \in Readers : HasCard(count[r]) /\ seen[r] = count[r] => handle[r] \in {0, count[r]}
  /\ \A r \in Readers : shown[r] => handle[r] # 0
  /\ call.name = "C_Initialize" => seen = count
  /\ call.readers # {} /\ call.at \in {"connect", "bind"}
       => HasCard(count[This]) /\ seen[This] = count[This]
  /\ call.readers # {} /\ call.at = "bind" => handle[This] = count[This]

(* Every card has cost one retry at most, and a late one none yet.         *)
RetriesLast ==
  /\ \A a, b \in LateCards : a = b
  /\ Retries - retry + (IF LateCards = {} THEN 0 ELSE 1) <= Cardinality(Cards)

Noticing == WatchesFollow /\ DueIsNoticed /\ SeenIsRight /\ RetriesLast /\ missed = {}

SlowInv ==
  /\ IsFiniteSet(Cards)
  /\ Slow /\ Cardinality(Cards) <= Retries => Noticing

(* A slot told of all events up to the first one is up to date when there  *)
(* was no other.                                                           *)
LEMMA ReadCatchesUp ==
  ASSUME NEW s \in SUBSET Readers, \A a, b \in Moved(s) : a = b
  PROVE  Moved(Read(s)) = {}
<1>1. CASE Moved(s) = {}
  BY <1>1 DEF Read
<1>2. CASE Moved(s) # {}
  <2> DEFINE x == MinOf(Moved(s))
  <2>1. x \in Moved(s)
    <3>1. Moved(s) \subseteq Nat
      BY WorldsAssumption DEF Moved
    <3> QED
      BY <1>2, <3>1, MinOfIsIn
  <2> HIDE DEF x
  <2>2. Read(s) = {r \in Readers : IF r <= x THEN HasCard(count[r]) ELSE r \in s}
    BY <1>2 DEF Read, x
  <2>3. ASSUME NEW r \in Readers, ~(r <= x)
        PROVE  HasCard(count[r]) <=> r \in s
    <3>1. r # x
      BY <2>1, <2>3, WorldsAssumption DEF Moved
    <3>2. r \notin Moved(s)
      BY <2>1, <3>1
    <3> QED
      BY <3>2 DEF Moved, HasCard
  <2>4. ASSUME NEW r \in Readers
        PROVE  HasCard(count[r]) <=> r \in Read(s)
    BY <2>2, <2>3
  <2> QED
    BY <2>4 DEF Moved, HasCard
<1> QED
  BY <1>1, <1>2

(* A reader without news stays without news.                               *)
LEMMA MovedKept ==
  ASSUME count' = count, watch' = watch
  PROVE  \A r \in Readers : Moved(watch[r])' = Moved(watch[r])
BY DEF Moved

(* card_detect has done with a reader, or goes on with it.                 *)
LEMMA UnwatchedKept ==
  ASSUME TypeOK, call.at # "watch", call.readers # {},
         Done \/ (\E at \in {"connect", "bind"} : Go(at)) \/ call' = call
  PROVE  /\ Unwatched' = Unwatched /\ call'.name = call.name
         /\ Unwatched = call.readers \ {This}
<1>1. Unwatched = call.readers \ {This}
  BY DEF Unwatched
<1>2. CASE Done
  <2>1. /\ call'.readers = call.readers \ {This} /\ call'.at = "watch"
        /\ call'.name = call.name
    BY <1>2 DEF Done, TypeOK
  <2> QED
    BY <1>1, <2>1 DEF Unwatched
<1>3. CASE (\E at \in {"connect", "bind"} : Go(at)) \/ call' = call
  <2>1. call'.readers = call.readers /\ call'.at # "watch" /\ call'.name = call.name
    BY <1>3 DEF Go, TypeOK
  <2> QED
    BY <1>1, <2>1 DEF Unwatched, This
<1> QED
  BY <1>2, <1>3

(* A step of card_detect at the reader This, past its watch: the slots of  *)
(* the others stay as they are, and so do the events they wait for.        *)
LEMMA LookKeeps ==
  ASSUME TypeOK, Noticing, call.readers # {}, call.at # "watch",
         NEW t \in Readers, t = This,
         Done \/ (\E at \in {"connect", "bind"} : Go(at)) \/ call' = call,
         UNCHANGED <<count, watch>>,
         \A r \in Readers \ {t} : handle'[r] = handle[r] /\ shown'[r] = shown[r],
         Due(t)' => LookedAt(t)'
  PROVE  WatchesFollow' /\ DueIsNoticed'
<1>1. /\ Unwatched' = Unwatched /\ call'.name = call.name
      /\ Unwatched = call.readers \ {This}
  BY UnwatchedKept
<1>2. \A r \in Readers : Moved(watch[r])' = Moved(watch[r])
  BY MovedKept
<1>3. call # NoCall
  BY DEF NoCall
<1>4. WatchesFollow'
  BY <1>1, <1>2, <1>3 DEF Noticing, WatchesFollow, Waking
<1>5. ASSUME NEW r \in Readers, Due(r)'
      PROVE  ToWatch(r)' \/ LookedAt(r)'
  <2>1. CASE r = t
    BY <1>5, <2>1
  <2>2. CASE r # t
    <3>1. Due(r)
      BY <1>5, <2>2 DEF Due, Token, Card
    <3>2. ToWatch(r)
      BY <1>3, <2>2, <3>1 DEF Noticing, DueIsNoticed, Awaited, LookedAt
    <3> QED
      BY <1>1, <1>2, <3>2 DEF ToWatch
  <2> QED
    BY <2>1, <2>2
<1> QED
  BY <1>4, <1>5 DEF DueIsNoticed

(* What a look that leaves the late cards as they are does to the retries. *)
LEMMA RetriesKept ==
  ASSUME RetriesLast, UNCHANGED <<count, retry>>, LateCards' = LateCards
  PROVE  RetriesLast'
BY DEF RetriesLast, Cards

(* Such a step looks at the reader, and keeps no card but the one there.   *)
LEMMA LookSees ==
  ASSUME TypeOK, SeenIsRight, NEW t \in Readers,
         count' = count, call'.name = call.name,
         \A r \in Readers \ {t} :
            handle'[r] = handle[r] /\ shown'[r] = shown[r] /\ seen'[r] = seen[r],
         seen' \in [Readers -> Nat], seen'[t] = count[t],
         HasCard(count[t]) => handle'[t] \in {0, count[t]},
         shown'[t] => handle'[t] # 0,
         call'.readers # {} /\ call'.at \in {"connect", "bind"}
           => This' = t /\ HasCard(count[t]),
         call'.readers # {} /\ call'.at = "bind" => handle'[t] = count[t]
  PROVE  SeenIsRight'
<1>1. \A r \in Readers \ {t} : Due(r)' <=> Due(r)
  BY DEF Due, Token, Card
<1>2. call'.name = "C_Initialize" => seen' = count
  BY DEF SeenIsRight, TypeOK
<1> QED
  BY <1>1, <1>2 DEF SeenIsRight

(* One that does not find a late card keeps the retries.                   *)
LEMMA LookCosts ==
  ASSUME RetriesLast, NEW t \in Readers, t \notin LateCards,
         UNCHANGED <<count, retry>>, seen'[t] = count[t],
         \A r \in Readers \ {t} : seen'[r] = seen[r]
  PROVE  RetriesLast'
<1>1. LateCards' = LateCards
  BY DEF LateCards
<1> QED
  BY <1>1, RetriesKept

LEMMA SlowStep ==
  ASSUME IInv, Slow, IsFiniteSet(Cards), Cardinality(Cards) <= Retries, Noticing,
         [Next]_vars, \A r \in Readers : ~CardMoves(r)
  PROVE  Noticing'
<1>typed. TypeOK
  BY DEF IInv
<1>not. /\ call.readers # {} => call # NoCall /\ This \in Readers
        /\ NoCall.name = "none" /\ NoCall.readers = {}
  BY <1>typed, ThisIsReader DEF NoCall
<1>due. call.readers # {} \/ wait # "waiting" \/ call # NoCall =>
          \A r \in Readers : Due(r) => ToWatch(r) \/ LookedAt(r)
  BY <1>not DEF Noticing, DueIsNoticed, Awaited
<1>1. CASE UNCHANGED vars
  BY <1>1 DEF vars, Noticing, WatchesFollow, Unwatched, Waking, Moved, DueIsNoticed,
     Due, Token, Card, Awaited, ToWatch, LookedAt, SeenIsRight, RetriesLast,
     LateCards, Cards, This
<1>2. CASE C_GetSlotList \/ C_WaitForSlotEvent
  <2>1. /\ call = NoCall /\ wait = "no" /\ ~Waking
        /\ \E name \in {"C_GetSlotList", "C_WaitForSlotEvent"}, block \in BOOLEAN :
             call' = Begin(name, block)
        /\ UNCHANGED <<pcscVars, seen, handle, watch, shown, retry, missed>>
    BY <1>2 DEF C_GetSlotList, C_WaitForSlotEvent, Waking, Slow
  <2>2. call'.readers = Readers /\ call'.at = "watch" /\ call'.name # "C_Initialize"
    BY <2>1 DEF Begin, NoCall
  <2>3. \A r \in Readers : Moved(watch[r])' = Moved(watch[r])
    BY <2>1, MovedKept DEF pcscVars
  <2>4. Unwatched = {} /\ \A r \in Readers : Moved(watch[r]) = {} /\ ~Due(r)
    BY <1>due, <1>not, <2>1 DEF Unwatched, Noticing, WatchesFollow, ToWatch, LookedAt
  <2>5. WatchesFollow' /\ DueIsNoticed'
    <3>1. \A r \in Readers : ~Due(r)'
      BY <2>1, <2>4 DEF Due, Token, Card, pcscVars
    <3> QED
      BY <2>3, <2>4, <3>1 DEF WatchesFollow, DueIsNoticed
  <2>6. SeenIsRight' /\ RetriesLast' /\ missed' = {}
    <3>1. LateCards' = LateCards
      BY <2>1 DEF LateCards, pcscVars
    <3> QED
      BY <2>1, <2>2, <2>4, <3>1, RetriesKept
         DEF Noticing, SeenIsRight, Due, Token, Card, pcscVars
  <2> QED
    BY <2>5, <2>6 DEF Noticing
<1>3. CASE Wake
  <2>1. /\ call = NoCall /\ call' = Begin("C_WaitForSlotEvent", TRUE)
        /\ UNCHANGED <<pcscVars, seen, handle, watch, shown, retry, missed>>
    BY <1>3 DEF Wake
  <2>2. /\ call'.readers = Readers /\ call'.at = "watch"
        /\ call'.name = "C_WaitForSlotEvent" /\ Unwatched' = Readers
    BY <2>1 DEF Begin, NoCall, Unwatched
  <2>3. \A r \in Readers : Moved(watch[r])' = Moved(watch[r])
    BY <2>1, MovedKept DEF pcscVars
  <2>4. WatchesFollow'
    <3>1. call.name # "C_Initialize"
      BY <1>not, <2>1
    <3>2. \A r \in Readers : \A a, b \in Moved(watch[r]) : a = b
      BY <3>1 DEF Noticing, WatchesFollow
    <3> QED
      BY <2>2, <2>3, <3>2 DEF WatchesFollow
  <2>5. ASSUME NEW r \in Readers, Due(r)'
        PROVE  ToWatch(r)'
    <3>1. Due(r)
      BY <2>1, <2>5 DEF Due, Token, Card, pcscVars
    <3>2. Moved(watch[r]) = {r}
      BY <1>not, <2>1, <3>1
         DEF Noticing, DueIsNoticed, Awaited, ToWatch, LookedAt, Unwatched
    <3> QED
      BY <2>2, <2>3, <3>2 DEF ToWatch
  <2>6. SeenIsRight' /\ RetriesLast' /\ missed' = {}
    <3>1. LateCards' = LateCards
      BY <2>1 DEF LateCards, pcscVars
    <3> QED
      BY <2>1, <2>2, <3>1, RetriesKept
         DEF Noticing, SeenIsRight, Due, Token, Card, pcscVars
  <2> QED
    BY <2>4, <2>5, <2>6 DEF Noticing, DueIsNoticed
<1>4. CASE EnterWait
  <2>1. /\ wait = "entering" /\ ~Waking
        /\ UNCHANGED <<pcscVars, seen, handle, watch, shown, retry, call, missed>>
    BY <1>4 DEF EnterWait, Waking
  <2>2. \A r \in Readers : Moved(watch[r])' = Moved(watch[r])
    BY <2>1, MovedKept DEF pcscVars
  <2>3. Unwatched' = Unwatched
    BY <2>1 DEF Unwatched, This
  <2>4. WatchesFollow'
    BY <2>1, <2>2, <2>3 DEF Noticing, WatchesFollow
  <2>5. ASSUME NEW r \in Readers, Due(r)'
        PROVE  ToWatch(r)' \/ LookedAt(r)'
    <3>1. Due(r)
      BY <2>1, <2>5 DEF Due, Token, Card, pcscVars
    <3>2. ToWatch(r) \/ LookedAt(r)
      BY <2>1, <3>1 DEF Noticing, DueIsNoticed, Awaited
    <3> QED
      BY <2>1, <2>2, <2>3, <3>2 DEF ToWatch, LookedAt, This
  <2>6. SeenIsRight' /\ RetriesLast' /\ missed' = {}
    <3>1. LateCards' = LateCards
      BY <2>1 DEF LateCards, pcscVars
    <3> QED
      BY <2>1, <3>1, RetriesKept
         DEF Noticing, SeenIsRight, Due, Token, Card, pcscVars, This
  <2> QED
    BY <2>4, <2>5, <2>6 DEF Noticing, DueIsNoticed
<1>5. CASE Return \/ ReportEvent \/ NoEvent
  <2>1. /\ call.readers = {} /\ call # NoCall /\ call' = NoCall
        /\ UNCHANGED <<pcscVars, seen, handle, watch, shown, retry, missed>>
    BY <1>5, <1>not DEF Return, ReportEvent, NoEvent, Looked
  <2>2. \A r \in Readers : Moved(watch[r])' = Moved(watch[r])
    BY <2>1, MovedKept DEF pcscVars
  <2>3. Unwatched = {} /\ \A r \in Readers : Moved(watch[r]) = {} /\ ~Due(r)
    BY <1>due, <2>1 DEF Unwatched, Noticing, WatchesFollow, Waking, ToWatch, LookedAt
  <2>4. WatchesFollow' /\ DueIsNoticed'
    <3>1. \A r \in Readers : ~Due(r)'
      BY <2>1, <2>3 DEF Due, Token, Card, pcscVars
    <3> QED
      BY <2>2, <2>3, <3>1 DEF WatchesFollow, DueIsNoticed
  <2>5. SeenIsRight' /\ RetriesLast' /\ missed' = {}
    <3>1. LateCards' = LateCards
      BY <2>1 DEF LateCards, pcscVars
    <3> QED
      BY <1>not, <2>1, <3>1, RetriesKept
         DEF Noticing, SeenIsRight, Due, Token, Card, pcscVars
  <2> QED
    BY <2>4, <2>5 DEF Noticing
<1>6. CASE CreateSlot \/ Watch
  <2> PICK t \in Readers : t = This /\ call.readers # {} /\ call.at = "watch"
    BY <1>6, <1>not DEF CreateSlot, Watch, Looking
  <2>1. /\ call'.readers = call.readers /\ call'.at = "look" /\ call'.name = call.name
        /\ This' = This
        /\ UNCHANGED <<pcscVars, seen, handle, shown, retry, missed>>
    BY <1>6, <1>typed DEF CreateSlot, Watch, TypeOK, This
  <2>2. Unwatched = call.readers /\ Unwatched' = call.readers \ {t}
    BY <2>1 DEF Unwatched
  <2>3. \A r \in Readers \ {t} : Moved(watch[r])' = Moved(watch[r])
    BY <1>6, <1>typed, <2>1 DEF CreateSlot, Watch, TypeOK, Moved, pcscVars
  <2>4. \E s \in SUBSET Readers :
          /\ watch'[t] = Read(s) /\ \A a, b \in Moved(s) : a = b
    <3>1. CASE CreateSlot
      <4>1. seen = count
        BY <3>1 DEF CreateSlot, Noticing, SeenIsRight
      <4>2. Moved(WithCard(seen)) = {}
        BY <4>1 DEF Moved, WithCard, HasCard
      <4>3. watch'[t] = Read(WithCard(seen)) /\ WithCard(seen) \in SUBSET Readers
        BY <3>1, <1>typed DEF CreateSlot, TypeOK, WithCard
      <4> QED
        BY <4>2, <4>3
    <3>2. CASE Watch
      <4>1. watch'[t] = Read(watch[t]) /\ watch[t] \in SUBSET Readers
        BY <3>2, <1>typed DEF Watch, TypeOK
      <4>2. \A a, b \in Moved(watch[t]) : a = b
        BY <3>2 DEF Watch, Noticing, WatchesFollow
      <4> QED
        BY <4>1, <4>2
    <3> QED
      BY <1>6, <3>1, <3>2
  <2>5. Moved(watch[t])' = {}
    <3>1. Moved(watch'[t]) = {}
      BY <2>4, ReadCatchesUp
    <3> QED
      BY <2>1, <3>1 DEF Moved, pcscVars
  <2>6. WatchesFollow'
    <3>1. call # NoCall
      BY <1>not
    <3> QED
      BY <2>1, <2>2, <2>3, <2>5, <3>1 DEF Noticing, WatchesFollow, Waking
  <2>7. ASSUME NEW r \in Readers, Due(r)'
        PROVE  ToWatch(r)' \/ LookedAt(r)'
    <3>1. Due(r)
      BY <2>1, <2>7 DEF Due, Token, Card, pcscVars
    <3>2. ToWatch(r)
      BY <1>due, <3>1 DEF LookedAt
    <3>3. CASE r # t
      BY <2>1, <2>2, <2>3, <3>2, <3>3 DEF ToWatch
    <3>4. CASE r = t
      <4>1. ~call'.same
        <5>1. CASE CreateSlot
          BY <5>1, <1>typed DEF CreateSlot, TypeOK
        <5>2. CASE Watch
          <6>1. Moved(watch[t]) = {t}
            BY <3>2, <3>4, <5>2 DEF ToWatch, Watch
          <6>2. MinOf({t}) = t
            BY MinOfIsIn, WorldsAssumption
          <6>3. call'.same = (Moved(watch[t]) = {} \/ MinOf(Moved(watch[t])) # t)
            BY <5>2, <1>typed DEF Watch, TypeOK
          <6> QED
            BY <6>1, <6>2, <6>3
        <5> QED
          BY <1>6, <5>1, <5>2
      <4> QED
        BY <2>1, <3>4, <4>1 DEF LookedAt
    <3> QED
      BY <3>3, <3>4
  <2>8. SeenIsRight' /\ RetriesLast' /\ missed' = {}
    <3>1. LateCards' = LateCards
      BY <2>1 DEF LateCards, pcscVars
    <3> QED
      BY <2>1, <3>1, RetriesKept
         DEF Noticing, SeenIsRight, Due, Token, Card, pcscVars
  <2> QED
    BY <2>6, <2>7, <2>8 DEF Noticing, DueIsNoticed
<1>7. ASSUME NEW t \in Readers, t = This, call.readers # {}, call.at # "watch",
             \/ LookAbsent \/ LookSame \/ LookAgain \/ LookGivesUp \/ LookFound
             \/ Connect \/ Bind \/ BindFails
      PROVE  Noticing'
  <2>1. UNCHANGED <<count, watch>>
    BY <1>7 DEF LookAbsent, LookSame, LookAgain, LookGivesUp, LookFound, Connect,
       Bind, BindFails, pcscVars
  <2>2. call.at # "watch" /\ Due(t) => LookedAt(t)
    BY <1>due, <1>7 DEF ToWatch, Unwatched
  <2>3. /\ SeenIsRight /\ RetriesLast /\ missed = {}
        /\ Due(t) \/ seen[t] = count[t]
        /\ HasCard(count[t]) /\ seen[t] = count[t] => handle[t] \in {0, count[t]}
        /\ shown[t] => handle[t] # 0
    BY DEF Noticing, SeenIsRight
  <2>4. Done => call'.at = "watch" /\ call'.name = call.name
    BY <1>typed DEF Done, TypeOK
  <2>5. ASSUME NEW at \in {"connect", "bind"}, Go(at)
        PROVE  /\ call'.at = at /\ call'.name = call.name
               /\ call'.readers = call.readers /\ This' = t
    BY <1>typed, <1>7, <2>5 DEF Go, TypeOK, This
  <2>6. Refresh => /\ seen' \in [Readers -> Nat] /\ seen'[t] = count[t]
                   /\ \A r \in Readers \ {t} : seen'[r] = seen[r]
    BY <1>typed, <1>7 DEF Refresh, TypeOK
  <2>7. ASSUME Done \/ (\E at \in {"connect", "bind"} : Go(at)) \/ call' = call,
               \A r \in Readers \ {t} : handle'[r] = handle[r] /\ shown'[r] = shown[r],
               Due(t)' => LookedAt(t)'
        PROVE  WatchesFollow' /\ DueIsNoticed'
    BY <1>typed, <1>7, <2>1, <2>7, LookKeeps
  <2>8. HasCard(count[t]) => count[t] # 0
    BY DEF HasCard
  <2>9. CardRemoved => /\ handle'[t] = 0 /\ ~shown'[t]
                       /\ \A r \in Readers \ {t} :
                             handle'[r] = handle[r] /\ shown'[r] = shown[r]
    BY <1>typed, <1>7 DEF CardRemoved, TypeOK
  <2>10. CASE LookAbsent
    <3>1. /\ ~HasCard(count[t]) /\ Refresh /\ CardRemoved /\ Done
          /\ retry' = retry /\ missed' = {}
      BY <1>7, <2>3, <2>10 DEF LookAbsent
    <3>2. ~Due(t)'
      BY <2>1, <2>9, <3>1 DEF Due, Token, Card
    <3>3. t \notin LateCards
      BY <3>1 DEF LateCards
    <3>4. WatchesFollow' /\ DueIsNoticed'
      BY <2>7, <2>9, <3>1, <3>2
    <3>5. SeenIsRight'
      BY <1>typed, <2>1, <2>3, <2>4, <2>6, <2>9, <3>1, LookSees
    <3>6. RetriesLast'
      BY <2>1, <2>3, <2>6, <3>1, <3>3, LookCosts
    <3> QED
      BY <3>1, <3>4, <3>5, <3>6 DEF Noticing
  <2>11. CASE LookSame
    <3>1. /\ HasCard(count[t]) /\ call.same /\ Refresh /\ Done
          /\ UNCHANGED <<handle, shown, retry>>
          /\ missed' = IF Token(t) = Card(t) THEN missed ELSE missed \cup {t}
          /\ call.at = "look"
      BY <1>7, <2>11 DEF LookSame, Looking
    <3>2. ~Due(t)
      BY <2>2, <3>1 DEF LookedAt
    <3>3. seen[t] = count[t] /\ missed' = {} /\ ~Due(t)'
      BY <2>1, <2>3, <3>1, <3>2 DEF Due, Token, Card
    <3>4. WatchesFollow' /\ DueIsNoticed'
      BY <2>7, <3>1, <3>3
    <3>5. SeenIsRight'
      BY <1>typed, <2>1, <2>3, <2>4, <2>6, <3>1, <3>3, LookSees
    <3>6. RetriesLast'
      BY <2>1, <2>3, <2>6, <3>1, <3>3, LookCosts DEF LateCards
    <3> QED
      BY <3>3, <3>4, <3>5, <3>6 DEF Noticing
  <2>12. LookChanged => t \in LateCards /\ LateCards = {t}
    <3>1. SUFFICES ASSUME LookChanged PROVE t \in LateCards /\ LateCards = {t}
      OBVIOUS
    <3>2. HasCard(count[t]) /\ Changed(t)
      BY <1>7, <3>1 DEF LookChanged
    <3>3. t \in LateCards
      BY <2>3, <3>2 DEF Changed, LateCards
    <3> QED
      BY <2>3, <3>3 DEF RetriesLast
  <2>13. CASE LookAgain
    <3>1. /\ HasCard(count[t]) /\ ~call.same /\ Refresh /\ CardRemoved
          /\ LookChanged /\ retry > 0 /\ retry' = retry - 1
          /\ UNCHANGED <<call, missed>> /\ call.at = "look"
      BY <1>7, <2>13 DEF LookAgain, LookChanged, Looking
    <3>2. LookedAt(t)'
      BY <1>7, <3>1 DEF LookedAt, This
    <3>3. LateCards' = {}
      <4>1. t \notin LateCards'
        BY <2>1, <2>6, <3>1 DEF LateCards
      <4>2. \A r \in Readers \ {t} : r \in LateCards' <=> r \in LateCards
        BY <2>1, <2>6, <3>1 DEF LateCards
      <4>3. LateCards' \subseteq Readers
        BY DEF LateCards
      <4> QED
        BY <2>12, <3>1, <4>1, <4>2, <4>3
    <3>4. RetriesLast'
      <4>1. Cards' = Cards
        BY <2>1 DEF Cards
      <4>2. Retries - retry + 1 <= Cardinality(Cards)
        BY <2>3, <2>12, <3>1 DEF RetriesLast
      <4>3. retry \in Nat /\ Retries \in Nat
        BY <1>typed, WorldsAssumption DEF TypeOK
      <4>4. Retries - (retry - 1) + 0 = Retries - retry + 1
        BY <4>3
      <4>5. Retries - retry' + 0 <= Cardinality(Cards)'
        BY <3>1, <4>1, <4>2, <4>4
      <4> QED
        BY <3>3, <4>5 DEF RetriesLast
    <3>5. WatchesFollow' /\ DueIsNoticed'
      BY <2>7, <2>9, <3>1, <3>2
    <3>6. SeenIsRight'
      BY <1>typed, <2>1, <2>3, <2>6, <2>9, <3>1, LookSees
    <3> QED
      BY <2>3, <3>1, <3>4, <3>5, <3>6 DEF Noticing
  <2>14. CASE LookGivesUp
    <3>1. LookChanged /\ retry = 0
      BY <2>14 DEF LookGivesUp
    <3>2. Retries - 0 + 1 <= Cardinality(Cards)
      BY <2>3, <2>12, <3>1 DEF RetriesLast
    <3>3. Cardinality(Cards) \in Nat
      BY FS_CardinalityType
    <3> QED
      BY <3>2, <3>3, WorldsAssumption
  <2>15. CASE LookFound
    <3>1. /\ HasCard(count[t]) /\ ~call.same /\ Refresh /\ ~Changed(t)
          /\ IF shown[t] THEN Done ELSE Go("connect")
          /\ UNCHANGED <<handle, shown, retry, missed>>
      BY <1>7, <2>15 DEF LookFound
    <3>2. seen[t] = count[t] /\ handle[t] \in {0, count[t]}
      BY <3>1 DEF Changed
    <3>3. t \notin LateCards
      BY <3>2 DEF LateCards
    <3>4. Due(t)' => LookedAt(t)'
      <4>1. CASE shown[t]
        BY <2>1, <2>3, <3>1, <3>2, <4>1 DEF Due, Token, Card
      <4>2. CASE ~shown[t]
        BY <1>7, <2>5, <3>1, <4>2 DEF LookedAt
      <4> QED
        BY <4>1, <4>2
    <3>5. WatchesFollow' /\ DueIsNoticed'
      BY <2>7, <3>1, <3>4
    <3>6. SeenIsRight'
      <4>1. /\ call'.name = call.name
            /\ call'.readers # {} /\ call'.at \in {"connect", "bind"} => This' = t
            /\ call'.at # "bind"
        BY <2>4, <2>5, <3>1
      <4> QED
        BY <1>typed, <2>1, <2>3, <2>6, <3>1, <3>2, <4>1, LookSees
    <3>7. RetriesLast'
      BY <2>1, <2>3, <2>6, <3>1, <3>3, LookCosts
    <3> QED
      BY <2>3, <3>1, <3>5, <3>6, <3>7 DEF Noticing
  <2>16. CASE Connect
    <3>1. HasCard(count[t]) /\ seen[t] = count[t] /\ call.at = "connect"
      BY <1>7, <2>3, <2>16 DEF Connect, Looking, SeenIsRight
    <3>2. /\ Refresh /\ Go("bind") /\ UNCHANGED <<shown, retry, missed>>
          /\ handle' = [handle EXCEPT ![t] = count[t]]
      BY <1>7, <2>16, <3>1 DEF Connect, Card
    <3>3. /\ handle'[t] = count[t]
          /\ \A r \in Readers \ {t} : handle'[r] = handle[r] /\ shown'[r] = shown[r]
      BY <1>typed, <3>2 DEF TypeOK
    <3>4. LookedAt(t)'
      BY <1>7, <2>5, <3>2 DEF LookedAt
    <3>5. WatchesFollow' /\ DueIsNoticed'
      BY <2>7, <3>2, <3>3, <3>4
    <3>6. SeenIsRight'
      BY <1>typed, <2>1, <2>3, <2>5, <2>6, <2>8, <3>1, <3>2, <3>3, LookSees
    <3>7. RetriesLast'
      BY <2>1, <2>3, <2>6, <3>1, <3>2, LookCosts DEF LateCards
    <3> QED
      BY <2>3, <3>2, <3>5, <3>6, <3>7 DEF Noticing
  <2>17. CASE Bind
    <3>1. HasCard(count[t]) /\ seen[t] = count[t] /\ handle[t] = count[t]
      BY <1>7, <2>3, <2>17 DEF Bind, Looking, SeenIsRight
    <3>2. /\ Done /\ UNCHANGED <<seen, handle, retry>> /\ missed' = {}
          /\ shown' = [shown EXCEPT ![t] = TRUE]
      BY <1>7, <2>3, <2>17 DEF Bind
    <3>3. /\ shown'[t]
          /\ \A r \in Readers \ {t} : handle'[r] = handle[r] /\ shown'[r] = shown[r]
      BY <1>typed, <3>2 DEF TypeOK
    <3>4. ~Due(t)'
      BY <2>1, <3>1, <3>2, <3>3 DEF Due, Token, Card
    <3>5. WatchesFollow' /\ DueIsNoticed'
      BY <2>7, <3>2, <3>3, <3>4
    <3>6. SeenIsRight'
      <4>1. seen' \in [Readers -> Nat]
        BY <1>typed, <3>2 DEF TypeOK
      <4> QED
        BY <1>typed, <2>1, <2>3, <2>4, <2>8, <3>1, <3>2, <3>3, <4>1, LookSees
    <3>7. RetriesLast'
      BY <2>1, <2>3, <3>1, <3>2, LookCosts DEF LateCards
    <3> QED
      BY <3>2, <3>5, <3>6, <3>7 DEF Noticing
  <2>18. CASE BindFails
    BY <1>7, <2>3, <2>18 DEF BindFails, Looking, SeenIsRight, Slow
  <2> QED
    BY <1>7, <2>10, <2>11, <2>13, <2>14, <2>15, <2>16, <2>17, <2>18
<1>8. CASE \/ LookAbsent \/ LookSame \/ LookAgain \/ LookGivesUp \/ LookFound
           \/ Connect \/ Bind \/ BindFails
  <2>1. call.readers # {} /\ call.at # "watch"
    BY <1>8 DEF LookAbsent, LookSame, LookAgain, LookGivesUp, LookChanged, LookFound,
       Connect, Bind, BindFails, Looking
  <2>2. This \in Readers
    BY <1>not, <2>1
  <2> QED
    BY <1>7, <1>8, <2>1, <2>2
<1> QED
  BY <1>1, <1>2, <1>3, <1>4, <1>5, <1>6, <1>8 DEF Next, Progress

(* A change adds a card, with a name of its own, or none.                  *)
LEMMA CardsGrow ==
  ASSUME TypeOK, NEW x \in Readers, count' = [count EXCEPT ![x] = @ + 1]
  PROVE  /\ count'[x] = count[x] + 1 /\ \A r \in Readers \ {x} : count'[r] = count[r]
         /\ Cards' = IF HasCard(count'[x]) THEN Cards \cup {<<x, count'[x]>>} ELSE Cards
         /\ <<x, count'[x]>> \notin Cards
<1> DEFINE Of(r, c) == {<<r, n>> : n \in {m \in 1..c : HasCard(m)}}
<1>1. count'[x] = count[x] + 1 /\ \A r \in Readers \ {x} : count'[r] = count[r]
  BY DEF TypeOK
<1>2. count[x] \in Nat
  BY DEF TypeOK
<1>3. Cards = UNION {Of(r, count[r]) : r \in Readers}
  BY DEF Cards
<1>4. Cards' = UNION {Of(r, count'[r]) : r \in Readers}
  BY DEF Cards
<1>5. ASSUME NEW r, NEW c, NEW d
      PROVE  d \in Of(r, c) <=> \E m \in 1..c : HasCard(m) /\ d = <<r, m>>
  OBVIOUS
<1> HIDE DEF Of
<1>6. ASSUME NEW d
      PROVE  /\ d \in Cards <=> \E r \in Readers : d \in Of(r, count[r])
             /\ d \in Cards' <=> \E r \in Readers : d \in Of(r, count'[r])
  BY <1>3, <1>4
<1>7. ASSUME NEW d
      PROVE  d \in Of(x, count'[x])
               <=> d \in Of(x, count[x]) \/ (HasCard(count'[x]) /\ d = <<x, count'[x]>>)
  <2>1. \A m : m \in 1..(count[x] + 1) <=> m \in 1..count[x] \/ m = count[x] + 1
    BY <1>2
  <2> QED
    BY <1>1, <1>5, <2>1
<1>8. ASSUME NEW d
      PROVE  d \in Cards' <=> d \in Cards \/ (HasCard(count'[x]) /\ d = <<x, count'[x]>>)
  BY <1>1, <1>6, <1>7
<1>9. <<x, count'[x]>> \notin Cards
  <2>1. SUFFICES ASSUME NEW r \in Readers, NEW m \in 1..count[r],
                        <<x, count'[x]>> = <<r, m>>
                 PROVE  FALSE
    BY <1>5, <1>6
  <2>2. r = x /\ m = count[x] + 1
    BY <1>1, <2>1
  <2>3. m \in 1..count[x]
    BY <2>2
  <2> QED
    BY <1>2, <2>2, <2>3
<1> QED
  BY <1>1, <1>8, <1>9

(* A card moves after the module has settled: it is the only late one, and *)
(* the waiting call and the slot will hear of it.                          *)
LEMMA SlowMove ==
  ASSUME IInv, Slow, IsFiniteSet(Cards), Noticing, NEW x \in Readers, CardMoves(x)
  PROVE  IsFiniteSet(Cards') /\ Noticing'
<1>1. /\ call = NoCall /\ wait = "waiting" /\ Moved(states) = {}
      /\ UNCHANGED <<world, seen, handle, watch, shown, retry, call, wait, states>>
      /\ count' = [count EXCEPT ![x] = @ + 1]
  BY DEF CardMoves, Slow, Settled, waitVars
<1>2. TypeOK /\ x \in Readers /\ call.readers = {} /\ call.name = "none"
  BY <1>1 DEF IInv, NoCall
<1>3. /\ count'[x] = count[x] + 1 /\ \A r \in Readers \ {x} : count'[r] = count[r]
      /\ Cards' = IF HasCard(count'[x]) THEN Cards \cup {<<x, count'[x]>>} ELSE Cards
      /\ <<x, count'[x]>> \notin Cards
  BY <1>1, <1>2, CardsGrow
<1>4. count[x] \in Nat /\ (HasCard(count'[x]) <=> ~HasCard(count[x]))
  BY <1>2, <1>3 DEF TypeOK, HasCard
<1>5. \A r \in Readers : ~Due(r) /\ seen[r] = count[r]
  BY <1>1, <1>2 DEF Noticing, DueIsNoticed, SeenIsRight, Awaited, ToWatch, LookedAt,
     Unwatched
<1>6. \A r \in Readers : Moved(watch[r]) = {}
  BY <1>1, <1>2 DEF Noticing, WatchesFollow, Waking, Unwatched
<1>7. ASSUME NEW s \in SUBSET Readers, Moved(s) = {}
      PROVE  {r \in Readers : HasCard(count'[r]) # (r \in s)} = {x}
  <2>1. \A r \in Readers : HasCard(count[r]) <=> r \in s
    BY <1>7 DEF Moved, HasCard
  <2>2. \A r \in Readers : (HasCard(count'[r]) # (r \in s)) <=> r = x
    BY <1>3, <1>4, <2>1 DEF HasCard
  <2> QED
    BY <2>2
<1>8. Moved(states)' = {x} /\ \A r \in Readers : Moved(watch[r])' = {x}
  <2>1. states \in SUBSET Readers /\ \A r \in Readers : watch[r] \in SUBSET Readers
    BY <1>2 DEF TypeOK
  <2>2. {r \in Readers : HasCard(count'[r]) # (r \in states)} = {x}
    BY <1>1, <1>7, <2>1
  <2>3. \A q \in Readers : {r \in Readers : HasCard(count'[r]) # (r \in watch[q])} = {x}
    BY <1>6, <1>7, <2>1
  <2> QED
    BY <1>1, <2>2, <2>3 DEF Moved, HasCard
<1>9. WatchesFollow'
  BY <1>1, <1>8 DEF WatchesFollow, Waking
<1>10. DueIsNoticed'
  <2>1. \A r \in Readers \ {x} : ~Due(r)'
    BY <1>1, <1>3, <1>5 DEF Due, Token, Card
  <2>2. Awaited(x)'
    BY <1>1, <1>8 DEF Awaited
  <2> QED
    BY <2>1, <2>2 DEF DueIsNoticed
<1>11. SeenIsRight'
  <2>1. Due(x)'
    <3>1. CASE HasCard(count'[x])
      <4>1. Token(x) = 0
        BY <1>4, <1>5, <3>1 DEF Due, Card
      <4>2. Token(x)' = 0
        BY <1>1, <4>1 DEF Token
      <4>3. Card(x)' = count[x] + 1
        BY <1>3, <3>1 DEF Card
      <4> QED
        BY <1>4, <4>2, <4>3 DEF Due
    <3>2. CASE ~HasCard(count'[x])
      <4>1. Token(x) = count[x] /\ HasCard(count[x])
        BY <1>4, <1>5, <3>2 DEF Due, Card
      <4>2. Token(x)' = count[x] /\ count[x] # 0
        BY <1>1, <4>1 DEF Token, HasCard
      <4>3. Card(x)' = 0
        BY <3>2 DEF Card
      <4> QED
        BY <4>2, <4>3 DEF Due
    <3> QED
      BY <3>1, <3>2
  <2>2. seen'[x] # count'[x]
    BY <1>1, <1>3, <1>4, <1>5
  <2> QED
    BY <1>1, <1>2, <1>3, <1>5, <2>1, <2>2 DEF Noticing, SeenIsRight
<1>12. missed' = {}
  <2>1. ~ (HasCard(count'[x]) /\ (HasCard(seen[x]) \/ (wait = "waiting" /\ x \in states)))
    BY <1>1, <1>4, <1>5 DEF Moved
  <2> QED
    BY <2>1 DEF CardMoves, Noticing
<1>13. IsFiniteSet(Cards') /\ RetriesLast'
  <2>1. LateCards = {}
    BY <1>5 DEF LateCards
  <2>2. LateCards' = IF HasCard(count'[x]) THEN {x} ELSE {}
    BY <1>1, <1>3, <1>4, <1>5 DEF LateCards
  <2>3. Retries - retry + 0 <= Cardinality(Cards) /\ Cardinality(Cards) \in Nat
    BY <2>1, FS_CardinalityType DEF Noticing, RetriesLast
  <2>4. retry \in Nat /\ Retries \in Nat
    BY <1>2, WorldsAssumption DEF TypeOK
  <2>5. CASE HasCard(count'[x])
    <3>1. IsFiniteSet(Cards') /\ Cardinality(Cards') = Cardinality(Cards) + 1
      BY <1>3, <2>5, FS_AddElement
    <3>2. Retries - retry + 1 <= Cardinality(Cards')
      BY <2>3, <2>4, <3>1
    <3> QED
      BY <1>1, <2>2, <2>5, <3>1, <3>2 DEF RetriesLast
  <2>6. CASE ~HasCard(count'[x])
    BY <1>1, <1>3, <2>2, <2>3, <2>6 DEF RetriesLast
  <2> QED
    BY <2>5, <2>6
<1> QED
  BY <1>9, <1>10, <1>11, <1>12, <1>13 DEF Noticing

(* A step takes no card back.                                              *)
LEMMA CardsStay ==
  ASSUME IInv, IsFiniteSet(Cards), [Next]_vars
  PROVE  /\ world' = world
         /\ IsFiniteSet(Cards') /\ Cardinality(Cards) <= Cardinality(Cards')
<1>1. world' = world
  BY DEF Next, Progress, vars, pcscVars, CardMoves, C_GetSlotList, C_WaitForSlotEvent,
     Wake, CreateSlot, Watch, LookAbsent, LookSame, LookAgain, LookGivesUp, LookFound,
     Connect, Bind, BindFails, Return, ReportEvent, NoEvent, EnterWait
<1>2. Cardinality(Cards) \in Nat
  BY FS_CardinalityType
<1>3. ASSUME NEW x \in Readers, CardMoves(x)
      PROVE  IsFiniteSet(Cards') /\ Cardinality(Cards) <= Cardinality(Cards')
  <2>1. TypeOK /\ count' = [count EXCEPT ![x] = @ + 1]
    BY <1>3 DEF IInv, CardMoves
  <2>2. \/ Cards' = Cards
        \/ Cards' = Cards \cup {<<x, count'[x]>>} /\ <<x, count'[x]>> \notin Cards
    BY <2>1, CardsGrow
  <2>3. IsFiniteSet(Cards')
        /\ (Cardinality(Cards') = Cardinality(Cards) \/ Cardinality(Cards') = Cardinality(Cards) + 1)
    BY <2>2, FS_AddElement
  <2> QED
    BY <1>2, <2>3
<1>4. ASSUME \A x \in Readers : ~CardMoves(x)
      PROVE  IsFiniteSet(Cards') /\ Cardinality(Cards) <= Cardinality(Cards')
  <2>1. count' = count
    BY <1>4 DEF Next, Progress, vars, pcscVars, C_GetSlotList, C_WaitForSlotEvent,
       Wake, CreateSlot, Watch, LookAbsent, LookSame, LookAgain, LookGivesUp, LookFound,
       Connect, Bind, BindFails, Return, ReportEvent, NoEvent, EnterWait
  <2>2. Cards' = Cards
    BY <2>1 DEF Cards
  <2> QED
    BY <1>2, <2>2
<1> QED
  BY <1>1, <1>3, <1>4

LEMMA InitSlow == Init => SlowInv
<1> SUFFICES ASSUME Init PROVE SlowInv
  OBVIOUS
<1>1. count \in [Readers -> 0..1] /\ seen = count
  BY DEF Init
<1>2. /\ call.name = "C_Initialize" /\ call.readers = Readers /\ call.at = "watch"
      /\ missed = {} /\ retry = Retries
      /\ \A r \in Readers : ~shown[r] /\ handle[r] = 0
  BY DEF Init, Begin, NoCall
<1>3. Unwatched = Readers /\ LateCards = {}
  BY <1>1, <1>2 DEF Unwatched, LateCards
<1>4. IsFiniteSet(Cards)
  <2>1. Cards \subseteq Readers \X {1}
    <3>1. SUFFICES ASSUME NEW r \in Readers, NEW m \in 1..count[r]
                   PROVE  <<r, m>> \in Readers \X {1}
      BY DEF Cards
    <3>2. count[r] \in 0..1
      BY <1>1
    <3>3. m = 1
      BY <3>1, <3>2
    <3> QED
      BY <3>3
  <2>2. IsFiniteSet(Readers \X {1})
    BY FS_Product, FS_Singleton, WorldsAssumption
  <2> QED
    BY <2>1, <2>2, FS_Subset
<1>5. WatchesFollow /\ DueIsNoticed
  BY <1>2, <1>3 DEF WatchesFollow, DueIsNoticed, ToWatch
<1>6. SeenIsRight
  BY <1>1, <1>2 DEF SeenIsRight
<1>7. RetriesLast
  <2>1. Cardinality(Cards) \in Nat /\ Retries - Retries + 0 = 0
    BY <1>4, FS_CardinalityType, WorldsAssumption
  <2> QED
    BY <1>2, <1>3, <2>1 DEF RetriesLast
<1> QED
  BY <1>2, <1>4, <1>5, <1>6, <1>7 DEF SlowInv, Noticing

(* Cards that come one at a time, into whichever reader, and no more of    *)
(* them than the static `retry' of card_detect starts from, are noticed    *)
(* all, if they can be bound and C_WaitForSlotEvent alone looks for them.  *)
THEOREM SlowCardsAreNoticed == Spec => []SlowCardsNoticed
<1>1. IInv /\ SlowInv /\ [Next]_vars => SlowInv'
  <2> SUFFICES ASSUME IInv, SlowInv, [Next]_vars
               PROVE  SlowInv'
    OBVIOUS
  <2>1. IsFiniteSet(Cards)
    BY DEF SlowInv
  <2>2. /\ world' = world
        /\ IsFiniteSet(Cards') /\ Cardinality(Cards) <= Cardinality(Cards')
    BY <2>1, CardsStay
  <2>3. ASSUME Slow', Cardinality(Cards') <= Retries
        PROVE  Noticing'
    <3>1. Slow
      BY <2>2, <2>3 DEF Slow
    <3>2. Cardinality(Cards) \in Nat /\ Cardinality(Cards') \in Nat /\ Retries \in Nat
      BY <2>1, <2>2, FS_CardinalityType, WorldsAssumption
    <3>3. Cardinality(Cards) <= Retries
      BY <2>2, <2>3, <3>2
    <3>4. Noticing
      BY <3>1, <3>3 DEF SlowInv
    <3>5. CASE \E x \in Readers : CardMoves(x)
      BY <2>1, <3>1, <3>4, <3>5, SlowMove
    <3>6. CASE \A x \in Readers : ~CardMoves(x)
      BY <2>1, <3>1, <3>3, <3>4, <3>6, SlowStep
    <3> QED
      BY <3>5, <3>6
  <2> QED
    BY <2>2, <2>3 DEF SlowInv
<1>2. SlowInv => SlowCardsNoticed
  BY DEF SlowInv, Slow, Noticing, SlowCardsNoticed
<1> QED
  BY InitSlow, SlotEventsInv, <1>1, <1>2, PTL DEF Spec
=============================================================================
