----------------------------- MODULE SlotEvents -----------------------------
(***************************************************************************)
(* How cards that come and go are noticed: card_detect and                 *)
(* slot_find_changed (src/OpenSC/src/pkcs11/slot.c), C_WaitForSlotEvent    *)
(* (pkcs11-global.c), and below them refresh_attributes and                *)
(* pcsc_wait_for_event (src/OpenSC/src/libopensc/reader-pcsc.c).           *)
(*                                                                         *)
(* A reader has one slot (slots_per_card = 1) and stays plugged in.  PC/SC *)
(* is external: it counts the insertions and removals of each reader, so   *)
(* that a card is named by the count its insertion made; SCardStatus and   *)
(* the commands of a handle fail when its card is gone.  What a bound card *)
(* means for sessions and logins is in Cryptoki.                           *)
(***************************************************************************)
EXTENDS Integers, FiniteSets, Functions

CONSTANTS
  Readers,     \* readers, numbered in the order of the context's list
  Retries,     \* what card_detect's `retry' starts from: 3 in the code
  MaxChanges,  \* bound: insertions and removals in all readers together
  Worlds       \* what may happen beside them

ASSUME WorldsAssumption ==
  /\ Readers \subseteq Nat \ {0} /\ IsFiniteSet(Readers) /\ Readers # {}
  /\ Retries \in Nat /\ MaxChanges \in Nat
  /\ \A u \in Worlds :
       /\ u.poller \in BOOLEAN  \* another thread calls C_GetSlotList
       /\ u.slow \in BOOLEAN    \* cards change when the module has settled only
       /\ u.faults \in BOOLEAN  \* binding a card may fail

VARIABLES
  world,     \* the member of Worlds; never changes
  count,     \* PC/SC: insertions and removals of each reader
  seen,      \* priv->reader_state.dwEventState: the count known last
  handle,    \* priv->pcsc_card: the card connected to, or 0
  watch,     \* slot->reader_events: the readers that had a card
  shown,     \* the slot has a p11card and shows a token
  events,    \* slot->events
  retry,     \* card_detect's static variable
  call,      \* the call that holds the global lock
  wait,      \* C_WaitForSlotEvent outside the lock
  states,    \* its reader_states
  known,     \* the token the application knows of from C_WaitForSlotEvent
  missed     \* readers with a card that is not noticed, see below

pcscVars == <<world, count>>
waitVars == <<wait, states>>
vars == <<world, count, seen, handle, watch, shown, events, retry, call, wait,
          states, known, missed>>

HasCard(n) == n % 2 = 1
Card(r)    == IF HasCard(count[r]) THEN count[r] ELSE 0
Token(r)   == IF shown[r] THEN handle[r] ELSE 0
WithCard(c) == {r \in Readers : HasCard(c[r])}

Total == FoldFunction(+, 0, count)

MinOf(S) == CHOOSE x \in S : \A y \in S : x <= y

(* name: the C_ function; block: its flag; readers: card_detect_all's loop *)
(* has still to look at them; at: where card_detect is with the first of   *)
(* these; same: its no_change.                                             *)
NoCall == [name |-> "none", block |-> FALSE, readers |-> {}, at |-> "none",
           same |-> FALSE]
Begin(name, block) ==
  [NoCall EXCEPT !.name = name, !.block = block, !.readers = Readers, !.at = "watch"]

-----------------------------------------------------------------------------
(* pcsc_wait_for_event                                                     *)

(* The readers in which a card has come or gone since s.  A card that was  *)
(* exchanged for another is not an event.                                  *)
Moved(s) == {r \in Readers : HasCard(count[r]) # (r \in s)}

(* The event of the first of these is returned; the readers behind it are  *)
(* left for the next time.                                                 *)
Read(s) ==
  IF Moved(s) = {} THEN s
  ELSE {r \in Readers : IF r <= MinOf(Moved(s)) THEN HasCard(count[r]) ELSE r \in s}

-----------------------------------------------------------------------------
(* card_detect, for the next reader of card_detect_all                     *)

Looking(at) == call.readers # {} /\ call.at = at
This == MinOf(call.readers)

Go(at) == call' = [call EXCEPT !.at = at]
Done   == call' = [call EXCEPT !.readers = @ \ {This}, !.at = "watch"]

(* create_slot, for a reader that has no slot: the slot's states start     *)
(* from what is known of the readers, and card_detect runs without them.   *)
CreateSlot ==
  /\ Looking("watch") /\ call.name = "C_Initialize"
  /\ watch' = [watch EXCEPT ![This] = Read(WithCard(seen))]
  /\ call' = [call EXCEPT !.at = "look", !.same = FALSE]
  /\ UNCHANGED <<pcscVars, seen, handle, shown, events, retry, waitVars, known, missed>>

(* Any event since the last invocation, in this reader?                    *)
Watch ==
  LET s == watch[This] IN
  /\ Looking("watch") /\ call.name # "C_Initialize"
  /\ watch' = [watch EXCEPT ![This] = Read(s)]
  /\ call' = [call EXCEPT !.at = "look",
                          !.same = Moved(s) = {} \/ MinOf(Moved(s)) # This]
  /\ UNCHANGED <<pcscVars, seen, handle, shown, events, retry, waitVars, known, missed>>

(* refresh_attributes: SC_READER_CARD_CHANGED.                             *)
Changed(r) ==
  IF count[r] = seen[r] THEN handle[r] \notin {0, count[r]} ELSE HasCard(count[r])
Refresh == seen' = [seen EXCEPT ![This] = count[This]]

(* Mutant: a removal is an event when the slot shows no token.             *)
CardRemovedTellsLate ==
  /\ handle' = [handle EXCEPT ![This] = 0]
  /\ shown' = [shown EXCEPT ![This] = FALSE]
  /\ events' = [events EXCEPT ![This] = IF shown[This] THEN @ ELSE "removed"]

(* card_removed and slot_token_removed.                                    *)
CardRemoved ==
  /\ handle' = [handle EXCEPT ![This] = 0]
  /\ shown' = [shown EXCEPT ![This] = FALSE]
  /\ events' = [events EXCEPT ![This] = IF shown[This] THEN "removed" ELSE @]

LookAbsent ==
  /\ Looking("look") /\ ~HasCard(count[This])
  /\ Refresh /\ CardRemoved /\ Done
  /\ missed' = missed \ {This}
  /\ UNCHANGED <<pcscVars, watch, retry, waitVars, known>>

(* A card, and no event: nothing is looked at.                             *)
LookSame ==
  /\ Looking("look") /\ HasCard(count[This]) /\ call.same
  /\ Refresh /\ Done
  /\ missed' = IF Token(This) = Card(This) THEN missed ELSE missed \cup {This}
  /\ UNCHANGED <<pcscVars, handle, watch, shown, events, retry, waitVars, known>>

LookChanged ==
  /\ Looking("look") /\ HasCard(count[This]) /\ ~call.same
  /\ Changed(This)
  /\ Refresh /\ CardRemoved

(* Mutant: one retry too many.                                             *)
LookAgainAlways ==
  /\ LookChanged
  /\ retry' = retry - 1
  /\ UNCHANGED <<pcscVars, watch, call, waitVars, known, missed>>

(* "So better be fussy": looked at again ...                               *)
LookAgain ==
  /\ LookChanged /\ retry > 0
  /\ retry' = retry - 1
  /\ UNCHANGED <<pcscVars, watch, call, waitVars, known, missed>>

(* Mutant: the last retry is not used.                                     *)
LookGivesUpEarly ==
  /\ LookChanged /\ retry <= 1
  /\ retry' = Retries
  /\ Done
  /\ missed' = missed \cup {This}
  /\ UNCHANGED <<pcscVars, watch, waitVars, known>>

(* ... until the retries have run out.                                     *)
LookGivesUp ==
  /\ LookChanged /\ retry = 0
  /\ retry' = Retries
  /\ Done
  /\ missed' = missed \cup {This}
  /\ UNCHANGED <<pcscVars, watch, waitVars, known>>

LookFound ==
  /\ Looking("look") /\ HasCard(count[This]) /\ ~call.same
  /\ ~Changed(This)
  /\ Refresh
  /\ IF shown[This] THEN Done ELSE Go("connect")
  /\ UNCHANGED <<pcscVars, handle, watch, shown, events, retry, waitVars, known, missed>>

(* sc_connect_card, which looks once more.                                 *)
Connect ==
  /\ Looking("connect")
  /\ Refresh
  /\ handle' = [handle EXCEPT ![This] = Card(This)]
  /\ IF HasCard(count[This]) THEN Go("bind") ELSE Done
  /\ UNCHANGED <<pcscVars, watch, shown, events, retry, waitVars, known, missed>>

(* bind and create_tokens.                                                 *)
Bind ==
  /\ Looking("bind") /\ handle[This] = count[This]
  /\ shown' = [shown EXCEPT ![This] = TRUE]
  /\ events' = [events EXCEPT ![This] = "inserted"]
  /\ missed' = missed \ {This}
  /\ Done
  /\ UNCHANGED <<pcscVars, seen, handle, watch, retry, waitVars, known>>

(* The card is gone, does not answer or is not one that can be bound.      *)
BindFails ==
  /\ Looking("bind") /\ (world.faults \/ handle[This] # count[This])
  /\ handle' = [handle EXCEPT ![This] = 0]
  /\ missed' = IF handle[This] = count[This] THEN missed \cup {This} ELSE missed
  /\ Done
  /\ UNCHANGED <<pcscVars, seen, watch, shown, events, retry, waitVars, known>>

Looked(name) == call.name = name /\ call.readers = {}

-----------------------------------------------------------------------------
(* C_Initialize and C_GetSlotList                                          *)

Return ==
  /\ Looked("C_Initialize") \/ Looked("C_GetSlotList")
  /\ call' = NoCall
  /\ UNCHANGED <<pcscVars, seen, handle, watch, shown, events, retry, waitVars,
                 known, missed>>

C_GetSlotList ==
  /\ call = NoCall
  /\ wait = "no" \/ world.poller
  /\ call' = Begin("C_GetSlotList", FALSE)
  /\ UNCHANGED <<pcscVars, seen, handle, watch, shown, events, retry, waitVars,
                 known, missed>>

-----------------------------------------------------------------------------
(* C_WaitForSlotEvent                                                      *)

C_WaitForSlotEvent ==
  /\ call = NoCall /\ wait = "no"
  /\ \E block \in BOOLEAN : call' = Begin("C_WaitForSlotEvent", block)
  /\ UNCHANGED <<pcscVars, seen, handle, watch, shown, events, retry, waitVars,
                 known, missed>>

(* slot_find_changed: an insertion without a token is no event.            *)
Event(r) == IF events[r] = "inserted" /\ ~shown[r] THEN "none" ELSE events[r]
WithEvent == {r \in Readers : Event(r) # "none"}

(* Mutant: the events of all slots are taken away.                         *)
ReportClearsAll ==
  LET s == MinOf(WithEvent) IN
  /\ Looked("C_WaitForSlotEvent") /\ WithEvent # {}
  /\ events' = [r \in Readers |-> "none"]
  /\ known' = [known EXCEPT ![s] = Token(s)]
  /\ call' = NoCall /\ wait' = "no"
  /\ UNCHANGED <<pcscVars, seen, handle, watch, shown, retry, states, missed>>

(* The first slot with an event is returned.                               *)
ReportEvent ==
  LET s == MinOf(WithEvent) IN
  /\ Looked("C_WaitForSlotEvent") /\ WithEvent # {}
  /\ events' = [r \in Readers |-> IF r < s THEN Event(r)
                                  ELSE IF r = s THEN "none" ELSE events[r]]
  /\ known' = [known EXCEPT ![s] = Token(s)]
  /\ call' = NoCall /\ wait' = "no"
  /\ UNCHANGED <<pcscVars, seen, handle, watch, shown, retry, states, missed>>

(* There is none: the call returns, or waits without the lock.             *)
NoEvent ==
  /\ Looked("C_WaitForSlotEvent") /\ WithEvent = {}
  /\ events' = [r \in Readers |-> Event(r)]
  /\ call' = NoCall
  /\ wait' = IF ~call.block THEN "no" ELSE IF wait = "no" THEN "entering" ELSE wait
  /\ UNCHANGED <<pcscVars, seen, handle, watch, shown, retry, states, known, missed>>

(* Mutant: they start from how the readers are by now.                     *)
EnterKnowsAll ==
  /\ wait = "entering"
  /\ states' = WithCard(count)
  /\ wait' = "waiting"
  /\ UNCHANGED <<pcscVars, seen, handle, watch, shown, events, retry, call, known, missed>>

(* Its reader_states start from what is known of the readers by now.       *)
EnterWait ==
  /\ wait = "entering"
  /\ states' = WithCard(seen)
  /\ wait' = "waiting"
  /\ UNCHANGED <<pcscVars, seen, handle, watch, shown, events, retry, call, known, missed>>

(* A reader's event, and the lock.                                         *)
Wake ==
  /\ call = NoCall /\ wait = "waiting" /\ Moved(states) # {}
  /\ states' = Read(states)
  /\ call' = Begin("C_WaitForSlotEvent", TRUE)
  /\ UNCHANGED <<pcscVars, seen, handle, watch, shown, events, retry, wait, known, missed>>

-----------------------------------------------------------------------------
(* Nothing is under way that a card could surprise.                        *)
Settled == call = NoCall /\ wait = "waiting" /\ Moved(states) = {}

(* A card is put into the reader or taken out.  A card that is exchanged   *)
(* before its removal was noticed, by the last look at the reader and by   *)
(* who waits, is missed.                                                   *)
CardMoves(r) ==
  /\ Total < MaxChanges
  /\ world.slow => Settled
  /\ count' = [count EXCEPT ![r] = @ + 1]
  /\ missed' = IF HasCard(count'[r]) /\ (HasCard(seen[r]) \/ (wait = "waiting" /\ r \in states))
               THEN missed \cup {r} ELSE missed
  /\ UNCHANGED <<world, seen, handle, watch, shown, events, retry, call, waitVars, known>>

(* C_Initialize has found the readers and has no slots yet.                *)
Init ==
  /\ world \in Worlds
  /\ count \in [Readers -> 0..1]
  /\ seen = count
  /\ handle = [r \in Readers |-> 0]
  /\ watch = [r \in Readers |-> {}]
  /\ shown = [r \in Readers |-> FALSE]
  /\ events = [r \in Readers |-> "none"]
  /\ retry = Retries
  /\ call = Begin("C_Initialize", FALSE)
  /\ wait = "no" /\ states = {}
  /\ known = [r \in Readers |-> 0]
  /\ missed = {}

(* The steps of a call that runs.                                          *)
Progress ==
  \/ CreateSlot \/ Watch
  \/ LookAbsent \/ LookSame \/ LookAgain \/ LookGivesUp \/ LookFound
  \/ Connect \/ Bind \/ BindFails
  \/ Return \/ ReportEvent \/ NoEvent \/ EnterWait

Next ==
  \/ \E r \in Readers : CardMoves(r)
  \/ C_GetSlotList \/ C_WaitForSlotEvent \/ Wake
  \/ Progress

Spec == Init /\ [][Next]_vars

(* The application waits for events again and again, its other thread      *)
(* lists the slots again and again, and a thread that wants the lock gets  *)
(* it.                                                                     *)
FairSpec ==
  /\ Spec
  /\ WF_vars(Progress) /\ SF_vars(C_WaitForSlotEvent) /\ SF_vars(Wake)
  /\ SF_vars(world.poller /\ C_GetSlotList)

-----------------------------------------------------------------------------
(* Properties                                                              *)

(* Every variable keeps its type; the static retry counter stays in its    *)
(* range however the looks at different readers follow each other.         *)
TypeOK ==
  /\ world \in Worlds
  /\ count \in [Readers -> Nat]
  /\ seen \in [Readers -> Nat]
  /\ handle \in [Readers -> Nat]
  /\ watch \in [Readers -> SUBSET Readers]
  /\ shown \in [Readers -> BOOLEAN]
  /\ events \in [Readers -> {"none", "inserted", "removed"}]
  /\ retry \in 0..Retries
  /\ call \in [name : {"none", "C_Initialize", "C_GetSlotList", "C_WaitForSlotEvent"},
               block : BOOLEAN, readers : SUBSET Readers,
               at : {"none", "watch", "look", "connect", "bind"}, same : BOOLEAN]
  /\ wait \in {"no", "entering", "waiting"} /\ states \in SUBSET Readers
  /\ known \in [Readers -> Nat]
  /\ missed \in SUBSET Readers

(* slot->events holds one event only, which a later one replaces, and      *)
(* slot_find_changed takes it away: still, a slot without a pending event  *)
(* has the token the application was last told of.                         *)
NoEventLost == \A r \in Readers : events[r] = "none" => known[r] = Token(r)

(* The cards put in so far: a card is named by the count of its insertion. *)
Cards ==
  UNION {{<<r, n>> : n \in {m \in 1..count[r] : HasCard(m)}} : r \in Readers}

(* A card that is put in or taken out while the module has settled is not  *)
(* missed as long as it can be bound and there were no more cards, in all  *)
(* readers together, than Retries.                                         *)
SlowCardsNoticed ==
  world.slow /\ ~world.faults /\ ~world.poller /\ Cardinality(Cards) <= Retries
    => missed = {}

(* Once cards stay where they are, every slot comes to show the card in    *)
(* its reader and no other, unless the card is missed: it could not be     *)
(* bound, was exchanged before its removal was noticed, was taken for      *)
(* unchanged by a look at another event, or came when the retries had run  *)
(* out.                                                                    *)
TokensSettle == <>[](\A r \in Readers \ missed : Token(r) = Card(r))

(* An application that reads a slot anew when C_WaitForSlotEvent names it  *)
(* comes to know the tokens, if no other thread looks for cards.           *)
EventsArrive == <>[](world.poller \/ \A r \in Readers : known[r] = Token(r))

(* "Check if someone inserted a card" (card_detect): a card that is put in *)
(* after the module has settled, and stays, is shown.                      *)
CardsShown == <>[](\A r \in Readers : Token(r) = Card(r))
=============================================================================
