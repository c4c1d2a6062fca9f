---------------------------- MODULE CloseAllLoop ----------------------------
(* The loop of sc_pkcs11_close_all_sessions                                *)
(* (src/OpenSC/src/pkcs11/pkcs11-session.c) as the code writes it: it      *)
(* walks the list by index and deletes from the list it walks.  Cryptoki   *)
(* does the whole loop in one step, CloseAll, by a closed form.            *)
EXTENDS Cryptoki, SequencesExt

UpTo(x) == {y \in sessions : y.handle <= x.handle}

(* The list; its order is the order of the handles.                        *)
SessionList ==
  [i \in 1 .. Cardinality(sessions) |->
     CHOOSE x \in sessions : Cardinality(UpTo(x)) = i]

(* Mutant: the counter is tested before it is decremented.                 *)
CloseTestsFirst(st) ==
  [list |-> RemoveAt(st.list, st.i + 1),
   count |-> (st.count - 1) % UIntMod,
   user |-> IF st.count = 0 THEN NONE ELSE st.user,
   i |-> st.i]

(* sc_pkcs11_close_session for the session at index i.                     *)
Close(st) ==
  LET n == (st.count - 1) % UIntMod IN
  [list |-> RemoveAt(st.list, st.i + 1), count |-> n,
   user |-> IF n = 0 THEN NONE ELSE st.user, i |-> st.i]

Visit(st, s) ==
  LET seen == IF st.list[st.i + 1].slot = s THEN Close(st) ELSE st
  IN  [seen EXCEPT !.i = @ + 1]

Before(s, user) ==
  [list |-> SessionList, count |-> nsessions[s], user |-> user, i |-> 0]

Iterate(st, s) == IF st.i < Len(st.list) THEN Visit(st, s) ELSE st

(* What the loop leaves when it starts from the login `user'.  Every       *)
(* iteration moves the index on, the list never grows.                     *)
Loop(s, user) ==
  LET N == Cardinality(sessions)
      run[k \in 0 .. N] == IF k = 0 THEN Before(s, user) ELSE Iterate(run[k - 1], s)
  IN  run[N]

(* Whatever sessions are open, the loop over the changing list does what   *)
(* Cryptoki's CloseAll does: it closes every other session of a run, takes *)
(* that many off the counter, and logs out when the counter passes zero.   *)
LoopIsCloseAll ==
  \A s \in Slots : \A user \in {NONE, login_user[s]} :
    LET st == Loop(s, user)
        n == Cardinality(Closed(s))
    IN  /\ ToSet(st.list) = sessions \ Closed(s)
        /\ st.count = Less(s, n)
        /\ st.user = IF user >= 0 /\ PassesZero(s, n) THEN NONE ELSE user
=============================================================================
