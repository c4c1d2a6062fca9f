------------------------- MODULE CloseAllLoopProofs -------------------------
(* The loop of sc_pkcs11_close_all_sessions, which deletes from the list   *)
(* it walks, and the closed form that Cryptoki has for it leave the same   *)
(* sessions, counter and login, for any number of slots and sessions.      *)
EXTENDS CloseAllLoop, CryptokiProofs, SequenceTheorems

-----------------------------------------------------------------------------
(* The list.                                                               *)

N == Cardinality(sessions)

Rank(x) == Cardinality(UpTo(x))

ListOK == sessions \subseteq Session /\ IsFiniteSet(sessions) /\ UniqueHandles

LEMMA HandleType ==
  ASSUME ListOK
  PROVE  /\ N \in Nat /\ N <= MaxSessions
         /\ \A x \in sessions : x.handle \in Nat /\ x.slot \in Slots
<1>1. N \in 0 .. MaxSessions
  BY HandlesBound DEF ListOK, UniqueHandles, N
<1> QED
  BY <1>1, BoundAssumption DEF ListOK, Session, Handles

(* A session has a place in the list, and later handles have later places. *)
LEMMA RankOrder ==
  ASSUME ListOK, NEW x \in sessions
  PROVE  /\ Rank(x) \in 1 .. N
         /\ \A y \in sessions : y.handle < x.handle => Rank(y) < Rank(x)
<1>1. \A y \in sessions : IsFiniteSet(UpTo(y)) /\ Rank(y) \in Nat /\ Rank(y) <= N
  BY FS_Subset, FS_CardinalityType DEF ListOK, UpTo, Rank, N
<1>2. x \in UpTo(x)
  BY HandleType DEF UpTo
<1>3. Rank(x) # 0
  BY <1>1, <1>2, FS_EmptySet DEF Rank
<1>4. ASSUME NEW y \in sessions, y.handle < x.handle
      PROVE  Rank(y) < Rank(x)
  <2>1. x \notin UpTo(y)
    BY <1>4, HandleType DEF UpTo
  <2>2. UpTo(y) \subseteq UpTo(x) \ {x}
    BY <1>4, <2>1, HandleType DEF UpTo
  <2>3. /\ IsFiniteSet(UpTo(x) \ {x})
        /\ Cardinality(UpTo(x) \ {x}) = Rank(x) - 1
    BY <1>1, <1>2, FS_RemoveElement DEF Rank
  <2>4. Rank(y) <= Cardinality(UpTo(x) \ {x})
    BY <2>2, <2>3, FS_Subset DEF Rank
  <2> QED
    BY <1>1, <2>3, <2>4
<1> QED
  BY <1>1, <1>3, <1>4, HandleType

(* Every place is taken.                                                   *)
LEMMA RankOnto ==
  ASSUME ListOK, NEW i \in 1 .. N
  PROVE  \E x \in sessions : Rank(x) = i
<1> DEFINE f == [x \in sessions |-> Rank(x)]
<1>1. f \in [sessions -> 1 .. N]
  BY RankOrder
<1>2. ASSUME NEW x \in sessions, NEW y \in sessions, Rank(x) = Rank(y)
      PROVE  x = y
  <2>1. ~(x.handle < y.handle) /\ ~(y.handle < x.handle)
    BY <1>2, RankOrder, HandleType
  <2>2. x.handle = y.handle
    BY <2>1, HandleType
  <2> QED
    BY <2>2 DEF ListOK, UniqueHandles
<1>3. \A x, y \in sessions : f[x] = f[y] => x = y
  BY <1>2
<1>4. IsFiniteSet(1 .. N) /\ Cardinality(1 .. N) = N
  BY FS_Interval, HandleType
<1>5. \E x \in sessions : f[x] = i
  <2> HIDE DEF f
  <2>1. f \in Injection(sessions, 1 .. N)
    BY <1>1, <1>3 DEF Injection, IsInjective
  <2>2. f \in Surjection(sessions, 1 .. N)
    BY <1>4, <2>1, FS_Injection DEF N
  <2> QED
    BY <2>2 DEF Surjection
<1> QED
  BY <1>5

(* SessionList names every session once, at its place.                     *)
LEMMA ListIs ==
  ASSUME ListOK
  PROVE  /\ SessionList \in Seq(sessions)
         /\ Len(SessionList) = N
         /\ \A i \in 1 .. N : SessionList[i] \in sessions /\ Rank(SessionList[i]) = i
         /\ \A x \in sessions : SessionList[Rank(x)] = x
<1>1. SessionList = [i \in 1 .. N |-> CHOOSE x \in sessions : Rank(x) = i]
  BY DEF SessionList, N, Rank
<1>2. \A i \in 1 .. N : SessionList[i] \in sessions /\ Rank(SessionList[i]) = i
  <2> SUFFICES ASSUME NEW i \in 1 .. N
               PROVE  SessionList[i] \in sessions /\ Rank(SessionList[i]) = i
    OBVIOUS
  <2>1. SessionList[i] = CHOOSE x \in sessions : Rank(x) = i
    BY <1>1
  <2>2. \E x \in sessions : Rank(x) = i
    BY RankOnto
  <2> QED
    BY <2>1, <2>2, Zenon
<1>3. SessionList \in [1 .. N -> sessions]
  BY <1>1, <1>2
<1>4. SessionList \in Seq(sessions) /\ Len(SessionList) = N
  BY <1>3, HandleType
<1>5. ASSUME NEW x \in sessions
      PROVE  SessionList[Rank(x)] = x
  <2> DEFINE y == SessionList[Rank(x)]
  <2>1. Rank(x) \in 1 .. N
    BY RankOrder
  <2>2. y \in sessions /\ Rank(y) = Rank(x)
    BY <1>2, <2>1
  <2> HIDE DEF y
  <2>3. ~(x.handle < y.handle) /\ ~(y.handle < x.handle)
    BY <2>2, RankOrder, HandleType
  <2>4. x.handle = y.handle
    BY <2>2, <2>3, HandleType
  <2>5. x = y
    BY <2>2, <2>4 DEF ListOK, UniqueHandles
  <2> QED
    BY <2>5 DEF y
<1> QED
  BY <1>2, <1>4, <1>5

(* What is before place p is at place p - 1 or before it.                  *)
LEMMA JustBefore ==
  ASSUME ListOK, NEW p \in 2 .. N, NEW z \in sessions
  PROVE  z.handle < SessionList[p].handle
           <=> \/ z = SessionList[p - 1]
               \/ z.handle < SessionList[p - 1].handle
<1> DEFINE x == SessionList[p]
           w == SessionList[p - 1]
<1>1. /\ x \in sessions /\ Rank(x) = p
      /\ w \in sessions /\ Rank(w) = p - 1
  BY ListIs, HandleType
<1> HIDE DEF x, w
<1>2. Rank(z) \in 1 .. N
  BY RankOrder
<1>3. /\ z.handle < x.handle => Rank(z) < p
      /\ z.handle < w.handle => Rank(z) < p - 1
      /\ x.handle < z.handle => p < Rank(z)
      /\ w.handle < z.handle => p - 1 < Rank(z)
      /\ w.handle < x.handle \/ x.handle < w.handle \/ x = w
  BY <1>1, RankOrder, HandleType DEF ListOK, UniqueHandles
<1>4. /\ z.handle \in Nat /\ x.handle \in Nat /\ w.handle \in Nat
      /\ z.handle = w.handle => z = w
      /\ z.handle = x.handle => z = x
  BY <1>1, HandleType DEF ListOK, UniqueHandles
<1>5. w.handle < x.handle
  BY <1>1, <1>3, <1>4, RankOrder, HandleType
<1> QED
  BY <1>1, <1>2, <1>3, <1>4, <1>5, HandleType DEF x, w

(* Of the sessions of a run, those at odd places of it are closed.         *)
LEMMA ClosedByPlace ==
  ASSUME ListOK, NEW s, NEW p \in 1 .. N
  PROVE  SessionList[p] \in Closed(s)
           <=> /\ SessionList[p].slot = s
               /\ p = 1 \/ SessionList[p - 1] \notin Closed(s)
<1> DEFINE x == SessionList[p]
           w == SessionList[p - 1]
<1>1. x \in sessions /\ Rank(x) = p
  BY ListIs
<1>2. CASE p = 1
  <2>1. RunBefore(x) = {}
    <3> SUFFICES ASSUME NEW y \in sessions, y.handle < x.handle PROVE FALSE
      BY DEF RunBefore
    <3> QED
      BY <1>1, <1>2, RankOrder, HandleType
  <2>2. Cardinality(RunBefore(x)) % 2 = 0
    BY <2>1, FS_EmptySet
  <2> QED
    BY <1>1, <1>2, <2>2 DEF Closed, SessionsOn
<1>3. CASE p # 1
  <2>1. w \in sessions /\ p \in 2 .. N
    BY <1>3, ListIs, HandleType
  <2>2. \A z \in sessions : z.handle < x.handle <=> z = w \/ z.handle < w.handle
    BY <2>1, JustBefore
  <2> HIDE DEF x, w
  <2>3. w.handle < x.handle /\ \A z \in sessions : z.handle \in Nat
    BY <2>1, <2>2, HandleType
  <2>4. CASE w.slot # x.slot
    <3>1. RunBefore(x) = {}
      <4> SUFFICES ASSUME NEW y \in RunBefore(x) PROVE FALSE
        OBVIOUS
      <4>1. y \in sessions /\ y.slot = x.slot /\ y.handle < x.handle
        BY DEF RunBefore
      <4>2. y.handle < w.handle
        BY <2>2, <2>4, <4>1
      <4> QED
        BY <2>1, <2>3, <2>4, <4>2 DEF RunBefore
    <3>2. Cardinality(RunBefore(x)) % 2 = 0
      BY <3>1, FS_EmptySet
    <3>3. w.slot = s => x.slot # s
      BY <2>4
    <3> QED
      BY <1>1, <1>3, <2>1, <3>2, <3>3 DEF Closed, SessionsOn, x, w
  <2>5. CASE w.slot = x.slot
    <3>1. RunBefore(x) = RunBefore(w) \cup {w}
      <4>1. ASSUME NEW y \in RunBefore(x)
            PROVE  y \in RunBefore(w) \cup {w}
        <5>1. /\ y \in sessions /\ y.slot = x.slot /\ y.handle < x.handle
              /\ \A z \in sessions :
                   y.handle < z.handle /\ z.handle < x.handle => z.slot = x.slot
          BY <4>1 DEF RunBefore
        <5>2. CASE y # w
          <6>1. y.handle < w.handle
            BY <2>2, <5>1, <5>2
          <6> QED
            BY <2>2, <2>5, <5>1, <6>1 DEF RunBefore
        <5> QED
          BY <5>2
      <4>2. ASSUME NEW y \in RunBefore(w)
            PROVE  y \in RunBefore(x)
        BY <2>1, <2>2, <2>5, <4>2 DEF RunBefore
      <4>3. w \in RunBefore(x)
        <5>1. \A z \in sessions : ~(w.handle < z.handle /\ z.handle < x.handle)
          BY <2>1, <2>2, <2>3
        <5> QED
          BY <2>1, <2>3, <2>5, <5>1 DEF RunBefore
      <4> QED
        BY <4>1, <4>2, <4>3
    <3>2. w \notin RunBefore(w)
      BY <2>1, <2>3 DEF RunBefore
    <3>3. IsFiniteSet(RunBefore(w)) /\ Cardinality(RunBefore(w)) \in Nat
      <4>1. RunBefore(w) \subseteq sessions
        BY DEF RunBefore
      <4> QED
        BY <4>1, FS_Subset, FS_CardinalityType DEF ListOK
    <3>4. Cardinality(RunBefore(x)) = Cardinality(RunBefore(w)) + 1
      BY <3>1, <3>2, <3>3, FS_AddElement
    <3>5. Cardinality(RunBefore(x)) % 2 = 0 <=> Cardinality(RunBefore(w)) % 2 # 0
      BY <3>3, <3>4
    <3> QED
      BY <1>1, <1>3, <2>1, <2>5, <3>5 DEF Closed, SessionsOn, x, w
  <2> QED
    BY <2>4, <2>5
<1> QED
  BY <1>2, <1>3

-----------------------------------------------------------------------------
(* The counter.                                                            *)

LEMMA ModBelow ==
  ASSUME NEW a \in Int, a < 0, a > -UIntMod
  PROVE  a % UIntMod = a + UIntMod
BY BoundAssumption, SMTT(30)

(* Decremented once more, the counter is zero after exactly as many        *)
(* sessions as it counted.                                                 *)
LEMMA CountDown ==
  ASSUME NEW n \in 0 .. UIntMod - 1, NEW d \in Nat, d < MaxSessions,
         NEW c, c = (n - d) % UIntMod
  PROVE  /\ (c - 1) % UIntMod = (n - (d + 1)) % UIntMod
         /\ (n - (d + 1)) % UIntMod = 0 <=> n = d + 1
<1> USE BoundAssumption
<1>1. CASE n >= d + 1
  <2>1. (n - d) % UIntMod = n - d
    BY <1>1, ModSame
  <2>2. (n - (d + 1)) % UIntMod = n - (d + 1)
    BY <1>1, ModSame
  <2>3. (n - d) - 1 = n - (d + 1)
    OBVIOUS
  <2> QED
    BY <2>1, <2>2, <2>3
<1>2. CASE n = d
  <2>1. (n - d) % UIntMod = 0
    <3>1. n - d = 0
      BY <1>2
    <3> QED
      BY <3>1, ModSame
  <2>2. (n - (d + 1)) % UIntMod = UIntMod - 1 /\ (0 - 1) % UIntMod = UIntMod - 1
    <3>1. n - (d + 1) = -1 /\ 0 - 1 = -1 /\ -1 > -UIntMod
      BY <1>2
    <3>2. (-1) % UIntMod = UIntMod - 1
      BY <3>1, ModBelow
    <3> QED
      BY <3>1, <3>2
  <2> QED
    BY <1>2, <2>1, <2>2
<1>3. CASE n < d
  <2> DEFINE a == n - d
  <2>1. a \in Int /\ a < 0 /\ a - 1 > -UIntMod
    BY <1>3
  <2>2. a % UIntMod = a + UIntMod
    BY <2>1, ModBelow
  <2>3. (a - 1) % UIntMod = (a - 1) + UIntMod
    BY <2>1, ModBelow
  <2>4. ((a + UIntMod) - 1) % UIntMod = (a + UIntMod) - 1
    BY <2>1, ModSame
  <2>5. n - (d + 1) = a - 1 /\ (a - 1) + UIntMod = (a + UIntMod) - 1
    BY <2>1
  <2> QED
    BY <1>3, <2>1, <2>2, <2>3, <2>4, <2>5
<1> QED
  BY <1>1, <1>2, <1>3

-----------------------------------------------------------------------------
(* Deleting one entry.                                                     *)

LEMMA RemoveAtIs ==
  ASSUME NEW S, NEW list \in Seq(S), NEW i \in 1 .. Len(list)
  PROVE  LET rest == RemoveAt(list, i)
         IN  /\ rest \in Seq(S)
             /\ Len(rest) = Len(list) - 1
             /\ \A j \in 1 .. i - 1 : rest[j] = list[j]
             /\ \A j \in i .. Len(list) - 1 : rest[j] = list[j + 1]
<1> DEFINE a == SubSeq(list, 1, i - 1)
           b == SubSeq(list, i + 1, Len(list))
<1>1. Len(list) \in Nat /\ \A j \in 1 .. Len(list) : list[j] \in S
  BY LenProperties, ElementOfSeq
<1>2. /\ a \in Seq(S) /\ Len(a) = i - 1
      /\ \A j \in 1 .. i - 1 : a[j] = list[j]
  <2>1. \A j \in 1 .. i - 1 : list[j] \in S
    BY <1>1
  <2>2. /\ a \in Seq(S)
        /\ Len(a) = IF 1 <= i - 1 THEN (i - 1) - 1 + 1 ELSE 0
        /\ \A j \in 1 .. (i - 1) - 1 + 1 : a[j] = list[1 + j - 1]
    BY <1>1, <2>1, SubSeqProperties
  <2> HIDE DEF a
  <2> QED
    BY <2>2
<1>3. /\ b \in Seq(S) /\ Len(b) = Len(list) - i
      /\ \A j \in 1 .. Len(list) - i : b[j] = list[i + j]
  <2>1. \A j \in i + 1 .. Len(list) : list[j] \in S
    BY <1>1
  <2>2. /\ b \in Seq(S)
        /\ Len(b) = IF i + 1 <= Len(list) THEN Len(list) - (i + 1) + 1 ELSE 0
        /\ \A j \in 1 .. Len(list) - (i + 1) + 1 : b[j] = list[(i + 1) + j - 1]
    BY <1>1, <2>1, SubSeqProperties
  <2> HIDE DEF b
  <2> QED
    BY <1>1, <2>2
<1>4. RemoveAt(list, i) = a \o b
  BY DEF RemoveAt
<1> HIDE DEF a, b
<1>5. /\ a \o b \in Seq(S)
      /\ Len(a \o b) = Len(a) + Len(b)
      /\ \A j \in 1 .. Len(a) + Len(b) :
           (a \o b)[j] = IF j <= Len(a) THEN a[j] ELSE b[j - Len(a)]
  BY <1>2, <1>3, ConcatProperties
<1> DEFINE c == a \o b
<1> HIDE DEF c
<1>6. c \in Seq(S) /\ Len(c) = Len(list) - 1
  BY <1>1, <1>2, <1>3, <1>5 DEF c
<1>7. ASSUME NEW j \in 1 .. i - 1
      PROVE  c[j] = list[j]
  BY <1>1, <1>2, <1>3, <1>5 DEF c
<1>8. ASSUME NEW j \in i .. Len(list) - 1
      PROVE  c[j] = list[j + 1]
  <2>1. c[j] = b[j - Len(a)]
    BY <1>1, <1>2, <1>3, <1>5 DEF c
  <2>2. j - Len(a) \in 1 .. Len(list) - i /\ i + (j - Len(a)) = j + 1
    BY <1>1, <1>2
  <2>3. b[j - Len(a)] = list[i + (j - Len(a))]
    BY <1>3, <2>2
  <2> QED
    BY <2>1, <2>2, <2>3
<1>9. RemoveAt(list, i) = c
  BY <1>4 DEF c
<1> QED
  BY <1>6, <1>7, <1>8, <1>9

NoneTwice(list) == \A j, k \in 1 .. Len(list) : list[j] = list[k] => j = k

LEMMA RemoveAtRemoves ==
  ASSUME NEW S, NEW list \in Seq(S), NoneTwice(list), NEW i \in 1 .. Len(list)
  PROVE  /\ ToSet(RemoveAt(list, i)) = ToSet(list) \ {list[i]}
         /\ NoneTwice(RemoveAt(list, i))
<1> DEFINE rest == RemoveAt(list, i)
<1>1. /\ rest \in Seq(S) /\ Len(list) \in Nat
      /\ Len(rest) = Len(list) - 1
      /\ \A j \in 1 .. i - 1 : rest[j] = list[j]
      /\ \A j \in i .. Len(list) - 1 : rest[j] = list[j + 1]
  BY RemoveAtIs, LenProperties
<1> HIDE DEF rest
<1>2. DOMAIN rest = 1 .. Len(list) - 1 /\ DOMAIN list = 1 .. Len(list)
  BY <1>1, LenProperties
<1>3. ASSUME NEW x \in ToSet(rest)
      PROVE  x \in ToSet(list) \ {list[i]}
  <2>1. PICK j \in 1 .. Len(list) - 1 : x = rest[j]
    BY <1>2 DEF ToSet
  <2>2. CASE j < i
    <3>1. x = list[j] /\ j \in 1 .. Len(list) /\ j # i
      BY <1>1, <2>1, <2>2
    <3> QED
      BY <1>2, <3>1 DEF ToSet, NoneTwice
  <2>3. CASE j >= i
    <3>1. x = list[j + 1] /\ j + 1 \in 1 .. Len(list) /\ j + 1 # i
      BY <1>1, <2>1, <2>3
    <3> QED
      BY <1>2, <3>1 DEF ToSet, NoneTwice
  <2> QED
    BY <2>2, <2>3
<1>4. ASSUME NEW x \in ToSet(list), x # list[i]
      PROVE  x \in ToSet(rest)
  <2>1. PICK j \in 1 .. Len(list) : x = list[j]
    BY <1>2 DEF ToSet
  <2>2. CASE j < i
    <3>1. x = rest[j] /\ j \in 1 .. Len(list) - 1
      BY <1>1, <2>1, <2>2
    <3> QED
      BY <1>2, <3>1 DEF ToSet
  <2>3. CASE j > i
    <3>1. j - 1 \in i .. Len(list) - 1 /\ (j - 1) + 1 = j
      BY <1>1, <2>3
    <3>2. x = rest[j - 1]
      BY <1>1, <2>1, <3>1
    <3> QED
      BY <1>2, <3>1, <3>2 DEF ToSet
  <2> QED
    BY <1>4, <2>1, <2>2, <2>3
<1>5. NoneTwice(rest)
  <2> SUFFICES ASSUME NEW j \in 1 .. Len(rest), NEW k \in 1 .. Len(rest),
                      rest[j] = rest[k]
               PROVE  j = k
    BY DEF NoneTwice
  <2> DEFINE Place(l) == IF l < i THEN l ELSE l + 1
  <2>1. \A l \in 1 .. Len(rest) : rest[l] = list[Place(l)] /\ Place(l) \in 1 .. Len(list)
    BY <1>1
  <2>2. Place(j) = Place(k)
    <3> HIDE DEF Place
    <3> QED
      BY <2>1 DEF NoneTwice
  <2> QED
    BY <2>2, <1>1
<1> QED
  BY <1>3, <1>4, <1>5 DEF rest

-----------------------------------------------------------------------------
(* The loop's own invariant.                                               *)

States == [list : Seq(sessions), count : Int, user : Users \cup {NONE}, i : Nat]

Deleted(st) == N - Len(st.list)

(* The place in SessionList up to which the loop has come: every deletion  *)
(* has carried it over one entry more.                                     *)
Place(st) == st.i + Deleted(st)

Passed(s, q) == {x \in Closed(s) : Rank(x) <= q}

(* After k iterations of the loop: the entries not yet reached are where   *)
(* they were, moved by the deletions; what Closed names among the others   *)
(* is gone; and the entry skipped last is not one that Closed names.       *)
Walked(st, k, s, user) ==
  /\ st \in States
  /\ Deleted(st) \in Nat
  /\ Place(st) <= N + 1
  /\ \A j \in st.i + 1 .. Len(st.list) : st.list[j] = SessionList[j + Deleted(st)]
  /\ NoneTwice(st.list)
  /\ ToSet(st.list) = sessions \ Passed(s, Place(st))
  /\ Cardinality(Passed(s, Place(st))) = Deleted(st)
  /\ Place(st) \in 1 .. N => SessionList[Place(st)] \notin Closed(s)
  /\ st.count = (nsessions[s] - Deleted(st)) % UIntMod
  /\ st.user = IF nsessions[s] \in 1 .. Deleted(st) THEN NONE ELSE user
  /\ st.i = k \/ Place(st) >= N

LEMMA PassedFinite ==
  ASSUME ListOK, NEW s, NEW q
  PROVE  IsFiniteSet(Passed(s, q)) /\ Passed(s, q) \subseteq sessions
<1>1. Passed(s, q) \subseteq sessions
  BY DEF Passed, Closed, SessionsOn
<1> QED
  BY <1>1, FS_Subset DEF ListOK

(* Going on by a place passes the session there, if it is one to close.    *)
LEMMA PassedNext ==
  ASSUME ListOK, NEW s, NEW q \in Nat, q < N
  PROVE  Passed(s, q + 1) = IF SessionList[q + 1] \in Closed(s)
                            THEN Passed(s, q) \cup {SessionList[q + 1]}
                            ELSE Passed(s, q)
<1> DEFINE x == SessionList[q + 1]
<1>1. x \in sessions /\ Rank(x) = q + 1
  BY ListIs, HandleType
<1>2. \A y \in Closed(s) : Rank(y) \in Nat /\ (Rank(y) = q + 1 => y = x)
  <2> SUFFICES ASSUME NEW y \in Closed(s)
               PROVE  Rank(y) \in Nat /\ (Rank(y) = q + 1 => y = x)
    OBVIOUS
  <2>1. y \in sessions
    BY DEF Closed, SessionsOn
  <2> QED
    BY <2>1, ListIs, RankOrder
<1> HIDE DEF x
<1>3. ASSUME NEW y \in Closed(s)
      PROVE  Rank(y) <= q + 1 <=> Rank(y) <= q \/ y = x
  BY <1>1, <1>2
<1>4. Passed(s, q + 1) = Passed(s, q) \cup (Closed(s) \cap {x})
  BY <1>3 DEF Passed
<1> QED
  BY <1>4 DEF x

LEMMA WalkedFirst ==
  ASSUME ListOK, NEW s \in Slots, nsessions[s] \in 0 .. UIntMod - 1,
         NEW user \in Users \cup {NONE}
  PROVE  Walked(Before(s, user), 0, s, user)
<1> DEFINE st == Before(s, user)
<1>1. /\ st.list = SessionList /\ st.count = nsessions[s] /\ st.user = user /\ st.i = 0
      /\ st \in States
  BY ListIs DEF Before, States
<1> HIDE DEF st
<1>2. Deleted(st) = 0 /\ Place(st) = 0
  BY <1>1, ListIs, HandleType DEF Deleted, Place
<1>3. Passed(s, 0) = {}
  <2> SUFFICES ASSUME NEW x \in Passed(s, 0) PROVE FALSE
    OBVIOUS
  <2>1. x \in sessions /\ Rank(x) <= 0
    BY DEF Passed, Closed, SessionsOn
  <2> QED
    BY <2>1, RankOrder, HandleType
<1>4. NoneTwice(SessionList) /\ ToSet(SessionList) = sessions
  <2>1. DOMAIN SessionList = 1 .. N
    BY ListIs, LenProperties
  <2>2. \A x \in sessions : Rank(x) \in 1 .. N
    BY RankOrder
  <2> QED
    BY <2>1, <2>2, ListIs DEF NoneTwice, ToSet
<1>5. \A j \in st.i + 1 .. Len(st.list) : st.list[j] = SessionList[j + Deleted(st)]
  BY <1>1, <1>2, ListIs, HandleType
<1>6. st.count = (nsessions[s] - Deleted(st)) % UIntMod
  <2>1. nsessions[s] \in Nat /\ nsessions[s] < UIntMod /\ nsessions[s] - 0 = nsessions[s]
    BY BoundAssumption
  <2> QED
    BY <1>1, <1>2, <2>1, ModSame
<1>7. Cardinality(Passed(s, Place(st))) = Deleted(st)
  BY <1>2, <1>3, FS_EmptySet
<1>8. ToSet(st.list) = sessions \ Passed(s, Place(st))
  BY <1>1, <1>2, <1>3, <1>4
<1>9. Place(st) <= N + 1 /\ ~(Place(st) \in 1 .. N)
  BY <1>2, HandleType
<1>10. ~(nsessions[s] \in 1 .. Deleted(st))
  BY <1>2
<1> QED
  BY <1>1, <1>2, <1>4, <1>5, <1>6, <1>7, <1>8, <1>9, <1>10 DEF Walked, st

(* An iteration that finds the next entry.                                 *)
LEMMA WalkedVisit ==
  ASSUME ListOK, NEW s \in Slots, nsessions[s] \in 0 .. UIntMod - 1,
         NEW user \in Users \cup {NONE}, NEW k \in Nat, NEW st,
         Walked(st, k, s, user), st.i < Len(st.list)
  PROVE  Walked(Visit(st, s), k + 1, s, user)
<1> DEFINE d == Deleted(st)
           q == Place(st)
           x == SessionList[q + 1]
           to == Visit(st, s)
<1>1. /\ st \in States /\ st.list \in Seq(sessions) /\ st.i \in Nat
      /\ Len(st.list) \in Nat /\ N \in Nat /\ N <= MaxSessions
      /\ d \in Nat /\ d = N - Len(st.list) /\ q = st.i + d
  BY LenProperties, HandleType DEF Walked, States, Deleted, Place
<1>w. /\ \A j \in st.i + 1 .. Len(st.list) : st.list[j] = SessionList[j + d]
      /\ NoneTwice(st.list)
      /\ ToSet(st.list) = sessions \ Passed(s, q)
      /\ Cardinality(Passed(s, q)) = d
      /\ q \in 1 .. N => SessionList[q] \notin Closed(s)
      /\ st.count = (nsessions[s] - d) % UIntMod
      /\ st.user = IF nsessions[s] \in 1 .. d THEN NONE ELSE user
      /\ st.i = k \/ q >= N
  BY DEF Walked
<1> HIDE DEF d, q
<1>n. st.i \in Nat /\ d \in Nat /\ q = st.i + d
  BY <1>1
<1>m. nsessions[s] \in Nat
  BY BoundAssumption
<1>2. q \in Nat /\ q < N /\ q + 1 \in 1 .. N
  BY <1>1
<1>3. st.list[st.i + 1] = x
  <2>1. st.i + 1 \in st.i + 1 .. Len(st.list)
    BY <1>1
  <2>2. st.list[st.i + 1] = SessionList[(st.i + 1) + d]
    BY <1>w, <2>1
  <2>3. (st.i + 1) + d = q + 1
    BY <1>1
  <2> QED
    BY <2>2, <2>3
<1>4. x \in sessions /\ Rank(x) = q + 1
  BY <1>2, ListIs
<1>5. x \in Closed(s) <=> x.slot = s
  <2>1. q \in 1 .. N => SessionList[q] \notin Closed(s)
    BY <1>w
  <2>2. (q + 1) - 1 = q /\ (q + 1 = 1 \/ q \in 1 .. N)
    BY <1>1, <1>2
  <2> QED
    BY <1>2, <2>1, <2>2, ClosedByPlace
<1>6. CASE x.slot # s
  <2>1. /\ to.list = st.list /\ to.count = st.count /\ to.user = st.user
        /\ to.i = st.i + 1 /\ to \in States
    <3>1. to = [st EXCEPT !.i = @ + 1]
      BY <1>3, <1>6 DEF Visit
    <3>2. st = [list |-> st.list, count |-> st.count, user |-> st.user, i |-> st.i]
      BY <1>1 DEF States
    <3> HIDE DEF to
    <3>3. to = [list |-> st.list, count |-> st.count, user |-> st.user, i |-> st.i + 1]
      BY <3>1, <3>2
    <3>4. st.count \in Int /\ st.user \in Users \cup {NONE}
      BY <1>1 DEF States
    <3> QED
      BY <1>1, <3>3, <3>4 DEF States
  <2> HIDE DEF to
  <2>2. Deleted(to) = d /\ Place(to) = q + 1
    BY <1>1, <2>1 DEF Deleted, Place
  <2>3. Passed(s, q + 1) = Passed(s, q)
    BY <1>2, <1>5, <1>6, PassedNext
  <2>4. \A j \in to.i + 1 .. Len(to.list) : to.list[j] = SessionList[j + d]
    <3>1. \A j \in to.i + 1 .. Len(to.list) : j \in st.i + 1 .. Len(st.list)
      BY <1>1, <2>1
    <3> QED
      BY <1>w, <2>1, <3>1
  <2>5. SessionList[q + 1] \notin Closed(s)
    BY <1>5, <1>6
  <2>6. to.i = k + 1 \/ q + 1 >= N
    <3>1. st.i = k \/ q >= N
      BY <1>w
    <3> QED
      BY <1>1, <1>2, <2>1, <3>1
  <2>7. q + 1 <= N + 1
    BY <1>1, <1>2
  <2> HIDE DEF x
  <2>8. NoneTwice(st.list) /\ ToSet(st.list) = sessions \ Passed(s, q)
        /\ Cardinality(Passed(s, q)) = d
        /\ st.count = (nsessions[s] - d) % UIntMod
        /\ st.user = IF nsessions[s] \in 1 .. d THEN NONE ELSE user
    BY <1>w
  <2>9. Walked(to, k + 1, s, user)
    BY <1>1, <2>1, <2>2, <2>3, <2>4, <2>5, <2>6, <2>7, <2>8 DEF Walked
  <2> QED
    BY <2>9 DEF to
<1>7. CASE x.slot = s
  <2>1. x \in Closed(s)
    BY <1>5, <1>7
  <2> DEFINE rest == RemoveAt(st.list, st.i + 1)
             n == (st.count - 1) % UIntMod
  <2>2. /\ rest \in Seq(sessions) /\ Len(rest) = Len(st.list) - 1
        /\ \A j \in st.i + 1 .. Len(st.list) - 1 : rest[j] = st.list[j + 1]
        /\ ToSet(rest) = ToSet(st.list) \ {x}
        /\ NoneTwice(rest)
    <3>1. st.i + 1 \in 1 .. Len(st.list)
      BY <1>1
    <3>2. NoneTwice(st.list)
      BY <1>w
    <3>3. /\ rest \in Seq(sessions) /\ Len(rest) = Len(st.list) - 1
          /\ \A j \in st.i + 1 .. Len(st.list) - 1 : rest[j] = st.list[j + 1]
      BY <1>1, <3>1, RemoveAtIs
    <3>4. /\ ToSet(rest) = ToSet(st.list) \ {st.list[st.i + 1]}
          /\ NoneTwice(rest)
      BY <1>1, <3>1, <3>2, RemoveAtRemoves
    <3> QED
      BY <1>3, <3>3, <3>4
  <2>3. n \in Int
    <3>1. st.count \in Int
      BY <1>1 DEF States
    <3> QED
      BY <3>1, ModRange
  <2>4. /\ to.list = rest /\ to.count = n
        /\ to.user = IF n = 0 THEN NONE ELSE st.user
        /\ to.i = st.i + 1 /\ to \in States
    <3>1. to = [Close(st) EXCEPT !.i = @ + 1]
      BY <1>3, <1>7 DEF Visit
    <3>2. Close(st) = [list |-> rest, count |-> n,
                       user |-> IF n = 0 THEN NONE ELSE st.user, i |-> st.i]
      BY DEF Close
    <3> HIDE DEF to, rest, n
    <3>3. to = [list |-> rest, count |-> n,
                user |-> IF n = 0 THEN NONE ELSE st.user, i |-> st.i + 1]
      BY <3>1, <3>2
    <3> QED
      BY <1>1, <2>2, <2>3, <3>3 DEF States
  <2> HIDE DEF to, rest
  <2>5. Deleted(to) = d + 1 /\ Place(to) = q + 2
    <3>1. Len(to.list) = Len(st.list) - 1 /\ to.i = st.i + 1
      BY <2>2, <2>4
    <3>2. Deleted(to) = d + 1
      BY <1>1, <3>1 DEF Deleted
    <3>3. to.i \in Nat /\ Deleted(to) \in Nat
      BY <1>1, <3>1, <3>2
    <3>4. to.i + Deleted(to) = q + 2
      BY <1>n, <3>1, <3>2
    <3> QED
      BY <3>2, <3>4 DEF Place
  <2>6. x \notin Passed(s, q)
    BY <1>2, <1>4 DEF Passed
  <2>7. Passed(s, q + 1) = Passed(s, q) \cup {x}
    BY <1>2, <2>1, PassedNext
  <2>8. q + 1 < N => SessionList[q + 2] \notin Closed(s)
    <3> HAVE q + 1 < N
    <3>1. q + 2 \in 1 .. N /\ (q + 2) - 1 = q + 1 /\ q + 2 # 1
      BY <1>2, HandleType
    <3> QED
      BY <2>1, <3>1, ClosedByPlace
  <2>9. Passed(s, q + 2) = Passed(s, q + 1)
    <3>1. CASE q + 1 < N
      <4>1. q + 1 \in Nat /\ (q + 1) + 1 = q + 2
        BY <1>2
      <4> QED
        BY <2>8, <3>1, <4>1, PassedNext
    <3>2. CASE q + 1 = N
      <4>1. \A y \in Closed(s) : Rank(y) \in 1 .. N
        BY RankOrder DEF Closed, SessionsOn
      <4>2. \A y \in Closed(s) : Rank(y) <= q + 2 /\ Rank(y) <= q + 1
        BY <1>1, <1>2, <3>2, <4>1
      <4> QED
        BY <4>2 DEF Passed
    <3> QED
      BY <1>1, <1>2, <3>1, <3>2
  <2>10. ToSet(to.list) = sessions \ Passed(s, q + 2)
    <3>1. ToSet(st.list) = sessions \ Passed(s, q)
      BY <1>w
    <3> QED
      BY <2>2, <2>4, <2>7, <2>9, <3>1
  <2>11. Cardinality(Passed(s, q + 2)) = d + 1
    <3>1. Cardinality(Passed(s, q)) = d
      BY <1>w
    <3>2. IsFiniteSet(Passed(s, q))
      BY PassedFinite
    <3>3. Cardinality(Passed(s, q) \cup {x}) = d + 1
      BY <2>6, <3>1, <3>2, FS_AddElement
    <3> QED
      BY <2>7, <2>9, <3>3
  <2>12. \A j \in to.i + 1 .. Len(to.list) : to.list[j] = SessionList[j + (d + 1)]
    <3> SUFFICES ASSUME NEW j \in to.i + 1 .. Len(to.list)
                 PROVE  to.list[j] = SessionList[j + (d + 1)]
      OBVIOUS
    <3>1. /\ j \in st.i + 1 .. Len(st.list) - 1
          /\ j + 1 \in st.i + 1 .. Len(st.list)
          /\ (j + 1) + d = j + (d + 1)
      BY <1>1, <2>2, <2>4
    <3>2. rest[j] = st.list[j + 1]
      BY <2>2, <3>1
    <3>3. st.list[j + 1] = SessionList[(j + 1) + d]
      BY <1>w, <3>1
    <3> QED
      BY <2>4, <3>1, <3>2, <3>3
  <2>13. /\ n = (nsessions[s] - (d + 1)) % UIntMod
         /\ n = 0 <=> nsessions[s] = d + 1
    <3>1. d < MaxSessions
      BY <1>1, BoundAssumption
    <3>2. st.count = (nsessions[s] - d) % UIntMod
      BY <1>w
    <3> QED
      BY <1>n, <3>1, <3>2, CountDown
  <2>14. to.user = IF nsessions[s] \in 1 .. d + 1 THEN NONE ELSE user
    <3>1. st.user = IF nsessions[s] \in 1 .. d THEN NONE ELSE user
      BY <1>w
    <3>2. nsessions[s] \in 1 .. d + 1 <=> nsessions[s] \in 1 .. d \/ nsessions[s] = d + 1
      BY <1>n, <1>m
    <3> QED
      BY <2>4, <2>13, <3>1, <3>2
  <2>15. q + 2 <= N + 1 /\ (q + 2 \in 1 .. N => SessionList[q + 2] \notin Closed(s))
    BY <1>1, <1>2, <2>8
  <2>16. to.i = k + 1 \/ q + 2 >= N
    <3>1. st.i = k \/ q >= N
      BY <1>w
    <3>2. to.i = st.i + 1
      BY <2>4
    <3> QED
      BY <1>1, <1>2, <3>1, <3>2
  <2>17. d + 1 \in Nat
    BY <1>1
  <2> HIDE DEF x, n
  <2>18. Walked(to, k + 1, s, user)
    BY <2>2, <2>4, <2>5, <2>10, <2>11, <2>12, <2>13, <2>14, <2>15, <2>16, <2>17
    DEF Walked
  <2> QED
    BY <2>18 DEF to
<1> QED
  BY <1>6, <1>7

LEMMA WalkedNext ==
  ASSUME ListOK, NEW s \in Slots, nsessions[s] \in 0 .. UIntMod - 1,
         NEW user \in Users \cup {NONE}, NEW k \in Nat, NEW st,
         Walked(st, k, s, user)
  PROVE  Walked(Iterate(st, s), k + 1, s, user)
<1>1. CASE st.i < Len(st.list)
  BY <1>1, WalkedVisit DEF Iterate
<1>2. CASE ~(st.i < Len(st.list))
  <2>1. Iterate(st, s) = st
    BY <1>2 DEF Iterate
  <2>2. Place(st) >= N
    <3>1. Len(st.list) \in Nat /\ st.i \in Nat /\ N \in Nat
      BY LenProperties, HandleType DEF Walked, States
    <3> QED
      BY <1>2, <3>1 DEF Place, Deleted
  <2> QED
    BY <2>1, <2>2 DEF Walked
<1> QED
  BY <1>1, <1>2

(* What the loop leaves when it has come to the end of the list.           *)
LEMMA WalkedLast ==
  ASSUME ListOK, NEW s \in Slots, NEW user \in Users \cup {NONE}, NEW st,
         Walked(st, N, s, user)
  PROVE  LET n == Cardinality(Closed(s))
         IN  /\ ToSet(st.list) = sessions \ Closed(s)
             /\ st.count = Less(s, n)
             /\ st.user = IF user >= 0 /\ PassesZero(s, n) THEN NONE ELSE user
<1>1. Place(st) >= N
  <2>1. Place(st) = st.i + Deleted(st) /\ st.i \in Nat /\ Deleted(st) \in Nat /\ N \in Nat
    BY HandleType DEF Place, Walked, States
  <2> QED
    BY <2>1 DEF Walked
<1>2. Passed(s, Place(st)) = Closed(s)
  <2>1. \A x \in Closed(s) : Rank(x) \in 1 .. N
    BY RankOrder DEF Closed, SessionsOn
  <2>2. Place(st) \in Int
    BY HandleType DEF Place, Walked, States
  <2>3. \A x \in Closed(s) : Rank(x) <= Place(st)
    BY <1>1, <2>1, <2>2, HandleType
  <2> QED
    BY <2>3 DEF Passed
<1>3. user >= 0 \/ user = NONE
  BY DEF Users, CKU_SO, CKU_USER
<1> QED
  BY <1>2, <1>3 DEF Walked, Less, PassesZero

-----------------------------------------------------------------------------
(* The iterations, one after the other.                                    *)

IsRun(run, m, s, user) ==
  run = [k \in 0 .. m |-> IF k = 0 THEN Before(s, user) ELSE Iterate(run[k - 1], s)]

LEMMA RunExists ==
  ASSUME NEW s, NEW user, NEW m \in Nat
  PROVE  \E run : IsRun(run, m, s, user)
<1> DEFINE S == {n \in Nat : ~ \E run : IsRun(run, n, s, user)}
<1>1. SUFFICES ASSUME S # {} PROVE FALSE
  OBVIOUS
<1>2. PICK n \in S : \A y \in S : n <= y
  <2> HIDE DEF S
  <2>1. S \subseteq Nat
    BY DEF S
  <2> QED
    BY <1>1, <2>1, SmallestNat
<1>3. n \in Nat /\ ~ \E run : IsRun(run, n, s, user)
  OBVIOUS
<1>4. CASE n = 0
  <2> DEFINE run == [k \in 0 .. n |-> Before(s, user)]
  <2>1. run = [k \in 0 .. n |-> IF k = 0 THEN Before(s, user) ELSE Iterate(run[k - 1], s)]
    BY <1>4
  <2> HIDE DEF run
  <2> QED
    BY <1>3, <2>1 DEF IsRun
<1>5. CASE n # 0
  <2>1. n - 1 \in Nat /\ ~(n <= n - 1)
    BY <1>3, <1>5
  <2>2. PICK f : IsRun(f, n - 1, s, user)
    BY <1>2, <2>1
  <2>3. \A k \in 0 .. n - 1 :
          f[k] = IF k = 0 THEN Before(s, user) ELSE Iterate(f[k - 1], s)
    BY <2>2 DEF IsRun
  <2> DEFINE run == [k \in 0 .. n |-> IF k < n THEN f[k] ELSE Iterate(f[n - 1], s)]
  <2>4. ASSUME NEW k \in 0 .. n
        PROVE  run[k] = IF k = 0 THEN Before(s, user) ELSE Iterate(run[k - 1], s)
    <3>1. CASE k < n
      <4>1. k \in 0 .. n - 1 /\ run[k] = f[k]
        BY <1>3, <3>1
      <4>2. k # 0 => k - 1 \in 0 .. n /\ k - 1 < n
        BY <1>3, <3>1
      <4>3. k # 0 => run[k - 1] = f[k - 1]
        BY <4>2
      <4> HIDE DEF run
      <4> QED
        BY <2>3, <4>1, <4>3
    <3>2. CASE k = n
      <4>1. n - 1 \in 0 .. n /\ n - 1 < n /\ n \in 0 .. n /\ ~(n < n)
        BY <1>3, <1>5
      <4>2. run[n] = Iterate(f[n - 1], s) /\ run[n - 1] = f[n - 1]
        BY <4>1
      <4> HIDE DEF run
      <4> QED
        BY <1>5, <3>2, <4>2
    <3> QED
      BY <1>3, <3>1, <3>2
  <2>5. run = [k \in 0 .. n |-> run[k]]
    OBVIOUS
  <2> HIDE DEF run
  <2>6. [k \in 0 .. n |-> run[k]] =
        [k \in 0 .. n |-> IF k = 0 THEN Before(s, user) ELSE Iterate(run[k - 1], s)]
    BY <2>4, Zenon
  <2>7. IsRun(run, n, s, user)
    BY <2>5, <2>6 DEF IsRun
  <2> QED
    BY <1>3, <2>7
<1> QED
  BY <1>4, <1>5

LEMMA LoopIsRun ==
  ASSUME NEW s, NEW user, ListOK
  PROVE  \E run : IsRun(run, N, s, user) /\ Loop(s, user) = run[N]
<1> DEFINE run == CHOOSE f : IsRun(f, N, s, user)
<1>1. IsRun(run, N, s, user)
  BY RunExists, HandleType, Zenon
<1>2. Loop(s, user) = run[N]
  BY DEF Loop, N, IsRun
<1> QED
  BY <1>1, <1>2

LEMMA LoopWalks ==
  ASSUME ListOK, NEW s \in Slots, nsessions[s] \in 0 .. UIntMod - 1,
         NEW user \in Users \cup {NONE}
  PROVE  Walked(Loop(s, user), N, s, user)
<1>1. PICK run : IsRun(run, N, s, user) /\ Loop(s, user) = run[N]
  BY LoopIsRun
<1>2. \A k \in 0 .. N :
        run[k] = IF k = 0 THEN Before(s, user) ELSE Iterate(run[k - 1], s)
  BY <1>1 DEF IsRun
<1>n. N \in Nat
  BY HandleType
<1> DEFINE S == {k \in 0 .. N : ~Walked(run[k], k, s, user)}
<1>3. SUFFICES ASSUME S # {} PROVE FALSE
  BY <1>1, <1>n
<1>4. PICK k \in S : \A y \in S : k <= y
  <2> HIDE DEF S
  <2>1. S \subseteq Nat
    BY <1>n DEF S
  <2> QED
    BY <1>3, <2>1, SmallestNat
<1>5. k \in 0 .. N /\ ~Walked(run[k], k, s, user)
  OBVIOUS
<1>6. CASE k = 0
  <2>1. run[k] = Before(s, user)
    BY <1>2, <1>5, <1>6
  <2> QED
    BY <1>5, <1>6, <2>1, WalkedFirst
<1>7. CASE k # 0
  <2>1. k - 1 \in 0 .. N /\ k - 1 \in Nat /\ ~(k <= k - 1) /\ (k - 1) + 1 = k
    BY <1>n, <1>5, <1>7
  <2>2. Walked(run[k - 1], k - 1, s, user)
    BY <1>4, <2>1
  <2>3. run[k] = Iterate(run[k - 1], s)
    BY <1>2, <1>5, <1>7
  <2>4. Walked(Iterate(run[k - 1], s), (k - 1) + 1, s, user)
    BY <2>1, <2>2, WalkedNext
  <2> QED
    BY <1>5, <2>1, <2>3, <2>4
<1> QED
  BY <1>6, <1>7

-----------------------------------------------------------------------------
(* In every reachable state.                                               *)

Opens ==
  \E h \in Handles : \E s, rw :
    /\ \A x \in sessions : x.handle < h
    /\ sessions' = sessions \cup {[handle |-> h, slot |-> s, rw |-> rw]}

(* Only C_OpenSession adds a session, at the end of the list.              *)
LEMMA SessionSteps ==
  ASSUME [Next]_vars
  PROVE  sessions' \subseteq sessions \/ Opens
<1>1. ASSUME NEW x \in sessions, C_CloseSession(x)
      PROVE  sessions' \subseteq sessions
  BY <1>1 DEF C_CloseSession
<1>2. ASSUME NEW x \in sessions, C_GetSessionInfo(x)
      PROVE  sessions' \subseteq sessions
  BY <1>2 DEF C_GetSessionInfo, CloseAll
<1>3. ASSUME NEW x \in sessions, NEW rv, NEW user,
             \/ C_Logout(x) \/ UseToken(x, rv) \/ C_InitPIN(x, rv)
             \/ C_SetPIN(x, rv) \/ C_Login(x, user, rv)
      PROVE  sessions' \subseteq sessions
  BY <1>3 DEF C_Logout, UseToken, C_InitPIN, C_SetPIN, C_Login, userVars
<1>4. CASE SessionCall
  BY <1>1, <1>2, <1>3, <1>4 DEF SessionCall
<1>5. CASE SlotCall \/ UNCHANGED vars
  BY <1>5 DEF SlotCall, DetectAll, GetToken, userVars, vars
<1>6. CASE C_OpenSession
  BY <1>6 DEF C_OpenSession, userVars, Opens
<1>7. CASE C_CloseAllSessions \/ SlotTokenRemoved \/ C_Finalize
  BY <1>7 DEF C_CloseAllSessions, SlotTokenRemoved, C_Finalize, CloseAll, userVars
<1>8. CASE \/ DetectKeep \/ (\E next \in {"done", "bind", "detach"} : DetectRemoved(next))
           \/ DetectNew \/ DetectDone \/ DetachReader \/ CreateSlots
           \/ (\E k \in PinSlots : BindCard(k)) \/ BindFails \/ C_GetSlotList
           \/ C_GetSlotInfo \/ C_GetSlotInfoMarks \/ C_InitToken \/ Rescan
  BY <1>8
     DEF DetectKeep, DetectRemoved, DetectNew, DetectDone, DetachReader, CreateSlots,
         BindCard, BindFails, C_GetSlotList, C_GetSlotInfo, C_GetSlotInfoMarks,
         C_InitToken, Rescan, userVars
<1> QED
  BY <1>4, <1>5, <1>6, <1>7, <1>8 DEF Next, Progress

LEMMA HandlesInvariance == Spec => [](ListOK /\ Inv)
<1>1. Init => UniqueHandles
  BY DEF Init, UniqueHandles
<1>2. ASSUME Inv, UniqueHandles, [Next]_vars
      PROVE  UniqueHandles'
  <2>1. CASE sessions' \subseteq sessions
    BY <1>2, <2>1 DEF UniqueHandles
  <2>2. CASE Opens
    <3>1. PICK h \in Handles : \E s, rw :
            /\ \A x \in sessions : x.handle < h
            /\ sessions' = sessions \cup {[handle |-> h, slot |-> s, rw |-> rw]}
      BY <2>2 DEF Opens
    <3>2. PICK s, rw : sessions' = sessions \cup {[handle |-> h, slot |-> s, rw |-> rw]}
      BY <3>1
    <3>3. \A x \in sessions : x.handle \in Nat
      BY <1>2 DEF Inv, Typed, TypeOK, Session, Handles
    <3>4. \A x \in sessions : x.handle # h
      BY <3>1, <3>3 DEF Handles
    <3> QED
      BY <1>2, <3>2, <3>4 DEF UniqueHandles
  <2> QED
    BY <1>2, <2>1, <2>2, SessionSteps
<1>3. Spec => []UniqueHandles
  BY <1>1, <1>2, Invariance, PTL DEF Spec
<1>4. Inv /\ UniqueHandles => ListOK /\ Inv
  BY DEF ListOK, Inv, Typed, TypeOK
<1> QED
  BY <1>3, <1>4, Invariance, PTL

(* The loop of sc_pkcs11_close_all_sessions, entry by entry over the list  *)
(* it deletes from, and the closed form in Cryptoki leave the same         *)
(* sessions open, the same counter and the same login.                     *)
THEOREM LoopIsClosedForm == Spec => []LoopIsCloseAll
<1>1. ASSUME ListOK, Inv
      PROVE  LoopIsCloseAll
  <2> SUFFICES ASSUME NEW s \in Slots, NEW user \in {NONE, login_user[s]}
               PROVE  LET st == Loop(s, user)
                          n == Cardinality(Closed(s))
                      IN  /\ ToSet(st.list) = sessions \ Closed(s)
                          /\ st.count = Less(s, n)
                          /\ st.user = IF user >= 0 /\ PassesZero(s, n)
                                       THEN NONE ELSE user
    BY DEF LoopIsCloseAll
  <2>1. user \in Users \cup {NONE} /\ nsessions[s] \in 0 .. UIntMod - 1
    BY <1>1 DEF Inv, Typed, TypeOK
  <2>2. Walked(Loop(s, user), N, s, user)
    BY <1>1, <2>1, LoopWalks
  <2> QED
    BY <1>1, <2>1, <2>2, WalkedLast
<1> QED
  BY <1>1, HandlesInvariance, PTL
=============================================================================
