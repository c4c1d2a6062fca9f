-------------------------- MODULE FileCacheProofs --------------------------
(* Proofs about FileCache: for one process at a time, on cards whose paths *)
(* name the whole file and on cards whose paths are windows next to each   *)
(* other, the cache file is right and a read returns a beginning of what   *)
(* its path names, for every length of the file and of READ BINARY.  Whole *)
(* files withstand reads, writes and crashes that go wrong at every byte.  *)
EXTENDS FileCache, SequenceTheorems, TLAPS

(* n bytes of the file, from the place b on.                               *)
Piece(b, n) == [i \in 1..n |-> b + i]

(* Where a path ends.                                                      *)
End(w) == w.index + Length(w)

(* No path ends within a window.                                           *)
Adjoining(W) ==
  \A v, w \in W : w = Whole \/ End(v) <= w.index \/ w.index + w.count <= End(v)

(* The setting: one process, and paths that name the whole file or, when   *)
(* nothing goes wrong, windows next to each other.                         *)
Sound ==
  /\ \A p, q \in Procs : p = q
  /\ \A u \in Worlds : u.paths = {Whole} \/ (~u.faults /\ Adjoining(u.paths))

Types ==
  /\ world \in Worlds
  /\ cached = NoFile \/ (Len(cached) \in 0..Size /\ cached = Piece(0, Len(cached)))
  /\ pc \in [Procs -> {"idle", "card", "open", "write"}]
  /\ path \in [Procs -> world.paths \cup {Whole}]
  /\ data \in [Procs -> Seq(1..Size)]
  /\ put \in [Procs -> 0..Size]
  /\ result \in [Procs -> Seq(1..Size) \cup {Failed}]
  /\ orphan \in [Procs -> BOOLEAN]

(* A beginning of what the path names.                                     *)
PieceOf(s, w) == s = Piece(w.index, Len(s)) /\ Len(s) <= Length(w)

(* Why the cache file is right: only a process that did not find its path  *)
(* there writes one, and the file ends where that process has come to.     *)
Reading(p) ==
  /\ path[p] \in world.paths
  /\ PieceOf(data[p], path[p])
  /\ pc[p] # "card" /\ ~world.faults => Len(data[p]) = Length(path[p])
  /\ IF pc[p] = "write"
     THEN ~orphan[p] /\ cached # NoFile /\ Len(cached) = path[p].index + put[p]
     ELSE put[p] = 0 /\ ~Hit(path[p])

Returned(p) == result[p] = Failed \/ PieceOf(result[p], path[p])

Reads ==
  \A p \in Procs : /\ put[p] <= Len(data[p])
                   /\ IF pc[p] = "idle" THEN Returned(p) ELSE Reading(p)

(* Between two writes the file ends where a path does.                     *)
AtEnd(n) == n = 0 \/ \E w \in world.paths : n = End(w)
Between ==
  ~world.faults /\ cached # NoFile /\ (\A p \in Procs : pc[p] # "write")
    => AtEnd(Len(cached))

IInv == Types /\ Reads /\ Between

-----------------------------------------------------------------------------
LEMMA PieceSeq ==
  ASSUME NEW b \in Nat, NEW n \in Nat
  PROVE  /\ Piece(b, n) \in Seq(Nat) /\ Len(Piece(b, n)) = n
         /\ \A i \in 1..n : Piece(b, n)[i] = b + i
         /\ b + n <= Size => Piece(b, n) \in Seq(1..Size)
<1>1. \A i \in 1..n : b + i \in Nat /\ (b + n <= Size => b + i \in 1..Size)
  BY CacheAssumption
<1> QED
  BY <1>1 DEF Piece

LEMMA PieceZero == \A b : Piece(b, 0) = <<>>
BY DEF Piece

(* A piece of a piece.                                                     *)
LEMMA PieceSub ==
  ASSUME NEW b \in Nat, NEW n \in Nat, NEW a \in Nat, NEW c \in Nat, a + c <= n
  PROVE  SubSeq(Piece(b, n), a + 1, a + c) = Piece(b + a, c)
<1> DEFINE s == SubSeq(Piece(b, n), a + 1, a + c)
<1>1. Piece(b, n) \in Seq(Nat) /\ Len(Piece(b, n)) = n /\ \A i \in 1..n : Piece(b, n)[i] = b + i
  BY PieceSeq
<1>2. Piece(b + a, c) \in Seq(Nat) /\ Len(Piece(b + a, c)) = c
      /\ \A i \in 1..c : Piece(b + a, c)[i] = (b + a) + i
  <2>1. b + a \in Nat
    OBVIOUS
  <2> QED
    BY <2>1, PieceSeq, Zenon
<1>3. s \in Seq(Nat) /\ Len(s) = c /\ \A i \in 1..c : s[i] = b + (a + i)
  <2>1. CASE c = 0
    BY <1>1, <2>1
  <2>2. CASE c # 0
    BY <1>1, <2>2
  <2> QED
    BY <2>1, <2>2
<1> HIDE DEF s
<1>4. \A i \in 1..c : s[i] = Piece(b + a, c)[i]
  BY <1>2, <1>3
<1>5. s = Piece(b + a, c)
  BY <1>2, <1>3, <1>4, SeqEqual
<1> QED
  BY <1>5 DEF s

(* A piece, and the one that goes on where it ends.                        *)
LEMMA PieceJoin ==
  ASSUME NEW b \in Nat, NEW m \in Nat, NEW n \in Nat
  PROVE  Piece(b, m) \o Piece(b + m, n) = Piece(b, m + n)
<1> DEFINE s == Piece(b, m)
           t == Piece(b + m, n)
<1>1. s \in Seq(Nat) /\ Len(s) = m /\ \A i \in 1..m : s[i] = b + i
  BY PieceSeq
<1>2. t \in Seq(Nat) /\ Len(t) = n /\ \A i \in 1..n : t[i] = (b + m) + i
  <2>1. b + m \in Nat
    OBVIOUS
  <2> QED
    BY <2>1, PieceSeq, Zenon
<1>3. Piece(b, m + n) \in Seq(Nat) /\ Len(Piece(b, m + n)) = m + n
      /\ \A i \in 1..(m + n) : Piece(b, m + n)[i] = b + i
  BY PieceSeq
<1> HIDE DEF s, t
<1>4. /\ s \o t \in Seq(Nat) /\ Len(s \o t) = Len(s) + Len(t)
      /\ \A i \in 1..Len(s) + Len(t) :
           (s \o t)[i] = IF i <= Len(s) THEN s[i] ELSE t[i - Len(s)]
  BY <1>1, <1>2, ConcatProperties
<1>5. ASSUME NEW i \in 1..(m + n)
      PROVE  (s \o t)[i] = Piece(b, m + n)[i]
  <2>1. CASE i <= m
    BY <1>1, <1>2, <1>3, <1>4, <2>1
  <2>2. CASE ~(i <= m)
    <3>1. i - m \in 1..n /\ (b + m) + (i - m) = b + i
      BY <2>2
    <3> QED
      BY <1>1, <1>2, <1>3, <1>4, <2>2, <3>1
  <2> QED
    BY <2>1, <2>2
<1>6. s \o t = Piece(b, m + n)
  BY <1>1, <1>2, <1>3, <1>4, <1>5, SeqEqual
<1> QED
  BY <1>6 DEF s, t

(* What the assumptions say of a path.                                     *)
LEMMA PathType ==
  ASSUME world \in Worlds, NEW w \in world.paths \cup {Whole}
  PROVE  /\ w.index \in Nat /\ Length(w) \in Nat /\ End(w) \in Nat /\ End(w) <= Size
         /\ Bytes(w) = Piece(w.index, Length(w))
         /\ w = Whole => w.index = 0 /\ w.count = -1 /\ Length(w) = Size
         /\ w # Whole => Length(w) = w.count
         /\ w \in Windows \cup {Whole}
<1>1. Size \in Nat
  BY CacheAssumption
<1>2. Bytes(w) = Piece(w.index, Length(w))
  BY DEF Bytes, Piece
<1>3. CASE w = Whole
  BY <1>1, <1>2, <1>3 DEF Whole, Length, End
<1>4. CASE w # Whole
  <2>1. w \in Windows /\ w.index + w.count <= Size
    BY <1>4, CacheAssumption
  <2>2. w.index \in Nat /\ w.count \in Nat
    BY <1>1, <2>1 DEF Windows
  <2> QED
    BY <1>1, <1>2, <1>4, <2>1, <2>2 DEF Length, End
<1> QED
  BY <1>3, <1>4

LEMMA CachedType ==
  ASSUME Types, cached # NoFile
  PROVE  /\ Len(cached) \in Nat /\ Len(cached) <= Size
         /\ cached = Piece(0, Len(cached)) /\ cached \in Seq(1..Size)
<1>1. Len(cached) \in Nat /\ Len(cached) <= Size /\ cached = Piece(0, Len(cached))
  BY CacheAssumption DEF Types
<1> QED
  BY <1>1, PieceSeq

(* The cache holds the whole file's path as soon as there is a cache file. *)
LEMMA WholeHit ==
  ASSUME Types, cached # NoFile
  PROVE  Hit(Whole)
<1>1. Whole.index + Whole.count = -1
  BY DEF Whole
<1> QED
  BY <1>1, CachedType DEF Hit

-----------------------------------------------------------------------------
LEMMA InitIInv == Init => IInv
<1> SUFFICES ASSUME Init PROVE IInv
  OBVIOUS
<1>1. Types
  <2>1. 0 \in 0..Size
    BY CacheAssumption
  <2> QED
    BY <2>1 DEF Init, Types
<1>2. Reads
  BY DEF Init, Reads, Returned
<1>3. Between
  BY DEF Init, Between
<1> QED
  BY <1>1, <1>2, <1>3 DEF IInv

(* For one process, to be right is to be right about it.                   *)
LEMMA OneProcess ==
  ASSUME Sound, NEW p \in Procs, Types',
         (put[p] <= Len(data[p]))',
         IF pc'[p] = "idle" THEN Returned(p)' ELSE Reading(p)',
         ~world'.faults /\ cached' # NoFile /\ pc'[p] # "write" => AtEnd(Len(cached))'
  PROVE  IInv'
<1>1. \A q \in Procs : q = p
  BY DEF Sound
<1>2. Reads'
  BY <1>1 DEF Reads
<1>3. Between'
  BY <1>1 DEF Between
<1> QED
  BY <1>2, <1>3 DEF IInv

(* The end of the cache file is not changed.                               *)
LEMMA EndKept ==
  ASSUME Sound, NEW p \in Procs, IInv, pc[p] # "write", UNCHANGED <<world, cached>>
  PROVE  ~world'.faults /\ cached' # NoFile => AtEnd(Len(cached))'
<1>1. \A q \in Procs : pc[q] # "write"
  BY DEF Sound
<1> QED
  BY <1>1 DEF IInv, Between, AtEnd

LEMMA StepIInv ==
  ASSUME Sound, IInv, NEW p \in Procs,
         (\E w \in world.paths : ReadCached(p, w) \/ Select(p, w)) \/ Step(p)
  PROVE  IInv'
<1>0. /\ Types /\ world \in Worlds /\ put[p] \in Nat /\ put[p] <= Len(data[p])
      /\ data[p] \in Seq(1..Size) /\ Len(data[p]) \in Nat
      /\ pc[p] = "idle" => Returned(p)
      /\ pc[p] # "idle" => Reading(p)
  BY CacheAssumption DEF IInv, Types, Reads
<1>1. ASSUME NEW w \in world.paths, ReadCached(p, w)
      PROVE  IInv'
  <2>1. /\ pc[p] = "idle" /\ cached # NoFile /\ w.index + w.count <= Len(cached)
        /\ path' = [path EXCEPT ![p] = w] /\ pc' = [pc EXCEPT ![p] = "idle"]
        /\ result' = [result EXCEPT ![p] = CachedBytes(w)]
        /\ UNCHANGED <<world, cached, data, put, orphan>>
    BY <1>1 DEF ReadCached, Return, Hit
  <2>2. /\ Len(cached) \in Nat /\ Len(cached) <= Size
        /\ cached = Piece(0, Len(cached)) /\ cached \in Seq(1..Size)
    BY <1>0, <2>1, CachedType
  <2>3. \E m \in Nat : m <= Length(w) /\ CachedBytes(w) = Piece(w.index, m)
    <3>1. CASE w = Whole
      BY <1>0, <2>2, <3>1, PathType DEF CachedBytes
    <3>2. CASE w # Whole
      <4>1. w.index \in Nat /\ w.count \in Nat /\ Length(w) = w.count
        BY <1>0, <3>2, PathType
      <4>2. SubSeq(Piece(0, Len(cached)), w.index + 1, w.index + w.count)
              = Piece(0 + w.index, w.count)
        BY <2>1, <2>2, <4>1, PieceSub
      <4>3. CachedBytes(w) = Piece(w.index, w.count)
        BY <2>2, <3>2, <4>1, <4>2 DEF CachedBytes
      <4> QED
        BY <4>1, <4>3
    <3> QED
      BY <3>1, <3>2
  <2>4. PICK m \in Nat : m <= Length(w) /\ CachedBytes(w) = Piece(w.index, m)
    BY <2>3
  <2>5. w.index \in Nat /\ w.index + m <= Size
    BY <1>0, <2>4, PathType, CacheAssumption DEF End
  <2>6. Len(Piece(w.index, m)) = m /\ Piece(w.index, m) \in Seq(1..Size)
    BY <2>5, PieceSeq
  <2>7. Types'
    BY <1>0, <2>1, <2>4, <2>6 DEF Types
  <2>8. pc'[p] = "idle" /\ path'[p] = w /\ result'[p] = Piece(w.index, m)
    BY <1>0, <2>1, <2>4 DEF Types
  <2>9. Returned(p)'
    BY <2>4, <2>6, <2>8 DEF Returned, PieceOf
  <2> QED
    BY <1>0, <2>1, <2>7, <2>8, <2>9, OneProcess, EndKept
<1>2. ASSUME NEW w \in world.paths, Select(p, w)
      PROVE  IInv'
  <2>1. /\ pc[p] = "idle" /\ ~Hit(w)
        /\ path' = [path EXCEPT ![p] = w] /\ data' = [data EXCEPT ![p] = <<>>]
        /\ put' = [put EXCEPT ![p] = 0]
        /\ \/ pc' = [pc EXCEPT ![p] = "card"] /\ UNCHANGED result
           \/ /\ pc' = [pc EXCEPT ![p] = "idle"]
              /\ result' = [result EXCEPT ![p] = Failed]
        /\ UNCHANGED <<world, cached, orphan>>
    BY <1>2 DEF Select, Continue, Return
  <2>2. Types'
    <3>1. pc' \in [Procs -> {"idle", "card", "open", "write"}]
          /\ result' \in [Procs -> Seq(1..Size) \cup {Failed}]
      BY <1>0, <2>1 DEF Types
    <3>2. put' \in [Procs -> 0..Size] /\ data' \in [Procs -> Seq(1..Size)]
      <4>1. 0 \in 0..Size /\ <<>> \in Seq(1..Size)
        BY CacheAssumption
      <4> QED
        BY <1>0, <2>1, <4>1 DEF Types
    <3>3. path' \in [Procs -> world'.paths \cup {Whole}]
      BY <1>0, <2>1 DEF Types
    <3> QED
      BY <1>0, <2>1, <3>1, <3>2, <3>3 DEF Types
  <2>3. path'[p] = w /\ data'[p] = <<>> /\ put'[p] = 0 /\ Len(data'[p]) = 0
    BY <1>0, <2>1 DEF Types
  <2>4. PieceOf(data[p], path[p])'
    BY <1>0, <2>3, PathType, PieceZero DEF PieceOf
  <2>5. CASE pc' = [pc EXCEPT ![p] = "card"] /\ UNCHANGED result
    <3>1. pc'[p] = "card"
      BY <1>0, <2>5 DEF Types
    <3>2. Hit(path[p])' <=> Hit(w)
      BY <2>1, <2>3 DEF Hit
    <3>3. Reading(p)'
      BY <2>1, <2>3, <2>4, <3>1, <3>2 DEF Reading
    <3> QED
      BY <2>1, <2>2, <2>3, <3>1, <3>3, OneProcess, EndKept
  <2>6. CASE pc' = [pc EXCEPT ![p] = "idle"] /\ result' = [result EXCEPT ![p] = Failed]
    <3>1. pc'[p] = "idle" /\ result'[p] = Failed
      BY <1>0, <2>6 DEF Types
    <3>2. Returned(p)'
      BY <3>1 DEF Returned
    <3> QED
      BY <2>1, <2>2, <2>3, <3>1, <3>2, OneProcess, EndKept
  <2> QED
    BY <2>1, <2>5, <2>6
<1>3. ASSUME Step(p)
      PROVE  IInv'
  <2> DEFINE w == path[p]
             b == path[p].index
             d == Len(data[p])
  <2>1. pc[p] # "idle"
    BY <1>3 DEF Step, ReadChunk, ReadDone, ReadEnds, ReadFails, CacheOpen,
       CacheUnwritable, CacheWrite, CacheClose, CacheWriteFails, Crash
  <2>2. /\ w \in world.paths /\ data[p] = Piece(b, d) /\ d <= Length(w) /\ d \in Nat
        /\ pc[p] # "card" /\ ~world.faults => d = Length(w)
        /\ pc[p] = "write" => ~orphan[p] /\ cached # NoFile /\ Len(cached) = b + put[p]
        /\ pc[p] # "write" => put[p] = 0 /\ ~Hit(w)
    BY <1>0, <2>1 DEF Reading, PieceOf
  <2>3. /\ b \in Nat /\ Length(w) \in Nat /\ b + Length(w) <= Size
        /\ Bytes(w) = Piece(b, Length(w))
    BY <1>0, <2>2, PathType DEF End
  <2>4. Size \in Nat
    BY CacheAssumption
  <2> HIDE DEF w, b, d
  <2>5. world.faults => world.paths = {Whole}
    BY <1>0 DEF Sound
  <2>6. ASSUME NEW r \in {data[p], Failed}, Return(p, r),
               UNCHANGED <<world, path, data, put>>,
               Types', ~world'.faults /\ cached' # NoFile => AtEnd(Len(cached))'
        PROVE  IInv'
    <3>1. pc'[p] = "idle" /\ result'[p] = r
      BY <1>0, <2>6 DEF Return, Types
    <3>2. Returned(p)'
      BY <2>2, <2>6, <3>1 DEF Returned, PieceOf, w, b, d
    <3> QED
      BY <1>0, <2>6, <3>1, <3>2, OneProcess
  <2>7. CASE ReadChunk(p)
    <3>1. PICK r \in 1..Missing(p) :
            data' = [data EXCEPT ![p] = @ \o SubSeq(Bytes(path[p]), Len(@) + 1, Len(@) + r)]
      BY <2>7 DEF ReadChunk
    <3>2. Missing(p) = Length(w) - d
      BY DEF Missing, w, d
    <3>3. r \in Nat /\ d + r \in Nat /\ d + r <= Length(w) /\ b + d \in Nat /\ b + (d + r) <= Size
      BY <2>2, <2>3, <2>4, <3>2
    <3>4. data'[p] = data[p] \o SubSeq(Bytes(w), d + 1, d + r)
      BY <1>0, <3>1 DEF Types, w, d
    <3>5. SubSeq(Piece(b, Length(w)), d + 1, d + r) = Piece(b + d, r)
      <4>1. b \in Nat /\ Length(w) \in Nat /\ d \in Nat /\ r \in Nat /\ d + r <= Length(w)
        BY <2>2, <2>3, <3>3
      <4> QED
        BY <4>1, PieceSub, Zenon
    <3>6. data'[p] = Piece(b, d + r)
      <4>1. data'[p] = Piece(b, d) \o Piece(b + d, r)
        BY <2>2, <2>3, <3>4, <3>5
      <4> QED
        BY <2>2, <2>3, <3>3, <4>1, PieceJoin
    <3>7. Len(data'[p]) = d + r /\ data'[p] \in Seq(1..Size)
      BY <2>3, <3>3, <3>6, PieceSeq
    <3>8. pc[p] = "card" /\ UNCHANGED <<world, cached, pc, path, put, result, orphan>>
      BY <2>7 DEF ReadChunk
    <3>9. Types'
      BY <1>0, <3>1, <3>4, <3>7, <3>8 DEF Types
    <3>10. Reading(p)'
      <4>1. PieceOf(data[p], path[p])'
        BY <3>3, <3>6, <3>7, <3>8 DEF PieceOf, w, b
      <4>2. put'[p] = 0 /\ ~Hit(path[p])'
        BY <2>2, <3>8 DEF Hit, w
      <4> QED
        BY <2>2, <3>8, <4>1, <4>2 DEF Reading, w
    <3>11. (put[p] <= Len(data[p]))'
      BY <2>2, <3>3, <3>7, <3>8
    <3> QED
      BY <3>8, <3>9, <3>10, <3>11, OneProcess, EndKept
  <2>8. ASSUME pc[p] = "card", Continue(p, "open"), UNCHANGED <<world, cached, path, data, put, orphan>>,
               ~world.faults => d = Length(w)
        PROVE  IInv'
    <3>1. pc'[p] = "open"
      BY <1>0, <2>8 DEF Continue, Types
    <3>2. Types'
      BY <1>0, <2>8 DEF Continue, Types
    <3>3. Reading(p)'
      BY <2>2, <2>8, <3>1 DEF Reading, PieceOf, Hit, w, b, d
    <3> QED
      BY <1>0, <2>8, <3>1, <3>2, <3>3, OneProcess, EndKept
  <2>9. CASE ReadDone(p)
    <3>1. d = Length(w)
      BY <2>2, <2>3, <2>9 DEF ReadDone, Missing, w, d
    <3> QED
      BY <2>8, <2>9, <3>1 DEF ReadDone
  <2>10. CASE ReadEnds(p)
    BY <2>8, <2>10 DEF ReadEnds
  <2>11. CASE ReadFails(p)
    <3>1. /\ world.faults /\ pc[p] = "card"
          /\ Return(p, Failed) \/ Continue(p, "open")
          /\ UNCHANGED <<world, cached, path, data, put, orphan>>
      BY <2>11 DEF ReadFails
    <3>2. CASE Return(p, Failed)
      <4>1. Types'
        BY <1>0, <3>1, <3>2 DEF Return, Types
      <4> QED
        BY <2>6, <3>1, <3>2, <4>1
    <3> QED
      BY <2>8, <3>1, <3>2
  <2>12. CASE CacheUnwritable(p) \/ Crash(p)
    <3>1. /\ world.faults /\ \E r \in {data[p], Failed} : Return(p, r)
          /\ UNCHANGED <<world, cached, path, data, put, orphan>>
      BY <2>12 DEF CacheUnwritable, Crash
    <3>2. Types'
      BY <1>0, <3>1 DEF Return, Types
    <3> QED
      BY <2>6, <3>1, <3>2
  <2>13. CASE CacheClose(p)
    <3>1. /\ pc[p] = "write" /\ put[p] = d /\ Return(p, data[p])
          /\ UNCHANGED <<world, cached, path, data, put, orphan>>
      BY <2>13 DEF CacheClose, d
    <3>2. Types'
      BY <1>0, <3>1 DEF Return, Types
    <3>3. ~world.faults => Len(cached) = b + Length(w)
      BY <2>2, <3>1
    <3>4. ~world'.faults => AtEnd(Len(cached))'
      BY <2>2, <3>1, <3>3 DEF AtEnd, End, w, b
    <3> QED
      BY <2>6, <3>1, <3>2, <3>4
  <2>14. CASE CacheWriteFails(p)
    <3>1. /\ world.faults /\ Return(p, data[p]) /\ UNCHANGED <<world, path, data, put>>
          /\ \/ UNCHANGED <<cached, orphan>>
             \/ /\ cached' = NoFile
                /\ orphan' = [q \in Procs |-> orphan[q] \/ pc[q] = "write"]
      BY <2>14 DEF CacheWriteFails
    <3>2. Types'
      BY <1>0, <3>1 DEF Return, Types
    <3> QED
      BY <2>6, <3>1, <3>2
  <2>15. CASE CacheOpen(p)
    <3>1. /\ pc[p] = "open" /\ put[p] = 0 /\ ~Hit(w)
          /\ cached' = IF cached = NoFile THEN <<>> ELSE cached
          /\ orphan' = [orphan EXCEPT ![p] = FALSE]
          /\ IF b > Len(cached') THEN Return(p, data[p]) ELSE Continue(p, "write")
          /\ UNCHANGED <<world, path, data, put>>
      BY <2>2, <2>15 DEF CacheOpen, w, b
    <3>2. /\ Len(cached') \in Nat /\ Len(cached') <= Size
          /\ cached' = Piece(0, Len(cached')) /\ cached' # NoFile
      <4>1. CASE cached = NoFile
        <5>1. cached' = <<>> /\ Len(cached') = 0
          BY <3>1, <4>1
        <5>2. <<>> # NoFile
          <6>1. <<>> \in Seq(Nat)
            OBVIOUS
          <6> QED
            BY <6>1, CacheAssumption
        <5> QED
          BY <2>4, <5>1, <5>2, PieceZero
      <4>2. CASE cached # NoFile
        BY <1>0, <3>1, <4>2, CachedType
      <4> QED
        BY <4>1, <4>2
    <3>3. Types'
      <4>1. pc' \in [Procs -> {"idle", "card", "open", "write"}]
            /\ result' \in [Procs -> Seq(1..Size) \cup {Failed}]
        BY <1>0, <3>1 DEF Return, Continue, Types
      <4>2. orphan' \in [Procs -> BOOLEAN]
        BY <1>0, <3>1 DEF Types
      <4> QED
        BY <1>0, <2>4, <3>1, <3>2, <4>1, <4>2 DEF Types
    <3>4. ~world.faults => AtEnd(Len(cached'))
      <4>1. CASE cached = NoFile
        BY <3>1, <4>1 DEF AtEnd
      <4>2. CASE cached # NoFile
        <5>1. \A q \in Procs : pc[q] # "write"
          BY <3>1 DEF Sound
        <5> QED
          BY <3>1, <4>2, <5>1 DEF IInv, Between
      <4> QED
        BY <4>1, <4>2
    <3>5. ~world'.faults /\ cached' # NoFile => AtEnd(Len(cached))'
      BY <3>1, <3>4 DEF AtEnd
    <3>6. CASE b > Len(cached')
      BY <2>6, <3>1, <3>3, <3>5, <3>6
    <3>7. CASE ~(b > Len(cached'))
      <4>1. pc'[p] = "write" /\ ~orphan'[p] /\ path'[p] = w /\ put'[p] = 0
        BY <1>0, <3>1, <3>7 DEF Continue, Types, w
      <4>2. Len(cached') = b
        <5>1. CASE cached = NoFile
          <6>1. Len(cached') = 0
            BY <3>1, <5>1
          <6> QED
            BY <2>3, <3>7, <6>1
        <5>2. CASE cached # NoFile
          <6>1. w # Whole
            BY <1>0, <3>1, <5>2, WholeHit
          <6>2. ~world.faults /\ world.paths # {Whole}
            BY <2>2, <2>5, <6>1
          <6>3. Adjoining(world.paths)
            BY <1>0, <6>2 DEF Sound
          <6>4. cached' = cached /\ w.count \in Nat /\ Len(cached) < b + w.count
            <7>1. Length(w) = w.count
              BY <1>0, <2>2, <6>1, PathType
            <7>2. ~(b + w.count <= Len(cached))
              BY <3>1, <5>2 DEF Hit, w, b
            <7> QED
              BY <2>3, <3>1, <3>2, <5>2, <7>1, <7>2
          <6>5. CASE Len(cached') = 0
            BY <2>3, <3>7, <6>5
          <6>6. CASE \E v \in world.paths : Len(cached') = End(v)
            <7>1. PICK v \in world.paths : Len(cached') = End(v)
              BY <6>6
            <7>2. End(v) <= b \/ b + w.count <= End(v)
              BY <2>2, <6>1, <6>3 DEF Adjoining, w, b
            <7> QED
              BY <2>3, <3>2, <3>7, <6>4, <7>1, <7>2
          <6> QED
            BY <3>4, <6>2, <6>5, <6>6 DEF AtEnd
        <5> QED
          BY <5>1, <5>2
      <4>3. Len(cached') = path'[p].index + put'[p]
        BY <2>3, <4>1, <4>2 DEF w, b
      <4>4. Reading(p)'
        BY <2>2, <3>1, <3>2, <4>1, <4>3 DEF Reading, PieceOf, w, b, d
      <4> QED
        BY <1>0, <3>1, <3>3, <4>1, <4>4, OneProcess
    <3> QED
      BY <3>6, <3>7
  <2>16. CASE CacheWrite(p)
    <3>1. /\ pc[p] = "write" /\ ~orphan[p] /\ cached # NoFile /\ Len(cached) = b + put[p]
      BY <2>2, <2>16 DEF CacheWrite
    <3>2. PICK n \in 1..(d - put[p]) :
            /\ put' = [put EXCEPT ![p] = @ + n]
            /\ cached' = cached \o SubSeq(data[p], put[p] + 1, put[p] + n)
            /\ UNCHANGED <<world, pc, path, data, result, orphan>>
      BY <2>16, <3>1 DEF CacheWrite, d
    <3>3. /\ n \in Nat /\ put[p] + n \in Nat /\ put[p] + n <= d
          /\ b + put[p] \in Nat /\ b + (put[p] + n) <= Size /\ 0 + (b + put[p]) = b + put[p]
      <4>1. put[p] \in Nat /\ n \in 1..(d - put[p])
        BY <1>0
      <4>2. n \in Nat /\ put[p] + n <= d
        BY <2>2, <4>1
      <4> QED
        BY <2>2, <2>3, <2>4, <4>1, <4>2
    <3>4. cached = Piece(0, b + put[p])
      BY <1>0, <3>1, CachedType
    <3>5. SubSeq(Piece(b, d), put[p] + 1, put[p] + n) = Piece(b + put[p], n)
      <4>1. b \in Nat /\ d \in Nat /\ put[p] \in Nat /\ n \in Nat /\ put[p] + n <= d
        BY <1>0, <2>2, <2>3, <3>3
      <4> QED
        BY <4>1, PieceSub, Zenon
    <3>6. cached' = Piece(0, (b + put[p]) + n)
      <4>1. Piece(0, b + put[p]) \o Piece(0 + (b + put[p]), n) = Piece(0, (b + put[p]) + n)
        <5>1. 0 \in Nat /\ b + put[p] \in Nat /\ n \in Nat
          BY <3>3
        <5> QED
          BY <5>1, PieceJoin, Zenon
      <4>2. cached' = Piece(0, b + put[p]) \o Piece(b + put[p], n)
        BY <2>2, <3>2, <3>4, <3>5
      <4> QED
        BY <3>3, <4>1, <4>2
    <3>7. (b + put[p]) + n = b + (put[p] + n) /\ (b + put[p]) + n \in 0..Size
      <4>1. b \in Nat /\ put[p] \in Nat /\ n \in Nat /\ b + (put[p] + n) <= Size
        BY <1>0, <2>3, <3>3
      <4> QED
        BY <2>4, <4>1
    <3>8. /\ Len(cached') = b + (put[p] + n) /\ cached' = Piece(0, Len(cached'))
          /\ Len(cached') \in 0..Size /\ cached' \in Seq(Nat)
      BY <3>6, <3>7, PieceSeq
    <3>9. cached' # NoFile
      BY <3>8, CacheAssumption
    <3>10. put'[p] = put[p] + n /\ put' \in [Procs -> 0..Size]
      <4>1. put[p] + n \in 0..Size
        BY <2>3, <2>4, <3>3
      <4> QED
        BY <1>0, <3>2, <4>1 DEF Types
    <3>11. Types'
      BY <1>0, <3>2, <3>8, <3>10 DEF Types
    <3>12. Reading(p)'
      BY <2>2, <3>1, <3>2, <3>8, <3>9, <3>10 DEF Reading, PieceOf, w, b, d
    <3>13. (put[p] <= Len(data[p]))'
      BY <3>2, <3>3, <3>10 DEF d
    <3> QED
      BY <3>1, <3>2, <3>11, <3>12, <3>13, OneProcess
  <2> QED
    BY <1>3, <2>7, <2>9, <2>10, <2>11, <2>12, <2>13, <2>14, <2>15, <2>16 DEF Step
<1> QED
  BY <1>1, <1>2, <1>3

-----------------------------------------------------------------------------
LEMMA FileInvariant ==
  ASSUME Sound
  PROVE  Spec => []IInv
<1>1. Init => IInv
  BY InitIInv
<1>2. IInv /\ [Next]_vars => IInv'
  <2>1. ASSUME IInv, UNCHANGED vars PROVE IInv'
    BY <2>1 DEF vars, IInv, Types, Reads, Returned, Reading, PieceOf, Hit, Between, AtEnd
  <2> QED
    BY <2>1, StepIInv DEF Next
<1> QED
  BY <1>1, <1>2, PTL DEF Spec

(* Every variable has its type, and no more is put than was read.          *)
THEOREM FileTypeCorrect ==
  ASSUME Sound
  PROVE  Spec => []TypeOK
<1>1. ASSUME IInv PROVE TypeOK
  <2>1. Types /\ Reads
    BY <1>1 DEF IInv
  <2>2. path \in [Procs -> Windows \cup {Whole}]
    BY <2>1, PathType DEF Types
  <2>3. \A p \in Procs : put[p] <= Len(data[p])
    BY <2>1 DEF Reads
  <2>4. cached \in Seq(1..Size) \cup {NoFile}
    BY <2>1, CachedType
  <2> QED
    BY <2>1, <2>2, <2>3, <2>4 DEF TypeOK, Types
<1> QED
  BY <1>1, FileInvariant, PTL

(* Every byte of the cache file is the byte the card has at that place:    *)
(* windows that adjoin are put together in their order, and whole files    *)
(* are right although crashes, full disks and cards that end early leave   *)
(* files behind that later calls read.                                     *)
THEOREM CacheHoldsFile ==
  ASSUME Sound
  PROVE  Spec => []CacheIsFile
<1>1. ASSUME IInv PROVE CacheIsFile
  <2>1. SUFFICES ASSUME cached # NoFile, NEW i \in 1..Len(cached) PROVE cached[i] = i
    BY DEF CacheIsFile
  <2>2. Len(cached) \in Nat /\ cached = Piece(0, Len(cached))
    BY <1>1, <2>1, CachedType DEF IInv
  <2>3. Piece(0, Len(cached))[i] = 0 + i
    BY <2>2, PieceSeq
  <2> QED
    BY <2>2, <2>3
<1> QED
  BY <1>1, FileInvariant, PTL

(* A read that succeeds, from the cache or from the card, gives a          *)
(* beginning of what its path names and nothing else.                      *)
THEOREM ReadGivesBeginning ==
  ASSUME Sound
  PROVE  Spec => []ReadIsBeginning
<1>1. ASSUME IInv PROVE ReadIsBeginning
  <2>1. SUFFICES ASSUME NEW p \in Procs, pc[p] = "idle", result[p] # Failed
                 PROVE  IsPrefix(result[p], Bytes(path[p]))
    BY DEF ReadIsBeginning
  <2> DEFINE b == path[p].index
             n == Len(result[p])
             l == Length(path[p])
  <2>2. /\ result[p] = Piece(b, n) /\ n <= l /\ result[p] \in Seq(1..Size)
        /\ path[p] \in world.paths \cup {Whole} /\ world \in Worlds
    BY <1>1, <2>1 DEF IInv, Types, Reads, Returned, PieceOf
  <2>3. b \in Nat /\ l \in Nat /\ n \in Nat /\ Bytes(path[p]) = Piece(b, l)
    BY <2>2, PathType
  <2> HIDE DEF b, n, l
  <2>4. Len(Piece(b, n)) = n /\ Len(Piece(b, l)) = l
    BY <2>3, PieceSeq
  <2>5. SubSeq(Piece(b, n), 0 + 1, 0 + n) = SubSeq(Piece(b, l), 0 + 1, 0 + n)
    <3>1. 0 \in Nat /\ 0 + n <= n /\ 0 + n <= l
      BY <2>2, <2>3
    <3>2. SubSeq(Piece(b, n), 0 + 1, 0 + n) = Piece(b + 0, n)
      BY <2>3, <3>1, PieceSub, Zenon
    <3>3. SubSeq(Piece(b, l), 0 + 1, 0 + n) = Piece(b + 0, n)
      BY <2>3, <3>1, PieceSub, Zenon
    <3> QED
      BY <3>2, <3>3
  <2>6. SubSeq(Piece(b, n), 1, n) = SubSeq(Piece(b, l), 1, n)
    BY <2>3, <2>5
  <2> QED
    BY <2>2, <2>3, <2>4, <2>6 DEF IsPrefix
<1> QED
  BY <1>1, FileInvariant, PTL
=============================================================================
