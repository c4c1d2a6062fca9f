----------------------------- MODULE FileCache -----------------------------
(* sc_pkcs15_read_file and the file cache it keeps (libopensc/pkcs15.c,    *)
(* pkcs15-cache.c): one elementary file of a card whose content does not   *)
(* change, one cache file for it in the user's cache directory, and the    *)
(* processes that read it.  A path names the whole file or a window of it; *)
(* both use the same cache file.  The card is read under the card lock,    *)
(* the cache file without any.  Paths with an AID, records and compressed  *)
(* files are left out.                                                     *)
(*                                                                         *)
(* A byte is named by its place in the file on the card: the file is the   *)
(* sequence 1..Size.  The cache file is external: a stream opened with     *)
(* "ab" writes at the end of the file, wherever fseek has put it (C99      *)
(* 7.19.5.3), in one piece or in several.                                  *)
EXTENDS Integers, Sequences, SequencesExt

CONSTANTS
  Procs,     \* processes that use the cache directory
  Size,      \* length of the elementary file
  MaxLe,     \* sc_get_max_recv_size: the most that one READ BINARY gets
  NoFile,    \* no cache file yet
  Failed,    \* a call that returns an error
  Worlds     \* which paths the processes read, and whether things go wrong

(* The paths of an elementary file: index and count, or the whole of it.   *)
Windows == [index : 0..Size, count : 0..Size]
Whole   == [index |-> 0, count |-> -1]

ASSUME CacheAssumption ==
  /\ Size \in Nat \ {0} /\ MaxLe \in Nat \ {0}
  /\ NoFile \notin Seq(Nat) /\ Failed \notin Seq(Nat)
  /\ \A u \in Worlds :
       /\ u.faults \in BOOLEAN
       /\ \A w \in u.paths : w = Whole \/ (w \in Windows /\ w.index + w.count <= Size)

VARIABLES
  world,    \* the member of Worlds; never changes
  cached,   \* the cache file, or NoFile
  pc,       \* "idle", "card": reading it, "open", "write": caching it
  path,     \* the path that is read
  data,     \* the bytes read
  put,      \* how many of them are in the cache file
  result,   \* what the last call gave: Failed or bytes
  orphan    \* the cache file was removed while it was open

vars == <<world, cached, pc, path, data, put, result, orphan>>

-----------------------------------------------------------------------------
(* The bytes a path names.                                                 *)
Length(w) == IF w = Whole THEN Size ELSE w.count
Bytes(w)  == [i \in 1..Length(w) |-> w.index + i]

Init ==
  /\ world \in Worlds
  /\ cached = NoFile
  /\ pc = [p \in Procs |-> "idle"]
  /\ path = [p \in Procs |-> Whole]
  /\ data = [p \in Procs |-> <<>>]
  /\ put = [p \in Procs |-> 0]
  /\ result = [p \in Procs |-> Failed]
  /\ orphan = [p \in Procs |-> FALSE]

(* sc_pkcs15_read_file goes on, or returns r.                              *)
Continue(p, place) == pc' = [pc EXCEPT ![p] = place] /\ UNCHANGED result
Return(p, r) ==
  /\ pc' = [pc EXCEPT ![p] = "idle"]
  /\ result' = [result EXCEPT ![p] = r]

(* Mutant: a cache file that is too short for the path is not used.        *)
HitIfComplete(w) == cached # NoFile /\ w.index + Length(w) <= Len(cached)

(* sc_pkcs15_read_cached_file finds the path in the cache: a window that   *)
(* lies within the cache file, or any cache file for a path without a      *)
(* count, which gets all that is in it.                                    *)
Hit(w) == cached # NoFile /\ w.index + w.count <= Len(cached)

CachedBytes(w) ==
  IF w = Whole THEN cached ELSE SubSeq(cached, w.index + 1, w.index + w.count)

ReadCached(p, w) ==
  /\ pc[p] = "idle" /\ Hit(w)
  /\ path' = [path EXCEPT ![p] = w]
  /\ Return(p, CachedBytes(w))
  /\ UNCHANGED <<world, cached, data, put, orphan>>

(* Mutant: what an earlier call put into the cache is taken for this one's.*)
SelectKeepsPut(p, w) ==
  /\ pc[p] = "idle" /\ ~Hit(w)
  /\ path' = [path EXCEPT ![p] = w]
  /\ data' = [data EXCEPT ![p] = <<>>]
  /\ Continue(p, "card") \/ (world.faults /\ Return(p, Failed))
  /\ UNCHANGED <<world, cached, put, orphan>>

(* It does not: sc_lock and sc_select_file, which may fail.                *)
Select(p, w) ==
  /\ pc[p] = "idle" /\ ~Hit(w)
  /\ path' = [path EXCEPT ![p] = w]
  /\ data' = [data EXCEPT ![p] = <<>>]
  /\ put' = [put EXCEPT ![p] = 0]
  /\ Continue(p, "card") \/ (world.faults /\ Return(p, Failed))
  /\ UNCHANGED <<world, cached, orphan>>

Missing(p) == Length(path[p]) - Len(data[p])

(* Mutant: the index does not move on with the buffer.                     *)
ReadChunkAgain(p) ==
  /\ pc[p] = "card" /\ Missing(p) > 0
  /\ \E r \in 1..Missing(p) :
       /\ r <= MaxLe
       /\ data' = [data EXCEPT ![p] = @ \o SubSeq(Bytes(path[p]), 1, r)]
  /\ UNCHANGED <<world, cached, pc, path, put, result, orphan>>

(* sc_read_binary, one READ BINARY: the card gives what it is asked for or *)
(* less.                                                                   *)
ReadChunk(p) ==
  /\ pc[p] = "card" /\ Missing(p) > 0
  /\ \E r \in 1..Missing(p) :
       /\ r <= MaxLe
       /\ data' = [data EXCEPT ![p] = @ \o SubSeq(Bytes(path[p]), Len(@) + 1, Len(@) + r)]
  /\ UNCHANGED <<world, cached, pc, path, put, result, orphan>>

ReadDone(p) ==
  /\ pc[p] = "card" /\ Missing(p) = 0
  /\ Continue(p, "open")
  /\ UNCHANGED <<world, cached, path, data, put, orphan>>

(* READ BINARY fails.  What earlier commands have read is returned as if   *)
(* it were all.                                                            *)
ReadFails(p) ==
  /\ world.faults /\ pc[p] = "card" /\ Missing(p) > 0
  /\ IF data[p] = <<>> THEN Return(p, Failed) ELSE Continue(p, "open")
  /\ UNCHANGED <<world, cached, path, data, put, orphan>>

(* The card says that the file has ended before its size is reached.       *)
ReadEnds(p) ==
  /\ world.faults /\ pc[p] = "card" /\ Missing(p) > 0
  /\ Continue(p, "open")
  /\ UNCHANGED <<world, cached, path, data, put, orphan>>

(* sc_pkcs15_cache_file: fopen creates the cache file or finds its end.    *)
(* What lies behind a gap is not cached.                                   *)
CacheOpen(p) ==
  /\ pc[p] = "open"
  /\ cached' = IF cached = NoFile THEN <<>> ELSE cached
  /\ orphan' = [orphan EXCEPT ![p] = FALSE]
  /\ IF path[p].index > Len(cached') THEN Return(p, data[p]) ELSE Continue(p, "write")
  /\ UNCHANGED <<world, path, data, put>>

(* The cache directory cannot be written: nothing is cached.               *)
CacheUnwritable(p) ==
  /\ world.faults /\ pc[p] = "open"
  /\ Return(p, data[p])
  /\ UNCHANGED <<world, cached, path, data, put, orphan>>

(* A piece of fwrite or fclose goes to the end of the file.                *)
CacheWrite(p) ==
  /\ pc[p] = "write"
  /\ \E n \in 1..(Len(data[p]) - put[p]) :
       /\ put' = [put EXCEPT ![p] = @ + n]
       /\ cached' = IF orphan[p] THEN cached
                    ELSE cached \o SubSeq(data[p], put[p] + 1, put[p] + n)
  /\ UNCHANGED <<world, pc, path, data, result, orphan>>

CacheClose(p) ==
  /\ pc[p] = "write" /\ put[p] = Len(data[p])
  /\ Return(p, data[p])
  /\ UNCHANGED <<world, cached, path, data, put, orphan>>

(* The disk is full.  If fwrite says so the file is removed; what only     *)
(* fclose says is not heard.                                               *)
CacheWriteFails(p) ==
  /\ world.faults /\ pc[p] = "write" /\ put[p] < Len(data[p])
  /\ \/ UNCHANGED <<cached, orphan>>
     \/ /\ cached' = NoFile
        /\ orphan' = [q \in Procs |-> orphan[q] \/ pc[q] = "write"]
  /\ Return(p, data[p])
  /\ UNCHANGED <<world, path, data, put>>

(* The process dies; another one takes its place.                          *)
Crash(p) ==
  /\ world.faults /\ pc[p] # "idle"
  /\ Return(p, Failed)
  /\ UNCHANGED <<world, cached, path, data, put, orphan>>

Step(p) ==
  \/ ReadChunk(p) \/ ReadDone(p) \/ ReadEnds(p) \/ ReadFails(p)
  \/ CacheOpen(p) \/ CacheUnwritable(p) \/ CacheWrite(p) \/ CacheClose(p)
  \/ CacheWriteFails(p) \/ Crash(p)

Next == \E p \in Procs :
  \/ \E w \in world.paths : ReadCached(p, w) \/ Select(p, w)
  \/ Step(p)

Spec == Init /\ [][Next]_vars

-----------------------------------------------------------------------------
(* The types; and no more is in the cache than was read.                   *)
TypeOK ==
  /\ world \in Worlds
  /\ cached \in Seq(1..Size) \cup {NoFile}
  /\ pc \in [Procs -> {"idle", "card", "open", "write"}]
  /\ path \in [Procs -> Windows \cup {Whole}]
  /\ data \in [Procs -> Seq(1..Size)]
  /\ put \in [Procs -> 0..Size] /\ \A p \in Procs : put[p] <= Len(data[p])
  /\ result \in [Procs -> Seq(1..Size) \cup {Failed}]
  /\ orphan \in [Procs -> BOOLEAN]

(* Every byte of the cache file is the byte that the file on the card has  *)
(* at that place: sc_pkcs15_cache_file is to "override previous cache      *)
(* records on this location" and to leave out what lies behind a gap.      *)
CacheIsFile == cached # NoFile => \A i \in 1..Len(cached) : cached[i] = i

(* What a call returns is the beginning of what its path names.            *)
ReadIsBeginning ==
  \A p \in Procs : (pc[p] = "idle" /\ result[p] # Failed)
                     => IsPrefix(result[p], Bytes(path[p]))
=============================================================================
