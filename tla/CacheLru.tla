------------------------------ MODULE CacheLru ------------------------------
(***************************************************************************)
(* Cache implements LruCache: the filled lines of a set in the order of    *)
(* their LRU counts are the blocks of the set in the order of their use.   *)
(***************************************************************************)
EXTENDS Cache

BlockOf(i, l) == tagarray[l] * Sets + i

(* The lines a set has filled.                                             *)
Filled(i) == {l \in Lines(i) : Valid(l)}

(* k filled lines have the counts way-k .. way-1 (LruRanks): the n-th of   *)
(* them, the least recently used first.                                    *)
FilledLine(i, n) ==
  CHOOSE l \in Filled(i) : lru_count[l] = way - Cardinality(Filled(i)) + n - 1

Recency ==
  [i \in 0 .. Sets - 1 |->
     [n \in 1 .. Cardinality(Filled(i)) |-> BlockOf(i, FilledLine(i, n))]]

Dirty == {b \in Block : \E l \in Line : HitLine(b, l)
                                          /\ "MODIFIED" \in state[l]}

Abstract == INSTANCE LruCache WITH recency <- Recency,
                                   dirty <- Dirty,
                                   cycles <- latency

(***************************************************************************)
(* The line arrays with their counts behave as true LRU: the right block   *)
(* is evicted, a modified block is paid for when it leaves and only then,  *)
(* and Access returns the latency the configuration promises.              *)
(***************************************************************************)
TrueLru == Abstract!Spec
=============================================================================
