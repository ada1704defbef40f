------------------------------ MODULE LruCache ------------------------------
(***************************************************************************)
(* What a set-associative LRU cache promises: every set keeps as many      *)
(* blocks as it has ways, those used last, in the order of their use; an   *)
(* access takes one cycle when it finds its block, and penalty cycles to   *)
(* bring it in, twice that when the block that leaves was written in a     *)
(* write-back cache.                                                       *)
(***************************************************************************)
EXTENDS Integers, SequencesExt

CONSTANTS Geometry, penalty, Block

VARIABLES
  geometry,  \* sets, way and writeback
  recency,   \* per set, the resident blocks, the least recently used first
  dirty,     \* the resident blocks written since they came in
  cycles     \* the time of the last access

vars == <<geometry, recency, dirty, cycles>>

Sets == geometry.sets
writeback == geometry.writeback

SetOf(b) == b % Sets
Resident(b) == b \in ToSet(recency[SetOf(b)])

Init ==
  /\ geometry \in Geometry
  /\ recency = [s \in 0 .. Sets - 1 |-> <<>>]
  /\ dirty = {}
  /\ cycles = 0

(* The block at place n of q becomes the one used last.                    *)
Touch(q, n) == Append(RemoveAt(q, n), q[n])

Find(b, write) ==
  /\ \E n \in DOMAIN recency[SetOf(b)] :
       /\ recency[SetOf(b)][n] = b
       /\ recency' = [recency EXCEPT ![SetOf(b)] = Touch(@, n)]
  /\ dirty' = IF write THEN dirty \cup {b} ELSE dirty
  /\ cycles' = IF write /\ ~ writeback THEN penalty ELSE 1

Bypass(b) ==
  /\ ~ Resident(b)
  /\ ~ writeback
  /\ cycles' = penalty
  /\ UNCHANGED <<recency, dirty>>

Evicted(s) ==
  IF Len(recency[s]) = geometry.way THEN {Head(recency[s])} ELSE {}

BringIn(b, write) ==
  /\ ~ Resident(b)
  /\ write => writeback
  /\ recency' = [recency EXCEPT
                   ![SetOf(b)] = Append(IF Evicted(SetOf(b)) = {} THEN @
                                                                  ELSE Tail(@),
                                        b)]
  /\ dirty' = (dirty \ Evicted(SetOf(b))) \cup (IF write THEN {b} ELSE {})
  /\ cycles' = IF writeback /\ Evicted(SetOf(b)) \cap dirty # {}
               THEN 2 * penalty ELSE penalty

Next ==
  /\ UNCHANGED geometry
  /\ \E b \in Block, write \in BOOLEAN :
       Find(b, write) \/ (write /\ Bypass(b)) \/ BringIn(b, write)

Spec == Init /\ [][Next]_vars
=============================================================================
