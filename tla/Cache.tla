-------------------------------- MODULE Cache -------------------------------
(***************************************************************************)
(* The data cache model of SimPipe (cache.cc, cache.h): it holds no data,  *)
(* only which block each line has, and returns the cycles an access takes. *)
(*                                                                         *)
(* An address is abstracted to its block number (address >> offset bits):  *)
(* the low part of that number selects the set, the rest is the tag.  The  *)
(* geometry is what the constructor accepts: powers of two there, any      *)
(* positive number here.                                                   *)
(***************************************************************************)
EXTENDS Integers, FiniteSets

CONSTANTS
  Geometry,    \* the caches that may be constructed
  penalty,     \* cycles of a miss
  Block,       \* the block numbers the program touches
  MaxAccess    \* bound on access_count

(* sets is number_of_lines / way, way the lines of a set; a write-back     *)
(* cache also allocates on a write, a write-through one does neither.      *)
ASSUME CacheAssumption ==
  /\ Geometry \subseteq [sets : Nat \ {0}, way : Nat \ {0}, writeback : BOOLEAN]
  /\ penalty \in Nat \ {0}
  /\ Block \subseteq Nat
  /\ MaxAccess \in Nat

VARIABLES
  geometry,          \* fixed by the constructor
  state,             \* a subset of {"VALID", "MODIFIED"} per line
  tagarray,          \* the tag of each line
  lru_count,         \* way-1 for the line used last, 0 for the victim
  remained_lines,    \* lines never filled
  block_hist,        \* the blocks that have been in the cache
  access_count, hit_count, compulsory_count, capacity_count, conflict_count,
  latency            \* what the last Access returned

Sets == geometry.sets
way == geometry.way
writeback == geometry.writeback

Index(b) == b % Sets
Tag(b) == b \div Sets
Tags == {Tag(b) : b \in Block}
Line == 0 .. Sets * way - 1
Lines(index) == {l \in Line : index * way <= l /\ l < (index + 1) * way}

lineVars == <<state, tagarray, lru_count>>
missVars == <<remained_lines, block_hist, compulsory_count, capacity_count,
              conflict_count>>
cacheVars == <<geometry, lineVars, missVars, access_count, hit_count, latency>>

CacheTypeOK ==
  /\ geometry \in Geometry
  /\ state \in [Line -> SUBSET {"VALID", "MODIFIED"}]
  /\ tagarray \in [Line -> Tags]
  /\ lru_count \in [Line -> 0 .. way - 1]
  /\ remained_lines \in Int
  /\ block_hist \in SUBSET Block
  /\ access_count \in Nat
  /\ hit_count \in Nat
  /\ compulsory_count \in Nat
  /\ capacity_count \in Nat
  /\ conflict_count \in Nat
  /\ latency \in Nat

(* The constructor leaves tagarray uninitialised.                          *)
CacheInit ==
  /\ geometry \in Geometry
  /\ state = [l \in Line |-> {}]
  /\ tagarray \in [Line -> Tags]
  /\ lru_count = [l \in Line |-> 0]
  /\ remained_lines = Sets * way
  /\ block_hist = {}
  /\ access_count = 0
  /\ hit_count = 0
  /\ compulsory_count = 0
  /\ capacity_count = 0
  /\ conflict_count = 0
  /\ latency = 0

-----------------------------------------------------------------------------
Valid(l) == "VALID" \in state[l]

(* is_hit: the line that holds block b.                                    *)
HitLine(b, l) == l \in Lines(Index(b)) /\ tagarray[l] = Tag(b) /\ Valid(l)

-----------------------------------------------------------------------------
(***************************************************************************)
(* Faulty variants of definitions that follow, each a slip the code could  *)
(* have; no specification uses them.  A property that cannot fail when one *)
(* takes the place of its model would say nothing about the code.          *)
(***************************************************************************)
(* Faulty variant: only the first way of the set is looked at.             *)
IsHitFirstWay(b) == HitLine(b, Index(b) * way)

(* Faulty variants: the other lines do not age; they age once too often.   *)
NoAging(index, l) == lru_count' = [lru_count EXCEPT ![l] = way - 1]

OverAging(index, l) ==
  lru_count' = [k \in Line |->
                  IF k = l THEN way - 1
                  ELSE IF k \in Lines(index) /\ lru_count[k] >= lru_count[l]
                  THEN lru_count[k] - 1
                  ELSE lru_count[k]]

(* Faulty variants: a first reference is also classified by the free       *)
(* lines; a full cache counts as one with room.                            *)
CountTwice(b) ==
  /\ access_count' = access_count + 1
  /\ block_hist' = block_hist \cup {b}
  /\ compulsory_count' = compulsory_count + (IF b \in block_hist THEN 0 ELSE 1)
  /\ conflict_count' = conflict_count + (IF remained_lines > 0 THEN 1 ELSE 0)
  /\ capacity_count' = capacity_count + (IF remained_lines <= 0 THEN 1 ELSE 0)
  /\ UNCHANGED hit_count

CountWithRoom(b) ==
  /\ access_count' = access_count + 1
  /\ block_hist' = block_hist \cup {b}
  /\ compulsory_count' = compulsory_count + (IF b \in block_hist THEN 0 ELSE 1)
  /\ conflict_count' = conflict_count
       + (IF b \in block_hist /\ remained_lines >= 0 THEN 1 ELSE 0)
  /\ UNCHANGED <<hit_count, capacity_count>>

(* Faulty variant: a write-through cache allocates on a write too.         *)
AllocatesAlways(b, rwtype) == ~ \E l \in Line : HitLine(b, l)

(* Faulty variant: writing a block back also costs the cycle of a hit.     *)
ReplaceTimePlus(line) ==
  IF writeback /\ "MODIFIED" \in state[line] THEN 2 * penalty + 1 ELSE penalty

(* Faulty variant: the first line of a full set is always the victim.      *)
VictimFirst(index, l) == l = index * way

-----------------------------------------------------------------------------
IsHit(b) == \E l \in Line : HitLine(b, l)

(* get_empty_line: the first line of the set that was never filled.        *)
EmptyLine(index, l) ==
  /\ l \in Lines(index)
  /\ ~ Valid(l)
  /\ \A k \in Lines(index) : k < l => Valid(k)

(* get_write_back_line: the last line of the set with an LRU count of 0,   *)
(* the first line of the set if there is none.                             *)
VictimLine(index, l) ==
  /\ l \in Lines(index)
  /\ IF \E k \in Lines(index) : lru_count[k] = 0
     THEN lru_count[l] = 0 /\ \A k \in Lines(index) : k > l => lru_count[k] # 0
     ELSE l = index * way

(* update_lru_count: the lines used after l move down, l moves to the top. *)
UpdateLru(index, l) ==
  lru_count' = [k \in Line |->
                  IF k = l THEN way - 1
                  ELSE IF k \in Lines(index) /\ lru_count[k] > lru_count[l]
                  THEN lru_count[k] - 1
                  ELSE lru_count[k]]

Hit(b, rwtype) ==
  \E line \in Line :
    /\ HitLine(b, line)
    /\ \A k \in Line : HitLine(b, k) => line <= k
    /\ access_count' = access_count + 1
    /\ hit_count' = hit_count + 1
    /\ UpdateLru(Index(b), line)
    /\ latency' = IF ~ writeback /\ rwtype = "CACHE_WRITE" THEN penalty ELSE 1
    /\ state' = IF rwtype = "CACHE_WRITE"
                THEN [state EXCEPT ![line] = @ \cup {"MODIFIED"}] ELSE state
    /\ UNCHANGED <<tagarray, missVars>>

(* A write-through cache does not allocate on a write, nor count it.       *)
WriteAround(b, rwtype) ==
  /\ ~ IsHit(b)
  /\ ~ writeback /\ rwtype = "CACHE_WRITE"
  /\ latency' = penalty
  /\ UNCHANGED <<lineVars, missVars, access_count, hit_count>>

(* The bookkeeping of every other miss.                                    *)
CountMiss(b) ==
  /\ access_count' = access_count + 1
  /\ block_hist' = block_hist \cup {b}
  /\ compulsory_count' = compulsory_count + (IF b \in block_hist THEN 0 ELSE 1)
  /\ conflict_count' = conflict_count
       + (IF b \in block_hist /\ remained_lines > 0 THEN 1 ELSE 0)
  /\ capacity_count' = capacity_count
       + (IF b \in block_hist /\ remained_lines <= 0 THEN 1 ELSE 0)
  /\ UNCHANGED hit_count

Install(b, line, rwtype) ==
  /\ tagarray' = [tagarray EXCEPT ![line] = Tag(b)]
  /\ state' = [state EXCEPT ![line] =
                 {"VALID"} \cup
                   (IF rwtype = "CACHE_WRITE" THEN {"MODIFIED"} ELSE {})]
  /\ UpdateLru(Index(b), line)

Allocates(b, rwtype) == ~ IsHit(b) /\ (writeback \/ rwtype = "CACHE_READ")

Fill(b, rwtype) ==
  \E line \in Line :
    /\ Allocates(b, rwtype)
    /\ EmptyLine(Index(b), line)
    /\ CountMiss(b)
    /\ latency' = penalty
    /\ remained_lines' = remained_lines - 1
    /\ Install(b, line, rwtype)

(* The cycles it takes to replace a line, and first to write it back.      *)
ReplaceTime(line) ==
  IF writeback /\ "MODIFIED" \in state[line] THEN 2 * penalty ELSE penalty

Replace(b, rwtype) ==
  \E line \in Line :
    /\ Allocates(b, rwtype)
    /\ \A l \in Line : ~ EmptyLine(Index(b), l)
    /\ VictimLine(Index(b), line)
    /\ CountMiss(b)
    /\ latency' = ReplaceTime(line)
    /\ UNCHANGED remained_lines
    /\ Install(b, line, rwtype)

Access(b, rwtype) ==
  /\ access_count < MaxAccess
  /\ UNCHANGED geometry
  /\ \/ Hit(b, rwtype)
     \/ WriteAround(b, rwtype)
     \/ Fill(b, rwtype)
     \/ Replace(b, rwtype)

RwType == {"CACHE_READ", "CACHE_WRITE"}

CacheNext == \E b \in Block, rwtype \in RwType : Access(b, rwtype)

CacheSpec == CacheInit /\ [][CacheNext]_cacheVars
-----------------------------------------------------------------------------
(***************************************************************************)
(* A block is in one line at most.  is_hit stops at the first match: a     *)
(* second copy would age, be written back and be counted on its own.       *)
(***************************************************************************)
NoDuplicate ==
  \A b \in Block : \A k, l \in Line : HitLine(b, k) /\ HitLine(b, l) => k = l

(***************************************************************************)
(* The LRU counts of a set rank its lines: the filled lines, k of them,    *)
(* have the distinct counts way-k .. way-1, so that the set has one victim *)
(* and it is the least recently used line once the set is full.            *)
(***************************************************************************)
LruRanks ==
  /\ \A l \in Line : ~ Valid(l) => lru_count[l] = 0
  /\ \A i \in 0 .. Sets - 1 : \A k, l \in Lines(i) :
       k # l /\ Valid(k) /\ Valid(l) => lru_count[k] # lru_count[l]
  /\ \A i \in 0 .. Sets - 1 : \A l \in Lines(i) :
       Valid(l) => lru_count[l] >= way - Cardinality({k \in Lines(i) : Valid(k)})

(***************************************************************************)
(* The statistics add up: each counted access is a hit or a miss of one    *)
(* class, the compulsory misses are the blocks ever brought in, every      *)
(* resident block was brought in, and remained_lines, on which the class   *)
(* of a miss depends, counts the lines never filled.                       *)
(***************************************************************************)
Accounting ==
  /\ access_count = hit_count + compulsory_count + capacity_count
                      + conflict_count
  /\ compulsory_count = Cardinality(block_hist)
  /\ \A b \in Block : IsHit(b) => b \in block_hist
  /\ remained_lines = Cardinality({l \in Line : ~ Valid(l)})

(***************************************************************************)
(* In a fully associative cache no miss is a conflict: a block is evicted  *)
(* only when every line is in use.                                         *)
(***************************************************************************)
FullyAssociative == Sets = 1 => conflict_count = 0
=============================================================================
