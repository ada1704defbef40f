---------------------------- MODULE CacheProofs -----------------------------
(***************************************************************************)
(* Proofs about Cache, for every geometry, miss penalty and set of blocks. *)
(* The lines of the cache are partitioned into sets of way lines each; the *)
(* first lemmas say so.  The next ones say what update_lru_count makes of  *)
(* the counts of a set, from each of its three calls, and the theorems put *)
(* them together.  The last part proves that the lines with their counts   *)
(* implement the true LRU of LruCache.                                     *)
(***************************************************************************)
EXTENDS CacheLru, FiniteSetTheorems, SequenceTheorems, TLAPS

SetIndex == 0 .. Sets - 1

(***************************************************************************)
(* While a line is free in a fully associative cache nothing has been      *)
(* evicted: every block that was ever brought in is still there.           *)
(***************************************************************************)
KeptWhileRoom ==
  Sets = 1 /\ remained_lines > 0 => \A b \in block_hist : IsHit(b)

(* The inductive invariant.                                                *)
CacheInv ==
  /\ CacheTypeOK
  /\ NoDuplicate
  /\ LruRanks
  /\ IsFiniteSet(block_hist)
  /\ Accounting
  /\ KeptWhileRoom
  /\ FullyAssociative

-----------------------------------------------------------------------------
(* The constructor's parameters.                                           *)
LEMMA GeometryFacts ==
  ASSUME geometry \in Geometry
  PROVE  /\ Sets \in Nat \ {0} /\ way \in Nat \ {0} /\ writeback \in BOOLEAN
         /\ Sets * way \in Nat /\ Line \subseteq Nat
<1>1. Sets \in Nat \ {0} /\ way \in Nat \ {0} /\ writeback \in BOOLEAN
  BY CacheAssumption DEF Sets, way, writeback
<1>2. \A m, n \in Nat : m * n \in Nat
  OBVIOUS
<1> QED
  BY <1>1, <1>2 DEF Line

(* Multiplication is monotone: sets are in the order of their index.       *)
LEMMA Monotone ==
  ASSUME NEW i \in Nat, NEW j \in Nat, NEW w \in Nat, i <= j
  PROVE  i * w <= j * w
  OBVIOUS

(* A set has way lines, all of the cache.                                  *)
LEMMA LinesOfSet ==
  ASSUME geometry \in Geometry, NEW i \in SetIndex
  PROVE  /\ Lines(i) = i * way .. i * way + way - 1
         /\ Lines(i) \subseteq Line
         /\ IsFiniteSet(Lines(i)) /\ Cardinality(Lines(i)) = way
<1>1. /\ Sets \in Nat \ {0} /\ way \in Nat \ {0} /\ i \in Nat
      /\ i * way \in Nat /\ Sets * way \in Nat
  <2>1. \A m, n \in Nat : m * n \in Nat
    OBVIOUS
  <2> QED
    BY <2>1, GeometryFacts DEF SetIndex
<1>2. (i + 1) * way = i * way + way
  BY <1>1
<1>3. (i + 1) * way <= Sets * way
  <2>1. i + 1 <= Sets /\ i + 1 \in Nat
    BY <1>1 DEF SetIndex
  <2> QED
    BY <1>1, <2>1, Monotone
<1>4. Lines(i) = i * way .. i * way + way - 1
  BY <1>1, <1>2, <1>3 DEF Lines, Line
<1>5. IsFiniteSet(Lines(i)) /\ Cardinality(Lines(i)) = way
  BY <1>1, <1>4, FS_Interval
<1> QED
  BY <1>4, <1>5 DEF Lines

(* No line is in two sets.                                                 *)
LEMMA SetsDisjoint ==
  ASSUME geometry \in Geometry, NEW i \in SetIndex, NEW j \in SetIndex,
         NEW l \in Lines(i), l \in Lines(j)
  PROVE  i = j
<1>1. \A m, n \in SetIndex : l \in Lines(m) /\ l \in Lines(n) => ~ (m < n)
  <2> SUFFICES ASSUME NEW m \in SetIndex, NEW n \in SetIndex,
                      l \in Lines(m), l \in Lines(n), m < n
               PROVE  FALSE
    OBVIOUS
  <2>1. way \in Nat /\ Sets \in Nat /\ Line \subseteq Nat
    BY GeometryFacts
  <2>2. m + 1 \in Nat /\ n \in Nat /\ m + 1 <= n
    BY <2>1 DEF SetIndex
  <2>3. (m + 1) * way <= n * way
    BY <2>1, <2>2, Monotone
  <2>4. n * way <= l /\ l < (m + 1) * way /\ l \in Nat
    BY <2>1 DEF Lines
  <2>5. n * way \in Nat /\ (m + 1) * way \in Nat
    BY <2>1, <2>2
  <2> QED
    BY <2>3, <2>4, <2>5
<1> QED
  BY <1>1, GeometryFacts DEF SetIndex

(* A block number is its tag and its index.                                *)
LEMMA BlockIsTagAndIndex ==
  ASSUME geometry \in Geometry, NEW b \in Block, NEW c \in Block
  PROVE  /\ Index(b) \in SetIndex /\ Tag(b) \in Tags
         /\ Index(b) = Index(c) /\ Tag(b) = Tag(c) => b = c
<1>1. Sets \in Nat \ {0} /\ b \in Nat /\ c \in Nat
  BY GeometryFacts, CacheAssumption
<1>2. \A n \in Nat : /\ n % Sets \in 0 .. Sets - 1
                     /\ n = Sets * (n \div Sets) + (n % Sets)
  BY <1>1
<1> QED
  BY <1>1, <1>2 DEF Index, Tag, Tags, SetIndex

(* A non-empty set of numbers has a least one.                             *)
LEMMA LeastExists ==
  ASSUME NEW S \in SUBSET Nat, S # {}
  PROVE  \E m \in S : \A k \in S : m <= k
<1>1. PICK m \in S : \A k \in S : ~ <<k, m>> \in OpToRel(<, Nat)
  BY NatLessThanWellFounded, WFMin
<1>2. \A k \in S : ~ <<k, m>> \in {ss \in Nat \X Nat : ss[1] < ss[2]}
  BY <1>1, Zenon DEF OpToRel
<1>3. \A k \in S : ~ (k < m)
  BY <1>2
<1> QED
  BY <1>3

(* get_empty_line: it finds a line unless the set is full.                 *)
LEMMA NoEmptyLine ==
  ASSUME geometry \in Geometry, NEW i \in SetIndex,
         \A l \in Line : ~ EmptyLine(i, l)
  PROVE  \A l \in Lines(i) : Valid(l)
<1> DEFINE free == {l \in Lines(i) : ~ Valid(l)}
<1>1. SUFFICES ASSUME free # {} PROVE FALSE
  OBVIOUS
<1>2. free \subseteq Nat /\ Lines(i) \subseteq Line /\ Line \subseteq Nat
  BY GeometryFacts, LinesOfSet
<1>3. PICK m \in free : \A k \in free : m <= k
  BY <1>1, <1>2, LeastExists
<1>4. \A k \in Lines(i) : k < m => Valid(k)
  BY <1>2, <1>3
<1>5. m \in Line /\ EmptyLine(i, m)
  BY <1>2, <1>3, <1>4 DEF EmptyLine
<1> QED
  BY <1>5

-----------------------------------------------------------------------------
(***************************************************************************)
(* What Hit, Fill and Replace have in common: block b is in a line of its  *)
(* set afterwards, that line is valid and its LRU count is updated, and    *)
(* the other lines keep their blocks.                                      *)
(***************************************************************************)
Uses(b, line) ==
  /\ UNCHANGED geometry
  /\ line \in Lines(Index(b))
  /\ \A l \in Line : Valid(l)' <=> Valid(l) \/ l = line
  /\ \A l \in Line : tagarray'[l] = IF l = line THEN Tag(b) ELSE tagarray[l]
  /\ UpdateLru(Index(b), line)

(* The line holds the block already, or the block is in no line.           *)
Fresh(b, line) == HitLine(b, line) \/ ~ IsHit(b)

(* Lines and sets are those of the geometry, which never changes.          *)
LEMMA SameLines ==
  ASSUME UNCHANGED geometry
  PROVE  /\ Sets' = Sets /\ way' = way /\ writeback' = writeback
         /\ Line' = Line /\ SetIndex' = SetIndex /\ Tags' = Tags
         /\ \A i : Lines(i)' = Lines(i)
         /\ \A b : Index(b)' = Index(b) /\ Tag(b)' = Tag(b)
<1>1. Sets' = Sets /\ way' = way /\ writeback' = writeback
  BY DEF Sets, way, writeback
<1>2. Line' = Line /\ SetIndex' = SetIndex
  BY <1>1 DEF Line, SetIndex
<1>3. \A i : Lines(i)' = Lines(i)
  BY <1>1, <1>2 DEF Lines
<1>4. \A b : Index(b)' = Index(b) /\ Tag(b)' = Tag(b)
  BY <1>1 DEF Index, Tag
<1>5. Tags' = Tags
  BY <1>4 DEF Tags
<1> QED
  BY <1>1, <1>2, <1>3, <1>4, <1>5

(* A miss installs the block.                                              *)
LEMMA InstallUses ==
  ASSUME CacheTypeOK, UNCHANGED geometry, NEW b, NEW rwtype,
         NEW line \in Line, line \in Lines(Index(b)), Install(b, line, rwtype)
  PROVE  Uses(b, line)
<1>1. \A l \in Line : Valid(l)' <=> Valid(l) \/ l = line
  <2>1. \A l \in Line : l # line => state'[l] = state[l]
    BY DEF CacheTypeOK, Install
  <2>2. "VALID" \in state'[line]
    BY DEF CacheTypeOK, Install
  <2> QED
    BY <2>1, <2>2 DEF Valid
<1>2. \A l \in Line : tagarray'[l] = IF l = line THEN Tag(b) ELSE tagarray[l]
  BY DEF CacheTypeOK, Install
<1> QED
  BY <1>1, <1>2 DEF Uses, Install

(* A hit only marks the line modified when it is written.                  *)
LEMMA HitUses ==
  ASSUME CacheTypeOK, UNCHANGED geometry, NEW b \in Block, NEW rwtype,
         Hit(b, rwtype)
  PROVE  \E line \in Line : Uses(b, line) /\ HitLine(b, line)
<1>1. PICK line \in Line :
        /\ HitLine(b, line)
        /\ UpdateLru(Index(b), line)
        /\ state' = IF rwtype = "CACHE_WRITE"
                    THEN [state EXCEPT ![line] = @ \cup {"MODIFIED"}] ELSE state
        /\ tagarray' = tagarray
  BY DEF Hit
<1>2. \A l \in Line : Valid(l)' <=> Valid(l) \/ l = line
  <2>1. \A l \in Line : "VALID" \in state'[l] <=> "VALID" \in state[l]
    BY <1>1 DEF CacheTypeOK
  <2> QED
    BY <1>1, <2>1 DEF Valid, HitLine
<1>3. Uses(b, line)
  BY <1>1, <1>2 DEF Uses, HitLine
<1> QED
  BY <1>1, <1>3

(* What Fill and Replace do.                                               *)
LEMMA FillUses ==
  ASSUME CacheTypeOK, UNCHANGED geometry, NEW b \in Block, NEW rwtype,
         Fill(b, rwtype)
  PROVE  \E line \in Line : /\ Uses(b, line)
                            /\ ~ IsHit(b) /\ ~ Valid(line)
                            /\ remained_lines' = remained_lines - 1
BY InstallUses DEF Fill, Allocates, EmptyLine

LEMMA ReplaceUses ==
  ASSUME CacheTypeOK, UNCHANGED geometry, NEW b \in Block, NEW rwtype,
         Replace(b, rwtype)
  PROVE  \E line \in Line : /\ Uses(b, line)
                            /\ ~ IsHit(b)
                            /\ \A l \in Lines(Index(b)) : Valid(l)
                            /\ UNCHANGED remained_lines
<1>1. PICK line \in Line : /\ ~ IsHit(b)
                           /\ \A l \in Line : ~ EmptyLine(Index(b), l)
                           /\ line \in Lines(Index(b))
                           /\ Install(b, line, rwtype)
                           /\ UNCHANGED remained_lines
  BY DEF Replace, Allocates, VictimLine
<1>2. \A l \in Lines(Index(b)) : Valid(l)
  BY <1>1, NoEmptyLine, BlockIsTagAndIndex DEF CacheTypeOK
<1> QED
  BY <1>1, <1>2, InstallUses

-----------------------------------------------------------------------------
(* update_lru_count: the line moves to the top, those above it down.       *)
LEMMA CountsAfter ==
  ASSUME CacheTypeOK, NEW b \in Block, NEW line \in Line, Uses(b, line)
  PROVE  /\ lru_count' \in [Line -> 0 .. way - 1]
         /\ lru_count'[line] = way - 1
         /\ \A k \in Line : k # line =>
              lru_count'[k] = IF k \in Lines(Index(b))
                                 /\ lru_count[k] > lru_count[line]
                              THEN lru_count[k] - 1 ELSE lru_count[k]
<1>1. way \in Nat \ {0} /\ lru_count \in [Line -> 0 .. way - 1]
  BY GeometryFacts DEF CacheTypeOK
<1>2. lru_count' = [k \in Line |->
                      IF k = line THEN way - 1
                      ELSE IF k \in Lines(Index(b))
                              /\ lru_count[k] > lru_count[line]
                      THEN lru_count[k] - 1 ELSE lru_count[k]]
  BY DEF Uses, UpdateLru
<1> QED
  BY <1>1, <1>2

(***************************************************************************)
(* The ranks survive a use.  A line that was filled already only changes   *)
(* place.  A line that was free makes the set one line longer: the others  *)
(* all have positive counts then, since the set is not full, and go down.  *)
(***************************************************************************)
LEMMA RanksKept ==
  ASSUME CacheTypeOK, LruRanks, NEW b \in Block, NEW line \in Line,
         Uses(b, line)
  PROVE  LruRanks'
<1>0. PICK i \in SetIndex : i = Index(b)
  BY BlockIsTagAndIndex DEF CacheTypeOK
<1>1. /\ i \in SetIndex /\ line \in Lines(i)
      /\ way \in Nat \ {0} /\ Sets \in Nat \ {0}
      /\ lru_count \in [Line -> 0 .. way - 1]
  BY <1>0, GeometryFacts DEF CacheTypeOK, Uses
<1>2. /\ Sets' = Sets /\ way' = way /\ Line' = Line
      /\ \A j : Lines(j)' = Lines(j)
  BY SameLines DEF Uses
<1>3. \A l \in Line : Valid(l)' <=> Valid(l) \/ l = line
  BY DEF Uses
<1>4. \A j \in SetIndex : /\ Lines(j) \subseteq Line
                          /\ IsFiniteSet(Lines(j))
                          /\ Cardinality(Lines(j)) = way
  BY LinesOfSet DEF CacheTypeOK
<1>5. \A j \in SetIndex : j # i =>
        \A l \in Lines(j) : l \notin Lines(i) /\ l # line
  BY <1>1, SetsDisjoint DEF CacheTypeOK
<1>6. \A l \in Line : ~ Valid(l) => lru_count[l] = 0
  BY DEF LruRanks
<1>7. \A j \in SetIndex : \A k, l \in Lines(j) :
        k # l /\ Valid(k) /\ Valid(l) => lru_count[k] # lru_count[l]
  BY DEF LruRanks, SetIndex
<1>8. \A j \in SetIndex : \A l \in Lines(j) :
        Valid(l) => lru_count[l] >= way - Cardinality(Filled(j))
  BY DEF LruRanks, SetIndex, Filled
<1>9. \A j \in SetIndex : /\ Filled(j) \subseteq Lines(j)
                          /\ IsFiniteSet(Filled(j))
                          /\ Cardinality(Filled(j)) \in Nat
  BY <1>4, FS_Subset, FS_CardinalityType DEF Filled
<1>10. /\ lru_count' \in [Line -> 0 .. way - 1]
       /\ lru_count'[line] = way - 1
       /\ \A k \in Line : k # line =>
            lru_count'[k] = IF k \in Lines(i) /\ lru_count[k] > lru_count[line]
                            THEN lru_count[k] - 1 ELSE lru_count[k]
  BY <1>0, CountsAfter
<1>11. \A j \in SetIndex : Filled(j)' = IF j = i THEN Filled(j) \cup {line}
                                                 ELSE Filled(j)
  BY <1>1, <1>2, <1>3, <1>4, <1>5 DEF Filled
<1>12. \A j \in SetIndex :
         /\ j # i \/ Valid(line) => Filled(j)' = Filled(j)
         /\ j = i /\ ~ Valid(line) =>
              /\ Cardinality(Filled(j)') = Cardinality(Filled(j)) + 1
              /\ Cardinality(Filled(j)) < way
  <2>1. \A j \in SetIndex : j # i \/ Valid(line) => Filled(j)' = Filled(j)
    BY <1>1, <1>11 DEF Filled
  <2>2. ASSUME ~ Valid(line)
        PROVE  /\ Cardinality(Filled(i)') = Cardinality(Filled(i)) + 1
               /\ Cardinality(Filled(i)) < way
    <3>1. line \notin Filled(i) /\ line \in Lines(i)
      BY <1>1, <2>2 DEF Filled
    <3>2. Cardinality(Filled(i)') = Cardinality(Filled(i)) + 1
      BY <1>1, <1>9, <1>11, <3>1, FS_AddElement
    <3>3. /\ Cardinality(Filled(i)) <= Cardinality(Lines(i))
          /\ Cardinality(Filled(i)) = Cardinality(Lines(i))
               => Lines(i) = Filled(i)
      BY <1>1, <1>4, <1>9, FS_Subset
    <3> QED
      BY <1>1, <1>4, <1>9, <3>1, <3>2, <3>3
  <2> QED
    BY <2>1, <2>2
<1>13. \A l \in Line : ~ Valid(l)' => lru_count'[l] = 0
  BY <1>1, <1>3, <1>6, <1>10
<1>14. \A j \in SetIndex : \A l \in Lines(j) :
         l # line /\ Valid(l) => \/ Valid(line)
                                 \/ j # i
                                 \/ lru_count'[l] = lru_count[l] - 1
  <2> SUFFICES ASSUME NEW l \in Lines(i), l # line, Valid(l), ~ Valid(line)
               PROVE  lru_count'[l] = lru_count[l] - 1
    BY <1>1
  <2>1. lru_count[line] = 0 /\ lru_count[l] > 0 /\ l \in Line
    BY <1>1, <1>4, <1>6, <1>8, <1>9, <1>12
  <2> QED
    BY <1>10, <2>1
<1>15. \A j \in SetIndex : \A k, l \in Lines(j) :
         k # l /\ Valid(k)' /\ Valid(l)' => lru_count'[k] # lru_count'[l]
  <2> SUFFICES ASSUME NEW j \in SetIndex, NEW k \in Lines(j), NEW l \in Lines(j),
                      k # l, Valid(k)', Valid(l)'
               PROVE  lru_count'[k] # lru_count'[l]
    OBVIOUS
  <2>1. k \in Line /\ l \in Line
    BY <1>4
  <2>2. CASE j # i
    BY <1>3, <1>5, <1>7, <1>10, <2>1, <2>2
  <2>3. CASE j = i /\ k # line /\ l # line
    <3>1. Valid(k) /\ Valid(l) /\ lru_count[k] # lru_count[l]
      BY <1>3, <1>7, <2>1, <2>3
    <3>2. CASE Valid(line)
      <4>1. lru_count[k] # lru_count[line] /\ lru_count[l] # lru_count[line]
        BY <1>1, <1>7, <2>3, <3>1, <3>2
      <4> QED
        BY <1>1, <1>10, <2>1, <2>3, <3>1, <4>1
    <3>3. CASE ~ Valid(line)
      BY <1>1, <1>14, <2>1, <2>3, <3>1, <3>3
    <3> QED
      BY <3>2, <3>3
  <2>4. ASSUME NEW m \in Lines(i), m # line, Valid(m)
        PROVE  lru_count'[m] < way - 1
    <3>1. m \in Line
      BY <1>1, <1>4
    <3>2. CASE Valid(line)
      <4>1. lru_count[m] # lru_count[line]
        BY <1>1, <1>7, <2>4, <3>2
      <4> QED
        BY <1>1, <1>10, <2>4, <3>1, <4>1
    <3>3. CASE ~ Valid(line)
      BY <1>1, <1>14, <2>4, <3>1, <3>3
    <3> QED
      BY <3>2, <3>3
  <2>5. CASE j = i /\ (k = line \/ l = line)
    BY <1>1, <1>3, <1>10, <2>1, <2>4, <2>5
  <2> QED
    BY <2>2, <2>3, <2>5
<1>16. \A j \in SetIndex : \A l \in Lines(j) :
         Valid(l)' => lru_count'[l] >= way - Cardinality(Filled(j)')
  <2> SUFFICES ASSUME NEW j \in SetIndex, NEW l \in Lines(j), Valid(l)'
               PROVE  lru_count'[l] >= way - Cardinality(Filled(j)')
    OBVIOUS
  <2>1. l \in Line /\ lru_count[l] \in Int /\ lru_count[line] \in Int
    BY <1>1, <1>4
  <2>2. CASE l = line
    <3>1. j = i /\ Cardinality(Filled(i)') \in Nat
      BY <1>1, <1>5, <1>9, <1>12, <2>2
    <3>2. line \in Filled(i)' /\ IsFiniteSet(Filled(i)')
      BY <1>1, <1>9, <1>11, FS_AddElement
    <3>3. Cardinality(Filled(i)') # 0
      BY <3>2, FS_EmptySet
    <3> QED
      BY <1>1, <1>10, <2>2, <3>1, <3>3
  <2>3. CASE l # line
    <3>1. Valid(l) /\ lru_count[l] >= way - Cardinality(Filled(j))
      BY <1>3, <1>8, <2>1, <2>3
    <3>2. CASE j # i
      BY <1>5, <1>10, <1>12, <2>1, <2>3, <3>1, <3>2
    <3>3. CASE j = i /\ Valid(line)
      <4>1. lru_count[line] >= way - Cardinality(Filled(j))
        BY <1>1, <1>8, <3>3
      <4>2. Filled(j)' = Filled(j) /\ Cardinality(Filled(j)) \in Nat
        BY <1>9, <1>12, <3>3
      <4> QED
        BY <1>1, <1>10, <2>1, <2>3, <3>1, <4>1, <4>2
    <3>4. CASE j = i /\ ~ Valid(line)
      <4>1. lru_count'[l] = lru_count[l] - 1
        BY <1>14, <2>3, <3>1, <3>4
      <4>2. /\ Cardinality(Filled(j)') = Cardinality(Filled(j)) + 1
            /\ Cardinality(Filled(j)) \in Nat
        BY <1>9, <1>12, <3>4
      <4> QED
        BY <1>1, <2>1, <3>1, <4>1, <4>2
    <3> QED
      BY <3>2, <3>3, <3>4
  <2> QED
    BY <2>2, <2>3
<1> QED
  BY <1>2, <1>13, <1>15, <1>16 DEF LruRanks, SetIndex, Filled

-----------------------------------------------------------------------------
(***************************************************************************)
(* What is resident after a use: the block that was used, in the line it   *)
(* was given, and otherwise what the other lines held.  Two blocks with    *)
(* the same tag in the same line are one block.                            *)
(***************************************************************************)
LEMMA ResidentAfter ==
  ASSUME CacheTypeOK, NEW b \in Block, NEW line \in Line, Uses(b, line)
  PROVE  \A c \in Block : \A l \in Line :
           HitLine(c, l)' <=> IF l = line THEN c = b ELSE HitLine(c, l)
<1> SUFFICES ASSUME NEW c \in Block, NEW l \in Line
             PROVE  HitLine(c, l)' <=> IF l = line THEN c = b ELSE HitLine(c, l)
  OBVIOUS
<1>1. HitLine(c, l)' <=> /\ l \in Lines(Index(c))
                         /\ tagarray'[l] = Tag(c)
                         /\ Valid(l)'
  <2>1. UNCHANGED geometry
    BY DEF Uses
  <2>2. Lines(Index(c))' = Lines(Index(c)) /\ Tag(c)' = Tag(c)
    BY <2>1, SameLines DEF Lines, Index
  <2> QED
    BY <2>2 DEF HitLine
<1>2. CASE l # line
  BY <1>1, <1>2 DEF Uses, HitLine
<1>3. CASE l = line
  <2>1. HitLine(c, l)' <=> l \in Lines(Index(c)) /\ Tag(b) = Tag(c)
    BY <1>1, <1>3 DEF Uses
  <2>2. l \in Lines(Index(b))
    BY <1>3 DEF Uses
  <2>3. l \in Lines(Index(c)) /\ Tag(b) = Tag(c) => b = c
    <3>1. geometry \in Geometry /\ Index(b) \in SetIndex /\ Index(c) \in SetIndex
      BY BlockIsTagAndIndex DEF CacheTypeOK
    <3>2. l \in Lines(Index(c)) => Index(b) = Index(c)
      BY <2>2, <3>1, SetsDisjoint
    <3> QED
      BY <3>1, <3>2, BlockIsTagAndIndex
  <2> QED
    BY <1>3, <2>1, <2>2, <2>3
<1> QED
  BY <1>2, <1>3

(* A use leaves no block in two lines.                                     *)
LEMMA NoDuplicateKept ==
  ASSUME CacheTypeOK, NoDuplicate, NEW b \in Block, NEW line \in Line,
         Uses(b, line), Fresh(b, line)
  PROVE  NoDuplicate'
<1>1. Line' = Line
  BY SameLines DEF Uses
<1>2. SUFFICES ASSUME NEW c \in Block, NEW k \in Line, NEW l \in Line,
                      HitLine(c, k)', HitLine(c, l)'
               PROVE  k = l
  BY <1>1 DEF NoDuplicate
<1>3. /\ IF k = line THEN c = b ELSE HitLine(c, k)
      /\ IF l = line THEN c = b ELSE HitLine(c, l)
  BY <1>2, ResidentAfter
<1> QED
  BY <1>3 DEF NoDuplicate, Fresh, IsHit

(* The types survive a use, and so does what a use does not change.        *)
LEMMA TypesKept ==
  ASSUME CacheTypeOK, NEW b \in Block, NEW line \in Line, Uses(b, line)
  PROVE  /\ geometry' \in Geometry
         /\ (tagarray' = [tagarray EXCEPT ![line] = Tag(b)] \/ tagarray' = tagarray)
              => tagarray' \in [Line' -> Tags']
         /\ lru_count' \in [Line' -> 0 .. way' - 1]
         /\ state' \in [Line -> SUBSET {"VALID", "MODIFIED"}]
              => state' \in [Line' -> SUBSET {"VALID", "MODIFIED"}]
<1>1. /\ Line' = Line /\ way' = way /\ Tags' = Tags /\ geometry' = geometry
  BY SameLines DEF Uses
<1>2. lru_count' \in [Line -> 0 .. way - 1]
  BY CountsAfter
<1>3. Tag(b) \in Tags
  BY DEF Tags
<1> QED
  BY <1>1, <1>2, <1>3 DEF CacheTypeOK

(* The bookkeeping of a miss.                                              *)
LEMMA CountMissTypes ==
  ASSUME CacheTypeOK, NEW b \in Block, CountMiss(b)
  PROVE  /\ block_hist' \in SUBSET Block /\ access_count' \in Nat
         /\ hit_count' \in Nat /\ compulsory_count' \in Nat
         /\ capacity_count' \in Nat /\ conflict_count' \in Nat
BY DEF CountMiss, CacheTypeOK

(* Every access keeps the types.                                           *)
LEMMA TypeStep ==
  ASSUME CacheTypeOK, NEW b \in Block, NEW rwtype \in RwType, Access(b, rwtype)
  PROVE  CacheTypeOK'
<1>1. UNCHANGED geometry /\ penalty \in Nat /\ 2 * penalty \in Nat
  BY CacheAssumption DEF Access
<1>2. CASE Hit(b, rwtype)
  <2>1. PICK line \in Line : Uses(b, line) /\ HitLine(b, line)
    BY <1>1, <1>2, HitUses
  <2>2. /\ state' \in [Line -> SUBSET {"VALID", "MODIFIED"}]
        /\ tagarray' = tagarray /\ latency' \in Nat
        /\ access_count' = access_count + 1 /\ hit_count' = hit_count + 1
        /\ UNCHANGED missVars
    BY <1>1, <1>2 DEF Hit, CacheTypeOK
  <2> QED
    BY <2>1, <2>2, TypesKept DEF CacheTypeOK, missVars
<1>3. CASE WriteAround(b, rwtype)
  <2>1. /\ UNCHANGED <<state, tagarray, lru_count, remained_lines, block_hist,
                       compulsory_count, capacity_count, conflict_count,
                       access_count, hit_count>>
        /\ latency' \in Nat
    BY <1>1, <1>3 DEF WriteAround, lineVars, missVars
  <2> QED
    BY <1>1, <2>1, SameLines DEF CacheTypeOK
<1>4. ASSUME NEW line \in Line, Install(b, line, rwtype),
             line \in Lines(Index(b)), CountMiss(b), latency' \in Nat,
             remained_lines' \in Int
      PROVE  CacheTypeOK'
  <2>1. Uses(b, line)
    BY <1>1, <1>4, InstallUses
  <2>2. /\ state' \in [Line -> SUBSET {"VALID", "MODIFIED"}]
        /\ tagarray' = [tagarray EXCEPT ![line] = Tag(b)]
    BY <1>4 DEF Install, CacheTypeOK
  <2> QED
    BY <1>4, <2>1, <2>2, TypesKept, CountMissTypes DEF CacheTypeOK
<1>5. CASE Fill(b, rwtype)
  BY <1>1, <1>4, <1>5 DEF Fill, EmptyLine, CacheTypeOK
<1>6. CASE Replace(b, rwtype)
  <2>1. \A line \in Line : ReplaceTime(line) \in Nat
    BY <1>1 DEF ReplaceTime
  <2> QED
    BY <1>4, <1>6, <2>1 DEF Replace, VictimLine, CacheTypeOK
<1> QED
  BY <1>2, <1>3, <1>5, <1>6 DEF Access

-----------------------------------------------------------------------------
(* The free lines after a use.                                             *)
LEMMA FreeAfter ==
  ASSUME CacheTypeOK, NEW b \in Block, NEW line \in Line, Uses(b, line)
  PROVE  /\ Cardinality({l \in Line : ~ Valid(l)}) \in Nat
         /\ Cardinality({l \in Line : ~ Valid(l)}')
              = Cardinality({l \in Line : ~ Valid(l)})
                  - (IF Valid(line) THEN 0 ELSE 1)
<1> DEFINE free == {l \in Line : ~ Valid(l)}
<1>1. IsFiniteSet(free) /\ Cardinality(free) \in Nat
  <2>1. IsFiniteSet(Line) /\ free \subseteq Line
    BY GeometryFacts, FS_Interval DEF Line, CacheTypeOK
  <2> QED
    BY <2>1, FS_Subset, FS_CardinalityType
<1>2. free' = free \ {line}
  BY SameLines DEF Uses
<1>3. Cardinality(free \ {line})
        = IF line \in free THEN Cardinality(free) - 1 ELSE Cardinality(free)
  BY <1>1, FS_RemoveElement
<1>4. line \in free <=> ~ Valid(line)
  OBVIOUS
<1>5. Cardinality(free') = Cardinality(free) - (IF Valid(line) THEN 0 ELSE 1)
  <2> HIDE DEF free
  <2> QED
    BY <1>1, <1>2, <1>3, <1>4
<1> QED
  BY <1>1, <1>5

(* The blocks ever brought in after a miss.                                *)
LEMMA HistoryAfter ==
  ASSUME CacheTypeOK, IsFiniteSet(block_hist),
         compulsory_count = Cardinality(block_hist),
         NEW b \in Block, CountMiss(b)
  PROVE  IsFiniteSet(block_hist') /\ compulsory_count' = Cardinality(block_hist')
<1>1. /\ IsFiniteSet(block_hist \cup {b})
      /\ Cardinality(block_hist \cup {b})
           = IF b \in block_hist THEN Cardinality(block_hist)
                                 ELSE Cardinality(block_hist) + 1
  BY FS_AddElement
<1> QED
  BY <1>1 DEF CountMiss, CacheTypeOK

(* A hit keeps the account.                                                *)
LEMMA HitAccount ==
  ASSUME CacheInv, NEW b \in Block, NEW rwtype \in RwType, UNCHANGED geometry,
         Hit(b, rwtype)
  PROVE  /\ IsFiniteSet(block_hist') /\ Accounting'
         /\ KeptWhileRoom' /\ FullyAssociative'
<1>1. PICK line \in Line : Uses(b, line) /\ HitLine(b, line)
  BY HitUses DEF CacheInv
<1>2. /\ access_count' = access_count + 1 /\ hit_count' = hit_count + 1
      /\ UNCHANGED <<remained_lines, block_hist, compulsory_count,
                     capacity_count, conflict_count>>
  BY DEF Hit, missVars
<1>3. Line' = Line /\ Sets' = Sets
  BY <1>1, SameLines DEF Uses
<1>4. \A c \in Block : IsHit(c)' <=> IsHit(c)
  <2>1. Line' = Line /\ CacheTypeOK
    BY <1>3 DEF CacheInv
  <2>2. \A c \in Block : \A l \in Line :
          HitLine(c, l)' <=> IF l = line THEN c = b ELSE HitLine(c, l)
    BY <1>1, <2>1, ResidentAfter
  <2>3. \A c \in Block : HitLine(c, line) => c = b
    <3> SUFFICES ASSUME NEW c \in Block, HitLine(c, line) PROVE c = b
      OBVIOUS
    <3>1. geometry \in Geometry /\ Index(b) \in SetIndex /\ Index(c) \in SetIndex
      BY BlockIsTagAndIndex DEF CacheInv, CacheTypeOK
    <3>2. Index(b) = Index(c) /\ Tag(b) = Tag(c)
      BY <1>1, <3>1, SetsDisjoint DEF HitLine
    <3> QED
      BY <3>1, <3>2, BlockIsTagAndIndex
  <2> QED
    BY <1>1, <2>1, <2>2, <2>3 DEF IsHit
<1>5. Accounting'
  <2>1. /\ access_count' = hit_count' + compulsory_count' + capacity_count'
                             + conflict_count'
        /\ compulsory_count' = Cardinality(block_hist')
    BY <1>2 DEF CacheInv, Accounting, CacheTypeOK
  <2>2. \A c \in Block : IsHit(c)' => c \in block_hist'
    BY <1>2, <1>4 DEF CacheInv, Accounting
  <2>3. remained_lines' = Cardinality({l \in Line : ~ Valid(l)}')
    BY <1>1, <1>2, FreeAfter DEF CacheInv, Accounting, HitLine
  <2> QED
    BY <1>3, <2>1, <2>2, <2>3 DEF Accounting
<1>6. KeptWhileRoom' /\ FullyAssociative'
  BY <1>2, <1>3, <1>4 DEF CacheInv, CacheTypeOK, KeptWhileRoom, FullyAssociative
<1> QED
  BY <1>2, <1>5, <1>6 DEF CacheInv

(* So does the bookkeeping of a miss, whichever line is used.              *)
LEMMA MissAccount ==
  ASSUME CacheInv, NEW b \in Block, NEW line \in Line, Uses(b, line),
         ~ IsHit(b), CountMiss(b),
         remained_lines' = remained_lines - (IF Valid(line) THEN 0 ELSE 1)
  PROVE  IsFiniteSet(block_hist') /\ Accounting'
<1>1. IsFiniteSet(block_hist') /\ compulsory_count' = Cardinality(block_hist')
  BY HistoryAfter DEF CacheInv, Accounting
<1>2. access_count' = hit_count' + compulsory_count' + capacity_count'
                        + conflict_count'
  BY DEF CacheInv, Accounting, CountMiss, CacheTypeOK
<1>3. Line' = Line
  BY SameLines DEF Uses
<1>4. \A c \in Block : IsHit(c)' => IsHit(c) \/ c = b
  BY <1>3, ResidentAfter DEF CacheInv, IsHit
<1>5. \A c \in Block : IsHit(c)' => c \in block_hist'
  BY <1>4 DEF CacheInv, Accounting, CountMiss
<1>6. remained_lines' = Cardinality({l \in Line : ~ Valid(l)}')
  BY FreeAfter DEF CacheInv, Accounting
<1> QED
  BY <1>1, <1>2, <1>3, <1>5, <1>6 DEF Accounting

(* Filling a free line evicts nothing.                                     *)
LEMMA FillAccount ==
  ASSUME CacheInv, NEW b \in Block, NEW rwtype \in RwType, UNCHANGED geometry,
         Fill(b, rwtype)
  PROVE  /\ IsFiniteSet(block_hist') /\ Accounting'
         /\ KeptWhileRoom' /\ FullyAssociative'
<1>1. PICK line \in Line : /\ Uses(b, line)
                           /\ ~ IsHit(b) /\ ~ Valid(line)
                           /\ remained_lines' = remained_lines - 1
  BY FillUses DEF CacheInv
<1>2. CountMiss(b)
  BY DEF Fill
<1>3. IsFiniteSet(block_hist') /\ Accounting'
  BY <1>1, <1>2, MissAccount
<1>4. /\ Line' = Line /\ Sets' = Sets /\ remained_lines \in Int
      /\ block_hist \subseteq Block /\ conflict_count \in Nat
  BY <1>1, SameLines DEF Uses, CacheInv, CacheTypeOK
<1>5. \A c \in Block : IsHit(c) \/ c = b => IsHit(c)'
  <2>1. \A c \in Block : \A l \in Line : HitLine(c, l) => l # line
    BY <1>1 DEF HitLine
  <2>2. \A c \in Block : \A l \in Line :
          HitLine(c, l)' <=> IF l = line THEN c = b ELSE HitLine(c, l)
    BY <1>1, ResidentAfter DEF CacheInv
  <2> QED
    BY <1>4, <2>1, <2>2 DEF IsHit
<1>6. KeptWhileRoom'
  BY <1>1, <1>2, <1>4, <1>5 DEF CacheInv, KeptWhileRoom, CountMiss
<1>7. FullyAssociative'
  BY <1>1, <1>2, <1>4 DEF CacheInv, KeptWhileRoom, FullyAssociative, CountMiss
<1> QED
  BY <1>3, <1>6, <1>7

(***************************************************************************)
(* Replacing a line happens in a full set.  When that set is the whole     *)
(* cache no line is free, so the miss is not counted as a conflict.        *)
(***************************************************************************)
LEMMA ReplaceAccount ==
  ASSUME CacheInv, NEW b \in Block, NEW rwtype \in RwType, UNCHANGED geometry,
         Replace(b, rwtype)
  PROVE  /\ IsFiniteSet(block_hist') /\ Accounting'
         /\ KeptWhileRoom' /\ FullyAssociative'
<1>1. PICK line \in Line : /\ Uses(b, line)
                           /\ ~ IsHit(b)
                           /\ \A l \in Lines(Index(b)) : Valid(l)
                           /\ UNCHANGED remained_lines
  BY ReplaceUses DEF CacheInv
<1>2. CountMiss(b) /\ Valid(line)
  BY <1>1 DEF Replace, Uses
<1>3. IsFiniteSet(block_hist') /\ Accounting'
  <2>1. remained_lines' = remained_lines - (IF Valid(line) THEN 0 ELSE 1)
    BY <1>1, <1>2 DEF CacheInv, CacheTypeOK
  <2> QED
    BY <1>1, <1>2, <2>1, MissAccount
<1>4. Sets' = Sets /\ conflict_count \in Nat
  BY <1>1, SameLines DEF Uses, CacheInv, CacheTypeOK
<1>5. Sets = 1 => remained_lines = 0
  <2> SUFFICES ASSUME Sets = 1 PROVE remained_lines = 0
    OBVIOUS
  <2>1. Index(b) = 0 /\ 0 \in SetIndex /\ geometry \in Geometry
    BY BlockIsTagAndIndex DEF CacheInv, CacheTypeOK, SetIndex
  <2>2. way \in Nat /\ Sets * way = way /\ 0 * way = 0
    BY <2>1, GeometryFacts
  <2>3. Lines(0) = 0 .. 0 * way + way - 1
    BY <2>1, <2>2, LinesOfSet
  <2>4. Lines(Index(b)) = Line
    BY <2>1, <2>2, <2>3 DEF Line
  <2>5. {l \in Line : ~ Valid(l)} = {}
    BY <1>1, <2>4
  <2> QED
    BY <2>5, FS_EmptySet DEF CacheInv, Accounting
<1>6. KeptWhileRoom' /\ FullyAssociative'
  BY <1>1, <1>2, <1>4, <1>5
     DEF CacheInv, KeptWhileRoom, FullyAssociative, CountMiss
<1> QED
  BY <1>3, <1>6

-----------------------------------------------------------------------------
(* An empty cache.                                                         *)
LEMMA InvInit == CacheInit => CacheInv
<1> SUFFICES ASSUME CacheInit PROVE CacheInv
  OBVIOUS
<1>1. \A l \in Line : ~ Valid(l) /\ lru_count[l] = 0
  BY DEF CacheInit, Valid
<1>2. /\ geometry \in Geometry /\ way \in Nat \ {0} /\ Sets * way \in Nat
      /\ Sets \in Nat \ {0}
  BY GeometryFacts DEF CacheInit
<1>3. CacheTypeOK
  BY <1>2 DEF CacheInit, CacheTypeOK
<1>4. NoDuplicate
  BY <1>1 DEF NoDuplicate, HitLine
<1>5. LruRanks
  <2>1. \A i : Lines(i) \subseteq Line
    BY DEF Lines
  <2> QED
    BY <1>1, <2>1 DEF LruRanks
<1>6. IsFiniteSet(block_hist) /\ Cardinality(block_hist) = 0
  BY FS_EmptySet DEF CacheInit
<1>7. Accounting
  <2>1. {l \in Line : ~ Valid(l)} = 0 .. Sets * way - 1
    BY <1>1 DEF Line
  <2>2. Cardinality({l \in Line : ~ Valid(l)}) = Sets * way
    <3>1. \A n \in Nat : Cardinality(0 .. n - 1) = n
      BY FS_Interval
    <3> QED
      BY <1>2, <2>1, <3>1
  <2>3. \A b \in Block : ~ IsHit(b)
    BY <1>1 DEF IsHit, HitLine
  <2> QED
    BY <1>6, <2>2, <2>3 DEF CacheInit, Accounting
<1>8. KeptWhileRoom /\ FullyAssociative
  BY DEF CacheInit, KeptWhileRoom, FullyAssociative
<1> QED
  BY <1>3, <1>4, <1>5, <1>6, <1>7, <1>8 DEF CacheInv

(* Every access keeps the invariant, and so does standing still.           *)
LEMMA InvAccess ==
  ASSUME CacheInv, NEW b \in Block, NEW rwtype \in RwType, Access(b, rwtype)
  PROVE  CacheInv'
<1>1. UNCHANGED geometry
  BY DEF Access
<1>2. CacheTypeOK'
  BY TypeStep DEF CacheInv
<1>3. ASSUME NEW line \in Line, Uses(b, line), Fresh(b, line)
      PROVE  NoDuplicate' /\ LruRanks'
  BY <1>3, NoDuplicateKept, RanksKept DEF CacheInv
<1>4. CASE Hit(b, rwtype)
  <2>1. \E line \in Line : Uses(b, line) /\ Fresh(b, line)
    BY <1>1, <1>4, HitUses DEF CacheInv, Fresh
  <2> QED
    BY <1>1, <1>2, <1>3, <1>4, <2>1, HitAccount DEF CacheInv
<1>5. CASE WriteAround(b, rwtype)
  <2>1. UNCHANGED <<state, tagarray, lru_count, remained_lines, block_hist,
                    compulsory_count, capacity_count, conflict_count,
                    access_count, hit_count>>
    BY <1>5 DEF WriteAround, lineVars, missVars
  <2>2. /\ Sets' = Sets /\ way' = way /\ Line' = Line
        /\ \A i : Lines(i)' = Lines(i)
        /\ \A c : Index(c)' = Index(c) /\ Tag(c)' = Tag(c)
        /\ \A l : Valid(l)' <=> Valid(l)
    BY <1>1, <2>1, SameLines DEF Valid
  <2>3. \A c, l : HitLine(c, l)' <=> HitLine(c, l)
    BY <1>1, <2>1 DEF HitLine, Valid, Lines, Line, Index, Tag, Sets, way
  <2>4. \A c : IsHit(c)' <=> IsHit(c)
    BY <2>2, <2>3 DEF IsHit
  <2>5. NoDuplicate' /\ LruRanks'
    BY <2>1, <2>2, <2>3 DEF CacheInv, NoDuplicate, LruRanks
  <2>6. Accounting' /\ KeptWhileRoom' /\ FullyAssociative'
    BY <2>1, <2>2, <2>4
       DEF CacheInv, Accounting, KeptWhileRoom, FullyAssociative
  <2> QED
    BY <1>2, <2>1, <2>5, <2>6 DEF CacheInv
<1>6. CASE Fill(b, rwtype)
  <2>1. \E line \in Line : Uses(b, line) /\ Fresh(b, line)
    BY <1>1, <1>6, FillUses DEF CacheInv, Fresh
  <2> QED
    BY <1>1, <1>2, <1>3, <1>6, <2>1, FillAccount DEF CacheInv
<1>7. CASE Replace(b, rwtype)
  <2>1. \E line \in Line : Uses(b, line) /\ Fresh(b, line)
    BY <1>1, <1>7, ReplaceUses DEF CacheInv, Fresh
  <2> QED
    BY <1>1, <1>2, <1>3, <1>7, <2>1, ReplaceAccount DEF CacheInv
<1> QED
  BY <1>4, <1>5, <1>6, <1>7 DEF Access

LEMMA InvStutter ==
  ASSUME CacheInv, UNCHANGED cacheVars
  PROVE  CacheInv'
<1> USE DEF CacheInv, cacheVars, lineVars, missVars, Lines, Line, Sets, way
<1>1. CacheTypeOK'
  <2>1. Line' = Line /\ Tags' = Tags /\ way' = way
    BY DEF Tags, Tag
  <2> HIDE DEF Line, Lines, Sets, way
  <2> QED
    BY <2>1 DEF CacheTypeOK
<1>2. NoDuplicate'
  BY DEF NoDuplicate, HitLine, Valid, Index, Tag
<1>3. LruRanks'
  BY DEF LruRanks, Valid
<1>4. Accounting' /\ FullyAssociative'
  BY DEF Accounting, FullyAssociative, IsHit, HitLine, Valid, Index, Tag
<1>5. KeptWhileRoom'
  BY DEF KeptWhileRoom, IsHit, HitLine, Valid, Index, Tag
<1> QED
  BY <1>1, <1>2, <1>3, <1>4, <1>5

LEMMA InvAlways == CacheSpec => []CacheInv
<1>1. CacheInv /\ [CacheNext]_cacheVars => CacheInv'
  BY InvAccess, InvStutter DEF CacheNext
<1> QED
  BY <1>1, InvInit, PTL DEF CacheSpec

(***************************************************************************)
(* The line arrays stay in their ranges: in particular no LRU count is     *)
(* decremented below 0 or set beyond way-1.                                *)
(***************************************************************************)
THEOREM CacheTypeCorrect == CacheSpec => []CacheTypeOK
<1>1. CacheInv => CacheTypeOK
  BY DEF CacheInv
<1> QED
  BY <1>1, InvAlways, PTL

(* No block is ever in two lines, so is_hit may stop at the first match.   *)
THEOREM NoDuplicateCorrect == CacheSpec => []NoDuplicate
<1>1. CacheInv => NoDuplicate
  BY DEF CacheInv
<1> QED
  BY <1>1, InvAlways, PTL

(* update_lru_count ranks the filled lines of each set.                    *)
THEOREM LruRanksCorrect == CacheSpec => []LruRanks
<1>1. CacheInv => LruRanks
  BY DEF CacheInv
<1> QED
  BY <1>1, InvAlways, PTL

(* The statistics add up, and remained_lines counts the free lines.        *)
THEOREM AccountingCorrect == CacheSpec => []Accounting
<1>1. CacheInv => Accounting
  BY DEF CacheInv
<1> QED
  BY <1>1, InvAlways, PTL

(* A fully associative cache counts no conflict misses.                    *)
THEOREM FullyAssociativeCorrect == CacheSpec => []FullyAssociative
<1>1. CacheInv => FullyAssociative
  BY DEF CacheInv
<1> QED
  BY <1>1, InvAlways, PTL

(***************************************************************************)
(* get_write_back_line always finds the least recently used line of a full *)
(* set: exactly one line has LRU count 0, so its fallback on the first way *)
(* is never taken.                                                         *)
(***************************************************************************)
OneVictim ==
  \A i \in SetIndex :
    (\A l \in Lines(i) : Valid(l)) =>
      \E l \in Lines(i) : /\ lru_count[l] = 0
                          /\ \A k \in Lines(i) \ {l} : lru_count[k] > 0

(* way lines cannot have way distinct counts that are all positive.        *)
THEOREM OneVictimCorrect == CacheSpec => []OneVictim
<1>1. CacheInv => OneVictim
  <2> SUFFICES ASSUME CacheInv, NEW i \in SetIndex,
                      \A l \in Lines(i) : Valid(l)
               PROVE  \E l \in Lines(i) :
                        /\ lru_count[l] = 0
                        /\ \A k \in Lines(i) \ {l} : lru_count[k] > 0
    BY DEF OneVictim
  <2>1. /\ way \in Nat \ {0} /\ Lines(i) \subseteq Line
        /\ IsFiniteSet(Lines(i)) /\ Cardinality(Lines(i)) = way
        /\ lru_count \in [Line -> 0 .. way - 1]
    BY GeometryFacts, LinesOfSet DEF CacheInv, CacheTypeOK
  <2>2. \A k, l \in Lines(i) : k # l => lru_count[k] # lru_count[l]
    BY DEF CacheInv, LruRanks, SetIndex
  <2>3. \E l \in Lines(i) : lru_count[l] = 0
    <3> SUFFICES ASSUME \A l \in Lines(i) : lru_count[l] # 0 PROVE FALSE
      OBVIOUS
    <3> DEFINE count == [l \in Lines(i) |-> lru_count[l]]
    <3>1. count \in [Lines(i) -> 1 .. way - 1]
      BY <2>1
    <3>2. /\ IsFiniteSet(1 .. way - 1)
          /\ Cardinality(1 .. way - 1) < Cardinality(Lines(i))
      <4>1. /\ IsFiniteSet(1 .. way - 1)
            /\ Cardinality(1 .. way - 1)
                 = IF 1 > way - 1 THEN 0 ELSE (way - 1) - 1 + 1
        BY <2>1, FS_Interval
      <4> QED
        BY <2>1, <4>1
    <3>3. \E k, l \in Lines(i) : k # l /\ count[k] = count[l]
      <4> HIDE DEF count
      <4> QED
        BY <2>1, <3>1, <3>2, FS_PigeonHole
    <3> QED
      BY <2>2, <3>3
  <2> QED
    BY <2>1, <2>2, <2>3
<1> QED
  BY <1>1, InvAlways, PTL
-----------------------------------------------------------------------------
(***************************************************************************)
(* The lines implement the true LRU of LruCache.  A filled line has its    *)
(* place among the lines of its set, 1 for the least recently used, and    *)
(* the places are taken once each, so that Recency is a permutation of     *)
(* them (PlaceOfLine, LineOfPlace).  A use of a filled line moves it to    *)
(* the end, a free line comes in at the end.                               *)
(***************************************************************************)
Room(i) == way - Cardinality(Filled(i))

Place(i, l) == lru_count[l] - Room(i) + 1

(* What Recency says of a set.                                             *)
InPlace(i) ==
  /\ Cardinality(Filled(i)) \in 0 .. way
  /\ DOMAIN Recency[i] = 1 .. Cardinality(Filled(i))
  /\ \A l \in Filled(i) : /\ Place(i, l) \in 1 .. Cardinality(Filled(i))
                          /\ Recency[i][Place(i, l)] = BlockOf(i, l)
  /\ \A n \in 1 .. Cardinality(Filled(i)) :
       \E l \in Filled(i) : Place(i, l) = n
  /\ Recency[i] \in Seq(Nat)
  /\ Len(Recency[i]) = Cardinality(Filled(i))

(* k distinct counts in way-k .. way-1 are all of them.                    *)
LEMMA LineOfPlace ==
  ASSUME CacheInv, NEW i \in SetIndex
  PROVE  /\ Cardinality(Filled(i)) \in 0 .. way
         /\ Filled(i) \subseteq Line
         /\ \A l \in Filled(i) : Place(i, l) \in 1 .. Cardinality(Filled(i))
         /\ \A n \in 1 .. Cardinality(Filled(i)) :
              \E l \in Filled(i) : Place(i, l) = n
         /\ \A k, l \in Filled(i) : Place(i, k) = Place(i, l) => k = l
<1>1. /\ way \in Nat \ {0} /\ Lines(i) \subseteq Line
      /\ IsFiniteSet(Lines(i)) /\ Cardinality(Lines(i)) = way
      /\ lru_count \in [Line -> 0 .. way - 1]
  BY GeometryFacts, LinesOfSet DEF CacheInv, CacheTypeOK
<1>2. /\ IsFiniteSet(Filled(i)) /\ Filled(i) \subseteq Lines(i)
      /\ Cardinality(Filled(i)) \in 0 .. way
  <2>1. Filled(i) \subseteq Lines(i)
    BY DEF Filled
  <2> QED
    BY <1>1, <2>1, FS_Subset, FS_CardinalityType
<1>3. \A k, l \in Filled(i) : k # l => lru_count[k] # lru_count[l]
  BY DEF CacheInv, LruRanks, SetIndex, Filled
<1>4. \A l \in Filled(i) : lru_count[l] >= way - Cardinality(Filled(i))
  BY DEF CacheInv, LruRanks, SetIndex, Filled
<1>5. \A l \in Filled(i) : lru_count[l] \in 0 .. way - 1
  BY <1>1, <1>2
<1>6. \A l \in Filled(i) : Place(i, l) \in 1 .. Cardinality(Filled(i))
  BY <1>1, <1>2, <1>4, <1>5 DEF Place, Room
<1>7. \A k, l \in Filled(i) : Place(i, k) = Place(i, l) => k = l
  BY <1>1, <1>2, <1>3, <1>5 DEF Place, Room
<1>8. ASSUME NEW n \in 1 .. Cardinality(Filled(i)),
             \A l \in Filled(i) : Place(i, l) # n
      PROVE  FALSE
  <2> DEFINE others == (1 .. Cardinality(Filled(i))) \ {n}
             place == [l \in Filled(i) |-> Place(i, l)]
  <2>1. place \in [Filled(i) -> others]
    BY <1>6, <1>8
  <2>2. IsFiniteSet(others) /\ Cardinality(others) < Cardinality(Filled(i))
    <3>1. /\ IsFiniteSet(1 .. Cardinality(Filled(i)))
          /\ Cardinality(1 .. Cardinality(Filled(i))) = Cardinality(Filled(i))
      BY <1>2, FS_Interval
    <3>2. /\ IsFiniteSet(others)
          /\ Cardinality(others) = Cardinality(1 .. Cardinality(Filled(i))) - 1
      BY <3>1, FS_RemoveElement
    <3> QED
      BY <1>2, <3>1, <3>2
  <2>3. \E k, l \in Filled(i) : k # l /\ place[k] = place[l]
    <3> HIDE DEF place, others
    <3> QED
      BY <1>2, <2>1, <2>2, FS_PigeonHole
  <2> QED
    BY <1>7, <2>3
<1> QED
  BY <1>1, <1>2, <1>6, <1>7, <1>8

(* FilledLine finds the line of a place.                                   *)
LEMMA PlaceOfLine == CacheInv => \A i \in SetIndex : InPlace(i)
<1> SUFFICES ASSUME CacheInv, NEW i \in SetIndex PROVE InPlace(i)
  OBVIOUS
<1> DEFINE k == Cardinality(Filled(i))
<1>1. /\ k \in 0 .. way /\ way \in Nat \ {0} /\ Sets \in Nat \ {0}
      /\ \A l \in Filled(i) : l \in Line /\ lru_count[l] \in 0 .. way - 1
                                         /\ tagarray[l] \in Nat
  <2>1. Tags \subseteq Nat
    <3>1. \A b \in Block : b \in Nat /\ Sets \in Nat \ {0}
      BY CacheAssumption, GeometryFacts DEF CacheInv, CacheTypeOK
    <3> QED
      BY <3>1 DEF Tags, Tag
  <2> QED
    BY <2>1, LineOfPlace, GeometryFacts DEF CacheInv, CacheTypeOK
<1>2. \A l \in Filled(i) : Place(i, l) \in 1 .. k
  BY LineOfPlace
<1>3. \A n \in 1 .. k : \E l \in Filled(i) : Place(i, l) = n
  BY LineOfPlace
<1>4. \A m, l \in Filled(i) : Place(i, m) = Place(i, l) => m = l
  BY LineOfPlace
<1>5. \A l \in Filled(i) : \A n \in 1 .. k :
        Place(i, l) = n <=> lru_count[l] = way - k + n - 1
  BY <1>1 DEF Place, Room
<1>6. \A n \in 1 .. k : /\ FilledLine(i, n) \in Filled(i)
                        /\ Place(i, FilledLine(i, n)) = n
  <2> SUFFICES ASSUME NEW n \in 1 .. k
               PROVE  /\ FilledLine(i, n) \in Filled(i)
                      /\ Place(i, FilledLine(i, n)) = n
    OBVIOUS
  <2>1. \E l \in Filled(i) : lru_count[l] = way - k + n - 1
    BY <1>3, <1>5
  <2>2. /\ FilledLine(i, n) \in Filled(i)
        /\ lru_count[FilledLine(i, n)] = way - k + n - 1
    BY <2>1 DEF FilledLine
  <2> QED
    BY <1>5, <2>2
<1>7. Recency[i] = [n \in 1 .. k |-> BlockOf(i, FilledLine(i, n))]
  BY DEF Recency, SetIndex
<1>8. \A l \in Filled(i) : /\ BlockOf(i, l) \in Nat
                           /\ FilledLine(i, Place(i, l)) = l
  <2>1. i \in Nat
    BY DEF SetIndex
  <2>2. \A m, n \in Nat : m * n + i \in Nat
    BY <2>1
  <2> QED
    BY <1>1, <1>2, <1>4, <1>6, <2>2 DEF BlockOf
<1>9. Recency[i] \in [1 .. k -> Nat]
  BY <1>6, <1>7, <1>8
<1>10. Recency[i] \in Seq(Nat) /\ Len(Recency[i]) = k
  <2>1. k \in Nat
    BY <1>1
  <2>2. Recency[i] \in Seq(Nat)
    BY <1>9, <2>1, SeqDef
  <2> QED
    BY <1>9, <2>1, <2>2, LenProperties
<1> QED
  BY <1>1, <1>2, <1>3, <1>7, <1>8, <1>10 DEF InPlace

(* So it does after a step.                                                *)
LEMMA PlaceOfLineNext == CacheInv' => \A i \in SetIndex' : InPlace(i)'
<1>1. (CacheInv => \A i \in SetIndex : InPlace(i))'
  BY PlaceOfLine, PTL
<1> QED
  BY <1>1

(* What a use leaves in the lines: the block in the line it was given.     *)
LEMMA FilledAfter ==
  ASSUME CacheInv, NEW b \in Block, NEW line \in Line, Uses(b, line)
  PROVE  /\ Index(b) \in SetIndex /\ line \in Lines(Index(b))
         /\ SetIndex' = SetIndex /\ way' = way /\ way \in Nat \ {0}
         /\ \A j \in SetIndex :
              /\ Filled(j) \subseteq Line
              /\ Filled(j)' = IF j = Index(b) THEN Filled(j) \cup {line}
                                             ELSE Filled(j)
              /\ \A l \in Filled(j)' :
                   /\ l = line => j = Index(b)
                   /\ BlockOf(j, l)' = IF l = line THEN b ELSE BlockOf(j, l)
<1>1. /\ Index(b) \in SetIndex /\ line \in Lines(Index(b))
      /\ geometry \in Geometry /\ b \in Nat
      /\ way \in Nat \ {0} /\ Sets \in Nat \ {0}
  BY BlockIsTagAndIndex, GeometryFacts, CacheAssumption
     DEF CacheInv, CacheTypeOK, Uses
<1>2. /\ SetIndex' = SetIndex /\ way' = way /\ Sets' = Sets
      /\ \A j : Lines(j)' = Lines(j)
  BY SameLines DEF Uses
<1>3. \A l \in Line : Valid(l)' <=> Valid(l) \/ l = line
  BY DEF Uses
<1>4. \A j \in SetIndex : /\ Lines(j) \subseteq Line
                          /\ line \in Lines(j) => j = Index(b)
  BY <1>1, LinesOfSet, SetsDisjoint
<1>5. \A j \in SetIndex :
        Filled(j)' = IF j = Index(b) THEN Filled(j) \cup {line} ELSE Filled(j)
  BY <1>1, <1>2, <1>3, <1>4 DEF Filled
<1>6. \A j \in SetIndex : \A l \in Filled(j)' : l \in Line /\ l \in Lines(j)
  BY <1>2, <1>4 DEF Filled
<1>7. Tag(b) * Sets + Index(b) = b
  BY <1>1 DEF Tag, Index
<1>8. \A j \in SetIndex : \A l \in Filled(j)' :
        BlockOf(j, l)' = IF l = line THEN b ELSE BlockOf(j, l)
  BY <1>1, <1>2, <1>4, <1>6, <1>7 DEF BlockOf, Uses
<1> QED
  BY <1>1, <1>2, <1>4, <1>5, <1>6, <1>8 DEF Filled

(* The other sets are not touched.                                         *)
LEMMA OtherSets ==
  ASSUME CacheInv, CacheInv', NEW b \in Block, NEW line \in Line,
         Uses(b, line), NEW j \in SetIndex, j # Index(b)
  PROVE  Recency'[j] = Recency[j]
<1>1. /\ SetIndex' = SetIndex /\ way' = way
      /\ Filled(j)' = Filled(j) /\ Filled(j) \subseteq Line
      /\ \A l \in Filled(j) : BlockOf(j, l)' = BlockOf(j, l) /\ l # line
  BY FilledAfter
<1>2. InPlace(j) /\ InPlace(j)'
  BY <1>1, PlaceOfLine, PlaceOfLineNext
<1>3. \A l \in Filled(j) : l \notin Lines(Index(b))
  <2>1. geometry \in Geometry /\ Index(b) \in SetIndex
    BY BlockIsTagAndIndex DEF CacheInv, CacheTypeOK
  <2> QED
    BY <2>1, SetsDisjoint DEF Filled
<1>4. \A l \in Filled(j) : Place(j, l)' = Place(j, l)
  <2>1. \A l \in Filled(j) : lru_count'[l] = lru_count[l]
    BY <1>1, <1>3, CountsAfter DEF CacheInv
  <2> QED
    BY <1>1, <2>1 DEF Place, Room
<1>5. ASSUME NEW n \in 1 .. Cardinality(Filled(j))
      PROVE  Recency'[j][n] = Recency[j][n]
  <2>1. PICK l \in Filled(j) : Place(j, l) = n
    BY <1>2 DEF InPlace
  <2>2. Recency[j][n] = BlockOf(j, l)
    BY <1>2, <2>1, Zenon DEF InPlace
  <2>3. l \in Filled(j)' /\ Place(j, l)' = n
    BY <1>1, <1>4, <2>1, Zenon
  <2>4. Recency'[j][n] = BlockOf(j, l)'
    BY <1>2, <2>3, Zenon DEF InPlace
  <2> QED
    BY <1>1, <2>2, <2>4, Zenon
<1>6. /\ Recency[j] \in Seq(Nat) /\ Recency'[j] \in Seq(Nat)
      /\ Len(Recency[j]) = Cardinality(Filled(j))
      /\ Len(Recency'[j]) = Len(Recency[j])
  BY <1>1, <1>2 DEF InPlace
<1>7. \A n \in 1 .. Len(Recency[j]) : Recency'[j][n] = Recency[j][n]
  BY <1>5, <1>6
<1> QED
  BY <1>6, <1>7, SeqEqual

(* A use of a filled line moves its place to the end.                      *)
LEMMA MovesToEnd ==
  ASSUME CacheInv, CacheInv', NEW b \in Block, NEW line \in Line,
         Uses(b, line), NEW i \in SetIndex, i = Index(b), line \in Filled(i)
  PROVE  /\ Recency'[i] \in Seq(Nat) /\ Len(Recency'[i]) = Len(Recency[i])
         /\ \A n \in 1 .. Len(Recency[i]) :
              Recency'[i][n] = IF n < Place(i, line) THEN Recency[i][n]
                               ELSE IF n < Len(Recency[i]) THEN Recency[i][n + 1]
                               ELSE b
<1> DEFINE k == Cardinality(Filled(i))
<1>1. /\ SetIndex' = SetIndex /\ way' = way /\ way \in Nat \ {0}
      /\ Filled(i)' = Filled(i) /\ Filled(i) \subseteq Line
      /\ \A l \in Filled(i) :
           BlockOf(i, l)' = IF l = line THEN b ELSE BlockOf(i, l)
  BY FilledAfter
<1>2. InPlace(i) /\ InPlace(i)'
  BY <1>1, PlaceOfLine, PlaceOfLineNext
<1>3. k \in 0 .. way /\ Len(Recency[i]) = k /\ Len(Recency'[i]) = k
  BY <1>1, <1>2 DEF InPlace
<1>4. \A l \in Filled(i) : l \in Lines(i) /\ lru_count[l] \in Nat
  BY <1>1 DEF Filled, CacheInv, CacheTypeOK
<1>5. \A l \in Filled(i) :
        Place(i, l)' = IF l = line THEN k
                       ELSE IF Place(i, l) > Place(i, line) THEN Place(i, l) - 1
                       ELSE Place(i, l)
  <2>1. /\ lru_count'[line] = way - 1
        /\ \A l \in Filled(i) : l # line =>
             lru_count'[l] = IF lru_count[l] > lru_count[line]
                             THEN lru_count[l] - 1 ELSE lru_count[l]
    BY <1>1, <1>4, CountsAfter DEF CacheInv
  <2> QED
    BY <1>1, <1>3, <1>4, <2>1 DEF Place, Room
<1>6. ASSUME NEW n \in 1 .. k
      PROVE  Recency'[i][n] = IF n < Place(i, line) THEN Recency[i][n]
                              ELSE IF n < k THEN Recency[i][n + 1] ELSE b
  <2>1. PICK l \in Filled(i) : Place(i, l)' = n
    BY <1>1, <1>2 DEF InPlace
  <2>2. Recency'[i][n] = IF l = line THEN b ELSE BlockOf(i, l)
    BY <1>1, <1>2, <2>1 DEF InPlace
  <2>3. /\ Place(i, l) \in 1 .. k /\ Place(i, line) \in 1 .. k
        /\ Recency[i][Place(i, l)] = BlockOf(i, l)
    BY <1>2 DEF InPlace
  <2>4. Place(i, l) = Place(i, line) => l = line
    BY LineOfPlace
  <2>5. n = IF l = line THEN k
            ELSE IF Place(i, l) > Place(i, line) THEN Place(i, l) - 1
            ELSE Place(i, l)
    BY <1>5, <2>1
  <2> QED
    BY <1>3, <2>2, <2>3, <2>4, <2>5
<1> QED
  BY <1>2, <1>3, <1>6 DEF InPlace

(* A line that was free comes in at the end.                               *)
LEMMA ComesInLast ==
  ASSUME CacheInv, CacheInv', NEW b \in Block, NEW line \in Line,
         Uses(b, line), NEW i \in SetIndex, i = Index(b), ~ Valid(line)
  PROVE  Recency'[i] = Append(Recency[i], b) /\ Len(Recency[i]) < way
<1> DEFINE k == Cardinality(Filled(i))
<1>1. /\ SetIndex' = SetIndex /\ way' = way /\ way \in Nat \ {0}
      /\ Filled(i)' = Filled(i) \cup {line} /\ Filled(i) \subseteq Line
      /\ \A l \in Filled(i)' :
           BlockOf(i, l)' = IF l = line THEN b ELSE BlockOf(i, l)
      /\ line \in Lines(i) /\ b \in Nat
  BY FilledAfter, CacheAssumption
<1>2. InPlace(i) /\ InPlace(i)'
  BY <1>1, PlaceOfLine, PlaceOfLineNext
<1>3. line \notin Filled(i)
  BY DEF Filled
<1>4. Cardinality(Filled(i)') = k + 1 /\ k \in 0 .. way - 1
  <2>1. IsFiniteSet(Filled(i))
    BY LinesOfSet, FS_Subset DEF Filled, CacheInv, CacheTypeOK
  <2>2. Cardinality(Filled(i)') = k + 1
    BY <1>1, <1>3, <2>1, FS_AddElement
  <2> QED
    BY <1>1, <1>2, <2>2 DEF InPlace
<1>5. \A l \in Filled(i) : Place(i, l)' = Place(i, l) /\ Place(i, l) \in 1 .. k
  <2>1. lru_count[line] = 0
    BY DEF CacheInv, LruRanks
  <2>2. \A l \in Filled(i) : l # line /\ l \in Lines(i) /\ lru_count[l] \in Nat
    BY <1>1, <1>3 DEF Filled, CacheInv, CacheTypeOK
  <2>3. \A l \in Filled(i) : Place(i, l) \in 1 .. k
    BY <1>2 DEF InPlace
  <2>4. \A l \in Filled(i) : lru_count[l] > 0
    BY <1>1, <1>4, <2>2, <2>3 DEF Place, Room
  <2>5. \A l \in Filled(i) : lru_count'[l] = lru_count[l] - 1
    BY <1>1, <2>1, <2>2, <2>4, CountsAfter DEF CacheInv
  <2> QED
    BY <1>1, <1>4, <2>2, <2>3, <2>5 DEF Place, Room
<1>6. Place(i, line)' = k + 1
  <2>1. lru_count'[line] = way - 1
    BY CountsAfter DEF CacheInv
  <2> QED
    BY <1>1, <1>4, <2>1 DEF Place, Room
<1>7. Recency'[i][k + 1] = b
  BY <1>1, <1>2, <1>6 DEF InPlace
<1>8. ASSUME NEW n \in 1 .. k PROVE Recency'[i][n] = Recency[i][n]
  <2>1. PICK l \in Filled(i) : Place(i, l) = n
    BY <1>2 DEF InPlace
  <2> QED
    BY <1>1, <1>2, <1>3, <1>5, <2>1 DEF InPlace
<1>9. /\ Recency[i] \in Seq(Nat) /\ Len(Recency[i]) = k
      /\ Recency'[i] \in Seq(Nat) /\ Len(Recency'[i]) = k + 1
  BY <1>1, <1>2, <1>4 DEF InPlace
<1>10. /\ Append(Recency[i], b) \in Seq(Nat)
       /\ Len(Append(Recency[i], b)) = k + 1
       /\ \A n \in 1 .. k : Append(Recency[i], b)[n] = Recency[i][n]
       /\ Append(Recency[i], b)[k + 1] = b
  BY <1>1, <1>9, AppendProperties
<1>11. \A n \in 1 .. k + 1 : Recency'[i][n] = Append(Recency[i], b)[n]
  BY <1>4, <1>7, <1>8, <1>10
<1>12. Recency'[i] = Append(Recency[i], b)
  BY <1>9, <1>10, <1>11, SeqEqual
<1> QED
  BY <1>1, <1>4, <1>9, <1>12

(* A use changes Recency in the set of the block only.                     *)
LEMMA RecencyAfter ==
  ASSUME CacheInv, CacheInv', NEW b \in Block, NEW line \in Line,
         Uses(b, line)
  PROVE  Recency' = [Recency EXCEPT ![Index(b)] = Recency'[Index(b)]]
<1>1. Index(b) \in SetIndex /\ SetIndex' = SetIndex
  BY FilledAfter
<1>2. \A j \in SetIndex : j # Index(b) => Recency'[j] = Recency[j]
  BY OtherSets
<1>3. /\ Recency = [j \in SetIndex |-> Recency[j]]
      /\ Recency' = [j \in SetIndex |-> Recency'[j]]
  <2>1. Recency = [j \in SetIndex |->
                    [n \in 1 .. Cardinality(Filled(j)) |->
                       BlockOf(j, FilledLine(j, n))]]
    BY DEF Recency, SetIndex
  <2>2. Recency' = [j \in SetIndex' |->
                     [n \in 1 .. Cardinality(Filled(j)') |->
                        BlockOf(j, FilledLine(j, n))']]
    BY DEF Recency, SetIndex
  <2> QED
    BY <1>1, <2>1, <2>2
<1> QED
  BY <1>1, <1>2, <1>3

(* The sequence without its n-th element, and another at the end.          *)
LEMMA TouchShape ==
  ASSUME NEW S, NEW q \in Seq(S), NEW n \in 1 .. Len(q), NEW x \in S,
         NEW t \in Seq(S), Len(t) = Len(q),
         \A m \in 1 .. Len(q) : t[m] = IF m < n THEN q[m]
                                      ELSE IF m < Len(q) THEN q[m + 1] ELSE x
  PROVE  t = Append(SubSeq(q, 1, n - 1) \o SubSeq(q, n + 1, Len(q)), x)
<1>1. Len(q) \in Nat /\ n \in Nat /\ \A m \in 1 .. Len(q) : q[m] \in S
  BY LenProperties, ElementOfSeq
<1>2. PICK front : front = SubSeq(q, 1, n - 1)
  OBVIOUS
<1>3. PICK back : back = SubSeq(q, n + 1, Len(q))
  OBVIOUS
<1>4. /\ front \in Seq(S) /\ Len(front) = n - 1
      /\ \A m \in 1 .. n - 1 : front[m] = q[m]
  <2>1. \A m \in 1 .. n - 1 : q[m] \in S
    BY <1>1
  <2>2. /\ front \in Seq(S)
        /\ Len(front) = IF 1 <= n - 1 THEN n - 1 - 1 + 1 ELSE 0
        /\ \A m \in 1 .. n - 1 - 1 + 1 : front[m] = q[1 + m - 1]
    BY <1>1, <1>2, <2>1, SubSeqProperties
  <2> QED
    BY <1>1, <2>2
<1>5. /\ back \in Seq(S) /\ Len(back) = Len(q) - n
      /\ \A m \in 1 .. Len(q) - n : back[m] = q[n + m]
  <2>1. \A m \in n + 1 .. Len(q) : q[m] \in S
    BY <1>1
  <2>2. /\ back \in Seq(S)
        /\ Len(back) = IF n + 1 <= Len(q) THEN Len(q) - (n + 1) + 1 ELSE 0
        /\ \A m \in 1 .. Len(q) - (n + 1) + 1 : back[m] = q[n + 1 + m - 1]
    BY <1>1, <1>3, <2>1, SubSeqProperties
  <2> QED
    BY <1>1, <2>2
<1>6. PICK rest : rest = front \o back
  OBVIOUS
<1>7. /\ rest \in Seq(S) /\ Len(rest) = Len(front) + Len(back)
      /\ \A m \in 1 .. Len(front) + Len(back) :
           rest[m] = IF m <= Len(front) THEN front[m] ELSE back[m - Len(front)]
  <2>1. front \in Seq(S) /\ back \in Seq(S)
    BY <1>4, <1>5
  <2> QED
    BY ONLY <1>6, <2>1, ConcatProperties
<1>8. Len(rest) = Len(q) - 1
  BY <1>1, <1>4, <1>5, <1>7
<1>9. \A m \in 1 .. Len(q) - 1 : rest[m] = IF m < n THEN q[m] ELSE q[m + 1]
  <2> SUFFICES ASSUME NEW m \in 1 .. Len(q) - 1
               PROVE  rest[m] = IF m < n THEN q[m] ELSE q[m + 1]
    OBVIOUS
  <2>1. CASE m < n
    <3>1. /\ m \in 1 .. Len(front) + Len(back) /\ m <= Len(front)
          /\ m \in 1 .. n - 1
      BY <1>1, <1>4, <1>5, <2>1
    <3>2. rest[m] = front[m]
      BY <1>7, <3>1, Zenon
    <3>3. front[m] = q[m]
      BY <1>4, <3>1, Zenon
    <3> QED
      BY <2>1, <3>2, <3>3, Zenon
  <2>2. CASE m >= n
    <3>1. m \in 1 .. Len(front) + Len(back) /\ ~ (m <= Len(front))
      BY <1>1, <1>4, <1>5, <2>2
    <3>2. rest[m] = back[m - Len(front)]
      BY <1>7, <3>1, Zenon
    <3>3. PICK j \in 1 .. Len(q) - n : j = m - Len(front) /\ n + j = m + 1
      BY <1>1, <1>4, <2>2
    <3>4. back[j] = q[n + j]
      BY <1>5
    <3>5. rest[m] = q[m + 1]
      BY <3>2, <3>3, <3>4, Zenon
    <3> QED
      BY <1>1, <2>2, <3>5
  <2> QED
    BY <1>1, <2>1, <2>2
<1>10. PICK r : r = Append(rest, x)
  OBVIOUS
<1>11. /\ r \in Seq(S) /\ Len(r) = Len(rest) + 1
       /\ \A m \in 1 .. Len(rest) : r[m] = rest[m]
       /\ r[Len(rest) + 1] = x
  BY <1>7, <1>10, AppendProperties
<1>12. \A m \in 1 .. Len(q) : r[m] = IF m < n THEN q[m]
                                   ELSE IF m < Len(q) THEN q[m + 1] ELSE x
  BY <1>1, <1>8, <1>9, <1>11
<1>13. Len(r) = Len(q)
  BY <1>1, <1>8, <1>11
<1>14. r = Append(SubSeq(q, 1, n - 1) \o SubSeq(q, n + 1, Len(q)), x)
  BY <1>2, <1>3, <1>6, <1>10, Zenon
<1>15. \A m \in 1 .. Len(t) : t[m] = r[m]
  BY <1>12
<1>16. t = r
  BY <1>11, <1>13, <1>15, SeqEqual
<1> QED
  BY <1>14, <1>16, Zenon

(* The tag and the set of a filled line are those of the block it holds.   *)
LEMMA HoldsBlock ==
  ASSUME CacheInv, NEW i \in SetIndex, NEW l \in Filled(i), NEW c \in Block
  PROVE  BlockOf(i, l) = c <=> HitLine(c, l)
<1>1. /\ Sets \in Nat \ {0} /\ geometry \in Geometry /\ c \in Nat
      /\ \A t \in Tags : t \in Nat
  <2>1. Sets \in Nat \ {0} /\ geometry \in Geometry
    BY GeometryFacts DEF CacheInv, CacheTypeOK
  <2>2. \A d \in Block : d \in Nat
    BY CacheAssumption
  <2> QED
    BY <2>1, <2>2 DEF Tags, Tag
<1>2. /\ l \in Line /\ l \in Lines(i) /\ Valid(l) /\ i \in 0 .. Sets - 1
      /\ tagarray[l] \in Nat
  BY <1>1, LineOfPlace DEF Filled, SetIndex, CacheInv, CacheTypeOK
<1>3. /\ Index(c) \in 0 .. Sets - 1 /\ Tag(c) \in Nat
      /\ c = Tag(c) * Sets + Index(c)
  BY <1>1 DEF Index, Tag
<1>4. HitLine(c, l) <=> Index(c) = i /\ tagarray[l] = Tag(c)
  <2>1. l \in Lines(Index(c)) <=> Index(c) = i
    BY <1>1, <1>2, <1>3, SetsDisjoint DEF SetIndex
  <2> QED
    BY <1>2, <2>1 DEF HitLine
<1>5. ASSUME NEW s \in Nat, NEW t \in Nat, s < t,
             NEW m \in 0 .. Sets - 1, NEW n \in 0 .. Sets - 1
      PROVE  s * Sets + m # t * Sets + n
  <2>1. s + 1 \in Nat /\ s + 1 <= t /\ Sets \in Nat
    BY <1>1, <1>5
  <2>2. (s + 1) * Sets <= t * Sets
    BY <2>1, Monotone
  <2>3. s * Sets \in Nat /\ t * Sets \in Nat /\ (s + 1) * Sets = s * Sets + Sets
    BY <2>1
  <2>4. \A x, y \in Nat : x + Sets <= y => x + m # y + n
    BY <1>1
  <2> QED
    BY <2>2, <2>3, <2>4
<1>6. tagarray[l] * Sets + i = Tag(c) * Sets + Index(c)
        <=> Index(c) = i /\ tagarray[l] = Tag(c)
  <2>1. CASE tagarray[l] = Tag(c)
    <3>1. /\ Tag(c) * Sets \in Nat
          /\ tagarray[l] * Sets = Tag(c) * Sets
      BY <1>1, <1>3, <2>1
    <3> DEFINE base == Tag(c) * Sets
    <3>2. base \in Nat /\ tagarray[l] * Sets = base
      BY <3>1
    <3>3. base + i = base + Index(c) <=> Index(c) = i
      <4> HIDE DEF base
      <4> QED
        BY <1>2, <1>3, <3>2
    <3> QED
      BY <2>1, <3>1, <3>3, Zenon
  <2>2. CASE tagarray[l] < Tag(c)
    BY <1>2, <1>3, <1>5, <2>2
  <2>3. CASE tagarray[l] > Tag(c)
    BY <1>2, <1>3, <1>5, <2>3
  <2> QED
    BY <1>2, <1>3, <2>1, <2>2, <2>3
<1> QED
  BY <1>3, <1>4, <1>6 DEF BlockOf

(* A block is resident when a line holds it.                               *)
LEMMA ResidentIsHit ==
  ASSUME CacheInv, NEW b \in Block
  PROVE  /\ Abstract!SetOf(b) = Index(b)
         /\ Abstract!Resident(b) <=> IsHit(b)
<1>1. Index(b) \in SetIndex /\ Abstract!SetOf(b) = Index(b)
  BY BlockIsTagAndIndex
     DEF CacheInv, CacheTypeOK, Abstract!SetOf, Abstract!Sets, Index, Sets
<1>2. InPlace(Index(b)) /\ Filled(Index(b)) \subseteq Line
  BY <1>1, PlaceOfLine, LineOfPlace
<1>3. IsHit(b) <=> \E l \in Filled(Index(b)) : BlockOf(Index(b), l) = b
  BY <1>1, <1>2, HoldsBlock DEF IsHit, HitLine, Filled
<1>4. (\E n \in DOMAIN Recency[Index(b)] : Recency[Index(b)][n] = b)
        <=> \E l \in Filled(Index(b)) : BlockOf(Index(b), l) = b
  BY <1>2 DEF InPlace
<1> QED
  BY <1>1, <1>3, <1>4 DEF Abstract!Resident, Abstract!ToSet

-----------------------------------------------------------------------------
(* A filled line holds a block of the program.                             *)
Held == \A i \in SetIndex : \A l \in Filled(i) : BlockOf(i, l) \in Block

LEMMA HeldAfter ==
  ASSUME CacheInv, Held, NEW b \in Block, NEW line \in Line, Uses(b, line)
  PROVE  Held'
<1>1. SetIndex' = SetIndex
  BY FilledAfter
<1>2. SUFFICES ASSUME NEW j \in SetIndex, NEW l \in Filled(j)'
               PROVE  BlockOf(j, l)' \in Block
  BY <1>1 DEF Held
<1>3. /\ l = line => j = Index(b)
      /\ BlockOf(j, l)' = IF l = line THEN b ELSE BlockOf(j, l)
      /\ l # line => l \in Filled(j)
  BY <1>2, FilledAfter
<1> QED
  BY <1>3 DEF Held

(* Which block a line holds, once it is used.                              *)
LEMMA OneBlock ==
  ASSUME CacheInv, NEW b \in Block, NEW c \in Block, NEW l \in Line,
         HitLine(b, l), HitLine(c, l)
  PROVE  b = c
<1>1. geometry \in Geometry /\ Index(b) \in SetIndex /\ Index(c) \in SetIndex
  BY BlockIsTagAndIndex DEF CacheInv, CacheTypeOK
<1>2. Index(b) = Index(c) /\ Tag(b) = Tag(c)
  BY <1>1, SetsDisjoint DEF HitLine
<1> QED
  BY <1>1, <1>2, BlockIsTagAndIndex

(* A hit is a Find.                                                        *)
LEMMA HitFinds ==
  ASSUME CacheInv, CacheInv', UNCHANGED geometry, NEW b \in Block,
         NEW rwtype \in RwType, Hit(b, rwtype)
  PROVE  Abstract!Find(b, rwtype = "CACHE_WRITE")
<1>1. PICK line \in Line :
        /\ HitLine(b, line)
        /\ UpdateLru(Index(b), line)
        /\ latency' = IF ~ writeback /\ rwtype = "CACHE_WRITE"
                      THEN penalty ELSE 1
        /\ state' = IF rwtype = "CACHE_WRITE"
                    THEN [state EXCEPT ![line] = @ \cup {"MODIFIED"}] ELSE state
        /\ tagarray' = tagarray
  BY DEF Hit
<1>2. CacheTypeOK /\ NoDuplicate
  BY DEF CacheInv
<1>3. Uses(b, line)
  <2>1. PICK k \in Line : Uses(b, k) /\ HitLine(b, k)
    BY <1>2, HitUses
  <2>2. k = line
    BY <1>1, <1>2, <2>1 DEF NoDuplicate
  <2> QED
    BY <2>1, <2>2
<1>4. PICK i \in SetIndex : i = Index(b) /\ line \in Filled(i)
  BY <1>1, <1>2, BlockIsTagAndIndex DEF CacheTypeOK, HitLine, Filled
<1>5. /\ Recency[i] \in Seq(Nat) /\ DOMAIN Recency[i] = 1 .. Len(Recency[i])
      /\ Place(i, line) \in 1 .. Len(Recency[i])
      /\ Recency[i][Place(i, line)] = b
  <2>1. InPlace(i) /\ BlockOf(i, line) = b
    BY <1>1, <1>4, PlaceOfLine, HoldsBlock
  <2> QED
    BY <1>4, <2>1 DEF InPlace
<1>6. Recency' = [Recency EXCEPT
                    ![i] = Abstract!Touch(Recency[i], Place(i, line))]
  <2>1. b \in Nat
    BY CacheAssumption
  <2>2. PICK q : q = Recency[i]
    OBVIOUS
  <2>3. PICK t : t = Recency'[i]
    OBVIOUS
  <2>4. PICK n : n = Place(i, line)
    OBVIOUS
  <2>5. /\ t \in Seq(Nat) /\ Len(t) = Len(q)
        /\ \A m \in 1 .. Len(q) :
             t[m] = IF m < n THEN q[m]
                    ELSE IF m < Len(q) THEN q[m + 1] ELSE b
    <3>1. /\ Recency'[i] \in Seq(Nat) /\ Len(Recency'[i]) = Len(Recency[i])
          /\ \A m \in 1 .. Len(Recency[i]) :
               Recency'[i][m] = IF m < Place(i, line) THEN Recency[i][m]
                                ELSE IF m < Len(Recency[i])
                                THEN Recency[i][m + 1] ELSE b
      BY <1>3, <1>4, MovesToEnd
    <3> QED
      BY <2>2, <2>3, <2>4, <3>1, Zenon
  <2>6. q \in Seq(Nat) /\ n \in 1 .. Len(q) /\ q[n] = b
    BY <1>5, <2>2, <2>4
  <2>7. t = Append(SubSeq(q, 1, n - 1) \o SubSeq(q, n + 1, Len(q)), b)
    BY <2>1, <2>5, <2>6, TouchShape, Zenon
  <2>8. t = Abstract!Touch(q, n)
    BY <2>6, <2>7, Zenon DEF Abstract!Touch, Abstract!RemoveAt
  <2>9. Recency' = [Recency EXCEPT ![i] = Recency'[i]]
    BY <1>3, <1>4, RecencyAfter
  <2> QED
    BY <2>2, <2>3, <2>4, <2>8, <2>9, Zenon
<1>7. Dirty' = IF rwtype = "CACHE_WRITE" THEN Dirty \cup {b} ELSE Dirty
  <2>1. Line' = Line
    BY <1>3, SameLines DEF Uses
  <2>2. \A c \in Block : \A l \in Line : HitLine(c, l)' <=> HitLine(c, l)
    BY <1>1, <1>2, <1>3, ResidentAfter, OneBlock
  <2>3. \A l \in Line : "MODIFIED" \in state'[l] <=>
          "MODIFIED" \in state[l] \/ (rwtype = "CACHE_WRITE" /\ l = line)
    BY <1>1, <1>2 DEF CacheTypeOK
  <2>4. \A c \in Block : c \in Dirty' <=>
          c \in Dirty \/ (rwtype = "CACHE_WRITE" /\ c = b)
    <3>1. \A c \in Block : HitLine(c, line) <=> c = b
      BY <1>1, OneBlock
    <3> QED
      BY <2>1, <2>2, <2>3, <3>1 DEF Dirty
  <2>5. Dirty \subseteq Block /\ Dirty' \subseteq Block
    BY DEF Dirty
  <2> QED
    BY <2>4, <2>5
<1>8. Abstract!SetOf(b) = i /\ Abstract!Resident(b)
  BY <1>1, <1>4, ResidentIsHit DEF IsHit
<1>9. latency' = IF rwtype = "CACHE_WRITE" /\ ~ Abstract!writeback
                 THEN penalty ELSE 1
  BY <1>1 DEF Abstract!writeback, writeback
<1> QED
  BY <1>5, <1>6, <1>7, <1>8, <1>9 DEF Abstract!Find

(* What a miss makes of the modified blocks: the one in the line leaves.   *)
LEMMA DirtyAfterInstall ==
  ASSUME CacheInv, UNCHANGED geometry, NEW b \in Block, NEW rwtype \in RwType,
         NEW line \in Line, line \in Lines(Index(b)), Install(b, line, rwtype)
  PROVE  Dirty' = {c \in Dirty : ~ HitLine(c, line)}
                    \cup (IF rwtype = "CACHE_WRITE" THEN {b} ELSE {})
<1>1. CacheTypeOK /\ NoDuplicate
  BY DEF CacheInv
<1>2. Uses(b, line) /\ Line' = Line
  BY <1>1, InstallUses, SameLines
<1>3. \A c \in Block : \A l \in Line :
        HitLine(c, l)' <=> IF l = line THEN c = b ELSE HitLine(c, l)
  BY <1>1, <1>2, ResidentAfter
<1>4. \A l \in Line : "MODIFIED" \in state'[l] <=>
        IF l = line THEN rwtype = "CACHE_WRITE" ELSE "MODIFIED" \in state[l]
  BY <1>1 DEF CacheTypeOK, Install
<1>5. \A c \in Block : c \in Dirty' <=>
        \/ rwtype = "CACHE_WRITE" /\ c = b
        \/ \E l \in Line : l # line /\ HitLine(c, l) /\ "MODIFIED" \in state[l]
  BY <1>2, <1>3, <1>4 DEF Dirty
<1>6. \A c \in Block :
        (\E l \in Line : l # line /\ HitLine(c, l) /\ "MODIFIED" \in state[l])
          <=> c \in Dirty /\ ~ HitLine(c, line)
  BY <1>1 DEF Dirty, NoDuplicate
<1>7. Dirty \subseteq Block /\ Dirty' \subseteq Block
  BY DEF Dirty
<1> QED
  BY <1>5, <1>6, <1>7

(* Filling a free line brings the block in and evicts nothing.             *)
LEMMA FillBringsIn ==
  ASSUME CacheInv, CacheInv', UNCHANGED geometry, NEW b \in Block,
         NEW rwtype \in RwType, Fill(b, rwtype)
  PROVE  Abstract!BringIn(b, rwtype = "CACHE_WRITE")
<1>1. PICK line \in Line :
        /\ Allocates(b, rwtype) /\ EmptyLine(Index(b), line)
        /\ latency' = penalty /\ Install(b, line, rwtype)
  BY DEF Fill
<1>2. line \in Lines(Index(b)) /\ ~ Valid(line) /\ Uses(b, line)
  BY <1>1, InstallUses DEF EmptyLine, CacheInv
<1>3. PICK i \in SetIndex : i = Index(b) /\ i = Abstract!SetOf(b)
  BY BlockIsTagAndIndex, ResidentIsHit DEF CacheInv, CacheTypeOK
<1>4. ~ Abstract!Resident(b) /\ (rwtype = "CACHE_WRITE" => Abstract!writeback)
  BY <1>1, ResidentIsHit
     DEF Allocates, Abstract!writeback, writeback, RwType
<1>5. /\ Recency'[i] = Append(Recency[i], b) /\ Len(Recency[i]) < way
      /\ Recency' = [Recency EXCEPT ![i] = Recency'[i]]
  BY <1>2, <1>3, ComesInLast, RecencyAfter
<1>6. Abstract!Evicted(i) = {}
  <2>1. way \in Nat /\ Len(Recency[i]) \in Nat
    BY PlaceOfLine, GeometryFacts DEF InPlace, CacheInv, CacheTypeOK
  <2>2. Len(Recency[i]) # geometry.way
    BY <1>5, <2>1 DEF way
  <2> QED
    BY <2>2 DEF Abstract!Evicted
<1>7. Dirty' = Dirty \cup (IF rwtype = "CACHE_WRITE" THEN {b} ELSE {})
  <2>1. \A c : ~ HitLine(c, line)
    BY <1>2 DEF HitLine
  <2> QED
    BY <1>1, <1>2, <2>1, DirtyAfterInstall
<1> QED
  BY <1>1, <1>3, <1>4, <1>5, <1>6, <1>7, Zenon DEF Abstract!BringIn

(* The first element leaves and another comes in at the end.               *)
LEMMA TailShape ==
  ASSUME NEW S, NEW q \in Seq(S), Len(q) # 0, NEW x \in S,
         NEW t \in Seq(S), Len(t) = Len(q),
         \A m \in 1 .. Len(q) : t[m] = IF m < Len(q) THEN q[m + 1] ELSE x
  PROVE  t = Append(Tail(q), x) /\ Head(q) = q[1]
<1>1. q # <<>> /\ Len(q) \in Nat
  BY LenProperties, EmptySeq
<1>2. PICK rest : rest = Tail(q)
  OBVIOUS
<1>3. /\ rest \in Seq(S) /\ Len(rest) = Len(q) - 1
      /\ \A m \in 1 .. Len(rest) : rest[m] = q[m + 1]
  BY <1>1, <1>2, HeadTailProperties
<1>4. PICK r : r = Append(rest, x)
  OBVIOUS
<1>5. /\ r \in Seq(S) /\ Len(r) = Len(rest) + 1
      /\ \A m \in 1 .. Len(rest) : r[m] = rest[m]
      /\ r[Len(rest) + 1] = x
  <2>1. rest \in Seq(S)
    BY <1>3
  <2> QED
    BY ONLY x \in S, <1>4, <2>1, AppendProperties
<1>6. ASSUME NEW m \in 1 .. Len(t) PROVE t[m] = r[m]
  <2>1. t[m] = IF m < Len(q) THEN q[m + 1] ELSE x
    OBVIOUS
  <2>2. r[m] = IF m < Len(q) THEN q[m + 1] ELSE x
    BY ONLY Len(t) = Len(q), m \in 1 .. Len(t), <1>1, <1>3, <1>5
  <2> QED
    BY <2>1, <2>2
<1>7. t = r
  BY <1>1, <1>3, <1>5, <1>6, SeqEqual
<1>8. Head(q) = q[1]
  <2>1. 1 \in 1 .. Len(q) /\ Len(q) \in 1 .. Len(q)
    BY <1>1
  <2>2. Head(SubSeq(q, 1, Len(q))) = q[1]
    BY ONLY q \in Seq(S), <2>1, HeadTailOfSubSeq
  <2> QED
    BY <2>2, SubSeqFull, Zenon
<1> QED
  BY <1>2, <1>4, <1>7, <1>8, Zenon

(***************************************************************************)
(* Replacing a line of a full set: get_write_back_line finds the line in   *)
(* the first place, whose block leaves.                                    *)
(***************************************************************************)
LEMMA ReplaceBringsIn ==
  ASSUME CacheInv, CacheInv', Held, UNCHANGED geometry, NEW b \in Block,
         NEW rwtype \in RwType, Replace(b, rwtype)
  PROVE  Abstract!BringIn(b, rwtype = "CACHE_WRITE")
<1>1. PICK line \in Line :
        /\ Allocates(b, rwtype) /\ VictimLine(Index(b), line)
        /\ \A l \in Line : ~ EmptyLine(Index(b), l)
        /\ latency' = ReplaceTime(line) /\ Install(b, line, rwtype)
  BY DEF Replace
<1>2. PICK i \in SetIndex : i = Index(b) /\ i = Abstract!SetOf(b)
  BY BlockIsTagAndIndex, ResidentIsHit DEF CacheInv, CacheTypeOK
<1>3. /\ line \in Lines(i) /\ Uses(b, line)
      /\ Filled(i) = Lines(i) /\ line \in Filled(i)
      /\ Cardinality(Filled(i)) = way /\ way \in Nat \ {0}
      /\ geometry \in Geometry
  <2>1. geometry \in Geometry /\ CacheTypeOK
    BY DEF CacheInv, CacheTypeOK
  <2>2. line \in Lines(i) /\ Uses(b, line)
    BY <1>1, <1>2, <2>1, InstallUses DEF VictimLine
  <2>3. Filled(i) = Lines(i)
    BY <1>1, <1>2, <2>1, NoEmptyLine DEF Filled
  <2> QED
    BY <2>1, <2>2, <2>3, LinesOfSet, GeometryFacts
<1>4. Place(i, line) = 1
  <2>1. \A l \in Filled(i) : Place(i, l) = lru_count[l] + 1
                               /\ lru_count[l] \in Nat
    <3>1. Room(i) = 0 /\ Filled(i) \subseteq Line
      BY <1>3, LineOfPlace DEF Room
    <3> QED
      BY <3>1 DEF Place, CacheInv, CacheTypeOK
  <2>2. \E l \in Filled(i) : Place(i, l) = 1
    BY <1>3, LineOfPlace
  <2>3. \E l \in Lines(i) : lru_count[l] = 0
    BY <1>3, <2>1, <2>2
  <2>4. lru_count[line] = 0
    BY <1>1, <1>2, <2>3 DEF VictimLine
  <2> QED
    BY <1>3, <2>1, <2>4
<1>5. /\ Recency[i] \in Seq(Nat) /\ Len(Recency[i]) = way
      /\ Recency[i][1] = BlockOf(i, line)
      /\ BlockOf(i, line) \in Block /\ b \in Nat
  BY <1>3, <1>4, PlaceOfLine, CacheAssumption DEF InPlace, Held
<1>6. /\ Recency'[i] = Append(Tail(Recency[i]), b)
      /\ Head(Recency[i]) = BlockOf(i, line)
      /\ Recency' = [Recency EXCEPT ![i] = Recency'[i]]
  <2>1. PICK q : q = Recency[i]
    OBVIOUS
  <2>2. PICK t : t = Recency'[i]
    OBVIOUS
  <2>3. /\ t \in Seq(Nat) /\ Len(t) = Len(q)
        /\ \A m \in 1 .. Len(q) : t[m] = IF m < Len(q) THEN q[m + 1] ELSE b
    <3>1. /\ Recency'[i] \in Seq(Nat) /\ Len(Recency'[i]) = Len(Recency[i])
          /\ \A m \in 1 .. Len(Recency[i]) :
               Recency'[i][m] = IF m < Place(i, line) THEN Recency[i][m]
                                ELSE IF m < Len(Recency[i])
                                THEN Recency[i][m + 1] ELSE b
      <4>1. Uses(b, line) /\ i = Index(b) /\ line \in Filled(i)
        BY <1>2, <1>3
      <4> QED
        BY <4>1, MovesToEnd
    <3>2. \A m \in 1 .. Len(q) : ~ (m < Place(i, line))
      BY <1>3, <1>4, <1>5, <2>1
    <3> QED
      BY <2>1, <2>2, <3>1, <3>2, Zenon
  <2>4. q \in Seq(Nat) /\ Len(q) # 0
    BY <1>3, <1>5, <2>1
  <2>5. t = Append(Tail(q), b) /\ Head(q) = q[1]
    BY <1>5, <2>3, <2>4, TailShape, Zenon
  <2>6. Recency' = [Recency EXCEPT ![i] = Recency'[i]]
    BY <1>2, <1>3, RecencyAfter
  <2> QED
    BY <1>5, <2>1, <2>2, <2>5, <2>6, Zenon
<1>7. Abstract!Evicted(i) = {BlockOf(i, line)}
  BY <1>5, <1>6, Zenon DEF Abstract!Evicted, way
<1>8. Dirty' = (Dirty \ {BlockOf(i, line)})
                 \cup (IF rwtype = "CACHE_WRITE" THEN {b} ELSE {})
  <2>1. \A c \in Dirty : HitLine(c, line) <=> c = BlockOf(i, line)
    BY <1>3, HoldsBlock DEF Dirty
  <2>2. {c \in Dirty : ~ HitLine(c, line)} = Dirty \ {BlockOf(i, line)}
    BY <2>1
  <2>3. line \in Lines(Index(b)) /\ Install(b, line, rwtype)
    BY <1>1, <1>2, <1>3
  <2> QED
    BY <2>2, <2>3, DirtyAfterInstall
<1>9. latency' = IF Abstract!writeback /\ {BlockOf(i, line)} \cap Dirty # {}
                 THEN 2 * penalty ELSE penalty
  <2>1. BlockOf(i, line) \in Dirty <=> "MODIFIED" \in state[line]
    <3>1. HitLine(BlockOf(i, line), line)
      BY <1>3, <1>5, HoldsBlock
    <3> QED
      BY <1>5, <3>1 DEF Dirty, CacheInv, NoDuplicate
  <2> QED
    BY <1>1, <2>1 DEF ReplaceTime, Abstract!writeback, writeback
<1>10. ~ Abstract!Resident(b) /\ (rwtype = "CACHE_WRITE" => Abstract!writeback)
  BY <1>1, ResidentIsHit
     DEF Allocates, Abstract!writeback, writeback, RwType
<1>11. Abstract!Evicted(i) # {}
  BY <1>7
<1> QED
  BY <1>2, <1>6, <1>7, <1>8, <1>9, <1>10, <1>11, Zenon DEF Abstract!BringIn

(* What depends on the lines alone.                                        *)
LEMMA SameRecency ==
  ASSUME UNCHANGED geometry, UNCHANGED lineVars
  PROVE  Recency' = Recency /\ Dirty' = Dirty /\ (Held => Held')
<1>1. /\ Sets' = Sets /\ way' = way /\ Line' = Line /\ SetIndex' = SetIndex
      /\ \A i : Lines(i)' = Lines(i)
      /\ \A b : Index(b)' = Index(b) /\ Tag(b)' = Tag(b)
      /\ state' = state /\ tagarray' = tagarray /\ lru_count' = lru_count
  BY SameLines DEF lineVars
<1>2. /\ \A i : Filled(i)' = Filled(i)
      /\ \A i, l : BlockOf(i, l)' = BlockOf(i, l)
      /\ \A b, l : HitLine(b, l)' <=> HitLine(b, l)
  BY <1>1, Zenon DEF Filled, Valid, BlockOf, HitLine
<1>3. Dirty' = Dirty /\ (Held => Held')
  BY <1>1, <1>2 DEF Dirty, Held
<1>4. \A i, n : FilledLine(i, n)' = FilledLine(i, n)
  BY <1>1, <1>2, Zenon DEF FilledLine
<1>5. Recency' = Recency
  BY <1>1, <1>2, <1>4, Zenon DEF Recency
<1> QED
  BY <1>3, <1>5

(* An empty cache has no lines in use.                                     *)
LEMMA LruInit == CacheInit => Abstract!Init /\ Held
<1> SUFFICES ASSUME CacheInit PROVE Abstract!Init /\ Held
  OBVIOUS
<1>1. CacheInv
  BY InvInit
<1>2. \A i : Filled(i) = {}
  BY DEF CacheInit, Filled, Valid, Lines
<1>3. \A i \in SetIndex : Recency[i] = <<>>
  <2> SUFFICES ASSUME NEW i \in SetIndex PROVE Recency[i] = <<>>
    OBVIOUS
  <2>1. Recency[i] \in Seq(Nat) /\ Len(Recency[i]) = 0
    BY <1>1, <1>2, PlaceOfLine, FS_EmptySet DEF InPlace
  <2> QED
    BY <2>1, EmptySeq
<1>4. Recency = [i \in 0 .. Sets - 1 |-> <<>>]
  BY <1>3 DEF Recency, SetIndex
<1>5. Dirty = {}
  BY DEF Dirty, HitLine, Valid, CacheInit
<1> QED
  BY <1>2, <1>4, <1>5 DEF Abstract!Init, CacheInit, Held, Abstract!Sets, Sets

(* Every access is a step of the abstract cache, with its latency.         *)
LEMMA LruAccess ==
  ASSUME CacheInv, CacheInv', Held, NEW b \in Block, NEW rwtype \in RwType,
         Access(b, rwtype)
  PROVE  Abstract!Next /\ Held'
<1>1. UNCHANGED geometry /\ (rwtype = "CACHE_WRITE") \in BOOLEAN
  BY DEF Access
<1>2. CASE Hit(b, rwtype)
  <2>1. Held'
    BY <1>1, <1>2, HitUses, HeldAfter DEF CacheInv
  <2>2. Abstract!Find(b, rwtype = "CACHE_WRITE")
    BY <1>1, <1>2, HitFinds
  <2> QED
    BY <1>1, <2>1, <2>2 DEF Abstract!Next
<1>3. CASE WriteAround(b, rwtype)
  <2>1. /\ ~ IsHit(b) /\ ~ writeback /\ rwtype = "CACHE_WRITE"
        /\ latency' = penalty /\ UNCHANGED lineVars
    BY <1>3 DEF WriteAround
  <2>2. Recency' = Recency /\ Dirty' = Dirty /\ Held'
    BY <1>1, <2>1, SameRecency
  <2>3. Abstract!Bypass(b)
    BY <2>1, <2>2, ResidentIsHit
       DEF Abstract!Bypass, Abstract!writeback, writeback
  <2> QED
    BY <1>1, <2>1, <2>2, <2>3 DEF Abstract!Next
<1>4. CASE Fill(b, rwtype)
  <2>1. Held'
    BY <1>1, <1>4, FillUses, HeldAfter DEF CacheInv
  <2>2. Abstract!BringIn(b, rwtype = "CACHE_WRITE")
    BY <1>1, <1>4, FillBringsIn
  <2> QED
    BY <1>1, <2>1, <2>2 DEF Abstract!Next
<1>5. CASE Replace(b, rwtype)
  <2>1. Held'
    BY <1>1, <1>5, ReplaceUses, HeldAfter DEF CacheInv
  <2>2. Abstract!BringIn(b, rwtype = "CACHE_WRITE")
    BY <1>1, <1>5, ReplaceBringsIn
  <2> QED
    BY <1>1, <2>1, <2>2 DEF Abstract!Next
<1> QED
  BY <1>2, <1>3, <1>4, <1>5 DEF Access

LEMMA LruStep ==
  CacheInv /\ CacheInv' /\ Held /\ [CacheNext]_cacheVars
    => [Abstract!Next]_(Abstract!vars) /\ Held'
<1> SUFFICES ASSUME CacheInv, CacheInv', Held, [CacheNext]_cacheVars
             PROVE  (Abstract!Next \/ UNCHANGED Abstract!vars) /\ Held'
  OBVIOUS
<1>1. CASE CacheNext
  BY <1>1, LruAccess DEF CacheNext
<1>2. CASE UNCHANGED cacheVars
  <2>1. UNCHANGED geometry /\ UNCHANGED lineVars /\ latency' = latency
    BY <1>2 DEF cacheVars
  <2> QED
    BY <2>1, SameRecency DEF Abstract!vars
<1> QED
  BY <1>1, <1>2

(***************************************************************************)
(* The line arrays with their counts are a true LRU cache: the right block *)
(* is evicted, a modified block is paid for when it leaves and only then,  *)
(* and Access returns the latency the configuration promises.              *)
(***************************************************************************)
THEOREM TrueLruCorrect == CacheSpec => TrueLru
<1>1. CacheInit => Abstract!Init /\ Held
  BY LruInit
<1>2. CacheInv /\ CacheInv' /\ Held /\ [CacheNext]_cacheVars
        => [Abstract!Next]_(Abstract!vars) /\ Held'
  BY LruStep
<1> QED
  BY <1>1, <1>2, InvAlways, PTL DEF CacheSpec, TrueLru, Abstract!Spec

=============================================================================
