---------------------------- MODULE MemoryProofs ----------------------------
(***************************************************************************)
(* Proofs about Memory, for every radix, page size, map and program: it    *)
(* implements the flat array of FlatMemory, and the program is where the   *)
(* linker put it when it starts.                                           *)
(*                                                                         *)
(* First the arithmetic of bytes in a word, then words in pages, bytes in  *)
(* the memory, the instructions, and last what siminit writes.             *)
(***************************************************************************)
EXTENDS MemoryFlat, WellFoundedInduction, SequenceTheorems, TLAPS

Byte == 0 .. Radix - 1

(* A word of four bytes, the least significant first.                      *)
Num(b0, b1, b2, b3) == b0 + Radix * (b1 + Radix * (b2 + Radix * b3))

LEMMA Powers ==
  /\ Radix \in Nat /\ Radix >= 2
  /\ Size(0) = 1 /\ Size(1) = Radix /\ Size(2) = Radix * Radix
  /\ Size(3) = Radix * (Radix * Radix)
  /\ Size(4) = Radix * (Radix * (Radix * Radix))
BY MemoryAssumption, RadixAssumption DEF Size

(* Division with remainder.                                                *)
LEMMA Divided ==
  ASSUME NEW q \in Nat, NEW b \in Nat \ {0}, NEW c \in 0 .. b - 1
  PROVE  (c + b * q) \div b = q /\ (c + b * q) % b = c
OBVIOUS

LEMMA Division ==
  ASSUME NEW w \in Nat, NEW b \in Nat \ {0}
  PROVE  /\ w = (w % b) + b * (w \div b)
         /\ w \div b \in Nat /\ w % b \in 0 .. b - 1
OBVIOUS

LEMMA Below ==
  ASSUME NEW w \in Nat, NEW b \in Nat \ {0}, NEW q \in Nat, w < b * q
  PROVE  w \div b < q
OBVIOUS

(* One digit more.                                                         *)
LEMMA Longer ==
  ASSUME NEW c \in Byte, NEW b \in Nat, NEW w \in 0 .. b - 1
  PROVE  c + Radix * w \in 0 .. Radix * b - 1
<1>1. Radix \in Nat /\ Radix >= 2 /\ c \in 0 .. Radix - 1
  BY Powers DEF Byte
<1>2. PICK d \in Nat : b = w + 1 + d
  <2>1. b - 1 - w \in Nat /\ b = w + 1 + (b - 1 - w)
    OBVIOUS
  <2> QED
    BY <2>1
<1> QED
  BY <1>1

(* What the shifts and masks of a word mean for its bytes.                 *)
LEMMA Digits ==
  ASSUME NEW w \in Word
  PROVE  \E b0, b1, b2, b3 \in Byte : w = Num(b0, b1, b2, b3)
<1>1. PICK R \in Nat \ {0} : R = Radix /\ R >= 2
  BY Powers
<1>2. w \in Nat /\ w < R * (R * (R * R))
  BY <1>1, Powers DEF Word
<1>3. R * (R * R) \in Nat /\ R * R \in Nat
  BY <1>1
<1>4. PICK w1 : w1 = w \div R
  OBVIOUS
<1>5. w1 \in Nat /\ w1 < R * (R * R) /\ w = (w % R) + R * w1
      /\ w % R \in 0 .. R - 1
  BY <1>2, <1>3, <1>4, Division, Below
<1>6. PICK w2 : w2 = w1 \div R
  OBVIOUS
<1>7. w2 \in Nat /\ w2 < R * R /\ w1 = (w1 % R) + R * w2
      /\ w1 % R \in 0 .. R - 1
  BY <1>3, <1>5, <1>6, Division, Below
<1>8. PICK w3 : w3 = w2 \div R
  OBVIOUS
<1>9. w3 \in Nat /\ w3 < R /\ w2 = (w2 % R) + R * w3
      /\ w2 % R \in 0 .. R - 1
  BY <1>3, <1>7, <1>8, Division, Below
<1>10. w3 \in Byte /\ w2 % R \in Byte /\ w1 % R \in Byte /\ w % R \in Byte
  BY <1>1, <1>5, <1>7, <1>9 DEF Byte
<1>11. w = Num(w % R, w1 % R, w2 % R, w3)
  BY <1>1, <1>5, <1>7, <1>9 DEF Num
<1> QED
  BY <1>10, <1>11

LEMMA NumParts ==
  ASSUME NEW b0 \in Byte, NEW b1 \in Byte, NEW b2 \in Byte, NEW b3 \in Byte,
         NEW w, w = Num(b0, b1, b2, b3)
  PROVE  /\ w \in Word
         /\ w \div Size(0) = w
         /\ w \div Size(1) = b1 + Radix * (b2 + Radix * b3)
         /\ w \div Size(2) = b2 + Radix * b3
         /\ w \div Size(3) = b3
         /\ w \div Size(4) = 0
         /\ w % Size(0) = 0
         /\ w % Size(1) = b0
         /\ w % Size(2) = b0 + Radix * b1
         /\ w % Size(3) = b0 + Radix * (b1 + Radix * b2)
         /\ w % Size(4) = w
<1>1. PICK R \in Nat \ {0} : R = Radix /\ R >= 2
  BY Powers
<1>2. /\ Size(0) = 1 /\ Size(1) = R /\ Size(2) = R * R
      /\ Size(3) = R * (R * R) /\ Size(4) = R * (R * (R * R))
  BY <1>1, Powers
<1>3. /\ R * R \in Nat \ {0} /\ R * (R * R) \in Nat \ {0}
      /\ R * (R * (R * R)) \in Nat \ {0}
  <2>1. \A x, y \in Nat \ {0} : x * y \in Nat \ {0}
    OBVIOUS
  <2> QED
    BY <1>1, <2>1
<1>4. b0 \in 0 .. R - 1 /\ b1 \in 0 .. R - 1 /\ b2 \in 0 .. R - 1
      /\ b3 \in 0 .. R - 1
  BY <1>1 DEF Byte
<1>5. PICK h2 : h2 = b2 + R * b3
  OBVIOUS
<1>6. PICK h1 : h1 = b1 + R * h2
  OBVIOUS
<1>7. PICK l2 : l2 = b0 + R * b1
  OBVIOUS
<1>8. PICK l3 : l3 = b0 + R * (b1 + R * b2)
  OBVIOUS
<1>9. h2 \in Nat /\ h1 \in Nat
  BY <1>4, <1>5, <1>6
<1>10. l2 \in 0 .. R * R - 1
  BY <1>1, <1>4, <1>7, Longer
<1>11. l3 \in 0 .. R * (R * R) - 1
  <2>1. b1 + R * b2 \in 0 .. R * R - 1
    BY <1>1, <1>4, Longer
  <2> QED
    BY <1>1, <1>3, <1>8, <2>1, Longer
<1>12. w = b0 + R * h1
  BY <1>1, <1>5, <1>6 DEF Num
<1>13. w = l2 + (R * R) * h2
  BY <1>4, <1>6, <1>7, <1>9, <1>12
<1>14. w = l3 + (R * (R * R)) * b3
  BY <1>4, <1>5, <1>6, <1>8, <1>12
<1>15. w \in Word
  <2>1. h2 \in 0 .. R * R - 1
    BY <1>1, <1>4, <1>5, Longer
  <2>2. h1 \in 0 .. R * (R * R) - 1
    BY <1>1, <1>3, <1>4, <1>6, <2>1, Longer
  <2>3. PICK m \in Nat : m = R * (R * R)
    BY <1>3
  <2>4. h1 \in 0 .. m - 1 /\ w = b0 + Radix * h1
    BY <1>1, <1>12, <2>2, <2>3
  <2>5. w \in 0 .. Radix * m - 1
    BY <2>4, Longer
  <2> QED
    BY <1>1, <1>2, <2>3, <2>5 DEF Word
<1>16. w \div R = h1 /\ w % R = b0
  <2>1. (b0 + R * h1) \div R = h1 /\ (b0 + R * h1) % R = b0
    BY <1>4, <1>9, Divided
  <2> QED
    BY <1>12, <2>1
<1>17. w \div (R * R) = h2 /\ w % (R * R) = l2
  BY <1>3, <1>9, <1>10, <1>13, Divided
<1>18. w \div (R * (R * R)) = b3 /\ w % (R * (R * R)) = l3
  <2>1. PICK m \in Nat \ {0} : m = R * (R * R)
    BY <1>3
  <2>2. l3 \in 0 .. m - 1 /\ w = l3 + m * b3 /\ b3 \in Nat
    BY <1>4, <1>11, <1>14, <2>1
  <2>3. (l3 + m * b3) \div m = b3 /\ (l3 + m * b3) % m = l3
    BY <2>2, Divided
  <2> QED
    BY <2>1, <2>2, <2>3
<1>19. w \in Nat /\ w < R * (R * (R * R))
  BY <1>2, <1>15 DEF Word
<1>20. w \div (R * (R * (R * R))) = 0 /\ w % (R * (R * (R * R))) = w
  BY <1>3, <1>19
<1>21. w \div 1 = w /\ w % 1 = 0
  BY <1>19
<1> QED
  BY <1>1, <1>2, <1>5, <1>6, <1>7, <1>8, <1>15, <1>16, <1>17, <1>18, <1>20,
     <1>21

(* The quotients, and the remainders, alone.                               *)
Quotients(w, b0, b1, b2, b3) ==
  /\ w \div Size(0) = w
  /\ w \div Size(1) = b1 + Radix * (b2 + Radix * b3)
  /\ w \div Size(2) = b2 + Radix * b3
  /\ w \div Size(3) = b3
  /\ w \div Size(4) = 0

Remainders(w, b0, b1, b2, b3) ==
  /\ w % Size(0) = 0
  /\ w % Size(1) = b0
  /\ w % Size(2) = b0 + Radix * b1
  /\ w % Size(3) = b0 + Radix * (b1 + Radix * b2)

LEMMA NumShifts ==
  ASSUME NEW b0 \in Byte, NEW b1 \in Byte, NEW b2 \in Byte, NEW b3 \in Byte,
         NEW w, w = Num(b0, b1, b2, b3)
  PROVE  Quotients(w, b0, b1, b2, b3) /\ Remainders(w, b0, b1, b2, b3)
BY NumParts DEF Quotients, Remainders

LEMMA NumBytes ==
  ASSUME NEW b0 \in Byte, NEW b1 \in Byte, NEW b2 \in Byte, NEW b3 \in Byte,
         NEW w, w = Num(b0, b1, b2, b3)
  PROVE  /\ Extract(w, 0, 1) = b0 /\ Extract(w, 1, 1) = b1
         /\ Extract(w, 2, 1) = b2 /\ Extract(w, 3, 1) = b3
         /\ Extract(w, 0, 2) = b0 + Radix * b1
         /\ Extract(w, 2, 2) = b2 + Radix * b3
<1>1. PICK R \in Nat \ {0} : R = Radix /\ R >= 2
  BY Powers
<1>2. Size(1) = R /\ Size(2) = R * R /\ R * R \in Nat \ {0}
  <2>1. \A x, y \in Nat \ {0} : x * y \in Nat \ {0}
    OBVIOUS
  <2> QED
    BY <1>1, <2>1, Powers
<1>3. b0 \in 0 .. R - 1 /\ b1 \in 0 .. R - 1 /\ b2 \in 0 .. R - 1
      /\ b3 \in 0 .. R - 1
  BY <1>1 DEF Byte
<1>4. \A c \in 0 .. R - 1, q \in Nat : (c + R * q) % R = c
  BY Divided
<1>5. Extract(w, 0, 1) = b0
  BY NumParts DEF Extract
<1>6. Extract(w, 1, 1) = b1
  <2>1. PICK q \in Nat : q = b2 + R * b3
    BY <1>3
  <2>2. w \div Size(1) = b1 + R * q
    BY <1>1, <2>1, NumParts
  <2> QED
    BY <1>2, <1>3, <1>4, <2>2 DEF Extract
<1>7. Extract(w, 2, 1) = b2
  <2>1. w \div Size(2) = b2 + R * b3 /\ b3 \in Nat
    BY <1>1, <1>3, NumParts
  <2> QED
    BY <1>2, <1>3, <1>4, <2>1 DEF Extract
<1>8. Extract(w, 3, 1) = b3
  <2>1. w \div Size(3) = b3
    BY NumParts
  <2>2. b3 % R = b3
    BY <1>3
  <2> QED
    BY <1>2, <2>1, <2>2 DEF Extract
<1>9. Extract(w, 0, 2) = b0 + Radix * b1
  BY NumParts DEF Extract
<1>10. Extract(w, 2, 2) = b2 + Radix * b3
  <2>1. b2 + R * b3 \in 0 .. R * R - 1
    BY <1>1, <1>3, Longer
  <2>2. \A m \in Nat \ {0} : \A x \in 0 .. m - 1 : x % m = x
    OBVIOUS
  <2> QED
    BY <1>1, <1>2, <2>1, <2>2, NumParts DEF Extract
<1> QED
  BY <1>5, <1>6, <1>7, <1>8, <1>9, <1>10

(* The four bytes of a number determine it.                                *)
LEMMA ByteFacts ==
  ASSUME NEW w \in Word
  PROVE  /\ w = Num(Extract(w, 0, 1), Extract(w, 1, 1), Extract(w, 2, 1),
                    Extract(w, 3, 1))
         /\ \A k \in 0 .. 3 : Extract(w, k, 1) \in Byte
<1>1. PICK b0, b1, b2, b3 \in Byte : w = Num(b0, b1, b2, b3)
  BY Digits
<1>2. /\ Extract(w, 0, 1) = b0 /\ Extract(w, 1, 1) = b1
      /\ Extract(w, 2, 1) = b2 /\ Extract(w, 3, 1) = b3
  BY <1>1, NumBytes
<1>3. \A k \in 0 .. 3 : k = 0 \/ k = 1 \/ k = 2 \/ k = 3
  OBVIOUS
<1> QED
  BY <1>1, <1>2, <1>3

(* A write of one byte, and of two.                                        *)
LEMMA InsertByte ==
  ASSUME NEW b0 \in Byte, NEW b1 \in Byte, NEW b2 \in Byte, NEW b3 \in Byte,
         NEW w, w = Num(b0, b1, b2, b3), NEW d \in Byte
  PROVE  /\ Insert(w, 0, 1, d) = Num(d, b1, b2, b3)
         /\ Insert(w, 1, 1, d) = Num(b0, d, b2, b3)
         /\ Insert(w, 2, 1, d) = Num(b0, b1, d, b3)
         /\ Insert(w, 3, 1, d) = Num(b0, b1, b2, d)
<1>1. PICK R \in Nat \ {0} : R = Radix /\ R >= 2
  BY Powers
<1>2. /\ Size(0) = 1 /\ Size(1) = R /\ Size(2) = R * R
      /\ Size(3) = R * (R * R)
  BY <1>1, Powers
<1>3. d \in Int /\ b0 \in Int /\ b1 \in Int /\ b2 \in Int /\ b3 \in Int
  BY <1>1 DEF Byte
<1>4. w = b0 + R * (b1 + R * (b2 + R * b3))
  BY <1>1 DEF Num
<1>5. Insert(w, 0, 1, d) = Num(d, b1, b2, b3)
  <2>1. Insert(w, 0, 1, d) = w + (d - b0) * 1
    BY <1>2, NumBytes DEF Insert
  <2> QED
    BY <1>1, <1>3, <1>4, <2>1 DEF Num
<1>6. Insert(w, 1, 1, d) = Num(b0, d, b2, b3)
  <2>1. Insert(w, 1, 1, d) = w + (d - b1) * R
    BY <1>2, NumBytes DEF Insert
  <2> QED
    BY <1>1, <1>3, <1>4, <2>1 DEF Num
<1>7. Insert(w, 2, 1, d) = Num(b0, b1, d, b3)
  <2>1. Insert(w, 2, 1, d) = w + (d - b2) * (R * R)
    BY <1>2, NumBytes DEF Insert
  <2> QED
    BY <1>1, <1>3, <1>4, <2>1 DEF Num
<1>8. Insert(w, 3, 1, d) = Num(b0, b1, b2, d)
  <2>1. Insert(w, 3, 1, d) = w + (d - b3) * (R * (R * R))
    BY <1>2, NumBytes DEF Insert
  <2> QED
    BY <1>1, <1>3, <1>4, <2>1 DEF Num
<1> QED
  BY <1>5, <1>6, <1>7, <1>8

Half(d0, d1) == d0 + Radix * d1

(* What the insertion of d0 and d1 into the word of b0, b1, b2, b3 gives.  *)
HalfPut(b0, b1, b2, b3, d0, d1) ==
  /\ Insert(Num(b0, b1, b2, b3), 0, 2, Half(d0, d1)) = Num(d0, d1, b2, b3)
  /\ Insert(Num(b0, b1, b2, b3), 2, 2, Half(d0, d1)) = Num(b0, b1, d0, d1)

LEMMA InsertHalf ==
  ASSUME NEW b0 \in Byte, NEW b1 \in Byte, NEW b2 \in Byte, NEW b3 \in Byte,
         NEW d0 \in Byte, NEW d1 \in Byte
  PROVE  HalfPut(b0, b1, b2, b3, d0, d1)
<1>0. PICK w, d : w = Num(b0, b1, b2, b3) /\ d = Half(d0, d1)
  OBVIOUS
<1>1. PICK R \in Nat \ {0} : R = Radix /\ R >= 2
  BY Powers
<1>2. Size(0) = 1 /\ Size(2) = R * R
  BY <1>1, Powers
<1>3. /\ b0 \in Int /\ b1 \in Int /\ b2 \in Int /\ b3 \in Int
      /\ d0 \in Int /\ d1 \in Int
  BY <1>1 DEF Byte
<1>4. w = b0 + R * (b1 + R * (b2 + R * b3)) /\ d = d0 + R * d1
  BY <1>0, <1>1 DEF Num, Half
<1>5. Insert(w, 0, 2, d) = Num(d0, d1, b2, b3)
  <2>1. Insert(w, 0, 2, d) = w + (d - (b0 + R * b1)) * 1
    BY <1>0, <1>1, <1>2, NumBytes DEF Insert
  <2> QED
    BY <1>1, <1>3, <1>4, <2>1 DEF Num
<1>6. Insert(w, 2, 2, d) = Num(b0, b1, d0, d1)
  <2>1. Insert(w, 2, 2, d) = w + (d - (b2 + R * b3)) * (R * R)
    BY <1>0, <1>1, <1>2, NumBytes DEF Insert
  <2> QED
    BY <1>1, <1>3, <1>4, <2>1 DEF Num
<1> QED
  BY <1>0, <1>5, <1>6 DEF HalfPut

(* A shift to the left by whole bytes, in a word.                          *)
LEMMA Shifted ==
  ASSUME NEW b0 \in Byte, NEW b1 \in Byte, NEW b2 \in Byte, NEW b3 \in Byte,
         NEW w, w = Num(b0, b1, b2, b3)
  PROVE  /\ (w * Size(0)) % Size(4) = w
         /\ (w * Size(1)) % Size(4) = Num(0, b0, b1, b2)
         /\ (w * Size(2)) % Size(4) = Num(0, 0, b0, b1)
         /\ (w * Size(3)) % Size(4) = Num(0, 0, 0, b0)
<1>1. PICK R \in Nat \ {0} : R = Radix /\ R >= 2
  BY Powers
<1>2. /\ Size(0) = 1 /\ Size(1) = R /\ Size(2) = R * R
      /\ Size(3) = R * (R * R) /\ Size(4) = R * (R * (R * R))
  BY <1>1, Powers
<1>3. /\ b0 \in Nat /\ b1 \in Nat /\ b2 \in Nat /\ b3 \in Nat
      /\ 0 \in Byte
  BY <1>1 DEF Byte
<1>4. w = b0 + R * (b1 + R * (b2 + R * b3)) /\ w \in Nat
  BY <1>1, <1>3 DEF Num
<1>5. PICK M \in Nat \ {0} : M = R * (R * (R * R))
  <2>1. \A x, y \in Nat \ {0} : x * y \in Nat \ {0}
    OBVIOUS
  <2> QED
    BY <1>1, <2>1
<1>6. \A c \in Word, q \in Nat : (c + M * q) % M = c
  <2>1. Word = 0 .. M - 1
    BY <1>2, <1>5 DEF Word
  <2>2. \A c \in 0 .. M - 1, q \in Nat : (c + M * q) % M = c
    BY Divided
  <2> QED
    BY <2>1, <2>2
<1>7. (w * Size(0)) % Size(4) = w
  <2>1. w * Size(0) = w
    BY <1>2, <1>4
  <2>2. w % Size(4) = w
    BY NumParts
  <2> QED
    BY <2>1, <2>2
<1>8. (w * Size(1)) % Size(4) = Num(0, b0, b1, b2)
  <2>1. PICK c : c = Num(0, b0, b1, b2)
    OBVIOUS
  <2>2. c \in Word
    BY <1>3, <2>1, NumParts
  <2>3. c = R * (b0 + R * (b1 + R * b2))
    BY <1>1, <1>3, <2>1 DEF Num
  <2>4. w * R = c + M * b3
    BY <1>3, <1>4, <1>5, <2>3
  <2> QED
    BY <1>2, <1>3, <1>5, <1>6, <2>1, <2>2, <2>4
<1>9. (w * Size(2)) % Size(4) = Num(0, 0, b0, b1)
  <2>1. PICK c : c = Num(0, 0, b0, b1)
    OBVIOUS
  <2>2. c \in Word
    BY <1>3, <2>1, NumParts
  <2>3. c = R * (R * (b0 + R * b1))
    BY <1>1, <1>3, <2>1 DEF Num
  <2>4. PICK q \in Nat : q = b2 + R * b3
    BY <1>3
  <2>5. PICK u : u = w * (R * R)
    OBVIOUS
  <2>6. u = c + M * q
    BY <1>3, <1>4, <1>5, <2>3, <2>4, <2>5
  <2>7. u % M = c
    BY <1>6, <2>2, <2>6
  <2> QED
    BY <1>2, <1>5, <2>1, <2>5, <2>7
<1>10. (w * Size(3)) % Size(4) = Num(0, 0, 0, b0)
  <2>1. PICK c : c = Num(0, 0, 0, b0)
    OBVIOUS
  <2>2. c \in Word
    BY <1>3, <2>1, NumParts
  <2>3. c = R * (R * (R * b0))
    BY <1>1, <1>3, <2>1 DEF Num
  <2>4. PICK q \in Nat : q = b1 + R * (b2 + R * b3)
    BY <1>3
  <2>5. PICK u : u = w * (R * (R * R))
    OBVIOUS
  <2>6. u = c + M * q
    BY <1>3, <1>4, <1>5, <2>3, <2>4, <2>5
  <2>7. u % M = c
    BY <1>6, <2>2, <2>6
  <2> QED
    BY <1>2, <1>5, <2>1, <2>5, <2>7
<1> QED
  BY <1>7, <1>8, <1>9, <1>10

-----------------------------------------------------------------------------
(* The memory, as words of pages.                                          *)
WordIndex == 0 .. PAGE_SIZE \div 4 - 1

PagesOK ==
  /\ DOMAIN pagetable = DOMAIN Map
  /\ \A n \in DOMAIN Map :
       /\ DOMAIN pagetable[n] = 0 .. npage(n) - 1
       /\ \A p \in 0 .. npage(n) - 1 :
            \/ pagetable[n][p] = NULL
            \/ pagetable[n][p] \in [WordIndex -> Word]

OffsetIn(n) == 0 .. Map[n].size - 1

LEMMA MapFacts ==
  ASSUME NEW n \in DOMAIN Map
  PROVE  /\ n \in Nat /\ Map[n].addr \in Nat /\ Map[n].size \in Nat \ {0}
         /\ Map[n].addr % 4 = 0 /\ Map[n].size % 4 = 0
         /\ PAGE_SIZE \in Nat \ {0} /\ PAGE_SIZE % 4 = 0
<1>1. Map \in Seq([addr : Nat, size : Nat \ {0}])
  BY MemoryAssumption
<1>2. n \in 1 .. Len(Map)
  BY <1>1, LenProperties
<1>3. Map[n] \in [addr : Nat, size : Nat \ {0}]
  BY <1>1, <1>2, ElementOfSeq
<1> QED
  BY <1>2, <1>3, MemoryAssumption

(* An offset is in a page, and in a word of it; those tell it from others. *)
LEMMA Place ==
  ASSUME NEW n \in DOMAIN Map, NEW off \in OffsetIn(n)
  PROVE  /\ off \in Nat
         /\ off \div PAGE_SIZE \in 0 .. npage(n) - 1
         /\ WordOf(off) \in WordIndex
<1>1. PICK S \in Nat \ {0} : S = PAGE_SIZE /\ S % 4 = 0
  BY MapFacts
<1>2. PICK z \in Nat \ {0} : z = Map[n].size
  BY MapFacts
<1>3. off \in Nat /\ off < z
  BY <1>2 DEF OffsetIn
<1>4. off \div S \in Nat /\ off \div S < (z + S - 1) \div S
  <2>1. PICK q \in Nat, c \in 0 .. S - 1 : off = c + S * q /\ off \div S = q
    BY <1>1, <1>3, Division
  <2>2. PICK e \in Nat, d \in 0 .. S - 1 :
          z + S - 1 = d + S * e /\ (z + S - 1) \div S = e
    <3>1. z + S - 1 \in Nat
      BY <1>1, <1>2
    <3> QED
      BY <1>1, <3>1, Division
  <2>3. q < e
    <3> SUFFICES ASSUME q >= e PROVE FALSE
      BY <2>1, <2>2
    <3>1. PICK f \in Nat : q = e + f
      <4>1. q - e \in Nat /\ q = e + (q - e)
        BY <2>1, <2>2
      <4> QED
        BY <4>1
    <3>2. S * q = S * e + S * f /\ S * f \in Nat
      BY <3>1, <1>1, <2>2
    <3> QED
      BY <1>1, <1>2, <1>3, <2>1, <2>2, <3>2
  <2> QED
    BY <2>1, <2>2, <2>3
<1>5. (off % S) \div 4 \in 0 .. S \div 4 - 1
  BY <1>1, <1>3
<1> QED
  BY <1>1, <1>2, <1>3, <1>4, <1>5 DEF npage, WordOf, WordIndex

LEMMA SamePlace ==
  ASSUME NEW a \in Nat, NEW b \in Nat
  PROVE  a \div 4 = b \div 4 <=>
           (a \div PAGE_SIZE = b \div PAGE_SIZE /\ WordOf(a) = WordOf(b))
<1>1. PICK S \in Nat \ {0} : S = PAGE_SIZE /\ S % 4 = 0
  BY MemoryAssumption
<1>2. PICK h \in Nat \ {0} : S = 4 * h
  <2>1. S = 4 * (S \div 4) /\ S \div 4 \in Nat \ {0}
    BY <1>1
  <2> QED
    BY <2>1
<1>3. PICK qa \in Nat, ca \in 0 .. S - 1 :
        a = ca + S * qa /\ a \div S = qa /\ a % S = ca
  <2>1. /\ a = (a % S) + S * (a \div S)
        /\ a \div S \in Nat /\ a % S \in 0 .. S - 1
    BY Division
  <2> QED
    BY <2>1
<1>4. PICK qb \in Nat, cb \in 0 .. S - 1 :
        b = cb + S * qb /\ b \div S = qb /\ b % S = cb
  BY <1>1, Division
<1>5. PICK ka \in Nat, kb \in Nat : ka = h * qa /\ kb = h * qb
  BY <1>2, <1>3, <1>4
<1>6. a = ca + 4 * ka /\ b = cb + 4 * kb
  BY <1>2, <1>3, <1>4, <1>5
<1>7. a \div 4 = (ca \div 4) + ka /\ b \div 4 = (cb \div 4) + kb
  BY <1>3, <1>4, <1>6
<1>8. PICK wa \in 0 .. h - 1, wb \in 0 .. h - 1 :
        wa = ca \div 4 /\ wb = cb \div 4
  <2>1. ca \div 4 \in 0 .. h - 1 /\ cb \div 4 \in 0 .. h - 1
    BY <1>2, <1>3, <1>4
  <2> QED
    BY <2>1
<1>9. wa + h * qa = wb + h * qb => qa = qb /\ wa = wb
  <2>1. (wa + h * qa) \div h = qa /\ (wa + h * qa) % h = wa
    BY <1>2, <1>3, <1>8, Divided
  <2>2. (wb + h * qb) \div h = qb /\ (wb + h * qb) % h = wb
    BY <1>2, <1>4, <1>8, Divided
  <2> QED
    BY <2>1, <2>2
<1> QED
  BY <1>1, <1>3, <1>4, <1>5, <1>7, <1>8, <1>9 DEF WordOf

(* A page not yet made reads as zeros.                                     *)
LEMMA PageIs ==
  ASSUME PagesOK, NEW n \in DOMAIN Map, NEW off \in OffsetIn(n)
  PROVE  Page(n, off) \in [WordIndex -> Word] /\ read4b(n, off) \in Word
<1>1. /\ off \div PAGE_SIZE \in 0 .. npage(n) - 1
      /\ WordOf(off) \in WordIndex
  BY Place
<1>2. newpage \in [WordIndex -> Word]
  <2>1. 0 \in Word
    <3>1. 0 \in Byte
      BY Powers DEF Byte
    <3>2. PICK w : w = Num(0, 0, 0, 0)
      OBVIOUS
    <3>3. w \in Word /\ w = 0
      BY <3>1, <3>2, NumParts, Powers DEF Num
    <3> QED
      BY <3>3
  <2> QED
    BY <2>1 DEF newpage, WordIndex
<1>3. Page(n, off) \in [WordIndex -> Word]
  BY <1>1, <1>2 DEF PagesOK, Page
<1> QED
  BY <1>1, <1>3 DEF read4b

(* What an access leaves, in the page pg of the device n.                  *)
PutPage(n, p, pg) == pagetable' = [pagetable EXCEPT ![n][p] = pg]

ReadsPage(n, p, pg) ==
  \A m \in DOMAIN Map : \A b \in OffsetIn(m) :
    read4b(m, b)' = IF m = n /\ b \div PAGE_SIZE = p THEN pg[WordOf(b)]
                                                     ELSE read4b(m, b)

LEMMA Replaced ==
  ASSUME PagesOK, NEW n \in DOMAIN Map, NEW p \in 0 .. npage(n) - 1,
         NEW pg \in [WordIndex -> Word], PutPage(n, p, pg)
  PROVE  PagesOK' /\ ReadsPage(n, p, pg)
<1>1. PICK row : row = [pagetable[n] EXCEPT ![p] = pg]
  OBVIOUS
<1>2. DOMAIN row = 0 .. npage(n) - 1
      /\ \A q \in 0 .. npage(n) - 1 :
           row[q] = IF q = p THEN pg ELSE pagetable[n][q]
  BY <1>1 DEF PagesOK
<1>3. pagetable' = [pagetable EXCEPT ![n] = row]
  BY <1>1 DEF PutPage
<1>4. DOMAIN pagetable' = DOMAIN Map
      /\ \A m \in DOMAIN Map :
           pagetable'[m] = IF m = n THEN row ELSE pagetable[m]
  BY <1>3 DEF PagesOK
<1>5. PagesOK'
  BY <1>2, <1>4 DEF PagesOK, npage
<1>6. pg # NULL
  <2>1. 0 \in WordIndex
    BY MemoryAssumption DEF WordIndex
  <2>2. DOMAIN pg = WordIndex
    OBVIOUS
  <2>3. DOMAIN NULL = {}
    BY DEF NULL
  <2> QED
    BY <2>1, <2>2, <2>3
<1>7. ASSUME NEW m \in DOMAIN Map, NEW b \in OffsetIn(m)
      PROVE  read4b(m, b)' = IF m = n /\ b \div PAGE_SIZE = p
                             THEN pg[WordOf(b)] ELSE read4b(m, b)
  <2>1. PICK q \in 0 .. npage(m) - 1 : q = b \div PAGE_SIZE
    BY Place
  <2>2. pagetable'[m][q] = IF m = n /\ q = p THEN pg ELSE pagetable[m][q]
    BY <1>2, <1>4
  <2>3. PICK w : w = WordOf(b)
    OBVIOUS
  <2>4. read4b(m, b)' =
          (IF pagetable'[m][q] = NULL THEN newpage ELSE pagetable'[m][q])[w]
    BY <2>1, <2>3 DEF read4b, Page, WordOf, newpage
  <2>5. read4b(m, b) =
          (IF pagetable[m][q] = NULL THEN newpage ELSE pagetable[m][q])[w]
    BY <2>1, <2>3 DEF read4b, Page
  <2>6. CASE m = n /\ q = p
    BY <1>6, <2>1, <2>2, <2>3, <2>4, <2>6
  <2>7. CASE ~ (m = n /\ q = p)
    BY <2>1, <2>2, <2>4, <2>5, <2>7
  <2> QED
    BY <2>6, <2>7
<1> QED
  BY <1>5, <1>7 DEF ReadsPage

(* A load makes the page it reads, and changes nothing else.               *)
LEMMA TouchKeeps ==
  ASSUME PagesOK, NEW n \in DOMAIN Map, NEW off \in OffsetIn(n),
         pagetable' = Touched(n, off)
  PROVE  /\ PagesOK'
         /\ \A m \in DOMAIN Map : \A b \in OffsetIn(m) :
              read4b(m, b)' = read4b(m, b)
<1>1. PICK p \in 0 .. npage(n) - 1 : p = off \div PAGE_SIZE
  BY Place
<1>2. PICK pg \in [WordIndex -> Word] : pg = Page(n, off)
  BY PageIs
<1>3. PutPage(n, p, pg)
  BY <1>1, <1>2 DEF Touched, PutPage
<1>4. PagesOK' /\ ReadsPage(n, p, pg)
  BY <1>3, Replaced
<1>5. ASSUME NEW m \in DOMAIN Map, NEW b \in OffsetIn(m)
      PROVE  read4b(m, b)' = read4b(m, b)
  <2>1. read4b(m, b)' = IF m = n /\ b \div PAGE_SIZE = p
                        THEN pg[WordOf(b)] ELSE read4b(m, b)
    BY <1>4 DEF ReadsPage
  <2>2. m = n /\ b \div PAGE_SIZE = p => pg[WordOf(b)] = read4b(m, b)
    BY <1>1, <1>2 DEF read4b, Page
  <2> QED
    BY <2>1, <2>2
<1> QED
  BY <1>4, <1>5

(* A store changes its word.                                               *)
LEMMA WriteKeeps ==
  ASSUME PagesOK, NEW n \in DOMAIN Map, NEW off \in OffsetIn(n),
         NEW word \in Word, pagetable' = write4b(n, off, word)
  PROVE  /\ PagesOK'
         /\ \A m \in DOMAIN Map : \A b \in OffsetIn(m) :
              read4b(m, b)' = IF m = n /\ b \div 4 = off \div 4
                              THEN word ELSE read4b(m, b)
<1>1. PICK p \in 0 .. npage(n) - 1 : p = off \div PAGE_SIZE
  BY Place
<1>2. PICK pg \in [WordIndex -> Word] : pg = Page(n, off)
  BY PageIs
<1>3. PICK w \in WordIndex : w = WordOf(off)
  BY Place
<1>4. PICK new : new = [pg EXCEPT ![w] = word]
  OBVIOUS
<1>5. new \in [WordIndex -> Word] /\ new[w] = word
      /\ \A x \in WordIndex : x # w => new[x] = pg[x]
  BY <1>4
<1>6. PICK t : t = [pagetable EXCEPT ![n][p] = pg]
  OBVIOUS
<1>7. t[n][p] = pg /\ DOMAIN t = DOMAIN pagetable
      /\ DOMAIN t[n] = DOMAIN pagetable[n]
  BY <1>1, <1>6 DEF PagesOK
<1>8. pagetable' = [t EXCEPT ![n][p] = new]
  <2>1. pagetable' = [t EXCEPT ![n][p][w] = word]
    BY <1>1, <1>2, <1>3, <1>6 DEF write4b, Touched
  <2> QED
    BY <1>4, <1>7, <2>1
<1>9. PutPage(n, p, new)
  BY <1>6, <1>8 DEF PagesOK, PutPage
<1>10. PagesOK' /\ ReadsPage(n, p, new)
  BY <1>5, <1>9, Replaced
<1>11. ASSUME NEW m \in DOMAIN Map, NEW b \in OffsetIn(m)
       PROVE  read4b(m, b)' = IF m = n /\ b \div 4 = off \div 4
                              THEN word ELSE read4b(m, b)
  <2>1. read4b(m, b)' = IF m = n /\ b \div PAGE_SIZE = p
                        THEN new[WordOf(b)] ELSE read4b(m, b)
    BY <1>10 DEF ReadsPage
  <2>2. b \in Nat /\ off \in Nat /\ WordOf(b) \in WordIndex
    BY Place
  <2>3. b \div 4 = off \div 4 <=> (b \div PAGE_SIZE = p /\ WordOf(b) = w)
    BY <1>1, <1>3, <2>2, SamePlace
  <2>4. m = n /\ b \div PAGE_SIZE = p => pg[WordOf(b)] = read4b(m, b)
    BY <1>1, <1>2 DEF read4b, Page
  <2> QED
    BY <1>5, <2>1, <2>2, <2>3, <2>4
<1> QED
  BY <1>10, <1>11

-----------------------------------------------------------------------------
(* The words of the memory, by address.                                    *)
WordAt(a) == read4b(Device[a], Offset(a))

(* The first device of the map that has an address.                        *)
LEMMA DeviceFacts ==
  ASSUME NEW a \in Address
  PROVE  /\ a \in Nat
         /\ Device[a] \in DOMAIN Map /\ Has(Device[a], a)
         /\ \A k \in 1 .. Device[a] - 1 : ~ Has(k, a)
<1>1. PICK found : found = {n \in DOMAIN Map : Has(n, a)}
  OBVIOUS
<1>2. PICK n \in DOMAIN Map : a \in Map[n].addr .. Map[n].addr + Map[n].size - 1
  BY DEF Address
<1>3. a \in Nat /\ n \in found
  BY <1>1, <1>2, MapFacts DEF Has
<1>4. found \subseteq Nat
  BY <1>1, MapFacts
<1>5. PICK y \in found : \A z \in found : ~ <<z, y>> \in OpToRel(<, Nat)
  BY <1>3, <1>4, NatLessThanWellFounded, WFMin
<1>6. \A z \in found : ~ <<z, y>> \in {ss \in Nat \X Nat : ss[1] < ss[2]}
  BY <1>5, Zenon DEF OpToRel
<1>7. \A z \in found : ~ (z < y)
  BY <1>4, <1>6
<1>8. \A k \in 1 .. y - 1 : ~ Has(k, a)
  <2> SUFFICES ASSUME NEW k \in 1 .. y - 1, Has(k, a) PROVE FALSE
    OBVIOUS
  <2>1. y \in DOMAIN Map /\ DOMAIN Map = 1 .. Len(Map) /\ Len(Map) \in Nat
    BY <1>1, MemoryAssumption, LenProperties
  <2>2. k \in found /\ k < y
    BY <1>1, <1>4, <2>1
  <2> QED
    BY <1>7, <2>2
<1>9. Device[a] = CHOOSE m \in DOMAIN Map :
                    Has(m, a) /\ \A k \in 1 .. m - 1 : ~ Has(k, a)
  BY DEF Device
<1> QED
  BY <1>1, <1>3, <1>8, <1>9

LEMMA OffsetFacts ==
  ASSUME NEW a \in Address
  PROVE  /\ Device[a] \in DOMAIN Map /\ Offset(a) \in OffsetIn(Device[a])
         /\ a \in Nat /\ Offset(a) = a - Map[Device[a]].addr
         /\ Offset(a) % 4 = a % 4 /\ Offset(a) % 2 = a % 2
<1>1. PICK n \in DOMAIN Map : n = Device[a]
  BY DeviceFacts
<1>2. PICK base \in Nat, z \in Nat \ {0} :
        /\ base = Map[n].addr /\ z = Map[n].size
        /\ base % 4 = 0
  BY MapFacts
<1>3. a \in Nat /\ base <= a /\ a - base < z
  BY <1>1, <1>2, DeviceFacts DEF Has
<1>4. (a - base) % 4 = a % 4 /\ (a - base) % 2 = a % 2
  BY <1>2, <1>3
<1> QED
  BY <1>1, <1>2, <1>3, <1>4 DEF Offset, OffsetIn

(* The bytes of a word are in the same device.                             *)
LEMMA WordDevice ==
  ASSUME NEW a \in Address, NEW b \in Nat, b \div 4 = a \div 4
  PROVE  b \in Address /\ Device[b] = Device[a]
<1>1. a \in Nat
  BY DeviceFacts
<1>2. \A n \in DOMAIN Map : Has(n, a) <=> Has(n, b)
  <2> TAKE n \in DOMAIN Map
  <2>1. PICK base \in Nat, z \in Nat \ {0} :
          /\ base = Map[n].addr /\ z = Map[n].size
          /\ base % 4 = 0 /\ z % 4 = 0
    BY MapFacts
  <2>2. (base <= a /\ a - base < z) <=> (base <= b /\ b - base < z)
    BY <1>1, <2>1
  <2> QED
    BY <2>1, <2>2 DEF Has
<1>3. PICK n \in DOMAIN Map : n = Device[a] /\ Has(n, b)
  BY <1>2, DeviceFacts
<1>4. b \in Address
  <2>1. b \in Map[n].addr .. Map[n].addr + Map[n].size - 1
    BY <1>3, MapFacts DEF Has
  <2> QED
    BY <2>1 DEF Address
<1>5. PICK m \in DOMAIN Map : m = Device[b]
  BY <1>4, DeviceFacts
<1>6. n \in Nat /\ m \in Nat /\ n >= 1 /\ m >= 1
      /\ 1 .. n - 1 \subseteq DOMAIN Map
      /\ 1 .. m - 1 \subseteq DOMAIN Map
  <2>1. DOMAIN Map = 1 .. Len(Map) /\ Len(Map) \in Nat
    BY MemoryAssumption, LenProperties
  <2> QED
    BY <2>1
<1>7. ~ (m < n) /\ ~ (n < m)
  <2>1. Has(m, b) /\ Has(m, a) /\ Has(n, a) /\ Has(n, b)
    BY <1>2, <1>3, <1>4, <1>5, DeviceFacts
  <2>2. m \in 1 .. n - 1 => ~ Has(m, a)
    BY <1>3, DeviceFacts
  <2>3. n \in 1 .. m - 1 => ~ Has(n, b)
    BY <1>4, <1>5, DeviceFacts
  <2> QED
    BY <1>6, <2>1, <2>2, <2>3
<1> QED
  BY <1>3, <1>4, <1>5, <1>6, <1>7

(* Which addresses mean the same word.                                     *)
LEMMA SameWord ==
  ASSUME NEW a \in Address, NEW b \in Address
  PROVE  (Device[a] = Device[b] /\ Offset(a) \div 4 = Offset(b) \div 4)
           <=> a \div 4 = b \div 4
<1>1. ASSUME Device[a] = Device[b]
      PROVE  Offset(a) \div 4 = Offset(b) \div 4 <=> a \div 4 = b \div 4
  <2>1. PICK base \in Nat :
          /\ base % 4 = 0 /\ Offset(a) = a - base /\ Offset(b) = b - base
    BY <1>1, OffsetFacts, MapFacts
  <2>2. a \in Nat /\ b \in Nat /\ base <= a /\ base <= b
    BY <2>1, OffsetFacts, MapFacts DEF OffsetIn
  <2>3. (a - base) \div 4 = (b - base) \div 4 <=> a \div 4 = b \div 4
    BY <2>1, <2>2
  <2> QED
    BY <2>1, <2>3
<1>2. a \div 4 = b \div 4 => Device[a] = Device[b]
  BY WordDevice, DeviceFacts
<1> QED
  BY <1>1, <1>2

LEMMA WordAtFacts ==
  ASSUME PagesOK, NEW a \in Address
  PROVE  /\ WordAt(a) \in Word
         /\ \A b \in Address : b \div 4 = a \div 4 => WordAt(b) = WordAt(a)
         /\ ByteAt(a) = Extract(WordAt(a), a % 4, 1)
<1>1. WordAt(a) \in Word
  BY OffsetFacts, PageIs DEF WordAt
<1>2. ASSUME NEW b \in Address, b \div 4 = a \div 4
      PROVE  WordAt(b) = WordAt(a)
  <2>1. Device[a] = Device[b] /\ Offset(a) \div 4 = Offset(b) \div 4
    BY <1>2, SameWord
  <2>2. Offset(a) \in Nat /\ Offset(b) \in Nat
    BY OffsetFacts, MapFacts DEF OffsetIn
  <2>3. Offset(a) \div PAGE_SIZE = Offset(b) \div PAGE_SIZE
        /\ WordOf(Offset(a)) = WordOf(Offset(b))
    BY <2>1, <2>2, SamePlace
  <2> QED
    BY <2>1, <2>3 DEF WordAt, read4b, Page
<1>3. ByteAt(a) = Extract(WordAt(a), a % 4, 1)
  BY OffsetFacts DEF ByteAt, Read, read1b, Lane, WordAt
<1> QED
  BY <1>1, <1>2, <1>3

-----------------------------------------------------------------------------
(* The memory as bytes: four of them, from the one with the lowest address,*)
(* are a word.                                                             *)
Four == [0 .. 3 -> Byte]
NumOf(c) == Num(c[0], c[1], c[2], c[3])

BytesOf(w) == [k \in 0 .. 3 |-> Extract(w, k, 1)]

LEMMA NumOfBytes ==
  ASSUME NEW w \in Word
  PROVE  BytesOf(w) \in Four /\ w = NumOf(BytesOf(w))
BY ByteFacts DEF BytesOf, Four, NumOf

LEMMA BytesOfNum ==
  ASSUME NEW c \in Four
  PROVE  NumOf(c) \in Word /\ BytesOf(NumOf(c)) = c
<1>1. c[0] \in Byte /\ c[1] \in Byte /\ c[2] \in Byte /\ c[3] \in Byte
  BY DEF Four
<1>2. PICK w : w = Num(c[0], c[1], c[2], c[3])
  OBVIOUS
<1>3. w \in Word /\ Extract(w, 0, 1) = c[0] /\ Extract(w, 1, 1) = c[1]
      /\ Extract(w, 2, 1) = c[2] /\ Extract(w, 3, 1) = c[3]
  BY <1>1, <1>2, NumParts, NumBytes
<1>4. \A k \in 0 .. 3 : BytesOf(w)[k] = c[k]
  <2>1. \A k \in 0 .. 3 : k = 0 \/ k = 1 \/ k = 2 \/ k = 3
    OBVIOUS
  <2> QED
    BY <1>3, <2>1 DEF BytesOf
<1>5. BytesOf(w) = c
  <2>1. DOMAIN c = 0 .. 3 /\ c = [k \in 0 .. 3 |-> c[k]]
    BY DEF Four
  <2> QED
    BY <1>4, <2>1 DEF BytesOf
<1> QED
  BY <1>2, <1>3, <1>5 DEF NumOf

(* Where the word of an address begins.                                    *)
Base(a) == a - (a % 4)

LEMMA BaseFacts ==
  ASSUME NEW a \in Address, NEW k \in 0 .. 3
  PROVE  /\ Base(a) + k \in Address /\ Base(a) \in Nat
         /\ (Base(a) + k) \div 4 = a \div 4 /\ (Base(a) + k) % 4 = k
<1>1. a \in Nat
  BY DeviceFacts
<1>2. /\ Base(a) \in Nat /\ Base(a) + k \in Nat
      /\ (Base(a) + k) \div 4 = a \div 4 /\ (Base(a) + k) % 4 = k
  BY <1>1 DEF Base
<1> QED
  BY <1>2, WordDevice

LEMMA WordBytes ==
  ASSUME PagesOK, NEW a \in Address
  PROVE  BytesOf(WordAt(a)) = [k \in 0 .. 3 |-> MemBytes[Base(a) + k]]
<1>1. ASSUME NEW k \in 0 .. 3
      PROVE  Extract(WordAt(a), k, 1) = MemBytes[Base(a) + k]
  <2>1. PICK b \in Address : b = Base(a) + k
    BY BaseFacts
  <2>2. b \div 4 = a \div 4 /\ b % 4 = k
    BY <2>1, BaseFacts
  <2>3. ByteAt(b) = Extract(WordAt(b), k, 1) /\ WordAt(b) = WordAt(a)
    BY <2>2, WordAtFacts
  <2> QED
    BY <2>1, <2>3 DEF MemBytes
<1> QED
  BY <1>1 DEF BytesOf

(* What a store of the word NumOf(c) at a means for the bytes.             *)
StoresWord(a, c) ==
  pagetable' = write4b(Device[a], Offset(a), NumOf(c))

BytesStored(a, c) ==
  MemBytes' = [x \in Address |-> IF x \div 4 = a \div 4 THEN c[x % 4]
                                                     ELSE MemBytes[x]]

LEMMA WordStored ==
  ASSUME PagesOK, NEW a \in Address, NEW c \in Four, StoresWord(a, c)
  PROVE  PagesOK' /\ BytesStored(a, c)
<1>0. PICK n \in DOMAIN Map : n = Device[a]
  BY OffsetFacts
<1>1. PICK off \in OffsetIn(n) : n = Device[a] /\ off = Offset(a)
  BY <1>0, OffsetFacts
<1>2. PICK w \in Word : w = NumOf(c) /\ BytesOf(w) = c
  BY BytesOfNum
<1>3. pagetable' = write4b(n, off, w)
  BY <1>1, <1>2 DEF StoresWord
<1>4. PagesOK' /\ \A m \in DOMAIN Map : \A b \in OffsetIn(m) :
        read4b(m, b)' = IF m = n /\ b \div 4 = off \div 4
                        THEN w ELSE read4b(m, b)
  BY <1>3, WriteKeeps
<1>5. ASSUME NEW x \in Address
      PROVE  ByteAt(x)' = IF x \div 4 = a \div 4 THEN c[x % 4] ELSE MemBytes[x]
  <2>1. x \in Nat /\ x % 4 \in 0 .. 3
    BY OffsetFacts
  <2>2. ByteAt(x)' = Extract(WordAt(x)', x % 4, 1)
    BY OffsetFacts DEF ByteAt, Read, read1b, Lane, WordAt
  <2>3. WordAt(x)' = IF x \div 4 = a \div 4 THEN w ELSE WordAt(x)
    <3>1. Device[x] \in DOMAIN Map /\ Offset(x) \in OffsetIn(Device[x])
      BY OffsetFacts
    <3>2. read4b(Device[x], Offset(x))' =
            IF Device[x] = n /\ Offset(x) \div 4 = off \div 4
            THEN w ELSE read4b(Device[x], Offset(x))
      BY <1>4, <3>1
    <3> QED
      BY <1>1, <3>2, SameWord DEF WordAt
  <2>4. Extract(w, x % 4, 1) = c[x % 4]
    BY <1>2, <2>1 DEF BytesOf
  <2>5. MemBytes[x] = Extract(WordAt(x), x % 4, 1)
    BY WordAtFacts DEF MemBytes
  <2> QED
    BY <2>2, <2>3, <2>4, <2>5
<1> QED
  BY <1>4, <1>5 DEF MemBytes, BytesStored

(* A load changes no byte.                                                 *)
LEMMA LoadKeeps ==
  ASSUME PagesOK, NEW a \in Address,
         pagetable' = Touched(Device[a], Offset(a))
  PROVE  PagesOK' /\ UNCHANGED MemBytes
<1>0. PICK n \in DOMAIN Map : n = Device[a]
  BY OffsetFacts
<1>1. PICK off \in OffsetIn(n) : n = Device[a] /\ off = Offset(a)
  BY <1>0, OffsetFacts
<1>2. PagesOK' /\ \A m \in DOMAIN Map : \A b \in OffsetIn(m) :
        read4b(m, b)' = read4b(m, b)
  BY <1>1, TouchKeeps
<1>3. ASSUME NEW x \in Address
      PROVE  ByteAt(x)' = ByteAt(x)
  <2>1. ByteAt(x)' = Extract(read4b(Device[x], Offset(x))', x % 4, 1)
    BY OffsetFacts DEF ByteAt, Read, read1b, Lane
  <2>2. ByteAt(x) = Extract(read4b(Device[x], Offset(x)), x % 4, 1)
    BY OffsetFacts DEF ByteAt, Read, read1b, Lane
  <2> QED
    BY <1>2, <2>1, <2>2, OffsetFacts
<1> QED
  BY <1>2, <1>3 DEF MemBytes

-----------------------------------------------------------------------------
(* The stores of one, two and four bytes.                                  *)
LEMMA ByteStored ==
  ASSUME PagesOK, NEW a \in Address, NEW d \in Byte,
         pagetable' = Written(a, 1, d)
  PROVE  PagesOK'
         /\ MemBytes' = [x \in Address |-> IF x = a THEN d ELSE MemBytes[x]]
<1>1. PICK w \in Word : w = WordAt(a)
  BY WordAtFacts
<1>2. PICK b : b = BytesOf(w)
  OBVIOUS
<1>3. b \in Four /\ w = NumOf(b)
  BY <1>2, NumOfBytes
<1>4. PICK k \in 0 .. 3 : k = a % 4
  BY OffsetFacts
<1>5. PICK c : c = [b EXCEPT ![k] = d]
  OBVIOUS
<1>6. c \in Four /\ c[k] = d /\ \A j \in 0 .. 3 : j # k => c[j] = b[j]
  BY <1>3, <1>4, <1>5 DEF Four
<1>7. Insert(w, k, 1, d) = NumOf(c)
  <2>1. b[0] \in Byte /\ b[1] \in Byte /\ b[2] \in Byte /\ b[3] \in Byte
        /\ w = Num(b[0], b[1], b[2], b[3])
    BY <1>3 DEF Four, NumOf
  <2>2. /\ Insert(w, 0, 1, d) = Num(d, b[1], b[2], b[3])
        /\ Insert(w, 1, 1, d) = Num(b[0], d, b[2], b[3])
        /\ Insert(w, 2, 1, d) = Num(b[0], b[1], d, b[3])
        /\ Insert(w, 3, 1, d) = Num(b[0], b[1], b[2], d)
    BY <2>1, InsertByte
  <2>3. k = 0 \/ k = 1 \/ k = 2 \/ k = 3
    OBVIOUS
  <2> QED
    BY <1>6, <2>2, <2>3 DEF NumOf
<1>8. StoresWord(a, c)
  BY <1>1, <1>4, <1>7, OffsetFacts
     DEF Written, write1b, Lane, WordAt, StoresWord
<1>9. PagesOK' /\ BytesStored(a, c)
  BY <1>6, <1>8, WordStored
<1>10. ASSUME NEW x \in Address
       PROVE  (IF x \div 4 = a \div 4 THEN c[x % 4] ELSE MemBytes[x])
                = IF x = a THEN d ELSE MemBytes[x]
  <2>1. CASE x \div 4 = a \div 4
    <3>1. x \in Nat /\ a \in Nat /\ x % 4 \in 0 .. 3
      BY OffsetFacts
    <3>2. x % 4 = k <=> x = a
      BY <1>4, <2>1, <3>1
    <3>3. Base(a) + (x % 4) = x
      BY <2>1, <3>1 DEF Base
    <3>4. MemBytes[x] = b[x % 4]
      BY <1>1, <1>2, <3>1, <3>3, WordBytes
    <3> QED
      BY <1>6, <2>1, <3>1, <3>2, <3>4
  <2>2. CASE x \div 4 # a \div 4
    BY <2>2
  <2> QED
    BY <2>1, <2>2
<1> QED
  BY <1>9, <1>10 DEF BytesStored

LEMMA HalfStored ==
  ASSUME PagesOK, NEW v \in Address, NEW s \in Four, NEW d,
         d = Half(s[0], s[1]), pagetable' = Written(v, 2, d)
  PROVE  LET a == v - (v % 2)
         IN /\ PagesOK' /\ a \in Address /\ a % 2 = 0
            /\ MemBytes' = [x \in Address |->
                              IF a <= x /\ x < a + 2 THEN s[x - a]
                                                     ELSE MemBytes[x]]
<1>1. PICK w \in Word : w = WordAt(v)
  BY WordAtFacts
<1>2. PICK b : b = BytesOf(w)
  OBVIOUS
<1>3. b \in Four /\ w = NumOf(b)
  BY <1>2, NumOfBytes
<1>4. v \in Nat
  BY OffsetFacts
<1>5. PICK k \in {0, 2} : k = (v % 4) - (v % 2)
  BY <1>4
<1>6. PICK a \in Nat : a = v - (v % 2)
  BY <1>4
<1>7. a \div 4 = v \div 4 /\ a % 4 = k /\ a % 2 = 0 /\ a = Base(v) + k
  BY <1>4, <1>5, <1>6 DEF Base
<1>8. PICK c : c = [j \in 0 .. 3 |-> IF j = k THEN s[0]
                                     ELSE IF j = k + 1 THEN s[1] ELSE b[j]]
  OBVIOUS
<1>9. c \in Four
  BY <1>3, <1>8 DEF Four
<1>10. Insert(w, k, 2, d) = NumOf(c)
  <2>1. PICK b0, b1, b2, b3 \in Byte :
          /\ b0 = b[0] /\ b1 = b[1] /\ b2 = b[2] /\ b3 = b[3]
          /\ w = Num(b0, b1, b2, b3)
    BY <1>3 DEF Four, NumOf
  <2>2. PICK d0, d1 \in Byte : d0 = s[0] /\ d1 = s[1] /\ d = Half(d0, d1)
    BY DEF Four
  <2>3. HalfPut(b0, b1, b2, b3, d0, d1)
    BY InsertHalf
  <2>4. /\ Insert(w, 0, 2, d) = Num(d0, d1, b2, b3)
        /\ Insert(w, 2, 2, d) = Num(b0, b1, d0, d1)
    BY <2>1, <2>2, <2>3 DEF HalfPut
  <2> QED
    BY <1>5, <1>8, <2>1, <2>2, <2>4 DEF NumOf
<1>11. StoresWord(v, c)
  BY <1>1, <1>5, <1>10, OffsetFacts
     DEF Written, write2b, Lane2, WordAt, StoresWord
<1>12. PagesOK' /\ BytesStored(v, c)
  BY <1>9, <1>11, WordStored
<1>13. ASSUME NEW x \in Address
       PROVE  (IF x \div 4 = v \div 4 THEN c[x % 4] ELSE MemBytes[x])
                = IF a <= x /\ x < a + 2 THEN s[x - a] ELSE MemBytes[x]
  <2>1. x \in Nat /\ x % 4 \in 0 .. 3
    BY OffsetFacts
  <2>2. CASE x \div 4 = v \div 4
    <3>1. x = Base(v) + (x % 4)
      BY <1>4, <2>1, <2>2 DEF Base
    <3>2. MemBytes[x] = b[x % 4]
      BY <1>1, <1>2, <2>1, <3>1, WordBytes
    <3>3. x - a = (x % 4) - k
      BY <1>4, <1>5, <1>7, <2>1, <3>1 DEF Base
    <3> QED
      BY <1>5, <1>6, <1>8, <2>1, <2>2, <3>2, <3>3
  <2>3. CASE x \div 4 # v \div 4
    <3>1. ~ (a <= x /\ x < a + 2)
      BY <1>5, <1>6, <1>7, <2>1, <2>3
    <3> QED
      BY <2>3, <3>1
  <2> QED
    BY <2>2, <2>3
<1>14. a \in Address
  <2>1. k \in 0 .. 3
    BY <1>5
  <2> QED
    BY <1>7, <2>1, BaseFacts
<1> QED
  BY <1>6, <1>7, <1>12, <1>13, <1>14 DEF BytesStored

(* A store of a whole word: the new bytes are those of the word at v from  *)
(* an address on, or up to it, and the ones that are there.                *)
LEMMA PartStored ==
  ASSUME PagesOK, NEW v \in Address, NEW c \in Four,
         NEW u \in Address, Base(u) = Base(v), StoresWord(u, c),
         NEW n, NEW part \in SUBSET (0 .. 3),
         n = [x \in Address |-> IF x \div 4 = v \div 4 /\ x % 4 \in part
                                THEN c[x % 4] ELSE MemBytes[x]],
         \A k \in (0 .. 3) \ part : c[k] = MemBytes[Base(v) + k]
  PROVE  PagesOK' /\ MemBytes' = n
<1>1. v \in Nat /\ u \in Nat
  BY OffsetFacts
<1>2. u \div 4 = v \div 4
  BY <1>1 DEF Base
<1>3. PagesOK' /\ BytesStored(u, c)
  BY WordStored
<1>4. ASSUME NEW x \in Address
      PROVE  (IF x \div 4 = u \div 4 THEN c[x % 4] ELSE MemBytes[x]) = n[x]
  <2>1. x \in Nat /\ x % 4 \in 0 .. 3
    BY OffsetFacts
  <2>2. CASE x \div 4 = v \div 4 /\ x % 4 \notin part
    <3>1. x = Base(v) + (x % 4)
      BY <1>1, <2>1, <2>2 DEF Base
    <3> QED
      BY <1>2, <2>1, <2>2, <3>1
  <2>3. CASE ~ (x \div 4 = v \div 4 /\ x % 4 \notin part)
    BY <1>2, <2>1, <2>3
  <2> QED
    BY <2>2, <2>3
<1> QED
  BY <1>3, <1>4 DEF BytesStored

-----------------------------------------------------------------------------
(* Shifts by k bytes, up and down, into the bytes of another word.         *)
Up(x, y, k) == ((x * Size(k)) % Size(4)) + (y % Size(k))
DownTo(x, y, k) == (x \div Size(k)) + (y \div Size(4 - k)) * Size(4 - k)

UpBytes(c, e, k) == [j \in 0 .. 3 |-> IF j >= k THEN c[j - k] ELSE e[j]]
DownBytes(c, e, k) == [j \in 0 .. 3 |-> IF j + k < 4 THEN c[j + k] ELSE e[j]]

LEMMA UpIs ==
  ASSUME NEW c \in Four, NEW e \in Four, NEW k \in 0 .. 3
  PROVE  UpBytes(c, e, k) \in Four
         /\ Up(NumOf(c), NumOf(e), k) = NumOf(UpBytes(c, e, k))
<1>1. PICK c0, c1, c2, c3 \in Byte :
        c0 = c[0] /\ c1 = c[1] /\ c2 = c[2] /\ c3 = c[3]
  BY DEF Four
<1>2. PICK e0, e1, e2, e3 \in Byte :
        e0 = e[0] /\ e1 = e[1] /\ e2 = e[2] /\ e3 = e[3]
  BY DEF Four
<1>3. PICK x, y : x = Num(c0, c1, c2, c3) /\ y = Num(e0, e1, e2, e3)
  OBVIOUS
<1>4. x = NumOf(c) /\ y = NumOf(e)
  BY <1>1, <1>2, <1>3 DEF NumOf
<1>5. PICK R \in Nat \ {0} : R = Radix /\ R >= 2
  BY Powers
<1>6. /\ c0 \in Int /\ c1 \in Int /\ c2 \in Int /\ c3 \in Int
      /\ e0 \in Int /\ e1 \in Int /\ e2 \in Int /\ e3 \in Int
  BY <1>5 DEF Byte
<1>7. UpBytes(c, e, k) \in Four
  BY DEF UpBytes, Four
<1>8. /\ (x * Size(0)) % Size(4) = x
      /\ (x * Size(1)) % Size(4) = Num(0, c0, c1, c2)
      /\ (x * Size(2)) % Size(4) = Num(0, 0, c0, c1)
      /\ (x * Size(3)) % Size(4) = Num(0, 0, 0, c0)
  BY <1>3, Shifted
<1>9. /\ y % Size(0) = 0 /\ y % Size(1) = e0
      /\ y % Size(2) = e0 + R * e1
      /\ y % Size(3) = e0 + R * (e1 + R * e2)
  <2>0. Remainders(y, e0, e1, e2, e3)
    BY <1>3, NumShifts
  <2>1. /\ y % Size(0) = 0 /\ y % Size(1) = e0
        /\ y % Size(2) = e0 + Radix * e1
        /\ y % Size(3) = e0 + Radix * (e1 + Radix * e2)
    BY <2>0 DEF Remainders
  <2> QED
    BY <1>5, <2>1, Zenon
<1>10. CASE k = 0
  <2>1. NumOf(UpBytes(c, e, k)) = x
    BY <1>1, <1>3, <1>10 DEF NumOf, UpBytes
  <2>2. Up(x, y, k) = x + 0
    BY <1>8, <1>9, <1>10 DEF Up
  <2>3. x \in Int
    BY <1>3, <1>5, <1>6 DEF Num
  <2> QED
    BY <1>4, <1>7, <2>1, <2>2, <2>3
<1>11. CASE k = 1
  <2>1. NumOf(UpBytes(c, e, k)) = Num(e0, c0, c1, c2)
    BY <1>1, <1>2, <1>11 DEF NumOf, UpBytes
  <2>2. Up(x, y, k) = Num(0, c0, c1, c2) + e0
    BY <1>8, <1>9, <1>11 DEF Up
  <2> QED
    BY <1>4, <1>5, <1>6, <1>7, <2>1, <2>2 DEF Num
<1>12. CASE k = 2
  <2>1. NumOf(UpBytes(c, e, k)) = Num(e0, e1, c0, c1)
    BY <1>1, <1>2, <1>12 DEF NumOf, UpBytes
  <2>2. Up(x, y, k) = Num(0, 0, c0, c1) + (e0 + R * e1)
    BY <1>8, <1>9, <1>12 DEF Up
  <2> QED
    BY <1>4, <1>5, <1>6, <1>7, <2>1, <2>2 DEF Num
<1>13. CASE k = 3
  <2>1. NumOf(UpBytes(c, e, k)) = Num(e0, e1, e2, c0)
    BY <1>1, <1>2, <1>13 DEF NumOf, UpBytes
  <2>2. Up(x, y, k) = Num(0, 0, 0, c0) + (e0 + R * (e1 + R * e2))
    BY <1>8, <1>9, <1>13 DEF Up
  <2> QED
    BY <1>4, <1>5, <1>6, <1>7, <2>1, <2>2 DEF Num
<1> QED
  BY <1>10, <1>11, <1>12, <1>13

LEMMA DownIs ==
  ASSUME NEW c \in Four, NEW e \in Four, NEW k \in 0 .. 3
  PROVE  DownBytes(c, e, k) \in Four
         /\ DownTo(NumOf(c), NumOf(e), k) = NumOf(DownBytes(c, e, k))
<1>1. PICK c0, c1, c2, c3 \in Byte :
        c0 = c[0] /\ c1 = c[1] /\ c2 = c[2] /\ c3 = c[3]
  BY DEF Four
<1>2. PICK e0, e1, e2, e3 \in Byte :
        e0 = e[0] /\ e1 = e[1] /\ e2 = e[2] /\ e3 = e[3]
  BY DEF Four
<1>3. PICK x, y : x = Num(c0, c1, c2, c3) /\ y = Num(e0, e1, e2, e3)
  OBVIOUS
<1>4. x = NumOf(c) /\ y = NumOf(e)
  BY <1>1, <1>2, <1>3 DEF NumOf
<1>5. PICK R \in Nat \ {0} : R = Radix /\ R >= 2
  BY Powers
<1>6. /\ c0 \in Int /\ c1 \in Int /\ c2 \in Int /\ c3 \in Int
      /\ e0 \in Int /\ e1 \in Int /\ e2 \in Int /\ e3 \in Int
  BY <1>5 DEF Byte
<1>7. DownBytes(c, e, k) \in Four
  BY DEF DownBytes, Four
<1>8. /\ x \div Size(0) = x
      /\ x \div Size(1) = c1 + R * (c2 + R * c3)
      /\ x \div Size(2) = c2 + R * c3
      /\ x \div Size(3) = c3
  <2>0. Quotients(x, c0, c1, c2, c3)
    BY <1>3, NumShifts
  <2>1. /\ x \div Size(0) = x
        /\ x \div Size(1) = c1 + Radix * (c2 + Radix * c3)
        /\ x \div Size(2) = c2 + Radix * c3
        /\ x \div Size(3) = c3
    BY <2>0 DEF Quotients
  <2> QED
    BY <1>5, <2>1, Zenon
<1>9. /\ y \div Size(4) = 0 /\ y \div Size(3) = e3
      /\ y \div Size(2) = e2 + R * e3
      /\ y \div Size(1) = e1 + R * (e2 + R * e3)
  <2>0. Quotients(y, e0, e1, e2, e3)
    BY <1>3, NumShifts
  <2>1. /\ y \div Size(4) = 0 /\ y \div Size(3) = e3
        /\ y \div Size(2) = e2 + Radix * e3
        /\ y \div Size(1) = e1 + Radix * (e2 + Radix * e3)
    BY <2>0 DEF Quotients
  <2> QED
    BY <1>5, <2>1, Zenon
<1>10. /\ Size(1) = R /\ Size(2) = R * R /\ Size(3) = R * (R * R)
       /\ Size(4) \in Int
  BY <1>5, Powers
<1>11. CASE k = 0
  <2>1. NumOf(DownBytes(c, e, k)) = x
    BY <1>1, <1>3, <1>11 DEF NumOf, DownBytes
  <2>2. DownTo(x, y, k) = x + 0 * Size(4)
    BY <1>8, <1>9, <1>11 DEF DownTo
  <2>3. x \in Int
    BY <1>3, <1>5, <1>6 DEF Num
  <2> QED
    BY <1>4, <1>7, <1>10, <2>1, <2>2, <2>3
<1>12. CASE k = 1
  <2>1. NumOf(DownBytes(c, e, k)) = Num(c1, c2, c3, e3)
    BY <1>1, <1>2, <1>12 DEF NumOf, DownBytes
  <2>2. DownTo(x, y, k) = (c1 + R * (c2 + R * c3)) + e3 * (R * (R * R))
    BY <1>8, <1>9, <1>10, <1>12 DEF DownTo
  <2> QED
    BY <1>4, <1>5, <1>6, <1>7, <2>1, <2>2 DEF Num
<1>13. CASE k = 2
  <2>1. NumOf(DownBytes(c, e, k)) = Num(c2, c3, e2, e3)
    BY <1>1, <1>2, <1>13 DEF NumOf, DownBytes
  <2>2. DownTo(x, y, k) = (c2 + R * c3) + (e2 + R * e3) * (R * R)
    BY <1>8, <1>9, <1>10, <1>13 DEF DownTo
  <2> QED
    BY <1>4, <1>5, <1>6, <1>7, <2>1, <2>2 DEF Num
<1>14. CASE k = 3
  <2>1. NumOf(DownBytes(c, e, k)) = Num(c3, e1, e2, e3)
    BY <1>1, <1>2, <1>14 DEF NumOf, DownBytes
  <2>2. DownTo(x, y, k) = c3 + (e1 + R * (e2 + R * e3)) * R
    BY <1>8, <1>9, <1>10, <1>14 DEF DownTo
  <2> QED
    BY <1>4, <1>5, <1>6, <1>7, <2>1, <2>2 DEF Num
<1> QED
  BY <1>11, <1>12, <1>13, <1>14

(* The four instructions, as such shifts.                                  *)
LEMMA Unaligned ==
  ASSUME NEW word \in Word, NEW v \in Nat, r \in Word
  PROVE  /\ StoredRight(word, v) = Up(r, word, v % 4)
         /\ LoadedLeft(word, v) = Up(word, r, 3 - (v % 4))
         /\ LoadedRight(word, v) = DownTo(word, r, v % 4)
         /\ StoredLeft(word, v) = DownTo(r, word, 3 - (v % 4))
<1>1. PICK m \in 0 .. 3 : m = v % 4
  OBVIOUS
<1>2. /\ StoredRight(word, v) = Up(r, word, m)
      /\ LoadedLeft(word, v) = Up(word, r, 3 - m)
      /\ LoadedRight(word, v) = DownTo(word, r, m)
  BY <1>1 DEF StoredRight, LoadedLeft, LoadedRight, Up, DownTo
<1>3. StoredLeft(word, v) = DownTo(r, word, 3 - m)
  <2>1. PICK s, q : s = (word \div Size(4 - (3 - m))) * Size(4 - (3 - m))
                    /\ q = r \div Size(3 - m)
    OBVIOUS
  <2>2. \A n \in 0 .. 4 : Size(n) \in Nat \ {0}
    <3>1. PICK R \in Nat \ {0} : R = Radix
      BY Powers
    <3>2. \A a, b \in Nat \ {0} : a * b \in Nat \ {0}
      OBVIOUS
    <3>3. /\ R * R \in Nat \ {0} /\ R * (R * R) \in Nat \ {0}
          /\ R * (R * (R * R)) \in Nat \ {0}
      BY <3>1, <3>2
    <3>4. \A n \in 0 .. 4 : n = 0 \/ n = 1 \/ n = 2 \/ n = 3 \/ n = 4
      OBVIOUS
    <3> QED
      BY <3>1, <3>3, <3>4, Powers
  <2>3. s \in Nat /\ q \in Nat
    <3>1. PICK z1 \in Nat \ {0} : z1 = Size(4 - (3 - m))
      BY <2>2
    <3>2. PICK z2 \in Nat \ {0} : z2 = Size(3 - m)
      BY <2>2
    <3>3. word \in Nat /\ r \in Nat
      BY <2>2 DEF Word
    <3>4. PICK d1, d2 \in Nat : d1 = word \div z1 /\ d2 = r \div z2
      BY <3>3, Division
    <3>5. d1 * z1 \in Nat
      OBVIOUS
    <3> QED
      BY <2>1, <3>1, <3>2, <3>4, <3>5
  <2> QED
    BY <1>1, <2>1, <2>3 DEF StoredLeft, DownTo
<1> QED
  BY <1>1, <1>2, <1>3

-----------------------------------------------------------------------------
(* The register as bytes.                                                  *)
LEMMA RegFacts ==
  ASSUME r \in Word
  PROVE  /\ RegBytes \in Four /\ r = NumOf(RegBytes)
         /\ r % Size(1) = RegBytes[0]
         /\ r % Size(2) = Half(RegBytes[0], RegBytes[1])
         /\ r % Size(4) = r
<1>1. RegBytes \in Four /\ r = NumOf(RegBytes)
  BY NumOfBytes DEF RegBytes, BytesOf
<1>2. PICK b0, b1, b2, b3 \in Byte :
        /\ b0 = RegBytes[0] /\ b1 = RegBytes[1]
        /\ r = Num(b0, b1, b2, b3)
  BY <1>1 DEF Four, NumOf
<1>3. PICK x : x = r
  OBVIOUS
<1>4. /\ x % Size(1) = b0 /\ x % Size(2) = b0 + Radix * b1
      /\ x % Size(4) = x
  BY <1>2, <1>3, NumParts
<1> QED
  BY <1>1, <1>2, <1>3, <1>4 DEF Half

(* A register that is set to the bytes c.                                  *)
LEMMA RegSet ==
  ASSUME NEW c \in Four, NumOf(c) = r'
  PROVE  RegBytes' = c /\ r' \in Word
BY BytesOfNum DEF RegBytes, BytesOf

(* What a load finds: the bytes of its word, of its half, and its byte.    *)
LEMMA WordRead ==
  ASSUME PagesOK, NEW a \in Address
  PROVE  /\ WordAt(a) \in Word
         /\ BytesOf(WordAt(a)) = [k \in 0 .. 3 |-> MemBytes[Base(a) + k]]
         /\ BytesOf(WordAt(a)) \in Four
         /\ WordAt(a) = NumOf(BytesOf(WordAt(a)))
BY WordAtFacts, WordBytes, NumOfBytes

LEMMA ByteRead ==
  ASSUME PagesOK, NEW a \in Address
  PROVE  Read(a, 1) = MemBytes[a] /\ MemBytes[a] \in Byte
<1>1. Read(a, 1) = MemBytes[a]
  BY DEF MemBytes, ByteAt
<1>2. Read(a, 1) = Extract(WordAt(a), a % 4, 1)
  BY WordAtFacts DEF ByteAt
<1>3. a % 4 \in 0 .. 3
  BY OffsetFacts
<1> QED
  BY <1>1, <1>2, <1>3, WordAtFacts, ByteFacts

LEMMA HalfRead ==
  ASSUME PagesOK, NEW v \in Address, NEW a, a = v - (v % 2)
  PROVE  /\ a \in Address /\ a % 2 = 0 /\ a + 1 \in Address
         /\ MemBytes[a] \in Byte /\ MemBytes[a + 1] \in Byte
         /\ Read(v, 2) = Half(MemBytes[a], MemBytes[a + 1])
<1>1. v \in Nat
  BY OffsetFacts
<1>2. PICK k \in {0, 2} : k = (v % 4) - (v % 2)
  BY <1>1
<1>3. a = Base(v) + k /\ a + 1 = Base(v) + (k + 1) /\ a % 2 = 0
  BY <1>1, <1>2 DEF Base
<1>4. a \in Address /\ a + 1 \in Address
  <2>1. k \in 0 .. 3 /\ k + 1 \in 0 .. 3
    BY <1>2
  <2> QED
    BY <1>3, <2>1, BaseFacts
<1>5. PICK w \in Word, b \in Four :
        /\ w = WordAt(v) /\ w = NumOf(b)
        /\ b = [j \in 0 .. 3 |-> MemBytes[Base(v) + j]]
  BY WordRead
<1>6. PICK b0, b1, b2, b3 \in Byte :
        b0 = b[0] /\ b1 = b[1] /\ b2 = b[2] /\ b3 = b[3]
  BY DEF Four
<1>7. w = Num(b0, b1, b2, b3)
  BY <1>5, <1>6 DEF NumOf
<1>8. Extract(w, 0, 2) = b0 + Radix * b1 /\ Extract(w, 2, 2) = b2 + Radix * b3
  BY <1>7, NumBytes
<1>9. Read(v, 2) = Extract(w, k, 2)
  BY <1>2, <1>5, OffsetFacts DEF Read, read2b, Lane2, WordAt
<1>10. /\ b0 = MemBytes[Base(v) + 0] /\ b1 = MemBytes[Base(v) + 1]
       /\ b2 = MemBytes[Base(v) + 2] /\ b3 = MemBytes[Base(v) + 3]
  BY <1>5, <1>6
<1>11. Read(v, 2) = Half(MemBytes[a], MemBytes[a + 1])
       /\ MemBytes[a] \in Byte /\ MemBytes[a + 1] \in Byte
  <2>1. CASE k = 0
    BY <1>3, <1>8, <1>9, <1>10, <2>1 DEF Half
  <2>2. CASE k = 2
    BY <1>3, <1>8, <1>9, <1>10, <2>2 DEF Half
  <2> QED
    BY <1>2, <2>1, <2>2
<1> QED
  BY <1>3, <1>4, <1>11

LEMMA FourRead ==
  ASSUME NEW v \in Address
  PROVE  Read(v, 4) = WordAt(v)
BY DEF Read, WordAt

(* The sign of a byte, four times over, and exts32.                        *)
LEMMA ExtensionIs ==
  ASSUME NEW b \in Byte
  PROVE  /\ Abstract!Extension(b) = IF 2 * b >= Radix THEN Radix - 1 ELSE 0
         /\ Radix - 1 \in Byte /\ 0 \in Byte
<1>1. PICK R \in Nat \ {0} : R = Radix /\ R >= 2
  BY Powers
<1>2. b \in 0 .. R - 1
  BY <1>1 DEF Byte
<1>3. PICK top : top = CHOOSE x \in 0 .. R - 1 : \A y \in 0 .. R - 1 : x >= y
  OBVIOUS
<1>4. top = R - 1
  <2>1. R - 1 \in 0 .. R - 1 /\ \A y \in 0 .. R - 1 : R - 1 >= y
    BY <1>1
  <2>2. top \in 0 .. R - 1 /\ \A y \in 0 .. R - 1 : top >= y
    BY <1>3, <2>1
  <2> QED
    BY <1>1, <2>1, <2>2
<1>5. Abstract!Extension(b) = IF 2 * b > top THEN top ELSE 0
  BY <1>1, <1>3 DEF Abstract!Extension
<1> QED
  BY <1>1, <1>2, <1>4, <1>5 DEF Byte

ByteLoaded(d0, e) == [k \in 0 .. 3 |-> IF k < 1 THEN d0 ELSE e]
HalfLoaded(d0, d1, e) ==
  [k \in 0 .. 3 |-> IF k = 0 THEN d0 ELSE IF k = 1 THEN d1 ELSE e]

LEMMA ByteExtended ==
  ASSUME NEW d0 \in Byte
  PROVE  /\ d0 = NumOf(ByteLoaded(d0, 0)) /\ ByteLoaded(d0, 0) \in Four
         /\ exts32(d0, 1) = NumOf(ByteLoaded(d0, Abstract!Extension(d0)))
         /\ ByteLoaded(d0, Abstract!Extension(d0)) \in Four
<1>1. PICK R \in Nat \ {0} : R = Radix /\ R >= 2
  BY Powers
<1>2. d0 \in 0 .. R - 1
  BY <1>1 DEF Byte
<1>3. PICK e \in Byte :
        /\ e = Abstract!Extension(d0)
        /\ e = IF 2 * d0 >= R THEN R - 1 ELSE 0
  BY <1>1, ExtensionIs
<1>4. ByteLoaded(d0, 0) \in Four /\ ByteLoaded(d0, e) \in Four
  BY ExtensionIs DEF ByteLoaded, Four
<1>5. /\ NumOf(ByteLoaded(d0, 0)) = Num(d0, 0, 0, 0)
      /\ NumOf(ByteLoaded(d0, e)) = Num(d0, e, e, e)
  BY DEF ByteLoaded, NumOf
<1>6. Num(d0, 0, 0, 0) = d0
  BY <1>1, <1>2 DEF Num
<1>7. exts32(d0, 1) = Num(d0, e, e, e)
  <2>1. CASE 2 * d0 >= R
    <3>1. exts32(d0, 1) = d0 + (R * (R * (R * R))) - R
      BY <1>1, <2>1, Powers DEF exts32
    <3>2. Num(d0, e, e, e)
            = d0 + R * ((R - 1) + R * ((R - 1) + R * (R - 1)))
      BY <1>1, <1>3, <2>1 DEF Num
    <3> QED
      BY <1>1, <1>2, <3>1, <3>2
  <2>2. CASE ~ (2 * d0 >= R)
    BY <1>1, <1>3, <1>6, <2>2, Powers DEF exts32
  <2> QED
    BY <2>1, <2>2
<1> QED
  BY <1>3, <1>4, <1>5, <1>6, <1>7

LEMMA HalfExtended ==
  ASSUME NEW d0 \in Byte, NEW d1 \in Byte, NEW d, d = Half(d0, d1)
  PROVE  /\ d = NumOf(HalfLoaded(d0, d1, 0)) /\ HalfLoaded(d0, d1, 0) \in Four
         /\ exts32(d, 2) = NumOf(HalfLoaded(d0, d1, Abstract!Extension(d1)))
         /\ HalfLoaded(d0, d1, Abstract!Extension(d1)) \in Four
<1>1. PICK h \in Nat \ {0} : Radix = 2 * h
  <2>1. Radix = 2 * (Radix \div 2) /\ Radix \div 2 \in Nat \ {0}
    BY MemoryAssumption
  <2> QED
    BY <2>1
<1>2. PICK R \in Nat \ {0} : R = Radix /\ R >= 2 /\ R = 2 * h
  BY <1>1, Powers
<1>3. d0 \in 0 .. R - 1 /\ d1 \in 0 .. R - 1 /\ d = d0 + R * d1
  BY <1>2 DEF Byte, Half
<1>4. PICK e \in Byte :
        /\ e = Abstract!Extension(d1)
        /\ e = IF 2 * d1 >= R THEN R - 1 ELSE 0
  BY <1>2, ExtensionIs
<1>5. HalfLoaded(d0, d1, 0) \in Four /\ HalfLoaded(d0, d1, e) \in Four
  BY ExtensionIs DEF HalfLoaded, Four
<1>6. /\ NumOf(HalfLoaded(d0, d1, 0)) = Num(d0, d1, 0, 0)
      /\ NumOf(HalfLoaded(d0, d1, e)) = Num(d0, d1, e, e)
  BY DEF HalfLoaded, NumOf
<1>7. Num(d0, d1, 0, 0) = d
  BY <1>2, <1>3 DEF Num
<1>8. 2 * d >= R * R <=> 2 * d1 >= R
  <2>1. CASE d1 >= h
    <3>1. PICK f \in Nat : d1 = h + f
      <4>1. d1 - h \in Nat /\ d1 = h + (d1 - h)
        BY <1>3, <2>1
      <4> QED
        BY <4>1
    <3>2. R * d1 = R * h + R * f /\ R * f \in Nat
      BY <3>1, <1>2
    <3>3. R * R = 2 * (R * h)
      BY <1>2
    <3> QED
      BY <1>2, <1>3, <2>1, <3>2, <3>3
  <2>2. CASE ~ (d1 >= h)
    <3>1. PICK f \in Nat : h = d1 + 1 + f
      <4>1. h - 1 - d1 \in Nat /\ h = d1 + 1 + (h - 1 - d1)
        BY <1>3, <2>2
      <4> QED
        BY <4>1
    <3>2. R * h = R * d1 + R + R * f /\ R * f \in Nat
      BY <3>1, <1>2, <1>3
    <3>3. R * R = 2 * (R * h)
      BY <1>2
    <3> QED
      BY <1>2, <1>3, <2>2, <3>2, <3>3
  <2> QED
    BY <2>1, <2>2
<1>9. exts32(d, 2) = Num(d0, d1, e, e)
  <2>1. CASE 2 * d1 >= R
    <3>1. exts32(d, 2) = d + (R * (R * (R * R))) - (R * R)
      BY <1>2, <1>8, <2>1, Powers DEF exts32
    <3>2. Num(d0, d1, e, e) = d0 + R * (d1 + R * ((R - 1) + R * (R - 1)))
      BY <1>2, <1>4, <2>1 DEF Num
    <3> QED
      BY <1>2, <1>3, <3>1, <3>2
  <2>2. CASE ~ (2 * d1 >= R)
    <3>1. exts32(d, 2) = d
      BY <1>2, <1>8, <2>2, Powers DEF exts32
    <3> QED
      BY <1>4, <1>7, <2>2, <3>1
  <2> QED
    BY <2>1, <2>2
<1> QED
  BY <1>4, <1>5, <1>6, <1>7, <1>9

-----------------------------------------------------------------------------
(* The loads.                                                              *)
LEMMA ByteLoadStep ==
  ASSUME PagesOK, NEW v \in Address, NEW signed \in BOOLEAN,
         r' = IF signed THEN exts32(Read(v, 1), 1) ELSE Read(v, 1)
  PROVE  r' \in Word /\ Abstract!Load(v, 1, signed)
<1>1. PICK d0 \in Byte : d0 = MemBytes[v] /\ d0 = Read(v, 1)
  BY ByteRead
<1>2. PICK e : e = IF signed THEN Abstract!Extension(d0) ELSE 0
  OBVIOUS
<1>3. PICK c : c = ByteLoaded(d0, e)
  OBVIOUS
<1>4. c \in Four /\ NumOf(c) = r'
  <2>1. /\ d0 = NumOf(ByteLoaded(d0, 0)) /\ ByteLoaded(d0, 0) \in Four
        /\ exts32(d0, 1) = NumOf(ByteLoaded(d0, Abstract!Extension(d0)))
        /\ ByteLoaded(d0, Abstract!Extension(d0)) \in Four
    BY ByteExtended
  <2> QED
    BY <1>1, <1>2, <1>3, <2>1
<1>5. RegBytes' = c /\ r' \in Word
  BY <1>4, RegSet
<1>6. v \in Nat
  BY OffsetFacts
<1>7. c = [k \in 0 .. 3 |->
             IF k < 1 THEN MemBytes[v + k]
             ELSE IF signed THEN Abstract!Extension(MemBytes[v + 1 - 1]) ELSE 0]
  <2>1. v + 1 - 1 = v /\ \A k \in 0 .. 3 : k < 1 => v + k = v
    BY <1>6
  <2> QED
    BY <1>1, <1>2, <1>3, <2>1 DEF ByteLoaded
<1> QED
  BY <1>5, <1>7 DEF Abstract!Load

LEMMA HalfLoadStep ==
  ASSUME PagesOK, NEW v \in Address, NEW signed \in BOOLEAN,
         r' = IF signed THEN exts32(Read(v, 2), 2) ELSE Read(v, 2)
  PROVE  r' \in Word /\ Abstract!Load(Abstract!Down(v, 2), 2, signed)
<1>1. PICK a : a = v - (v % 2)
  OBVIOUS
<1>2. PICK d0, d1 \in Byte :
        /\ a \in Address /\ a % 2 = 0
        /\ d0 = MemBytes[a] /\ d1 = MemBytes[a + 1]
        /\ Read(v, 2) = Half(d0, d1)
  BY <1>1, HalfRead
<1>3. PICK e : e = IF signed THEN Abstract!Extension(d1) ELSE 0
  OBVIOUS
<1>4. PICK c : c = HalfLoaded(d0, d1, e)
  OBVIOUS
<1>5. PICK d : d = Half(d0, d1)
  OBVIOUS
<1>6. c \in Four /\ NumOf(c) = r'
  <2>1. /\ d = NumOf(HalfLoaded(d0, d1, 0)) /\ HalfLoaded(d0, d1, 0) \in Four
        /\ exts32(d, 2) = NumOf(HalfLoaded(d0, d1, Abstract!Extension(d1)))
        /\ HalfLoaded(d0, d1, Abstract!Extension(d1)) \in Four
    BY <1>5, HalfExtended
  <2> QED
    BY <1>2, <1>3, <1>4, <1>5, <2>1
<1>7. RegBytes' = c /\ r' \in Word
  BY <1>6, RegSet
<1>8. a \in Nat
  BY <1>2, OffsetFacts
<1>9. c = [k \in 0 .. 3 |->
             IF k < 2 THEN MemBytes[a + k]
             ELSE IF signed THEN Abstract!Extension(MemBytes[a + 2 - 1]) ELSE 0]
  <2>1. a + 2 - 1 = a + 1 /\ a + 0 = a
    BY <1>8
  <2>2. \A k \in 0 .. 3 : k < 2 <=> (k = 0 \/ k = 1)
    OBVIOUS
  <2> QED
    BY <1>2, <1>3, <1>4, <2>1, <2>2 DEF HalfLoaded
<1> QED
  BY <1>1, <1>7, <1>9 DEF Abstract!Load, Abstract!Down

LEMMA WordLoadStep ==
  ASSUME PagesOK, NEW v \in Address, r' = Read(v, 4)
  PROVE  r' \in Word /\ Abstract!Load(Abstract!Down(v, 4), 4, FALSE)
<1>1. PICK w \in Word, c \in Four :
        /\ w = WordAt(v) /\ w = NumOf(c)
        /\ c = [k \in 0 .. 3 |-> MemBytes[Base(v) + k]]
  BY WordRead
<1>2. RegBytes' = c /\ r' \in Word
  BY <1>1, FourRead, RegSet
<1>3. PICK a \in Address : a = Base(v) /\ a % 4 = 0
  <2>1. Base(v) + 0 \in Address /\ (Base(v) + 0) % 4 = 0 /\ Base(v) \in Nat
    BY BaseFacts
  <2> QED
    BY <2>1
<1>4. c = [k \in 0 .. 3 |->
             IF k < 4 THEN MemBytes[a + k]
             ELSE IF FALSE THEN Abstract!Extension(MemBytes[a + 4 - 1]) ELSE 0]
  BY <1>1, <1>3
<1> QED
  BY <1>2, <1>3, <1>4 DEF Abstract!Load, Abstract!Down, Base

LEMMA LoadsStep ==
  ASSUME PagesOK, r \in Word, NEW v \in Address, NEW inst \in LoadOps,
         Loads(inst, v)
  PROVE  PagesOK' /\ r' \in Word /\ Abstract!LoadAccess(inst, v)
<1>1. PagesOK' /\ UNCHANGED MemBytes
  BY LoadKeeps DEF Loads
<1>2. CASE inst \in {"LB", "LBU"}
  <2>1. PICK signed \in BOOLEAN : signed = (inst = "LB")
    OBVIOUS
  <2>2. r' = IF signed THEN exts32(Read(v, 1), 1) ELSE Read(v, 1)
    BY <1>2, <2>1 DEF Loads, Bytes
  <2>3. r' \in Word /\ Abstract!Load(v, 1, signed)
    BY <2>2, ByteLoadStep
  <2>4. Abstract!Width(inst) = 1 /\ Abstract!Down(v, 1) = v
    BY <1>2, OffsetFacts DEF Abstract!Width, Abstract!Down
  <2> QED
    BY <1>1, <1>2, <2>1, <2>3, <2>4 DEF Abstract!LoadAccess
<1>3. CASE inst \in {"LH", "LHU"}
  <2>1. PICK signed \in BOOLEAN : signed = (inst = "LH")
    OBVIOUS
  <2>2. r' = IF signed THEN exts32(Read(v, 2), 2) ELSE Read(v, 2)
    BY <1>3, <2>1 DEF Loads, Bytes
  <2>3. r' \in Word /\ Abstract!Load(Abstract!Down(v, 2), 2, signed)
    BY <2>2, HalfLoadStep
  <2>4. Abstract!Width(inst) = 2
    BY <1>3 DEF Abstract!Width
  <2> QED
    BY <1>1, <1>3, <2>1, <2>3, <2>4 DEF Abstract!LoadAccess
<1>4. CASE inst = "LW"
  <2>1. r' = Read(v, 4)
    BY <1>4 DEF Loads, Bytes
  <2>2. r' \in Word /\ Abstract!Load(Abstract!Down(v, 4), 4, FALSE)
    BY <2>1, WordLoadStep
  <2>3. Abstract!Width(inst) = 4
    BY <1>4 DEF Abstract!Width
  <2>4. Abstract!Load(Abstract!Down(v, 4), 4, inst \in {"LB", "LH"})
    BY <1>4, <2>2 DEF Abstract!Load
  <2> QED
    BY <1>1, <1>4, <2>2, <2>3, <2>4 DEF Abstract!LoadAccess
<1> QED
  BY <1>2, <1>3, <1>4 DEF LoadOps

(* LWR and LWL.                                                            *)
LEMMA LoadsUnalignedStep ==
  ASSUME PagesOK, r \in Word, NEW v \in Address, NEW inst \in {"LWR", "LWL"},
         LoadsUnaligned(inst, v)
  PROVE  PagesOK' /\ r' \in Word /\ Abstract!LoadAccess(inst, v)
<1>1. PagesOK' /\ UNCHANGED MemBytes
  BY LoadKeeps DEF LoadsUnaligned
<1>2. PICK u \in Address :
        u = Base(v) /\ Base(u) = u /\ v \in Nat /\ u \div 4 = v \div 4
  <2>1. Base(v) + 0 \in Address /\ (Base(v) + 0) % 4 = 0 /\ Base(v) \in Nat
        /\ (Base(v) + 0) \div 4 = v \div 4
    BY BaseFacts
  <2>2. v \in Nat
    BY OffsetFacts
  <2> QED
    BY <2>1, <2>2 DEF Base
<1>3. PICK w \in Word, b \in Four :
        /\ w = WordAt(u) /\ w = NumOf(b)
        /\ b = [k \in 0 .. 3 |-> MemBytes[u + k]]
  <2>1. /\ WordAt(u) \in Word
        /\ BytesOf(WordAt(u)) = [k \in 0 .. 3 |-> MemBytes[Base(u) + k]]
        /\ BytesOf(WordAt(u)) \in Four
        /\ WordAt(u) = NumOf(BytesOf(WordAt(u)))
    BY WordRead
  <2> QED
    BY <1>2, <2>1
<1>4. Read(v - (v % 4), 4) = w
  BY <1>2, <1>3, FourRead DEF Base
<1>5. PICK g \in Four : g = RegBytes /\ r = NumOf(g)
  BY RegFacts
<1>6. PICK m \in 0 .. 3 : m = v % 4 /\ v = u + m
  BY <1>2 DEF Base
<1>7. CASE inst = "LWR"
  <2>1. PICK c : c = DownBytes(b, g, m)
    OBVIOUS
  <2>2. c \in Four /\ DownTo(w, r, m) = NumOf(c)
    BY <1>3, <1>5, <2>1, DownIs
  <2>3. r' = LoadedRight(w, v)
    BY <1>4, <1>7 DEF LoadsUnaligned
  <2>4. NumOf(c) = r'
    BY <1>2, <1>6, <2>2, <2>3, Unaligned
  <2>5. RegBytes' = c /\ r' \in Word
    BY <2>2, <2>4, RegSet
  <2>6. c = [k \in 0 .. 3 |->
               IF v + k < Abstract!Down(v, 4) + 4 THEN MemBytes[v + k]
                                                  ELSE RegBytes[k]]
    <3>1. Abstract!Down(v, 4) = u
      BY <1>2 DEF Abstract!Down, Base
    <3>2. u \in Nat
      BY OffsetFacts
    <3>3. ASSUME NEW k \in 0 .. 3
          PROVE  /\ k + m < 4 <=> v + k < u + 4
                 /\ k + m < 4 => b[k + m] = MemBytes[v + k]
      <4>1. v + k = u + (k + m)
        BY <1>6, <3>2
      <4>2. k + m < 4 => k + m \in 0 .. 3
        OBVIOUS
      <4> QED
        BY <1>3, <3>2, <4>1, <4>2
    <3> QED
      BY <1>5, <2>1, <3>1, <3>3 DEF DownBytes
  <2>7. Abstract!LoadRight(v)
    BY <2>5, <2>6 DEF Abstract!LoadRight
  <2> QED
    BY <1>1, <1>7, <2>5, <2>7 DEF Abstract!LoadAccess
<1>8. CASE inst = "LWL"
  <2>1. PICK c : c = UpBytes(b, g, 3 - m)
    OBVIOUS
  <2>2. c \in Four /\ Up(w, r, 3 - m) = NumOf(c)
    <3>1. 3 - m \in 0 .. 3
      OBVIOUS
    <3> QED
      BY <1>3, <1>5, <2>1, <3>1, UpIs
  <2>3. r' = LoadedLeft(w, v)
    BY <1>4, <1>8 DEF LoadsUnaligned
  <2>4. NumOf(c) = r'
    BY <1>2, <1>6, <2>2, <2>3, Unaligned
  <2>5. RegBytes' = c /\ r' \in Word
    BY <2>2, <2>4, RegSet
  <2>6. c = [k \in 0 .. 3 |->
               IF v - 3 + k >= Abstract!Down(v, 4) THEN MemBytes[v - 3 + k]
                                                   ELSE RegBytes[k]]
    <3>1. Abstract!Down(v, 4) = u
      BY <1>2 DEF Abstract!Down, Base
    <3>2. u \in Nat
      BY OffsetFacts
    <3>3. ASSUME NEW k \in 0 .. 3
          PROVE  /\ k >= 3 - m <=> v - 3 + k >= u
                 /\ k >= 3 - m => b[k - (3 - m)] = MemBytes[v - 3 + k]
      <4>1. v - 3 + k = u + (k - (3 - m))
        BY <1>6, <3>2
      <4>2. k >= 3 - m => k - (3 - m) \in 0 .. 3
        OBVIOUS
      <4> QED
        BY <1>3, <3>2, <4>1, <4>2
    <3> QED
      BY <1>5, <2>1, <3>1, <3>3 DEF UpBytes
  <2>7. Abstract!LoadLeft(v)
    BY <2>5, <2>6 DEF Abstract!LoadLeft
  <2> QED
    BY <1>1, <1>8, <2>5, <2>7 DEF Abstract!LoadAccess
<1> QED
  BY <1>7, <1>8

-----------------------------------------------------------------------------
(* The stores.                                                             *)
LEMMA RegKept ==
  ASSUME r \in Word, r' = r
  PROVE  r' \in Word /\ RegBytes' = RegBytes
BY DEF RegBytes, Extract, Size, Word

LEMMA StoresStep ==
  ASSUME PagesOK, r \in Word, NEW v \in Address, NEW inst \in StoreOps,
         Stores(inst, v)
  PROVE  PagesOK' /\ r' \in Word /\ Abstract!StoreAccess(inst, v)
<1>1. PICK g \in Four :
        /\ g = RegBytes /\ r = NumOf(g)
        /\ r % Size(1) = g[0] /\ r % Size(2) = Half(g[0], g[1])
        /\ r % Size(4) = r
  BY RegFacts
<1>2. v \in Nat
  BY OffsetFacts
<1>3. CASE inst = "SB"
  <2>1. PICK d \in Byte : d = g[0]
    BY DEF Four
  <2>2. pagetable' = Written(v, 1, d) /\ r' = r
    BY <1>1, <1>3, <2>1 DEF Stores, Bytes
  <2>3. PagesOK'
        /\ MemBytes' = [x \in Address |-> IF x = v THEN d ELSE MemBytes[x]]
    BY <2>2, ByteStored
  <2>4. Abstract!Store(v, 1)
    <3>1. ASSUME NEW x \in Address
          PROVE  (IF x = v THEN d ELSE MemBytes[x])
                   = IF v <= x /\ x < v + 1 THEN RegBytes[x - v]
                                            ELSE MemBytes[x]
      <4>1. x \in Nat
        BY OffsetFacts
      <4>2. v <= x /\ x < v + 1 <=> x = v
        BY <1>2, <4>1
      <4>3. x = v => x - v = 0
        BY <1>2
      <4> QED
        BY <1>1, <2>1, <4>2, <4>3
    <3> QED
      BY <2>3, <3>1 DEF Abstract!Store
  <2>5. Abstract!Width(inst) = 1 /\ Abstract!Down(v, 1) = v
    BY <1>2, <1>3 DEF Abstract!Width, Abstract!Down
  <2> QED
    BY <1>3, <2>2, <2>3, <2>4, <2>5, RegKept DEF Abstract!StoreAccess
<1>4. CASE inst = "SH"
  <2>1. PICK d : d = Half(g[0], g[1])
    OBVIOUS
  <2>2. pagetable' = Written(v, 2, d) /\ r' = r
    BY <1>1, <1>4, <2>1 DEF Stores, Bytes
  <2>3. PICK a : a = v - (v % 2)
    OBVIOUS
  <2>4. /\ PagesOK' /\ a \in Address /\ a % 2 = 0
        /\ MemBytes' = [x \in Address |->
                          IF a <= x /\ x < a + 2 THEN g[x - a] ELSE MemBytes[x]]
    BY <2>1, <2>2, <2>3, HalfStored
  <2>5. Abstract!Store(a, 2)
    BY <1>1, <2>4 DEF Abstract!Store
  <2>6. Abstract!Width(inst) = 2 /\ Abstract!Down(v, 2) = a
    BY <1>4, <2>3 DEF Abstract!Width, Abstract!Down
  <2> QED
    BY <1>4, <2>2, <2>4, <2>5, <2>6, RegKept DEF Abstract!StoreAccess
<1>5. CASE inst \in {"SW", "SC"}
  <2>1. StoresWord(v, g) /\ r' = IF inst = "SC" THEN 1 ELSE r
    <3>1. pagetable' = Written(v, 4, r) /\ r' = IF inst = "SC" THEN 1 ELSE r
      BY <1>1, <1>5 DEF Stores, Bytes
    <3>2. pagetable' = write4b(Device[v], Offset(v), r)
      BY <3>1 DEF Written
    <3> QED
      BY <1>1, <3>1, <3>2 DEF StoresWord
  <2>2. PagesOK' /\ BytesStored(v, g)
    BY <2>1, WordStored
  <2>3. PICK a \in Address : a = Base(v) /\ a % 4 = 0
    <3>1. Base(v) + 0 \in Address /\ (Base(v) + 0) % 4 = 0 /\ Base(v) \in Nat
      BY BaseFacts
    <3> QED
      BY <3>1
  <2>4. Abstract!Store(a, 4)
    <3>1. ASSUME NEW x \in Address
          PROVE  (IF x \div 4 = v \div 4 THEN g[x % 4] ELSE MemBytes[x])
                   = IF a <= x /\ x < a + 4 THEN RegBytes[x - a]
                                            ELSE MemBytes[x]
      <4>1. x \in Nat /\ a \in Nat
        BY OffsetFacts
      <4>2. x \div 4 = v \div 4 <=> a <= x /\ x < a + 4
        BY <1>2, <2>3, <4>1 DEF Base
      <4>3. x \div 4 = v \div 4 => x - a = x % 4
        BY <1>2, <2>3, <4>1 DEF Base
      <4> QED
        BY <1>1, <4>2, <4>3
    <3> QED
      BY <2>2, <3>1 DEF BytesStored, Abstract!Store
  <2>5. Abstract!Width(inst) = 4 /\ Abstract!Down(v, 4) = a
    BY <1>5, <2>3 DEF Abstract!Width, Abstract!Down, Base
  <2>6. CASE inst = "SW"
    BY <2>1, <2>2, <2>4, <2>5, <2>6, RegKept DEF Abstract!StoreAccess
  <2>7. CASE inst = "SC"
    <3>1. PICK c : c = [k \in 0 .. 3 |-> IF k = 0 THEN 1 ELSE 0]
      OBVIOUS
    <3>2. c \in Four /\ NumOf(c) = 1
      <4>1. 1 \in Byte /\ 0 \in Byte
        BY Powers DEF Byte
      <4>2. c \in Four
        BY <3>1, <4>1 DEF Four
      <4>3. NumOf(c) = Num(1, 0, 0, 0)
        BY <3>1 DEF NumOf
      <4> QED
        BY <4>2, <4>3, Powers DEF Num
    <3>3. NumOf(c) = r'
      BY <2>1, <2>7, <3>2
    <3>4. RegBytes' = c /\ r' \in Word
      BY <3>2, <3>3, RegSet
    <3>5. RegBytes' = Abstract!One
      BY <3>1, <3>4 DEF Abstract!One
    <3> QED
      BY <2>2, <2>4, <2>5, <2>7, <3>4, <3>5 DEF Abstract!StoreAccess
  <2> QED
    BY <1>5, <2>6, <2>7
<1> QED
  BY <1>3, <1>4, <1>5 DEF StoreOps

(* SWR and SWL.                                                            *)
LEMMA StoresUnalignedStep ==
  ASSUME PagesOK, r \in Word, NEW v \in Address, NEW inst \in {"SWR", "SWL"},
         StoresUnaligned(inst, v)
  PROVE  PagesOK' /\ r' \in Word /\ Abstract!StoreAccess(inst, v)
<1>1. r' = r
  BY DEF StoresUnaligned
<1>2. PICK u \in Address : u = Base(v) /\ Base(u) = u /\ v \in Nat /\ u \in Nat
  <2>1. Base(v) + 0 \in Address /\ (Base(v) + 0) % 4 = 0 /\ Base(v) \in Nat
    BY BaseFacts
  <2>2. v \in Nat
    BY OffsetFacts
  <2> QED
    BY <2>1, <2>2 DEF Base
<1>3. PICK w \in Word, b \in Four :
        /\ w = WordAt(u) /\ w = NumOf(b)
        /\ b = [k \in 0 .. 3 |-> MemBytes[u + k]]
  <2>1. /\ WordAt(u) \in Word
        /\ BytesOf(WordAt(u)) = [k \in 0 .. 3 |-> MemBytes[Base(u) + k]]
        /\ BytesOf(WordAt(u)) \in Four
        /\ WordAt(u) = NumOf(BytesOf(WordAt(u)))
    BY WordRead
  <2> QED
    BY <1>2, <2>1
<1>4. Read(v - (v % 4), 4) = w
  BY <1>2, <1>3, FourRead DEF Base
<1>5. PICK g \in Four : g = RegBytes /\ r = NumOf(g)
  BY RegFacts
<1>6. PICK m \in 0 .. 3 : m = v % 4 /\ v = u + m
  BY <1>2 DEF Base
<1>7. CASE inst = "SWR"
  <2>1. PICK c : c = UpBytes(g, b, m)
    OBVIOUS
  <2>2. c \in Four /\ Up(r, w, m) = NumOf(c)
    BY <1>3, <1>5, <2>1, UpIs
  <2>3. pagetable' = write4b(Device[u], Offset(u), StoredRight(w, v))
    BY <1>2, <1>4, <1>7 DEF StoresUnaligned, Written, Base
  <2>4. StoresWord(u, c)
    BY <1>2, <1>6, <2>2, <2>3, Unaligned DEF StoresWord
  <2>5. PICK part \in SUBSET (0 .. 3) : part = {k \in 0 .. 3 : k >= m}
    OBVIOUS
  <2>6. PICK n : n = [x \in Address |->
                        IF x \div 4 = v \div 4 /\ x % 4 \in part
                        THEN c[x % 4] ELSE MemBytes[x]]
    OBVIOUS
  <2>7. \A k \in (0 .. 3) \ part : c[k] = MemBytes[Base(v) + k]
    BY <1>2, <1>3, <2>1, <2>5 DEF UpBytes
  <2>8. PagesOK' /\ MemBytes' = n
    <3>1. Base(u) = Base(v)
      BY <1>2
    <3> QED
      BY <2>2, <2>4, <2>6, <2>7, <3>1, PartStored
  <2>9. n = [x \in Address |->
               IF v <= x /\ x < Abstract!Down(v, 4) + 4 THEN RegBytes[x - v]
                                                        ELSE MemBytes[x]]
    <3>1. Abstract!Down(v, 4) = u
      BY <1>2 DEF Abstract!Down, Base
    <3>2. ASSUME NEW x \in Address
          PROVE  /\ (x \div 4 = v \div 4 /\ x % 4 \in part)
                    <=> (v <= x /\ x < u + 4)
                 /\ v <= x /\ x < u + 4 => c[x % 4] = RegBytes[x - v]
      <4>1. x \in Nat /\ x % 4 \in 0 .. 3
        BY OffsetFacts
      <4>2. (x \div 4 = v \div 4 /\ x % 4 >= m) <=> (v <= x /\ x < u + 4)
        BY <1>2, <1>6, <4>1 DEF Base
      <4>3. x \div 4 = v \div 4 => (x % 4) - m = x - v
        BY <1>2, <1>6, <4>1 DEF Base
      <4> QED
        BY <1>5, <2>1, <2>5, <4>1, <4>2, <4>3 DEF UpBytes
    <3> QED
      BY <2>6, <3>1, <3>2
  <2>10. Abstract!StoreRight(v)
    BY <2>8, <2>9 DEF Abstract!StoreRight
  <2> QED
    BY <1>1, <1>7, <2>8, <2>10, RegKept DEF Abstract!StoreAccess
<1>8. CASE inst = "SWL"
  <2>1. PICK c : c = DownBytes(g, b, 3 - m)
    OBVIOUS
  <2>2. c \in Four /\ DownTo(r, w, 3 - m) = NumOf(c)
    <3>1. 3 - m \in 0 .. 3
      OBVIOUS
    <3> QED
      BY <1>3, <1>5, <2>1, <3>1, DownIs
  <2>3. pagetable' = write4b(Device[u], Offset(u), StoredLeft(w, v))
    BY <1>2, <1>4, <1>8 DEF StoresUnaligned, Written, Base
  <2>4. StoresWord(u, c)
    BY <1>2, <1>6, <2>2, <2>3, Unaligned DEF StoresWord
  <2>5. PICK part \in SUBSET (0 .. 3) : part = {k \in 0 .. 3 : k <= m}
    OBVIOUS
  <2>6. PICK n : n = [x \in Address |->
                        IF x \div 4 = v \div 4 /\ x % 4 \in part
                        THEN c[x % 4] ELSE MemBytes[x]]
    OBVIOUS
  <2>7. \A k \in (0 .. 3) \ part : c[k] = MemBytes[Base(v) + k]
    BY <1>2, <1>3, <2>1, <2>5 DEF DownBytes
  <2>8. PagesOK' /\ MemBytes' = n
    <3>1. Base(u) = Base(v)
      BY <1>2
    <3> QED
      BY <2>2, <2>4, <2>6, <2>7, <3>1, PartStored
  <2>9. n = [x \in Address |->
               IF Abstract!Down(v, 4) <= x /\ x <= v THEN RegBytes[x - (v - 3)]
                                                     ELSE MemBytes[x]]
    <3>1. Abstract!Down(v, 4) = u
      BY <1>2 DEF Abstract!Down, Base
    <3>2. ASSUME NEW x \in Address
          PROVE  /\ (x \div 4 = v \div 4 /\ x % 4 \in part)
                    <=> (u <= x /\ x <= v)
                 /\ u <= x /\ x <= v => c[x % 4] = RegBytes[x - (v - 3)]
      <4>1. x \in Nat /\ x % 4 \in 0 .. 3
        BY OffsetFacts
      <4>2. (x \div 4 = v \div 4 /\ x % 4 <= m) <=> (u <= x /\ x <= v)
        BY <1>2, <1>6, <4>1 DEF Base
      <4>3. x \div 4 = v \div 4 => (x % 4) + (3 - m) = x - (v - 3)
        BY <1>2, <1>6, <4>1 DEF Base
      <4> QED
        BY <1>5, <2>1, <2>5, <4>1, <4>2, <4>3 DEF DownBytes
    <3> QED
      BY <2>6, <3>1, <3>2
  <2>10. Abstract!StoreLeft(v)
    BY <2>8, <2>9 DEF Abstract!StoreLeft
  <2> QED
    BY <1>1, <1>8, <2>8, <2>10, RegKept DEF Abstract!StoreAccess
<1> QED
  BY <1>7, <1>8

-----------------------------------------------------------------------------
(* What siminit writes is bytes with addresses.                            *)
Entry == [addr : Nat, data : Byte]
Chunk(i) == IF Sections[i].alloc THEN SectionBytes(Sections[i]) ELSE <<>>
Taken(f, n) == f = [i \in 0 .. n |-> IF i = 0 THEN <<>>
                                    ELSE f[i - 1] \o Chunk(i)]

LEMMA ChunkType ==
  ASSUME NEW i \in 1 .. Len(Sections)
  PROVE  Chunk(i) \in Seq(Entry)
<1>1. Byte = 0 .. Radix - 1 /\ 0 \in Byte
  BY Powers DEF Byte
<1>2. PICK s \in [type : Nat, alloc : BOOLEAN, addr : Nat, data : Seq(Byte)] :
        s = Sections[i]
  BY <1>1, MemoryAssumption, ElementOfSeq
<1>3. s.addr \in Nat /\ s.data \in Seq(Byte)
  BY <1>2
<1>4. Len(s.data) \in Nat
  BY <1>3, LenProperties
<1>5. \A j \in 1 .. Len(s.data) : s.data[j] \in Byte
  BY <1>3, ElementOfSeq
<1>6. \A j \in 1 .. Len(s.data) :
        [addr |-> s.addr + j - 1,
         data |-> IF IsNoBits(s.type) THEN 0 ELSE s.data[j]] \in Entry
  <2> TAKE j \in 1 .. Len(s.data)
  <2>1. s.addr + j - 1 \in Nat
    BY <1>3, <1>4
  <2> QED
    BY <1>1, <1>5, <2>1 DEF Entry
<1>7. SectionBytes(s) \in [1 .. Len(s.data) -> Entry]
  BY <1>6 DEF SectionBytes
<1>8. SectionBytes(s) \in Seq(Entry) /\ <<>> \in Seq(Entry)
  BY <1>4, <1>7, SeqDef, EmptySeq
<1> QED
  BY <1>2, <1>8 DEF Chunk

(* The recursion of memtab has a value at every length.                    *)
LEMMA TakenExists ==
  ASSUME NEW n \in Nat
  PROVE  \E f : Taken(f, n)
<1>1. PICK bad : bad = {m \in Nat : ~ \E f : Taken(f, m)}
  OBVIOUS
<1>2. SUFFICES ASSUME bad # {} PROVE FALSE
  BY <1>1
<1>3. PICK y \in bad : \A z \in bad : ~ <<z, y>> \in OpToRel(<, Nat)
  BY <1>1, <1>2, NatLessThanWellFounded, WFMin
<1>4. \A z \in bad : ~ <<z, y>> \in {ss \in Nat \X Nat : ss[1] < ss[2]}
  BY <1>3, Zenon DEF OpToRel
<1>5. y \in Nat /\ \A z \in bad : ~ (z < y)
  BY <1>1, <1>4
<1>6. CASE y = 0
  <2>1. PICK f : f = [i \in 0 .. 0 |-> <<>>]
    OBVIOUS
  <2>2. \A i \in 0 .. 0 : i = 0
    OBVIOUS
  <2>3. Taken(f, 0)
    BY <2>1, <2>2 DEF Taken
  <2> QED
    BY <1>1, <1>6, <2>3
<1>7. CASE y # 0
  <2>1. y - 1 \in Nat /\ y - 1 < y
    BY <1>5, <1>7
  <2>2. PICK f : Taken(f, y - 1)
    BY <1>1, <1>5, <2>1
  <2>3. PICK g : g = [i \in 0 .. y |-> IF i = y THEN f[y - 1] \o Chunk(y)
                                       ELSE f[i]]
    OBVIOUS
  <2>4. ASSUME NEW i \in 0 .. y
        PROVE  g[i] = IF i = 0 THEN <<>> ELSE g[i - 1] \o Chunk(i)
    <3>1. CASE i = y
      <4>1. g[i] = f[y - 1] \o Chunk(y)
        BY <2>3, <3>1
      <4>2. i - 1 \in 0 .. y /\ i - 1 # y
        BY <1>5, <1>7, <3>1
      <4>3. g[i - 1] = f[y - 1]
        BY <2>3, <3>1, <4>2
      <4> QED
        BY <1>7, <3>1, <4>1, <4>3
    <3>2. CASE i # y
      <4>1. g[i] = f[i] /\ i \in 0 .. y - 1
        BY <1>5, <2>3, <3>2
      <4>2. f[i] = IF i = 0 THEN <<>> ELSE f[i - 1] \o Chunk(i)
        BY <2>2, <4>1 DEF Taken
      <4>3. i # 0 => i - 1 \in 0 .. y /\ i - 1 # y
        BY <1>5, <4>1
      <4>4. i # 0 => g[i - 1] = f[i - 1]
        BY <2>3, <4>3
      <4> QED
        BY <4>1, <4>2, <4>4
    <3> QED
      BY <3>1, <3>2
  <2>5. Taken(g, y)
    <3>1. g = [i \in 0 .. y |-> g[i]]
      BY <2>3
    <3> QED
      BY <2>4, <3>1 DEF Taken
  <2> QED
    BY <1>1, <2>5
<1> QED
  BY <1>6, <1>7

LEMMA TakenType ==
  ASSUME NEW n \in Nat, n <= Len(Sections), NEW f, Taken(f, n)
  PROVE  \A i \in 0 .. n : f[i] \in Seq(Entry)
<1>1. PICK bad : bad = {m \in 0 .. n : f[m] \notin Seq(Entry)}
  OBVIOUS
<1>2. SUFFICES ASSUME bad # {} PROVE FALSE
  BY <1>1
<1>3. bad \subseteq Nat
  BY <1>1
<1>4. PICK y \in bad : \A z \in bad : ~ <<z, y>> \in OpToRel(<, Nat)
  BY <1>2, <1>3, NatLessThanWellFounded, WFMin
<1>5. \A z \in bad : ~ <<z, y>> \in {ss \in Nat \X Nat : ss[1] < ss[2]}
  BY <1>4, Zenon DEF OpToRel
<1>6. y \in 0 .. n /\ f[y] \notin Seq(Entry) /\ \A z \in bad : ~ (z < y)
  BY <1>1, <1>3, <1>5
<1>7. f[y] = IF y = 0 THEN <<>> ELSE f[y - 1] \o Chunk(y)
  BY <1>6 DEF Taken
<1>8. CASE y = 0
  BY <1>6, <1>7, <1>8, EmptySeq
<1>9. CASE y # 0
  <2>1. y - 1 \in 0 .. n /\ y - 1 < y /\ y \in 1 .. Len(Sections)
    <3>1. Len(Sections) \in Nat
      BY MemoryAssumption, LenProperties
    <3> QED
      BY <1>6, <1>9, <3>1
  <2>2. f[y - 1] \in Seq(Entry)
    BY <1>1, <1>6, <2>1
  <2>3. f[y - 1] \o Chunk(y) \in Seq(Entry)
    BY <2>1, <2>2, ChunkType, ConcatProperties
  <2> QED
    BY <1>6, <1>7, <1>9, <2>3
<1> QED
  BY <1>8, <1>9

LEMMA ImageType == Image \in Seq(Entry) /\ Len(Image) \in Nat
<1>1. PICK n \in Nat : n = Len(Sections)
  BY MemoryAssumption, LenProperties
<1>2. PICK f : Taken(f, n) /\ memtab = f[n]
  <2>1. PICK f : f = CHOOSE g : Taken(g, n)
    OBVIOUS
  <2>2. Taken(f, n)
    BY <2>1, TakenExists
  <2>3. memtab = f[n]
    BY <1>1, <2>1 DEF memtab, Taken, Chunk
  <2> QED
    BY <2>2, <2>3
<1>3. memtab \in Seq(Entry)
  BY <1>1, <1>2, TakenType
<1>4. Raw \in Seq(Entry)
  BY MemoryAssumption DEF Entry, Byte
<1> QED
  BY <1>3, <1>4, ConcatProperties, LenProperties DEF Image

-----------------------------------------------------------------------------
(* What a step says it does.                                               *)
DidOK == did \in [op : MemOps \cup {"none", "byte", "start"}, addr : Nat,
                  data : 0 .. Radix - 1, turn : {0, 1}]

LEMMA Recorded ==
  ASSUME DidOK, NEW op \in MemOps \cup {"byte", "start"}, NEW a \in Nat,
         NEW d \in Byte, Record(op, a, d)
  PROVE  /\ DidOK' /\ did'.turn = 1 - did.turn
         /\ did'.op = op /\ did'.addr = a /\ did'.data = d
<1>1. did.turn \in {0, 1} /\ d \in 0 .. Radix - 1
  BY DEF DidOK, Byte
<1>2. 1 - did.turn \in {0, 1}
  BY <1>1
<1> QED
  BY <1>1, <1>2 DEF Record, DidOK

(* The inductive invariant, the initial states and the steps.              *)
MemInv ==
  /\ PagesOK
  /\ loaded \in 0 .. Len(Image)
  /\ running \in BOOLEAN
  /\ r \in Word
  /\ stores \in 0 .. MaxStores
  /\ DidOK

LEMMA InitMaps ==
  ASSUME Init
  PROVE  MemInv /\ Abstract!Init
<1>1. PagesOK
  BY DEF Init, PagesOK
<1>2. r \in Word /\ loaded \in 0 .. Len(Image) /\ stores \in 0 .. MaxStores
  BY MemoryAssumption, ImageType DEF Init, Word, Size
<1>3. RegBytes \in [0 .. 3 -> 0 .. Radix - 1]
  BY <1>2, RegFacts DEF Four, Byte
<1>4. ASSUME NEW a \in Address
      PROVE  ByteAt(a) = 0
  <2>0. PICK n \in DOMAIN Map : n = Device[a]
    BY OffsetFacts
  <2>1. PICK off \in OffsetIn(n) : n = Device[a] /\ off = Offset(a)
    BY <2>0, OffsetFacts
  <2>2. off \div PAGE_SIZE \in 0 .. npage(n) - 1 /\ WordOf(off) \in WordIndex
    BY Place
  <2>3. Page(n, off) = newpage
    BY <2>2 DEF Init, Page
  <2>4. WordAt(a) = 0
    BY <2>1, <2>2, <2>3 DEF WordAt, read4b, newpage, WordIndex
  <2>5. ByteAt(a) = Extract(WordAt(a), a % 4, 1) /\ a % 4 \in 0 .. 3
    BY <1>1, WordAtFacts, OffsetFacts
  <2>6. \A k \in 0 .. 3 : Extract(0, k, 1) = 0
    <3>1. 0 \in Byte
      BY Powers DEF Byte
    <3>2. PICK w : w = Num(0, 0, 0, 0)
      OBVIOUS
    <3>3. /\ Extract(w, 0, 1) = 0 /\ Extract(w, 1, 1) = 0
          /\ Extract(w, 2, 1) = 0 /\ Extract(w, 3, 1) = 0
      BY <3>1, <3>2, NumBytes
    <3>4. w = 0
      BY <3>2, Powers DEF Num
    <3>5. \A k \in 0 .. 3 : k = 0 \/ k = 1 \/ k = 2 \/ k = 3
      OBVIOUS
    <3> QED
      BY <3>3, <3>4, <3>5
  <2> QED
    BY <2>4, <2>5, <2>6
<1>5. MemBytes = [a \in Address |-> 0]
  BY <1>4 DEF MemBytes
<1>6. DidOK
  <2>1. 0 \in Byte /\ Byte = 0 .. Radix - 1
    BY Powers DEF Byte
  <2> QED
    BY <2>1 DEF Init, DidOK
<1> QED
  BY <1>1, <1>2, <1>3, <1>5, <1>6 DEF MemInv, Init, Abstract!Init

LEMMA LoadByteMaps ==
  ASSUME MemInv, LoadByte
  PROVE  MemInv' /\ Abstract!Next
<1>1. PICK byte \in Entry : byte = Image[loaded + 1]
  <2>1. loaded + 1 \in 1 .. Len(Image)
    BY ImageType DEF MemInv, LoadByte
  <2> QED
    BY <2>1, ImageType, ElementOfSeq
<1>2. PICK a \in Nat, d \in Byte : a = byte.addr /\ d = byte.data
  BY DEF Entry
<1>3. /\ ~ running /\ r \in Word /\ UNCHANGED <<running, r, stores>>
      /\ loaded' \in 0 .. Len(Image)
      /\ pagetable' = IF a \in Address THEN Written(a, 1, d) ELSE pagetable
  BY <1>1, <1>2, ImageType DEF LoadByte, MemInv
<1>4. r' \in Word /\ RegBytes' = RegBytes
  BY <1>3, RegKept
<1>7. /\ DidOK' /\ did'.turn = 1 - did.turn
      /\ did'.op = "byte" /\ did'.addr = a /\ did'.data = d
  <2>1. Record("byte", a, d)
    BY <1>1, <1>2 DEF LoadByte
  <2> QED
    BY <2>1, Recorded DEF MemInv
<1>8. SUFFICES PagesOK' /\ Abstract!WriteByte(a, d)
  BY <1>3, <1>4, <1>7 DEF MemInv, Abstract!Next
<1>5. CASE a \in Address
  <2>1. PagesOK'
        /\ MemBytes' = [x \in Address |-> IF x = a THEN d ELSE MemBytes[x]]
    BY <1>3, <1>5, ByteStored DEF MemInv
  <2>2. MemBytes' = [MemBytes EXCEPT ![a] = d]
    BY <2>1 DEF MemBytes
  <2> QED
    BY <1>3, <1>4, <1>5, <2>1, <2>2 DEF Abstract!WriteByte
<1>6. CASE a \notin Address
  <2>1. pagetable' = pagetable
    BY <1>3, <1>6
  <2>2. PagesOK' /\ MemBytes' = MemBytes
    BY <2>1 DEF MemInv, PagesOK, npage, MemBytes, ByteAt, Read, read1b, read2b,
                read4b, Page, WordOf
  <2> QED
    BY <1>3, <1>4, <1>6, <2>2 DEF Abstract!WriteByte
<1> QED
  BY <1>5, <1>6

LEMMA UnchangedMaps ==
  ASSUME MemInv, UNCHANGED <<pagetable, r>>
  PROVE  PagesOK' /\ r' \in Word /\ UNCHANGED <<MemBytes, RegBytes>>
BY RegKept DEF MemInv, PagesOK, npage, MemBytes, ByteAt, Read, read1b, read2b,
               read4b, Page, WordOf

LEMMA StartMaps ==
  ASSUME MemInv, Start
  PROVE  MemInv' /\ Abstract!Next
<1>1. Record("start", 0, 0) /\ 0 \in Byte
  BY Powers DEF Start, Byte
<1>2. DidOK' /\ did'.turn = 1 - did.turn /\ did'.op = "start"
  BY <1>1, Recorded DEF MemInv
<1>3. PagesOK' /\ r' \in Word /\ UNCHANGED <<MemBytes, RegBytes>>
  BY UnchangedMaps DEF Start
<1> QED
  BY <1>2, <1>3 DEF Start, MemInv, Abstract!Start, Abstract!Next

(* A load or store that succeeds is the access its instruction names; one  *)
(* that fails, nothing.                                                    *)
LEMMA SucceedsMaps ==
  ASSUME MemInv, NEW v \in Address,
         NEW inst \in MemOps, Succeeds(inst, v)
  PROVE  /\ PagesOK' /\ r' \in Word /\ stores' \in 0 .. MaxStores
         /\ Abstract!LoadAccess(inst, v) \/ Abstract!StoreAccess(inst, v)
<1>1. PagesOK /\ r \in Word /\ stores \in 0 .. MaxStores /\ MaxStores \in Nat
  BY MemoryAssumption DEF MemInv
<1>2. CASE inst \in LoadOps /\ Loads(inst, v)
  <2>1. stores' = stores
    BY <1>2 DEF Loads
  <2> QED
    BY <1>1, <1>2, <2>1, LoadsStep
<1>3. CASE inst \in StoreOps /\ Stores(inst, v)
  <2>1. stores' = stores + 1 /\ stores < MaxStores
    BY <1>3 DEF Stores
  <2>2. PagesOK' /\ r' \in Word /\ Abstract!StoreAccess(inst, v)
    BY <1>1, <1>3, StoresStep
  <2> QED
    BY <1>1, <2>1, <2>2
<1>4. CASE inst \in {"LWL", "LWR"} /\ LoadsUnaligned(inst, v)
  <2>1. stores' = stores
    BY <1>4 DEF LoadsUnaligned
  <2> QED
    BY <1>1, <1>4, <2>1, LoadsUnalignedStep
<1>5. CASE inst \in {"SWL", "SWR"} /\ StoresUnaligned(inst, v)
  <2>1. stores' = stores + 1 /\ stores < MaxStores
    BY <1>5 DEF StoresUnaligned
  <2>2. PagesOK' /\ r' \in Word /\ Abstract!StoreAccess(inst, v)
    BY <1>1, <1>5, StoresUnalignedStep
  <2> QED
    BY <1>1, <2>1, <2>2
<1> QED
  BY <1>2, <1>3, <1>4, <1>5 DEF Succeeds

LEMMA LoadStoreMaps ==
  ASSUME MemInv, LoadStore
  PROVE  MemInv' /\ Abstract!Next
<1>1. PICK inst \in MemOps, v \in VAddr :
        /\ running
        /\ IF v \in Address THEN Succeeds(inst, v) ELSE Fails
        /\ Record(inst, v, 0)
        /\ UNCHANGED <<loaded, running>>
  BY DEF LoadStore
<1>2. /\ DidOK' /\ did'.turn = 1 - did.turn
      /\ did'.op = inst /\ did'.addr = v
  <2>1. v \in Nat /\ 0 \in Byte
    BY MemoryAssumption, Powers DEF Byte
  <2> QED
    BY <1>1, <2>1, Recorded DEF MemInv
<1>3. inst \in Abstract!Ops
  BY DEF Abstract!Ops, MemOps, LoadOps, StoreOps
<1>4. SUFFICES /\ PagesOK' /\ r' \in Word /\ stores' \in 0 .. MaxStores
               /\ Abstract!Access(inst, v)
  BY <1>1, <1>2 DEF MemInv, Abstract!Next
<1>5. CASE v \in Address
  <2>1. /\ PagesOK' /\ r' \in Word /\ stores' \in 0 .. MaxStores
        /\ Abstract!LoadAccess(inst, v) \/ Abstract!StoreAccess(inst, v)
    BY <1>1, <1>5, SucceedsMaps
  <2> QED
    BY <1>1, <1>3, <1>5, <2>1 DEF Abstract!Access
<1>6. CASE v \notin Address
  <2>1. UNCHANGED <<pagetable, r, stores>>
    BY <1>1, <1>6 DEF Fails
  <2>2. PagesOK' /\ r' \in Word /\ UNCHANGED <<MemBytes, RegBytes>>
    BY <2>1, UnchangedMaps
  <2> QED
    BY <1>1, <1>3, <1>6, <2>1, <2>2 DEF MemInv, Abstract!Access
<1> QED
  BY <1>5, <1>6

LEMMA StepMaps ==
  ASSUME MemInv, [Next]_memVars
  PROVE  MemInv' /\ [Abstract!Next]_(Abstract!vars)
<1>1. CASE LoadByte
  BY <1>1, LoadByteMaps
<1>2. CASE Start
  BY <1>2, StartMaps
<1>3. CASE LoadStore
  BY <1>3, LoadStoreMaps
<1>4. CASE UNCHANGED memVars
  <2>1. PagesOK' /\ r' \in Word /\ UNCHANGED <<MemBytes, RegBytes>>
    BY <1>4, UnchangedMaps DEF memVars
  <2> QED
    BY <1>4, <2>1 DEF memVars, MemInv, DidOK, Abstract!vars
<1> QED
  BY <1>1, <1>2, <1>3, <1>4 DEF Next

(***************************************************************************)
(* Words stay words: no store, sign extension or shift of an unaligned     *)
(* access leaves a number too large in the memory or in the register, for  *)
(* every radix and map.                                                    *)
(***************************************************************************)
THEOREM MemTypeCorrect == Spec => []MemTypeOK
<1>1. Init => MemInv
  BY InitMaps
<1>2. MemInv /\ [Next]_memVars => MemInv'
  BY StepMaps
<1>3. MemInv => MemTypeOK
  BY DEF MemInv, MemTypeOK, PagesOK, WordIndex, DidOK
<1> QED
  BY <1>1, <1>2, <1>3, PTL DEF Spec

(***************************************************************************)
(* Memory is one array of bytes, and every step does to it what its        *)
(* instruction and its address say: a load of each width and sign finds    *)
(* the bytes written last, a store changes its own bytes, all of them and  *)
(* no other, an access without memory changes nothing, through overlapping *)
(* entries of the map and into pages not yet made; the same of the bytes   *)
(* that siminit writes (memory.cc, and the loads and stores of mips.cc).   *)
(***************************************************************************)
THEOREM MemoryIsFlat == Spec => IsFlat
<1>1. Init => MemInv /\ Abstract!Init
  BY InitMaps
<1>2. MemInv /\ [Next]_memVars => MemInv' /\ [Abstract!Next]_(Abstract!vars)
  BY StepMaps
<1> QED
  BY <1>1, <1>2, PTL DEF Spec, IsFlat, Abstract!Spec

-----------------------------------------------------------------------------
(* Which of the bytes that siminit writes to an address is the last.       *)
Never(s, a) == \A i \in 1 .. Len(s) : s[i].addr # a

LastIs(s, a, v) ==
  \E i \in 1 .. Len(s) : /\ s[i].addr = a /\ s[i].data = v
                         /\ \A j \in i + 1 .. Len(s) : s[j].addr # a

LEMMA LastUnique ==
  ASSUME NEW s, Len(s) \in Nat, NEW a, NEW v, NEW u, LastIs(s, a, v)
  PROVE  ~ Never(s, a) /\ (LastIs(s, a, u) => u = v)
<1>1. PICK i \in 1 .. Len(s) : /\ s[i].addr = a /\ s[i].data = v
                               /\ \A j \in i + 1 .. Len(s) : s[j].addr # a
  BY DEF LastIs
<1>2. ~ Never(s, a)
  BY <1>1 DEF Never
<1>3. ASSUME LastIs(s, a, u) PROVE u = v
  <2>1. PICK k \in 1 .. Len(s) : /\ s[k].addr = a /\ s[k].data = u
                                 /\ \A j \in k + 1 .. Len(s) : s[j].addr # a
    BY <1>3 DEF LastIs
  <2>2. ~ (k < i) /\ ~ (i < k)
    BY <1>1, <2>1
  <2>3. k = i
    BY <2>2
  <2> QED
    BY <1>1, <2>1, <2>3
<1> QED
  BY <1>2, <1>3

LEMMA LastOfBoth ==
  ASSUME NEW s \in Seq(Entry), NEW t \in Seq(Entry), NEW a, NEW v
  PROVE  /\ LastIs(t, a, v) => LastIs(s \o t, a, v)
         /\ LastIs(s, a, v) /\ Never(t, a) => LastIs(s \o t, a, v)
         /\ Never(s, a) /\ Never(t, a) => Never(s \o t, a)
<1>1. PICK m \in Nat, n \in Nat : m = Len(s) /\ n = Len(t)
  BY LenProperties
<1>2. PICK q : q = s \o t
  OBVIOUS
<1>3. /\ Len(q) = m + n
      /\ \A i \in 1 .. m + n : q[i] = IF i <= m THEN s[i] ELSE t[i - m]
  BY <1>1, <1>2, ConcatProperties
<1>4. LastIs(t, a, v) => LastIs(q, a, v)
  <2> SUFFICES ASSUME LastIs(t, a, v) PROVE LastIs(q, a, v)
    OBVIOUS
  <2>1. PICK i \in 1 .. n : /\ t[i].addr = a /\ t[i].data = v
                            /\ \A j \in i + 1 .. n : t[j].addr # a
    BY <1>1 DEF LastIs
  <2>2. PICK k \in 1 .. m + n : k = m + i
    BY <1>1
  <2>3. q[k] = t[i]
    <3>1. ~ (k <= m) /\ k - m = i
      BY <2>2
    <3> QED
      BY <1>3, <3>1
  <2>4. ASSUME NEW j \in k + 1 .. m + n
        PROVE  q[j].addr # a
    <3>1. j \in 1 .. m + n /\ ~ (j <= m) /\ j - m \in i + 1 .. n
      BY <2>2
    <3> QED
      BY <1>3, <2>1, <3>1
  <2> QED
    BY <1>3, <2>1, <2>3, <2>4 DEF LastIs
<1>5. LastIs(s, a, v) /\ Never(t, a) => LastIs(q, a, v)
  <2> SUFFICES ASSUME LastIs(s, a, v), Never(t, a) PROVE LastIs(q, a, v)
    OBVIOUS
  <2>1. PICK i \in 1 .. m : /\ s[i].addr = a /\ s[i].data = v
                            /\ \A j \in i + 1 .. m : s[j].addr # a
    BY <1>1 DEF LastIs
  <2>2. i \in 1 .. m + n /\ q[i] = s[i]
    BY <1>3
  <2>3. ASSUME NEW j \in i + 1 .. m + n
        PROVE  q[j].addr # a
    <3>1. j \in 1 .. m + n
      OBVIOUS
    <3>2. CASE j <= m
      BY <1>3, <2>1, <3>1, <3>2
    <3>3. CASE ~ (j <= m)
      <4>1. j - m \in 1 .. n
        BY <3>3
      <4> QED
        BY <1>1, <1>3, <3>1, <3>3, <4>1 DEF Never
    <3> QED
      BY <3>2, <3>3
  <2> QED
    BY <1>3, <2>1, <2>2, <2>3 DEF LastIs
<1>6. Never(s, a) /\ Never(t, a) => Never(q, a)
  <2> SUFFICES ASSUME Never(s, a), Never(t, a), NEW j \in 1 .. m + n
               PROVE  q[j].addr # a
    BY <1>3 DEF Never
  <2>1. CASE j <= m
    <3>1. j \in 1 .. m
      BY <2>1
    <3> QED
      BY <1>1, <1>3, <2>1, <3>1 DEF Never
  <2>2. CASE ~ (j <= m)
    <3>1. j - m \in 1 .. n
      BY <2>2
    <3> QED
      BY <1>1, <1>3, <2>2, <3>1 DEF Never
  <2> QED
    BY <2>1, <2>2
<1> QED
  BY <1>2, <1>4, <1>5, <1>6

(* A bounded set of numbers has a greatest one.                            *)
LEMMA Greatest ==
  ASSUME NEW n \in Nat, NEW S \in SUBSET (1 .. n), S # {}
  PROVE  \E g \in S : \A j \in S : g >= j
<1>1. PICK gaps : gaps = {n - i : i \in S}
  OBVIOUS
<1>2. gaps \subseteq Nat /\ gaps # {}
  <2>1. \A i \in S : n - i \in Nat
    OBVIOUS
  <2>2. PICK i \in S : TRUE
    OBVIOUS
  <2>3. n - i \in gaps
    BY <1>1
  <2> QED
    BY <1>1, <2>1, <2>3
<1>3. PICK y \in gaps : \A z \in gaps : ~ <<z, y>> \in OpToRel(<, Nat)
  BY <1>2, NatLessThanWellFounded, WFMin
<1>4. \A z \in gaps : ~ <<z, y>> \in {ss \in Nat \X Nat : ss[1] < ss[2]}
  BY <1>3, Zenon DEF OpToRel
<1>5. \A z \in gaps : ~ (z < y)
  BY <1>2, <1>4
<1>6. PICK g \in S : y = n - g
  BY <1>1
<1>7. ASSUME NEW j \in S PROVE g >= j
  <2>1. n - j \in gaps
    BY <1>1
  <2>2. ~ (n - j < n - g)
    BY <1>5, <1>6, <2>1
  <2> QED
    BY <2>2
<1> QED
  BY <1>7

(* The bytes of one section: what the section wants at a, if it wants any. *)
Value(i, a) == IF IsNoBits(Sections[i].type) THEN 0
               ELSE Sections[i].data[a - Sections[i].addr + 1]

LEMMA ChunkLast ==
  ASSUME NEW i \in 1 .. Len(Sections), NEW a \in Nat
  PROVE  /\ Wants(Sections[i], a) => LastIs(Chunk(i), a, Value(i, a))
         /\ ~ Wants(Sections[i], a) => Never(Chunk(i), a)
<1>1. PICK s \in [type : Nat, alloc : BOOLEAN, addr : Nat, data : Seq(Byte)] :
        s = Sections[i]
  <2>1. Byte = 0 .. Radix - 1
    BY DEF Byte
  <2> QED
    BY <2>1, MemoryAssumption, ElementOfSeq
<1>2. PICK n \in Nat, base \in Nat : n = Len(s.data) /\ base = s.addr
  <2>1. s.data \in Seq(Byte) /\ s.addr \in Nat
    OBVIOUS
  <2> QED
    BY <2>1, LenProperties
<1>3. CASE s.alloc
  <2>1. PICK t : t = Chunk(i)
    OBVIOUS
  <2>2. t = [j \in 1 .. n |->
               [addr |-> base + j - 1,
                data |-> IF IsNoBits(s.type) THEN 0 ELSE s.data[j]]]
    BY <1>1, <1>2, <1>3, <2>1 DEF Chunk, SectionBytes
  <2>3. Len(t) = n
    <3>1. t \in Seq(Entry)
      BY <2>1, ChunkType
    <3>2. DOMAIN t = 1 .. n
      BY <2>2
    <3>3. DOMAIN t = 1 .. Len(t) /\ Len(t) \in Nat
      BY <3>1, LenProperties
    <3> QED
      BY <3>2, <3>3
  <2>4. ASSUME Wants(Sections[i], a)
        PROVE  LastIs(t, a, Value(i, a))
    <3>1. base <= a /\ a < base + n
      BY <1>1, <1>2, <2>4 DEF Wants
    <3>2. PICK j \in 1 .. n : j = a - base + 1
      BY <3>1
    <3>3. t[j].addr = a /\ t[j].data = Value(i, a)
      <4>1. base + j - 1 = a
        BY <3>2
      <4>2. t[j].data = IF IsNoBits(s.type) THEN 0 ELSE s.data[j]
        BY <2>2
      <4> QED
        BY <1>1, <1>2, <2>2, <3>2, <4>1, <4>2 DEF Value
    <3>4. \A k \in j + 1 .. n : t[k].addr # a
      <4> TAKE k \in j + 1 .. n
      <4>1. t[k].addr = base + k - 1
        BY <2>2
      <4> QED
        BY <3>2, <4>1
    <3> QED
      BY <2>3, <3>3, <3>4 DEF LastIs
  <2>5. ASSUME ~ Wants(Sections[i], a)
        PROVE  Never(t, a)
    <3>1. ~ (base <= a /\ a < base + n)
      BY <1>1, <1>2, <1>3, <2>5 DEF Wants
    <3>2. \A k \in 1 .. n : t[k].addr # a
      <4> TAKE k \in 1 .. n
      <4>1. t[k].addr = base + k - 1
        BY <2>2
      <4> QED
        BY <3>1, <4>1
    <3> QED
      BY <2>3, <3>2 DEF Never
  <2> QED
    BY <2>1, <2>4, <2>5
<1>4. CASE ~ s.alloc
  <2>1. Chunk(i) = <<>> /\ ~ Wants(Sections[i], a)
    BY <1>1, <1>4 DEF Chunk, Wants
  <2>2. Len(<<>>) = 0
    OBVIOUS
  <2> QED
    BY <2>1, <2>2 DEF Never
<1> QED
  BY <1>3, <1>4

(* The bytes of the first m sections: those of the last that wants any.    *)
Chosen(f, m, a) ==
  /\ (\A i \in 1 .. m : ~ Wants(Sections[i], a)) => Never(f[m], a)
  /\ \A l \in 1 .. m :
       Wants(Sections[l], a) /\ (\A k \in l + 1 .. m : ~ Wants(Sections[k], a))
         => LastIs(f[m], a, Value(l, a))

LEMMA TakenLast ==
  ASSUME NEW n \in Nat, n <= Len(Sections), NEW f, Taken(f, n), NEW a \in Nat
  PROVE  Chosen(f, n, a)
<1>1. PICK bad : bad = {m \in 0 .. n : ~ Chosen(f, m, a)}
  OBVIOUS
<1>2. SUFFICES ASSUME bad # {} PROVE FALSE
  BY <1>1
<1>3. bad \subseteq Nat
  BY <1>1
<1>4. PICK y \in bad : \A z \in bad : ~ <<z, y>> \in OpToRel(<, Nat)
  BY <1>2, <1>3, NatLessThanWellFounded, WFMin
<1>5. \A z \in bad : ~ <<z, y>> \in {ss \in Nat \X Nat : ss[1] < ss[2]}
  BY <1>4, Zenon DEF OpToRel
<1>6. y \in 0 .. n /\ ~ Chosen(f, y, a) /\ \A z \in bad : ~ (z < y)
  BY <1>1, <1>3, <1>5
<1>7. f[y] = IF y = 0 THEN <<>> ELSE f[y - 1] \o Chunk(y)
  BY <1>6 DEF Taken
<1>8. CASE y = 0
  <2>1. Never(f[0], a)
    BY <1>7, <1>8 DEF Never
  <2>2. \A l \in 1 .. 0 : FALSE
    OBVIOUS
  <2> QED
    BY <1>6, <1>8, <2>1, <2>2 DEF Chosen
<1>9. CASE y # 0
  <2>1. y - 1 \in 0 .. n /\ y - 1 < y /\ y \in 1 .. Len(Sections)
    <3>1. Len(Sections) \in Nat
      BY MemoryAssumption, LenProperties
    <3> QED
      BY <1>6, <1>9, <3>1
  <2>2. PICK s, t : s = f[y - 1] /\ t = Chunk(y)
    OBVIOUS
  <2>3. s \in Seq(Entry) /\ t \in Seq(Entry) /\ f[y] = s \o t
    BY <1>7, <1>9, <2>1, <2>2, TakenType, ChunkType
  <2>4. Chosen(f, y - 1, a)
    BY <1>1, <1>6, <2>1
  <2>5. ASSUME \A i \in 1 .. y : ~ Wants(Sections[i], a)
        PROVE  Never(f[y], a)
    <3>1. \A i \in 1 .. y - 1 : i \in 1 .. y
      BY <1>6
    <3>2. Never(s, a)
      BY <2>2, <2>4, <2>5, <3>1 DEF Chosen
    <3>3. y \in 1 .. y
      BY <1>6, <1>9
    <3>4. Never(t, a)
      BY <2>1, <2>2, <2>5, <3>3, ChunkLast
    <3> QED
      BY <2>3, <3>2, <3>4, LastOfBoth
  <2>6. ASSUME NEW l \in 1 .. y, Wants(Sections[l], a),
               \A k \in l + 1 .. y : ~ Wants(Sections[k], a)
        PROVE  LastIs(f[y], a, Value(l, a))
    <3>1. CASE l = y
      <4>1. LastIs(t, a, Value(l, a))
        BY <2>1, <2>2, <2>6, <3>1, ChunkLast
      <4> QED
        BY <2>3, <4>1, LastOfBoth
    <3>2. CASE l # y
      <4>1. l \in 1 .. y - 1 /\ y \in l + 1 .. y
            /\ \A k \in l + 1 .. y - 1 : k \in l + 1 .. y
        BY <1>6, <3>2
      <4>2. LastIs(s, a, Value(l, a))
        BY <2>2, <2>4, <2>6, <4>1 DEF Chosen
      <4>3. Never(t, a)
        BY <2>1, <2>2, <2>6, <4>1, ChunkLast
      <4> QED
        BY <2>3, <4>2, <4>3, LastOfBoth
    <3> QED
      BY <3>1, <3>2
  <2>7. Chosen(f, y, a)
    BY <2>5, <2>6 DEF Chosen
  <2> QED
    BY <1>6, <2>7
<1> QED
  BY <1>8, <1>9

(* What the whole image leaves at a.  SHT_NOBITS is the only type whose    *)
(* bit 3 is set, among the sections that occupy memory.                    *)
OnlyNoBits ==
  \A i \in DOMAIN Sections :
    Sections[i].alloc =>
      (IsNoBits(Sections[i].type) <=> Sections[i].type = SHT_NOBITS)

LEMMA ImageLast ==
  ASSUME OnlyNoBits, NEW a \in Nat
  PROVE  LastIs(Image, a, Wanted(a)) \/ (Never(Image, a) /\ Wanted(a) = 0)
<1>1. PICK n \in Nat : n = Len(Sections) /\ DOMAIN Sections = 1 .. n
  BY MemoryAssumption, LenProperties
<1>2. PICK f : Taken(f, n) /\ memtab = f[n]
  <2>1. PICK f : f = CHOOSE g : Taken(g, n)
    OBVIOUS
  <2>2. Taken(f, n)
    BY <2>1, TakenExists
  <2>3. memtab = f[n]
    BY <1>1, <2>1 DEF memtab, Taken, Chunk
  <2> QED
    BY <2>2, <2>3
<1>3. memtab \in Seq(Entry) /\ Raw \in Seq(Entry)
  <2>1. memtab \in Seq(Entry)
    BY <1>1, <1>2, TakenType
  <2>2. Raw \in Seq(Entry)
    BY MemoryAssumption DEF Entry, Byte
  <2> QED
    BY <2>1, <2>2
<1>4. Chosen(f, n, a)
  BY <1>1, <1>2, TakenLast
<1>5. PICK sections, raws :
        /\ sections = {i \in DOMAIN Sections : Wants(Sections[i], a)}
        /\ raws = {i \in DOMAIN Raw : Raw[i].addr = a}
  OBVIOUS
<1>6. PICK last, lastRaw :
        /\ last = CHOOSE i \in sections : \A j \in sections : i >= j
        /\ lastRaw = CHOOSE i \in raws : \A j \in raws : i >= j
  OBVIOUS
<1>7. Wanted(a) = IF sections # {}
                  THEN IF Sections[last].type = SHT_NOBITS THEN 0
                       ELSE Sections[last].data[a - Sections[last].addr + 1]
                  ELSE IF raws # {} THEN Raw[lastRaw].data ELSE 0
  BY <1>5, <1>6 DEF Wanted
<1>8. CASE sections # {}
  <2>1. sections \in SUBSET (1 .. n)
    BY <1>1, <1>5
  <2>2. \E i \in sections : \A j \in sections : i >= j
    BY <1>8, <2>1, Greatest
  <2>3. last \in sections /\ \A j \in sections : last >= j
    BY <1>6, <2>2
  <2>4. last \in 1 .. n /\ Wants(Sections[last], a)
    BY <1>1, <1>5, <2>3
  <2>5. \A k \in last + 1 .. n : ~ Wants(Sections[k], a)
    <3> SUFFICES ASSUME NEW k \in last + 1 .. n, Wants(Sections[k], a)
                 PROVE  FALSE
      OBVIOUS
    <3>1. k \in 1 .. n /\ ~ (last >= k)
      BY <2>4
    <3> QED
      BY <1>1, <1>5, <2>3, <3>1
  <2>6. LastIs(memtab, a, Value(last, a))
    BY <1>2, <1>4, <2>4, <2>5 DEF Chosen
  <2>7. Value(last, a) = Wanted(a)
    BY <1>1, <1>7, <1>8, <2>4 DEF Value, OnlyNoBits, Wants
  <2> QED
    BY <1>3, <2>6, <2>7, LastOfBoth DEF Image
<1>9. CASE sections = {}
  <2>1. Never(memtab, a)
    BY <1>1, <1>2, <1>4, <1>5, <1>9 DEF Chosen
  <2>2. PICK m \in Nat : m = Len(Raw) /\ DOMAIN Raw = 1 .. m
    BY MemoryAssumption, LenProperties
  <2>3. CASE raws # {}
    <3>1. raws \in SUBSET (1 .. m)
      BY <1>5, <2>2
    <3>2. \E i \in raws : \A j \in raws : i >= j
      BY <2>3, <3>1, Greatest
    <3>3. lastRaw \in raws /\ \A j \in raws : lastRaw >= j
      BY <1>6, <3>2
    <3>4. lastRaw \in 1 .. m /\ Raw[lastRaw].addr = a
      BY <1>5, <2>2, <3>3
    <3>5. \A k \in lastRaw + 1 .. m : Raw[k].addr # a
      <4> SUFFICES ASSUME NEW k \in lastRaw + 1 .. m, Raw[k].addr = a
                   PROVE  FALSE
        OBVIOUS
      <4>1. k \in 1 .. m /\ ~ (lastRaw >= k)
        BY <3>4
      <4> QED
        BY <1>5, <2>2, <3>3, <4>1
    <3>6. LastIs(Raw, a, Raw[lastRaw].data)
      BY <2>2, <3>4, <3>5 DEF LastIs
    <3>7. Wanted(a) = Raw[lastRaw].data
      BY <1>7, <1>9, <2>3
    <3> QED
      BY <1>3, <2>1, <3>6, <3>7, LastOfBoth DEF Image
  <2>4. CASE raws = {}
    <3>1. Never(Raw, a)
      BY <1>5, <2>2, <2>4 DEF Never
    <3>2. Wanted(a) = 0
      BY <1>7, <1>9, <2>4
    <3> QED
      BY <1>3, <2>1, <3>1, <3>2, LastOfBoth DEF Image
  <2> QED
    BY <2>3, <2>4
<1> QED
  BY <1>8, <1>9

(* While nothing has been stored, a byte is what the loaded part of the    *)
(* image says.                                                             *)
Last(n, a, v) ==
  \/ \E i \in 1 .. n : /\ Image[i].addr = a /\ Image[i].data = v
                       /\ \A j \in i + 1 .. n : Image[j].addr # a
  \/ v = 0 /\ \A i \in 1 .. n : Image[i].addr # a

LoadInv ==
  /\ running => loaded = Len(Image)
  /\ stores = 0 => \A a \in Address : Last(loaded, a, MemBytes[a])

LEMMA LoadInvInit ==
  ASSUME Init
  PROVE  LoadInv
<1>1. loaded = 0 /\ ~ running /\ MemBytes = [a \in Address |-> 0]
  BY InitMaps DEF Init, Abstract!Init
<1>2. \A i \in 1 .. 0 : FALSE
  OBVIOUS
<1> QED
  BY <1>1, <1>2 DEF LoadInv, Last

LEMMA LoadInvStep ==
  ASSUME MemInv, LoadInv, [Next]_memVars
  PROVE  LoadInv'
<1>0. loaded \in Nat /\ stores \in Nat /\ PagesOK /\ r \in Word
  BY ImageType DEF MemInv
<1>1. CASE LoadByte
  <2>1. PICK byte \in Entry : byte = Image[loaded + 1]
    <3>1. loaded + 1 \in 1 .. Len(Image)
      BY <1>1, ImageType DEF MemInv, LoadByte
    <3> QED
      BY <3>1, ImageType, ElementOfSeq
  <2>2. PICK b \in Nat, d \in Byte : b = byte.addr /\ d = byte.data
    BY DEF Entry
  <2>3. /\ ~ running' /\ loaded' = loaded + 1 /\ stores' = stores
        /\ pagetable' = IF b \in Address THEN Written(b, 1, d) ELSE pagetable
        /\ r' = r
    BY <1>1, <2>1, <2>2 DEF LoadByte
  <2>4. ASSUME NEW a \in Address
        PROVE  MemBytes'[a] = IF a = b THEN d ELSE MemBytes[a]
    <3>1. CASE b \in Address
      <4>1. MemBytes' = [x \in Address |-> IF x = b THEN d ELSE MemBytes[x]]
        BY <1>0, <2>3, <3>1, ByteStored
      <4> QED
        BY <4>1
    <3>2. CASE b \notin Address
      <4>1. MemBytes' = MemBytes
        BY <2>3, <3>2, UnchangedMaps
      <4> QED
        BY <3>2, <4>1
    <3> QED
      BY <3>1, <3>2
  <2>5. ASSUME stores' = 0, NEW a \in Address
        PROVE  Last(loaded + 1, a, MemBytes'[a])
    <3>1. Last(loaded, a, MemBytes[a])
      BY <2>3, <2>5 DEF LoadInv
    <3>2. PICK n \in Nat : n = loaded
      BY <1>0
    <3>3. PICK v, u : v = MemBytes[a] /\ u = MemBytes'[a]
      OBVIOUS
    <3>4. u = IF a = b THEN d ELSE v
      BY <2>4, <3>3
    <3>5. Image[n + 1].addr = b /\ Image[n + 1].data = d
      BY <2>1, <2>2, <3>2
    <3>6. Last(n + 1, a, u)
      <4>1. CASE a = b
        <5>1. n + 1 \in 1 .. n + 1 /\ \A j \in n + 2 .. n + 1 : FALSE
          OBVIOUS
        <5>2. n + 1 + 1 = n + 2
          OBVIOUS
        <5> QED
          BY <3>4, <3>5, <4>1, <5>1, <5>2 DEF Last
      <4>2. CASE a # b
        <5>1. Last(n, a, v) /\ u = v
          BY <3>1, <3>2, <3>3, <3>4, <4>2
        <5>2. CASE v = 0 /\ \A i \in 1 .. n : Image[i].addr # a
          <6>1. \A i \in 1 .. n + 1 : i \in 1 .. n \/ i = n + 1
            OBVIOUS
          <6> QED
            BY <3>5, <4>2, <5>1, <5>2, <6>1 DEF Last
        <5>3. CASE \E i \in 1 .. n :
                     /\ Image[i].addr = a /\ Image[i].data = v
                     /\ \A j \in i + 1 .. n : Image[j].addr # a
          <6>1. PICK i \in 1 .. n :
                     /\ Image[i].addr = a /\ Image[i].data = v
                     /\ \A j \in i + 1 .. n : Image[j].addr # a
            BY <5>3
          <6>2. \A j \in i + 1 .. n + 1 : j \in i + 1 .. n \/ j = n + 1
            OBVIOUS
          <6>3. i \in 1 .. n + 1
            OBVIOUS
          <6> QED
            BY <3>5, <4>2, <5>1, <6>1, <6>2, <6>3 DEF Last
        <5> QED
          BY <5>1, <5>2, <5>3 DEF Last
      <4> QED
        BY <4>1, <4>2
    <3> QED
      BY <3>2, <3>3, <3>6
  <2>6. LoadInv' = (stores' = 0 =>
                      \A a \in Address : Last(loaded + 1, a, MemBytes'[a]))
    BY <2>3 DEF LoadInv, Last
  <2> QED
    BY <2>5, <2>6
<1>2. CASE Start
  <2>1. UNCHANGED <<pagetable, r, loaded, stores>> /\ loaded = Len(Image)
    BY <1>2 DEF Start
  <2>2. MemBytes' = MemBytes
    BY <2>1, UnchangedMaps
  <2> QED
    BY <2>1, <2>2 DEF LoadInv, Last
<1>3. CASE LoadStore
  <2>1. PICK inst \in LoadOps \cup StoreOps \cup {"LWL", "LWR", "SWL", "SWR"},
             v \in VAddr :
          /\ running
          /\ IF v \in Address THEN Succeeds(inst, v) ELSE Fails
          /\ UNCHANGED <<loaded, running>>
    BY <1>3 DEF LoadStore, MemOps
  <2>2. stores' = 0 => stores = 0 /\ MemBytes' = MemBytes
    <3>1. CASE v \notin Address
      <4>1. UNCHANGED <<pagetable, r, stores>>
        BY <2>1, <3>1 DEF Fails
      <4> QED
        BY <4>1, UnchangedMaps
    <3>2. CASE v \in Address
      <4>1. CASE \/ inst \in StoreOps /\ Stores(inst, v)
                 \/ inst \in {"SWL", "SWR"} /\ StoresUnaligned(inst, v)
        <5>1. stores' = stores + 1
          BY <4>1 DEF Stores, StoresUnaligned
        <5> QED
          BY <1>0, <5>1
      <4>2. CASE \/ inst \in LoadOps /\ Loads(inst, v)
                 \/ inst \in {"LWL", "LWR"} /\ LoadsUnaligned(inst, v)
        <5>1. stores' = stores /\ pagetable' = Touched(Device[v], Offset(v))
          BY <4>2 DEF Loads, LoadsUnaligned
        <5>2. MemBytes' = MemBytes
          BY <1>0, <3>2, <5>1, LoadKeeps
        <5> QED
          BY <5>1, <5>2
      <4> QED
        BY <2>1, <3>2, <4>1, <4>2 DEF Succeeds
    <3> QED
      BY <3>1, <3>2
  <2> QED
    BY <2>1, <2>2 DEF LoadInv, Last
<1>4. CASE UNCHANGED memVars
  <2>1. UNCHANGED <<pagetable, r, loaded, stores, running>>
    BY <1>4 DEF memVars
  <2>2. MemBytes' = MemBytes
    BY <2>1, UnchangedMaps
  <2> QED
    BY <2>1, <2>2 DEF LoadInv, Last
<1> QED
  BY <1>1, <1>2, <1>3, <1>4 DEF Next

LEMMA LoadInvGives ==
  ASSUME OnlyNoBits, MemInv, LoadInv
  PROVE  ImageLoaded
<1> SUFFICES ASSUME running, stores = 0, NEW a \in Address
             PROVE  ByteAt(a) = Wanted(a)
  BY DEF ImageLoaded
<1>1. PICK v : v = ByteAt(a) /\ v = MemBytes[a]
  BY DEF MemBytes
<1>2. a \in Nat
  BY OffsetFacts
<1>3. Last(Len(Image), a, v)
  BY <1>1 DEF LoadInv
<1>4. LastIs(Image, a, v) \/ (Never(Image, a) /\ v = 0)
  BY <1>3 DEF Last, LastIs, Never
<1>5. LastIs(Image, a, Wanted(a)) \/ (Never(Image, a) /\ Wanted(a) = 0)
  BY <1>2, ImageLast
<1> QED
  BY <1>1, <1>4, <1>5, ImageType, LastUnique

(***************************************************************************)
(* When the program starts, every byte of its sections is where the linker *)
(* put it, the last section that wants an address wins, and raw files show *)
(* only where no section is (siminit and loadelf32), provided that no      *)
(* section that occupies memory has one of the types that the loader takes *)
(* for NOBITS.                                                             *)
(***************************************************************************)
THEOREM ImageIsLoaded ==
  ASSUME OnlyNoBits
  PROVE  Spec => []ImageLoaded
<1>1. Init => MemInv /\ LoadInv
  BY InitMaps, LoadInvInit
<1>2. MemInv /\ LoadInv /\ [Next]_memVars => (MemInv /\ LoadInv)'
  BY StepMaps, LoadInvStep
<1>3. MemInv /\ LoadInv => ImageLoaded
  BY LoadInvGives
<1> QED
  BY <1>1, <1>2, <1>3, PTL DEF Spec
=============================================================================
