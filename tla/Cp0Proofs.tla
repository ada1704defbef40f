------------------------------ MODULE Cp0Proofs ------------------------------
(***************************************************************************)
(* Proofs about coprocessor 0 under the two programs of TickKernel and     *)
(* TlbKernel, for every size of its registers and of its TLB.              *)
(*                                                                         *)
(* The tick: what remains of COUNT's way to COMPARE, or how far COUNT is   *)
(* behind it, is one integer, near 0 compared to the range of COUNT; a     *)
(* step adds one to it, and the interrupt becomes pending when it gets to  *)
(* 0 from below.  The rest of coprocessor 0 is idle meanwhile.             *)
(*                                                                         *)
(* The paging kernel: no handler writes the entry it has wired.  TLBWR is  *)
(* kept off it by RANDOM, TLBWI by the addresses that are looked up, and   *)
(* every step has to keep both apart from the stack's.                     *)
(***************************************************************************)
EXTENDS TickKernel, TlbKernel, WellFoundedInduction, TLAPS

(* The registers, with the fields that the programs use.                   *)
Regs ==
  [index : Int, random : Int, wired : Int, pagemask : Int,
   entrylo : [0 .. 1 -> [pfn : Int, dirty : BOOLEAN, valid : BOOLEAN,
                         global : BOOLEAN]],
   entryhi : [vpn2 : Int, asid : Int],
   badvaddr : Int, context : Int,
   count : 0 .. CountMod - 1, compare : 0 .. CountMod - 1,
   sr : [ie : BOOLEAN, exl : BOOLEAN, user : BOOLEAN, im : SUBSET (0 .. 7)],
   cause : [exc : {"INT"}, bd : BOOLEAN, iv : BOOLEAN, ip : SUBSET (0 .. 7)],
   epc : {"reset", "work"}]

(* The remainder of a number that is off its range by less than the range. *)
LEMMA Wrapped ==
  ASSUME NEW a \in Int
  PROVE  /\ 0 <= a /\ a < CountMod => a % CountMod = a
         /\ CountMod <= a /\ a < 2 * CountMod => a % CountMod = a - CountMod
         /\ 0 - CountMod <= a /\ a < 0 => a % CountMod = a + CountMod
<1>1. CountMod \in Nat \ {0}
  BY Cp0Assumption
<1>2. ASSUME 0 <= a, a < CountMod PROVE a % CountMod = a
  BY <1>1, <1>2
<1>3. ASSUME CountMod <= a, a < 2 * CountMod PROVE a % CountMod = a - CountMod
  BY <1>1, <1>3
<1>4. ASSUME 0 - CountMod <= a, a < 0 PROVE a % CountMod = a + CountMod
  BY <1>1, <1>4
<1> QED
  BY <1>2, <1>3, <1>4

(* What a step of the timer and of RANDOM changes.                         *)
LEMMA StepFields ==
  ASSUME NEW g \in Regs, TLB_ENTRY \in Nat \ {0}
  PROVE  /\ Step(g) \in Regs
         /\ Step(g).count = (g.count + 1) % CountMod
         /\ Step(g).cause.ip = IF (g.count + 1) % CountMod = g.compare
                               THEN g.cause.ip \cup {COMPARE_CONNECTED}
                               ELSE g.cause.ip
         /\ Step(g).random = IF g.random <= g.wired THEN TLB_ENTRY - 1
                                                    ELSE g.random - 1
         /\ Step(g).compare = g.compare /\ Step(g).sr = g.sr
         /\ Step(g).cause.iv = g.cause.iv /\ Step(g).epc = g.epc
         /\ Step(g).wired = g.wired
<1>1. PICK n \in 0 .. CountMod - 1 : (g.count + 1) % CountMod = n
  <2>1. g.count + 1 \in Int /\ CountMod \in Nat \ {0}
    BY Cp0Assumption DEF Regs
  <2> QED
    BY <2>1
<1>2. PICK c \in Regs : /\ c = [g EXCEPT !.count = n]
                        /\ c.count = n /\ c.compare = g.compare
                        /\ c.sr = g.sr /\ c.cause = g.cause /\ c.epc = g.epc
                        /\ c.random = g.random /\ c.wired = g.wired
  <2>1. [g EXCEPT !.count = n] \in Regs
    BY DEF Regs
  <2>2. PICK c : c = [g EXCEPT !.count = n]
    OBVIOUS
  <2>3. /\ c.count = n /\ c.compare = g.compare
        /\ c.sr = g.sr /\ c.cause = g.cause /\ c.epc = g.epc
        /\ c.random = g.random /\ c.wired = g.wired
    BY <2>2 DEF Regs
  <2> QED
    BY <2>1, <2>2, <2>3
<1>3. PICK s \in Regs : /\ s = StepCount(g)
                        /\ s.count = n /\ s.compare = g.compare
                        /\ s.sr = g.sr /\ s.cause.iv = g.cause.iv
                        /\ s.epc = g.epc
                        /\ s.random = g.random /\ s.wired = g.wired
                        /\ s.cause.ip = IF n = g.compare
                                        THEN g.cause.ip \cup {COMPARE_CONNECTED}
                                        ELSE g.cause.ip
  <2>1. CASE n = g.compare
    <3>1. StepCount(g) = SetInterrupt(c, COMPARE_CONNECTED)
      BY <1>1, <1>2, <2>1 DEF StepCount
    <3>2. COMPARE_CONNECTED \in 0 .. 7
      BY DEF COMPARE_CONNECTED
    <3>3. SetInterrupt(c, COMPARE_CONNECTED) =
            [c EXCEPT !.cause =
               [c.cause EXCEPT !.ip = c.cause.ip \cup {COMPARE_CONNECTED}]]
      BY DEF SetInterrupt
    <3>4. [c.cause EXCEPT !.ip = c.cause.ip \cup {COMPARE_CONNECTED}] \in
            [exc : {"INT"}, bd : BOOLEAN, iv : BOOLEAN, ip : SUBSET (0 .. 7)]
      BY <3>2 DEF Regs
    <3>5. PICK k \in [exc : {"INT"}, bd : BOOLEAN, iv : BOOLEAN,
                       ip : SUBSET (0 .. 7)] :
            /\ k = [c.cause EXCEPT !.ip = c.cause.ip \cup {COMPARE_CONNECTED}]
            /\ k.ip = c.cause.ip \cup {COMPARE_CONNECTED}
            /\ k.iv = c.cause.iv
      BY <3>4 DEF Regs
    <3>6. [c EXCEPT !.cause = k] \in Regs
      BY <3>5 DEF Regs
    <3>7. PICK s : s = [c EXCEPT !.cause = k]
      OBVIOUS
    <3>8. /\ s.count = c.count /\ s.compare = c.compare /\ s.sr = c.sr
          /\ s.cause = k /\ s.epc = c.epc
          /\ s.random = c.random /\ s.wired = c.wired
      BY <3>7 DEF Regs
    <3>9. StepCount(g) = s
      BY <3>1, <3>3, <3>5, <3>7
    <3>10. s \in Regs
      BY <3>6, <3>7
    <3>11. /\ s.cause.iv = g.cause.iv
           /\ s.cause.ip = g.cause.ip \cup {COMPARE_CONNECTED}
      BY <1>2, <3>5, <3>8
    <3> QED
      BY <1>2, <2>1, <3>8, <3>9, <3>10, <3>11
  <2>2. CASE n # g.compare
    <3>1. StepCount(g) = c
      BY <1>1, <1>2, <2>2 DEF StepCount
    <3> QED
      BY <1>2, <2>2, <3>1
  <2> QED
    BY <2>1, <2>2
<1>4. Step(g) = [s EXCEPT !.random = IF s.random <= s.wired THEN TLB_ENTRY - 1
                                                            ELSE s.random - 1]
  BY <1>3 DEF Step, StepRandom
<1> QED
  BY <1>1, <1>3, <1>4 DEF Regs

-----------------------------------------------------------------------------
(* What the tick needs of the range of COUNT.                              *)
LEMMA TickFacts ==
  /\ CountMod \in Nat /\ Period \in Nat /\ MaxMasked \in Nat
  /\ Period > 3 /\ 2 * (3 * (MaxMasked + 4) + Period) < CountMod
  /\ TLB_ENTRY \in Nat \ {0}
BY Cp0Assumption, TickAssumption

(* Pending is the interrupt of the timer.                                  *)
Pending(g) == COMPARE_CONNECTED \in g.cause.ip

(* COUNT is d behind COMPARE, or - d before it.                            *)
Behind(g, d) == g.count = (g.compare + d) % CountMod

(* One to three steps of coprocessor 0.                                    *)
LEMMA StepBehind ==
  ASSUME NEW g \in Regs, NEW d \in Int, Behind(g, d),
         0 - Period <= d, d <= 3 * (MaxMasked + 4)
  PROVE  /\ Behind(Step(g), d + 1)
         /\ Pending(Step(g)) <=> Pending(g) \/ d = -1
<1>1. PICK n \in 0 .. CountMod - 1 : g.compare = n
  BY DEF Regs
<1>2. PICK c \in 0 .. CountMod - 1 : /\ g.count = c
                                     /\ c = (n + d) % CountMod
  BY <1>1 DEF Regs, Behind
<1>3. n + d \in Int /\ n + d + 1 \in Int /\ c + 1 \in Int
  BY TickFacts
<1>4. /\ 0 - CountMod <= n + d /\ n + d + 1 < 2 * CountMod
      /\ 0 <= c + 1 /\ c + 1 <= CountMod
  BY TickFacts
<1>5. c = IF n + d < 0 THEN n + d + CountMod
          ELSE IF n + d < CountMod THEN n + d ELSE n + d - CountMod
  BY <1>2, <1>3, <1>4, Wrapped, TickFacts
<1>6. (n + d + 1) % CountMod
        = IF n + d + 1 < 0 THEN n + d + 1 + CountMod
          ELSE IF n + d + 1 < CountMod THEN n + d + 1
          ELSE n + d + 1 - CountMod
  BY <1>3, <1>4, Wrapped, TickFacts
<1>7. (c + 1) % CountMod = IF c + 1 = CountMod THEN 0 ELSE c + 1
  BY <1>3, <1>4, Wrapped, TickFacts
<1>8. (c + 1) % CountMod = (n + d + 1) % CountMod
  BY <1>5, <1>6, <1>7, TickFacts
<1>9. (c + 1) % CountMod = n <=> d = -1
  BY <1>5, <1>7, TickFacts
<1>10. /\ Step(g).count = (c + 1) % CountMod /\ Step(g).compare = n
       /\ Step(g).cause.ip = IF (c + 1) % CountMod = n
                             THEN g.cause.ip \cup {COMPARE_CONNECTED}
                             ELSE g.cause.ip
  BY <1>1, <1>2, StepFields, TickFacts
<1>11. n + (d + 1) = n + d + 1
  BY <1>3
<1> QED
  BY <1>8, <1>9, <1>10, <1>11 DEF Behind, Pending

LEMMA TicksBehind ==
  ASSUME NEW g \in Regs, NEW d \in Int, Behind(g, d),
         0 - Period <= d, d <= 3 * MaxMasked + 8, Ticks(g)
  PROVE  /\ r' \in Regs
         /\ r'.compare = g.compare /\ r'.sr = g.sr
         /\ r'.cause.iv = g.cause.iv /\ r'.epc = g.epc
         /\ \E n \in 1 .. 3 :
              /\ Behind(r', d + n)
              /\ Pending(r') <=> Pending(g) \/ (d < 0 /\ d + n >= 0)
<1>1. PICK s1 : s1 = Step(g)
  OBVIOUS
<1>2. PICK s2 : s2 = Step(s1)
  OBVIOUS
<1>3. PICK s3 : s3 = Step(s2)
  OBVIOUS
<1>4. /\ s1 \in Regs /\ Behind(s1, d + 1)
      /\ Pending(s1) <=> Pending(g) \/ d = -1
      /\ s1.compare = g.compare /\ s1.sr = g.sr
      /\ s1.cause.iv = g.cause.iv /\ s1.epc = g.epc
  <2>1. d <= 3 * (MaxMasked + 4)
    BY TickFacts
  <2>2. /\ Behind(Step(g), d + 1)
        /\ Pending(Step(g)) <=> Pending(g) \/ d = -1
    BY <2>1, StepBehind
  <2>3. /\ Step(g) \in Regs
        /\ Step(g).compare = g.compare /\ Step(g).sr = g.sr
        /\ Step(g).cause.iv = g.cause.iv /\ Step(g).epc = g.epc
    BY StepFields, TickFacts
  <2> QED
    BY <1>1, <2>2, <2>3
<1>5. /\ s2 \in Regs /\ Behind(s2, d + 2)
      /\ Pending(s2) <=> Pending(g) \/ d \in {-1, -2}
      /\ s2.compare = g.compare /\ s2.sr = g.sr
      /\ s2.cause.iv = g.cause.iv /\ s2.epc = g.epc
  <2>1. PICK e \in Int : e = d + 1
    OBVIOUS
  <2>2. /\ 0 - Period <= e /\ e <= 3 * (MaxMasked + 4)
        /\ e + 1 = d + 2 /\ (e = -1 <=> d = -2)
    BY <2>1, TickFacts
  <2>3. Behind(s2, e + 1) /\ (Pending(s2) <=> Pending(s1) \/ e = -1)
    BY <1>2, <1>4, <2>1, <2>2, StepBehind
  <2>4. /\ s2 \in Regs
        /\ s2.compare = s1.compare /\ s2.sr = s1.sr
        /\ s2.cause.iv = s1.cause.iv /\ s2.epc = s1.epc
    BY <1>2, <1>4, StepFields, TickFacts
  <2> QED
    BY <1>4, <2>2, <2>3, <2>4
<1>6. /\ s3 \in Regs /\ Behind(s3, d + 3)
      /\ Pending(s3) <=> Pending(g) \/ d \in {-1, -2, -3}
      /\ s3.compare = g.compare /\ s3.sr = g.sr
      /\ s3.cause.iv = g.cause.iv /\ s3.epc = g.epc
  <2>1. PICK e \in Int : e = d + 2
    OBVIOUS
  <2>2. /\ 0 - Period <= e /\ e <= 3 * (MaxMasked + 4)
        /\ e + 1 = d + 3 /\ (e = -1 <=> d = -3)
    BY <2>1, TickFacts
  <2>3. Behind(s3, e + 1) /\ (Pending(s3) <=> Pending(s2) \/ e = -1)
    BY <1>3, <1>5, <2>1, <2>2, StepBehind
  <2>4. /\ s3 \in Regs
        /\ s3.compare = s2.compare /\ s3.sr = s2.sr
        /\ s3.cause.iv = s2.cause.iv /\ s3.epc = s2.epc
    BY <1>3, <1>5, StepFields, TickFacts
  <2> QED
    BY <1>5, <2>2, <2>3, <2>4
<1>7. /\ d = -1 <=> d < 0 /\ d + 1 >= 0
      /\ d \in {-1, -2} <=> d < 0 /\ d + 2 >= 0
      /\ d \in {-1, -2, -3} <=> d < 0 /\ d + 3 >= 0
  OBVIOUS
<1>8. r' = s1 \/ r' = s2 \/ r' = s3
  BY <1>1, <1>2, <1>3, TickAssumption DEF Ticks
<1>9. CASE r' = s1
  <2>1. /\ r' \in Regs
        /\ r'.compare = g.compare /\ r'.sr = g.sr
        /\ r'.cause.iv = g.cause.iv /\ r'.epc = g.epc
        /\ Behind(r', d + 1)
        /\ Pending(r') <=> Pending(g) \/ (d < 0 /\ d + 1 >= 0)
    <3>1. Pending(s1) <=> Pending(g) \/ (d < 0 /\ d + 1 >= 0)
      BY <1>4, <1>7
    <3> QED
      BY <1>4, <1>9, <3>1, Zenon
  <2> QED
    BY <2>1
<1>10. CASE r' = s2
  <2>1. /\ r' \in Regs
        /\ r'.compare = g.compare /\ r'.sr = g.sr
        /\ r'.cause.iv = g.cause.iv /\ r'.epc = g.epc
        /\ Behind(r', d + 2)
        /\ Pending(r') <=> Pending(g) \/ (d < 0 /\ d + 2 >= 0)
    <3>1. Pending(s2) <=> Pending(g) \/ (d < 0 /\ d + 2 >= 0)
      BY <1>5, <1>7
    <3> QED
      BY <1>5, <1>10, <3>1, Zenon
  <2> QED
    BY <2>1
<1>11. CASE r' = s3
  <2>1. /\ r' \in Regs
        /\ r'.compare = g.compare /\ r'.sr = g.sr
        /\ r'.cause.iv = g.cause.iv /\ r'.epc = g.epc
        /\ Behind(r', d + 3)
        /\ Pending(r') <=> Pending(g) \/ (d < 0 /\ d + 3 >= 0)
    <3>1. Pending(s3) <=> Pending(g) \/ (d < 0 /\ d + 3 >= 0)
      BY <1>6, <1>7
    <3> QED
      BY <1>6, <1>11, <3>1, Zenon
  <2> QED
    BY <2>1
<1> QED
  BY <1>8, <1>9, <1>10, <1>11

(* What the handler reads out of COUNT, and what the tick promises.        *)
LEMMA BehindMeans ==
  ASSUME NEW g \in Regs, NEW d \in Int, Behind(g, d),
         0 - Period <= d, d <= 3 * MaxMasked + 8
  PROVE  /\ (g.count - g.compare) % CountMod < CountMod \div 2 <=> d >= 0
         /\ d < 0 => (g.compare - g.count) % CountMod = 0 - d
<1>1. PICK n \in 0 .. CountMod - 1 : g.compare = n
  BY DEF Regs
<1>2. PICK c \in 0 .. CountMod - 1 : /\ g.count = c
                                     /\ c = (n + d) % CountMod
  BY <1>1 DEF Regs, Behind
<1>3. n + d \in Int /\ c - n \in Int /\ n - c \in Int
  BY TickFacts
<1>4. 0 - CountMod <= n + d /\ n + d < 2 * CountMod
  BY TickFacts
<1>5. c = IF n + d < 0 THEN n + d + CountMod
          ELSE IF n + d < CountMod THEN n + d ELSE n + d - CountMod
  BY <1>2, <1>3, <1>4, Wrapped, TickFacts
<1>6. 0 - CountMod <= c - n /\ c - n < CountMod
  BY TickFacts
<1>7. (c - n) % CountMod = IF c - n < 0 THEN c - n + CountMod ELSE c - n
  BY <1>3, <1>6, Wrapped, TickFacts
<1>8. (n - c) % CountMod = IF n - c < 0 THEN n - c + CountMod ELSE n - c
  BY <1>3, <1>6, Wrapped, TickFacts
<1>9. (c - n) % CountMod = IF d < 0 THEN d + CountMod ELSE d
  BY <1>5, <1>7, TickFacts
<1>10. d < 0 => (n - c) % CountMod = 0 - d
  BY <1>5, <1>8, TickFacts
<1>11. (IF d < 0 THEN d + CountMod ELSE d) < CountMod \div 2 <=> d >= 0
  BY TickFacts
<1> QED
  BY <1>1, <1>2, <1>9, <1>10, <1>11

-----------------------------------------------------------------------------
Cause == [exc : {"INT"}, bd : BOOLEAN, iv : BOOLEAN, ip : SUBSET (0 .. 7)]
Status == [ie : BOOLEAN, exl : BOOLEAN, user : BOOLEAN, im : SUBSET (0 .. 7)]

(* The registers that the tick does not look at.                           *)
Same(g, h) == /\ h.count = g.count /\ h.compare = g.compare
              /\ h.cause.ip = g.cause.ip /\ h.cause.iv = g.cause.iv

LEMMA SetSr ==
  ASSUME NEW g \in Regs, NEW s \in Status
  PROVE  /\ [g EXCEPT !.sr = s] \in Regs
         /\ [g EXCEPT !.sr = s].sr = s
         /\ [g EXCEPT !.sr = s].epc = g.epc
         /\ Same(g, [g EXCEPT !.sr = s])
<1>1. g.sr \in Status /\ g.cause \in Cause
  BY DEF Regs, Status, Cause
<1>2. [g EXCEPT !.sr = s] \in Regs
  BY DEF Regs, Status
<1>3. PICK h : h = [g EXCEPT !.sr = s]
  OBVIOUS
<1>4. /\ h.sr = s /\ h.epc = g.epc /\ h.count = g.count
      /\ h.compare = g.compare /\ h.cause = g.cause
  BY <1>3 DEF Regs
<1> QED
  BY <1>2, <1>3, <1>4 DEF Same

LEMMA SetCause ==
  ASSUME NEW g \in Regs, NEW c \in Cause
  PROVE  /\ [g EXCEPT !.cause = c] \in Regs
         /\ [g EXCEPT !.cause = c].cause = c
         /\ [g EXCEPT !.cause = c].sr = g.sr
         /\ [g EXCEPT !.cause = c].epc = g.epc
         /\ [g EXCEPT !.cause = c].count = g.count
         /\ [g EXCEPT !.cause = c].compare = g.compare
<1>2. [g EXCEPT !.cause = c] \in Regs
  BY DEF Regs, Cause
<1>3. PICK h : h = [g EXCEPT !.cause = c]
  OBVIOUS
<1>4. /\ h.sr = g.sr /\ h.epc = g.epc /\ h.count = g.count
      /\ h.compare = g.compare /\ h.cause = c
  BY <1>3 DEF Regs
<1> QED
  BY <1>2, <1>3, <1>4

(* doexception, of an interrupt outside of a handler.                      *)
LEMMA ExceptionFields ==
  ASSUME NEW g \in Regs, ~ g.sr.exl, NEW epc \in {"reset", "work"}
  PROVE  LET h == DoException(g, "INT", epc, 0, FALSE)
         IN /\ h \in Regs /\ Same(g, h)
            /\ h.sr.exl /\ h.sr.ie = g.sr.ie /\ h.sr.im = g.sr.im
            /\ h.epc = epc
<1>1. PICK page \in Int : 0 \div 2 ^ VPAGE_SH = page
  <2>1. VPAGE_SH \in 0 .. PAGESHIFT_MAX + 1
    BY Cp0Assumption DEF VPAGE_SH
  <2>2. 2 ^ VPAGE_SH \in Nat \ {0}
    BY <2>1, PowerAssumption
  <2> QED
    BY <2>2
<1>2. g.sr \in Status /\ g.cause \in Cause
  BY DEF Regs, Status, Cause
<1>3. PICK c1 \in Cause : /\ c1 = [g.cause EXCEPT !.exc = "INT"]
                          /\ c1.iv = g.cause.iv /\ c1.ip = g.cause.ip
  <2>1. PICK c : c = [g.cause EXCEPT !.exc = "INT"]
    OBVIOUS
  <2>2. c \in Cause
    BY <1>2, <2>1 DEF Cause
  <2>3. c.iv = g.cause.iv /\ c.ip = g.cause.ip
    BY <1>2, <2>1 DEF Cause
  <2> QED
    BY <2>1, <2>2, <2>3
<1>4. PICK g1 \in Regs : /\ g1 = [g EXCEPT !.cause = c1]
                         /\ g1.cause = c1 /\ g1.sr = g.sr
                         /\ g1.count = g.count /\ g1.compare = g.compare
  <2>1. PICK h : h = [g EXCEPT !.cause = c1]
    OBVIOUS
  <2>2. /\ h \in Regs /\ h.cause = c1 /\ h.sr = g.sr
        /\ h.count = g.count /\ h.compare = g.compare
    BY <2>1, SetCause
  <2> QED
    BY <2>1, <2>2
<1>5. PICK g2 \in Regs : /\ g2 = FaultAddress(g1, 0)
                         /\ g2.cause = c1 /\ g2.sr = g.sr
                         /\ g2.count = g.count /\ g2.compare = g.compare
  <2>1. PICK hi : hi = [g1.entryhi EXCEPT !.vpn2 = page]
    OBVIOUS
  <2>2. hi \in [vpn2 : Int, asid : Int]
    BY <2>1 DEF Regs
  <2>3. PICK ha : ha = [g1 EXCEPT !.badvaddr = 0]
    OBVIOUS
  <2>4. ha \in Regs /\ ha.entryhi = g1.entryhi
    BY <2>3 DEF Regs
  <2>5. /\ ha.cause = g1.cause /\ ha.sr = g1.sr
        /\ ha.count = g1.count /\ ha.compare = g1.compare
    BY <2>3 DEF Regs
  <2>6. PICK hb : hb = [ha EXCEPT !.context = page]
    OBVIOUS
  <2>7. hb \in Regs /\ hb.entryhi = ha.entryhi
    BY <2>4, <2>6 DEF Regs
  <2>8. /\ hb.cause = ha.cause /\ hb.sr = ha.sr
        /\ hb.count = ha.count /\ hb.compare = ha.compare
    BY <2>4, <2>6 DEF Regs
  <2>9. PICK h : h = [hb EXCEPT !.entryhi = hi]
    OBVIOUS
  <2>10. h \in Regs
    BY <2>2, <2>9, <2>7 DEF Regs
  <2>11. /\ h.cause = hb.cause /\ h.sr = hb.sr
        /\ h.count = hb.count /\ h.compare = hb.compare
    BY <2>9, <2>7 DEF Regs
  <2>12. FaultAddress(g1, 0) = h
    BY <1>1, <2>1, <2>9, <2>3, <2>4, <2>6, <2>7 DEF FaultAddress
  <2> QED
    BY <1>4, <2>10, <2>11, <2>12, <2>5, <2>8
<1>6. PICK c2 \in Cause : /\ c2 = [c1 EXCEPT !.bd = FALSE]
                          /\ c2.iv = c1.iv /\ c2.ip = c1.ip
  <2>1. PICK c : c = [c1 EXCEPT !.bd = FALSE]
    OBVIOUS
  <2>2. c \in Cause
    BY <2>1 DEF Cause
  <2>3. c.iv = c1.iv /\ c.ip = c1.ip
    BY <2>1 DEF Cause
  <2> QED
    BY <2>1, <2>2, <2>3
<1>7. PICK g3 \in Regs : /\ g3 = [g2 EXCEPT !.epc = epc]
                         /\ g3.cause = c1 /\ g3.sr = g.sr /\ g3.epc = epc
                         /\ g3.count = g.count /\ g3.compare = g.compare
  <2>1. PICK h : h = [g2 EXCEPT !.epc = epc]
    OBVIOUS
  <2>2. h \in Regs
    BY <2>1 DEF Regs
  <2>3. /\ h.cause = g2.cause /\ h.sr = g2.sr /\ h.epc = epc
        /\ h.count = g2.count /\ h.compare = g2.compare
    BY <2>1 DEF Regs
  <2> QED
    BY <1>5, <2>1, <2>2, <2>3
<1>8. PICK g4 \in Regs : /\ g4 = [g3 EXCEPT !.cause = c2]
                         /\ g4.cause = c2 /\ g4.sr = g.sr /\ g4.epc = epc
                         /\ g4.count = g.count /\ g4.compare = g.compare
  <2>1. PICK h : h = [g3 EXCEPT !.cause = c2]
    OBVIOUS
  <2>2. /\ h \in Regs /\ h.cause = c2 /\ h.sr = g3.sr /\ h.epc = g3.epc
        /\ h.count = g3.count /\ h.compare = g3.compare
    BY <2>1, SetCause
  <2> QED
    BY <1>7, <2>1, <2>2
<1>9. RestartAt(g2, epc, FALSE) = g4
  BY <1>5, <1>6, <1>7, <1>8 DEF RestartAt
<1>10. PICK st \in Status : /\ st = [g.sr EXCEPT !.exl = TRUE]
                            /\ st.exl /\ st.ie = g.sr.ie /\ st.im = g.sr.im
  <2>1. PICK s : s = [g.sr EXCEPT !.exl = TRUE]
    OBVIOUS
  <2>2. s \in Status
    BY <1>2, <2>1 DEF Status
  <2>3. s.exl /\ s.ie = g.sr.ie /\ s.im = g.sr.im
    BY <1>2, <2>1 DEF Status
  <2> QED
    BY <2>1, <2>2, <2>3
<1>11. DoException(g, "INT", epc, 0, FALSE) = [g4 EXCEPT !.sr = st]
  BY <1>3, <1>4, <1>5, <1>8, <1>9, <1>10 DEF DoException
<1>12. PICK h : h = [g4 EXCEPT !.sr = st]
  OBVIOUS
<1>13. h \in Regs /\ h.sr = st /\ h.epc = epc /\ Same(g4, h)
  BY <1>8, <1>12, SetSr
<1>14. Same(g, h)
  BY <1>3, <1>6, <1>8, <1>13 DEF Same
<1> QED
  BY <1>10, <1>11, <1>12, <1>13, <1>14

LEMMA SetCompare ==
  ASSUME NEW g \in Regs, NEW v \in 0 .. CountMod - 1
  PROVE  LET h == WriteCompare(g, v)
         IN /\ h \in Regs /\ ~ Pending(h)
            /\ h.count = g.count /\ h.compare = v
            /\ h.sr = g.sr /\ h.epc = g.epc /\ h.cause.iv = g.cause.iv
<1>1. PICK g1 : g1 = [g EXCEPT !.compare = v]
  OBVIOUS
<1>2. g1 \in Regs
  BY <1>1 DEF Regs
<1>3. /\ g1.count = g.count /\ g1.compare = v /\ g1.sr = g.sr
      /\ g1.epc = g.epc /\ g1.cause = g.cause
  BY <1>1 DEF Regs
<1>4. PICK c : c = [g1.cause EXCEPT !.ip = g1.cause.ip \ {COMPARE_CONNECTED}]
  OBVIOUS
<1>5. g1.cause \in Cause
  BY <1>2 DEF Regs, Cause
<1>6. c \in Cause
  BY <1>4, <1>5 DEF Cause
<1>7. c.iv = g1.cause.iv /\ COMPARE_CONNECTED \notin c.ip
  BY <1>4, <1>5 DEF Cause
<1>8. PICK h : h = [g1 EXCEPT !.cause = c]
  OBVIOUS
<1>9. /\ h \in Regs /\ h.cause = c /\ h.sr = g1.sr /\ h.epc = g1.epc
      /\ h.count = g1.count /\ h.compare = g1.compare
  BY <1>2, <1>6, <1>8, SetCause
<1>10. WriteCompare(g, v) = h
  BY <1>1, <1>4, <1>8 DEF WriteCompare, ClearInterrupt
<1> QED
  BY <1>3, <1>7, <1>9, <1>10 DEF Pending

(* A period later than the last time, or than COUNT.                       *)
LEMMA NextCompare ==
  ASSUME NEW g \in Regs, NEW d \in Int, Behind(g, d),
         0 - Period <= d, d <= 3 * MaxMasked + 8
  PROVE  /\ (g.compare + Period) % CountMod \in 0 .. CountMod - 1
         /\ (g.count + Period) % CountMod \in 0 .. CountMod - 1
         /\ g.count = (((g.compare + Period) % CountMod) + (d - Period))
                         % CountMod
         /\ g.count = (((g.count + Period) % CountMod) + (0 - Period))
                         % CountMod
<1>1. PICK n \in 0 .. CountMod - 1 : g.compare = n
  BY DEF Regs
<1>2. PICK c \in 0 .. CountMod - 1 : g.count = c /\ c = (n + d) % CountMod
  BY <1>1 DEF Regs, Behind
<1>3. ASSUME NEW x \in 0 .. CountMod - 1
      PROVE  (x + Period) % CountMod
               = IF x + Period < CountMod THEN x + Period
                                          ELSE x + Period - CountMod
  <2>1. x + Period \in Int /\ 0 <= x + Period /\ x + Period < 2 * CountMod
    BY TickFacts
  <2> QED
    BY <2>1, Wrapped, TickFacts
<1>4. PICK m \in 0 .. CountMod - 1 : (n + Period) % CountMod = m
  BY <1>3, TickFacts
<1>5. PICK k \in 0 .. CountMod - 1 : (c + Period) % CountMod = k
  BY <1>3, TickFacts
<1>6. m = IF n + Period < CountMod THEN n + Period ELSE n + Period - CountMod
  BY <1>3, <1>4
<1>7. k = IF c + Period < CountMod THEN c + Period ELSE c + Period - CountMod
  BY <1>3, <1>5
<1>8. n + d \in Int /\ 0 - CountMod <= n + d /\ n + d < 2 * CountMod
  BY TickFacts
<1>9. c = IF n + d < 0 THEN n + d + CountMod
          ELSE IF n + d < CountMod THEN n + d ELSE n + d - CountMod
  BY <1>2, <1>8, Wrapped, TickFacts
<1>10. (m + (d - Period)) % CountMod = c
  <2>1. PICK a \in Int : a = m + (d - Period)
    BY TickFacts
  <2>2. /\ 0 - CountMod <= a /\ a < 2 * CountMod
        /\ c = IF a < 0 THEN a + CountMod
               ELSE IF a < CountMod THEN a ELSE a - CountMod
    BY <1>6, <1>9, <2>1, TickFacts
  <2> QED
    BY <2>1, <2>2, Wrapped, TickFacts
<1>11. (k + (0 - Period)) % CountMod = c
  <2>1. PICK a \in Int : a = k + (0 - Period)
    BY TickFacts
  <2>2. /\ 0 - CountMod <= a /\ a < CountMod
        /\ c = IF a < 0 THEN a + CountMod ELSE a
    BY <1>7, <2>1, TickFacts
  <2> QED
    BY <2>1, <2>2, Wrapped, TickFacts
<1> QED
  BY <1>1, <1>2, <1>4, <1>5, <1>10, <1>11

-----------------------------------------------------------------------------
(***************************************************************************)
(* Where the CPU is, and what the registers say about it: interrupts are   *)
(* disabled in the handler, which returns to the program; the program has  *)
(* masked them for as long as it says.                                     *)
(***************************************************************************)
TickControl ==
  /\ r \in Regs
  /\ expire = r.compare
  /\ r.sr.im = {COMPARE_CONNECTED} /\ r.cause.iv
  /\ at \in {"work", "int", "check"}
  /\ r.sr.exl <=> at # "work"
  /\ at # "work" => r.epc = "work" /\ r.sr.ie
  /\ masked \in 0 .. MaxMasked
  /\ r.sr.ie <=> masked = 0

(* How far COUNT can be behind COMPARE, and what that says of the tick.    *)
Due(d) ==
  /\ 0 - Period <= d
  /\ at = "work" => /\ Pending(r) <=> d >= 0
                    /\ d <= 3 * (MaxMasked - masked) + 2
  /\ at = "int" => 0 <= d /\ d <= 3 * MaxMasked + 5
  /\ at = "check" => /\ d < 0 => ~ Pending(r)
                     /\ d <= 3 * MaxMasked + 8

TickInv ==
  /\ TickControl
  /\ \E d \in 0 - Period .. 3 * MaxMasked + 8 : Behind(r, d) /\ Due(d)

(* The distance after the steps of coprocessor 0.                          *)
LEMMA Elapsed ==
  ASSUME NEW g \in Regs, NEW d \in Int, Behind(g, d),
         0 - Period <= d, d <= 3 * MaxMasked + 5, Ticks(g)
  PROVE  \E e \in 0 - Period .. 3 * MaxMasked + 8 :
           /\ Behind(r', e) /\ d < e /\ e <= d + 3
           /\ Pending(r') <=> Pending(g) \/ (d < 0 /\ e >= 0)
<1>1. d <= 3 * MaxMasked + 8
  BY TickFacts
<1>2. PICK n \in 1 .. 3 : /\ Behind(r', d + n)
                          /\ Pending(r') <=> Pending(g) \/ (d < 0 /\ d + n >= 0)
  BY <1>1, TicksBehind
<1>3. /\ d + n \in 0 - Period .. 3 * MaxMasked + 8
      /\ d < d + n /\ d + n <= d + 3
  BY TickFacts
<1> QED
  BY <1>2, <1>3

LEMMA TickStart == TickInit => TickInv
<1> SUFFICES ASSUME TickInit PROVE TickInv
  OBVIOUS
<1>1. PICK now \in 0 .. CountMod - 1 :
        /\ expire = (now + Period) % CountMod
        /\ r = [ZeroRegs EXCEPT !.count = now,
                                !.compare = (now + Period) % CountMod,
                                !.cause.iv = TRUE,
                                !.sr.ie = TRUE,
                                !.sr.im = {COMPARE_CONNECTED}]
  BY DEF TickInit
<1>2. PICK later \in 0 .. CountMod - 1 : (now + Period) % CountMod = later
  <2>1. now + Period \in Int /\ CountMod \in Nat \ {0}
    BY Cp0Assumption, TickAssumption
  <2> QED
    BY <2>1
<1>3. later = IF now + Period < CountMod THEN now + Period
                                         ELSE now + Period - CountMod
  <2>1. now + Period \in Int /\ 0 <= now + Period /\ now + Period < 2 * CountMod
    BY TickFacts
  <2> QED
    BY <1>2, <2>1, Wrapped, TickFacts
<1>4. PICK z : z = ZeroRegs
  OBVIOUS
<1>5. z \in Regs
  <2>1. ZeroLo \in [pfn : Int, dirty : BOOLEAN, valid : BOOLEAN,
                    global : BOOLEAN]
    BY DEF ZeroLo
  <2>2. PICK los : los = [odd \in 0 .. 1 |-> ZeroLo]
    OBVIOUS
  <2>3. los \in [0 .. 1 -> [pfn : Int, dirty : BOOLEAN, valid : BOOLEAN,
                            global : BOOLEAN]]
    BY <2>1, <2>2
  <2>4. 0 \in 0 .. CountMod - 1
    BY Cp0Assumption
  <2> QED
    BY <1>4, <2>2, <2>3, <2>4 DEF ZeroRegs, Regs
<1>6. PICK g1 : g1 = [z EXCEPT !.count = now]
  OBVIOUS
<1>7. PICK g2 : g2 = [g1 EXCEPT !.compare = later]
  OBVIOUS
<1>8. /\ z.cause.ip = {} /\ ~ z.sr.exl
      /\ z.cause \in Cause /\ z.sr \in Status
  <2>1. /\ z.cause = [exc |-> "INT", bd |-> FALSE, iv |-> FALSE, ip |-> {}]
        /\ z.sr = [ie |-> FALSE, exl |-> FALSE, user |-> FALSE, im |-> {}]
    BY <1>4 DEF ZeroRegs
  <2> QED
    BY <2>1 DEF Cause, Status
<1>9. /\ g1 \in Regs /\ g1.count = now /\ g1.cause = z.cause /\ g1.sr = z.sr
  BY <1>5, <1>6 DEF Regs
<1>10. /\ g2 \in Regs /\ g2.count = now /\ g2.compare = later
      /\ g2.cause = z.cause /\ g2.sr = z.sr
  BY <1>7, <1>9 DEF Regs
<1>11. PICK c : c = [g2.cause EXCEPT !.iv = TRUE]
  OBVIOUS
<1>12. c \in Cause /\ c.iv /\ c.ip = {}
  BY <1>8, <1>10, <1>11 DEF Cause
<1>13. PICK g3 : g3 = [g2 EXCEPT !.cause = c]
  OBVIOUS
<1>14. /\ g3 \in Regs /\ g3.count = now /\ g3.compare = later
      /\ g3.cause = c /\ g3.sr = z.sr
  BY <1>10, <1>12, <1>13, SetCause
<1>15. PICK s1 : s1 = [g3.sr EXCEPT !.ie = TRUE]
  OBVIOUS
<1>16. s1 \in Status /\ s1.ie /\ ~ s1.exl
  BY <1>8, <1>14, <1>15 DEF Status
<1>17. PICK g4 : g4 = [g3 EXCEPT !.sr = s1]
  OBVIOUS
<1>18. g4 \in Regs /\ g4.sr = s1 /\ Same(g3, g4)
  BY <1>14, <1>16, <1>17, SetSr
<1>19. PICK s2 : s2 = [g4.sr EXCEPT !.im = {COMPARE_CONNECTED}]
  OBVIOUS
<1>20. s2 \in Status /\ s2.ie /\ ~ s2.exl /\ s2.im = {COMPARE_CONNECTED}
  BY <1>16, <1>18, <1>19 DEF Status, COMPARE_CONNECTED
<1>21. PICK g5 : g5 = [g4 EXCEPT !.sr = s2]
  OBVIOUS
<1>22. g5 \in Regs /\ g5.sr = s2 /\ Same(g4, g5)
  BY <1>18, <1>20, <1>21, SetSr
<1>23. r = g5
  BY <1>1, <1>2, <1>4, <1>6, <1>7, <1>11, <1>13, <1>15, <1>17, <1>19, <1>21,
     Zenon
<1>24. /\ r.count = now /\ r.compare = later /\ r.cause.iv
      /\ r.cause.ip = {} /\ r.sr.ie /\ ~ r.sr.exl
      /\ r.sr.im = {COMPARE_CONNECTED}
  BY <1>12, <1>14, <1>18, <1>20, <1>22, <1>23 DEF Same
<1>25. r \in Regs
  BY <1>22, <1>23
<1>26. at = "work" /\ masked = 0 /\ expire = r.compare
  BY <1>1, <1>2, <1>24 DEF TickInit
<1>27. TickControl
  BY <1>24, <1>25, <1>26, TickFacts DEF TickControl
<1>28. Behind(r, 0 - Period)
  <2>1. PICK a \in Int : a = later + (0 - Period)
    BY TickFacts
  <2>2. /\ 0 - CountMod <= a /\ a < CountMod
        /\ now = IF a < 0 THEN a + CountMod ELSE a
    BY <1>3, <2>1, TickFacts
  <2> QED
    BY <1>24, <2>1, <2>2, Wrapped, TickFacts DEF Behind
<1>29. Due(0 - Period)
  BY <1>24, <1>26, TickFacts DEF Due, Pending
<1>30. 0 - Period \in 0 - Period .. 3 * MaxMasked + 8
  BY TickFacts
<1> QED
  BY <1>27, <1>28, <1>29, <1>30 DEF TickInv

LEMMA InterruptStep == TickInv /\ TickInterrupt => TickInv'
<1> SUFFICES ASSUME TickInv, TickInterrupt PROVE TickInv'
  OBVIOUS
<1>1. TickControl
  BY DEF TickInv
<1>2. PICK d \in 0 - Period .. 3 * MaxMasked + 8 : Behind(r, d) /\ Due(d)
  BY DEF TickInv
<1>3. ~ r.sr.exl /\ r.sr.ie /\ Pending(r) /\ at = "work"
  BY <1>1 DEF TickInterrupt, CheckInterrupt, TickControl, Pending
<1>4. PICK h : h = DoException(r, "INT", at, 0, FALSE)
  OBVIOUS
<1>5. /\ h \in Regs /\ Same(r, h)
      /\ h.sr.exl /\ h.sr.ie = r.sr.ie /\ h.sr.im = r.sr.im
      /\ h.epc = "work"
  BY <1>1, <1>3, <1>4, ExceptionFields DEF TickControl
<1>6. Behind(h, d) /\ Pending(h)
  BY <1>2, <1>3, <1>5 DEF Same, Behind, Pending
<1>7. masked = 0 /\ 0 <= d /\ d <= 3 * MaxMasked + 2
  BY <1>1, <1>2, <1>3, TickFacts DEF TickControl, Due
<1>8. d \in Int /\ 0 - Period <= d /\ d <= 3 * MaxMasked + 5
  BY <1>7, TickFacts
<1>9. /\ Ticks(h) /\ at' = "int" /\ expire' = expire /\ masked' = masked
  BY <1>1, <1>4 DEF TickInterrupt, Vector, TickControl
<1>10. /\ r' \in Regs /\ r'.compare = h.compare /\ r'.sr = h.sr
       /\ r'.cause.iv = h.cause.iv /\ r'.epc = h.epc
  <2>1. d <= 3 * MaxMasked + 8
    OBVIOUS
  <2> QED
    BY <1>5, <1>6, <1>8, <1>9, <2>1, TicksBehind
<1>11. PICK e \in 0 - Period .. 3 * MaxMasked + 8 :
         /\ Behind(r', e) /\ d < e /\ e <= d + 3
  BY <1>5, <1>6, <1>8, <1>9, Elapsed
<1>12. TickControl'
  BY <1>1, <1>3, <1>5, <1>7, <1>9, <1>10 DEF TickControl, Same
<1>13. 0 <= e /\ e <= 3 * MaxMasked + 5 /\ 0 - Period <= e
  BY <1>7, <1>11, TickFacts
<1>14. Due(e)'
  BY <1>9, <1>13 DEF Due
<1> QED
  BY <1>11, <1>12, <1>14 DEF TickInv

(* The program runs, and perhaps masks or unmasks interrupts.              *)
LEMMA ProgramStep ==
  ASSUME TickInv, at = "work", at' = "work", expire' = expire,
         Pending(r) => masked > 0,
         masked' \in 0 .. MaxMasked,
         masked > 0 => masked' = masked - 1,
         NEW s \in Status, s.im = {COMPARE_CONNECTED}, ~ s.exl,
         s.ie <=> masked' = 0,
         Ticks([r EXCEPT !.sr = s])
  PROVE  TickInv'
<1>1. TickControl
  BY DEF TickInv
<1>2. PICK d \in 0 - Period .. 3 * MaxMasked + 8 : Behind(r, d) /\ Due(d)
  BY DEF TickInv
<1>3. PICK h : h = [r EXCEPT !.sr = s]
  OBVIOUS
<1>4. h \in Regs /\ h.sr = s /\ Same(r, h)
  BY <1>1, <1>3, SetSr DEF TickControl
<1>5. Behind(h, d) /\ (Pending(h) <=> Pending(r))
  BY <1>2, <1>4 DEF Same, Behind, Pending
<1>6. masked \in 0 .. MaxMasked
  BY <1>1 DEF TickControl
<1>7. /\ Pending(r) <=> d >= 0
      /\ 0 - Period <= d /\ d <= 3 * (MaxMasked - masked) + 2
      /\ masked = 0 => d < 0
  BY <1>2, <1>6, TickFacts DEF Due
<1>8. d \in Int /\ d <= 3 * MaxMasked + 5 /\ d <= 3 * MaxMasked + 8
  BY <1>6, <1>7, TickFacts
<1>9. Ticks(h)
  BY <1>3
<1>10. /\ r' \in Regs /\ r'.compare = h.compare /\ r'.sr = h.sr
       /\ r'.cause.iv = h.cause.iv
  BY <1>4, <1>5, <1>7, <1>8, <1>9, TicksBehind
<1>11. PICK e \in 0 - Period .. 3 * MaxMasked + 8 :
         /\ Behind(r', e) /\ d < e /\ e <= d + 3
         /\ Pending(r') <=> Pending(h) \/ (d < 0 /\ e >= 0)
  BY <1>4, <1>5, <1>7, <1>8, <1>9, Elapsed
<1>12. TickControl'
  BY <1>1, <1>4, <1>10 DEF TickControl, Same
<1>13. Pending(r') <=> e >= 0
  BY <1>5, <1>7, <1>11
<1>14. e <= 3 * (MaxMasked - masked') + 2
  <2>1. PICK m \in 0 .. MaxMasked : masked' = m
    OBVIOUS
  <2>2. masked > 0 => m = masked - 1
    BY <2>1
  <2>3. e <= 3 * (MaxMasked - m) + 2
    <3>1. CASE masked = 0
      BY <1>7, <1>11, <3>1, TickFacts
    <3>2. CASE masked > 0
      BY <1>6, <1>7, <1>11, <2>2, <3>2, TickFacts
    <3> QED
      BY <1>6, <3>1, <3>2
  <2> QED
    BY <2>1, <2>3
<1>15. 0 - Period <= e
  OBVIOUS
<1>16. Due(e)'
  BY <1>13, <1>14, <1>15 DEF Due, Pending
<1> QED
  BY <1>11, <1>12, <1>16 DEF TickInv

LEMMA WorkStep == TickInv /\ Work => TickInv'
<1> SUFFICES ASSUME TickInv, Work PROVE TickInv'
  OBVIOUS
<1>1. TickControl
  BY DEF TickInv
<1>2. /\ at = "work" /\ at' = "work" /\ expire' = expire
      /\ r.sr.ie /\ ~ r.sr.exl /\ masked = 0 /\ ~ Pending(r)
      /\ r.sr.im = {COMPARE_CONNECTED}
  BY <1>1 DEF Work, CheckInterrupt, TickControl, Pending
<1>3. r \in Regs /\ r.sr \in Status
  BY <1>1 DEF TickControl, Regs, Status
<1>4. CASE Ticks(r) /\ UNCHANGED masked
  <2>1. PICK s : s = r.sr
    OBVIOUS
  <2>2. [r EXCEPT !.sr = s] = r
    BY <1>3, <2>1 DEF Regs
  <2>3. masked' = 0 /\ 0 \in 0 .. MaxMasked
    BY <1>2, <1>4, TickFacts
  <2> QED
    BY <1>2, <1>3, <1>4, <2>1, <2>2, <2>3, ProgramStep
<1>5. CASE masked' \in 1 .. MaxMasked /\ Ticks([r EXCEPT !.sr.ie = FALSE])
  <2>1. PICK s : s = [r.sr EXCEPT !.ie = FALSE]
    OBVIOUS
  <2>2. s \in Status /\ s.im = {COMPARE_CONNECTED} /\ ~ s.exl /\ ~ s.ie
    BY <1>2, <1>3, <2>1 DEF Status
  <2>3. Ticks([r EXCEPT !.sr = s])
    BY <1>5, <2>1
  <2>4. masked' \in 0 .. MaxMasked /\ masked' # 0
    BY <1>5, TickFacts
  <2> QED
    BY <1>2, <2>2, <2>3, <2>4, ProgramStep
<1> QED
  BY <1>4, <1>5 DEF Work

LEMMA WorkMaskedStep == TickInv /\ WorkMasked => TickInv'
<1> SUFFICES ASSUME TickInv, WorkMasked PROVE TickInv'
  OBVIOUS
<1>1. TickControl
  BY DEF TickInv
<1>2. /\ at = "work" /\ at' = "work" /\ expire' = expire
      /\ ~ r.sr.ie /\ ~ r.sr.exl
      /\ r.sr.im = {COMPARE_CONNECTED}
      /\ r \in Regs /\ masked \in 0 .. MaxMasked /\ masked # 0
      /\ masked' = masked - 1
  BY <1>1 DEF WorkMasked, TickControl
<1>3. r.sr \in Status
  BY <1>2 DEF Regs, Status
<1>4. PICK s : s = [r.sr EXCEPT !.ie = (masked = 1)]
  OBVIOUS
<1>5. s \in Status /\ s.im = {COMPARE_CONNECTED} /\ ~ s.exl
  BY <1>2, <1>3, <1>4 DEF Status
<1>6. s.ie <=> masked = 1
  BY <1>3, <1>4 DEF Status
<1>7. /\ masked > 0 /\ masked - 1 \in 0 .. MaxMasked
      /\ masked - 1 = 0 <=> masked = 1
  BY <1>2, TickFacts
<1>8. Ticks([r EXCEPT !.sr = s])
  BY <1>4 DEF WorkMasked
<1> QED
  BY <1>2, <1>5, <1>6, <1>7, <1>8, ProgramStep

(* The handler writes COMPARE, which acknowledges the tick.                *)
LEMMA CompareStep ==
  ASSUME TickInv, at # "work", at' = "check", masked' = masked,
         NEW v \in 0 .. CountMod - 1, expire' = v,
         NEW d \in Int, 0 - Period <= d, d <= 3 * MaxMasked + 5,
         r.count = (v + d) % CountMod,
         Ticks(WriteCompare(r, v))
  PROVE  TickInv'
<1>1. TickControl
  BY DEF TickInv
<1>2. PICK h : h = WriteCompare(r, v)
  OBVIOUS
<1>3. /\ h \in Regs /\ ~ Pending(h)
      /\ h.count = r.count /\ h.compare = v
      /\ h.sr = r.sr /\ h.epc = r.epc /\ h.cause.iv = r.cause.iv
  BY <1>1, <1>2, SetCompare DEF TickControl
<1>4. Behind(h, d) /\ Ticks(h) /\ d <= 3 * MaxMasked + 8
  BY <1>2, <1>3, TickFacts DEF Behind
<1>5. /\ r' \in Regs /\ r'.compare = h.compare /\ r'.sr = h.sr
      /\ r'.cause.iv = h.cause.iv /\ r'.epc = h.epc
  BY <1>3, <1>4, TicksBehind
<1>6. PICK e \in 0 - Period .. 3 * MaxMasked + 8 :
        /\ Behind(r', e) /\ d < e /\ e <= d + 3
        /\ Pending(r') <=> Pending(h) \/ (d < 0 /\ e >= 0)
  BY <1>3, <1>4, Elapsed
<1>7. TickControl'
  BY <1>1, <1>3, <1>5 DEF TickControl
<1>8. /\ 0 - Period <= e /\ e <= 3 * MaxMasked + 8
      /\ e < 0 => ~ Pending(r')
  BY <1>3, <1>6
<1>9. Due(e)'
  BY <1>8 DEF Due, Pending
<1> QED
  BY <1>6, <1>7, <1>9 DEF TickInv

LEMMA WriteStep == TickInv /\ TickWrite => TickInv'
<1> SUFFICES ASSUME TickInv, TickWrite PROVE TickInv'
  OBVIOUS
<1>1. PICK d \in 0 - Period .. 3 * MaxMasked + 8 : Behind(r, d) /\ Due(d)
  BY DEF TickInv
<1>2. at = "int" /\ at' = "check" /\ masked' = masked
  BY DEF TickWrite
<1>3. 0 <= d /\ d <= 3 * MaxMasked + 5
  BY <1>1, <1>2 DEF Due
<1>4. r \in Regs /\ expire = r.compare
  BY DEF TickInv, TickControl
<1>5. PICK v : v = (r.compare + Period) % CountMod
  OBVIOUS
<1>6. PICK b \in Int : b = d - Period
  BY TickFacts
<1>7. v \in 0 .. CountMod - 1 /\ r.count = (v + b) % CountMod
  <2>1. d \in Int /\ 0 - Period <= d /\ d <= 3 * MaxMasked + 8
    BY TickFacts
  <2> QED
    BY <1>1, <1>4, <1>5, <1>6, <2>1, NextCompare
<1>8. 0 - Period <= b /\ b <= 3 * MaxMasked + 5
  BY <1>3, <1>6, TickFacts
<1>9. expire' = v /\ Ticks(WriteCompare(r, v))
  BY <1>4, <1>5 DEF TickWrite
<1> QED
  BY <1>2, <1>7, <1>8, <1>9, CompareStep

LEMMA AgainStep == TickInv /\ TickAgain => TickInv'
<1> SUFFICES ASSUME TickInv, TickAgain PROVE TickInv'
  OBVIOUS
<1>1. PICK d \in 0 - Period .. 3 * MaxMasked + 8 : Behind(r, d) /\ Due(d)
  BY DEF TickInv
<1>2. at = "check" /\ at' = "check" /\ masked' = masked
  BY DEF TickAgain
<1>3. r \in Regs
  BY DEF TickInv, TickControl
<1>4. PICK v : v = (r.count + Period) % CountMod
  OBVIOUS
<1>5. PICK b \in Int : b = 0 - Period
  BY TickFacts
<1>6. v \in 0 .. CountMod - 1 /\ r.count = (v + b) % CountMod
  <2>1. d \in Int /\ 0 - Period <= d /\ d <= 3 * MaxMasked + 8
    BY TickFacts
  <2> QED
    BY <1>1, <1>3, <1>4, <1>5, <2>1, NextCompare
<1>7. 0 - Period <= b /\ b <= 3 * MaxMasked + 5
  BY <1>5, TickFacts
<1>8. expire' = v /\ Ticks(WriteCompare(r, v))
  BY <1>4 DEF TickAgain
<1> QED
  BY <1>2, <1>6, <1>7, <1>8, CompareStep

(* ERET, when COMPARE is still ahead.                                      *)
LEMMA ReturnStep == TickInv /\ TickReturn => TickInv'
<1> SUFFICES ASSUME TickInv, TickReturn PROVE TickInv'
  OBVIOUS
<1>1. TickControl
  BY DEF TickInv
<1>2. PICK d \in 0 - Period .. 3 * MaxMasked + 8 : Behind(r, d) /\ Due(d)
  BY DEF TickInv
<1>3. /\ r \in Regs /\ expire = r.compare /\ at = "check" /\ ~ Late(r.count)
      /\ at' = "work" /\ expire' = expire /\ masked' = masked
      /\ r.sr.ie /\ r.sr.im = {COMPARE_CONNECTED}
      /\ masked = 0
  BY <1>1 DEF TickReturn, TickControl
<1>4. d \in Int /\ 0 - Period <= d /\ d <= 3 * MaxMasked + 8
  BY TickFacts
<1>5. d < 0
  <2>1. (r.count - r.compare) % CountMod < CountMod \div 2 <=> d >= 0
    BY <1>2, <1>3, <1>4, BehindMeans
  <2>2. ~ (d >= 0)
    BY <1>3, <2>1 DEF Late
  <2> QED
    BY <1>4, <2>2
<1>6. ~ Pending(r)
  BY <1>2, <1>3, <1>5 DEF Due
<1>7. r.sr \in Status
  BY <1>3 DEF Regs, Status
<1>8. PICK s : s = [r.sr EXCEPT !.exl = FALSE]
  OBVIOUS
<1>9. s \in Status /\ s.im = {COMPARE_CONNECTED} /\ ~ s.exl /\ s.ie
  BY <1>3, <1>7, <1>8 DEF Status
<1>10. PICK h : h = [r EXCEPT !.sr = s]
  OBVIOUS
<1>11. h \in Regs /\ h.sr = s /\ Same(r, h)
  BY <1>3, <1>9, <1>10, SetSr
<1>12. /\ Behind(h, d) /\ ~ Pending(h)
  BY <1>2, <1>6, <1>11 DEF Same, Behind, Pending
<1>13. Ticks(h)
  BY <1>8, <1>10 DEF TickReturn, Eret
<1>14. d <= 3 * MaxMasked + 5
  BY <1>5, TickFacts
<1>15. /\ r' \in Regs /\ r'.compare = h.compare /\ r'.sr = h.sr
       /\ r'.cause.iv = h.cause.iv
  BY <1>4, <1>11, <1>12, <1>13, TicksBehind
<1>16. PICK e \in 0 - Period .. 3 * MaxMasked + 8 :
         /\ Behind(r', e) /\ d < e /\ e <= d + 3
         /\ Pending(r') <=> Pending(h) \/ (d < 0 /\ e >= 0)
  BY <1>4, <1>11, <1>12, <1>13, <1>14, Elapsed
<1>17. TickControl'
  BY <1>1, <1>3, <1>9, <1>11, <1>15 DEF TickControl, Same
<1>18. /\ 0 - Period <= e /\ (Pending(r') <=> e >= 0)
       /\ e <= 3 * (MaxMasked - masked') + 2
  <2>1. e <= 2 /\ 2 <= 3 * (MaxMasked - 0) + 2
    BY <1>5, <1>16, TickFacts
  <2>2. e <= 3 * (MaxMasked - 0) + 2
    BY <2>1, TickFacts
  <2> QED
    BY <1>3, <1>5, <1>12, <1>16, <2>2
<1>19. Due(e)'
  BY <1>3, <1>18 DEF Due, Pending
<1> QED
  BY <1>16, <1>17, <1>19 DEF TickInv

-----------------------------------------------------------------------------
LEMMA TickInvariant == TickSpec => []TickInv
<1>1. TickInv /\ [TickNext]_tickVars => TickInv'
  <2> SUFFICES ASSUME TickInv, [TickNext]_tickVars PROVE TickInv'
    OBVIOUS
  <2>1. CASE UNCHANGED tickVars
    BY <2>1 DEF tickVars, TickInv, TickControl, Due, Behind, Pending
  <2> QED
    BY <2>1, InterruptStep, WorkStep, WorkMaskedStep, WriteStep, AgainStep,
       ReturnStep DEF TickNext
<1> QED
  BY <1>1, TickStart, PTL DEF TickSpec

(* While the program runs, the tick is pending or COUNT meets COMPARE      *)
(* within a period, for every period, every range of COUNT that lets the   *)
(* handler tell late from early, and however long interrupts were masked.  *)
THEOREM NextTickCorrect == TickSpec => []NextTick
<1>1. TickInv => NextTick
  <2> SUFFICES ASSUME TickInv, at = "work", ~ Pending(r)
               PROVE  (r.compare - r.count) % CountMod \in 1 .. Period
    BY DEF NextTick, Pending
  <2>1. PICK d \in 0 - Period .. 3 * MaxMasked + 8 : Behind(r, d) /\ Due(d)
    BY DEF TickInv
  <2>2. r \in Regs
    BY DEF TickInv, TickControl
  <2>3. d \in Int /\ 0 - Period <= d /\ d <= 3 * MaxMasked + 8
    BY TickFacts
  <2>4. d < 0
    BY <2>1, <2>3 DEF Due
  <2>5. (r.compare - r.count) % CountMod = 0 - d
    BY <2>1, <2>2, <2>3, <2>4, BehindMeans
  <2> QED
    BY <2>3, <2>4, <2>5, TickFacts
<1> QED
  BY <1>1, TickInvariant, PTL

-----------------------------------------------------------------------------
(***************************************************************************)
(* The rest of coprocessor 0 under the tick: nobody writes the TLB or the  *)
(* registers for it, and RANDOM, with WIRED 0, goes around all entries.    *)
(***************************************************************************)
Formed(g) ==
  /\ {"index", "wired", "random", "entrylo", "entryhi"} \subseteq DOMAIN g
  /\ "asid" \in DOMAIN g.entryhi

Idle(g) ==
  /\ Formed(g)
  /\ g.index = 0 /\ g.wired = 0 /\ g.random \in Entry
  /\ g.entrylo = [odd \in 0 .. 1 |-> ZeroLo] /\ g.entryhi.asid = 0

TlbIdle == tlb = [x \in Entry |-> ZeroEntry] /\ Idle(r)

(* The registers that neither the timer nor an interrupt writes.           *)
Beside(g, h) ==
  /\ Formed(h)
  /\ h.index = g.index /\ h.wired = g.wired /\ h.random = g.random
  /\ h.entrylo = g.entrylo /\ h.entryhi.asid = g.entryhi.asid

LEMMA BesideIdle == ASSUME NEW g, NEW h, Idle(g), Beside(g, h) PROVE Idle(h)
BY DEF Idle, Beside

LEMMA BesideSet ==
  ASSUME NEW g, Idle(g), NEW v
  PROVE  /\ Idle([g EXCEPT !.count = v])
         /\ Idle([g EXCEPT !.compare = v])
         /\ Idle([g EXCEPT !.cause = v])
         /\ Idle([g EXCEPT !.sr = v])
         /\ Idle([g EXCEPT !.epc = v])
         /\ Idle([g EXCEPT !.badvaddr = v])
         /\ Idle([g EXCEPT !.context = v])
         /\ Idle([g EXCEPT !.entryhi.vpn2 = v])
<1>1. Beside(g, [g EXCEPT !.count = v])
  BY DEF Idle, Formed, Beside
<1>2. Beside(g, [g EXCEPT !.compare = v])
  BY DEF Idle, Formed, Beside
<1>3. Beside(g, [g EXCEPT !.cause = v])
  BY DEF Idle, Formed, Beside
<1>4. Beside(g, [g EXCEPT !.sr = v])
  BY DEF Idle, Formed, Beside
<1>5. Beside(g, [g EXCEPT !.epc = v])
  BY DEF Idle, Formed, Beside
<1>6. Beside(g, [g EXCEPT !.badvaddr = v])
  BY DEF Idle, Formed, Beside
<1>7. Beside(g, [g EXCEPT !.context = v])
  BY DEF Idle, Formed, Beside
<1>8. Beside(g, [g EXCEPT !.entryhi.vpn2 = v])
  BY DEF Idle, Formed, Beside
<1> QED
  BY <1>1, <1>2, <1>3, <1>4, <1>5, <1>6, <1>7, <1>8, BesideIdle

LEMMA IdleStep == ASSUME NEW g, Idle(g) PROVE Idle(Step(g))
<1>1. PICK c : c = [g EXCEPT !.count = (g.count + 1) % CountMod]
  OBVIOUS
<1>2. Idle(c)
  BY <1>1, BesideSet
<1>3. PICK s : s = StepCount(g)
  OBVIOUS
<1>4. Idle(s)
  <2>1. s = c \/ s = SetInterrupt(c, COMPARE_CONNECTED)
    BY <1>1, <1>3 DEF StepCount
  <2>2. PICK k : k = [c.cause EXCEPT !.ip = @ \cup {COMPARE_CONNECTED}]
    OBVIOUS
  <2>3. PICK h : h = [c EXCEPT !.cause = k]
    OBVIOUS
  <2>4. SetInterrupt(c, COMPARE_CONNECTED) = h
    BY <2>2, <2>3 DEF SetInterrupt
  <2>5. Idle(h)
    BY <1>2, <2>3, BesideSet
  <2> QED
    BY <1>2, <2>1, <2>4, <2>5
<1>5. PICK n : n = IF s.random <= s.wired THEN TLB_ENTRY - 1
                                          ELSE s.random - 1
  OBVIOUS
<1>6. n \in Entry
  BY <1>4, <1>5, Cp0Assumption DEF Idle, Entry
<1>7. Step(g) = [s EXCEPT !.random = n]
  BY <1>3, <1>5 DEF Step, StepRandom
<1> QED
  BY <1>4, <1>6, <1>7 DEF Idle, Formed

LEMMA IdleTicks == ASSUME NEW g, Idle(g), Ticks(g) PROVE Idle(r')
<1>1. PICK s1 : s1 = Step(g)
  OBVIOUS
<1>2. PICK s2 : s2 = Step(s1)
  OBVIOUS
<1>3. PICK s3 : s3 = Step(s2)
  OBVIOUS
<1>4. Idle(s1) /\ Idle(s2) /\ Idle(s3)
  BY <1>1, <1>2, <1>3, IdleStep
<1>5. PICK n \in TicksPerInst : r' = (CASE n = 1 -> s1
                                        [] n = 2 -> s2
                                        [] n = 3 -> s3)
  BY <1>1, <1>2, <1>3 DEF Ticks
<1>6. n = 1 \/ n = 2 \/ n = 3
  BY <1>5, TickAssumption
<1> QED
  BY <1>4, <1>5, <1>6

LEMMA IdleException ==
  ASSUME NEW g, Idle(g), NEW epc
  PROVE  Idle(DoException(g, "INT", epc, 0, FALSE))
<1>1. PICK c : c = [g.cause EXCEPT !.exc = "INT"]
  OBVIOUS
<1>2. PICK g1 : g1 = [g EXCEPT !.cause = c]
  OBVIOUS
<1>3. PICK page : page = 0 \div 2 ^ VPAGE_SH
  OBVIOUS
<1>4. PICK g2 : g2 = [g1 EXCEPT !.badvaddr = 0]
  OBVIOUS
<1>5. PICK g3 : g3 = [g2 EXCEPT !.context = page]
  OBVIOUS
<1>6. PICK g4 : g4 = [g3 EXCEPT !.entryhi.vpn2 = page]
  OBVIOUS
<1>7. Idle(g1) /\ Idle(g2) /\ Idle(g3) /\ Idle(g4)
  BY <1>2, <1>4, <1>5, <1>6, BesideSet
<1>8. PICK g5 : g5 = [g4 EXCEPT !.epc = epc]
  OBVIOUS
<1>9. PICK c5 : c5 = [g5.cause EXCEPT !.bd = FALSE]
  OBVIOUS
<1>10. PICK g6 : g6 = [g5 EXCEPT !.cause = c5]
  OBVIOUS
<1>11. Idle(g6)
  BY <1>7, <1>8, <1>10, BesideSet
<1>12. PICK g7 : g7 = RestartAt(g4, epc, FALSE)
  OBVIOUS
<1>13. g7 = g4 \/ g7 = g6
  BY <1>8, <1>9, <1>10, <1>12 DEF RestartAt
<1>14. PICK st : st = [g7.sr EXCEPT !.exl = TRUE]
  OBVIOUS
<1>15. FaultAddress(g1, 0) = g4
  BY <1>3, <1>4, <1>5, <1>6 DEF FaultAddress
<1>16. PICK h : h = [g7 EXCEPT !.sr = st]
  OBVIOUS
<1>17. DoException(g, "INT", epc, 0, FALSE) = h
  BY <1>1, <1>2, <1>12, <1>14, <1>15, <1>16 DEF DoException
<1>18. Idle(g7)
  BY <1>7, <1>11, <1>13
<1>19. Idle(h)
  BY <1>16, <1>18, BesideSet
<1> QED
  BY <1>17, <1>19

LEMMA IdleCompare ==
  ASSUME NEW g, Idle(g), NEW v PROVE Idle(WriteCompare(g, v))
<1>1. PICK h : h = [g EXCEPT !.compare = v]
  OBVIOUS
<1>2. PICK c : c = [h.cause EXCEPT !.ip = @ \ {COMPARE_CONNECTED}]
  OBVIOUS
<1>3. PICK k : k = [h EXCEPT !.cause = c]
  OBVIOUS
<1>4. WriteCompare(g, v) = k
  BY <1>1, <1>2, <1>3 DEF WriteCompare, ClearInterrupt
<1>5. Idle(h) /\ Idle(k)
  BY <1>1, <1>3, BesideSet
<1> QED
  BY <1>4, <1>5

LEMMA IdleStatus ==
  ASSUME NEW g, Idle(g)
  PROVE  /\ \A v : Idle([g EXCEPT !.sr.ie = v])
         /\ Idle(Eret(g))
<1>1. \A v : Idle([g EXCEPT !.sr.ie = v])
  <2> TAKE v
  <2>1. PICK s : s = [g.sr EXCEPT !.ie = v]
    OBVIOUS
  <2>2. PICK h : h = [g EXCEPT !.sr = s]
    OBVIOUS
  <2>3. [g EXCEPT !.sr.ie = v] = h
    BY <2>1, <2>2
  <2>4. Idle(h)
    BY <2>2, BesideSet
  <2> QED
    BY <2>3, <2>4
<1>2. PICK s : s = [g.sr EXCEPT !.exl = FALSE]
  OBVIOUS
<1>3. PICK h : h = [g EXCEPT !.sr = s]
  OBVIOUS
<1>4. Eret(g) = h
  BY <1>2, <1>3 DEF Eret
<1>5. Idle(h)
  BY <1>3, BesideSet
<1> QED
  BY <1>1, <1>4, <1>5

LEMMA IdleStart == TickInit => TlbIdle
<1> SUFFICES ASSUME TickInit PROVE TlbIdle
  OBVIOUS
<1>1. PICK now \in 0 .. CountMod - 1 :
        r = [ZeroRegs EXCEPT !.count = now,
                             !.compare = (now + Period) % CountMod,
                             !.cause.iv = TRUE,
                             !.sr.ie = TRUE,
                             !.sr.im = {COMPARE_CONNECTED}]
  BY DEF TickInit
<1>2. PICK later : later = (now + Period) % CountMod
  OBVIOUS
<1>3. PICK z : z = ZeroRegs
  OBVIOUS
<1>4. Idle(z)
  <2>1. 0 \in Entry
    BY Cp0Assumption DEF Entry
  <2>2. PICK los : los = [odd \in 0 .. 1 |-> ZeroLo]
    OBVIOUS
  <2> QED
    BY <1>3, <2>1, <2>2 DEF ZeroRegs, Idle, Formed
<1>5. PICK g1 : g1 = [z EXCEPT !.count = now]
  OBVIOUS
<1>6. PICK g2 : g2 = [g1 EXCEPT !.compare = later]
  OBVIOUS
<1>7. PICK c : c = [g2.cause EXCEPT !.iv = TRUE]
  OBVIOUS
<1>8. PICK g3 : g3 = [g2 EXCEPT !.cause = c]
  OBVIOUS
<1>9. PICK s1 : s1 = [g3.sr EXCEPT !.ie = TRUE]
  OBVIOUS
<1>10. PICK g4 : g4 = [g3 EXCEPT !.sr = s1]
  OBVIOUS
<1>11. PICK s2 : s2 = [g4.sr EXCEPT !.im = {COMPARE_CONNECTED}]
  OBVIOUS
<1>12. PICK g5 : g5 = [g4 EXCEPT !.sr = s2]
  OBVIOUS
<1>13. Idle(g1) /\ Idle(g2) /\ Idle(g3) /\ Idle(g4) /\ Idle(g5)
  BY <1>4, <1>5, <1>6, <1>8, <1>10, <1>12, BesideSet
<1>14. r = g5
  BY <1>1, <1>2, <1>3, <1>5, <1>6, <1>7, <1>8, <1>9, <1>10, <1>11, <1>12,
     Zenon
<1> QED
  BY <1>13, <1>14 DEF TlbIdle, TickInit

LEMMA IdleNext == TlbIdle /\ [TickNext]_tickVars => TlbIdle'
<1> SUFFICES ASSUME TlbIdle, [TickNext]_tickVars PROVE TlbIdle'
  OBVIOUS
<1>1. Idle(r)
  BY DEF TlbIdle
<1>2. tlb' = tlb
  BY DEF TickNext, tickVars, TickInterrupt, Work, WorkMasked, TickWrite,
     TickAgain, TickReturn
<1>3. CASE UNCHANGED tickVars
  BY <1>3 DEF tickVars, TlbIdle, Idle, Formed
<1>4. CASE TickInterrupt
  <2>1. Ticks(DoException(r, "INT", at, 0, FALSE))
    BY <1>4 DEF TickInterrupt
  <2>2. Idle(r')
    BY <1>1, <2>1, IdleException, IdleTicks
  <2> QED
    BY <1>2, <2>2 DEF TlbIdle, Idle, Formed
<1>5. CASE Work
  <2>1. Ticks(r) \/ Ticks([r EXCEPT !.sr.ie = FALSE])
    BY <1>5 DEF Work
  <2>2. Idle(r')
    BY <1>1, <2>1, IdleStatus, IdleTicks
  <2> QED
    BY <1>2, <2>2 DEF TlbIdle, Idle, Formed
<1>6. CASE WorkMasked
  <2>1. Ticks([r EXCEPT !.sr.ie = (masked = 1)])
    BY <1>6 DEF WorkMasked
  <2>2. Idle(r')
    BY <1>1, <2>1, IdleStatus, IdleTicks
  <2> QED
    BY <1>2, <2>2 DEF TlbIdle, Idle, Formed
<1>7. CASE TickWrite \/ TickAgain
  <2>1. PICK v : Ticks(WriteCompare(r, v))
    BY <1>7 DEF TickWrite, TickAgain
  <2>2. Idle(r')
    BY <1>1, <2>1, IdleCompare, IdleTicks
  <2> QED
    BY <1>2, <2>2 DEF TlbIdle, Idle, Formed
<1>8. CASE TickReturn
  <2>1. Ticks(Eret(r))
    BY <1>8 DEF TickReturn
  <2>2. Idle(r')
    BY <1>1, <2>1, IdleStatus, IdleTicks
  <2> QED
    BY <1>2, <2>2 DEF TlbIdle, Idle, Formed
<1> QED
  BY <1>3, <1>4, <1>5, <1>6, <1>7, <1>8 DEF TickNext

LEMMA IdleTypes == TickInv /\ TlbIdle => Cp0TypeOK
<1> SUFFICES ASSUME TickInv, TlbIdle PROVE Cp0TypeOK
  OBVIOUS
<1>1. r \in Regs /\ r.sr.im \subseteq 0 .. 7
  BY DEF TickInv, TickControl, Regs
<1>2. ZeroLo \in Lo
  BY DEF ZeroLo, Lo
<1>3. r.entrylo \in [0 .. 1 -> Lo] /\ r.entryhi.asid \in ASID \cup {0}
  BY <1>2 DEF TlbIdle, Idle
<1>4. ASSUME NEW x \in Entry
      PROVE  /\ tlb[x] = ZeroEntry
             /\ tlb[x].vpn2 = 0 /\ tlb[x].asid = 0 /\ tlb[x].pagemask = 0
             /\ tlb[x].lo \in [0 .. 1 -> Lo]
  <2>1. tlb[x] = ZeroEntry
    BY DEF TlbIdle
  <2>2. ZeroEntry.lo \in [0 .. 1 -> Lo]
    BY <1>2 DEF ZeroEntry
  <2> QED
    BY <2>1, <2>2 DEF ZeroEntry
<1>5. 0 \in PageShifts
  BY Cp0Assumption DEF PageShifts
<1>6. 0 = 2 ^ 0 - 1
  BY PowerAssumption
<1>7. 0 \in Entry /\ r.index \in Entry /\ r.wired \in Entry
  BY Cp0Assumption DEF TlbIdle, Idle, Entry
<1>8. r.random \in Entry
  BY DEF TlbIdle, Idle
<1>9. /\ r.count \in 0 .. CountMod - 1 /\ r.compare \in 0 .. CountMod - 1
      /\ r.cause.ip \subseteq 0 .. 7
  BY <1>1 DEF Regs
<1>10. ASSUME NEW x \in Entry
       PROVE  \E i \in PageShifts : /\ tlb[x].pagemask = 2 ^ i - 1
                                    /\ tlb[x] = ZeroEntry \/
                                         tlb[x].pageshift = PPAGE_SH + i
  <2>1. tlb[x].pagemask = 2 ^ 0 - 1 /\ tlb[x] = ZeroEntry
    BY <1>4, <1>6
  <2> QED
    BY <1>5, <2>1
<1>11. ASSUME NEW x \in Entry
       PROVE  /\ tlb[x].vpn2 \in Nat /\ tlb[x].asid \in ASID \cup {0}
              /\ tlb[x].lo \in [0 .. 1 -> Lo]
  BY <1>4
<1> QED
  BY <1>1, <1>3, <1>7, <1>8, <1>9, <1>10, <1>11 DEF Cp0TypeOK

(* The types of the registers of coprocessor 0 under the tick, COUNT and   *)
(* COMPARE among them, and of a TLB that is not used.                      *)
THEOREM TickTypesCorrect == TickSpec => []Cp0TypeOK
<1>1. TickSpec => []TlbIdle
  BY IdleStart, IdleNext, PTL DEF TickSpec
<1> QED
  BY <1>1, TickInvariant, IdleTypes, PTL

-----------------------------------------------------------------------------
(***************************************************************************)
(* The paging kernel: what its boot and its handlers keep of the registers *)
(* and of the TLB, for the entry it has wired.                             *)
(***************************************************************************)
RegNames == {"index", "random", "wired", "pagemask", "entrylo", "entryhi",
             "badvaddr", "context", "count", "compare", "sr", "cause", "epc"}
LoNames == {"pfn", "dirty", "valid", "global"}

LoShape(lo) ==
  /\ DOMAIN lo = 0 .. 1
  /\ DOMAIN lo[0] = LoNames /\ DOMAIN lo[1] = LoNames

Shape(g) ==
  /\ DOMAIN g = RegNames
  /\ DOMAIN g.entryhi = {"vpn2", "asid"}
  /\ DOMAIN g.sr = {"ie", "exl", "user", "im"}
  /\ LoShape(g.entrylo)
  /\ g.sr.ie \in BOOLEAN /\ g.sr.exl \in BOOLEAN

(* RANDOM is at WIRED or above, whatever it was before WIRED was written.  *)
RandomOK == r.wired \in Entry /\ r.random \in r.wired .. TLB_ENTRY - 1

BootPlace == {"boot", "boot_write", "wire", "wire_write"}
Resume == {"user", "unmap", "unmap_mask"}
Handler == {"refill", "refill_write", "general", "fault_probe", "fault_load",
            "fault_write", "int", "eret"}
Quiet == {"unmap_hi", "unmap_probe", "unmap_read", "unmap_write", "unmap_exit"}

UserAddress == 0 .. KSEG0_MIN - 1
PageOf(vaddr) == vaddr \div PairSize

(* Only the first entry is global.                                         *)
EntriesOK ==
  /\ DOMAIN tlb = Entry
  /\ \A x \in Entry : LoShape(tlb[x].lo)
  /\ \A x \in Entry \ {0} : tlb[x].global = FALSE

(* From the end of the boot the first entry is that of the stack.          *)
StackOK ==
  Booted => tlb[0].vpn2 = PageOf(STACK) /\ tlb[0].pagemask = 3

(* What the registers g say at place p, of instruction o, with EPC saved   *)
(* in e and the entries t.  Until it is done, the boot runs without        *)
(* interrupts.                                                             *)
BootRegs(g, p) ==
  p \in BootPlace =>
    /\ g.wired = 0 /\ g.sr.ie = FALSE
    /\ p \in {"boot", "boot_write"} => g.entrylo[0].global = FALSE
    /\ p \in {"wire", "wire_write"} => g.index = 0
    /\ p = "wire_write" => g.pagemask = 3 /\ g.entryhi.vpn2 = PageOf(STACK)

UserRegs(g, p, o, e) ==
  /\ e \in Resume
  /\ p \notin BootPlace =>
       /\ g.wired = 1
       /\ g.entryhi.asid \in ASID
       /\ o.vaddr \in UserAddress
       /\ g.epc \in Resume

PlaceRegs(g, p) ==
  /\ p \in BootPlace \cup Resume \cup Handler \cup Quiet
  /\ p \in Handler => g.sr.exl = TRUE
  /\ p \in Quiet => g.sr.ie = FALSE

(* What the handlers carry from one instruction to the next.               *)
CarriedRegs(g, p, o, t) ==
  /\ g.context \in Nat
  /\ p \in {"general", "fault_probe"} =>
       g.badvaddr \in Nat /\ g.entryhi.vpn2 = PageOf(g.badvaddr)
  /\ p = "fault_probe" => g.badvaddr \in UserAddress
  /\ p = "unmap_probe" => g.entryhi.vpn2 = PageOf(o.vaddr)
  /\ p \in {"fault_load", "fault_write", "unmap_read", "unmap_write"} =>
       g.index # 0
  /\ p = "unmap_read" => g.index \in Entry /\ t[g.index].asid \in ASID
  /\ p \in {"refill_write", "fault_write", "unmap_write"} =>
       g.entrylo[0].global = FALSE

(* The invariant: with what tells the wired entry from those the handlers  *)
(* look up and write, that is the address each of them works on and where  *)
(* interrupts can come.                                                    *)
WiredInv ==
  /\ Shape(r) /\ RandomOK /\ EntriesOK /\ StackOK
  /\ BootRegs(r, pc) /\ UserRegs(r, pc, op, saved)
  /\ PlaceRegs(r, pc) /\ CarriedRegs(r, pc, op, tlb)
-----------------------------------------------------------------------------
(* The sizes of pages.                                                     *)
LEMMA KernelFacts ==
  /\ PairSize \in Nat \ {0} /\ TLB_ENTRY \in Nat /\ TLB_ENTRY > 1
  /\ 0 \in Entry /\ 1 \in Entry
  /\ KSEG0_MIN \in Nat /\ KSEG2_MIN \in Nat /\ KSEG0_MIN <= KSEG2_MIN
  /\ STACK = KSEG2_MIN /\ STACK \in Nat /\ PTBASE \in Nat
<1>1. PairSize \in Nat \ {0}
  <2>1. VPAGE_SH \in 0 .. PAGESHIFT_MAX + 1
    BY Cp0Assumption DEF VPAGE_SH
  <2> QED
    BY <2>1, PowerAssumption DEF PairSize
<1>2. PageSize \in Nat
  <2>1. PPAGE_SH \in 0 .. PAGESHIFT_MAX + 1
    BY Cp0Assumption
  <2> QED
    BY <2>1, PowerAssumption DEF PageSize
<1>3. TLB_ENTRY \in Nat /\ TLB_ENTRY > 1
  BY Cp0Assumption, KernelAssumption
<1>4. KSEG0_MIN \in Nat /\ KSEG2_MIN \in Nat /\ KSEG0_MIN <= KSEG2_MIN
  BY Cp0Assumption
<1>5. 8 * PageSize \in Nat
  BY <1>2
<1> QED
  BY <1>1, <1>3, <1>4, <1>5 DEF Entry, STACK, PTBASE, StackPair

LEMMA PageOfNat == ASSUME NEW v \in Nat PROVE PageOf(v) \in Nat
<1>1. \A q \in Nat \ {0} : v \div q \in Nat
  OBVIOUS
<1> QED
  BY <1>1, KernelFacts DEF PageOf

(* The pages of the programs are not in the block of pages of the stack.   *)
LEMMA StackApart ==
  ASSUME NEW v \in UserAddress
  PROVE  PageOf(STACK) \div 4 # PageOf(v) \div 4
<1>1. PICK q \in Nat \ {0} : q = PairSize
  BY KernelFacts
<1>2. PICK m \in Nat : STACK = m * (4 * q)
  <2>1. KSEG2_MIN % (4 * q) = 0
    BY <1>1, KernelAssumption DEF PairSize
  <2>2. 4 * q \in Nat \ {0}
    OBVIOUS
  <2>3. \A w \in Nat, b \in Nat \ {0} :
          w = b * (w \div b) + (w % b) /\ w \div b \in Nat
    OBVIOUS
  <2>4. PICK k \in Nat : KSEG2_MIN = (4 * q) * k
    BY <2>1, <2>2, <2>3, KernelFacts
  <2> QED
    BY <2>2, <2>4, KernelFacts
<1>3. STACK = (4 * m) * q
  BY <1>2
<1>4. STACK \div q = 4 * m
  <2>1. \A k \in Nat, b \in Nat \ {0} : (k * b) \div b = k
    OBVIOUS
  <2>2. 4 * m \in Nat
    OBVIOUS
  <2> QED
    BY <1>3, <2>1, <2>2
<1>5. v \div q < 4 * m /\ v \div q \in Nat
  <2>1. \A w \in Nat, k \in Nat, b \in Nat \ {0} : w < k * b => w \div b < k
    OBVIOUS
  <2>2. \A w \in Nat, b \in Nat \ {0} : w \div b \in Nat
    OBVIOUS
  <2>3. v \in Nat /\ v < (4 * m) * q
    BY <1>3, KernelFacts DEF UserAddress
  <2>4. 4 * m \in Nat
    OBVIOUS
  <2> QED
    BY <2>1, <2>2, <2>3, <2>4
<1>6. (v \div q) \div 4 < m
  BY <1>5
<1>7. (4 * m) \div 4 = m
  OBVIOUS
<1> QED
  BY <1>1, <1>4, <1>5, <1>6, <1>7 DEF PageOf

(* gettlbentry does not return the wired entry for a page of a program,    *)
(* and what it returns is of the current address space.                    *)
LEMMA Looked ==
  ASSUME EntriesOK, StackOK, Booted, r.entryhi.asid \in ASID,
         NEW v \in UserAddress,
         NEW x, x = GetTlbEntry(tlb, r, PageOf(v)), x # NoMatch
  PROVE  x \in Entry /\ x # 0 /\ tlb[x].asid \in ASID
<1>1. PICK found : found = {y \in Entry : Matches(tlb, r, y, PageOf(v))}
  OBVIOUS
<1>2. found # {} /\ x = CHOOSE y \in found : \A z \in found : y <= z
  BY <1>1 DEF GetTlbEntry
<1>3. \E y \in found : \A z \in found : y <= z
  <2>1. found \subseteq Nat
    BY <1>1, KernelFacts DEF Entry
  <2>2. PICK y \in found : \A z \in found : ~ <<z, y>> \in OpToRel(<, Nat)
    BY <1>2, <2>1, NatLessThanWellFounded, WFMin
  <2>3. \A z \in found : ~ <<z, y>> \in {ss \in Nat \X Nat : ss[1] < ss[2]}
    BY <2>2, Zenon DEF OpToRel
  <2>4. \A z \in found : ~ (z < y)
    BY <2>1, <2>3
  <2>5. \A z \in found : y <= z
    BY <2>1, <2>4
  <2> QED
    BY <2>5
<1>4. x \in found
  BY <1>2, <1>3
<1>5. Matches(tlb, r, x, PageOf(v)) /\ x \in Entry
  BY <1>1, <1>4
<1>6. x # 0
  <2> SUFFICES ASSUME x = 0 PROVE FALSE
    OBVIOUS
  <2>1. PageOf(STACK) \div (3 + 1) = PageOf(v) \div (3 + 1)
    BY <1>5 DEF Matches, StackOK
  <2>2. 3 + 1 = 4
    OBVIOUS
  <2> QED
    BY <2>1, <2>2, StackApart
<1>7. tlb[x].asid \in ASID
  BY <1>5, <1>6 DEF Matches, EntriesOK
<1> QED
  BY <1>5, <1>6, <1>7

-----------------------------------------------------------------------------
(* Everything but RANDOM, CAUSE and the timer.                             *)
Kept(g, h) ==
  /\ h.index = g.index /\ h.wired = g.wired /\ h.pagemask = g.pagemask
  /\ h.entrylo = g.entrylo /\ h.entryhi = g.entryhi
  /\ h.badvaddr = g.badvaddr /\ h.context = g.context
  /\ h.sr = g.sr /\ h.epc = g.epc

LEMMA TurnKeeps ==
  ASSUME NEW g, Shape(g), g.wired \in Entry, g.random \in Entry
  PROVE  LET h == StepRandom(g)
         IN Shape(h) /\ Kept(g, h) /\ h.random \in g.wired .. TLB_ENTRY - 1
<1>1. PICK n : n = IF g.random <= g.wired THEN TLB_ENTRY - 1 ELSE g.random - 1
  OBVIOUS
<1>2. PICK h : h = [g EXCEPT !.random = n]
  OBVIOUS
<1>3. StepRandom(g) = h
  BY <1>1, <1>2 DEF StepRandom
<1>4. DOMAIN h = RegNames /\ h.random = n /\ Kept(g, h)
  BY <1>2 DEF Shape, RegNames, Kept
<1>5. Shape(h)
  BY <1>4 DEF Shape, Kept
<1> QED
  BY <1>1, <1>3, <1>4, <1>5, KernelFacts DEF Entry

(* The steps of coprocessor 0 after an instruction lift RANDOM above WIRED *)
(* and change nothing else that the kernel works with.                     *)
LEMMA StepsKeep ==
  ASSUME NEW g, Shape(g), g.wired \in Entry, g.random \in Entry, Steps(g)
  PROVE  Shape(r') /\ Kept(g, r') /\ RandomOK'
<1>1. PICK t \in {StepRandom(g), StepRandom(StepRandom(g))} :
        r' = t \/ r' = SetInterrupt(t, COMPARE_CONNECTED)
  BY DEF Steps
<1>2. /\ Shape(t) /\ Kept(g, t) /\ t.random \in g.wired .. TLB_ENTRY - 1
  <2>1. PICK s : s = StepRandom(g)
    OBVIOUS
  <2>2. Shape(s) /\ Kept(g, s) /\ s.random \in g.wired .. TLB_ENTRY - 1
    BY <2>1, TurnKeeps
  <2>3. s.wired \in Entry /\ s.random \in Entry
    BY <2>2, KernelFacts DEF Kept, Entry
  <2>4. PICK u : u = StepRandom(s)
    OBVIOUS
  <2>5. Shape(u) /\ Kept(s, u) /\ u.random \in s.wired .. TLB_ENTRY - 1
    BY <2>2, <2>3, <2>4, TurnKeeps
  <2>6. t = s \/ t = u
    BY <2>1, <2>4
  <2> QED
    BY <2>2, <2>5, <2>6 DEF Kept
<1>3. PICK h : h = SetInterrupt(t, COMPARE_CONNECTED)
  OBVIOUS
<1>4. h.random = t.random /\ Kept(t, h) /\ DOMAIN h = RegNames
  BY <1>2, <1>3 DEF SetInterrupt, Shape, RegNames, Kept
<1>5. Shape(h) /\ Kept(g, h) /\ h.random \in g.wired .. TLB_ENTRY - 1
  BY <1>2, <1>4 DEF Shape, Kept
<1>6. Shape(r') /\ Kept(g, r') /\ r'.random \in g.wired .. TLB_ENTRY - 1
  BY <1>1, <1>2, <1>3, <1>5
<1> QED
  BY <1>6 DEF RandomOK, Kept

(* What an exception leaves in h of g.                                     *)
Raised(g, exc, place, v) == DoException(g, exc, place, v, FALSE)

Excepted(g, h, place, v) ==
  /\ Shape(h)
  /\ h.index = g.index /\ h.wired = g.wired /\ h.random = g.random
  /\ h.entrylo = g.entrylo
  /\ h.entryhi.asid = g.entryhi.asid /\ h.entryhi.vpn2 = PageOf(v)
  /\ h.badvaddr = v /\ h.context = PageOf(v)
  /\ h.sr.exl = TRUE /\ h.sr.ie = g.sr.ie
  /\ h.epc = IF g.sr.exl THEN g.epc ELSE place

LEMMA ExceptionKeeps ==
  ASSUME NEW g, Shape(g), NEW exc, NEW place, NEW v,
         NEW h, h = Raised(g, exc, place, v)
  PROVE  Excepted(g, h, place, v)
<1>1. PICK p : p = v \div 2 ^ VPAGE_SH
  OBVIOUS
<1>2. p = PageOf(v)
  BY <1>1 DEF PageOf, PairSize
<1>3. PICK g1 : g1 = [g EXCEPT !.cause.exc = exc]
  OBVIOUS
<1>4. Shape(g1) /\ Kept(g, g1) /\ g1.random = g.random
  BY <1>3 DEF Shape, RegNames, Kept
<1>5. PICK g2 : g2 = [g1 EXCEPT !.badvaddr = v]
  OBVIOUS
<1>6. /\ Shape(g2) /\ g2.badvaddr = v /\ g2.random = g.random
      /\ g2.index = g.index /\ g2.wired = g.wired /\ g2.entrylo = g.entrylo
      /\ g2.entryhi = g.entryhi /\ g2.sr = g.sr /\ g2.epc = g.epc
  BY <1>4, <1>5 DEF Shape, RegNames, Kept
<1>7. PICK g3 : g3 = [g2 EXCEPT !.context = p]
  OBVIOUS
<1>8. /\ Shape(g3) /\ g3.badvaddr = v /\ g3.context = p /\ g3.random = g.random
      /\ g3.index = g.index /\ g3.wired = g.wired /\ g3.entrylo = g.entrylo
      /\ g3.entryhi = g.entryhi /\ g3.sr = g.sr /\ g3.epc = g.epc
  BY <1>6, <1>7 DEF Shape, RegNames
<1>9. PICK g4 : g4 = [g3 EXCEPT !.entryhi.vpn2 = p]
  OBVIOUS
<1>10. /\ Shape(g4) /\ g4.badvaddr = v /\ g4.context = p
       /\ g4.random = g.random
       /\ g4.index = g.index /\ g4.wired = g.wired /\ g4.entrylo = g.entrylo
       /\ g4.entryhi.vpn2 = p /\ g4.entryhi.asid = g.entryhi.asid
       /\ g4.sr = g.sr /\ g4.epc = g.epc
  BY <1>8, <1>9 DEF Shape, RegNames
<1>11. FaultAddress(g1, v) = g4
  BY <1>1, <1>5, <1>7, <1>9 DEF FaultAddress
<1>12. PICK g5 : g5 = RestartAt(g4, place, FALSE)
  OBVIOUS
<1>13. /\ Shape(g5) /\ g5.badvaddr = v /\ g5.context = p
       /\ g5.random = g.random
       /\ g5.index = g.index /\ g5.wired = g.wired /\ g5.entrylo = g.entrylo
       /\ g5.entryhi = g4.entryhi /\ g5.sr = g.sr
       /\ g5.epc = IF g.sr.exl THEN g.epc ELSE place
  <2>1. CASE g4.sr.exl
    BY <1>10, <1>12, <2>1 DEF RestartAt
  <2>2. CASE ~ g4.sr.exl
    <3>1. PICK ga : ga = [g4 EXCEPT !.epc = place]
      OBVIOUS
    <3>2. /\ Shape(ga) /\ ga.badvaddr = v /\ ga.context = p
          /\ ga.random = g.random
          /\ ga.index = g.index /\ ga.wired = g.wired /\ ga.entrylo = g.entrylo
          /\ ga.entryhi = g4.entryhi /\ ga.sr = g.sr /\ ga.epc = place
      BY <1>10, <3>1 DEF Shape, RegNames
    <3>3. PICK gb : gb = [ga EXCEPT !.cause.bd = FALSE]
      OBVIOUS
    <3>4. /\ Shape(gb) /\ gb.badvaddr = v /\ gb.context = p
          /\ gb.random = g.random
          /\ gb.index = g.index /\ gb.wired = g.wired /\ gb.entrylo = g.entrylo
          /\ gb.entryhi = g4.entryhi /\ gb.sr = g.sr /\ gb.epc = place
      BY <3>2, <3>3 DEF Shape, RegNames
    <3>5. g5 = gb
      BY <1>12, <2>2, <3>1, <3>3 DEF RestartAt
    <3> QED
      BY <1>10, <2>2, <3>4, <3>5
  <2> QED
    BY <2>1, <2>2
<1>14. h = [g5 EXCEPT !.sr.exl = TRUE]
  BY <1>3, <1>11, <1>12 DEF Raised, DoException
<1>15. /\ Shape(h) /\ h.badvaddr = v /\ h.context = p
       /\ h.random = g.random
       /\ h.index = g.index /\ h.wired = g.wired /\ h.entrylo = g.entrylo
       /\ h.entryhi = g4.entryhi /\ h.sr.exl = TRUE /\ h.sr.ie = g.sr.ie
       /\ h.epc = g5.epc
  BY <1>13, <1>14 DEF Shape, RegNames
<1> QED
  BY <1>2, <1>10, <1>13, <1>15 DEF Excepted

-----------------------------------------------------------------------------
(* The wired entries are as they were.                                     *)
WiredStay == \A x \in Entry : x < r.wired => tlb'[x] = tlb[x]

(* The steps of coprocessor 0 keep what an instruction has left.           *)
LEMMA Close ==
  ASSUME NEW g, Shape(g), g.wired \in Entry, g.random \in Entry, Steps(g),
         EntriesOK', StackOK',
         BootRegs(g, pc'), UserRegs(g, pc', op', saved'), PlaceRegs(g, pc'),
         CarriedRegs(g, pc', op', tlb')
  PROVE  WiredInv'
<1>1. Shape(r') /\ Kept(g, r') /\ RandomOK'
  BY StepsKeep
<1>2. BootRegs(r', pc') /\ UserRegs(r', pc', op', saved') /\ PlaceRegs(r', pc')
  BY <1>1 DEF Kept, BootRegs, UserRegs, PlaceRegs
<1>3. CarriedRegs(r', pc', op', tlb')
  BY <1>1 DEF Kept, CarriedRegs
<1> QED
  BY <1>1, <1>2, <1>3 DEF WiredInv, BootRegs, UserRegs, PlaceRegs, CarriedRegs,
     Shape

LEMMA RandomIsEntry ==
  ASSUME WiredInv
  PROVE  r.wired \in Entry /\ r.random \in Entry /\ r.random >= r.wired
BY KernelFacts DEF WiredInv, RandomOK, Entry

(* Nothing is written into the TLB, after the boot.                        *)
LEMMA Untouched ==
  ASSUME WiredInv, UNCHANGED tlb, Booted \/ ~ Booted'
  PROVE  EntriesOK' /\ StackOK' /\ WiredStay
BY DEF WiredInv, EntriesOK, StackOK, WiredStay, LoShape

LEMMA KernelStart == KernelInit => WiredInv
<1> SUFFICES ASSUME KernelInit PROVE WiredInv
  OBVIOUS
<1>1. /\ r = ZeroRegs /\ tlb = [x \in Entry |-> ZeroEntry] /\ pc = "boot"
      /\ saved = "user"
  BY DEF KernelInit, Cp0Init
<1>2. LoShape(ZeroEntry.lo) /\ ZeroEntry.global = FALSE /\ LoShape(r.entrylo)
      /\ r.entrylo[0].global = FALSE
  BY <1>1 DEF LoShape, LoNames, ZeroEntry, ZeroRegs, ZeroLo
<1>3. /\ DOMAIN r = RegNames /\ DOMAIN r.entryhi = {"vpn2", "asid"}
      /\ DOMAIN r.sr = {"ie", "exl", "user", "im"}
      /\ r.sr.ie = FALSE /\ r.sr.exl = FALSE
      /\ r.wired = 0 /\ r.random = 0 /\ r.context = 0
  BY <1>1 DEF RegNames, ZeroRegs
<1>4. Shape(r) /\ RandomOK
  BY <1>2, <1>3, KernelFacts DEF Shape, RandomOK, Entry
<1>5. EntriesOK /\ StackOK
  BY <1>1, <1>2 DEF EntriesOK, StackOK, Booted
<1>6. BootRegs(r, pc) /\ UserRegs(r, pc, op, saved) /\ PlaceRegs(r, pc)
  BY <1>1, <1>2, <1>3 DEF BootRegs, UserRegs, PlaceRegs, BootPlace, Handler,
     Quiet, Resume
<1>7. CarriedRegs(r, pc, op, tlb)
  BY <1>1, <1>3 DEF CarriedRegs
<1> QED
  BY <1>4, <1>5, <1>6, <1>7 DEF WiredInv

-----------------------------------------------------------------------------
(* An exception after the boot, with the address v.                        *)
LEMMA RaiseStep ==
  ASSUME WiredInv, UNCHANGED <<tlb, op, saved>>, NEW exc, NEW refill,
         NEW v \in Nat, Raise(exc, refill, v),
         pc \in Resume \/ pc = "refill"
  PROVE  WiredInv' /\ WiredStay
<1>1. /\ Shape(r) /\ r.wired \in Entry /\ r.random \in Entry
      /\ UserRegs(r, pc, op, saved) /\ PlaceRegs(r, pc)
  BY RandomIsEntry DEF WiredInv
<1>2. /\ pc \notin BootPlace /\ (pc \notin Resume => r.sr.exl = TRUE)
      /\ Booted
  BY <1>1 DEF Resume, BootPlace, PlaceRegs, Handler, Booted
<1>3. pc' \in {"refill", "int", "general"}
  BY DEF Raise, Vector
<1>4. Booted' /\ pc' \notin BootPlace
  BY <1>3 DEF Booted, BootPlace
<1>5. PICK g : g = Raised(r, exc, pc, v)
  OBVIOUS
<1>6. /\ Shape(g) /\ g.wired = r.wired /\ g.random = r.random
      /\ g.entryhi.asid = r.entryhi.asid /\ g.entryhi.vpn2 = PageOf(v)
      /\ g.badvaddr = v /\ g.context = PageOf(v)
      /\ g.sr.exl = TRUE
      /\ g.epc = IF r.sr.exl THEN r.epc ELSE pc
  <2>1. Excepted(r, g, pc, v)
    BY <1>1, <1>5, ExceptionKeeps
  <2> QED
    BY <2>1 DEF Excepted
<1>7. Steps(g)
  BY <1>5 DEF Raise, Raised
<1>8. g.epc \in Resume
  BY <1>1, <1>2, <1>6 DEF UserRegs
<1>9. BootRegs(g, pc') /\ UserRegs(g, pc', op', saved')
  BY <1>1, <1>2, <1>4, <1>6, <1>8 DEF BootRegs, UserRegs
<1>10. PlaceRegs(g, pc')
  BY <1>3, <1>6 DEF PlaceRegs, Handler, Quiet
<1>11. CarriedRegs(g, pc', op', tlb')
  BY <1>3, <1>6, PageOfNat DEF CarriedRegs
<1>12. EntriesOK' /\ StackOK' /\ WiredStay
  BY <1>2, Untouched
<1>13. WiredInv'
  BY <1>1, <1>6, <1>7, <1>9, <1>10, <1>11, <1>12, Close
<1> QED
  BY <1>12, <1>13

(* Where interrupts are enabled.                                           *)
LEMMA EnabledPlaces ==
  ASSUME WiredInv, CheckInterrupt(r)
  PROVE  pc \in Resume
BY DEF WiredInv, CheckInterrupt, BootRegs, PlaceRegs, Shape

LEMMA InterruptedStep == WiredInv /\ Interrupted => WiredInv' /\ WiredStay
BY EnabledPlaces, RaiseStep, KernelFacts DEF Interrupted

LEMMA UserAddressNat ==
  ASSUME WiredInv, pc \notin BootPlace
  PROVE  op.vaddr \in Nat /\ op.vaddr \in UserAddress /\ r.entryhi.asid \in ASID
BY DEF WiredInv, UserRegs, UserAddress

LEMMA UserFaultStep == WiredInv /\ UserFault => WiredInv' /\ WiredStay
<1> SUFFICES ASSUME WiredInv, UserFault PROVE WiredInv' /\ WiredStay
  OBVIOUS
<1>1. pc = "user" /\ pc \notin BootPlace /\ pc \in Resume
  BY DEF UserFault, At, BootPlace, Resume
<1>2. op.vaddr \in Nat
  BY <1>1, UserAddressNat
<1>3. /\ UNCHANGED <<tlb, op, saved>>
      /\ Raise(UserAccess.exc, UserAccess.refill, op.vaddr)
  BY DEF UserFault
<1> QED
  BY <1>1, <1>2, <1>3, RaiseStep

LEMMA UserCallStep == WiredInv /\ UserCall => WiredInv' /\ WiredStay
<1> SUFFICES ASSUME WiredInv, UserCall PROVE WiredInv' /\ WiredStay
  OBVIOUS
<1>1. pc \in Resume /\ UNCHANGED <<tlb, op, saved>>
      /\ Raise("SYSCALL", FALSE, STACK)
  BY DEF UserCall, At, Resume
<1> QED
  BY <1>1, RaiseStep, KernelFacts

-----------------------------------------------------------------------------
(* The instructions after the boot that leave the TLB alone.  Their places *)
(* are p and q, what they make of the registers is g.                      *)
LEMMA PlainStep ==
  ASSUME WiredInv, UNCHANGED tlb, pc \notin BootPlace,
         NEW q, pc' = q, q \in Resume \cup Handler \cup Quiet,
         NEW g, Shape(g), g.wired = r.wired, g.random = r.random, Steps(g),
         g.entryhi.asid \in ASID, g.epc \in Resume,
         op'.vaddr \in UserAddress, saved' \in Resume,
         q \in Handler => g.sr.exl = TRUE,
         q \in Quiet => g.sr.ie = FALSE,
         CarriedRegs(g, q, op', tlb)
  PROVE  WiredInv' /\ WiredStay
<1>1. r.wired \in Entry /\ r.random \in Entry /\ r.wired = 1
  BY RandomIsEntry DEF WiredInv, UserRegs
<1>2. q \notin BootPlace /\ Booted /\ Booted'
  BY DEF BootPlace, Booted, Resume, Handler, Quiet
<1>3. EntriesOK' /\ StackOK' /\ WiredStay
  BY <1>2, Untouched
<1>4. BootRegs(g, pc') /\ UserRegs(g, pc', op', saved') /\ PlaceRegs(g, pc')
  BY <1>1, <1>2 DEF BootRegs, UserRegs, PlaceRegs
<1>5. CarriedRegs(g, pc', op', tlb')
  OBVIOUS
<1>6. WiredInv'
  BY <1>1, <1>3, <1>4, <1>5, Close
<1> QED
  BY <1>3, <1>6

(* What is known after the boot.                                           *)
LEMMA AfterBoot ==
  ASSUME WiredInv, pc \notin BootPlace
  PROVE  /\ Shape(r) /\ r.wired = 1 /\ r.entryhi.asid \in ASID
         /\ op.vaddr \in UserAddress /\ r.epc \in Resume /\ saved \in Resume
         /\ pc \in Handler => r.sr.exl = TRUE
         /\ pc \in Quiet => r.sr.ie = FALSE
         /\ CarriedRegs(r, pc, op, tlb) /\ r.context \in Nat
         /\ EntriesOK /\ StackOK /\ Booted
BY DEF WiredInv, UserRegs, PlaceRegs, CarriedRegs, BootPlace, Booted

(* The instructions of the programs.                                       *)
LEMMA OpAddress ==
  ASSUME NEW asid \in ASID, NEW o \in Ops[asid]
  PROVE  o.vaddr \in UserAddress
BY KernelAssumption DEF UserAddress

LEMMA UserHitStep == WiredInv /\ UserHit => WiredInv' /\ WiredStay
<1> SUFFICES ASSUME WiredInv, UserHit PROVE WiredInv' /\ WiredStay
  OBVIOUS
<1>1. /\ pc = "user" /\ pc' = "user" /\ Steps(r) /\ UNCHANGED <<tlb, saved>>
      /\ op' \in Ops[r.entryhi.asid]
  BY DEF UserHit, At
<1>2. /\ pc \notin BootPlace /\ "user" \in Resume
      /\ "user" \notin Handler /\ "user" \notin Quiet
  BY <1>1 DEF BootPlace, Resume, Handler, Quiet
<1>3. op'.vaddr \in UserAddress
  BY <1>1, <1>2, AfterBoot, OpAddress
<1>4. CarriedRegs(r, "user", op', tlb)
  BY <1>2, AfterBoot DEF CarriedRegs
<1> QED
  BY <1>1, <1>2, <1>3, <1>4, AfterBoot, PlainStep

-----------------------------------------------------------------------------
(* The entries of a page table are not global.                             *)
LEMMA PtePairFacts ==
  ASSUME NEW asid, NEW pair, NEW lo, lo = PtePair(asid, pair)
  PROVE  LoShape(lo) /\ lo[0].global = FALSE
<1>1. /\ DOMAIN lo = 0 .. 1
      /\ lo[0] = Pte(asid, 2 * pair + 0) /\ lo[1] = Pte(asid, 2 * pair + 1)
  BY DEF PtePair
<1> QED
  BY <1>1 DEF Pte, LoShape, LoNames

(* Registers that differ only in what a handler loads.                     *)
LEMMA LoadedLo ==
  ASSUME NEW g, Shape(g), NEW lo, LoShape(lo),
         NEW h, h = [g EXCEPT !.entrylo = lo]
  PROVE  /\ Shape(h) /\ h.entrylo = lo
         /\ h.index = g.index /\ h.wired = g.wired /\ h.random = g.random
         /\ h.pagemask = g.pagemask /\ h.entryhi = g.entryhi
         /\ h.badvaddr = g.badvaddr /\ h.context = g.context
         /\ h.sr = g.sr /\ h.epc = g.epc
BY DEF Shape, RegNames

LEMMA RefillLoadStep == WiredInv /\ RefillLoad => WiredInv' /\ WiredStay
<1> SUFFICES ASSUME WiredInv, RefillLoad PROVE WiredInv' /\ WiredStay
  OBVIOUS
<1>1. PICK table : table = Access(TableAddress(r.context), FALSE)
  OBVIOUS
<1>2. PICK asid : asid = table.paddr \div PageSize - TableFrame(0)
  OBVIOUS
<1>3. pc = "refill" /\ UNCHANGED <<tlb, op, saved>>
  BY DEF RefillLoad, At
<1>4. pc \notin BootPlace /\ "refill" \in Handler
  BY <1>3 DEF BootPlace, Handler
<1>5. CASE table.exc = "NONE"
  <2>1. PICK lo : lo = PtePair(asid, r.context)
    OBVIOUS
  <2>2. PICK g : g = [r EXCEPT !.entrylo = lo]
    OBVIOUS
  <2>3. pc' = "refill_write" /\ Steps(g)
    BY <1>1, <1>2, <1>5, <2>1, <2>2 DEF RefillLoad
  <2>4. LoShape(lo) /\ lo[0].global = FALSE
    BY <2>1, PtePairFacts
  <2>5. /\ Shape(g) /\ g.entrylo = lo /\ g.wired = r.wired
        /\ g.random = r.random /\ g.entryhi = r.entryhi
        /\ g.context = r.context /\ g.sr = r.sr /\ g.epc = r.epc
    BY <1>4, <2>2, <2>4, AfterBoot, LoadedLo
  <2>6. CarriedRegs(g, "refill_write", op', tlb)
    BY <1>4, <2>4, <2>5, AfterBoot DEF CarriedRegs
  <2>7. g.sr.exl = TRUE /\ "refill_write" \in Handler
        /\ "refill_write" \notin Quiet
    BY <1>3, <1>4, <2>5, AfterBoot DEF Handler, Quiet
  <2> QED
    BY <1>3, <1>4, <2>3, <2>5, <2>6, <2>7, AfterBoot, PlainStep
<1>6. CASE table.exc # "NONE"
  <2>1. Raise(table.exc, table.refill, TableAddress(r.context))
    BY <1>1, <1>6 DEF RefillLoad
  <2>2. TableAddress(r.context) \in Nat
    BY <1>4, AfterBoot, KernelFacts DEF TableAddress
  <2> QED
    BY <1>3, <2>1, <2>2, RaiseStep
<1> QED
  BY <1>5, <1>6

LEMMA TableMissStep == WiredInv /\ TableMiss => WiredInv' /\ WiredStay
<1> SUFFICES ASSUME WiredInv, TableMiss PROVE WiredInv' /\ WiredStay
  OBVIOUS
<1>1. PICK lo : lo = [odd \in 0 .. 1 |->
                        [pfn |-> TableFrame(r.entryhi.asid), valid |-> odd = 0,
                         dirty |-> FALSE, global |-> FALSE]]
  OBVIOUS
<1>2. PICK g : g = [r EXCEPT !.entrylo = lo]
  OBVIOUS
<1>3. /\ pc = "general" /\ pc' = "refill_write" /\ Steps(g)
      /\ UNCHANGED <<tlb, op, saved>>
  BY <1>1, <1>2 DEF TableMiss, Goto, At
<1>4. LoShape(lo) /\ lo[0].global = FALSE
  BY <1>1 DEF LoShape, LoNames
<1>5. /\ pc \notin BootPlace /\ pc \in Handler
      /\ "refill_write" \in Handler /\ "refill_write" \notin Quiet
  BY <1>3 DEF BootPlace, Handler, Quiet
<1>6. /\ Shape(g) /\ g.entrylo = lo /\ g.wired = r.wired
      /\ g.random = r.random /\ g.entryhi = r.entryhi
      /\ g.context = r.context /\ g.sr = r.sr /\ g.epc = r.epc
  BY <1>2, <1>4, <1>5, AfterBoot, LoadedLo
<1>7. CarriedRegs(g, "refill_write", op', tlb)
  BY <1>4, <1>5, <1>6, AfterBoot DEF CarriedRegs
<1> QED
  BY <1>3, <1>5, <1>6, <1>7, AfterBoot, PlainStep

LEMMA PageFaultStep == WiredInv /\ PageFault => WiredInv' /\ WiredStay
<1> SUFFICES ASSUME WiredInv, PageFault PROVE WiredInv' /\ WiredStay
  OBVIOUS
<1>1. /\ pc = "general" /\ pc' = "fault_probe" /\ Steps(r)
      /\ r.badvaddr < KSEG0_MIN /\ UNCHANGED <<tlb, op, saved>>
  BY DEF PageFault, Goto, At
<1>2. /\ pc \notin BootPlace /\ pc \in Handler
      /\ "fault_probe" \in Handler /\ "fault_probe" \notin Quiet
  BY <1>1 DEF BootPlace, Handler, Quiet
<1>3. r.wired \in Entry /\ r.random \in Entry
  BY RandomIsEntry
<1>4. CarriedRegs(r, "fault_probe", op', tlb)
  <2>1. /\ r.context \in Nat /\ r.badvaddr \in Nat
        /\ r.entryhi.vpn2 = PageOf(r.badvaddr)
    BY <1>1, <1>2, AfterBoot DEF CarriedRegs
  <2>2. r.badvaddr \in UserAddress
    BY <1>1, <2>1, KernelFacts DEF UserAddress
  <2> QED
    BY <2>1, <2>2 DEF CarriedRegs
<1> QED
  BY <1>1, <1>2, <1>3, <1>4, AfterBoot, PlainStep

(* Registers of which INDEX is replaced.                                   *)
LEMMA Indexed ==
  ASSUME NEW g, Shape(g), NEW x, NEW h, h = [g EXCEPT !.index = x]
  PROVE  /\ Shape(h) /\ h.index = x
         /\ h.wired = g.wired /\ h.random = g.random
         /\ h.pagemask = g.pagemask /\ h.entrylo = g.entrylo
         /\ h.entryhi = g.entryhi
         /\ h.badvaddr = g.badvaddr /\ h.context = g.context
         /\ h.sr = g.sr /\ h.epc = g.epc
BY DEF Shape, RegNames

LEMMA FaultProbeStep == WiredInv /\ FaultProbe => WiredInv' /\ WiredStay
<1> SUFFICES ASSUME WiredInv, FaultProbe PROVE WiredInv' /\ WiredStay
  OBVIOUS
<1>1. PICK x : x = GetTlbEntry(tlb, r, r.entryhi.vpn2)
  OBVIOUS
<1>2. PICK g : g = [r EXCEPT !.index = x]
  OBVIOUS
<1>3. /\ pc = "fault_probe" /\ pc' = "fault_load" /\ Steps(g)
      /\ UNCHANGED <<tlb, op, saved>>
  BY <1>1, <1>2 DEF FaultProbe, Goto, At, TlbLookup
<1>4. /\ pc \notin BootPlace /\ pc \in Handler
      /\ "fault_load" \in Handler /\ "fault_load" \notin Quiet
  BY <1>3 DEF BootPlace, Handler, Quiet
<1>5. x # 0
  <2>1. PICK v \in UserAddress : v = r.badvaddr /\ r.entryhi.vpn2 = PageOf(v)
    BY <1>3, <1>4, AfterBoot DEF CarriedRegs
  <2>2. x = GetTlbEntry(tlb, r, PageOf(v))
    BY <1>1, <2>1
  <2>3. CASE x = NoMatch
    BY <2>3 DEF NoMatch
  <2>4. CASE x # NoMatch
    BY <1>4, <2>2, <2>4, AfterBoot, Looked
  <2> QED
    BY <2>3, <2>4
<1>6. /\ Shape(g) /\ g.index = x /\ g.wired = r.wired
      /\ g.random = r.random /\ g.entryhi = r.entryhi
      /\ g.context = r.context /\ g.sr = r.sr /\ g.epc = r.epc
  BY <1>2, <1>4, AfterBoot, Indexed
<1>7. CarriedRegs(g, "fault_load", op', tlb)
  BY <1>4, <1>5, <1>6, AfterBoot DEF CarriedRegs
<1> QED
  BY <1>3, <1>4, <1>6, <1>7, AfterBoot, PlainStep

LEMMA FaultLoadStep == WiredInv /\ FaultLoad => WiredInv' /\ WiredStay
<1> SUFFICES ASSUME WiredInv, FaultLoad PROVE WiredInv' /\ WiredStay
  OBVIOUS
<1>1. PICK lo : lo = PtePair(r.entryhi.asid, r.entryhi.vpn2)
  OBVIOUS
<1>2. PICK g : g = [r EXCEPT !.entrylo = lo]
  OBVIOUS
<1>3. /\ pc = "fault_load" /\ pc' = "fault_write" /\ Steps(g)
      /\ UNCHANGED <<tlb, op, saved>>
  BY <1>1, <1>2 DEF FaultLoad, Goto, At
<1>4. LoShape(lo) /\ lo[0].global = FALSE
  BY <1>1, PtePairFacts
<1>5. /\ pc \notin BootPlace /\ pc \in Handler
      /\ "fault_write" \in Handler /\ "fault_write" \notin Quiet
  BY <1>3 DEF BootPlace, Handler, Quiet
<1>6. /\ Shape(g) /\ g.entrylo = lo /\ g.wired = r.wired
      /\ g.random = r.random /\ g.entryhi = r.entryhi /\ g.index = r.index
      /\ g.context = r.context /\ g.sr = r.sr /\ g.epc = r.epc
  BY <1>2, <1>4, <1>5, AfterBoot, LoadedLo
<1>7. CarriedRegs(g, "fault_write", op', tlb)
  BY <1>3, <1>4, <1>5, <1>6, AfterBoot DEF CarriedRegs
<1> QED
  BY <1>3, <1>5, <1>6, <1>7, AfterBoot, PlainStep

LEMMA KernelEretStep == WiredInv /\ KernelEret => WiredInv' /\ WiredStay
<1> SUFFICES ASSUME WiredInv, KernelEret PROVE WiredInv' /\ WiredStay
  OBVIOUS
<1>1. PICK g : g = [r EXCEPT !.sr.exl = FALSE]
  OBVIOUS
<1>2. PICK q : q = r.epc
  OBVIOUS
<1>3. pc = "eret" /\ pc' = q /\ Steps(g) /\ UNCHANGED <<tlb, op, saved>>
  BY <1>1, <1>2 DEF KernelEret, At, Eret
<1>4. pc \notin BootPlace /\ pc \in Handler
  BY <1>3 DEF BootPlace, Handler
<1>5. q \in Resume /\ q \notin Handler /\ q \notin Quiet
  BY <1>2, <1>4, AfterBoot DEF Resume, Handler, Quiet
<1>6. /\ Shape(g) /\ g.wired = r.wired
      /\ g.random = r.random /\ g.entryhi = r.entryhi
      /\ g.context = r.context /\ g.epc = r.epc
  BY <1>1, <1>4, AfterBoot DEF Shape, RegNames
<1>7. CarriedRegs(g, q, op', tlb)
  BY <1>4, <1>5, <1>6, AfterBoot DEF CarriedRegs, Resume
<1> QED
  BY <1>3, <1>4, <1>5, <1>6, <1>7, AfterBoot, PlainStep

LEMMA AcknowledgeStep == WiredInv /\ Acknowledge => WiredInv' /\ WiredStay
<1> SUFFICES ASSUME WiredInv, Acknowledge PROVE WiredInv' /\ WiredStay
  OBVIOUS
<1>1. PICK f : f = [r EXCEPT !.compare = r.compare]
  OBVIOUS
<1>2. PICK g : g = ClearInterrupt(f, COMPARE_CONNECTED)
  OBVIOUS
<1>3. /\ pc = "int" /\ pc' = "eret" /\ Steps(g)
      /\ UNCHANGED <<tlb, op, saved>>
  BY <1>1, <1>2 DEF Acknowledge, Goto, At, WriteCompare, Steps
<1>4. /\ pc \notin BootPlace /\ pc \in Handler
      /\ "eret" \in Handler /\ "eret" \notin Quiet
  BY <1>3 DEF BootPlace, Handler, Quiet
<1>5. Shape(f) /\ Kept(r, f) /\ f.random = r.random
  BY <1>1, <1>4, AfterBoot DEF Shape, RegNames, Kept
<1>6. DOMAIN g = RegNames /\ Kept(f, g) /\ g.random = f.random
  BY <1>2, <1>5 DEF ClearInterrupt, Shape, RegNames, Kept
<1>7. /\ Shape(g) /\ g.wired = r.wired
      /\ g.random = r.random /\ g.entryhi = r.entryhi
      /\ g.context = r.context /\ g.sr = r.sr /\ g.epc = r.epc
  BY <1>5, <1>6 DEF Shape, Kept
<1>8. CarriedRegs(g, "eret", op', tlb)
  BY <1>4, <1>7, AfterBoot DEF CarriedRegs
<1> QED
  BY <1>3, <1>4, <1>7, <1>8, AfterBoot, PlainStep

LEMMA SwitchStep == WiredInv /\ Switch => WiredInv' /\ WiredStay
<1> SUFFICES ASSUME WiredInv, Switch PROVE WiredInv' /\ WiredStay
  OBVIOUS
<1>1. PICK asid \in ASID :
        op' \in Ops[asid] /\ Steps([r EXCEPT !.entryhi.asid = asid])
  BY DEF Switch
<1>2. PICK g : g = [r EXCEPT !.entryhi.asid = asid]
  OBVIOUS
<1>3. /\ pc = "general" /\ pc' = "eret" /\ Steps(g)
      /\ UNCHANGED <<tlb, saved>>
  BY <1>1, <1>2 DEF Switch, Called, At
<1>4. /\ pc \notin BootPlace /\ pc \in Handler
      /\ "eret" \in Handler /\ "eret" \notin Quiet
  BY <1>3 DEF BootPlace, Handler, Quiet
<1>5. op'.vaddr \in UserAddress
  BY <1>1, OpAddress
<1>6. /\ Shape(g) /\ g.wired = r.wired
      /\ g.random = r.random /\ g.entryhi.asid = asid
      /\ g.context = r.context /\ g.sr = r.sr /\ g.epc = r.epc
  BY <1>2, <1>4, AfterBoot DEF Shape, RegNames
<1>7. CarriedRegs(g, "eret", op', tlb)
  BY <1>4, <1>6, AfterBoot DEF CarriedRegs
<1> QED
  BY <1>3, <1>4, <1>5, <1>6, <1>7, AfterBoot, PlainStep

LEMMA UnmapEnterStep == WiredInv /\ UnmapEnter => WiredInv' /\ WiredStay
<1> SUFFICES ASSUME WiredInv, UnmapEnter PROVE WiredInv' /\ WiredStay
  OBVIOUS
<1>1. PICK g : g = [r EXCEPT !.sr.exl = FALSE, !.sr.user = FALSE]
  OBVIOUS
<1>2. PICK s : s = r.epc
  OBVIOUS
<1>3. /\ pc = "general" /\ pc' = "unmap" /\ Steps(g) /\ saved' = s
      /\ UNCHANGED <<tlb, op>>
  BY <1>1, <1>2 DEF UnmapEnter, Called, At
<1>4. /\ pc \notin BootPlace
      /\ "unmap" \in Resume /\ "unmap" \notin Handler /\ "unmap" \notin Quiet
  BY <1>3 DEF BootPlace, Handler, Quiet, Resume
<1>5. s \in Resume
  BY <1>2, <1>4, AfterBoot
<1>6. /\ Shape(g) /\ g.wired = r.wired
      /\ g.random = r.random /\ g.entryhi = r.entryhi
      /\ g.context = r.context /\ g.epc = r.epc
  <2>1. PICK f : f = [r EXCEPT !.sr.exl = FALSE]
    OBVIOUS
  <2>2. /\ Shape(f) /\ f.wired = r.wired
        /\ f.random = r.random /\ f.entryhi = r.entryhi
        /\ f.context = r.context /\ f.epc = r.epc
    BY <1>4, <2>1, AfterBoot DEF Shape, RegNames
  <2>3. g = [f EXCEPT !.sr.user = FALSE]
    BY <1>1, <2>1
  <2> QED
    BY <2>2, <2>3 DEF Shape, RegNames
<1>7. CarriedRegs(g, "unmap", op', tlb)
  BY <1>4, <1>6, AfterBoot DEF CarriedRegs
<1> QED
  BY <1>3, <1>4, <1>5, <1>6, <1>7, AfterBoot, PlainStep

LEMMA UnmapPageStep == WiredInv /\ UnmapPage => WiredInv' /\ WiredStay
<1> SUFFICES ASSUME WiredInv, UnmapPage PROVE WiredInv' /\ WiredStay
  OBVIOUS
<1>1. /\ pc = "unmap" /\ pc' = "unmap_mask" /\ Steps(r)
      /\ UNCHANGED <<tlb, op, saved>>
  BY DEF UnmapPage, Goto, At
<1>2. /\ pc \notin BootPlace /\ "unmap_mask" \in Resume
      /\ "unmap_mask" \notin Handler /\ "unmap_mask" \notin Quiet
  BY <1>1 DEF BootPlace, Handler, Quiet, Resume
<1>3. CarriedRegs(r, "unmap_mask", op', tlb)
  BY <1>2, AfterBoot DEF CarriedRegs
<1> QED
  BY <1>1, <1>2, <1>3, AfterBoot, PlainStep

LEMMA UnmapMaskStep == WiredInv /\ UnmapMask => WiredInv' /\ WiredStay
<1> SUFFICES ASSUME WiredInv, UnmapMask PROVE WiredInv' /\ WiredStay
  OBVIOUS
<1>1. PICK g : g = [r EXCEPT !.sr.ie = FALSE]
  OBVIOUS
<1>2. /\ pc = "unmap_mask" /\ pc' = "unmap_hi" /\ Steps(g)
      /\ UNCHANGED <<tlb, op, saved>>
  BY <1>1 DEF UnmapMask, Goto, At
<1>3. /\ pc \notin BootPlace
      /\ "unmap_hi" \in Quiet /\ "unmap_hi" \notin Handler
  BY <1>2 DEF BootPlace, Handler, Quiet
<1>4. /\ Shape(g) /\ g.sr.ie = FALSE /\ g.wired = r.wired
      /\ g.random = r.random /\ g.entryhi = r.entryhi
      /\ g.context = r.context /\ g.epc = r.epc
  BY <1>1, <1>3, AfterBoot DEF Shape, RegNames
<1>5. CarriedRegs(g, "unmap_hi", op', tlb)
  BY <1>3, <1>4, AfterBoot DEF CarriedRegs
<1> QED
  BY <1>2, <1>3, <1>4, <1>5, AfterBoot, PlainStep

LEMMA UnmapHiStep == WiredInv /\ UnmapHi => WiredInv' /\ WiredStay
<1> SUFFICES ASSUME WiredInv, UnmapHi PROVE WiredInv' /\ WiredStay
  OBVIOUS
<1>1. PICK p : p = op.vaddr \div PairSize
  OBVIOUS
<1>2. PICK g : g = [r EXCEPT !.entryhi.vpn2 = p]
  OBVIOUS
<1>3. /\ pc = "unmap_hi" /\ pc' = "unmap_probe" /\ Steps(g)
      /\ UNCHANGED <<tlb, op, saved>>
  BY <1>1, <1>2 DEF UnmapHi, Goto, At
<1>4. /\ pc \notin BootPlace /\ pc \in Quiet
      /\ "unmap_probe" \in Quiet /\ "unmap_probe" \notin Handler
  BY <1>3 DEF BootPlace, Handler, Quiet
<1>5. /\ Shape(g) /\ g.sr = r.sr /\ g.wired = r.wired
      /\ g.random = r.random /\ g.entryhi.asid = r.entryhi.asid
      /\ g.entryhi.vpn2 = p
      /\ g.context = r.context /\ g.epc = r.epc
  BY <1>2, <1>4, AfterBoot DEF Shape, RegNames
<1>6. CarriedRegs(g, "unmap_probe", op', tlb)
  BY <1>1, <1>3, <1>4, <1>5, AfterBoot DEF CarriedRegs, PageOf
<1> QED
  BY <1>3, <1>4, <1>5, <1>6, AfterBoot, PlainStep

LEMMA UnmapProbeStep == WiredInv /\ UnmapProbe => WiredInv' /\ WiredStay
<1> SUFFICES ASSUME WiredInv, UnmapProbe PROVE WiredInv' /\ WiredStay
  OBVIOUS
<1>1. PICK x : x = GetTlbEntry(tlb, r, r.entryhi.vpn2)
  OBVIOUS
<1>2. PICK g : g = [r EXCEPT !.index = x]
  OBVIOUS
<1>3. pc = "unmap_probe" /\ Steps(g) /\ UNCHANGED <<tlb, op, saved>>
  BY <1>1, <1>2 DEF UnmapProbe, At, TlbLookup
<1>4. pc \notin BootPlace /\ pc \in Quiet
  BY <1>3 DEF BootPlace, Quiet
<1>5. /\ Shape(g) /\ g.index = x /\ g.wired = r.wired
      /\ g.random = r.random /\ g.entryhi = r.entryhi
      /\ g.context = r.context /\ g.sr = r.sr /\ g.epc = r.epc
  BY <1>2, <1>4, AfterBoot, Indexed
<1>6. PICK q : q = IF x = NoMatch THEN "unmap_exit" ELSE "unmap_read"
  OBVIOUS
<1>7. pc' = q
  <2>1. TlbLookup(tlb, r) = g
    BY <1>1, <1>2 DEF TlbLookup
  <2> QED
    BY <1>5, <1>6, <2>1 DEF UnmapProbe
<1>8. q \in Quiet /\ q \notin Handler
  BY <1>6 DEF Handler, Quiet
<1>9. x # NoMatch => x \in Entry /\ x # 0 /\ tlb[x].asid \in ASID
  <2>1. PICK v \in UserAddress : v = op.vaddr /\ r.entryhi.vpn2 = PageOf(v)
    BY <1>3, <1>4, AfterBoot DEF CarriedRegs
  <2>2. x = GetTlbEntry(tlb, r, PageOf(v))
    BY <1>1, <2>1
  <2> QED
    BY <1>4, <2>2, AfterBoot, Looked
<1>10. CarriedRegs(g, q, op', tlb)
  BY <1>4, <1>5, <1>6, <1>9, AfterBoot DEF CarriedRegs
<1> QED
  BY <1>3, <1>4, <1>5, <1>7, <1>8, <1>10, AfterBoot, PlainStep

LEMMA UnmapReadStep == WiredInv /\ UnmapRead => WiredInv' /\ WiredStay
<1> SUFFICES ASSUME WiredInv, UnmapRead PROVE WiredInv' /\ WiredStay
  OBVIOUS
<1>1. PICK e : e = tlb[r.index]
  OBVIOUS
<1>2. PICK hi : hi = [vpn2 |-> e.vpn2, asid |-> e.asid]
  OBVIOUS
<1>3. PICK lo : lo = [odd \in 0 .. 1 |-> [e.lo[odd] EXCEPT !.global = e.global]]
  OBVIOUS
<1>4. PICK f : f = [r EXCEPT !.entryhi = hi, !.pagemask = e.pagemask,
                             !.entrylo = lo]
  OBVIOUS
<1>5. PICK n : n = (op.vaddr \div PageSize) % 2
  OBVIOUS
<1>6. PICK g : g = [f EXCEPT !.entrylo[n].valid = FALSE]
  OBVIOUS
<1>7. /\ pc = "unmap_read" /\ pc' = "unmap_write" /\ Steps(g)
      /\ UNCHANGED <<tlb, op, saved>>
  BY <1>1, <1>2, <1>3, <1>4, <1>5, <1>6 DEF UnmapRead, Goto, At, TlbRead
<1>8. /\ pc \notin BootPlace /\ pc \in Quiet
      /\ "unmap_write" \in Quiet /\ "unmap_write" \notin Handler
  BY <1>7 DEF BootPlace, Handler, Quiet
<1>9. r.index \in Entry /\ r.index # 0 /\ e.asid \in ASID
  BY <1>1, <1>7, <1>8, AfterBoot DEF CarriedRegs
<1>10. LoShape(e.lo) /\ e.global = FALSE
  BY <1>1, <1>8, <1>9, AfterBoot DEF EntriesOK
<1>11. LoShape(lo) /\ lo[0].global = FALSE
  BY <1>3, <1>10 DEF LoShape, LoNames
<1>12. /\ DOMAIN f = RegNames /\ f.entrylo = lo /\ f.entryhi = hi
       /\ f.index = r.index /\ f.wired = r.wired /\ f.random = r.random
       /\ f.context = r.context /\ f.sr = r.sr /\ f.epc = r.epc
  BY <1>4, <1>8, AfterBoot DEF Shape, RegNames
<1>13. PICK low : low = [lo EXCEPT ![n].valid = FALSE]
  OBVIOUS
<1>14. LoShape(low) /\ low[0].global = FALSE
  BY <1>11, <1>13 DEF LoShape, LoNames
<1>15. /\ DOMAIN g = RegNames /\ g.entrylo = low /\ g.entryhi = hi
       /\ g.index = r.index /\ g.wired = r.wired /\ g.random = r.random
       /\ g.context = r.context /\ g.sr = r.sr /\ g.epc = r.epc
  BY <1>6, <1>12, <1>13 DEF RegNames
<1>16. Shape(g) /\ g.entryhi.asid \in ASID
  BY <1>2, <1>8, <1>9, <1>14, <1>15, AfterBoot DEF Shape
<1>17. CarriedRegs(g, "unmap_write", op', tlb)
  BY <1>8, <1>9, <1>14, <1>15, AfterBoot DEF CarriedRegs
<1> QED
  BY <1>7, <1>8, <1>15, <1>16, <1>17, AfterBoot, PlainStep

LEMMA UnmapExitStep == WiredInv /\ UnmapExit => WiredInv' /\ WiredStay
<1> SUFFICES ASSUME WiredInv, UnmapExit PROVE WiredInv' /\ WiredStay
  OBVIOUS
<1>1. PICK s : s = saved
  OBVIOUS
<1>2. PICK g : g = [r EXCEPT !.sr.exl = TRUE, !.sr.user = TRUE, !.sr.ie = TRUE,
                             !.epc = s]
  OBVIOUS
<1>3. /\ pc = "unmap_exit" /\ pc' = "eret" /\ Steps(g)
      /\ op' \in Ops[r.entryhi.asid]
      /\ UNCHANGED <<tlb, saved>>
  BY <1>1, <1>2 DEF UnmapExit, Goto, At
<1>4. /\ pc \notin BootPlace /\ "eret" \in Handler /\ "eret" \notin Quiet
  BY <1>3 DEF BootPlace, Handler, Quiet
<1>5. op'.vaddr \in UserAddress
  BY <1>3, <1>4, AfterBoot, OpAddress
<1>6. /\ Shape(g) /\ g.sr.exl = TRUE /\ g.wired = r.wired
      /\ g.random = r.random /\ g.entryhi = r.entryhi
      /\ g.context = r.context /\ g.epc = s
  <2>1. PICK f : f = [r EXCEPT !.sr.exl = TRUE]
    OBVIOUS
  <2>2. /\ Shape(f) /\ f.sr.exl = TRUE /\ f.wired = r.wired
        /\ f.random = r.random /\ f.entryhi = r.entryhi
        /\ f.context = r.context /\ f.epc = r.epc
    BY <1>4, <2>1, AfterBoot DEF Shape, RegNames
  <2>3. PICK h : h = [f EXCEPT !.sr.user = TRUE]
    OBVIOUS
  <2>4. /\ Shape(h) /\ h.sr.exl = TRUE /\ h.wired = r.wired
        /\ h.random = r.random /\ h.entryhi = r.entryhi
        /\ h.context = r.context /\ h.epc = r.epc
    BY <2>2, <2>3 DEF Shape, RegNames
  <2>5. PICK i : i = [h EXCEPT !.sr.ie = TRUE]
    OBVIOUS
  <2>6. /\ Shape(i) /\ i.sr.exl = TRUE /\ i.wired = r.wired
        /\ i.random = r.random /\ i.entryhi = r.entryhi
        /\ i.context = r.context /\ i.epc = r.epc
    BY <2>4, <2>5 DEF Shape, RegNames
  <2>7. g = [i EXCEPT !.epc = s]
    BY <1>2, <2>1, <2>3, <2>5
  <2> QED
    BY <2>6, <2>7 DEF Shape, RegNames
<1>7. s \in Resume
  BY <1>1, <1>4, AfterBoot
<1>8. CarriedRegs(g, "eret", op', tlb)
  BY <1>4, <1>6, AfterBoot DEF CarriedRegs
<1> QED
  BY <1>3, <1>4, <1>5, <1>6, <1>7, <1>8, AfterBoot, PlainStep

-----------------------------------------------------------------------------
(* What a write of the TLB leaves.                                         *)
LEMMA WriteKeeps ==
  ASSUME NEW x, EntriesOK, LoShape(r.entrylo),
         tlb' = [tlb EXCEPT ![x] = NewEntry(r)],
         x = 0 \/ r.entrylo[0].global = FALSE
  PROVE  EntriesOK' /\ \A y \in Entry : y # x => tlb'[y] = tlb[y]
<1>1. PICK e : e = NewEntry(r)
  OBVIOUS
<1>2. e.lo = r.entrylo /\ e.global = r.entrylo[0].global
  BY <1>1 DEF NewEntry
<1>3. DOMAIN tlb = Entry
  BY DEF EntriesOK
<1>4. DOMAIN tlb' = Entry
  BY <1>3
<1>5. \A y \in Entry : tlb'[y] = IF y = x THEN e ELSE tlb[y]
  BY <1>1, <1>3
<1>6. \A y \in Entry : LoShape(tlb'[y].lo)
  BY <1>2, <1>5 DEF EntriesOK
<1>7. \A y \in Entry \ {0} : tlb'[y].global = FALSE
  BY <1>2, <1>5 DEF EntriesOK
<1> QED
  BY <1>4, <1>5, <1>6, <1>7 DEF EntriesOK

(* The handlers write no entry that is wired.                              *)
LEMMA HandlerWrites ==
  ASSUME WiredInv, pc \notin BootPlace, NEW x, x # 0,
         tlb' = [tlb EXCEPT ![x] = NewEntry(r)],
         r.entrylo[0].global = FALSE,
         Steps(r), UNCHANGED <<op, saved>>,
         NEW q \in {"eret", "unmap_exit"}, pc' = q,
         q = "eret" => r.sr.exl = TRUE,
         q = "unmap_exit" => r.sr.ie = FALSE
  PROVE  WiredInv' /\ WiredStay
<1>1. /\ Shape(r) /\ r.wired \in Entry /\ r.random \in Entry
      /\ UserRegs(r, pc, op, saved) /\ r.wired = 1 /\ r.context \in Nat
      /\ EntriesOK /\ StackOK /\ Booted
  BY RandomIsEntry, AfterBoot DEF WiredInv
<1>2. EntriesOK' /\ \A y \in Entry : y # x => tlb'[y] = tlb[y]
  <2>1. LoShape(r.entrylo)
    BY <1>1 DEF Shape
  <2>2. EntriesOK /\ (x = 0 \/ r.entrylo[0].global = FALSE)
    BY <1>1
  <2>3. tlb' = [tlb EXCEPT ![x] = NewEntry(r)]
    OBVIOUS
  <2> QED
    BY <2>1, <2>2, <2>3, WriteKeeps
<1>3. tlb'[0] = tlb[0]
  BY <1>2, KernelFacts
<1>4. Booted' /\ q \notin BootPlace
  BY DEF Booted, BootPlace
<1>5. StackOK'
  BY <1>1, <1>3 DEF StackOK
<1>6. WiredStay
  <2>1. \A y \in Entry : y < 1 => y = 0
    BY KernelFacts DEF Entry
  <2> QED
    BY <1>1, <1>3, <2>1 DEF WiredStay
<1>7. BootRegs(r, pc') /\ UserRegs(r, pc', op', saved')
  BY <1>1, <1>4 DEF BootRegs, UserRegs
<1>8. PlaceRegs(r, pc')
  BY DEF PlaceRegs, Handler, Quiet
<1>9. CarriedRegs(r, pc', op', tlb')
  BY <1>1 DEF CarriedRegs
<1>10. WiredInv'
  BY <1>1, <1>2, <1>5, <1>7, <1>8, <1>9, Close
<1> QED
  BY <1>6, <1>10

LEMMA WriteRandomStep == WiredInv /\ WriteRandom => WiredInv' /\ WiredStay
<1> SUFFICES ASSUME WiredInv, WriteRandom PROVE WiredInv' /\ WiredStay
  OBVIOUS
<1>1. /\ pc = "refill_write" /\ pc' = "eret" /\ Steps(r)
      /\ UNCHANGED <<op, saved>>
      /\ tlb' = [tlb EXCEPT ![r.random] = NewEntry(r)]
  BY DEF WriteRandom, Goto, At, TlbWrite, WriteIndex
<1>2. pc \notin BootPlace /\ pc \in Handler
  BY <1>1 DEF BootPlace, Handler
<1>3. PICK x : x = r.random
  OBVIOUS
<1>4. x # 0
  BY <1>2, <1>3, RandomIsEntry, AfterBoot, KernelFacts DEF Entry
<1>5. r.entrylo[0].global = FALSE /\ r.sr.exl = TRUE
  BY <1>1, <1>2, AfterBoot DEF CarriedRegs
<1>6. tlb' = [tlb EXCEPT ![x] = NewEntry(r)]
  BY <1>1, <1>3
<1> QED
  BY <1>1, <1>2, <1>4, <1>5, <1>6, HandlerWrites

LEMMA FaultWriteStep == WiredInv /\ FaultWrite => WiredInv' /\ WiredStay
<1> SUFFICES ASSUME WiredInv, FaultWrite PROVE WiredInv' /\ WiredStay
  OBVIOUS
<1>1. /\ pc = "fault_write" /\ pc' = "eret" /\ Steps(r)
      /\ UNCHANGED <<op, saved>>
      /\ tlb' = [tlb EXCEPT ![r.index] = NewEntry(r)]
  BY DEF FaultWrite, Goto, At, TlbWrite, WriteIndex
<1>2. pc \notin BootPlace /\ pc \in Handler
  BY <1>1 DEF BootPlace, Handler
<1>3. PICK x : x = r.index
  OBVIOUS
<1>4. x # 0 /\ r.entrylo[0].global = FALSE /\ r.sr.exl = TRUE
  BY <1>1, <1>2, <1>3, AfterBoot DEF CarriedRegs
<1>5. tlb' = [tlb EXCEPT ![x] = NewEntry(r)]
  BY <1>1, <1>3
<1> QED
  BY <1>1, <1>2, <1>4, <1>5, HandlerWrites

LEMMA UnmapWriteStep == WiredInv /\ UnmapWrite => WiredInv' /\ WiredStay
<1> SUFFICES ASSUME WiredInv, UnmapWrite PROVE WiredInv' /\ WiredStay
  OBVIOUS
<1>1. /\ pc = "unmap_write" /\ pc' = "unmap_exit" /\ Steps(r)
      /\ UNCHANGED <<op, saved>>
      /\ tlb' = [tlb EXCEPT ![r.index] = NewEntry(r)]
  BY DEF UnmapWrite, Goto, At, TlbWrite, WriteIndex
<1>2. pc \notin BootPlace /\ pc \in Quiet
  BY <1>1 DEF BootPlace, Quiet
<1>3. PICK x : x = r.index
  OBVIOUS
<1>4. x # 0 /\ r.entrylo[0].global = FALSE /\ r.sr.ie = FALSE
  BY <1>1, <1>2, <1>3, AfterBoot DEF CarriedRegs
<1>5. tlb' = [tlb EXCEPT ![x] = NewEntry(r)]
  BY <1>1, <1>3
<1> QED
  BY <1>1, <1>2, <1>4, <1>5, HandlerWrites

-----------------------------------------------------------------------------
(* The boot: nothing is wired while it lasts.                              *)
LEMMA InBoot ==
  ASSUME WiredInv, pc \in BootPlace
  PROVE  /\ Shape(r) /\ r.wired = 0 /\ r.random \in Entry /\ r.wired \in Entry
         /\ r.sr.ie = FALSE /\ r.context \in Nat /\ saved \in Resume
         /\ EntriesOK /\ BootRegs(r, pc) /\ WiredStay
<1>1. r.wired = 0
  BY DEF WiredInv, BootRegs
<1>2. WiredStay
  BY <1>1, KernelFacts DEF WiredStay, Entry
<1> QED
  BY <1>1, <1>2, RandomIsEntry DEF WiredInv, BootRegs, UserRegs, CarriedRegs

(* An instruction after which the boot goes on at q.                       *)
LEMMA BootStep ==
  ASSUME WiredInv, pc \in BootPlace, NEW q \in BootPlace, pc' = q,
         EntriesOK', UNCHANGED <<op, saved>>,
         NEW g, Shape(g), g.wired = r.wired, g.random = r.random,
         g.context = r.context, Steps(g), BootRegs(g, q)
  PROVE  WiredInv' /\ WiredStay
<1>1. /\ r.wired = 0 /\ r.random \in Entry /\ r.wired \in Entry
      /\ r.context \in Nat /\ saved \in Resume /\ WiredStay
  BY InBoot
<1>2. StackOK'
  BY DEF StackOK, Booted, BootPlace
<1>3. UserRegs(g, pc', op', saved') /\ PlaceRegs(g, pc')
  BY <1>1 DEF UserRegs, PlaceRegs, BootPlace, Handler, Quiet
<1>4. CarriedRegs(g, pc', op', tlb')
  BY <1>1 DEF CarriedRegs, BootPlace
<1>5. WiredInv'
  BY <1>1, <1>2, <1>3, <1>4, Close
<1> QED
  BY <1>1, <1>5

LEMMA BootFlushStep == WiredInv /\ BootFlush => WiredInv' /\ WiredStay
<1> SUFFICES ASSUME WiredInv, BootFlush PROVE WiredInv' /\ WiredStay
  OBVIOUS
<1>1. PICK hi : hi = [vpn2 |-> Unique(r.index), asid |-> 0]
  OBVIOUS
<1>2. PICK g : g = [r EXCEPT !.entryhi = hi]
  OBVIOUS
<1>3. /\ pc = "boot" /\ pc' = "boot_write" /\ Steps(g)
      /\ UNCHANGED <<tlb, op, saved>>
  BY <1>1, <1>2 DEF BootFlush, Goto, At
<1>4. pc \in BootPlace /\ "boot_write" \in BootPlace
  BY <1>3 DEF BootPlace
<1>5. /\ Shape(g) /\ g.wired = r.wired /\ g.random = r.random
      /\ g.context = r.context /\ g.sr = r.sr /\ g.entrylo = r.entrylo
  BY <1>1, <1>2, <1>4, InBoot DEF Shape, RegNames
<1>6. BootRegs(g, "boot_write")
  BY <1>3, <1>4, <1>5, InBoot DEF BootRegs
<1>7. EntriesOK'
  BY <1>3, <1>4, InBoot DEF EntriesOK
<1> QED
  BY <1>3, <1>4, <1>5, <1>6, <1>7, BootStep

LEMMA BootWriteStep == WiredInv /\ BootWrite => WiredInv' /\ WiredStay
<1> SUFFICES ASSUME WiredInv, BootWrite PROVE WiredInv' /\ WiredStay
  OBVIOUS
<1>1. /\ pc = "boot_write" /\ UNCHANGED <<op, saved>>
      /\ tlb' = [tlb EXCEPT ![r.index] = NewEntry(r)]
  BY DEF BootWrite, At, TlbWrite, WriteIndex
<1>2. PICK q \in {"boot", "wire"} :
        /\ pc' = q
        /\ \E i : (q = "wire" => i = 0) /\ Steps([r EXCEPT !.index = i])
  BY DEF BootWrite
<1>3. PICK i : (q = "wire" => i = 0) /\ Steps([r EXCEPT !.index = i])
  BY <1>2
<1>4. PICK g : g = [r EXCEPT !.index = i]
  OBVIOUS
<1>5. pc \in BootPlace /\ q \in BootPlace
  BY <1>1 DEF BootPlace
<1>6. r.entrylo[0].global = FALSE
  BY <1>1, <1>5, InBoot DEF BootRegs
<1>7. EntriesOK'
  <2>1. PICK x : x = r.index
    OBVIOUS
  <2>2. tlb' = [tlb EXCEPT ![x] = NewEntry(r)]
    BY <1>1, <2>1
  <2> QED
    BY <1>5, <1>6, <2>2, InBoot, WriteKeeps DEF Shape
<1>8. /\ Shape(g) /\ g.index = i /\ g.wired = r.wired
      /\ g.random = r.random
      /\ g.context = r.context /\ g.sr = r.sr /\ g.entrylo = r.entrylo
  BY <1>4, <1>5, InBoot, Indexed
<1>9. BootRegs(g, q)
  BY <1>3, <1>5, <1>6, <1>8, InBoot DEF BootRegs
<1> QED
  BY <1>1, <1>2, <1>3, <1>4, <1>5, <1>7, <1>8, <1>9, BootStep

LEMMA WireStep == WiredInv /\ Wire => WiredInv' /\ WiredStay
<1> SUFFICES ASSUME WiredInv, Wire PROVE WiredInv' /\ WiredStay
  OBVIOUS
<1>1. PICK hi : hi = [vpn2 |-> STACK \div PairSize, asid |-> 0]
  OBVIOUS
<1>2. PICK lo : lo = [odd \in 0 .. 1 |->
                        [pfn |-> StackFrame(odd), valid |-> TRUE,
                         dirty |-> TRUE, global |-> TRUE]]
  OBVIOUS
<1>3. PICK g : g = [r EXCEPT !.entryhi = hi, !.pagemask = 3, !.entrylo = lo]
  OBVIOUS
<1>4. /\ pc = "wire" /\ pc' = "wire_write" /\ Steps(g)
      /\ UNCHANGED <<tlb, op, saved>>
  BY <1>1, <1>2, <1>3 DEF Wire, Goto, At
<1>5. pc \in BootPlace /\ "wire_write" \in BootPlace
  BY <1>4 DEF BootPlace
<1>6. LoShape(lo)
  BY <1>2 DEF LoShape, LoNames
<1>7. /\ DOMAIN g = RegNames /\ g.entryhi = hi /\ g.entrylo = lo
      /\ g.pagemask = 3 /\ g.index = r.index
      /\ g.wired = r.wired /\ g.random = r.random
      /\ g.context = r.context /\ g.sr = r.sr
  BY <1>3, <1>5, InBoot DEF Shape, RegNames
<1>8. Shape(g) /\ g.entryhi.vpn2 = PageOf(STACK)
  BY <1>1, <1>5, <1>6, <1>7, InBoot DEF Shape, PageOf
<1>9. BootRegs(g, "wire_write")
  BY <1>4, <1>5, <1>7, <1>8, InBoot DEF BootRegs
<1>10. EntriesOK'
  BY <1>4, <1>5, InBoot DEF EntriesOK
<1> QED
  BY <1>4, <1>5, <1>7, <1>8, <1>9, <1>10, BootStep

LEMMA WireWriteStep == WiredInv /\ WireWrite => WiredInv' /\ WiredStay
<1> SUFFICES ASSUME WiredInv, WireWrite PROVE WiredInv' /\ WiredStay
  OBVIOUS
<1>1. /\ pc = "wire_write" /\ pc' = "eret" /\ UNCHANGED saved
      /\ tlb' = [tlb EXCEPT ![r.index] = NewEntry(r)]
  BY DEF WireWrite, At, TlbWrite, WriteIndex
<1>2. PICK asid \in ASID :
        /\ op' \in Ops[asid]
        /\ Steps([r EXCEPT !.pagemask = 0, !.wired = 1, !.entryhi.asid = asid,
                           !.sr = [ie |-> TRUE, exl |-> TRUE, user |-> TRUE,
                                   im |-> {COMPARE_CONNECTED}],
                           !.cause.iv = TRUE, !.epc = "user"])
  BY DEF WireWrite
<1>3. pc \in BootPlace
  BY <1>1 DEF BootPlace
<1>4. /\ r.index = 0 /\ r.pagemask = 3 /\ r.entryhi.vpn2 = PageOf(STACK)
  BY <1>1, <1>3, InBoot DEF BootRegs
<1>5. NewEntry(r).vpn2 = PageOf(STACK) /\ NewEntry(r).pagemask = 3
  <2>1. 2 \in {i \in PageShifts : r.pagemask = 2 ^ i - 1}
    <3>1. 2 \in PageShifts
      BY Cp0Assumption, KernelAssumption DEF PageShifts
    <3>2. 3 = 2 ^ 2 - 1
      OBVIOUS
    <3> QED
      BY <1>4, <3>1, <3>2
  <2> QED
    BY <1>4, <2>1 DEF NewEntry
<1>6. tlb' = [tlb EXCEPT ![0] = NewEntry(r)]
  BY <1>1, <1>4
<1>7. EntriesOK'
  BY <1>3, <1>6, InBoot, WriteKeeps DEF Shape
<1>8. StackOK'
  <2>1. tlb'[0] = NewEntry(r)
    BY <1>3, <1>6, InBoot, KernelFacts DEF EntriesOK
  <2> QED
    BY <1>5, <2>1 DEF StackOK
<1>9. PICK sr : sr = [ie |-> TRUE, exl |-> TRUE, user |-> TRUE,
                      im |-> {COMPARE_CONNECTED}]
  OBVIOUS
<1>10. PICK g : g = [r EXCEPT !.pagemask = 0, !.wired = 1,
                              !.entryhi.asid = asid, !.sr = sr,
                              !.cause.iv = TRUE, !.epc = "user"]
  OBVIOUS
<1>11. Steps(g)
  BY <1>2, <1>9, <1>10
<1>12. /\ DOMAIN g = RegNames /\ g.wired = 1 /\ g.random = r.random
       /\ g.entryhi = [r.entryhi EXCEPT !.asid = asid] /\ g.sr = sr
       /\ g.entrylo = r.entrylo
       /\ g.context = r.context /\ g.epc = "user"
  BY <1>3, <1>10, InBoot DEF Shape, RegNames
<1>13. Shape(g) /\ g.entryhi.asid = asid /\ g.sr.exl = TRUE
  BY <1>3, <1>9, <1>12, InBoot DEF Shape
<1>14. BootRegs(g, pc') /\ UserRegs(g, pc', op', saved') /\ PlaceRegs(g, pc')
  <2>1. op'.vaddr \in UserAddress
    BY <1>2, OpAddress
  <2> QED
    BY <1>1, <1>3, <1>12, <1>13, <2>1, InBoot
       DEF BootRegs, UserRegs, PlaceRegs, BootPlace, Handler, Quiet, Resume
<1>15. CarriedRegs(g, pc', op', tlb')
  BY <1>1, <1>3, <1>12, InBoot DEF CarriedRegs
<1>16. g.wired \in Entry /\ g.random \in Entry
  BY <1>3, <1>12, InBoot, KernelFacts
<1>17. WiredInv'
  BY <1>7, <1>8, <1>11, <1>13, <1>14, <1>15, <1>16, Close
<1> QED
  BY <1>3, <1>17, InBoot

-----------------------------------------------------------------------------
(* One instruction of the kernel or of its programs, whichever it is.      *)
LEMMA WiredStep ==
  WiredInv /\ [KernelNext]_kernelVars
    => WiredInv' /\ (WiredStay \/ UNCHANGED kernelVars)
<1> SUFFICES ASSUME WiredInv, [KernelNext]_kernelVars
             PROVE  WiredInv' /\ (WiredStay \/ UNCHANGED kernelVars)
  OBVIOUS
<1>1. CASE Interrupted
  BY <1>1, InterruptedStep
<1>2. CASE Boot
  BY <1>2, BootFlushStep, BootWriteStep, WireStep, WireWriteStep DEF Boot
<1>3. CASE User
  BY <1>3, UserHitStep, UserFaultStep, UserCallStep DEF User
<1>4. CASE Handlers
  BY <1>4, RefillLoadStep, WriteRandomStep, TableMissStep, PageFaultStep,
     FaultProbeStep, FaultLoadStep, FaultWriteStep, KernelEretStep,
     AcknowledgeStep DEF Handlers
<1>5. CASE Calls
  BY <1>5, SwitchStep, UnmapEnterStep, UnmapPageStep, UnmapMaskStep,
     UnmapHiStep, UnmapProbeStep, UnmapReadStep, UnmapWriteStep,
     UnmapExitStep DEF Calls
<1>6. CASE UNCHANGED kernelVars
  BY <1>6 DEF kernelVars, WiredInv, RandomOK, EntriesOK, StackOK, Booted
<1> QED
  BY <1>1, <1>2, <1>3, <1>4, <1>5, <1>6 DEF KernelNext

(***************************************************************************)
(* The entries below WIRED stay what they are: no TLBWR reaches them,      *)
(* since coprocessor 0 has lifted RANDOM over WIRED when the handlers run, *)
(* and no TLBWI of the handlers does, since TLBP never finds the entry of  *)
(* the stack (no page of a program is in its block of pages).              *)
(***************************************************************************)
THEOREM WiredKeptCorrect == KernelSpec => WiredKept
<1>1. KernelInit => WiredInv
  BY KernelStart
<1>2. WiredInv /\ [KernelNext]_kernelVars => WiredInv'
  BY WiredStep
<1>3. WiredInv /\ [KernelNext]_kernelVars
        => [\A x \in Entry : x < r.wired => tlb'[x] = tlb[x]]_kernelVars
  BY WiredStep DEF WiredStay
<1> QED
  BY <1>1, <1>2, <1>3, PTL DEF KernelSpec, WiredKept
=============================================================================
