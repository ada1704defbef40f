--------------------------- MODULE TlbKernelProofs ---------------------------
(***************************************************************************)
(* Proofs about the paging kernel of TlbKernel: the TLB agrees with the    *)
(* page tables, for every number of entries, all sizes of pages and all    *)
(* programs; and the types of coprocessor 0 under it.                      *)
(*                                                                         *)
(* The invariant, MapInv, says of each entry what it holds by its page: a  *)
(* page that nobody translates, left from the boot, the page table of a    *)
(* space, or two pages of a program.  A handler changes the table before   *)
(* it changes the TLB; in between the page of that handler, and no other,  *)
(* may be ahead of its entry (Up, for a fault) or behind it (Down, when    *)
(* the page is given back).  That the writes leave every page in one entry *)
(* needs what the handlers know when they write: that the page was absent  *)
(* when the refill began, or that TLBP found this very entry (WriteMap).   *)
(***************************************************************************)
EXTENDS Cp0Proofs, FiniteSetTheorems

(***************************************************************************)
(* The TLB and the page tables.  What an entry holds is told from its page *)
(* (a pair of pages), its address space and its halves: a page nobody      *)
(* translates, the page table of a space, or a pair of a program.          *)
(***************************************************************************)
KernelPair == PageOf(KSEG0_MIN)
UserPair(pair) == pair \in Nat /\ pair < KernelPair

Mode(tables, asid, page) ==
  IF page \in UserPage[asid] THEN tables[asid][page] ELSE "none"

(* A half leads to the frame of its page; it allows no more than the table *)
(* unless its page is in down, and no less unless its page is in up.       *)
HalfOK(tables, up, down, asid, page, lo) ==
  /\ lo.valid => lo.pfn = UserFrame(asid, page)
  /\ <<asid, page>> \notin down =>
       (lo.valid => /\ Mode(tables, asid, page) # "none"
                    /\ (lo.dirty => Mode(tables, asid, page) = "rw"))
  /\ <<asid, page>> \notin up \cup down =>
       /\ Mode(tables, asid, page) # "none" => lo.valid
       /\ Mode(tables, asid, page) = "rw" => lo.dirty

UserHalves(tables, up, down, asid, pair, lo) ==
  /\ UserPair(pair) /\ asid \in ASID
  /\ \A odd \in 0 .. 1 :
       HalfOK(tables, up, down, asid, 2 * pair + odd, lo[odd])

TableHalves(asid, pair, lo) ==
  /\ pair = PageOf(PTBASE) /\ asid \in ASID
  /\ lo[0].valid /\ lo[0].pfn = TableFrame(asid)

FlushedPair(pair) == KernelPair <= pair /\ pair < PageOf(STACK)

(* The page whose table entry has changed before the TLB has: a handler is *)
(* about to make it valid or writable, or to give it back.                 *)
Current(g, o) == <<g.entryhi.asid, o.vaddr \div PageSize>>

FaultPlace == {"fault_probe", "fault_load", "fault_write"}
DropPlace == {"unmap_mask", "unmap_hi", "unmap_probe", "unmap_read",
              "unmap_write"}

(* A place where the program of an unmapped page may have been interrupted *)
Within(g, p, places) ==
  p \in places \/ (p \in {"int", "eret"} /\ g.epc \in places)

Up(g, p, o) == IF p \in FaultPlace THEN {Current(g, o)} ELSE {}
Down(g, p, o) == IF Within(g, p, DropPlace) THEN {Current(g, o)} ELSE {}

EntryContent(tables, up, down, e) ==
  /\ e.pagemask = 0 /\ e.pageshift = PPAGE_SH
  /\ \/ FlushedPair(e.vpn2)
     \/ TableHalves(e.asid, e.vpn2, e.lo)
     \/ UserHalves(tables, up, down, e.asid, e.vpn2, e.lo)

EntriesHold(t, tables, up, down) ==
  \A x \in Entry \ {0} : EntryContent(tables, up, down, t[x])

(* No page of a space is in two entries.                                   *)
Distinct(t) ==
  \A x, y \in Entry \ {0} :
    t[x].vpn2 = t[y].vpn2 /\ t[x].asid = t[y].asid => x = y

Holds(t, x, asid, pair) == t[x].vpn2 = pair /\ t[x].asid = asid
Absent(t, asid, pair) == \A x \in Entry \ {0} : ~ Holds(t, x, asid, pair)
Present(t, x, asid, pair) == x \in Entry \ {0} /\ Holds(t, x, asid, pair)

StackEntry(e) ==
  /\ e.vpn2 = PageOf(STACK) /\ e.pagemask = 3 /\ e.pageshift = PPAGE_SH + 2
  /\ e.global = TRUE
  /\ \A odd \in 0 .. 1 : /\ e.lo[odd].valid = TRUE /\ e.lo[odd].dirty = TRUE
                         /\ e.lo[odd].pfn = StackFrame(odd)

(* The boot has flushed the entries below n, each with a page of its own.  *)
Flushed(t, n) ==
  \A x \in Entry : x < n => /\ t[x].vpn2 = Unique(x)
                            /\ t[x].pagemask = 0 /\ t[x].pageshift = PPAGE_SH

Blank(e) == e = ZeroEntry \/ (e.pagemask = 0 /\ e.pageshift = PPAGE_SH)

BootMap(g, p, t) ==
  p \in BootPlace =>
    /\ \A x \in Entry : Blank(t[x])
    /\ p \in {"boot", "boot_write"} => g.index \in Entry /\ Flushed(t, g.index)
    /\ p \in {"wire", "wire_write"} => Flushed(t, TLB_ENTRY)
    /\ p # "wire_write" => g.pagemask = 0
    /\ p = "boot_write" => g.entryhi.vpn2 = Unique(g.index)
    /\ p = "wire_write" =>
         /\ g.entrylo[0].global = TRUE
         /\ \A odd \in 0 .. 1 :
              /\ g.entrylo[odd].valid = TRUE /\ g.entrylo[odd].dirty = TRUE
              /\ g.entrylo[odd].pfn = StackFrame(odd)

(* What the TLB holds after the boot.                                      *)
EntriesMap(g, p, o, t, tables) ==
  p \notin BootPlace =>
    /\ StackEntry(t[0]) /\ Distinct(t)
    /\ EntriesHold(t, tables, Up(g, p, o), Down(g, p, o))
    /\ Within(g, p, DropPlace) =>
         Mode(tables, g.entryhi.asid, o.vaddr \div PageSize) = "none"

(* What each place of the kernel knows of the registers.                   *)
PlaceMap(g, p, o, e) ==
  /\ e = "user"
  /\ p \notin BootPlace =>
       /\ g.cause.iv = TRUE /\ g.pagemask = 0 /\ o \in Ops[g.entryhi.asid]
       /\ p \in Resume => g.sr.exl = FALSE
       /\ p \in FaultPlace \cup {"refill", "refill_write", "general"} =>
            g.epc = "user"
       /\ Within(g, p, DropPlace \cup {"unmap"}) => o.kind = "unmap"
       /\ p \in {"refill", "unmap_probe", "unmap_read", "unmap_write"}
                  \cup FaultPlace => g.entryhi.vpn2 = PageOf(o.vaddr)
       /\ p = "refill" => g.context = PageOf(o.vaddr)

(* What they know of the entry they are about to write.                    *)
FaultMap(g, o, t, tables) ==
  /\ g.cause.exc \in {"TLBL", "TLBS", "MOD"} /\ g.badvaddr < KSEG0_MIN =>
       /\ g.badvaddr = o.vaddr
       /\ g.cause.exc = "TLBL" =>
            Mode(tables, g.entryhi.asid, o.vaddr \div PageSize) = "none"
  /\ g.cause.exc = "TLBL" /\ g.badvaddr >= PTBASE =>
       /\ g.entryhi.vpn2 = PageOf(PTBASE)
       /\ Absent(t, g.entryhi.asid, PageOf(PTBASE))

WriteMap(g, p, o, t, tables) ==
  LET asid == g.entryhi.asid
      pair == g.entryhi.vpn2
      user == UserHalves(tables, {}, {}, asid, pair, g.entrylo)
  IN /\ p = "refill" => Absent(t, asid, pair)
     /\ p = "general" => FaultMap(g, o, t, tables)
     /\ p = "refill_write" => /\ Absent(t, asid, pair)
                              /\ (TableHalves(asid, pair, g.entrylo) \/ user)
     /\ p \in {"fault_load", "fault_write"} /\ g.index # NoMatch =>
          Present(t, g.index, asid, pair)
     /\ p \in {"unmap_read", "unmap_write"} => Present(t, g.index, asid, pair)
     /\ p \in {"fault_write", "unmap_write"} => user

TablesOK(tables) ==
  /\ DOMAIN tables = ASID
  /\ \A asid \in ASID :
       tables[asid] \in [UserPage[asid] -> {"none", "ro", "rw"}]

EntryTypes(t) ==
  \A x \in Entry : /\ t[x].vpn2 \in Nat /\ t[x].asid \in ASID \cup {0}
                   /\ t[x].lo \in [0 .. 1 -> Lo]

RegTypes(g) ==
  /\ g.index \in Entry \cup {NoMatch}
  /\ g.entrylo \in [0 .. 1 -> Lo]
  /\ g.entryhi.vpn2 \in Nat /\ g.entryhi.asid \in ASID \cup {0}
  /\ g.count = 0 /\ g.compare = 0
  /\ g.sr.im \subseteq 0 .. 7
  /\ DOMAIN g.cause = {"exc", "bd", "iv", "ip"} /\ g.cause.ip \subseteq 0 .. 7

MapInv ==
  /\ WiredInv
  /\ TablesOK(pt) /\ EntryTypes(tlb) /\ RegTypes(r)
  /\ BootMap(r, pc, tlb) /\ EntriesMap(r, pc, op, tlb, pt)
  /\ PlaceMap(r, pc, op, saved) /\ WriteMap(r, pc, op, tlb, pt)

-----------------------------------------------------------------------------
(* The sizes of pages, and where the pages of the kernel are.              *)
LEMMA Shifts ==
  /\ PPAGE_SH \in 0 .. PAGESHIFT_MAX + 1 /\ PPAGE_SH \in Nat /\ PPAGE_SH > 0
  /\ VPAGE_SH \in 0 .. PAGESHIFT_MAX + 1 /\ VPAGE_SH = PPAGE_SH + 1
  /\ 0 \in PageShifts /\ 2 \in PageShifts
BY Cp0Assumption, KernelAssumption DEF VPAGE_SH, PageShifts

LEMMA Sizes ==
  /\ PageSize \in Nat /\ PageSize > 1
  /\ PairSize = 2 * PageSize /\ 2 ^ PPAGE_SH = PageSize
  /\ 2 ^ VPAGE_SH = PairSize /\ 2 ^ (PPAGE_SH + 2) = 4 * PageSize
<1>1. 2 ^ PPAGE_SH = PageSize /\ 2 ^ VPAGE_SH = PairSize
  BY DEF PageSize, PairSize
<1>2. PageSize \in Nat \ {0}
  BY <1>1, Shifts, PowerAssumption
<1>3. 2 ^ (PPAGE_SH + 1) = 2 * PageSize
  BY <1>1, Shifts, PowerAssumption
<1>4. 2 ^ (VPAGE_SH + 1) = 2 * PairSize
  BY <1>1, Shifts, PowerAssumption
<1>5. VPAGE_SH + 1 = PPAGE_SH + 2
  BY Shifts
<1>6. PageSize > 1
  <2>1. PICK k : k = PPAGE_SH - 1
    OBVIOUS
  <2>2. k \in 0 .. PAGESHIFT_MAX + 1 /\ k + 1 = PPAGE_SH
    BY <2>1, Cp0Assumption, KernelAssumption
  <2>3. 2 ^ (k + 1) = 2 * 2 ^ k /\ 2 ^ k \in Nat \ {0}
    BY <2>2, PowerAssumption
  <2> QED
    BY <1>1, <1>2, <2>2, <2>3
<1> QED
  BY <1>1, <1>2, <1>3, <1>4, <1>5, <1>6, Shifts

(* 1 and 4 are powers of two once.                                         *)
LEMMA OnePower ==
  ASSUME NEW i \in PageShifts
  PROVE  /\ 0 = 2 ^ i - 1 => i = 0
         /\ 3 = 2 ^ i - 1 => i = 2
<1>1. i \in Nat /\ i <= PAGESHIFT_MAX
  BY Cp0Assumption DEF PageShifts
<1>2. 2 ^ 0 = 1 /\ 2 ^ 1 = 2 /\ 2 ^ 2 = 4
  OBVIOUS
<1>3. CASE i > 2
  <2>1. PICK k : k = i - 3
    OBVIOUS
  <2>2. /\ k \in 0 .. PAGESHIFT_MAX + 1 /\ k + 1 \in 0 .. PAGESHIFT_MAX + 1
        /\ k + 2 \in 0 .. PAGESHIFT_MAX + 1
        /\ (k + 1) + 1 = k + 2 /\ (k + 2) + 1 = i
    BY <1>1, <1>3, <2>1, Cp0Assumption
  <2>3. 2 ^ k \in Nat \ {0} /\ 2 ^ (k + 1) = 2 * 2 ^ k
    BY <2>2, PowerAssumption
  <2>4. 2 ^ (k + 1) \in Nat /\ 2 ^ (k + 2) = 2 * 2 ^ (k + 1)
    BY <2>2, PowerAssumption
  <2>5. 2 ^ (k + 2) \in Nat /\ 2 ^ i = 2 * 2 ^ (k + 2)
    BY <2>2, PowerAssumption
  <2>6. 2 ^ i >= 8
    BY <2>3, <2>4, <2>5
  <2> QED
    BY <2>5, <2>6
<1>4. i = 0 => 2 ^ i = 1
  BY <1>2, Zenon
<1>5. i = 1 => 2 ^ i = 2
  BY <1>2, Zenon
<1>6. i = 2 => 2 ^ i = 4
  BY <1>2, Zenon
<1> QED
  BY <1>1, <1>3, <1>4, <1>5, <1>6

(* Quotients, by a variable.                                               *)
LEMMA Quotient ==
  ASSUME NEW b \in Nat \ {0}, NEW v \in Nat
  PROVE  /\ v \div b \in Nat
         /\ \A k \in Nat : k * b <= v /\ v < k * b + b => v \div b = k
         /\ \A k \in Nat : (v < k * b => v \div b < k)
         /\ \A k \in Nat : (k * b <= v => k <= v \div b)
         /\ (v \div b) * b <= v /\ v < (v \div b) * b + b
<1>1. PICK q : q = v \div b
  OBVIOUS
<1>2. q \in Nat /\ v = q * b + (v % b) /\ v % b \in 0 .. b - 1
  BY <1>1
<1>3. q * b <= v /\ v < q * b + b
  BY <1>2
<1>4. \A k \in Nat : k < q => k * b + b <= q * b
  <2> SUFFICES ASSUME NEW k \in Nat, k < q PROVE k * b + b <= q * b
    OBVIOUS
  <2>1. PICK d \in Nat : q = k + 1 + d
    BY <1>2
  <2>2. q * b = k * b + b + d * b /\ d * b \in Nat
    BY <2>1
  <2> QED
    BY <2>2
<1>5. \A k \in Nat : k > q => k * b >= q * b + b
  <2> SUFFICES ASSUME NEW k \in Nat, k > q PROVE k * b >= q * b + b
    OBVIOUS
  <2>1. PICK d \in Nat : k = q + 1 + d
    BY <1>2
  <2>2. k * b = q * b + b + d * b /\ d * b \in Nat
    BY <1>2, <2>1
  <2> QED
    BY <1>2, <2>2
<1>6. q * b \in Nat /\ \A k \in Nat : k * b \in Nat
  BY <1>2
<1>7. \A k \in Nat : k * b <= v /\ v < k * b + b => q = k
  BY <1>2, <1>3, <1>4, <1>5, <1>6
<1>8. \A k \in Nat : v < k * b => q < k
  <2> SUFFICES ASSUME NEW k \in Nat, v < k * b, ~ (q < k) PROVE FALSE
    BY <1>2
  <2>1. k * b <= q * b
    BY <1>2, <1>4, <1>6
  <2> QED
    BY <1>3, <1>6, <2>1
<1>9. \A k \in Nat : k * b <= v => k <= q
  <2> SUFFICES ASSUME NEW k \in Nat, k * b <= v, ~ (k <= q) PROVE FALSE
    OBVIOUS
  <2>1. k * b >= q * b + b
    BY <1>2, <1>5
  <2> QED
    BY <1>3, <1>6, <2>1
<1> QED
  BY <1>1, <1>2, <1>3, <1>7, <1>8, <1>9

(* The pairs: those of the programs are below those of the entries that    *)
(* are flushed, then come the block of four of the stack and the tables.   *)
LEMMA Pairs ==
  \E m \in Nat \ {0} :
    /\ STACK = (8 * m) * PageSize /\ PageOf(STACK) = 4 * m
    /\ PTBASE = (8 * m + 8) * PageSize /\ PageOf(PTBASE) = 4 * m + 4
    /\ KernelPair \in Nat /\ KSEG0_MIN = KernelPair * PairSize
    /\ KernelPair + TLB_ENTRY <= 4 * m
    /\ \A x : Unique(x) = KernelPair + x
<1>1. PICK q \in Nat \ {0} : q = PairSize
  BY KernelFacts
<1>2. \A w \in Nat, b \in Nat \ {0} :
        w = b * (w \div b) + (w % b) /\ w \div b \in Nat
  OBVIOUS
<1>3. PICK k \in Nat : k = KSEG0_MIN \div q /\ KSEG0_MIN = k * q
  <2>1. KSEG0_MIN % q = 0
    BY <1>1, Sizes, KernelAssumption
  <2>2. KSEG0_MIN \in Nat
    BY KernelFacts
  <2>3. PICK n \in Nat : n = KSEG0_MIN \div q
    BY <1>2, <2>2
  <2>4. KSEG0_MIN = q * n
    BY <1>2, <2>1, <2>2, <2>3
  <2>5. q * n = n * q
    OBVIOUS
  <2> QED
    BY <2>3, <2>4, <2>5
<1>4. PICK m \in Nat : KSEG2_MIN = (4 * q) * m
  <2>1. KSEG2_MIN % (4 * q) = 0
    BY <1>1, Sizes, KernelAssumption
  <2>2. 4 * q \in Nat \ {0}
    OBVIOUS
  <2>3. KSEG2_MIN \in Nat
    BY KernelFacts
  <2> QED
    BY <1>2, <2>1, <2>2, <2>3
<1>5. k * q + TLB_ENTRY * q <= (4 * m) * q
  <2>1. KSEG0_MIN + TLB_ENTRY * q <= KSEG2_MIN
    BY <1>1, Sizes, KernelAssumption
  <2> QED
    BY <1>3, <1>4, <2>1, KernelFacts
<1>6. k + TLB_ENTRY <= 4 * m
  <2>1. PICK a \in Nat : a = k + TLB_ENTRY
    BY KernelFacts
  <2>2. PICK b \in Nat : b = 4 * m
    OBVIOUS
  <2>3. a * q <= b * q
    <3>1. a * q = k * q + TLB_ENTRY * q
      BY <2>1, KernelFacts
    <3> QED
      BY <1>5, <2>2, <3>1
  <2>4. b < a => b * q + q <= a * q
    <3> SUFFICES ASSUME b < a PROVE b * q + q <= a * q
      OBVIOUS
    <3>1. PICK d \in Nat : a = b + 1 + d
      OBVIOUS
    <3>2. a * q = b * q + q + d * q /\ d * q \in Nat
      BY <3>1
    <3> QED
      BY <3>2
  <2>5. b * q \in Nat
    OBVIOUS
  <2> QED
    BY <2>1, <2>2, <2>3, <2>4, <2>5
<1>7. m # 0
  BY <1>6, KernelFacts
<1>8. STACK = (4 * m) * q /\ PTBASE = (4 * m + 4) * q
  BY <1>1, <1>4, Sizes DEF STACK, PTBASE, StackPair
<1>9. STACK \div q = 4 * m /\ PTBASE \div q = 4 * m + 4
  <2>1. \A j \in Nat : (j * q) \div q = j
    BY Quotient
  <2> QED
    BY <1>8, <2>1
<1>10. STACK = (8 * m) * PageSize /\ PTBASE = (8 * m + 8) * PageSize
  BY <1>1, <1>8, Sizes
<1> QED
  BY <1>1, <1>3, <1>6, <1>7, <1>9, <1>10 DEF PageOf, KernelPair, Unique

(* A page, its pair and its half.                                          *)
LEMMA Halves ==
  ASSUME NEW v \in Nat
  PROVE  /\ v \div PageSize \in Nat /\ PageOf(v) \in Nat
         /\ (v \div PageSize) % 2 \in 0 .. 1
         /\ v \div PageSize = 2 * PageOf(v) + ((v \div PageSize) % 2)
<1>1. PICK b \in Nat \ {0} : b = PageSize
  BY Sizes
<1>2. PICK n : n = v \div b
  OBVIOUS
<1>3. n \in Nat /\ n * b <= v /\ v < n * b + b
  BY <1>2, Quotient
<1>4. PICK k : k = n \div 2
  OBVIOUS
<1>5. k \in Nat /\ n = 2 * k + (n % 2) /\ n % 2 \in 0 .. 1
  BY <1>3, <1>4
<1>6. k * (2 * b) <= v /\ v < k * (2 * b) + 2 * b
  <2>1. PICK o \in 0 .. 1 : n = 2 * k + o
    BY <1>5
  <2>2. n * b = k * (2 * b) + o * b
    BY <1>5, <2>1
  <2>3. o * b \in {0, b} /\ k * (2 * b) \in Nat
    BY <1>5, <2>1
  <2> QED
    BY <1>3, <2>2, <2>3
<1>7. v \div (2 * b) = k
  <2>1. 2 * b \in Nat \ {0}
    OBVIOUS
  <2> QED
    BY <1>5, <1>6, <2>1, Quotient
<1>8. PageOf(v) = k
  BY <1>1, <1>7, Sizes DEF PageOf
<1>9. v \div PageSize = n
  BY <1>1, <1>2
<1>10. v \div PageSize \in Nat
  BY <1>3, <1>9
<1>11. PageOf(v) \in Nat
  BY <1>5, <1>8
<1>12. PICK h \in 0 .. 1 : h = n % 2 /\ n = 2 * k + h
  BY <1>5
<1>13. (v \div PageSize) % 2 = h
  BY <1>9, <1>12
<1>14. v \div PageSize = 2 * PageOf(v) + h
  BY <1>8, <1>9, <1>12
<1>15. (v \div PageSize) % 2 \in 0 .. 1
  BY <1>13
<1>16. v \div PageSize = 2 * PageOf(v) + ((v \div PageSize) % 2)
  BY <1>13, <1>14
<1> QED
  BY <1>10, <1>11, <1>15, <1>16

(* The addresses of programs are in their pairs.                           *)
LEMMA UserPairs ==
  ASSUME NEW v \in UserAddress
  PROVE  UserPair(PageOf(v))
<1>1. PICK q \in Nat \ {0} : q = PairSize
  BY KernelFacts
<1>2. v \in Nat /\ v < KernelPair * q /\ KernelPair \in Nat
  BY <1>1, Pairs, KernelFacts DEF UserAddress
<1>3. v \div q < KernelPair /\ v \div q \in Nat
  BY <1>2, Quotient
<1> QED
  BY <1>1, <1>3 DEF UserPair, PageOf

-----------------------------------------------------------------------------
(***************************************************************************)
(* gettlbentry: it returns an entry that matches, or no entry does; and    *)
(* what it is for an entry of this kernel to match.                        *)
(***************************************************************************)
LEMMA FirstMatch ==
  ASSUME NEW t, NEW g, NEW page, NEW x, x = GetTlbEntry(t, g, page)
  PROVE  \/ x = NoMatch /\ \A y \in Entry : ~ Matches(t, g, y, page)
         \/ x # NoMatch /\ x \in Entry /\ Matches(t, g, x, page)
<1>1. PICK found : found = {y \in Entry : Matches(t, g, y, page)}
  OBVIOUS
<1>2. x = IF found = {} THEN NoMatch
          ELSE CHOOSE y \in found : \A z \in found : y <= z
  BY <1>1 DEF GetTlbEntry
<1>3. CASE found = {}
  BY <1>1, <1>2, <1>3
<1>4. CASE found # {}
  <2>1. \E y \in found : \A z \in found : y <= z
    <3>1. found \subseteq Nat
      BY <1>1, KernelFacts DEF Entry
    <3>2. PICK y \in found : \A z \in found : ~ <<z, y>> \in OpToRel(<, Nat)
      BY <1>4, <3>1, NatLessThanWellFounded, WFMin
    <3>3. \A z \in found : ~ <<z, y>> \in {ss \in Nat \X Nat : ss[1] < ss[2]}
      BY <3>2, Zenon DEF OpToRel
    <3>4. \A z \in found : ~ (z < y)
      BY <3>1, <3>3
    <3>5. \A z \in found : y <= z
      BY <3>1, <3>4
    <3> QED
      BY <3>5
  <2>2. x \in found
    BY <1>2, <1>4, <2>1
  <2>3. x \in Entry /\ Matches(t, g, x, page)
    BY <1>1, <2>2
  <2>4. x # NoMatch
    BY <2>3, KernelFacts DEF Entry, NoMatch
  <2> QED
    BY <2>3, <2>4
<1> QED
  BY <1>3, <1>4

(* An entry as the handlers write it.                                      *)
Small(e) == e.pagemask = 0 /\ e.global = FALSE /\ e.vpn2 \in Nat

LEMMA SmallMatches ==
  ASSUME NEW t, NEW g, NEW x, Small(t[x]), NEW page \in Nat
  PROVE  Matches(t, g, x, page) <=> Holds(t, x, g.entryhi.asid, page)
<1>1. t[x].pagemask + 1 = 1
  BY DEF Small
<1>2. t[x].vpn2 \div 1 = t[x].vpn2 /\ page \div 1 = page
  BY DEF Small
<1> QED
  BY <1>1, <1>2 DEF Matches, Holds, Small

LEMMA StackMatches ==
  ASSUME NEW t, NEW g, StackEntry(t[0]), NEW page \in Nat,
         NEW m \in Nat, PageOf(STACK) = 4 * m
  PROVE  Matches(t, g, 0, page) <=> page \in 4 * m .. 4 * m + 3
<1>1. t[0].pagemask + 1 = 4 /\ t[0].vpn2 = 4 * m /\ t[0].global = TRUE
  BY DEF StackEntry
<1>2. (4 * m) \div 4 = m
  OBVIOUS
<1>3. page \div 4 = m <=> page \in 4 * m .. 4 * m + 3
  OBVIOUS
<1> QED
  BY <1>1, <1>2, <1>3 DEF Matches

(* The entries after the boot.                                             *)
Mapped1(t) ==
  /\ StackEntry(t[0]) /\ Distinct(t)
  /\ \A x \in Entry \ {0} : Small(t[x])

(* A page that is not the stack's is in the entry that holds it, if any.   *)
LEMMA LookupPage ==
  ASSUME NEW t, Mapped1(t), NEW g,
         NEW page \in Nat, page \notin PageOf(STACK) .. PageOf(STACK) + 3,
         NEW x, x = GetTlbEntry(t, g, page)
  PROVE  \/ x = NoMatch /\ Absent(t, g.entryhi.asid, page)
         \/ x # NoMatch /\ Present(t, x, g.entryhi.asid, page)
<1>1. PICK m \in Nat : PageOf(STACK) = 4 * m
  BY Pairs
<1>2. ~ Matches(t, g, 0, page)
  BY <1>1, StackMatches DEF Mapped1
<1>3. \A y \in Entry \ {0} :
        Matches(t, g, y, page) <=> Holds(t, y, g.entryhi.asid, page)
  BY SmallMatches DEF Mapped1
<1>4. CASE x = NoMatch
  <2>1. \A y \in Entry : ~ Matches(t, g, y, page)
    BY <1>4, FirstMatch
  <2> QED
    BY <1>3, <1>4, <2>1 DEF Absent
<1>5. CASE x # NoMatch
  <2>1. x \in Entry /\ Matches(t, g, x, page)
    BY <1>5, FirstMatch
  <2>2. x # 0
    BY <1>2, <2>1
  <2> QED
    BY <1>3, <1>5, <2>1, <2>2 DEF Present
<1> QED
  BY <1>4, <1>5

(* Two entries that hold the same page are one.                            *)
LEMMA PresentOnce ==
  ASSUME NEW t, Distinct(t), NEW asid, NEW pair,
         NEW x, NEW y, Present(t, x, asid, pair), Present(t, y, asid, pair)
  PROVE  x = y
BY DEF Distinct, Present, Holds

(* What the invariant says of the entries after the boot.                  *)
LEMMA MapEntries ==
  ASSUME MapInv, pc \notin BootPlace
  PROVE  /\ Mapped1(tlb) /\ EntriesHold(tlb, pt, Up(r, pc, op), Down(r, pc, op))
         /\ Distinct(tlb) /\ StackEntry(tlb[0]) /\ DOMAIN tlb = Entry
<1>1. /\ StackEntry(tlb[0]) /\ Distinct(tlb)
      /\ EntriesHold(tlb, pt, Up(r, pc, op), Down(r, pc, op))
  BY DEF MapInv, EntriesMap
<1>2. EntriesOK /\ EntryTypes(tlb)
  BY DEF MapInv, WiredInv
<1>3. \A x \in Entry \ {0} : Small(tlb[x])
  BY <1>1, <1>2 DEF Small, EntriesHold, EntryContent, EntriesOK, EntryTypes
<1> QED
  BY <1>1, <1>2, <1>3 DEF Mapped1, EntriesOK

-----------------------------------------------------------------------------
(***************************************************************************)
(* getphaddr: what an entry of the smallest pages translates, and what an  *)
(* access to a page of a program or to the page table finds.               *)
(***************************************************************************)
HalfOf(e, v) == e.lo[(v \div PageSize) % 2]

Translated(lo, v, store) ==
  IF ~ lo.valid THEN Fault(IF store THEN "TLBS" ELSE "TLBL", FALSE)
  ELSE IF store /\ ~ lo.dirty THEN Fault("MOD", FALSE)
  ELSE Found(lo.pfn * PageSize + (v % PageSize))

LEMMA MappedSmall ==
  ASSUME NEW e, e.pagemask = 0, e.pageshift = PPAGE_SH,
         NEW v \in Nat, NEW store, HalfOf(e, v).pfn \in Nat
  PROVE  Mapped(e, v, store) = Translated(HalfOf(e, v), v, store)
<1>1. PICK b \in Nat \ {0} : b = PageSize
  BY Sizes
<1>2. 2 ^ e.pageshift = b /\ 2 ^ PPAGE_SH = b
  BY <1>1, Sizes
<1>3. (e.pagemask + 1) * 2 ^ PPAGE_SH = b
  BY <1>2
<1>4. PICK lo : lo = HalfOf(e, v)
  OBVIOUS
<1>5. e.lo[(v \div 2 ^ e.pageshift) % 2] = lo
  BY <1>1, <1>2, <1>4 DEF HalfOf
<1>6. PICK n \in Nat : n = lo.pfn
  BY <1>4
<1>7. (n * b) \div b = n
  BY Quotient
<1>8. ((lo.pfn * 2 ^ PPAGE_SH) \div b) * b + (v % b) = n * b + (v % b)
  BY <1>2, <1>6, <1>7
<1> QED
  BY <1>1, <1>3, <1>4, <1>5, <1>6, <1>8 DEF Mapped, Translated

(* An access where the TLB is asked.                                       *)
InTlb(g, v) == v < KSEG0_MIN \/ (v >= KSEG2_MIN /\ KernelMode(g))

Answer(t, v, store, x) ==
  IF x = NoMatch THEN Fault(IF store THEN "TLBS" ELSE "TLBL", TRUE)
                 ELSE Mapped(t[x], v, store)

LEMMA Asked ==
  ASSUME NEW t, NEW g, NEW v \in Nat, NEW store, InTlb(g, v),
         NEW x, x = GetTlbEntry(t, g, PageOf(v))
  PROVE  GetPhaddr(t, g, v, store) = Answer(t, v, store, x)
<1>1. x = GetTlbEntry(t, g, v \div 2 ^ VPAGE_SH)
  BY Sizes DEF PageOf
<1>2. ~ (v >= KSEG0_MIN /\ ~ KernelMode(g))
  BY KernelFacts DEF InTlb
<1>3. ~ (KSEG0_MIN <= v /\ v < KSEG2_MIN)
  BY KernelFacts DEF InTlb
<1> QED
  BY <1>1, <1>2, <1>3 DEF GetPhaddr, Answer

(* An access to a page that is not the stack's: it misses, or it is made   *)
(* through the half of the entry that holds the page.                      *)
Accessed(t, g, v, store, a) ==
  \/ /\ Absent(t, g.entryhi.asid, PageOf(v))
     /\ a = Fault(IF store THEN "TLBS" ELSE "TLBL", TRUE)
  \/ \E x : /\ Present(t, x, g.entryhi.asid, PageOf(v))
            /\ a = Translated(HalfOf(t[x], v), v, store)

StackPages == PageOf(STACK) .. PageOf(STACK) + 3

LEMMA PageAccess ==
  ASSUME MapInv, pc \notin BootPlace,
         NEW g, NEW v \in Nat, NEW store, InTlb(g, v),
         PageOf(v) \notin StackPages,
         NEW a, a = GetPhaddr(tlb, g, v, store)
  PROVE  Accessed(tlb, g, v, store, a)
<1>1. PICK x : x = GetTlbEntry(tlb, g, PageOf(v))
  OBVIOUS
<1>2. a = Answer(tlb, v, store, x)
  BY <1>1, Asked
<1>3. \/ x = NoMatch /\ Absent(tlb, g.entryhi.asid, PageOf(v))
      \/ x # NoMatch /\ Present(tlb, x, g.entryhi.asid, PageOf(v))
  BY <1>1, MapEntries, Halves, LookupPage DEF StackPages
<1>4. ASSUME x # NoMatch, Present(tlb, x, g.entryhi.asid, PageOf(v))
      PROVE  a = Translated(HalfOf(tlb[x], v), v, store)
  <2>1. x \in Entry \ {0}
    BY <1>4 DEF Present
  <2>2. tlb[x].pagemask = 0 /\ tlb[x].pageshift = PPAGE_SH
    BY <2>1, MapEntries DEF EntriesHold, EntryContent
  <2>3. HalfOf(tlb[x], v) \in Lo
    <3>1. tlb[x].lo \in [0 .. 1 -> Lo]
      BY <2>1 DEF MapInv, EntryTypes
    <3>2. (v \div PageSize) % 2 \in 0 .. 1
      BY Halves
    <3> QED
      BY <3>1, <3>2 DEF HalfOf
  <2>4. HalfOf(tlb[x], v).pfn \in Nat
    BY <2>3 DEF Lo
  <2> QED
    BY <1>2, <1>4, <2>2, <2>4, MappedSmall DEF Answer
<1> QED
  BY <1>2, <1>3, <1>4 DEF Answer, Accessed

(* An entry that holds a page of a program.                                *)
LEMMA UserEntry ==
  ASSUME MapInv, pc \notin BootPlace, NEW v \in UserAddress,
         NEW asid, NEW x, Present(tlb, x, asid, PageOf(v))
  PROVE  /\ UserHalves(pt, Up(r, pc, op), Down(r, pc, op), asid, PageOf(v),
                       tlb[x].lo)
         /\ tlb[x].lo \in [0 .. 1 -> Lo] /\ tlb[x].pagemask = 0
<1>1. x \in Entry \ {0} /\ tlb[x].vpn2 = PageOf(v) /\ tlb[x].asid = asid
  BY DEF Present, Holds
<1>2. EntryContent(pt, Up(r, pc, op), Down(r, pc, op), tlb[x])
  BY <1>1, MapEntries DEF EntriesHold
<1>3. PageOf(v) \in Nat /\ PageOf(v) < KernelPair
  BY UserPairs DEF UserPair
<1>4. ~ FlushedPair(tlb[x].vpn2)
  BY <1>1, <1>3, Pairs DEF FlushedPair
<1>5. PageOf(PTBASE) # PageOf(v)
  BY <1>3, Pairs, KernelFacts
<1>6. UserHalves(pt, Up(r, pc, op), Down(r, pc, op), asid, PageOf(v),
                 tlb[x].lo)
  BY <1>1, <1>2, <1>4, <1>5 DEF EntryContent, TableHalves
<1> QED
  BY <1>1, <1>2, <1>6 DEF EntryContent, MapInv, EntryTypes

(* The half of a page of a program.                                        *)
LEMMA UserHalf ==
  ASSUME MapInv, pc \notin BootPlace, NEW v \in UserAddress,
         NEW asid, NEW x, Present(tlb, x, asid, PageOf(v))
  PROVE  /\ HalfOf(tlb[x], v) \in Lo
         /\ HalfOK(pt, Up(r, pc, op), Down(r, pc, op), asid,
                   v \div PageSize, HalfOf(tlb[x], v))
<1>1. v \in Nat
  BY KernelFacts DEF UserAddress
<1>2. PICK odd \in 0 .. 1 : odd = (v \div PageSize) % 2
  BY <1>1, Halves
<1>3. v \div PageSize = 2 * PageOf(v) + odd
  BY <1>1, <1>2, Halves
<1>4. /\ UserHalves(pt, Up(r, pc, op), Down(r, pc, op), asid, PageOf(v),
                    tlb[x].lo)
      /\ tlb[x].lo[odd] \in Lo
  BY UserEntry
<1>5. HalfOK(pt, Up(r, pc, op), Down(r, pc, op), asid, v \div PageSize,
              tlb[x].lo[odd])
  BY <1>3, <1>4 DEF UserHalves
<1> QED
  BY <1>2, <1>4, <1>5 DEF HalfOf

(* The page table of the current space.                                    *)
LEMMA TableHalf ==
  ASSUME MapInv, pc \notin BootPlace, NEW v \in Nat,
         v >= PTBASE, v < PTBASE + PageSize,
         NEW asid, NEW x, Present(tlb, x, asid, PageOf(PTBASE))
  PROVE  /\ asid \in ASID /\ HalfOf(tlb[x], v).valid = TRUE
         /\ HalfOf(tlb[x], v).pfn = TableFrame(asid)
<1>1. x \in Entry \ {0} /\ tlb[x].vpn2 = PageOf(PTBASE) /\ tlb[x].asid = asid
  BY DEF Present, Holds
<1>2. EntryContent(pt, Up(r, pc, op), Down(r, pc, op), tlb[x])
  BY <1>1, MapEntries DEF EntriesHold
<1>3. /\ ~ FlushedPair(PageOf(PTBASE)) /\ ~ UserPair(PageOf(PTBASE))
  BY Pairs, KernelFacts DEF FlushedPair, UserPair
<1>4. TableHalves(asid, PageOf(PTBASE), tlb[x].lo)
  BY <1>1, <1>2, <1>3 DEF EntryContent, UserHalves
<1>5. tlb[x].lo[0] \in Lo
  BY <1>1 DEF MapInv, EntryTypes
<1>6. (v \div PageSize) % 2 = 0
  <2>1. PICK b \in Nat \ {0} : b = PageSize
    BY Sizes
  <2>2. PICK m \in Nat : PTBASE = (8 * m + 8) * b
    BY <2>1, Pairs
  <2>3. PICK k \in Nat : k = 8 * m + 8
    OBVIOUS
  <2>4. v \div b = k
    <3>1. k * b <= v /\ v < k * b + b
      BY <2>1, <2>2, <2>3
    <3> QED
      BY <3>1, Quotient
  <2>5. k % 2 = 0
    BY <2>3
  <2> QED
    BY <2>1, <2>4, <2>5
<1> QED
  BY <1>4, <1>5, <1>6 DEF HalfOf, TableHalves, Lo

-----------------------------------------------------------------------------
(***************************************************************************)
(* What the invariant says of an access: Coherent, part by part.           *)
(***************************************************************************)
(* A quotient and its remainder.                                           *)
LEMMA Remainder ==
  ASSUME NEW b \in Nat \ {0}, NEW k \in Nat, NEW o \in 0 .. b - 1
  PROVE  (k * b + o) \div b = k /\ (k * b + o) % b = o
<1>1. PICK v \in Nat : v = k * b + o
  OBVIOUS
<1>2. v \div b = k
  <2>1. k * b <= v /\ v < k * b + b
    BY <1>1
  <2> QED
    BY <2>1, Quotient
<1>3. v = (v \div b) * b + (v % b)
  OBVIOUS
<1>4. v = k * b + (v % b) /\ v % b \in 0 .. b - 1
  BY <1>2, <1>3
<1>5. k * b \in Nat
  OBVIOUS
<1>6. v % b = o
  BY <1>1, <1>4, <1>5
<1> QED
  BY <1>1, <1>2, <1>6

LEMMA MappedStack ==
  ASSUME NEW e, StackEntry(e), NEW o \in 0 .. 8 * PageSize - 1
  PROVE  Mapped(e, STACK + o, TRUE) = Found(8 * PageSize + o)
<1>1. PICK b \in Nat \ {0} : b = PageSize
  BY Sizes
<1>2. PICK m \in Nat : STACK = (8 * m) * b
  BY <1>1, Pairs
<1>3. PICK q \in Nat \ {0} : q = 4 * b
  OBVIOUS
<1>4. PICK v \in Nat : v = STACK + o
  BY <1>1, <1>2
<1>5. 2 ^ e.pageshift = q
  BY <1>1, <1>3, Sizes DEF StackEntry
<1>6. (e.pagemask + 1) * 2 ^ PPAGE_SH = q /\ 2 ^ PPAGE_SH = b
  BY <1>1, <1>3, Sizes DEF StackEntry
<1>7. PICK odd \in 0 .. 1, w \in 0 .. q - 1 : o = odd * q + w
  <2>1. CASE o < q
    BY <1>1, <1>3, <2>1
  <2>2. CASE ~ (o < q)
    <3>1. o - q \in 0 .. q - 1
      BY <1>1, <1>3, <2>2
    <3>2. o = 1 * q + (o - q)
      BY <1>1, <1>3
    <3> QED
      BY <3>1, <3>2
  <2> QED
    BY <2>1, <2>2
<1>8. PICK k \in Nat : k = 2 * m + odd
  OBVIOUS
<1>9. v = k * q + w
  <2>1. STACK = (2 * m) * q
    BY <1>2, <1>3
  <2>2. k * q = (2 * m) * q + odd * q
    BY <1>8
  <2>3. (2 * m) * q \in Nat /\ odd * q \in Nat /\ w \in Int
    OBVIOUS
  <2> QED
    BY <1>4, <1>7, <2>1, <2>2, <2>3
<1>10. v \div q = k /\ v % q = w
  BY <1>9, Remainder
<1>11. k % 2 = odd
  BY <1>8
<1>12. PICK n \in Nat : n = StackFrame(odd) /\ n = 9 + 4 * odd
  BY DEF StackFrame
<1>13. (n * b) \div q = 2 + odd
  <2>1. CASE odd = 0
    <3>1. n * b = 2 * q + b /\ b \in 0 .. q - 1
      BY <1>3, <1>12, <2>1
    <3>2. (2 * q + b) \div q = 2
      BY <3>1, Remainder
    <3> QED
      BY <2>1, <3>1, <3>2
  <2>2. CASE odd = 1
    <3>1. n * b = 3 * q + b /\ b \in 0 .. q - 1
      BY <1>3, <1>12, <2>2
    <3>2. (3 * q + b) \div q = 3
      BY <3>1, Remainder
    <3> QED
      BY <2>2, <3>1, <3>2
  <2> QED
    BY <2>1, <2>2
<1>14. (2 + odd) * q + w = 8 * b + o
  <2>1. (2 + odd) * q = 2 * q + odd * q
    OBVIOUS
  <2> QED
    BY <1>3, <1>7, <2>1
<1>15. PICK lo : lo = e.lo[(v \div 2 ^ e.pageshift) % 2]
  OBVIOUS
<1>16. lo.valid = TRUE /\ lo.dirty = TRUE /\ lo.pfn = n
  <2>1. lo = e.lo[odd]
    BY <1>5, <1>10, <1>11, <1>15
  <2> QED
    BY <1>12, <2>1 DEF StackEntry
<1>17. ((lo.pfn * 2 ^ PPAGE_SH) \div q) * q + (v % q) = 8 * b + o
  BY <1>6, <1>10, <1>13, <1>14, <1>16
<1>18. Mapped(e, v, TRUE) = Found(8 * b + o)
  BY <1>6, <1>15, <1>16, <1>17 DEF Mapped
<1> QED
  BY <1>1, <1>4, <1>18

(* The entry of the stack, and only it, has the stack's pages.             *)
LEMMA StackLookup ==
  ASSUME MapInv, pc \notin BootPlace, NEW g,
         NEW page \in PageOf(STACK) .. PageOf(STACK) + 3,
         NEW x \in Entry
  PROVE  Matches(tlb, g, x, page) <=> x = 0
<1>1. PICK m \in Nat : PageOf(STACK) = 4 * m
  BY Pairs
<1>2. page \in Nat /\ page \in 4 * m .. 4 * m + 3
  BY <1>1
<1>3. Matches(tlb, g, 0, page)
  BY <1>1, <1>2, MapEntries, StackMatches
<1>4. ASSUME x # 0 PROVE ~ Matches(tlb, g, x, page)
  <2>1. x \in Entry \ {0}
    BY <1>4
  <2>2. /\ Small(tlb[x])
        /\ EntryContent(pt, Up(r, pc, op), Down(r, pc, op), tlb[x])
    BY <2>1, MapEntries DEF EntriesHold, Mapped1
  <2>3. PICK p \in Nat : p = tlb[x].vpn2
    BY <2>2 DEF Small
  <2>4. p < PageOf(STACK) \/ p = PageOf(PTBASE)
    BY <2>2, <2>3, Pairs, KernelFacts
       DEF EntryContent, FlushedPair, TableHalves, UserHalves, UserPair
  <2>5. p # page
    BY <2>4, Pairs
  <2>6. ~ Holds(tlb, x, g.entryhi.asid, page)
    BY <2>3, <2>5 DEF Holds
  <2> QED
    BY <1>2, <2>2, <2>6, SmallMatches
<1> QED
  BY <1>3, <1>4

LEMMA StackAccess ==
  ASSUME MapInv, pc \notin BootPlace, NEW o \in 0 .. 8 * PageSize - 1,
         NEW g, g = [r EXCEPT !.sr.exl = TRUE]
  PROVE  GetPhaddr(tlb, g, STACK + o, TRUE) = Found(8 * PageSize + o)
<1>1. PICK v : v = STACK + o
  OBVIOUS
<1>2. v \in Nat /\ v >= KSEG2_MIN
  BY <1>1, Sizes, KernelFacts
<1>3. InTlb(g, v)
  <2>1. g.sr.exl = TRUE
    BY DEF MapInv, WiredInv, Shape, RegNames
  <2> QED
    BY <1>2, <2>1 DEF InTlb, KernelMode
<1>4. PageOf(v) \in PageOf(STACK) .. PageOf(STACK) + 3
  <2>1. PICK b \in Nat \ {0} : b = PageSize
    BY Sizes
  <2>2. PICK m \in Nat : STACK = (8 * m) * b /\ PageOf(STACK) = 4 * m
    BY <2>1, Pairs
  <2>3. PICK q \in Nat \ {0} : q = 2 * b /\ q = PairSize
    BY <2>1, Sizes
  <2>4. PICK k \in Nat : k = 4 * m
    OBVIOUS
  <2>5. PICK n \in Nat : n = k + 4
    OBVIOUS
  <2>6. k * q <= v /\ v < n * q
    <3>1. k * q = (8 * m) * b /\ n * q = k * q + 8 * b
      BY <2>3, <2>4, <2>5
    <3>2. k * q \in Nat
      OBVIOUS
    <3> QED
      BY <1>1, <2>1, <2>2, <3>1, <3>2
  <2>7. k <= v \div q /\ v \div q < n /\ v \div q \in Nat
    BY <1>2, <2>6, Quotient
  <2> QED
    BY <2>2, <2>3, <2>4, <2>5, <2>7 DEF PageOf
<1>5. PICK x : x = GetTlbEntry(tlb, g, PageOf(v))
  OBVIOUS
<1>6. x = 0 /\ x # NoMatch
  <2>1. \A y \in Entry : Matches(tlb, g, y, PageOf(v)) <=> y = 0
    BY <1>4, StackLookup
  <2> QED
    BY <1>5, <2>1, FirstMatch, KernelFacts
<1>7. GetPhaddr(tlb, g, v, TRUE) = Answer(tlb, v, TRUE, x)
  <2>1. PICK store : store = TRUE
    OBVIOUS
  <2>2. GetPhaddr(tlb, g, v, store) = Answer(tlb, v, store, x)
    BY <1>2, <1>3, <1>5, Asked
  <2> QED
    BY <2>1, <2>2
<1>8. Mapped(tlb[0], v, TRUE) = Found(8 * PageSize + o)
  BY <1>1, MapEntries, MappedStack
<1> QED
  BY <1>1, <1>6, <1>7, <1>8 DEF Answer

LEMMA TableAccess ==
  ASSUME MapInv, pc \notin BootPlace, NEW g, KernelMode(g),
         NEW o \in 0 .. PageSize - 1,
         NEW a, a = GetPhaddr(tlb, g, PTBASE + o, FALSE)
  PROVE  \/ /\ Absent(tlb, g.entryhi.asid, PageOf(PTBASE))
            /\ a = Fault("TLBL", TRUE)
         \/ /\ g.entryhi.asid \in ASID
            /\ a = Found(TableFrame(g.entryhi.asid) * PageSize + o)
<1>1. PICK v : v = PTBASE + o
  OBVIOUS
<1>2. PICK b \in Nat \ {0} : b = PageSize
  BY Sizes
<1>3. PICK k \in Nat : PTBASE = k * b /\ PageOf(PTBASE) = PageOf(STACK) + 4
                       /\ PTBASE = PageOf(PTBASE) * PairSize
  <2>1. PICK m \in Nat : /\ PTBASE = (8 * m + 8) * b /\ PageOf(STACK) = 4 * m
                         /\ PageOf(PTBASE) = 4 * m + 4
    BY <1>2, Pairs
  <2>2. (8 * m + 8) * b = (4 * m + 4) * (2 * b)
    OBVIOUS
  <2>3. 8 * m + 8 \in Nat /\ 4 * m + 4 = 4 * m + 4
    OBVIOUS
  <2> QED
    BY <1>2, <2>1, <2>2, <2>3, Sizes
<1>4. v \in Nat /\ v >= KSEG2_MIN /\ v = k * b + o /\ v < PTBASE + PageSize
  <2>1. KSEG2_MIN <= PTBASE
    BY Sizes, KernelFacts DEF PTBASE, StackPair, STACK
  <2> QED
    BY <1>1, <1>2, <1>3, <2>1, KernelFacts
<1>5. InTlb(g, v)
  BY <1>4 DEF InTlb
<1>6. PageOf(v) = PageOf(PTBASE)
  <2>1. PICK n \in Nat, q \in Nat \ {0} : n = PageOf(PTBASE) /\ q = PairSize
    BY Pairs, KernelFacts
  <2>2. n * q <= v /\ v < n * q + q
    BY <1>1, <1>2, <1>3, <1>4, <2>1, Sizes
  <2>3. v \div q = n
    BY <1>4, <2>2, Quotient
  <2> QED
    BY <2>1, <2>3 DEF PageOf
<1>7. PageOf(v) \notin StackPages
  BY <1>3, <1>6, Pairs DEF StackPages
<1>8. PICK store : store = FALSE
  OBVIOUS
<1>9. a = GetPhaddr(tlb, g, v, store)
  BY <1>1, <1>8
<1>10. Accessed(tlb, g, v, store, a)
  BY <1>4, <1>5, <1>7, <1>9, PageAccess
<1>11. ASSUME NEW x, Present(tlb, x, g.entryhi.asid, PageOf(v)),
              a = Translated(HalfOf(tlb[x], v), v, store)
       PROVE  /\ g.entryhi.asid \in ASID
              /\ a = Found(TableFrame(g.entryhi.asid) * PageSize + o)
  <2>1. v >= PTBASE
    BY <1>1, KernelFacts, Sizes
  <2>2. /\ g.entryhi.asid \in ASID /\ HalfOf(tlb[x], v).valid = TRUE
        /\ HalfOf(tlb[x], v).pfn = TableFrame(g.entryhi.asid)
    BY <1>4, <1>6, <1>11, <2>1, TableHalf
  <2>3. v % PageSize = o
    BY <1>2, <1>4, Remainder
  <2> QED
    BY <1>8, <1>11, <2>2, <2>3 DEF Translated
<1> QED
  BY <1>6, <1>8, <1>10, <1>11 DEF Accessed

(* A page of a program of the space asid.                                  *)
LEMMA UserPageFacts ==
  ASSUME NEW asid \in ASID, NEW page \in UserPage[asid]
  PROVE  /\ page \in Nat /\ page * PageSize + 1 \in UserAddress
         /\ (page * PageSize + 1) \div PageSize = page
         /\ (page * PageSize + 1) % PageSize = 1
         /\ UserFrame(asid, page) \in Nat
<1>1. page \in Nat /\ asid \in Nat
  BY KernelAssumption, Cp0Assumption
<1>2. PICK b \in Nat : b = PageSize /\ b > 1
  BY Sizes
<1>3. (page + 1) * b <= KSEG0_MIN
  BY <1>2, Sizes, KernelAssumption
<1>4. (page + 1) * b = page * b + b /\ page * b \in Nat
  BY <1>1, <1>2
<1>5. page * b + 1 \in Nat /\ page * b + 1 < KSEG0_MIN
  BY <1>2, <1>3, <1>4, KernelFacts
<1>6. (page * b + 1) \div b = page /\ (page * b + 1) % b = 1
  BY <1>1, <1>2, Remainder
<1>7. UserFrame(asid, page) \in Nat
  BY <1>1 DEF UserFrame
<1> QED
  BY <1>1, <1>2, <1>5, <1>6, <1>7, KernelFacts DEF UserAddress

LEMMA UserPageAccess ==
  ASSUME MapInv, pc \notin BootPlace, NEW page \in UserPage[r.entryhi.asid],
         NEW store \in BOOLEAN, r.entryhi.asid \in ASID,
         NEW a, a = GetPhaddr(tlb, r, page * PageSize + 1, store),
         a.exc = "NONE"
  PROVE  /\ a.paddr = UserFrame(r.entryhi.asid, page) * PageSize + 1
         /\ \/ Unmapping(page)
            \/ pt[r.entryhi.asid][page] = "rw"
            \/ pt[r.entryhi.asid][page] = "ro" /\ ~ store
<1>1. PICK asid \in ASID : asid = r.entryhi.asid
  OBVIOUS
<1>2. PICK v \in UserAddress : v = page * PageSize + 1
  BY UserPageFacts
<1>3. v \div PageSize = page /\ v % PageSize = 1
  BY <1>2, UserPageFacts
<1>4. v \in Nat /\ v < KSEG0_MIN /\ InTlb(r, v)
  BY KernelFacts DEF UserAddress, InTlb
<1>5. PageOf(v) \notin StackPages
  BY UserPairs, Pairs, KernelFacts DEF UserPair, StackPages
<1>6. a = GetPhaddr(tlb, r, v, store)
  BY <1>2
<1>7. Accessed(tlb, r, v, store, a)
  BY <1>4, <1>5, <1>6, PageAccess
<1>8. a # Fault(IF store THEN "TLBS" ELSE "TLBL", TRUE)
  BY DEF Fault
<1>9. PICK x : /\ Present(tlb, x, r.entryhi.asid, PageOf(v))
               /\ a = Translated(HalfOf(tlb[x], v), v, store)
  BY <1>7, <1>8 DEF Accessed
<1>10. PICK lo : lo = HalfOf(tlb[x], v)
  OBVIOUS
<1>11. /\ lo \in Lo
       /\ HalfOK(pt, Up(r, pc, op), Down(r, pc, op), asid, page, lo)
  BY <1>1, <1>3, <1>9, <1>10, UserHalf
<1>12. /\ lo.valid /\ (store => lo.dirty)
       /\ a.paddr = lo.pfn * PageSize + 1
  BY <1>3, <1>9, <1>10 DEF Translated, Fault, Found
<1>13. a.paddr = UserFrame(asid, page) * PageSize + 1
  BY <1>11, <1>12 DEF HalfOK
<1>14. CASE <<asid, page>> \in Down(r, pc, op)
  <2>1. Within(r, pc, DropPlace) /\ page = op.vaddr \div PageSize
    BY <1>14 DEF Down, Current
  <2>2. op.kind = "unmap"
    BY <2>1 DEF MapInv, PlaceMap, Within
  <2>3. Unmapping(page)
    BY <2>1, <2>2 DEF Unmapping, Within, DropPlace
  <2> QED
    BY <1>1, <1>13, <2>3
<1>15. CASE <<asid, page>> \notin Down(r, pc, op)
  <2>1. Mode(pt, asid, page) = pt[asid][page]
    BY <1>1 DEF Mode
  <2>2. pt[asid][page] \in {"none", "ro", "rw"}
    BY <1>1 DEF MapInv, TablesOK
  <2>3. pt[asid][page] # "none" /\ (store => pt[asid][page] = "rw")
    BY <1>11, <1>12, <1>15, <2>1 DEF HalfOK
  <2> QED
    BY <1>1, <1>13, <2>2, <2>3
<1> QED
  BY <1>14, <1>15

(* No page is in two entries.                                              *)
LEMMA OneMatch ==
  ASSUME MapInv, pc \notin BootPlace, NEW page \in Nat
  PROVE  Cardinality({x \in Entry : Matches(tlb, r, x, page)}) <= 1
<1>1. PICK found : found = {x \in Entry : Matches(tlb, r, x, page)}
  OBVIOUS
<1>2. \A x, y \in found : x = y
  <2>1. CASE page \in PageOf(STACK) .. PageOf(STACK) + 3
    BY <1>1, <2>1, StackLookup
  <2>2. CASE page \notin PageOf(STACK) .. PageOf(STACK) + 3
    <3>1. PICK m \in Nat : PageOf(STACK) = 4 * m
      BY Pairs
    <3>2. ~ Matches(tlb, r, 0, page)
      BY <2>2, <3>1, MapEntries, StackMatches
    <3>3. \A x \in found : Present(tlb, x, r.entryhi.asid, page)
      <4> SUFFICES ASSUME NEW x \in found
                   PROVE  Present(tlb, x, r.entryhi.asid, page)
        OBVIOUS
      <4>1. x \in Entry \ {0} /\ Matches(tlb, r, x, page)
        BY <1>1, <3>2
      <4>2. Holds(tlb, x, r.entryhi.asid, page)
        BY <4>1, MapEntries, SmallMatches DEF Mapped1
      <4> QED
        BY <4>1, <4>2 DEF Present
    <3> QED
      BY <3>3, MapEntries, PresentOnce
  <2> QED
    BY <2>1, <2>2
<1>3. CASE found = {}
  BY <1>1, <1>3, FS_EmptySet
<1>4. CASE found # {}
  <2>1. PICK x : x \in found
    BY <1>4
  <2>2. found = {x}
    BY <1>2, <2>1
  <2> QED
    BY <1>1, <2>2, FS_Singleton
<1> QED
  BY <1>3, <1>4

LEMMA MapCoherent == MapInv => Coherent
<1> SUFFICES ASSUME MapInv, Booted PROVE Coherent
  BY DEF Coherent
<1>1. pc \notin BootPlace
  BY DEF Booted, BootPlace
<1>2. PICK g : g = [r EXCEPT !.sr.exl = TRUE]
  OBVIOUS
<1>3. PICK asid \in ASID : asid = r.entryhi.asid
  BY <1>1, AfterBoot DEF MapInv
<1>4. g.entryhi = r.entryhi /\ KernelMode(g)
  BY <1>1, <1>2 DEF MapInv, WiredInv, Shape, RegNames, KernelMode
<1>5. ASSUME NEW v \in StackProbe
      PROVE  GetPhaddr(tlb, g, v, TRUE) = Found(StackAddress(v))
  <2>1. PICK o : /\ o \in {0, 4 * PageSize - 1, 4 * PageSize, 8 * PageSize - 1}
                 /\ v = STACK + o
    <3>1. /\ STACK = STACK + 0
          /\ STACK + 4 * PageSize - 1 = STACK + (4 * PageSize - 1)
          /\ STACK + 8 * PageSize - 1 = STACK + (8 * PageSize - 1)
      BY Sizes, KernelFacts
    <3> QED
      BY <3>1 DEF StackProbe, StackPair
  <2>2. o \in 0 .. 8 * PageSize - 1
    BY <2>1, Sizes
  <2>3. v - STACK = o
    BY <2>1, <2>2, KernelFacts
  <2>4. GetPhaddr(tlb, g, STACK + o, TRUE) = Found(8 * PageSize + o)
    BY <1>1, <1>2, <2>2, StackAccess
  <2> QED
    BY <2>1, <2>3, <2>4 DEF StackAddress
<1>6. ASSUME NEW a, a = GetPhaddr(tlb, g, PTBASE + 1, FALSE), a.exc = "NONE"
      PROVE  a.paddr = TableFrame(asid) * PageSize + 1
  <2>1. PICK o \in 0 .. PageSize - 1 : o = 1
    BY Sizes
  <2>2. a = GetPhaddr(tlb, g, PTBASE + o, FALSE)
    BY <1>6, <2>1
  <2>3. \/ a = Fault("TLBL", TRUE)
        \/ a = Found(TableFrame(g.entryhi.asid) * PageSize + o)
    BY <1>1, <1>4, <2>2, TableAccess
  <2>4. PICK w : w = TableFrame(asid) * PageSize + 1
    OBVIOUS
  <2>5. a = Fault("TLBL", TRUE) \/ a = Found(w)
    BY <1>3, <1>4, <2>1, <2>3, <2>4
  <2>6. a # Fault("TLBL", TRUE)
    <3>1. Fault("TLBL", TRUE).exc = "TLBL" /\ a.exc = "NONE"
      BY <1>6 DEF Fault
    <3> QED
      BY <3>1
  <2>7. a = Found(w)
    BY <2>5, <2>6
  <2>8. a.paddr = w
    BY <2>7 DEF Found
  <2> QED
    BY <2>4, <2>8
<1>7. ASSUME NEW page \in UserPage[asid], NEW store \in BOOLEAN,
             NEW a, a = GetPhaddr(tlb, r, page * PageSize + 1, store),
             a.exc = "NONE"
      PROVE  /\ a.paddr = UserFrame(asid, page) * PageSize + 1
             /\ \/ Unmapping(page)
                \/ pt[asid][page] = "rw"
                \/ pt[asid][page] = "ro" /\ ~ store
  BY <1>1, <1>3, <1>7, UserPageAccess
<1>8. \A page \in {0, STACK \div PairSize, PTBASE \div PairSize} :
        Cardinality({x \in Entry : Matches(tlb, r, x, page)}) <= 1
  <2>1. 0 \in Nat /\ PageOf(STACK) \in Nat /\ PageOf(PTBASE) \in Nat
    BY PageOfNat, KernelFacts
  <2> QED
    BY <1>1, <2>1, OneMatch DEF PageOf
<1> QED
  BY <1>2, <1>3, <1>5, <1>6, <1>7, <1>8 DEF Coherent, KernelAccess

-----------------------------------------------------------------------------
(***************************************************************************)
(* The invariant is kept.  The steps of coprocessor 0 after an instruction *)
(* change nothing it speaks of.                                            *)
(***************************************************************************)
CauseShape(g) == DOMAIN g.cause = {"exc", "bd", "iv", "ip"}

CauseKept(g, h) ==
  /\ CauseShape(h)
  /\ h.cause.exc = g.cause.exc /\ h.cause.iv = g.cause.iv
  /\ h.count = g.count /\ h.compare = g.compare

LEMMA TurnCause ==
  ASSUME NEW g, Shape(g), CauseShape(g), NEW h, h = StepRandom(g)
  PROVE  CauseKept(g, h) /\ h.cause = g.cause
<1>1. PICK n : n = IF g.random <= g.wired THEN TLB_ENTRY - 1 ELSE g.random - 1
  OBVIOUS
<1>2. h = [g EXCEPT !.random = n]
  BY <1>1 DEF StepRandom
<1> QED
  BY <1>2 DEF Shape, RegNames, CauseShape, CauseKept

LEMMA StepsCause ==
  ASSUME NEW g, Shape(g), CauseShape(g), g.wired \in Entry, g.random \in Entry,
         Steps(g), g.cause.ip \subseteq 0 .. 7
  PROVE  CauseKept(g, r') /\ r'.cause.ip \subseteq 0 .. 7
<1>1. PICK s : s = StepRandom(g)
  OBVIOUS
<1>2. PICK u : u = StepRandom(s)
  OBVIOUS
<1>3. Shape(s) /\ Shape(u)
  <2>1. Shape(s) /\ Kept(g, s) /\ s.random \in g.wired .. TLB_ENTRY - 1
    BY <1>1, TurnKeeps
  <2>2. s.wired \in Entry /\ s.random \in Entry
    BY <2>1, KernelFacts DEF Kept, Entry
  <2> QED
    BY <1>2, <2>1, <2>2, TurnKeeps
<1>4. CauseKept(g, s) /\ s.cause = g.cause
  BY <1>1, TurnCause
<1>5. CauseKept(s, u) /\ u.cause = s.cause
  BY <1>2, <1>3, <1>4, TurnCause DEF CauseKept
<1>6. PICK t \in {s, u} : r' = t \/ r' = SetInterrupt(t, COMPARE_CONNECTED)
  BY <1>1, <1>2 DEF Steps
<1>7. Shape(t) /\ CauseKept(g, t) /\ t.cause.ip \subseteq 0 .. 7
  BY <1>3, <1>4, <1>5, <1>6 DEF CauseKept
<1>8. PICK h : h = SetInterrupt(t, COMPARE_CONNECTED)
  OBVIOUS
<1>9. /\ h.count = t.count /\ h.compare = t.compare
      /\ h.cause = [t.cause EXCEPT !.ip = @ \cup {COMPARE_CONNECTED}]
  BY <1>7, <1>8 DEF SetInterrupt, Shape, RegNames
<1>10. /\ CauseShape(h) /\ h.cause.exc = t.cause.exc /\ h.cause.iv = t.cause.iv
       /\ h.cause.ip = t.cause.ip \cup {COMPARE_CONNECTED}
  BY <1>7, <1>9 DEF CauseKept, CauseShape
<1>11. h.cause.ip \subseteq 0 .. 7
  BY <1>7, <1>10 DEF COMPARE_CONNECTED
<1>12. CauseKept(g, h)
  BY <1>7, <1>9, <1>10 DEF CauseKept
<1> QED
  BY <1>6, <1>7, <1>8, <1>11, <1>12

SameRegs(g, h) == Kept(g, h) /\ CauseKept(g, h)

LEMMA StepsSame ==
  ASSUME NEW g, Shape(g), RegTypes(g), g.wired \in Entry, g.random \in Entry,
         Steps(g)
  PROVE  SameRegs(g, r') /\ RegTypes(r')
<1>1. Kept(g, r')
  BY StepsKeep
<1>2. CauseKept(g, r') /\ r'.cause.ip \subseteq 0 .. 7
  BY StepsCause DEF RegTypes, CauseShape
<1> QED
  BY <1>1, <1>2 DEF SameRegs, Kept, CauseKept, CauseShape, RegTypes

(* What the invariant says of registers, place, instruction, entries and   *)
(* tables.                                                                 *)
LEMMA SameBoot ==
  ASSUME NEW g, NEW h, SameRegs(g, h), NEW p, NEW t, BootMap(g, p, t)
  PROVE  BootMap(h, p, t)
BY DEF SameRegs, Kept, BootMap

LEMMA SameSets ==
  ASSUME NEW g, NEW h, SameRegs(g, h), NEW p, NEW o
  PROVE  /\ Up(h, p, o) = Up(g, p, o) /\ Down(h, p, o) = Down(g, p, o)
         /\ \A places : Within(h, p, places) <=> Within(g, p, places)
BY DEF SameRegs, Kept, Up, Down, Within, Current

LEMMA SameEntries ==
  ASSUME NEW g, NEW h, SameRegs(g, h), NEW p, NEW o, NEW t, NEW tables,
         EntriesMap(g, p, o, t, tables)
  PROVE  EntriesMap(h, p, o, t, tables)
<1>1. h.entryhi = g.entryhi
  BY DEF SameRegs, Kept
<1> QED
  BY <1>1, SameSets DEF EntriesMap

LEMMA SamePlace ==
  ASSUME NEW g, NEW h, SameRegs(g, h), NEW p, NEW o, NEW e, PlaceMap(g, p, o, e)
  PROVE  PlaceMap(h, p, o, e)
<1>1. /\ h.entryhi = g.entryhi /\ h.context = g.context /\ h.epc = g.epc
      /\ h.sr = g.sr /\ h.pagemask = g.pagemask /\ h.cause.iv = g.cause.iv
  BY DEF SameRegs, Kept, CauseKept
<1> QED
  BY <1>1, SameSets DEF PlaceMap

LEMMA SameWrite ==
  ASSUME NEW g, NEW h, SameRegs(g, h), NEW p, NEW o, NEW t, NEW tables,
         WriteMap(g, p, o, t, tables)
  PROVE  WriteMap(h, p, o, t, tables)
<1>1. /\ h.entryhi = g.entryhi /\ h.entrylo = g.entrylo /\ h.index = g.index
      /\ h.badvaddr = g.badvaddr /\ h.cause.exc = g.cause.exc
  BY DEF SameRegs, Kept, CauseKept
<1>2. FaultMap(g, o, t, tables) => FaultMap(h, o, t, tables)
  BY <1>1 DEF FaultMap
<1> QED
  BY <1>1, <1>2 DEF WriteMap

(* The part of the invariant that is not WiredInv, for registers g.        *)
Map(g, p, o, e, t, tables) ==
  /\ TablesOK(tables) /\ EntryTypes(t) /\ RegTypes(g)
  /\ BootMap(g, p, t) /\ EntriesMap(g, p, o, t, tables)
  /\ PlaceMap(g, p, o, e) /\ WriteMap(g, p, o, t, tables)

LEMMA CloseMap ==
  ASSUME WiredInv', NEW g, Shape(g), g.wired \in Entry, g.random \in Entry,
         Steps(g), Map(g, pc', op', saved', tlb', pt')
  PROVE  MapInv'
<1>1. SameRegs(g, r') /\ RegTypes(r')
  BY StepsSame DEF Map
<1>2. BootMap(r', pc', tlb') /\ EntriesMap(r', pc', op', tlb', pt')
  BY <1>1, SameBoot, SameEntries DEF Map
<1>3. PlaceMap(r', pc', op', saved') /\ WriteMap(r', pc', op', tlb', pt')
  BY <1>1, SamePlace, SameWrite DEF Map
<1> QED
  BY <1>1, <1>2, <1>3 DEF Map, MapInv, TablesOK, EntryTypes, RegTypes,
     BootMap, EntriesMap, PlaceMap, WriteMap, Flushed, Absent, Present, Holds,
     Distinct, EntriesHold

-----------------------------------------------------------------------------
(* What is known at a place after the boot.                                *)
LEMMA InMap ==
  ASSUME MapInv, pc \notin BootPlace
  PROVE  /\ Shape(r) /\ r.wired \in Entry /\ r.random \in Entry
         /\ r.wired = 1 /\ r.random # 0 /\ RegTypes(r)
         /\ TablesOK(pt) /\ EntryTypes(tlb) /\ EntriesOK
         /\ EntriesMap(r, pc, op, tlb, pt)
         /\ PlaceMap(r, pc, op, saved) /\ WriteMap(r, pc, op, tlb, pt)
         /\ r.entryhi.asid \in ASID /\ op.vaddr \in UserAddress
         /\ r.cause.iv = TRUE /\ r.pagemask = 0 /\ saved = "user"
         /\ op \in Ops[r.entryhi.asid]
<1>1. WiredInv
  BY DEF MapInv
<1>2. r.random # 0
  BY <1>1, RandomIsEntry, AfterBoot, KernelFacts DEF Entry
<1> QED
  BY <1>1, <1>2, RandomIsEntry, AfterBoot DEF MapInv, PlaceMap

(* An instruction of p's program: the page it is about is one of its own.  *)
LEMMA OpPage ==
  ASSUME NEW asid \in ASID, NEW o \in Ops[asid]
  PROVE  /\ o.vaddr \in UserAddress /\ o.vaddr \in Nat
         /\ o.vaddr \div PageSize \in UserPage[asid]
BY KernelAssumption, KernelFacts DEF UserAddress, PageSize

(* An instruction that leaves the TLB and the page tables alone, and no    *)
(* page out of step with them that was not, or the other way round.        *)
LEMMA PlainMap ==
  ASSUME MapInv, WiredInv', UNCHANGED <<tlb, pt>>, pc \notin BootPlace,
         NEW q, pc' = q, q \notin BootPlace,
         NEW g, Shape(g), g.wired = r.wired, g.random = r.random, Steps(g),
         RegTypes(g),
         Up(g, q, op') = Up(r, pc, op), Down(g, q, op') = Down(r, pc, op),
         PlaceMap(g, q, op', saved'), WriteMap(g, q, op', tlb, pt)
  PROVE  MapInv'
<1>1. EntriesMap(g, q, op', tlb, pt)
  <2>1. ASSUME Within(g, q, DropPlace)
        PROVE  Mode(pt, g.entryhi.asid, op'.vaddr \div PageSize) = "none"
    <3>1. Current(g, op') \in Down(r, pc, op)
      BY <2>1 DEF Down
    <3>2. Within(r, pc, DropPlace) /\ Current(g, op') = Current(r, op)
      BY <3>1 DEF Down
    <3>3. /\ g.entryhi.asid = r.entryhi.asid
          /\ op'.vaddr \div PageSize = op.vaddr \div PageSize
      BY <3>2 DEF Current
    <3>4. Mode(pt, r.entryhi.asid, op.vaddr \div PageSize) = "none"
      BY <3>2, InMap DEF EntriesMap
    <3> QED
      BY <3>3, <3>4
  <2>2. /\ StackEntry(tlb[0]) /\ Distinct(tlb)
        /\ EntriesHold(tlb, pt, Up(g, q, op'), Down(g, q, op'))
    BY MapEntries
  <2> QED
    BY <2>1, <2>2 DEF EntriesMap
<1>2. TablesOK(pt) /\ EntryTypes(tlb) /\ r.wired \in Entry /\ r.random \in Entry
  BY InMap
<1>3. BootMap(g, q, tlb)
  BY DEF BootMap
<1>4. Map(g, pc', op', saved', tlb', pt')
  BY <1>1, <1>2, <1>3 DEF Map
<1> QED
  BY <1>2, <1>4, CloseMap

(* An exception.  No program is being given a page then.                   *)
RaisedRegs(g, h, exc, place, v) ==
  /\ Excepted(g, h, place, v) /\ RegTypes(h)
  /\ h.cause.exc = exc /\ h.cause.iv = g.cause.iv /\ h.pagemask = g.pagemask

LEMMA RaiseTypes ==
  ASSUME NEW g, Shape(g), RegTypes(g), NEW exc, NEW place, NEW v \in Nat,
         NEW h, h = Raised(g, exc, place, v)
  PROVE  RaisedRegs(g, h, exc, place, v)
<1>1. Excepted(g, h, place, v)
  BY ExceptionKeeps
<1>2. PICK p : p = v \div 2 ^ VPAGE_SH
  OBVIOUS
<1>3. p = PageOf(v) /\ p \in Nat
  BY <1>2, PageOfNat, Sizes DEF PageOf
<1>4. PICK g1 : g1 = [g EXCEPT !.cause.exc = exc]
  OBVIOUS
<1>5. /\ DOMAIN g1 = RegNames /\ g1.cause = [g.cause EXCEPT !.exc = exc]
      /\ g1.count = g.count /\ g1.compare = g.compare /\ g1.sr = g.sr
      /\ g1.pagemask = g.pagemask
  BY <1>4 DEF Shape, RegNames
<1>6. PICK g2 : g2 = [g1 EXCEPT !.badvaddr = v, !.context = p,
                                !.entryhi.vpn2 = p]
  OBVIOUS
<1>7. /\ DOMAIN g2 = RegNames /\ g2.cause = g1.cause
      /\ g2.count = g.count /\ g2.compare = g.compare /\ g2.sr = g.sr
      /\ g2.pagemask = g.pagemask
  BY <1>5, <1>6 DEF RegNames
<1>8. PICK g3 : g3 = RestartAt(g2, place, FALSE)
  OBVIOUS
<1>9. /\ DOMAIN g3 = RegNames /\ g3.sr = g.sr
      /\ g3.cause = g2.cause \/ g3.cause = [g2.cause EXCEPT !.bd = FALSE]
      /\ g3.count = g.count /\ g3.compare = g.compare
      /\ g3.pagemask = g.pagemask
  <2>1. CASE g2.sr.exl
    BY <1>7, <1>8, <2>1 DEF RestartAt
  <2>2. CASE ~ g2.sr.exl
    <3>1. g3 = [g2 EXCEPT !.epc = place, !.cause.bd = FALSE]
      BY <1>8, <2>2 DEF RestartAt
    <3> QED
      BY <1>7, <3>1 DEF RegNames
  <2> QED
    BY <2>1, <2>2
<1>10. h = [g3 EXCEPT !.sr.exl = TRUE]
  BY <1>2, <1>4, <1>6, <1>8 DEF Raised, DoException, FaultAddress
<1>11. /\ h.sr = [g.sr EXCEPT !.exl = TRUE] /\ h.cause = g3.cause
       /\ h.count = g.count /\ h.compare = g.compare
       /\ h.pagemask = g.pagemask
  BY <1>9, <1>10 DEF RegNames
<1>12. /\ DOMAIN h.cause = {"exc", "bd", "iv", "ip"}
       /\ h.cause.exc = exc /\ h.cause.iv = g.cause.iv
       /\ h.cause.ip = g.cause.ip
  <2>1. DOMAIN g.cause = {"exc", "bd", "iv", "ip"}
    BY DEF RegTypes
  <2>2. PICK c : c = g2.cause
    OBVIOUS
  <2>3. /\ DOMAIN c = {"exc", "bd", "iv", "ip"}
        /\ c.exc = exc /\ c.iv = g.cause.iv /\ c.ip = g.cause.ip
    BY <1>5, <1>7, <2>1, <2>2
  <2>4. h.cause = c \/ h.cause = [c EXCEPT !.bd = FALSE]
    BY <1>9, <1>11, <2>2
  <2> QED
    BY <2>3, <2>4
<1>13. h.sr.im = g.sr.im
  BY <1>11 DEF Shape
<1>14. /\ h.index = g.index /\ h.entrylo = g.entrylo
       /\ h.entryhi.asid = g.entryhi.asid /\ h.entryhi.vpn2 = p
  BY <1>1, <1>3 DEF Excepted
<1>15. RegTypes(h)
  BY <1>3, <1>11, <1>12, <1>13, <1>14 DEF RegTypes
<1> QED
  BY <1>1, <1>11, <1>12, <1>15 DEF RaisedRegs

-----------------------------------------------------------------------------
(* The exceptions.                                                         *)
LEMMA InterruptedMap ==
  ASSUME MapInv, WiredInv', Interrupted
  PROVE  MapInv'
<1>1. WiredInv /\ CheckInterrupt(r) /\ UNCHANGED <<tlb, op, pt, saved>>
  BY DEF MapInv, Interrupted
<1>2. pc \in Resume /\ ~ r.sr.exl
  BY <1>1, EnabledPlaces DEF CheckInterrupt
<1>3. pc \notin BootPlace /\ pc \notin {"int", "eret"} /\ pc \notin FaultPlace
  BY <1>2 DEF Resume, BootPlace, FaultPlace
<1>4. PICK g : g = Raised(r, "INT", pc, STACK)
  OBVIOUS
<1>5. /\ Excepted(r, g, pc, STACK) /\ RegTypes(g)
      /\ g.cause.iv = TRUE /\ g.pagemask = 0
  <2>1. RaisedRegs(r, g, "INT", pc, STACK)
    BY <1>3, <1>4, InMap, RaiseTypes, KernelFacts
  <2> QED
    BY <1>3, <2>1, InMap DEF RaisedRegs
<1>6. pc' = "int" /\ Steps(g)
  BY <1>1, <1>3, <1>4, InMap DEF Interrupted, Raise, Raised, Vector
<1>7. /\ Shape(g) /\ g.wired = r.wired /\ g.random = r.random
      /\ g.entryhi.asid = r.entryhi.asid /\ g.epc = pc
  BY <1>2, <1>5 DEF Excepted
<1>8. \A places : "int" \notin places =>
                    (Within(g, "int", places) <=> Within(r, pc, places))
  BY <1>3, <1>7 DEF Within
<1>9. /\ Up(g, "int", op') = Up(r, pc, op)
      /\ Down(g, "int", op') = Down(r, pc, op)
  BY <1>1, <1>3, <1>7, <1>8 DEF Up, Down, Current, FaultPlace, DropPlace
<1>10. PlaceMap(g, "int", op', saved')
  <2>1. Within(g, "int", DropPlace \cup {"unmap"}) => op'.kind = "unmap"
    BY <1>1, <1>3, <1>8, InMap DEF PlaceMap, DropPlace
  <2> QED
    BY <1>1, <1>3, <1>5, <1>7, <2>1, InMap DEF PlaceMap, Resume, FaultPlace
<1>11. WriteMap(g, "int", op', tlb, pt)
  BY DEF WriteMap
<1>12. "int" \notin BootPlace
  BY DEF BootPlace
<1> QED
  BY <1>1, <1>3, <1>5, <1>6, <1>7, <1>9, <1>10, <1>11, <1>12, PlainMap

(* An exception of the program, or of the refill handler, that is not an   *)
(* interrupt: at its handler the program will go on where it was.          *)
LEMMA RaiseMap ==
  ASSUME MapInv, WiredInv', UNCHANGED <<tlb, op, pt, saved>>,
         pc \in {"user", "refill"}, NEW exc, exc # "INT", NEW refill,
         NEW v \in Nat, Raise(exc, refill, v),
         NEW g, g = Raised(r, exc, pc, v),
         NEW q \in {"refill", "general"}, pc' = q,
         q = "refill" => v = op.vaddr, WriteMap(g, q, op, tlb, pt)
  PROVE  MapInv'
<1>1. pc \notin BootPlace /\ q \notin BootPlace
  BY DEF BootPlace
<1>2. /\ Excepted(r, g, pc, v) /\ RegTypes(g)
      /\ g.cause.iv = TRUE /\ g.pagemask = 0
  <2>1. RaisedRegs(r, g, exc, pc, v)
    BY <1>1, InMap, RaiseTypes
  <2> QED
    BY <1>1, <2>1, InMap DEF RaisedRegs
<1>3. Steps(g)
  BY DEF Raise, Raised
<1>4. /\ Shape(g) /\ g.wired = r.wired /\ g.random = r.random
      /\ g.entryhi.asid = r.entryhi.asid /\ g.entryhi.vpn2 = PageOf(v)
      /\ g.context = PageOf(v) /\ g.epc = IF r.sr.exl THEN r.epc ELSE pc
  BY <1>2 DEF Excepted
<1>5. g.epc = "user"
  <2>1. pc = "user" => ~ r.sr.exl
    BY <1>1, InMap DEF PlaceMap, Resume
  <2>2. pc = "refill" => r.epc = "user" /\ r.sr.exl = TRUE
    BY <1>1, InMap, AfterBoot DEF PlaceMap, MapInv, Handler
  <2> QED
    BY <1>4, <2>1, <2>2
<1>6. /\ Up(g, q, op') = Up(r, pc, op) /\ Down(g, q, op') = Down(r, pc, op)
  BY DEF Up, Down, Within, FaultPlace, DropPlace
<1>7. PlaceMap(g, q, op', saved')
  BY <1>1, <1>2, <1>4, <1>5, InMap
     DEF PlaceMap, Resume, FaultPlace, DropPlace, Within
<1> QED
  BY <1>1, <1>2, <1>3, <1>4, <1>6, <1>7, PlainMap

LEMMA UserCallMap ==
  ASSUME MapInv, WiredInv', UserCall
  PROVE  MapInv'
<1>1. /\ pc = "user" /\ UNCHANGED <<tlb, op, pt, saved>>
      /\ Raise("SYSCALL", FALSE, STACK)
  BY DEF UserCall, At
<1>2. PICK exc : exc = "SYSCALL"
  OBVIOUS
<1>3. PICK g : g = Raised(r, exc, pc, STACK)
  OBVIOUS
<1>4. pc' = "general"
  BY <1>1 DEF Raise, Vector
<1>5. g.cause.exc = "SYSCALL"
  <2>1. RaisedRegs(r, g, exc, pc, STACK)
    BY <1>1, <1>3, InMap, RaiseTypes, KernelFacts DEF BootPlace
  <2> QED
    BY <1>2, <2>1 DEF RaisedRegs
<1>6. WriteMap(g, "general", op, tlb, pt)
  BY <1>5 DEF WriteMap, FaultMap
<1> QED
  BY <1>1, <1>2, <1>3, <1>4, <1>6, RaiseMap, KernelFacts

LEMMA UserFaultMap ==
  ASSUME MapInv, WiredInv', UserFault
  PROVE  MapInv'
<1>1. PICK v : v = op.vaddr
  OBVIOUS
<1>2. PICK store \in BOOLEAN : store = (op.kind = "store")
  OBVIOUS
<1>3. PICK a : a = GetPhaddr(tlb, r, v, store)
  OBVIOUS
<1>4. PICK asid \in ASID : asid = r.entryhi.asid
  BY InMap DEF UserFault, At, BootPlace
<1>5. /\ pc = "user" /\ UNCHANGED <<tlb, op, pt, saved>>
      /\ a.exc # "NONE" /\ Raise(a.exc, a.refill, v)
  BY <1>1, <1>2, <1>3 DEF UserFault, At, UserAccess, Access
<1>6. pc \notin BootPlace /\ r.sr.exl = FALSE
  BY <1>5, InMap DEF BootPlace, PlaceMap, Resume
<1>7. /\ v \in UserAddress /\ v \in Nat /\ v < KSEG0_MIN
      /\ v \div PageSize \in UserPage[asid]
  BY <1>1, <1>4, <1>6, InMap, OpPage, KernelFacts DEF UserAddress
<1>8. InTlb(r, v) /\ PageOf(v) \notin StackPages
  BY <1>7, UserPairs, Pairs, KernelFacts DEF UserPair, InTlb, StackPages
<1>9. Accessed(tlb, r, v, store, a)
  BY <1>3, <1>6, <1>7, <1>8, PageAccess
<1>10. PICK e, g : e = a.exc /\ g = Raised(r, e, pc, v)
  OBVIOUS
<1>11. /\ Excepted(r, g, pc, v) /\ g.cause.exc = e
       /\ g.badvaddr = v /\ g.entryhi.asid = asid /\ g.entryhi.vpn2 = PageOf(v)
  <2>1. RaisedRegs(r, g, e, pc, v)
    BY <1>6, <1>7, <1>10, InMap, RaiseTypes
  <2> QED
    BY <1>4, <2>1 DEF RaisedRegs, Excepted
<1>12. CASE /\ Absent(tlb, r.entryhi.asid, PageOf(v))
            /\ a = Fault(IF store THEN "TLBS" ELSE "TLBL", TRUE)
  <2>1. e \in {"TLBL", "TLBS"} /\ a.refill = TRUE
    BY <1>10, <1>12 DEF Fault
  <2>2. pc' = "refill" /\ e # "INT"
    BY <1>5, <1>6, <1>10, <2>1 DEF Raise, Vector
  <2>3. WriteMap(g, "refill", op, tlb, pt)
    BY <1>4, <1>11, <1>12 DEF WriteMap
  <2> QED
    BY <1>1, <1>5, <1>7, <1>10, <2>2, <2>3, RaiseMap
<1>13. ASSUME NEW x, Present(tlb, x, r.entryhi.asid, PageOf(v)),
              a = Translated(HalfOf(tlb[x], v), v, store)
       PROVE  MapInv'
  <2>1. PICK lo : lo = HalfOf(tlb[x], v)
    OBVIOUS
  <2>2. /\ lo \in Lo
        /\ HalfOK(pt, Up(r, pc, op), Down(r, pc, op), asid,
                  v \div PageSize, lo)
    BY <1>4, <1>6, <1>7, <1>13, <2>1, UserHalf
  <2>3. Up(r, pc, op) = {} /\ Down(r, pc, op) = {}
    BY <1>5 DEF Up, Down, Within, FaultPlace, DropPlace
  <2>4. /\ a.refill = FALSE /\ e \in {"TLBL", "TLBS", "MOD"}
        /\ e = "TLBL" => ~ lo.valid
    BY <1>5, <1>10, <1>13, <2>1 DEF Translated, Fault, Found
  <2>5. pc' = "general" /\ e # "INT"
    BY <1>5, <1>10, <2>4 DEF Raise, Vector
  <2>6. e = "TLBL" => Mode(pt, asid, v \div PageSize) = "none"
    BY <2>2, <2>3, <2>4 DEF HalfOK
  <2>7. v < PTBASE
    BY <1>7, Sizes, KernelFacts DEF PTBASE, StackPair, STACK
  <2>8. FaultMap(g, op, tlb, pt)
    BY <1>1, <1>7, <1>11, <2>6, <2>7, KernelFacts DEF FaultMap
  <2>9. WriteMap(g, "general", op, tlb, pt)
    BY <2>8 DEF WriteMap
  <2> QED
    BY <1>1, <1>5, <1>7, <1>10, <2>5, <2>9, RaiseMap
<1> QED
  BY <1>9, <1>12, <1>13 DEF Accessed

LEMMA UserHitMap ==
  ASSUME MapInv, WiredInv', UserHit
  PROVE  MapInv'
<1>1. /\ pc = "user" /\ pc' = "user" /\ Steps(r)
      /\ UNCHANGED <<tlb, pt, saved>> /\ op' \in Ops[r.entryhi.asid]
  BY DEF UserHit, At
<1>2. pc \notin BootPlace
  BY <1>1 DEF BootPlace
<1>3. /\ Up(r, "user", op') = Up(r, pc, op)
      /\ Down(r, "user", op') = Down(r, pc, op)
  BY <1>1 DEF Up, Down, Within, FaultPlace, DropPlace
<1>4. PlaceMap(r, "user", op', saved')
  BY <1>1, <1>2, InMap DEF PlaceMap, Resume, FaultPlace, DropPlace, Within
<1>5. WriteMap(r, "user", op', tlb, pt)
  BY DEF WriteMap
<1> QED
  BY <1>1, <1>2, <1>3, <1>4, <1>5, InMap, PlainMap

-----------------------------------------------------------------------------
(* Registers of which the halves to be written, or INDEX, are replaced.    *)
LEMMA LoadedTypes ==
  ASSUME NEW g, Shape(g), RegTypes(g), NEW lo \in [0 .. 1 -> Lo],
         NEW h, h = [g EXCEPT !.entrylo = lo]
  PROVE  /\ Shape(h) /\ RegTypes(h) /\ h.entrylo = lo
         /\ h.index = g.index /\ h.wired = g.wired /\ h.random = g.random
         /\ h.pagemask = g.pagemask /\ h.entryhi = g.entryhi
         /\ h.context = g.context /\ h.sr = g.sr /\ h.epc = g.epc
         /\ h.cause = g.cause
<1>1. LoShape(lo)
  BY DEF LoShape, LoNames, Lo
<1>2. h.cause = g.cause /\ h.count = g.count /\ h.compare = g.compare
  BY DEF Shape, RegNames
<1>3. /\ Shape(h) /\ h.entrylo = lo
      /\ h.index = g.index /\ h.wired = g.wired /\ h.random = g.random
      /\ h.pagemask = g.pagemask /\ h.entryhi = g.entryhi
      /\ h.context = g.context /\ h.sr = g.sr /\ h.epc = g.epc
  BY <1>1, LoadedLo
<1> QED
  BY <1>2, <1>3 DEF RegTypes

LEMMA IndexedTypes ==
  ASSUME NEW g, Shape(g), RegTypes(g), NEW x \in Entry \cup {NoMatch},
         NEW h, h = [g EXCEPT !.index = x]
  PROVE  /\ Shape(h) /\ RegTypes(h) /\ h.index = x
         /\ h.wired = g.wired /\ h.random = g.random
         /\ h.pagemask = g.pagemask /\ h.entrylo = g.entrylo
         /\ h.entryhi = g.entryhi
         /\ h.context = g.context /\ h.sr = g.sr /\ h.epc = g.epc
         /\ h.cause = g.cause
<1>1. h.cause = g.cause /\ h.count = g.count /\ h.compare = g.compare
  BY DEF Shape, RegNames
<1>2. /\ Shape(h) /\ h.index = x
      /\ h.wired = g.wired /\ h.random = g.random
      /\ h.pagemask = g.pagemask /\ h.entrylo = g.entrylo
      /\ h.entryhi = g.entryhi
      /\ h.context = g.context /\ h.sr = g.sr /\ h.epc = g.epc
  BY Indexed
<1> QED
  BY <1>1, <1>2 DEF RegTypes

(* What a handler reads from the page table agrees with it.                *)
LEMMA PteHalves ==
  ASSUME TablesOK(pt), NEW asid \in ASID, NEW pair, UserPair(pair),
         NEW lo, lo = PtePair(asid, pair)
  PROVE  lo \in [0 .. 1 -> Lo] /\ UserHalves(pt, {}, {}, asid, pair, lo)
<1>1. \A odd \in 0 .. 1 : lo[odd] = Pte(asid, 2 * pair + odd)
  BY DEF PtePair
<1>2. ASSUME NEW odd \in 0 .. 1
      PROVE  lo[odd] \in Lo /\ HalfOK(pt, {}, {}, asid, 2 * pair + odd, lo[odd])
  <2>1. PICK page \in Nat : page = 2 * pair + odd
    BY DEF UserPair
  <2>2. PICK mode : mode = Mode(pt, asid, page)
    OBVIOUS
  <2>3. lo[odd] = [pfn |-> UserFrame(asid, page), valid |-> mode # "none",
                   dirty |-> mode = "rw", global |-> FALSE]
    BY <1>1, <2>1, <2>2 DEF Pte, Mode
  <2>4. UserFrame(asid, page) \in Nat
    BY <2>1, Cp0Assumption DEF UserFrame
  <2>5. lo[odd] \in Lo
    BY <2>3, <2>4 DEF Lo
  <2>6. HalfOK(pt, {}, {}, asid, page, lo[odd])
    <3>1. PICK h : h = lo[odd]
      OBVIOUS
    <3>2. /\ h.pfn = UserFrame(asid, page) /\ (h.valid <=> mode # "none")
          /\ (h.dirty <=> mode = "rw")
      <4>1. PICK v, d : v = (mode # "none") /\ d = (mode = "rw")
        OBVIOUS
      <4>2. h = [pfn |-> UserFrame(asid, page), valid |-> v, dirty |-> d,
                 global |-> FALSE]
        BY <2>3, <3>1, <4>1, Zenon
      <4>3. h.pfn = UserFrame(asid, page) /\ h.valid = v /\ h.dirty = d
        BY <4>2
      <4> QED
        BY <4>1, <4>3, Zenon
    <3>3. HalfOK(pt, {}, {}, asid, page, h)
      BY <2>2, <3>2 DEF HalfOK
    <3> QED
      BY <3>1, <3>3
  <2> QED
    BY <2>1, <2>5, <2>6
<1>3. lo \in [0 .. 1 -> Lo]
  <2>1. lo = [odd \in 0 .. 1 |-> lo[odd]]
    BY DEF PtePair
  <2> QED
    BY <1>2, <2>1
<1> QED
  BY <1>2, <1>3 DEF UserHalves

(* The refill handler's address in the page table.                         *)
LEMMA TableOffset ==
  ASSUME NEW asid \in ASID, NEW o \in Ops[asid]
  PROVE  PageOf(o.vaddr) \in 0 .. PageSize - 1
<1>1. PICK page \in UserPage[asid] : page = o.vaddr \div PageSize
  BY OpPage
<1>2. page < 2 * PageSize
  BY Sizes, KernelAssumption
<1>3. PICK h \in 0 .. 1 : page = 2 * PageOf(o.vaddr) + h
  BY <1>1, OpPage, Halves
<1>4. PageOf(o.vaddr) \in Nat
  BY OpPage, Halves
<1> QED
  BY <1>2, <1>3, <1>4, Sizes

LEMMA RefillLoadMap ==
  ASSUME MapInv, WiredInv', RefillLoad
  PROVE  MapInv'
<1>1. PICK asid \in ASID, o \in {r.context} :
        asid = r.entryhi.asid /\ o = r.context
  BY InMap DEF RefillLoad, At, BootPlace
<1>2. pc = "refill" /\ UNCHANGED <<tlb, op, pt, saved>>
  BY DEF RefillLoad, At
<1>3. pc \notin BootPlace /\ r.sr.exl = TRUE
  BY <1>2, AfterBoot DEF BootPlace, Handler, MapInv
<1>4. o = PageOf(op.vaddr) /\ r.entryhi.vpn2 = o /\ r.epc = "user"
  BY <1>1, <1>2, <1>3, InMap DEF PlaceMap
<1>5. o \in 0 .. PageSize - 1 /\ UserPair(o)
  BY <1>1, <1>3, <1>4, InMap, TableOffset, UserPairs
<1>6. PICK v \in Nat : v = PTBASE + o /\ v = TableAddress(r.context)
  BY <1>1, <1>5, KernelFacts DEF TableAddress
<1>7. PICK a : a = GetPhaddr(tlb, r, PTBASE + o, FALSE)
  OBVIOUS
<1>8. a = Access(TableAddress(r.context), FALSE)
  BY <1>6, <1>7 DEF Access
<1>9. \/ Absent(tlb, asid, PageOf(PTBASE)) /\ a = Fault("TLBL", TRUE)
      \/ a = Found(TableFrame(asid) * PageSize + o)
  BY <1>1, <1>3, <1>5, <1>7, TableAccess DEF KernelMode
<1>10. CASE a = Found(TableFrame(asid) * PageSize + o)
  <2>1. PICK w : w = TableFrame(asid) * PageSize + o
    OBVIOUS
  <2>2. a.exc = "NONE" /\ a.paddr = w
    BY <1>10, <2>1 DEF Found
  <2>3. w \div PageSize - TableFrame(0) = asid
    <3>1. PICK b \in Nat \ {0} : b = PageSize
      BY Sizes
    <3>2. TableFrame(asid) \in Nat /\ TableFrame(asid) - TableFrame(0) = asid
      BY Cp0Assumption DEF TableFrame
    <3>3. w \div b = TableFrame(asid)
      BY <1>5, <2>1, <3>1, <3>2, Remainder
    <3> QED
      BY <3>1, <3>2, <3>3
  <2>4. PICK lo : lo = PtePair(asid, o)
    OBVIOUS
  <2>5. PICK g : g = [r EXCEPT !.entrylo = lo]
    OBVIOUS
  <2>6. pc' = "refill_write" /\ Steps(g)
    BY <1>1, <1>8, <2>2, <2>3, <2>4, <2>5 DEF RefillLoad
  <2>7. lo \in [0 .. 1 -> Lo] /\ UserHalves(pt, {}, {}, asid, o, lo)
    BY <1>3, <1>5, <2>4, InMap, PteHalves
  <2>8. /\ Shape(g) /\ RegTypes(g) /\ g.entrylo = lo /\ g.wired = r.wired
        /\ g.random = r.random /\ g.entryhi = r.entryhi
        /\ g.pagemask = r.pagemask /\ g.sr = r.sr /\ g.epc = r.epc
        /\ g.cause = r.cause
    BY <1>3, <2>5, <2>7, InMap, LoadedTypes
  <2>9. PlaceMap(g, "refill_write", op', saved')
    BY <1>2, <1>3, <1>4, <2>8, InMap
       DEF PlaceMap, Resume, FaultPlace, DropPlace, Within
  <2>10. WriteMap(g, "refill_write", op', tlb, pt)
    <3>1. Absent(tlb, asid, o)
      BY <1>1, <1>2, <1>3, <1>4, InMap DEF WriteMap
    <3> QED
      BY <1>1, <1>4, <2>7, <2>8, <3>1 DEF WriteMap
  <2>11. /\ Up(g, "refill_write", op') = Up(r, pc, op)
         /\ Down(g, "refill_write", op') = Down(r, pc, op)
    BY <1>2 DEF Up, Down, Within, FaultPlace, DropPlace
  <2>12. "refill_write" \notin BootPlace
    BY DEF BootPlace
  <2> QED
    BY <1>2, <1>3, <2>6, <2>8, <2>9, <2>10, <2>11, <2>12, PlainMap
<1>11. CASE Absent(tlb, asid, PageOf(PTBASE)) /\ a = Fault("TLBL", TRUE)
  <2>1. a.exc = "TLBL"
    BY <1>11 DEF Fault
  <2>2. PICK e, f : e = "TLBL" /\ f = a.refill
    OBVIOUS
  <2>3. Raise(e, f, v)
    BY <1>6, <1>8, <2>1, <2>2 DEF RefillLoad
  <2>4. pc' = "general"
    BY <1>3, <2>2, <2>3 DEF Raise, Vector
  <2>5. PICK g : g = Raised(r, e, pc, v)
    OBVIOUS
  <2>6. /\ g.cause.exc = e /\ g.badvaddr = v /\ g.entryhi.asid = asid
        /\ g.entryhi.vpn2 = PageOf(v)
    <3>1. RaisedRegs(r, g, e, pc, v)
      BY <1>3, <2>5, InMap, RaiseTypes
    <3> QED
      BY <1>1, <3>1 DEF RaisedRegs, Excepted
  <2>7. PageOf(v) = PageOf(PTBASE)
    <3>1. PICK n \in Nat, q \in Nat \ {0} :
            /\ n = PageOf(PTBASE) /\ q = PairSize /\ PTBASE = n * q
      <4>1. PICK m \in Nat \ {0} : /\ PTBASE = (8 * m + 8) * PageSize
                                   /\ PageOf(PTBASE) = 4 * m + 4
        BY Pairs
      <4>2. PICK b \in Nat \ {0} : b = PageSize
        BY Sizes
      <4>3. (8 * m + 8) * b = (4 * m + 4) * (2 * b)
        OBVIOUS
      <4>4. 4 * m + 4 \in Nat /\ PairSize = 2 * b
        BY <4>2, Sizes
      <4> QED
        BY <4>1, <4>2, <4>3, <4>4, KernelFacts
    <3>2. n * q <= v /\ v < n * q + q
      BY <1>5, <1>6, <3>1, Sizes
    <3>3. v \div q = n
      BY <3>2, Quotient
    <3> QED
      BY <3>1, <3>3 DEF PageOf
  <2>8. v >= PTBASE /\ v >= KSEG0_MIN
    BY <1>5, <1>6, Sizes, KernelFacts DEF PTBASE, StackPair, STACK
  <2>9. FaultMap(g, op, tlb, pt)
    BY <1>11, <2>2, <2>6, <2>7, <2>8, KernelFacts DEF FaultMap
  <2>10. WriteMap(g, "general", op, tlb, pt)
    BY <2>9 DEF WriteMap
  <2> QED
    BY <1>2, <2>2, <2>3, <2>4, <2>5, <2>10, RaiseMap
<1> QED
  BY <1>9, <1>10, <1>11

-----------------------------------------------------------------------------
(* An instruction of a handler that stays at its program's instruction.    *)
LEMMA TableMissMap ==
  ASSUME MapInv, WiredInv', TableMiss
  PROVE  MapInv'
<1>1. PICK asid \in ASID : asid = r.entryhi.asid
  BY InMap DEF TableMiss, Goto, At, BootPlace
<1>2. PICK lo : lo = [odd \in 0 .. 1 |->
                        [pfn |-> TableFrame(asid), valid |-> odd = 0,
                         dirty |-> FALSE, global |-> FALSE]]
  OBVIOUS
<1>3. PICK g : g = [r EXCEPT !.entrylo = lo]
  OBVIOUS
<1>4. /\ pc = "general" /\ pc' = "refill_write" /\ Steps(g)
      /\ UNCHANGED <<tlb, op, pt, saved>>
      /\ r.cause.exc = "TLBL" /\ r.badvaddr >= PTBASE
  BY <1>1, <1>2, <1>3 DEF TableMiss, Goto, At
<1>5. pc \notin BootPlace /\ "refill_write" \notin BootPlace
  BY <1>4 DEF BootPlace
<1>6. TableFrame(asid) \in Nat
  BY Cp0Assumption DEF TableFrame
<1>7. /\ lo \in [0 .. 1 -> Lo]
      /\ lo[0].valid = TRUE /\ lo[0].pfn = TableFrame(asid)
  <2>1. \A odd \in 0 .. 1 : [pfn |-> TableFrame(asid), valid |-> odd = 0,
                             dirty |-> FALSE, global |-> FALSE] \in Lo
    BY <1>6 DEF Lo
  <2>2. lo \in [0 .. 1 -> Lo]
    BY <1>2, <2>1
  <2>3. PICK t : t = (0 = 0)
    OBVIOUS
  <2>4. lo[0] = [pfn |-> TableFrame(asid), valid |-> t,
                 dirty |-> FALSE, global |-> FALSE]
    <3>1. lo[0] = [pfn |-> TableFrame(asid), valid |-> 0 = 0,
                   dirty |-> FALSE, global |-> FALSE]
      BY <1>2
    <3> QED
      BY <2>3, <3>1, Zenon
  <2>5. t = TRUE
    BY <2>3, Zenon
  <2> QED
    BY <2>2, <2>4, <2>5
<1>8. /\ Shape(g) /\ RegTypes(g) /\ g.entrylo = lo /\ g.wired = r.wired
      /\ g.random = r.random /\ g.entryhi = r.entryhi
      /\ g.pagemask = r.pagemask /\ g.sr = r.sr /\ g.epc = r.epc
      /\ g.cause = r.cause
  BY <1>3, <1>5, <1>7, InMap, LoadedTypes
<1>9. FaultMap(r, op, tlb, pt)
  BY <1>4, <1>5, InMap DEF WriteMap
<1>10. r.entryhi.vpn2 = PageOf(PTBASE) /\ Absent(tlb, asid, PageOf(PTBASE))
  BY <1>1, <1>4, <1>9 DEF FaultMap
<1>11. WriteMap(g, "refill_write", op', tlb, pt)
  BY <1>1, <1>7, <1>8, <1>10 DEF WriteMap, TableHalves
<1>12. r.epc = "user"
  BY <1>4, <1>5, InMap DEF PlaceMap
<1>13. PlaceMap(g, "refill_write", op', saved')
  BY <1>4, <1>5, <1>8, <1>12, InMap
     DEF PlaceMap, Resume, FaultPlace, DropPlace, Within
<1>14. /\ Up(g, "refill_write", op') = Up(r, pc, op)
       /\ Down(g, "refill_write", op') = Down(r, pc, op)
  BY <1>4, <1>12 DEF Up, Down, Within, FaultPlace, DropPlace
<1> QED
  BY <1>4, <1>5, <1>8, <1>11, <1>13, <1>14, PlainMap

(* TLBP of a page of the program.                                          *)
LEMMA Probed ==
  ASSUME MapInv, pc \notin BootPlace, r.entryhi.vpn2 = PageOf(op.vaddr),
         NEW x, x = GetTlbEntry(tlb, r, r.entryhi.vpn2)
  PROVE  \/ /\ x = NoMatch /\ x \in Entry \cup {NoMatch}
            /\ Absent(tlb, r.entryhi.asid, r.entryhi.vpn2)
         \/ /\ x # NoMatch /\ x \in Entry \cup {NoMatch}
            /\ Present(tlb, x, r.entryhi.asid, r.entryhi.vpn2)
<1>1. PICK page \in Nat : page = r.entryhi.vpn2 /\ UserPair(page)
  BY InMap, UserPairs DEF UserPair
<1>2. page \notin PageOf(STACK) .. PageOf(STACK) + 3
  BY <1>1, Pairs, KernelFacts DEF UserPair
<1>3. \/ x = NoMatch /\ Absent(tlb, r.entryhi.asid, page)
      \/ x # NoMatch /\ Present(tlb, x, r.entryhi.asid, page)
  BY <1>1, <1>2, MapEntries, LookupPage
<1> QED
  BY <1>1, <1>3 DEF Present

LEMMA FaultProbeMap ==
  ASSUME MapInv, WiredInv', FaultProbe
  PROVE  MapInv'
<1>1. PICK x : x = GetTlbEntry(tlb, r, r.entryhi.vpn2)
  OBVIOUS
<1>2. PICK g : g = [r EXCEPT !.index = x]
  OBVIOUS
<1>3. /\ pc = "fault_probe" /\ pc' = "fault_load" /\ Steps(g)
      /\ UNCHANGED <<tlb, op, pt, saved>>
  BY <1>1, <1>2 DEF FaultProbe, Goto, At, TlbLookup
<1>4. pc \notin BootPlace /\ "fault_load" \notin BootPlace
  BY <1>3 DEF BootPlace
<1>5. r.entryhi.vpn2 = PageOf(op.vaddr) /\ r.epc = "user"
  BY <1>3, <1>4, InMap DEF PlaceMap, FaultPlace
<1>6. /\ x \in Entry \cup {NoMatch}
      /\ x # NoMatch => Present(tlb, x, r.entryhi.asid, r.entryhi.vpn2)
  BY <1>1, <1>4, <1>5, Probed
<1>7. /\ Shape(g) /\ RegTypes(g) /\ g.index = x /\ g.wired = r.wired
      /\ g.random = r.random /\ g.entryhi = r.entryhi
      /\ g.pagemask = r.pagemask /\ g.sr = r.sr /\ g.epc = r.epc
      /\ g.cause = r.cause
  BY <1>2, <1>4, <1>6, InMap, IndexedTypes
<1>8. WriteMap(g, "fault_load", op', tlb, pt)
  BY <1>6, <1>7 DEF WriteMap
<1>9. PlaceMap(g, "fault_load", op', saved')
  BY <1>3, <1>4, <1>5, <1>7, InMap
     DEF PlaceMap, Resume, FaultPlace, DropPlace, Within
<1>10. /\ Up(g, "fault_load", op') = Up(r, pc, op)
       /\ Down(g, "fault_load", op') = Down(r, pc, op)
  BY <1>3, <1>7 DEF Up, Down, Within, FaultPlace, DropPlace, Current
<1> QED
  BY <1>3, <1>4, <1>7, <1>8, <1>9, <1>10, PlainMap

LEMMA FaultLoadMap ==
  ASSUME MapInv, WiredInv', FaultLoad
  PROVE  MapInv'
<1>1. PICK asid \in ASID : asid = r.entryhi.asid
  BY InMap DEF FaultLoad, Goto, At, BootPlace
<1>2. PICK pair : pair = r.entryhi.vpn2
  OBVIOUS
<1>3. PICK lo : lo = PtePair(asid, pair)
  OBVIOUS
<1>4. PICK g : g = [r EXCEPT !.entrylo = lo]
  OBVIOUS
<1>5. /\ pc = "fault_load" /\ pc' = "fault_write" /\ Steps(g)
      /\ UNCHANGED <<tlb, op, pt, saved>>
  BY <1>1, <1>2, <1>3, <1>4 DEF FaultLoad, Goto, At
<1>6. pc \notin BootPlace /\ "fault_write" \notin BootPlace
  BY <1>5 DEF BootPlace
<1>7. pair = PageOf(op.vaddr) /\ r.epc = "user"
  BY <1>2, <1>5, <1>6, InMap DEF PlaceMap, FaultPlace
<1>8. UserPair(pair)
  BY <1>6, <1>7, InMap, UserPairs
<1>9. lo \in [0 .. 1 -> Lo] /\ UserHalves(pt, {}, {}, asid, pair, lo)
  BY <1>3, <1>6, <1>8, InMap, PteHalves
<1>10. /\ Shape(g) /\ RegTypes(g) /\ g.entrylo = lo /\ g.wired = r.wired
       /\ g.random = r.random /\ g.entryhi = r.entryhi /\ g.index = r.index
       /\ g.pagemask = r.pagemask /\ g.sr = r.sr /\ g.epc = r.epc
       /\ g.cause = r.cause
  BY <1>4, <1>6, <1>9, InMap, LoadedTypes
<1>11. r.index # NoMatch => Present(tlb, r.index, asid, pair)
  BY <1>1, <1>2, <1>5, <1>6, InMap DEF WriteMap
<1>12. WriteMap(g, "fault_write", op', tlb, pt)
  BY <1>1, <1>2, <1>9, <1>10, <1>11 DEF WriteMap
<1>13. PlaceMap(g, "fault_write", op', saved')
  BY <1>2, <1>5, <1>6, <1>7, <1>10, InMap
     DEF PlaceMap, Resume, FaultPlace, DropPlace, Within
<1>14. /\ Up(g, "fault_write", op') = Up(r, pc, op)
       /\ Down(g, "fault_write", op') = Down(r, pc, op)
  BY <1>5, <1>10 DEF Up, Down, Within, FaultPlace, DropPlace, Current
<1> QED
  BY <1>5, <1>6, <1>10, <1>12, <1>13, <1>14, PlainMap

(* Registers of which SR is replaced.                                      *)
LEMMA StatusTypes ==
  ASSUME NEW g, Shape(g), RegTypes(g),
         NEW s, DOMAIN s = DOMAIN g.sr, s.ie \in BOOLEAN, s.exl \in BOOLEAN,
         s.im = g.sr.im, NEW h, h = [g EXCEPT !.sr = s]
  PROVE  /\ Shape(h) /\ RegTypes(h) /\ h.sr = s
         /\ h.wired = g.wired /\ h.random = g.random /\ h.index = g.index
         /\ h.pagemask = g.pagemask /\ h.entrylo = g.entrylo
         /\ h.entryhi = g.entryhi
         /\ h.context = g.context /\ h.epc = g.epc
         /\ h.cause = g.cause
<1>1. /\ h.cause = g.cause /\ h.count = g.count /\ h.compare = g.compare
      /\ h.sr = s /\ DOMAIN h = RegNames
      /\ h.wired = g.wired /\ h.random = g.random /\ h.index = g.index
      /\ h.pagemask = g.pagemask /\ h.entrylo = g.entrylo
      /\ h.entryhi = g.entryhi
      /\ h.context = g.context /\ h.epc = g.epc
  BY DEF Shape, RegNames
<1> QED
  BY <1>1 DEF RegTypes, Shape

LEMMA KernelEretMap ==
  ASSUME MapInv, WiredInv', KernelEret
  PROVE  MapInv'
<1>1. PICK s : s = [r.sr EXCEPT !.exl = FALSE]
  OBVIOUS
<1>2. PICK g : g = [r EXCEPT !.sr = s]
  OBVIOUS
<1>3. PICK q : q = r.epc
  OBVIOUS
<1>4. /\ pc = "eret" /\ pc' = q /\ Steps(g)
      /\ UNCHANGED <<tlb, op, pt, saved>>
  BY <1>1, <1>2, <1>3 DEF KernelEret, At, Eret
<1>5. pc \notin BootPlace
  BY <1>4 DEF BootPlace
<1>6. q \in Resume /\ q \notin BootPlace
  <2>1. q \in Resume
    BY <1>3, <1>5, AfterBoot DEF MapInv
  <2> QED
    BY <2>1 DEF Resume, BootPlace
<1>7. /\ DOMAIN s = DOMAIN r.sr /\ s.ie \in BOOLEAN /\ s.exl = FALSE
      /\ s.exl \in BOOLEAN /\ s.im = r.sr.im
  BY <1>1, <1>5, InMap DEF Shape
<1>8. /\ Shape(g) /\ RegTypes(g) /\ g.sr = s /\ g.wired = r.wired
      /\ g.random = r.random /\ g.entryhi = r.entryhi
      /\ g.pagemask = r.pagemask /\ g.epc = r.epc
      /\ g.cause = r.cause
  BY <1>2, <1>5, <1>7, InMap, StatusTypes
<1>9. \A places : "eret" \notin places =>
                    (Within(g, q, places) <=> Within(r, pc, places))
  BY <1>3, <1>4, <1>6 DEF Within, Resume
<1>10. "eret" \notin DropPlace /\ "eret" \notin DropPlace \cup {"unmap"}
  BY DEF DropPlace
<1>11. PlaceMap(g, q, op', saved')
  <2>1. Within(g, q, DropPlace \cup {"unmap"}) => op'.kind = "unmap"
    BY <1>4, <1>5, <1>9, <1>10, InMap DEF PlaceMap
  <2>2. q \notin FaultPlace \cup {"refill", "refill_write", "general"}
    BY <1>6 DEF Resume, FaultPlace
  <2>3. q \notin {"refill", "unmap_probe", "unmap_read", "unmap_write"}
                   \cup FaultPlace
    BY <1>6 DEF Resume, FaultPlace
  <2>4. q # "refill"
    BY <2>2
  <2> QED
    BY <1>4, <1>5, <1>7, <1>8, <2>1, <2>2, <2>3, <2>4, InMap DEF PlaceMap
<1>12. WriteMap(g, q, op', tlb, pt)
  BY <1>6 DEF WriteMap, Resume
<1>13. /\ Up(g, q, op') = Up(r, pc, op) /\ Down(g, q, op') = Down(r, pc, op)
  <2>1. q \notin FaultPlace /\ pc \notin FaultPlace
    BY <1>4, <1>6 DEF Resume, FaultPlace
  <2> QED
    BY <1>4, <1>8, <1>9, <1>10, <2>1 DEF Up, Down, Current
<1> QED
  BY <1>4, <1>5, <1>6, <1>8, <1>11, <1>12, <1>13, PlainMap

LEMMA AcknowledgeMap ==
  ASSUME MapInv, WiredInv', Acknowledge
  PROVE  MapInv'
<1>1. PICK f : f = [r EXCEPT !.compare = r.compare]
  OBVIOUS
<1>2. PICK g : g = ClearInterrupt(f, COMPARE_CONNECTED)
  OBVIOUS
<1>3. /\ pc = "int" /\ pc' = "eret" /\ Steps(g)
      /\ UNCHANGED <<tlb, op, pt, saved>>
  BY <1>1, <1>2 DEF Acknowledge, Goto, At, WriteCompare, Steps
<1>4. pc \notin BootPlace /\ "eret" \notin BootPlace
  BY <1>3 DEF BootPlace
<1>5. /\ DOMAIN f = RegNames /\ Kept(r, f) /\ f.random = r.random
      /\ f.cause = r.cause /\ f.count = r.count /\ f.compare = r.compare
  BY <1>1, <1>4, InMap DEF Shape, RegNames, Kept
<1>6. PICK c : c = [r.cause EXCEPT !.ip = r.cause.ip \ {COMPARE_CONNECTED}]
  OBVIOUS
<1>7. /\ DOMAIN c = {"exc", "bd", "iv", "ip"} /\ c.ip \subseteq 0 .. 7
      /\ c.iv = r.cause.iv
  BY <1>4, <1>6, InMap DEF RegTypes
<1>8. /\ DOMAIN g = RegNames /\ Kept(f, g) /\ g.random = f.random
      /\ g.cause = c /\ g.count = r.count /\ g.compare = r.compare
  BY <1>2, <1>5, <1>6 DEF ClearInterrupt, RegNames, Kept
<1>9. /\ g.index = r.index /\ g.wired = r.wired /\ g.random = r.random
      /\ g.pagemask = r.pagemask /\ g.entrylo = r.entrylo
      /\ g.entryhi = r.entryhi /\ g.sr = r.sr /\ g.epc = r.epc
  BY <1>5, <1>8 DEF Kept
<1>10. Shape(g) /\ RegTypes(g)
  BY <1>4, <1>7, <1>8, <1>9, InMap DEF Shape, RegTypes
<1>11. \A places : "eret" \notin places /\ "int" \notin places =>
                     (Within(g, "eret", places) <=> Within(r, pc, places))
  BY <1>3, <1>9 DEF Within
<1>12. \A places \in {DropPlace, DropPlace \cup {"unmap"}} :
         Within(g, "eret", places) <=> Within(r, pc, places)
  BY <1>11 DEF DropPlace
<1>13. WriteMap(g, "eret", op', tlb, pt)
  BY DEF WriteMap
<1>14. PlaceMap(g, "eret", op', saved')
  BY <1>3, <1>4, <1>7, <1>8, <1>9, <1>12, InMap
     DEF PlaceMap, Resume, FaultPlace
<1>15. /\ Up(g, "eret", op') = Up(r, pc, op)
       /\ Down(g, "eret", op') = Down(r, pc, op)
  BY <1>3, <1>9, <1>12 DEF Up, Down, FaultPlace, Current
<1> QED
  BY <1>3, <1>4, <1>9, <1>10, <1>13, <1>14, <1>15, PlainMap

-----------------------------------------------------------------------------
(* The system calls.                                                       *)
LEMMA SwitchMap ==
  ASSUME MapInv, WiredInv', Switch
  PROVE  MapInv'
<1>1. PICK asid \in ASID :
        op' \in Ops[asid] /\ Steps([r EXCEPT !.entryhi.asid = asid])
  BY DEF Switch
<1>2. PICK hi : hi = [r.entryhi EXCEPT !.asid = asid]
  OBVIOUS
<1>3. PICK g : g = [r EXCEPT !.entryhi = hi]
  OBVIOUS
<1>4. /\ pc = "general" /\ pc' = "eret" /\ Steps(g)
      /\ UNCHANGED <<tlb, pt, saved>>
  BY <1>1, <1>2, <1>3 DEF Switch, Called, At
<1>5. pc \notin BootPlace /\ "eret" \notin BootPlace
  BY <1>4 DEF BootPlace
<1>6. /\ DOMAIN hi = {"vpn2", "asid"} /\ hi.asid = asid /\ hi.vpn2 \in Nat
  BY <1>2, <1>5, InMap DEF Shape, RegTypes
<1>7. /\ DOMAIN g = RegNames /\ g.wired = r.wired /\ g.index = r.index
      /\ g.random = r.random /\ g.entryhi = hi /\ g.entrylo = r.entrylo
      /\ g.pagemask = r.pagemask /\ g.sr = r.sr /\ g.epc = r.epc
      /\ g.cause = r.cause /\ g.count = r.count /\ g.compare = r.compare
  BY <1>3, <1>5, InMap DEF Shape, RegNames
<1>8. Shape(g) /\ RegTypes(g)
  BY <1>5, <1>6, <1>7, InMap DEF Shape, RegTypes
<1>9. r.epc = "user"
  BY <1>4, <1>5, InMap DEF PlaceMap
<1>10. WriteMap(g, "eret", op', tlb, pt)
  BY DEF WriteMap
<1>11. PlaceMap(g, "eret", op', saved')
  BY <1>1, <1>4, <1>5, <1>6, <1>7, <1>9, InMap
     DEF PlaceMap, Resume, FaultPlace, DropPlace, Within
<1>12. /\ Up(g, "eret", op') = Up(r, pc, op)
       /\ Down(g, "eret", op') = Down(r, pc, op)
  BY <1>4, <1>7, <1>9 DEF Up, Down, Within, FaultPlace, DropPlace
<1> QED
  BY <1>4, <1>5, <1>7, <1>8, <1>10, <1>11, <1>12, PlainMap

LEMMA UnmapEnterMap ==
  ASSUME MapInv, WiredInv', UnmapEnter
  PROVE  MapInv'
<1>1. PICK s : s = [r.sr EXCEPT !.exl = FALSE, !.user = FALSE]
  OBVIOUS
<1>2. PICK g : g = [r EXCEPT !.sr = s]
  OBVIOUS
<1>3. /\ pc = "general" /\ pc' = "unmap" /\ saved' = r.epc
      /\ UNCHANGED <<tlb, op, pt>> /\ op.kind = "unmap"
      /\ Steps([r EXCEPT !.sr.exl = FALSE, !.sr.user = FALSE])
  BY DEF UnmapEnter, Called, At
<1>4. pc \notin BootPlace /\ "unmap" \notin BootPlace
  BY <1>3 DEF BootPlace
<1>5. Steps(g)
  <2>1. g = [r EXCEPT !.sr.exl = FALSE, !.sr.user = FALSE]
    BY <1>1, <1>2, <1>4, InMap DEF Shape, RegNames
  <2> QED
    BY <1>3, <2>1
<1>6. /\ DOMAIN s = DOMAIN r.sr /\ s.ie \in BOOLEAN /\ s.exl = FALSE
      /\ s.exl \in BOOLEAN /\ s.im = r.sr.im
  BY <1>1, <1>4, InMap DEF Shape
<1>7. /\ Shape(g) /\ RegTypes(g) /\ g.sr = s /\ g.wired = r.wired
      /\ g.random = r.random /\ g.entryhi = r.entryhi
      /\ g.pagemask = r.pagemask /\ g.epc = r.epc
      /\ g.cause = r.cause
  BY <1>2, <1>4, <1>6, InMap, StatusTypes
<1>8. r.epc = "user"
  BY <1>3, <1>4, InMap DEF PlaceMap
<1>9. WriteMap(g, "unmap", op', tlb, pt)
  BY DEF WriteMap
<1>10. PlaceMap(g, "unmap", op', saved')
  BY <1>3, <1>4, <1>6, <1>7, <1>8, InMap
     DEF PlaceMap, Resume, FaultPlace, DropPlace, Within
<1>11. /\ Up(g, "unmap", op') = Up(r, pc, op)
       /\ Down(g, "unmap", op') = Down(r, pc, op)
  BY <1>3 DEF Up, Down, Within, FaultPlace, DropPlace
<1> QED
  BY <1>3, <1>4, <1>5, <1>7, <1>9, <1>10, <1>11, PlainMap

LEMMA UnmapMaskMap ==
  ASSUME MapInv, WiredInv', UnmapMask
  PROVE  MapInv'
<1>1. PICK s : s = [r.sr EXCEPT !.ie = FALSE]
  OBVIOUS
<1>2. PICK g : g = [r EXCEPT !.sr = s]
  OBVIOUS
<1>3. /\ pc = "unmap_mask" /\ pc' = "unmap_hi" /\ Steps(g)
      /\ UNCHANGED <<tlb, op, pt, saved>>
  BY <1>1, <1>2 DEF UnmapMask, Goto, At
<1>4. pc \notin BootPlace /\ "unmap_hi" \notin BootPlace
  BY <1>3 DEF BootPlace
<1>5. /\ DOMAIN s = DOMAIN r.sr /\ s.ie \in BOOLEAN
      /\ s.exl \in BOOLEAN /\ s.im = r.sr.im
  BY <1>1, <1>4, InMap DEF Shape
<1>6. /\ Shape(g) /\ RegTypes(g) /\ g.wired = r.wired
      /\ g.random = r.random /\ g.entryhi = r.entryhi
      /\ g.pagemask = r.pagemask /\ g.epc = r.epc
      /\ g.cause = r.cause
  BY <1>2, <1>4, <1>5, InMap, StatusTypes
<1>7. WriteMap(g, "unmap_hi", op', tlb, pt)
  BY DEF WriteMap
<1>8. PlaceMap(g, "unmap_hi", op', saved')
  BY <1>3, <1>4, <1>6, InMap
     DEF PlaceMap, Resume, FaultPlace, DropPlace, Within
<1>9. /\ Up(g, "unmap_hi", op') = Up(r, pc, op)
       /\ Down(g, "unmap_hi", op') = Down(r, pc, op)
  BY <1>3, <1>6 DEF Up, Down, Within, FaultPlace, DropPlace, Current
<1> QED
  BY <1>3, <1>4, <1>6, <1>7, <1>8, <1>9, PlainMap

LEMMA UnmapHiMap ==
  ASSUME MapInv, WiredInv', UnmapHi
  PROVE  MapInv'
<1>1. PICK p : p = op.vaddr \div PairSize
  OBVIOUS
<1>2. PICK hi : hi = [r.entryhi EXCEPT !.vpn2 = p]
  OBVIOUS
<1>3. PICK g : g = [r EXCEPT !.entryhi = hi]
  OBVIOUS
<1>4. /\ pc = "unmap_hi" /\ pc' = "unmap_probe" /\ Steps(g)
      /\ UNCHANGED <<tlb, op, pt, saved>>
  BY <1>1, <1>2, <1>3 DEF UnmapHi, Goto, At
<1>5. pc \notin BootPlace /\ "unmap_probe" \notin BootPlace
  BY <1>4 DEF BootPlace
<1>6. p = PageOf(op.vaddr) /\ p \in Nat
  BY <1>1, <1>5, InMap, UserPairs DEF UserPair, PageOf
<1>7. /\ DOMAIN hi = {"vpn2", "asid"} /\ hi.asid = r.entryhi.asid
      /\ hi.vpn2 = p
  BY <1>2, <1>5, InMap DEF Shape
<1>8. /\ DOMAIN g = RegNames /\ g.wired = r.wired /\ g.index = r.index
      /\ g.random = r.random /\ g.entryhi = hi /\ g.entrylo = r.entrylo
      /\ g.pagemask = r.pagemask /\ g.sr = r.sr /\ g.epc = r.epc
      /\ g.cause = r.cause /\ g.count = r.count /\ g.compare = r.compare
  BY <1>3, <1>5, InMap DEF Shape, RegNames
<1>9. Shape(g) /\ RegTypes(g)
  BY <1>5, <1>6, <1>7, <1>8, InMap DEF Shape, RegTypes
<1>10. WriteMap(g, "unmap_probe", op', tlb, pt)
  BY DEF WriteMap
<1>11. PlaceMap(g, "unmap_probe", op', saved')
  BY <1>4, <1>5, <1>6, <1>7, <1>8, InMap
     DEF PlaceMap, Resume, FaultPlace, DropPlace, Within
<1>12. /\ Up(g, "unmap_probe", op') = Up(r, pc, op)
       /\ Down(g, "unmap_probe", op') = Down(r, pc, op)
  BY <1>4, <1>7, <1>8 DEF Up, Down, Within, FaultPlace, DropPlace, Current
<1> QED
  BY <1>4, <1>5, <1>8, <1>9, <1>10, <1>11, <1>12, PlainMap

LEMMA UnmapExitMap ==
  ASSUME MapInv, WiredInv', UnmapExit
  PROVE  MapInv'
<1>1. PICK s : s = [r.sr EXCEPT !.exl = TRUE, !.user = TRUE, !.ie = TRUE]
  OBVIOUS
<1>2. PICK g : g = [r EXCEPT !.sr = s, !.epc = "user"]
  OBVIOUS
<1>3. /\ pc = "unmap_exit" /\ pc' = "eret" /\ op' \in Ops[r.entryhi.asid]
      /\ UNCHANGED <<tlb, pt, saved>>
      /\ Steps([r EXCEPT !.sr.exl = TRUE, !.sr.user = TRUE, !.sr.ie = TRUE,
                         !.epc = saved])
  BY DEF UnmapExit, Goto, At
<1>4. pc \notin BootPlace /\ "eret" \notin BootPlace
  BY <1>3 DEF BootPlace
<1>5. Steps(g)
  <2>1. g = [r EXCEPT !.sr.exl = TRUE, !.sr.user = TRUE, !.sr.ie = TRUE,
                      !.epc = saved]
    BY <1>1, <1>2, <1>4, InMap DEF Shape, RegNames
  <2> QED
    BY <1>3, <2>1
<1>6. /\ DOMAIN s = DOMAIN r.sr /\ s.ie = TRUE /\ s.exl = TRUE
      /\ s.im = r.sr.im
  BY <1>1, <1>4, InMap DEF Shape
<1>7. /\ DOMAIN g = RegNames /\ g.wired = r.wired /\ g.index = r.index
      /\ g.random = r.random /\ g.entryhi = r.entryhi
      /\ g.entrylo = r.entrylo
      /\ g.pagemask = r.pagemask /\ g.sr = s /\ g.epc = "user"
      /\ g.cause = r.cause /\ g.count = r.count /\ g.compare = r.compare
  BY <1>2, <1>4, InMap DEF Shape, RegNames
<1>8. Shape(g) /\ RegTypes(g)
  BY <1>4, <1>6, <1>7, InMap DEF Shape, RegTypes
<1>9. WriteMap(g, "eret", op', tlb, pt)
  BY DEF WriteMap
<1>10. PlaceMap(g, "eret", op', saved')
  BY <1>3, <1>4, <1>7, InMap
     DEF PlaceMap, Resume, FaultPlace, DropPlace, Within
<1>11. /\ Up(g, "eret", op') = Up(r, pc, op)
       /\ Down(g, "eret", op') = Down(r, pc, op)
  BY <1>3, <1>7 DEF Up, Down, Within, FaultPlace, DropPlace
<1> QED
  BY <1>3, <1>4, <1>5, <1>7, <1>8, <1>9, <1>10, <1>11, PlainMap

-----------------------------------------------------------------------------
(* The entries that do not hold the page of v do not depend on which of    *)
(* the sets it is in.                                                      *)
LEMMA Clean ==
  ASSUME NEW tables, NEW up, NEW down, NEW asid, NEW v \in Nat,
         up \cup down \subseteq {<<asid, v \div PageSize>>},
         NEW e, EntryContent(tables, up, down, e),
         ~ (e.vpn2 = PageOf(v) /\ e.asid = asid)
  PROVE  EntryContent(tables, {}, {}, e)
<1>1. CASE UserHalves(tables, up, down, e.asid, e.vpn2, e.lo)
  <2>1. UserPair(e.vpn2) /\ e.asid \in ASID
    BY <1>1 DEF UserHalves
  <2>2. ASSUME NEW odd \in 0 .. 1
        PROVE  HalfOK(tables, {}, {}, e.asid, 2 * e.vpn2 + odd, e.lo[odd])
    <3>1. <<e.asid, 2 * e.vpn2 + odd>> \notin up \cup down
      <4> SUFFICES ASSUME <<e.asid, 2 * e.vpn2 + odd>> \in up \cup down
                   PROVE  FALSE
        OBVIOUS
      <4>1. e.asid = asid /\ 2 * e.vpn2 + odd = v \div PageSize
        OBVIOUS
      <4>2. PICK h \in 0 .. 1 : v \div PageSize = 2 * PageOf(v) + h
        BY Halves
      <4>3. PICK n \in Nat, m \in Nat : n = e.vpn2 /\ m = PageOf(v)
        BY <2>1, Halves DEF UserPair
      <4>4. n = m
        BY <4>1, <4>2, <4>3
      <4> QED
        BY <4>1, <4>3, <4>4
    <3>2. HalfOK(tables, up, down, e.asid, 2 * e.vpn2 + odd, e.lo[odd])
      BY <1>1 DEF UserHalves
    <3> QED
      BY <3>1, <3>2 DEF HalfOK
  <2>3. UserHalves(tables, {}, {}, e.asid, e.vpn2, e.lo)
    BY <2>1, <2>2 DEF UserHalves
  <2> QED
    BY <2>3 DEF EntryContent
<1>2. CASE ~ UserHalves(tables, up, down, e.asid, e.vpn2, e.lo)
  BY <1>2 DEF EntryContent
<1> QED
  BY <1>1, <1>2

(* The page c has changed in the tables, and is in one of the sets.        *)
Grows(tables, next, up, down, asid, page) ==
  /\ \A a \in ASID : \A p :
       a # asid \/ p # page => Mode(next, a, p) = Mode(tables, a, p)
  /\ \/ /\ up = {<<asid, page>>} /\ down = {}
        /\ \/ Mode(next, asid, page) = "rw"
           \/ Mode(next, asid, page) = "ro" /\ Mode(tables, asid, page) = "none"
     \/ up = {} /\ down = {<<asid, page>>}

LEMMA Grown ==
  ASSUME NEW tables, NEW next, NEW up, NEW down, NEW asid, NEW page,
         Grows(tables, next, up, down, asid, page),
         NEW e, EntryContent(tables, {}, {}, e)
  PROVE  EntryContent(next, up, down, e)
<1>1. CASE UserHalves(tables, {}, {}, e.asid, e.vpn2, e.lo)
  <2> e.asid \in ASID
    BY <1>1 DEF UserHalves
  <2>1. ASSUME NEW p, NEW lo, HalfOK(tables, {}, {}, e.asid, p, lo)
        PROVE  HalfOK(next, up, down, e.asid, p, lo)
    <3>1. CASE e.asid = asid /\ p = page
      BY <2>1, <3>1 DEF HalfOK, Grows
    <3>2. CASE ~ (e.asid = asid /\ p = page)
      <4>1. Mode(next, e.asid, p) = Mode(tables, e.asid, p)
        BY <3>2 DEF Grows
      <4>2. <<e.asid, p>> \notin up \cup down
        BY <3>2 DEF Grows
      <4> QED
        BY <2>1, <4>1, <4>2 DEF HalfOK
    <3> QED
      BY <3>1, <3>2
  <2>2. UserHalves(next, up, down, e.asid, e.vpn2, e.lo)
    BY <1>1, <2>1 DEF UserHalves
  <2> QED
    BY <2>2 DEF EntryContent
<1>2. CASE ~ UserHalves(tables, {}, {}, e.asid, e.vpn2, e.lo)
  BY <1>2 DEF EntryContent
<1> QED
  BY <1>1, <1>2

(* An instruction after the boot, whatever it does to the TLB and to the   *)
(* page tables.                                                            *)
LEMMA HeldMap ==
  ASSUME MapInv, WiredInv', pc \notin BootPlace,
         NEW q, pc' = q, q \notin BootPlace,
         NEW g, Shape(g), g.wired = r.wired, g.random = r.random, Steps(g),
         RegTypes(g), TablesOK(pt'), EntryTypes(tlb'),
         StackEntry(tlb'[0]), Distinct(tlb'),
         EntriesHold(tlb', pt', Up(g, q, op'), Down(g, q, op')),
         Within(g, q, DropPlace) =>
           Mode(pt', g.entryhi.asid, op'.vaddr \div PageSize) = "none",
         PlaceMap(g, q, op', saved'), WriteMap(g, q, op', tlb', pt')
  PROVE  MapInv'
<1>1. EntriesMap(g, q, op', tlb', pt')
  BY DEF EntriesMap
<1>2. BootMap(g, q, tlb')
  BY DEF BootMap
<1>3. Map(g, pc', op', saved', tlb', pt')
  BY <1>1, <1>2 DEF Map
<1> QED
  BY <1>3, CloseMap, InMap

(* The sets are about the page of the current instruction.                 *)
LEMMA SetsCurrent ==
  ASSUME NEW g, NEW p, NEW o
  PROVE  Up(g, p, o) \cup Down(g, p, o) \subseteq {Current(g, o)}
BY DEF Up, Down

LEMMA UnmapProbeMap ==
  ASSUME MapInv, WiredInv', UnmapProbe
  PROVE  MapInv'
<1>1. PICK x : x = GetTlbEntry(tlb, r, r.entryhi.vpn2)
  OBVIOUS
<1>2. PICK g : g = [r EXCEPT !.index = x]
  OBVIOUS
<1>3. pc = "unmap_probe" /\ Steps(g) /\ UNCHANGED <<tlb, op, pt, saved>>
  BY <1>1, <1>2 DEF UnmapProbe, At, TlbLookup
<1>4. pc \notin BootPlace
  BY <1>3 DEF BootPlace
<1>5. r.entryhi.vpn2 = PageOf(op.vaddr) /\ op.kind = "unmap"
  BY <1>3, <1>4, InMap DEF PlaceMap, Within, DropPlace
<1>6. PICK asid \in ASID, v \in Nat : asid = r.entryhi.asid /\ v = op.vaddr
  BY <1>4, InMap, OpPage
<1>7. \/ /\ x = NoMatch /\ x \in Entry \cup {NoMatch}
         /\ Absent(tlb, asid, PageOf(v))
      \/ /\ x # NoMatch /\ x \in Entry \cup {NoMatch}
         /\ Present(tlb, x, asid, PageOf(v))
  BY <1>1, <1>4, <1>5, <1>6, Probed
<1>8. /\ Shape(g) /\ RegTypes(g) /\ g.index = x /\ g.wired = r.wired
      /\ g.random = r.random /\ g.entryhi = r.entryhi
      /\ g.pagemask = r.pagemask /\ g.sr = r.sr /\ g.epc = r.epc
      /\ g.cause = r.cause
  BY <1>2, <1>4, <1>7, InMap, IndexedTypes
<1>9. PICK q : q = IF x = NoMatch THEN "unmap_exit" ELSE "unmap_read"
  OBVIOUS
<1>10. pc' = q /\ q \notin BootPlace
  <2>1. TlbLookup(tlb, r) = g
    BY <1>1, <1>2 DEF TlbLookup
  <2> QED
    BY <1>8, <1>9, <2>1 DEF UnmapProbe, BootPlace
<1>11. PlaceMap(g, q, op', saved')
  BY <1>3, <1>4, <1>5, <1>8, <1>9, InMap
     DEF PlaceMap, Resume, FaultPlace, DropPlace, Within
<1>12. WriteMap(g, q, op', tlb, pt)
  BY <1>5, <1>6, <1>7, <1>8, <1>9 DEF WriteMap
<1>13. CASE x = NoMatch
  <2>1. q = "unmap_exit"
    BY <1>9, <1>13
  <2>2. /\ Up(g, q, op') = {} /\ Down(g, q, op') = {}
        /\ ~ Within(g, q, DropPlace)
    BY <2>1 DEF Up, Down, Within, FaultPlace, DropPlace
  <2>3. EntriesHold(tlb, pt, {}, {})
    <3> SUFFICES ASSUME NEW y \in Entry \ {0}
                 PROVE  EntryContent(pt, {}, {}, tlb[y])
      BY DEF EntriesHold
    <3>1. EntryContent(pt, Up(r, pc, op), Down(r, pc, op), tlb[y])
      BY <1>4, MapEntries DEF EntriesHold
    <3>2. ~ (tlb[y].vpn2 = PageOf(v) /\ tlb[y].asid = asid)
      <4>1. Absent(tlb, asid, PageOf(v))
        BY <1>7, <1>13
      <4> QED
        BY <4>1 DEF Absent, Holds
    <3>3. Up(r, pc, op) \cup Down(r, pc, op)
            \subseteq {<<asid, v \div PageSize>>}
      BY <1>6, SetsCurrent DEF Current
    <3> QED
      BY <3>1, <3>2, <3>3, Clean
  <2>4. StackEntry(tlb[0]) /\ Distinct(tlb) /\ TablesOK(pt) /\ EntryTypes(tlb)
    BY <1>4, MapEntries, InMap
  <2> QED
    BY <1>3, <1>4, <1>8, <1>10, <1>11, <1>12, <2>2, <2>3, <2>4, HeldMap
<1>14. CASE x # NoMatch
  <2>1. q = "unmap_read"
    BY <1>9, <1>14
  <2>2. /\ Up(g, q, op') = Up(r, pc, op) /\ Down(g, q, op') = Down(r, pc, op)
    BY <1>3, <1>8, <2>1 DEF Up, Down, Within, FaultPlace, DropPlace, Current
  <2> QED
    BY <1>3, <1>4, <1>8, <1>10, <1>11, <1>12, <2>2, PlainMap
<1> QED
  BY <1>13, <1>14

(* TLBR of the page that is given back, which is made invalid in what it   *)
(* returns.                                                                *)
LEMMA UnmapReadMap ==
  ASSUME MapInv, WiredInv', UnmapRead
  PROVE  MapInv'
<1>1. PICK x : x = r.index
  OBVIOUS
<1>2. PICK e : e = tlb[x]
  OBVIOUS
<1>3. PICK hi : hi = [vpn2 |-> e.vpn2, asid |-> e.asid]
  OBVIOUS
<1>4. PICK lo : lo = [odd \in 0 .. 1 |-> [e.lo[odd] EXCEPT !.global = e.global]]
  OBVIOUS
<1>5. PICK f : f = [r EXCEPT !.entryhi = hi, !.pagemask = e.pagemask,
                             !.entrylo = lo]
  OBVIOUS
<1>6. PICK n : n = (op.vaddr \div PageSize) % 2
  OBVIOUS
<1>7. PICK g : g = [f EXCEPT !.entrylo[n].valid = FALSE]
  OBVIOUS
<1>8. /\ pc = "unmap_read" /\ pc' = "unmap_write" /\ Steps(g)
      /\ UNCHANGED <<tlb, op, pt, saved>>
  BY <1>1, <1>2, <1>3, <1>4, <1>5, <1>6, <1>7 DEF UnmapRead, Goto, At, TlbRead
<1>9. pc \notin BootPlace /\ "unmap_write" \notin BootPlace
  BY <1>8 DEF BootPlace
<1>10. PICK asid \in ASID, v \in UserAddress :
         asid = r.entryhi.asid /\ v = op.vaddr
  BY <1>9, InMap
<1>11. v \in Nat /\ n \in 0 .. 1 /\ v \div PageSize = 2 * PageOf(v) + n
  <2>1. v \in Nat
    BY KernelFacts DEF UserAddress
  <2> QED
    BY <1>6, <1>10, <2>1, Halves
<1>12. r.entryhi.vpn2 = PageOf(v) /\ op.kind = "unmap"
  BY <1>8, <1>9, <1>10, InMap DEF PlaceMap, Within, DropPlace
<1>13. Present(tlb, x, asid, PageOf(v))
  BY <1>1, <1>8, <1>9, <1>10, <1>12, InMap DEF WriteMap
<1>14. /\ UserHalves(pt, Up(r, pc, op), Down(r, pc, op), asid, PageOf(v), e.lo)
       /\ e.lo \in [0 .. 1 -> Lo] /\ e.pagemask = 0
  BY <1>2, <1>9, <1>13, UserEntry
<1>15. /\ x \in Entry \ {0} /\ e.vpn2 = PageOf(v) /\ e.asid = asid
       /\ e.global = FALSE
  <2>1. x \in Entry \ {0} /\ e.vpn2 = PageOf(v) /\ e.asid = asid
    BY <1>2, <1>13 DEF Present, Holds
  <2> QED
    BY <1>2, <1>9, <2>1, InMap DEF EntriesOK
<1>16. PICK low : low = [lo EXCEPT ![n].valid = FALSE]
  OBVIOUS
<1>17. /\ low \in [0 .. 1 -> Lo] /\ low[n].valid = FALSE
       /\ \A odd \in 0 .. 1 :
            /\ low[odd].pfn = e.lo[odd].pfn /\ low[odd].dirty = e.lo[odd].dirty
            /\ odd # n => low[odd].valid = e.lo[odd].valid
  <2>1. \A odd \in 0 .. 1 :
          /\ lo[odd] = [e.lo[odd] EXCEPT !.global = FALSE]
          /\ lo[odd] \in Lo
    BY <1>4, <1>14, <1>15 DEF Lo
  <2>2. \A odd \in 0 .. 1 :
          /\ lo[odd] \in Lo
          /\ lo[odd].pfn = e.lo[odd].pfn /\ lo[odd].dirty = e.lo[odd].dirty
          /\ lo[odd].valid = e.lo[odd].valid
    BY <1>14, <2>1 DEF Lo
  <2>3. lo \in [0 .. 1 -> Lo]
    BY <1>4, <2>2
  <2>4. PICK h : h = [lo[n] EXCEPT !.valid = FALSE]
    OBVIOUS
  <2>5. /\ h \in Lo /\ h.pfn = lo[n].pfn /\ h.dirty = lo[n].dirty
        /\ h.valid = FALSE
    BY <1>11, <2>2, <2>4 DEF Lo
  <2>6. low = [lo EXCEPT ![n] = h]
    BY <1>11, <1>16, <2>3, <2>4
  <2>7. low[n] = h /\ \A odd \in 0 .. 1 : odd # n => low[odd] = lo[odd]
    BY <1>11, <2>3, <2>6
  <2>8. low \in [0 .. 1 -> Lo]
    BY <1>11, <2>3, <2>5, <2>6
  <2>9. ASSUME NEW odd \in 0 .. 1
        PROVE  /\ low[odd].pfn = e.lo[odd].pfn
               /\ low[odd].dirty = e.lo[odd].dirty
               /\ odd # n => low[odd].valid = e.lo[odd].valid
    BY <1>11, <2>2, <2>5, <2>7
  <2> QED
    BY <2>5, <2>7, <2>8, <2>9
<1>18. /\ DOMAIN f = RegNames /\ f.entrylo = lo /\ f.entryhi = hi
       /\ f.pagemask = 0 /\ f.cause = r.cause
       /\ f.count = r.count /\ f.compare = r.compare
       /\ f.index = r.index /\ f.wired = r.wired /\ f.random = r.random
       /\ f.sr = r.sr /\ f.epc = r.epc
  BY <1>5, <1>9, <1>14, InMap DEF Shape, RegNames
<1>19. /\ DOMAIN g = RegNames /\ g.entrylo = low /\ g.entryhi = hi
       /\ g.pagemask = 0 /\ g.cause = r.cause
       /\ g.count = r.count /\ g.compare = r.compare
       /\ g.index = r.index /\ g.wired = r.wired /\ g.random = r.random
       /\ g.sr = r.sr /\ g.epc = r.epc
  BY <1>7, <1>16, <1>18 DEF RegNames
<1>20. /\ DOMAIN hi = {"vpn2", "asid"} /\ hi.vpn2 = PageOf(v) /\ hi.asid = asid
       /\ hi.vpn2 \in Nat
  BY <1>3, <1>11, <1>15, Halves
<1>21. Shape(g) /\ RegTypes(g)
  <2>1. LoShape(low)
    BY <1>17 DEF LoShape, LoNames, Lo
  <2> QED
    BY <1>9, <1>17, <1>19, <1>20, <2>1, InMap DEF Shape, RegTypes
<1>22. Mode(pt, asid, v \div PageSize) = "none"
  <2>1. Within(r, pc, DropPlace)
    BY <1>8 DEF Within, DropPlace
  <2> QED
    BY <1>9, <1>10, <2>1, InMap DEF EntriesMap
<1>23. UserHalves(pt, {}, {}, asid, PageOf(v), low)
  <2>1. UserPair(PageOf(v))
    BY UserPairs
  <2>2. ASSUME NEW odd \in 0 .. 1
        PROVE  HalfOK(pt, {}, {}, asid, 2 * PageOf(v) + odd, low[odd])
    <3>1. HalfOK(pt, Up(r, pc, op), Down(r, pc, op), asid,
                 2 * PageOf(v) + odd, e.lo[odd])
      BY <1>14 DEF UserHalves
    <3>2. CASE odd = n
      <4>1. Mode(pt, asid, 2 * PageOf(v) + odd) = "none"
        BY <1>11, <1>22, <3>2
      <4>2. low[odd].valid = FALSE
        BY <1>17, <3>2
      <4> QED
        BY <4>1, <4>2 DEF HalfOK
    <3>3. CASE odd # n
      <4>1. /\ low[odd].pfn = e.lo[odd].pfn /\ low[odd].dirty = e.lo[odd].dirty
            /\ low[odd].valid = e.lo[odd].valid
        BY <1>17, <3>3
      <4>2. <<asid, 2 * PageOf(v) + odd>> \notin
              Up(r, pc, op) \cup Down(r, pc, op)
        <5>1. 2 * PageOf(v) + odd # v \div PageSize
          BY <1>11, <3>3, Halves
        <5>2. Current(r, op) = <<asid, v \div PageSize>>
          BY <1>10 DEF Current
        <5> QED
          BY <5>1, <5>2, SetsCurrent
      <4> QED
        BY <3>1, <4>1, <4>2 DEF HalfOK
    <3> QED
      BY <3>2, <3>3
  <2> QED
    BY <2>1, <2>2 DEF UserHalves
<1>24. WriteMap(g, "unmap_write", op', tlb, pt)
  BY <1>1, <1>13, <1>19, <1>20, <1>23 DEF WriteMap
<1>25. PlaceMap(g, "unmap_write", op', saved')
  BY <1>8, <1>9, <1>10, <1>12, <1>19, <1>20, InMap
     DEF PlaceMap, Resume, FaultPlace, DropPlace, Within
<1>26. /\ Up(g, "unmap_write", op') = Up(r, pc, op)
       /\ Down(g, "unmap_write", op') = Down(r, pc, op)
  BY <1>8, <1>10, <1>19, <1>20
     DEF Up, Down, Within, FaultPlace, DropPlace, Current
<1> QED
  BY <1>8, <1>9, <1>19, <1>21, <1>24, <1>25, <1>26, PlainMap

-----------------------------------------------------------------------------
(* The instructions that change a page table.                              *)
ChangedTo(next, asid, page, mode) ==
  /\ TablesOK(next) /\ Mode(next, asid, page) = mode
  /\ \A a \in ASID : \A p :
       a # asid \/ p # page => Mode(next, a, p) = Mode(pt, a, p)

LEMMA TableChange ==
  ASSUME TablesOK(pt), NEW asid \in ASID, NEW page \in UserPage[asid],
         NEW mode \in {"none", "ro", "rw"},
         NEW next, next = [pt EXCEPT ![asid][page] = mode]
  PROVE  ChangedTo(next, asid, page, mode)
<1>1. /\ DOMAIN pt = ASID
      /\ \A a \in ASID : pt[a] \in [UserPage[a] -> {"none", "ro", "rw"}]
  BY DEF TablesOK
<1>2. PICK one : one = [pt[asid] EXCEPT ![page] = mode]
  OBVIOUS
<1>3. /\ one \in [UserPage[asid] -> {"none", "ro", "rw"}]
      /\ one[page] = mode
      /\ \A p \in UserPage[asid] : p # page => one[p] = pt[asid][p]
  BY <1>1, <1>2
<1>4. next = [pt EXCEPT ![asid] = one]
  BY <1>1, <1>2
<1>5. /\ DOMAIN next = ASID /\ next[asid] = one
      /\ \A a \in ASID : a # asid => next[a] = pt[a]
  BY <1>1, <1>4
<1>6. TablesOK(next)
  BY <1>1, <1>3, <1>5 DEF TablesOK
<1>7. Mode(next, asid, page) = mode
  BY <1>3, <1>5 DEF Mode
<1>8. ASSUME NEW a \in ASID, NEW p, a # asid \/ p # page
      PROVE  Mode(next, a, p) = Mode(pt, a, p)
  <2>1. CASE a # asid
    BY <1>5, <2>1 DEF Mode
  <2>2. CASE a = asid
    BY <1>3, <1>5, <1>8, <2>2 DEF Mode
  <2> QED
    BY <2>1, <2>2
<1> QED
  BY <1>6, <1>7, <1>8 DEF ChangedTo

LEMMA PageFaultMap ==
  ASSUME MapInv, WiredInv', PageFault
  PROVE  MapInv'
<1>1. PICK asid \in ASID : asid = r.entryhi.asid
  BY InMap DEF PageFault, Goto, At, BootPlace
<1>2. PICK page : page = op.vaddr \div PageSize
  OBVIOUS
<1>3. /\ pc = "general" /\ pc' = "fault_probe" /\ Steps(r)
      /\ UNCHANGED <<tlb, op, saved>>
      /\ r.cause.exc \in {"TLBL", "TLBS", "MOD"} /\ r.badvaddr < KSEG0_MIN
      /\ pt' = [pt EXCEPT ![asid][r.badvaddr \div PageSize] =
                  IF r.cause.exc = "TLBL" THEN "ro" ELSE "rw"]
  BY <1>1 DEF PageFault, Goto, At
<1>4. pc \notin BootPlace /\ "fault_probe" \notin BootPlace
  BY <1>3 DEF BootPlace
<1>5. FaultMap(r, op, tlb, pt)
  BY <1>3, <1>4, InMap DEF WriteMap
<1>6. /\ r.badvaddr = op.vaddr /\ r.badvaddr \div PageSize = page
      /\ r.cause.exc = "TLBL" => Mode(pt, asid, page) = "none"
  BY <1>1, <1>2, <1>3, <1>5 DEF FaultMap
<1>7. page \in UserPage[asid]
  BY <1>1, <1>2, <1>4, InMap, OpPage
<1>8. PICK mode \in {"none", "ro", "rw"} :
        mode = IF r.cause.exc = "TLBL" THEN "ro" ELSE "rw"
  OBVIOUS
<1>9. pt' = [pt EXCEPT ![asid][page] = mode]
  BY <1>3, <1>6, <1>8
<1>10. ChangedTo(pt', asid, page, mode)
  BY <1>4, <1>7, <1>9, InMap, TableChange
<1>11. r.epc = "user"
  BY <1>3, <1>4, InMap DEF PlaceMap
<1>12. /\ Up(r, "fault_probe", op') = {<<asid, page>>}
       /\ Down(r, "fault_probe", op') = {}
       /\ ~ Within(r, "fault_probe", DropPlace)
  BY <1>1, <1>2, <1>3 DEF Up, Down, Within, FaultPlace, DropPlace, Current
<1>13. Grows(pt, pt', {<<asid, page>>}, {}, asid, page)
  BY <1>6, <1>8, <1>10 DEF Grows, ChangedTo
<1>14. Up(r, pc, op) = {} /\ Down(r, pc, op) = {}
  BY <1>3 DEF Up, Down, Within, FaultPlace, DropPlace
<1>15. EntriesHold(tlb, pt', {<<asid, page>>}, {})
  <2> SUFFICES ASSUME NEW y \in Entry \ {0}
               PROVE  EntryContent(pt', {<<asid, page>>}, {}, tlb[y])
    BY DEF EntriesHold
  <2>1. EntryContent(pt, {}, {}, tlb[y])
    BY <1>4, <1>14, MapEntries DEF EntriesHold
  <2> QED
    BY <1>13, <2>1, Grown
<1>16. /\ RegTypes(r) /\ Shape(r) /\ StackEntry(tlb[0]) /\ Distinct(tlb)
       /\ EntryTypes(tlb)
  BY <1>4, MapEntries, InMap
<1>17. r.entryhi.vpn2 = PageOf(op.vaddr)
  BY <1>3, <1>4, <1>6, AfterBoot DEF CarriedRegs, MapInv
<1>18. PlaceMap(r, "fault_probe", op', saved')
  BY <1>3, <1>4, <1>11, <1>17, InMap
     DEF PlaceMap, Resume, FaultPlace, DropPlace, Within
<1>19. WriteMap(r, "fault_probe", op', tlb', pt')
  BY DEF WriteMap
<1> QED
  BY <1>3, <1>4, <1>10, <1>12, <1>15, <1>16, <1>18, <1>19, HeldMap
     DEF ChangedTo

LEMMA UnmapPageMap ==
  ASSUME MapInv, WiredInv', UnmapPage
  PROVE  MapInv'
<1>1. PICK asid \in ASID : asid = r.entryhi.asid
  BY InMap DEF UnmapPage, Goto, At, BootPlace
<1>2. PICK page : page = op.vaddr \div PageSize
  OBVIOUS
<1>3. PICK mode \in {"none", "ro", "rw"} : mode = "none"
  OBVIOUS
<1>4. /\ pc = "unmap" /\ pc' = "unmap_mask" /\ Steps(r)
      /\ UNCHANGED <<tlb, op, saved>>
      /\ pt' = [pt EXCEPT ![asid][page] = mode]
  BY <1>1, <1>2, <1>3 DEF UnmapPage, Goto, At
<1>5. pc \notin BootPlace /\ "unmap_mask" \notin BootPlace
  BY <1>4 DEF BootPlace
<1>6. page \in UserPage[asid]
  BY <1>1, <1>2, <1>5, InMap, OpPage
<1>7. ChangedTo(pt', asid, page, mode)
  BY <1>4, <1>5, <1>6, InMap, TableChange
<1>8. /\ Up(r, "unmap_mask", op') = {}
      /\ Down(r, "unmap_mask", op') = {<<asid, page>>}
  BY <1>1, <1>2, <1>4 DEF Up, Down, Within, FaultPlace, DropPlace, Current
<1>9. Grows(pt, pt', {}, {<<asid, page>>}, asid, page)
  BY <1>7 DEF Grows, ChangedTo
<1>10. Up(r, pc, op) = {} /\ Down(r, pc, op) = {}
  BY <1>4 DEF Up, Down, Within, FaultPlace, DropPlace
<1>11. EntriesHold(tlb, pt', {}, {<<asid, page>>})
  <2> SUFFICES ASSUME NEW y \in Entry \ {0}
               PROVE  EntryContent(pt', {}, {<<asid, page>>}, tlb[y])
    BY DEF EntriesHold
  <2>1. EntryContent(pt, {}, {}, tlb[y])
    BY <1>5, <1>10, MapEntries DEF EntriesHold
  <2> QED
    BY <1>9, <2>1, Grown
<1>12. /\ RegTypes(r) /\ Shape(r) /\ StackEntry(tlb[0]) /\ Distinct(tlb)
       /\ EntryTypes(tlb)
  BY <1>5, MapEntries, InMap
<1>13. op.kind = "unmap"
  BY <1>4, <1>5, InMap DEF PlaceMap, Within
<1>14. PlaceMap(r, "unmap_mask", op', saved')
  BY <1>4, <1>5, <1>13, InMap
     DEF PlaceMap, Resume, FaultPlace, DropPlace, Within
<1>15. WriteMap(r, "unmap_mask", op', tlb', pt')
  BY DEF WriteMap
<1>16. Mode(pt', r.entryhi.asid, op'.vaddr \div PageSize) = "none"
  BY <1>1, <1>2, <1>3, <1>4, <1>7 DEF ChangedTo
<1> QED
  BY <1>4, <1>5, <1>7, <1>8, <1>11, <1>12, <1>14, <1>15, <1>16, HeldMap
     DEF ChangedTo

-----------------------------------------------------------------------------
(* What is written into an entry with the page masks that the kernel uses. *)
LEMMA WrittenEntry ==
  ASSUME NEW g, NEW e, e = NewEntry(g)
  PROVE  /\ e.vpn2 = g.entryhi.vpn2 /\ e.asid = g.entryhi.asid
         /\ e.global = g.entrylo[0].global /\ e.lo = g.entrylo
         /\ g.pagemask = 0 => e.pagemask = 0 /\ e.pageshift = PPAGE_SH
         /\ g.pagemask = 3 => e.pagemask = 3 /\ e.pageshift = PPAGE_SH + 2
<1>1. PICK fits : fits = {i \in PageShifts : g.pagemask = 2 ^ i - 1}
  OBVIOUS
<1>2. /\ e.vpn2 = g.entryhi.vpn2 /\ e.asid = g.entryhi.asid
      /\ e.global = g.entrylo[0].global /\ e.lo = g.entrylo
      /\ e.pagemask = IF fits = {} THEN 0 ELSE g.pagemask
      /\ e.pageshift = PPAGE_SH
                         + (IF fits = {} THEN 0 ELSE CHOOSE i \in fits : TRUE)
  BY <1>1 DEF NewEntry
<1>3. ASSUME NEW n \in PageShifts, g.pagemask = 2 ^ n - 1,
             \A i \in PageShifts : g.pagemask = 2 ^ i - 1 => i = n
      PROVE  e.pagemask = g.pagemask /\ e.pageshift = PPAGE_SH + n
  <2>1. fits = {n}
    BY <1>1, <1>3
  <2>2. fits # {} /\ (CHOOSE i \in fits : TRUE) = n
    BY <2>1
  <2> QED
    BY <1>2, <2>2
<1>4. ASSUME g.pagemask = 0
      PROVE  e.pagemask = 0 /\ e.pageshift = PPAGE_SH
  <2>1. g.pagemask = 2 ^ 0 - 1
    <3>1. 2 ^ 0 = 1
      BY PowerAssumption, Zenon
    <3> QED
      BY <1>4, <3>1
  <2>2. \A i \in PageShifts : g.pagemask = 2 ^ i - 1 => i = 0
    BY <1>4, OnePower
  <2>3. e.pagemask = g.pagemask /\ e.pageshift = PPAGE_SH + 0
    BY <1>3, <2>1, <2>2, Shifts
  <2> QED
    BY <1>4, <2>3, Shifts
<1>5. ASSUME g.pagemask = 3
      PROVE  e.pagemask = 3 /\ e.pageshift = PPAGE_SH + 2
  <2>1. g.pagemask = 2 ^ 2 - 1
    BY <1>5
  <2>2. \A i \in PageShifts : g.pagemask = 2 ^ i - 1 => i = 2
    BY <1>5, OnePower
  <2> QED
    BY <1>3, <1>5, <2>1, <2>2, Shifts
<1> QED
  BY <1>2, <1>4, <1>5

(* The instructions that write the TLB: no other entry holds the page, the *)
(* halves agree with the page tables, and no other page is out of step.    *)
MayWrite(x, asid, pair) ==
  /\ \A y \in Entry \ {0} : y # x => ~ Holds(tlb, y, asid, pair)
  /\ \/ TableHalves(asid, pair, r.entrylo)
     \/ UserHalves(pt, {}, {}, asid, pair, r.entrylo)
  /\ \/ pair = PageOf(op.vaddr)
     \/ Up(r, pc, op) = {} /\ Down(r, pc, op) = {}

LEMMA WriteTlb ==
  ASSUME MapInv, WiredInv', pc \notin BootPlace,
         UNCHANGED <<op, pt, saved>>, Steps(r),
         NEW x \in Entry \ {0}, tlb' = [tlb EXCEPT ![x] = NewEntry(r)],
         NEW asid \in ASID, asid = r.entryhi.asid,
         NEW pair, pair = r.entryhi.vpn2,
         MayWrite(x, asid, pair),
         NEW q \in {"eret", "unmap_exit"}, pc' = q, q = "eret" => r.epc = "user"
  PROVE  MapInv'
<1>1. q \notin BootPlace
  BY DEF BootPlace
<1>2. PICK e : e = NewEntry(r)
  OBVIOUS
<1>3. /\ e.vpn2 = pair /\ e.asid = asid /\ e.lo = r.entrylo
      /\ e.pagemask = 0 /\ e.pageshift = PPAGE_SH
  BY <1>2, WrittenEntry, InMap
<1>4. \A y \in Entry : tlb'[y] = IF y = x THEN e ELSE tlb[y]
  BY <1>2, MapEntries
<1>5. /\ Up(r, q, op') = {} /\ Down(r, q, op') = {}
      /\ ~ Within(r, q, DropPlace \cup {"unmap"}) /\ ~ Within(r, q, DropPlace)
  BY DEF Up, Down, Within, FaultPlace, DropPlace
<1>6. EntriesHold(tlb', pt', {}, {})
  <2> SUFFICES ASSUME NEW y \in Entry \ {0}
               PROVE  EntryContent(pt, {}, {}, tlb'[y])
    BY DEF EntriesHold
  <2>1. CASE y = x
    <3>1. EntryContent(pt, {}, {}, e)
      BY <1>3 DEF EntryContent, MayWrite
    <3> QED
      BY <1>4, <2>1, <3>1
  <2>2. CASE y # x
    <3>1. EntryContent(pt, Up(r, pc, op), Down(r, pc, op), tlb[y])
      BY MapEntries DEF EntriesHold
    <3>2. tlb'[y] = tlb[y]
      BY <1>4, <2>2
    <3>3. CASE Up(r, pc, op) = {} /\ Down(r, pc, op) = {}
      BY <3>1, <3>2, <3>3
    <3>4. CASE pair = PageOf(op.vaddr)
      <4>1. PICK v \in Nat : v = op.vaddr
        BY InMap, OpPage
      <4>2. Up(r, pc, op) \cup Down(r, pc, op)
              \subseteq {<<asid, v \div PageSize>>}
        BY <4>1, SetsCurrent DEF Current
      <4>3. ~ (tlb[y].vpn2 = PageOf(v) /\ tlb[y].asid = asid)
        BY <2>2, <3>4, <4>1 DEF Holds, MayWrite
      <4> QED
        BY <3>1, <3>2, <4>2, <4>3, Clean
    <3> QED
      BY <3>3, <3>4 DEF MayWrite
  <2> QED
    BY <2>1, <2>2
<1>7. Distinct(tlb')
  <2> SUFFICES ASSUME NEW y \in Entry \ {0}, NEW z \in Entry \ {0},
                      tlb'[y].vpn2 = tlb'[z].vpn2,
                      tlb'[y].asid = tlb'[z].asid
               PROVE  y = z
    BY DEF Distinct
  <2>1. CASE y = x
    BY <1>3, <1>4, <2>1 DEF Holds, MayWrite
  <2>2. CASE z = x
    BY <1>3, <1>4, <2>2 DEF Holds, MayWrite
  <2>3. CASE y # x /\ z # x
    BY <1>4, <2>3, MapEntries DEF Distinct
  <2> QED
    BY <2>1, <2>2, <2>3
<1>8. StackEntry(tlb'[0])
  BY <1>4, MapEntries, KernelFacts
<1>9. EntryTypes(tlb')
  <2>1. pair \in Nat /\ r.entrylo \in [0 .. 1 -> Lo]
    BY InMap DEF RegTypes
  <2>2. EntryTypes(tlb)
    BY InMap
  <2> QED
    BY <1>3, <1>4, <2>1, <2>2 DEF EntryTypes
<1>10. PlaceMap(r, q, op', saved')
  BY <1>1, <1>5, InMap DEF PlaceMap, Resume, FaultPlace
<1>11. WriteMap(r, q, op', tlb', pt')
  BY DEF WriteMap
<1>12. TablesOK(pt') /\ RegTypes(r) /\ Shape(r)
  BY InMap
<1> QED
  BY <1>1, <1>5, <1>6, <1>7, <1>8, <1>9, <1>10, <1>11, <1>12, HeldMap

LEMMA WriteRandomMap ==
  ASSUME MapInv, WiredInv', WriteRandom
  PROVE  MapInv'
<1>1. /\ pc = "refill_write" /\ pc' = "eret" /\ Steps(r)
      /\ UNCHANGED <<op, pt, saved>>
      /\ tlb' = [tlb EXCEPT ![r.random] = NewEntry(r)]
  BY DEF WriteRandom, Goto, At, TlbWrite, WriteIndex
<1>2. pc \notin BootPlace
  BY <1>1 DEF BootPlace
<1>3. PICK x \in Entry \ {0} : x = r.random
  BY <1>2, InMap
<1>4. PICK asid \in ASID : asid = r.entryhi.asid
  BY <1>2, InMap
<1>5. PICK pair : pair = r.entryhi.vpn2
  OBVIOUS
<1>6. /\ Absent(tlb, asid, pair)
      /\ \/ TableHalves(asid, pair, r.entrylo)
         \/ UserHalves(pt, {}, {}, asid, pair, r.entrylo)
  BY <1>1, <1>2, <1>4, <1>5, InMap DEF WriteMap
<1>7. MayWrite(x, asid, pair)
  BY <1>1, <1>6
     DEF MayWrite, Absent, Up, Down, Within, FaultPlace, DropPlace
<1>8. r.epc = "user"
  BY <1>1, <1>2, InMap DEF PlaceMap
<1>9. tlb' = [tlb EXCEPT ![x] = NewEntry(r)]
  BY <1>1, <1>3
<1> QED
  BY <1>1, <1>2, <1>4, <1>5, <1>7, <1>8, <1>9, WriteTlb

(* The other two write the entry that TLBP has found.                      *)
LEMMA PresentWrite ==
  ASSUME MapInv, pc \notin BootPlace,
         NEW asid, NEW pair, pair = PageOf(op.vaddr),
         NEW x, Present(tlb, x, asid, pair),
         UserHalves(pt, {}, {}, asid, pair, r.entrylo)
  PROVE  MayWrite(x, asid, pair)
BY MapEntries DEF MayWrite, Present, Holds, Distinct

LEMMA FaultWriteMap ==
  ASSUME MapInv, WiredInv', FaultWrite
  PROVE  MapInv'
<1>1. /\ pc = "fault_write" /\ pc' = "eret" /\ Steps(r) /\ r.index \in Entry
      /\ UNCHANGED <<op, pt, saved>>
      /\ tlb' = [tlb EXCEPT ![r.index] = NewEntry(r)]
  BY DEF FaultWrite, Goto, At, TlbWrite, WriteIndex
<1>2. pc \notin BootPlace
  BY <1>1 DEF BootPlace
<1>3. PICK asid \in ASID : asid = r.entryhi.asid
  BY <1>2, InMap
<1>4. PICK pair : pair = r.entryhi.vpn2
  OBVIOUS
<1>5. r.index # NoMatch
  BY <1>1, KernelFacts DEF Entry, NoMatch
<1>6. /\ Present(tlb, r.index, asid, pair)
      /\ UserHalves(pt, {}, {}, asid, pair, r.entrylo)
  BY <1>1, <1>2, <1>3, <1>4, <1>5, InMap DEF WriteMap
<1>7. PICK x \in Entry \ {0} : x = r.index
  BY <1>6 DEF Present
<1>8. pair = PageOf(op.vaddr) /\ r.epc = "user"
  BY <1>1, <1>2, <1>4, InMap DEF PlaceMap, FaultPlace
<1>9. MayWrite(x, asid, pair)
  BY <1>2, <1>6, <1>7, <1>8, PresentWrite
<1>10. tlb' = [tlb EXCEPT ![x] = NewEntry(r)]
  BY <1>1, <1>7
<1> QED
  BY <1>1, <1>2, <1>3, <1>4, <1>8, <1>9, <1>10, WriteTlb

LEMMA UnmapWriteMap ==
  ASSUME MapInv, WiredInv', UnmapWrite
  PROVE  MapInv'
<1>1. /\ pc = "unmap_write" /\ pc' = "unmap_exit" /\ Steps(r)
      /\ UNCHANGED <<op, pt, saved>>
      /\ tlb' = [tlb EXCEPT ![r.index] = NewEntry(r)]
  BY DEF UnmapWrite, Goto, At, TlbWrite, WriteIndex
<1>2. pc \notin BootPlace
  BY <1>1 DEF BootPlace
<1>3. PICK asid \in ASID : asid = r.entryhi.asid
  BY <1>2, InMap
<1>4. PICK pair : pair = r.entryhi.vpn2
  OBVIOUS
<1>5. /\ Present(tlb, r.index, asid, pair)
      /\ UserHalves(pt, {}, {}, asid, pair, r.entrylo)
  BY <1>1, <1>2, <1>3, <1>4, InMap DEF WriteMap
<1>6. PICK x \in Entry \ {0} : x = r.index
  BY <1>5 DEF Present
<1>7. pair = PageOf(op.vaddr)
  BY <1>1, <1>2, <1>4, InMap DEF PlaceMap
<1>8. MayWrite(x, asid, pair)
  BY <1>2, <1>5, <1>6, <1>7, PresentWrite
<1>9. tlb' = [tlb EXCEPT ![x] = NewEntry(r)]
  BY <1>1, <1>6
<1>10. PICK q \in {"eret", "unmap_exit"} : q = "unmap_exit"
  OBVIOUS
<1> QED
  BY <1>1, <1>2, <1>3, <1>4, <1>8, <1>9, <1>10, WriteTlb

-----------------------------------------------------------------------------
(* The boot.                                                               *)
LEMMA BootingMap ==
  ASSUME MapInv, pc \in BootPlace
  PROVE  /\ Shape(r) /\ r.wired = 0 /\ r.wired \in Entry /\ r.random \in Entry
         /\ TablesOK(pt) /\ EntryTypes(tlb) /\ RegTypes(r) /\ EntriesOK
         /\ BootMap(r, pc, tlb) /\ saved = "user"
BY InBoot DEF MapInv, PlaceMap

LEMMA BootedMap ==
  ASSUME MapInv, WiredInv', pc \in BootPlace, UNCHANGED <<pt, saved>>,
         NEW q \in BootPlace, pc' = q,
         NEW g, Shape(g), g.wired = r.wired, g.random = r.random, Steps(g),
         RegTypes(g), EntryTypes(tlb'), BootMap(g, q, tlb')
  PROVE  MapInv'
<1>1. EntriesMap(g, q, op', tlb', pt')
  BY DEF EntriesMap
<1>2. PlaceMap(g, q, op', saved') /\ TablesOK(pt')
  BY BootingMap DEF PlaceMap
<1>3. WriteMap(g, q, op', tlb', pt')
  BY DEF WriteMap, BootPlace
<1>4. Map(g, pc', op', saved', tlb', pt')
  BY <1>1, <1>2, <1>3 DEF Map
<1> QED
  BY <1>4, CloseMap, BootingMap

LEMMA UniqueNat ==
  ASSUME NEW x \in Entry
  PROVE  /\ Unique(x) \in Nat
         /\ Unique(x) = KernelPair + x /\ FlushedPair(Unique(x))
<1>1. PICK m \in Nat : /\ PageOf(STACK) = 4 * m /\ KernelPair \in Nat
                       /\ KernelPair + TLB_ENTRY <= 4 * m
                       /\ Unique(x) = KernelPair + x
  BY Pairs
<1>2. x \in Nat /\ x < TLB_ENTRY
  BY KernelFacts DEF Entry
<1> QED
  BY <1>1, <1>2, KernelFacts DEF FlushedPair

LEMMA BootFlushMap ==
  ASSUME MapInv, WiredInv', BootFlush
  PROVE  MapInv'
<1>1. PICK hi : hi = [vpn2 |-> Unique(r.index), asid |-> 0]
  OBVIOUS
<1>2. PICK g : g = [r EXCEPT !.entryhi = hi]
  OBVIOUS
<1>3. /\ pc = "boot" /\ pc' = "boot_write" /\ Steps(g)
      /\ UNCHANGED <<tlb, op, pt, saved>>
  BY <1>1, <1>2 DEF BootFlush, Goto, At
<1>4. pc \in BootPlace /\ "boot_write" \in BootPlace
  BY <1>3 DEF BootPlace
<1>5. r.index \in Entry /\ Flushed(tlb, r.index) /\ r.pagemask = 0
      /\ \A x \in Entry : Blank(tlb[x])
  BY <1>3, <1>4, BootingMap DEF BootMap
<1>6. /\ DOMAIN hi = {"vpn2", "asid"} /\ hi.asid = 0 /\ hi.vpn2 \in Nat
      /\ hi.vpn2 = Unique(r.index)
  BY <1>1, <1>5, UniqueNat
<1>7. /\ DOMAIN g = RegNames /\ g.wired = r.wired /\ g.index = r.index
      /\ g.random = r.random /\ g.entryhi = hi /\ g.entrylo = r.entrylo
      /\ g.pagemask = r.pagemask /\ g.sr = r.sr /\ g.epc = r.epc
      /\ g.cause = r.cause /\ g.count = r.count /\ g.compare = r.compare
  BY <1>2, <1>4, BootingMap DEF Shape, RegNames
<1>8. Shape(g) /\ RegTypes(g)
  BY <1>4, <1>6, <1>7, BootingMap DEF Shape, RegTypes
<1>9. BootMap(g, "boot_write", tlb)
  BY <1>5, <1>6, <1>7 DEF BootMap
<1>10. EntryTypes(tlb)
  BY <1>4, BootingMap
<1> QED
  BY <1>3, <1>4, <1>7, <1>8, <1>9, <1>10, BootedMap

LEMMA BootWriteMap ==
  ASSUME MapInv, WiredInv', BootWrite
  PROVE  MapInv'
<1>1. /\ pc = "boot_write" /\ UNCHANGED <<op, pt, saved>>
      /\ tlb' = [tlb EXCEPT ![r.index] = NewEntry(r)]
  BY DEF BootWrite, At, TlbWrite, WriteIndex
<1>2. pc \in BootPlace
  BY <1>1 DEF BootPlace
<1>3. PICK x \in Entry : x = r.index
  BY <1>1, <1>2, BootingMap DEF BootMap
<1>4. /\ Flushed(tlb, x) /\ r.pagemask = 0 /\ r.entryhi.vpn2 = Unique(x)
      /\ \A y \in Entry : Blank(tlb[y])
  BY <1>1, <1>2, <1>3, BootingMap DEF BootMap
<1>5. PICK e : e = NewEntry(r)
  OBVIOUS
<1>6. /\ e.vpn2 = Unique(x) /\ e.asid = r.entryhi.asid /\ e.lo = r.entrylo
      /\ e.pagemask = 0 /\ e.pageshift = PPAGE_SH
  BY <1>4, <1>5, WrittenEntry
<1>7. \A y \in Entry : tlb'[y] = IF y = x THEN e ELSE tlb[y]
  BY <1>1, <1>2, <1>3, <1>5, BootingMap DEF EntriesOK
<1>8. \A y \in Entry : Blank(tlb'[y])
  BY <1>4, <1>6, <1>7 DEF Blank
<1>9. Flushed(tlb', x + 1)
  <2>1. \A y \in Entry : y < x + 1 => y < x \/ y = x
    BY KernelFacts DEF Entry
  <2> QED
    BY <1>4, <1>6, <1>7, <2>1 DEF Flushed
<1>10. EntryTypes(tlb')
  <2>1. EntryTypes(tlb) /\ RegTypes(r)
    BY <1>2, BootingMap
  <2>2. e.vpn2 \in Nat /\ e.asid \in ASID \cup {0} /\ e.lo \in [0 .. 1 -> Lo]
    BY <1>6, <2>1, UniqueNat DEF RegTypes
  <2> QED
    BY <1>7, <2>1, <2>2 DEF EntryTypes
<1>11. PICK q \in {"boot", "wire"}, i \in Entry :
         /\ pc' = q
         /\ q = "wire" => x + 1 = TLB_ENTRY
         /\ q = "boot" => i = x + 1
         /\ Steps([r EXCEPT !.index = i])
  <2>1. x \in Nat /\ x < TLB_ENTRY
    BY KernelFacts DEF Entry
  <2>2. CASE x = TLB_ENTRY - 1
    <3>1. pc' = "wire" /\ Steps([r EXCEPT !.index = 0])
      BY <1>3, <2>2 DEF BootWrite
    <3>2. x + 1 = TLB_ENTRY
      BY <2>1, <2>2, KernelFacts
    <3> QED
      BY <3>1, <3>2, KernelFacts
  <2>3. CASE x # TLB_ENTRY - 1
    <3>1. pc' = "boot" /\ Steps([r EXCEPT !.index = x + 1])
      BY <1>3, <2>3 DEF BootWrite
    <3>2. x + 1 \in Entry
      BY <2>1, <2>3, KernelFacts DEF Entry
    <3> QED
      BY <3>1, <3>2
  <2> QED
    BY <2>2, <2>3
<1>12. PICK g : g = [r EXCEPT !.index = i]
  OBVIOUS
<1>13. q \in BootPlace
  BY DEF BootPlace
<1>14. /\ Shape(g) /\ RegTypes(g) /\ g.index = i /\ g.wired = r.wired
       /\ g.random = r.random /\ g.pagemask = r.pagemask
  BY <1>2, <1>12, BootingMap, IndexedTypes
<1>15. BootMap(g, q, tlb')
  BY <1>4, <1>8, <1>9, <1>11, <1>14 DEF BootMap
<1> QED
  BY <1>1, <1>2, <1>10, <1>11, <1>12, <1>13, <1>14, <1>15, BootedMap

LEMMA WireMap ==
  ASSUME MapInv, WiredInv', Wire
  PROVE  MapInv'
<1>1. PICK hi : hi = [vpn2 |-> STACK \div PairSize, asid |-> 0]
  OBVIOUS
<1>2. PICK lo : lo = [odd \in 0 .. 1 |->
                        [pfn |-> StackFrame(odd), valid |-> TRUE,
                         dirty |-> TRUE, global |-> TRUE]]
  OBVIOUS
<1>3. PICK g : g = [r EXCEPT !.entryhi = hi, !.pagemask = 3, !.entrylo = lo]
  OBVIOUS
<1>4. /\ pc = "wire" /\ pc' = "wire_write" /\ Steps(g)
      /\ UNCHANGED <<tlb, op, pt, saved>>
  BY <1>1, <1>2, <1>3 DEF Wire, Goto, At
<1>5. pc \in BootPlace /\ "wire_write" \in BootPlace
  BY <1>4 DEF BootPlace
<1>6. \A odd \in 0 .. 1 :
        /\ lo[odd] \in Lo /\ lo[odd].valid = TRUE /\ lo[odd].dirty = TRUE
        /\ lo[odd].global = TRUE /\ lo[odd].pfn = StackFrame(odd)
  <2>1. \A odd \in 0 .. 1 : StackFrame(odd) \in Nat
    BY DEF StackFrame
  <2> QED
    BY <1>2, <2>1 DEF Lo
<1>7. lo \in [0 .. 1 -> Lo]
  BY <1>2, <1>6
<1>8. /\ DOMAIN hi = {"vpn2", "asid"} /\ hi.asid = 0 /\ hi.vpn2 \in Nat
  BY <1>1, PageOfNat, KernelFacts DEF PageOf
<1>9. /\ DOMAIN g = RegNames /\ g.wired = r.wired /\ g.index = r.index
      /\ g.random = r.random /\ g.entryhi = hi /\ g.entrylo = lo
      /\ g.sr = r.sr /\ g.cause = r.cause /\ g.count = r.count
      /\ g.compare = r.compare
  BY <1>3, <1>5, BootingMap DEF Shape, RegNames
<1>10. Shape(g) /\ RegTypes(g)
  <2>1. LoShape(lo)
    BY <1>7 DEF LoShape, LoNames, Lo
  <2> QED
    BY <1>5, <1>7, <1>8, <1>9, <2>1, BootingMap DEF Shape, RegTypes
<1>11. BootMap(g, "wire_write", tlb)
  BY <1>4, <1>5, <1>6, <1>9, BootingMap DEF BootMap
<1>12. EntryTypes(tlb)
  BY <1>5, BootingMap
<1> QED
  BY <1>4, <1>5, <1>9, <1>10, <1>11, <1>12, BootedMap

LEMMA WireWriteMap ==
  ASSUME MapInv, WiredInv', WireWrite
  PROVE  MapInv'
<1>1. /\ pc = "wire_write" /\ pc' = "eret" /\ UNCHANGED <<pt, saved>>
      /\ tlb' = [tlb EXCEPT ![r.index] = NewEntry(r)]
  BY DEF WireWrite, At, TlbWrite, WriteIndex
<1>2. PICK asid \in ASID :
        /\ op' \in Ops[asid]
        /\ Steps([r EXCEPT !.pagemask = 0, !.wired = 1, !.entryhi.asid = asid,
                           !.sr = [ie |-> TRUE, exl |-> TRUE, user |-> TRUE,
                                   im |-> {COMPARE_CONNECTED}],
                           !.cause.iv = TRUE, !.epc = "user"])
  BY DEF WireWrite
<1>3. pc \in BootPlace
  BY <1>1 DEF BootPlace
<1>4. /\ r.index = 0 /\ r.pagemask = 3 /\ r.entryhi.vpn2 = PageOf(STACK)
  BY <1>1, <1>3, InBoot DEF BootRegs, MapInv
<1>5. PICK e : e = NewEntry(r)
  OBVIOUS
<1>6. \A y \in Entry : tlb'[y] = IF y = 0 THEN e ELSE tlb[y]
  BY <1>1, <1>3, <1>4, <1>5, BootingMap DEF EntriesOK
<1>7. /\ e.vpn2 = PageOf(STACK) /\ e.asid = r.entryhi.asid
      /\ e.global = r.entrylo[0].global /\ e.lo = r.entrylo
      /\ e.pagemask = 3 /\ e.pageshift = PPAGE_SH + 2
  BY <1>4, <1>5, WrittenEntry
<1>8. StackEntry(tlb'[0])
  <2>1. StackEntry(e)
    BY <1>1, <1>3, <1>7, BootingMap DEF BootMap, StackEntry
  <2> QED
    BY <1>6, <2>1, KernelFacts
<1>9. \A y \in Entry \ {0} :
        /\ tlb'[y].vpn2 = Unique(y) /\ tlb'[y].pagemask = 0
        /\ tlb'[y].pageshift = PPAGE_SH
  <2>1. Flushed(tlb, TLB_ENTRY)
    BY <1>1, <1>3, BootingMap DEF BootMap
  <2>2. \A y \in Entry : y < TLB_ENTRY
    BY KernelFacts DEF Entry
  <2> QED
    BY <1>6, <2>1, <2>2 DEF Flushed
<1>10. Distinct(tlb')
  <2> SUFFICES ASSUME NEW y \in Entry \ {0}, NEW z \in Entry \ {0},
                      tlb'[y].vpn2 = tlb'[z].vpn2
               PROVE  y = z
    BY DEF Distinct
  <2>1. Unique(y) = Unique(z)
    BY <1>9
  <2>2. Unique(y) = KernelPair + y /\ Unique(z) = KernelPair + z
    BY UniqueNat
  <2>3. PICK k \in Nat, n \in Int, m \in Int : k = KernelPair /\ n = y /\ m = z
    BY Pairs, KernelFacts DEF Entry
  <2>4. k + n = k + m
    BY <2>1, <2>2, <2>3
  <2>5. n = m
    BY <2>4
  <2> QED
    BY <2>3, <2>5
<1>11. EntryTypes(tlb')
  <2>1. EntryTypes(tlb) /\ RegTypes(r)
    BY <1>3, BootingMap
  <2>2. e.vpn2 \in Nat /\ e.asid \in ASID \cup {0} /\ e.lo \in [0 .. 1 -> Lo]
    BY <1>7, <2>1, PageOfNat, KernelFacts DEF RegTypes
  <2> QED
    BY <1>6, <2>1, <2>2 DEF EntryTypes
<1>12. PICK s : s = [ie |-> TRUE, exl |-> TRUE, user |-> TRUE,
                     im |-> {COMPARE_CONNECTED}]
  OBVIOUS
<1>13. PICK hi : hi = [r.entryhi EXCEPT !.asid = asid]
  OBVIOUS
<1>14. PICK c : c = [r.cause EXCEPT !.iv = TRUE]
  OBVIOUS
<1>15. PICK g : g = [r EXCEPT !.pagemask = 0, !.wired = 1, !.entryhi = hi,
                              !.sr = s, !.cause = c, !.epc = "user"]
  OBVIOUS
<1>16. Steps(g)
  BY <1>2, <1>12, <1>13, <1>14, <1>15
<1>17. /\ DOMAIN hi = {"vpn2", "asid"} /\ hi.asid = asid /\ hi.vpn2 \in Nat
  BY <1>3, <1>13, BootingMap DEF Shape, RegTypes
<1>18. /\ DOMAIN c = {"exc", "bd", "iv", "ip"} /\ c.ip \subseteq 0 .. 7
       /\ c.iv = TRUE
  BY <1>3, <1>14, BootingMap DEF RegTypes
<1>19. /\ DOMAIN g = RegNames /\ g.wired = 1 /\ g.index = r.index
       /\ g.random = r.random /\ g.entryhi = hi /\ g.entrylo = r.entrylo
       /\ g.pagemask = 0 /\ g.sr = s /\ g.epc = "user"
       /\ g.cause = c /\ g.count = r.count /\ g.compare = r.compare
  BY <1>3, <1>15, BootingMap DEF Shape, RegNames
<1>20. /\ DOMAIN s = {"ie", "exl", "user", "im"} /\ s.ie = TRUE /\ s.exl = TRUE
       /\ s.im \subseteq 0 .. 7
  BY <1>12 DEF COMPARE_CONNECTED
<1>21. Shape(g) /\ RegTypes(g)
  BY <1>3, <1>17, <1>18, <1>19, <1>20, BootingMap DEF Shape, RegTypes
<1>22. "eret" \notin BootPlace
  BY DEF BootPlace
<1>23. /\ Up(g, "eret", op') = {} /\ Down(g, "eret", op') = {}
       /\ ~ Within(g, "eret", DropPlace)
  BY <1>19 DEF Up, Down, Within, FaultPlace, DropPlace
<1>24. EntriesHold(tlb', pt', {}, {})
  BY <1>9, UniqueNat DEF EntriesHold, EntryContent
<1>25. EntriesMap(g, "eret", op', tlb', pt')
  BY <1>8, <1>10, <1>23, <1>24 DEF EntriesMap
<1>26. PlaceMap(g, "eret", op', saved')
  BY <1>1, <1>2, <1>3, <1>17, <1>18, <1>19, BootingMap
     DEF PlaceMap, Resume, FaultPlace, DropPlace, Within
<1>27. WriteMap(g, "eret", op', tlb', pt') /\ BootMap(g, "eret", tlb')
  BY <1>22 DEF WriteMap, BootMap
<1>28. TablesOK(pt')
  BY <1>1, <1>3, BootingMap
<1>29. Map(g, pc', op', saved', tlb', pt')
  BY <1>1, <1>11, <1>21, <1>25, <1>26, <1>27, <1>28 DEF Map
<1>30. g.wired \in Entry /\ g.random \in Entry
  BY <1>3, <1>19, BootingMap, KernelFacts
<1> QED
  BY <1>16, <1>21, <1>29, <1>30, CloseMap

LEMMA MapStart == KernelInit => MapInv
<1> SUFFICES ASSUME KernelInit PROVE MapInv
  OBVIOUS
<1>1. /\ r = ZeroRegs /\ tlb = [x \in Entry |-> ZeroEntry] /\ pc = "boot"
      /\ saved = "user"
      /\ pt = [asid \in ASID |-> [page \in UserPage[asid] |-> "none"]]
  BY DEF KernelInit, Cp0Init
<1>2. WiredInv
  BY KernelStart
<1>3. TablesOK(pt)
  BY <1>1 DEF TablesOK
<1>4. ZeroLo \in Lo
  BY DEF ZeroLo, Lo
<1>5. [odd \in 0 .. 1 |-> ZeroLo] \in [0 .. 1 -> Lo]
  BY <1>4
<1>6. EntryTypes(tlb)
  <2>1. /\ ZeroEntry.vpn2 = 0 /\ ZeroEntry.asid = 0
        /\ ZeroEntry.lo = [odd \in 0 .. 1 |-> ZeroLo]
    BY DEF ZeroEntry
  <2> QED
    BY <1>1, <1>5, <2>1 DEF EntryTypes
<1>7. /\ r.index = 0 /\ r.pagemask = 0
      /\ r.entrylo = [odd \in 0 .. 1 |-> ZeroLo]
      /\ r.entryhi.vpn2 = 0 /\ r.entryhi.asid = 0
      /\ r.count = 0 /\ r.compare = 0 /\ r.sr.im = {}
      /\ DOMAIN r.cause = {"exc", "bd", "iv", "ip"} /\ r.cause.ip = {}
  BY <1>1 DEF ZeroRegs
<1>8. RegTypes(r)
  BY <1>5, <1>7, KernelFacts DEF RegTypes
<1>9. BootMap(r, pc, tlb)
  <2>1. \A x \in Entry : Blank(tlb[x])
    BY <1>1 DEF Blank
  <2>2. Flushed(tlb, 0)
    BY KernelFacts DEF Flushed, Entry
  <2> QED
    BY <1>1, <1>7, <2>1, <2>2, KernelFacts DEF BootMap
<1>10. /\ EntriesMap(r, pc, op, tlb, pt) /\ PlaceMap(r, pc, op, saved)
       /\ WriteMap(r, pc, op, tlb, pt)
  BY <1>1 DEF EntriesMap, PlaceMap, WriteMap, BootPlace
<1> QED
  BY <1>2, <1>3, <1>6, <1>8, <1>9, <1>10 DEF MapInv

(* One instruction of the kernel or of its programs, whichever it is.      *)
LEMMA MapStep == MapInv /\ [KernelNext]_kernelVars => MapInv'
<1> SUFFICES ASSUME MapInv, [KernelNext]_kernelVars PROVE MapInv'
  OBVIOUS
<1>1. WiredInv'
  BY WiredStep DEF MapInv
<1>2. CASE Interrupted
  BY <1>1, <1>2, InterruptedMap
<1>3. CASE Boot
  BY <1>1, <1>3, BootFlushMap, BootWriteMap, WireMap, WireWriteMap DEF Boot
<1>4. CASE User
  BY <1>1, <1>4, UserHitMap, UserFaultMap, UserCallMap DEF User
<1>5. CASE Handlers
  BY <1>1, <1>5, RefillLoadMap, WriteRandomMap, TableMissMap, PageFaultMap,
     FaultProbeMap, FaultLoadMap, FaultWriteMap, KernelEretMap,
     AcknowledgeMap DEF Handlers
<1>6. CASE Calls
  BY <1>1, <1>6, SwitchMap, UnmapEnterMap, UnmapPageMap, UnmapMaskMap,
     UnmapHiMap, UnmapProbeMap, UnmapReadMap, UnmapWriteMap,
     UnmapExitMap DEF Calls
<1>7. CASE UNCHANGED kernelVars
  <2>1. /\ r' = r /\ tlb' = tlb /\ pc' = pc /\ op' = op /\ pt' = pt
        /\ saved' = saved
    BY <1>7 DEF kernelVars
  <2>2. /\ TablesOK(pt') /\ EntryTypes(tlb') /\ RegTypes(r')
        /\ BootMap(r', pc', tlb') /\ EntriesMap(r', pc', op', tlb', pt')
        /\ PlaceMap(r', pc', op', saved') /\ WriteMap(r', pc', op', tlb', pt')
    BY <2>1 DEF MapInv
  <2> QED
    BY <1>1, <2>2 DEF MapInv, TablesOK, EntryTypes, RegTypes,
       BootMap, EntriesMap, PlaceMap, WriteMap, Flushed, Absent, Present,
       Holds, Distinct, EntriesHold
<1> QED
  BY <1>2, <1>3, <1>4, <1>5, <1>6, <1>7 DEF KernelNext

LEMMA MapInvariant == KernelSpec => []MapInv
BY MapStart, MapStep, PTL DEF KernelSpec

(***************************************************************************)
(* What the TLB translates is what the page tables say, in every handler   *)
(* and however the handlers were interrupted or nested: gettlbentry finds  *)
(* the stack's entry first and at most one other, and TLBWR and TLBWI of   *)
(* the handlers never put a page into a second one.                        *)
(***************************************************************************)
THEOREM CoherentCorrect == KernelSpec => []Coherent
BY MapInvariant, MapCoherent, PTL

LEMMA MapTypes == MapInv => Cp0TypeOK
<1> SUFFICES ASSUME MapInv PROVE Cp0TypeOK
  OBVIOUS
<1>1. 2 ^ 0 = 1
  BY PowerAssumption, Zenon
<1>2. 0 \in PageShifts /\ 2 \in PageShifts /\ PPAGE_SH + 0 = PPAGE_SH
  BY Shifts
<1>3. ASSUME NEW x \in Entry
      PROVE  \/ tlb[x] = ZeroEntry
             \/ tlb[x].pagemask = 0 /\ tlb[x].pageshift = PPAGE_SH
             \/ tlb[x].pagemask = 3 /\ tlb[x].pageshift = PPAGE_SH + 2
  <2>1. CASE pc \in BootPlace
    BY <2>1, BootingMap DEF BootMap, Blank
  <2>2. CASE pc \notin BootPlace /\ x = 0
    BY <2>2, MapEntries DEF StackEntry
  <2>3. CASE pc \notin BootPlace /\ x # 0
    BY <2>3, MapEntries DEF EntriesHold, EntryContent
  <2> QED
    BY <2>1, <2>2, <2>3
<1>4. ASSUME NEW x \in Entry
      PROVE  \E i \in PageShifts : /\ tlb[x].pagemask = 2 ^ i - 1
                                   /\ tlb[x] = ZeroEntry \/
                                        tlb[x].pageshift = PPAGE_SH + i
  <2>1. CASE tlb[x] = ZeroEntry
    <3>1. tlb[x].pagemask = 2 ^ 0 - 1
      <4>1. tlb[x].pagemask = 0
        BY <2>1 DEF ZeroEntry
      <4> QED
        BY <1>1, <4>1
    <3> QED
      BY <1>2, <2>1, <3>1
  <2>2. CASE tlb[x].pagemask = 0 /\ tlb[x].pageshift = PPAGE_SH
    <3>1. tlb[x].pagemask = 2 ^ 0 - 1
      BY <1>1, <2>2
    <3>2. tlb[x].pageshift = PPAGE_SH + 0
      BY <1>2, <2>2
    <3> QED
      BY <1>2, <3>1, <3>2
  <2>3. CASE tlb[x].pagemask = 3 /\ tlb[x].pageshift = PPAGE_SH + 2
    <3>1. tlb[x].pagemask = 2 ^ 2 - 1
      BY <2>3
    <3> QED
      BY <1>2, <2>3, <3>1
  <2> QED
    BY <1>3, <2>1, <2>2, <2>3
<1>5. r.random \in Entry /\ r.wired \in Entry
  BY RandomIsEntry DEF MapInv
<1>6. 0 \in 0 .. CountMod - 1
  BY Cp0Assumption
<1> QED
  BY <1>4, <1>5, <1>6 DEF Cp0TypeOK, MapInv, EntryTypes, RegTypes

(* The types of the registers and entries of coprocessor 0 under the       *)
(* paging kernel, and that every page mask that tlbwrite has stored is     *)
(* that of the shift beside it.                                            *)
THEOREM Cp0TypesCorrect == KernelSpec => []Cp0TypeOK
BY MapInvariant, MapTypes, PTL
=============================================================================
