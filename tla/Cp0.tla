--------------------------------- MODULE Cp0 --------------------------------
(***************************************************************************)
(* Coprocessor 0 of SimMips: the TLB, the registers of the exceptions and  *)
(* the timer (cp0.cc).  MipsCp0 is a passive object: the CPU calls it for  *)
(* each of its instructions, for each address and for each exception, and  *)
(* the chip calls step once per cycle.  Every method is an operator on its *)
(* registers and its TLB; the modules that say which program runs          *)
(* (TlbKernel, TickKernel) put them together.                              *)
(*                                                                         *)
(* A register is a record of its fields.  A page mask is the number that   *)
(* the code compares with (1 << i) - 1, and since tlbwrite stores no other *)
(* masks, "& ~pagemask" is a division.  BEV, ERL, CE, the cache attribute  *)
(* and the registers that are only stored are left out.                    *)
(***************************************************************************)
EXTENDS Integers

CONSTANTS
  TLB_ENTRY,       \* entries of the TLB
  PPAGE_SH,        \* bits of an offset in the smallest page
  PAGESHIFT_MAX,   \* and in the largest
  KSEG0_MIN,       \* the lowest address of the kernel, unmapped
  KSEG2_MIN,       \* the lowest mapped address of the kernel
  ASID,            \* the address space identifiers in use
  CountMod         \* COUNT and COMPARE are 0 .. CountMod - 1 (2^32)

ASSUME Cp0Assumption == /\ TLB_ENTRY \in Nat \ {0}
                        /\ PPAGE_SH \in Nat
                        /\ PAGESHIFT_MAX \in Nat /\ PAGESHIFT_MAX >= PPAGE_SH
                        /\ KSEG0_MIN \in Nat
                        /\ KSEG2_MIN \in Nat /\ KSEG2_MIN >= KSEG0_MIN
                        /\ ASID \subseteq Nat
                        /\ CountMod \in Nat \ {0}

(* Arithmetic, for the proofs: the provers know nothing of powers.         *)
ASSUME PowerAssumption ==
  /\ 2 ^ 0 = 1
  /\ \A i \in 0 .. PAGESHIFT_MAX + 1 : /\ 2 ^ i \in Nat \ {0}
                                      /\ 2 ^ (i + 1) = 2 * 2 ^ i

VPAGE_SH == PPAGE_SH + 1
COMPARE_CONNECTED == 7
UNMAP_SIZE == (KSEG2_MIN - KSEG0_MIN) \div 2   \* of KSEG0 and of KSEG1
NoMatch == -1        \* gettlbentry and TLBP, when nothing matches

Entry == 0 .. TLB_ENTRY - 1
PageShifts == {i \in 0 .. PAGESHIFT_MAX - PPAGE_SH : i % 2 = 0}

VARIABLES
  tlb,   \* the entries
  r      \* the registers

(* What MipsCp0 and MipsTlbEntry are constructed with: zeros everywhere.   *)
ZeroLo == [pfn |-> 0, dirty |-> FALSE, valid |-> FALSE, global |-> FALSE]

ZeroEntry == [vpn2 |-> 0, asid |-> 0, pagemask |-> 0, pageshift |-> 0,
              global |-> FALSE, lo |-> [odd \in 0 .. 1 |-> ZeroLo]]

ZeroRegs ==
  [index |-> 0, random |-> 0, wired |-> 0, pagemask |-> 0,
   entrylo |-> [odd \in 0 .. 1 |-> ZeroLo],
   entryhi |-> [vpn2 |-> 0, asid |-> 0],
   badvaddr |-> 0, context |-> 0, count |-> 0, compare |-> 0,
   sr |-> [ie |-> FALSE, exl |-> FALSE, user |-> FALSE, im |-> {}],
   cause |-> [exc |-> "INT", bd |-> FALSE, iv |-> FALSE, ip |-> {}],
   epc |-> "reset"]

Cp0Init == tlb = [x \in Entry |-> ZeroEntry] /\ r = ZeroRegs
-----------------------------------------------------------------------------
(***************************************************************************)
(* Interrupts: what the PIC and the timer call, and what the CPU asks.     *)
(***************************************************************************)
SetInterrupt(regs, num) == [regs EXCEPT !.cause.ip = @ \cup {num}]
ClearInterrupt(regs, num) == [regs EXCEPT !.cause.ip = @ \ {num}]

CheckInterrupt(regs) ==
  regs.cause.ip \cap regs.sr.im # {} /\ ~ regs.sr.exl /\ regs.sr.ie

(* MTC0 COMPARE; every other register is only stored (writereg).           *)
WriteCompare(regs, value) ==
  ClearInterrupt([regs EXCEPT !.compare = value], COMPARE_CONNECTED)

(***************************************************************************)
(* Faulty variants of definitions that follow, each a slip the code could  *)
(* have; no specification uses them.  A property that cannot fail when one *)
(* takes the place of its model would say nothing about the code.          *)
(***************************************************************************)
(* Faulty variant: the interrupt is pending only while COUNT is COMPARE.   *)
StepCountOnce(regs) ==
  LET n == (regs.count + 1) % CountMod
  IN [regs EXCEPT !.count = n,
                  !.cause.ip = IF n = regs.compare THEN {COMPARE_CONNECTED}
                                                   ELSE {}]

(* Faulty variants: RANDOM goes below WIRED; it starts again one too high. *)
StepRandomBelow(regs) ==
  [regs EXCEPT !.random = IF @ < regs.wired \/ @ = 0 THEN TLB_ENTRY - 1
                                                     ELSE @ - 1]
StepRandomAbove(regs) ==
  [regs EXCEPT !.random = IF @ <= regs.wired THEN TLB_ENTRY ELSE @ - 1]

(* Faulty variants: an entry matches in every address space; the page of   *)
(* an exception is left out of ENTRYHI.                                    *)
MatchesAnyAsid(entries, regs, x, page) ==
  entries[x].vpn2 \div (entries[x].pagemask + 1)
    = page \div (entries[x].pagemask + 1)

FaultAddressNoHi(regs, vaddr) ==
  [regs EXCEPT !.badvaddr = vaddr, !.context = vaddr \div 2 ^ VPAGE_SH]

-----------------------------------------------------------------------------
(***************************************************************************)
(* step, when the divider lets it through: the timer and RANDOM.           *)
(***************************************************************************)
StepCount(regs) ==
  LET n == (regs.count + 1) % CountMod
      counted == [regs EXCEPT !.count = n]
  IN IF n = regs.compare THEN SetInterrupt(counted, COMPARE_CONNECTED)
                         ELSE counted

StepRandom(regs) ==
  [regs EXCEPT !.random = IF @ <= regs.wired THEN TLB_ENTRY - 1 ELSE @ - 1]

Step(regs) == StepRandom(StepCount(regs))

(***************************************************************************)
(* The TLB: the first entry that matches the page (a pair of pages) in the *)
(* current address space.                                                  *)
(***************************************************************************)
Matches(entries, regs, x, page) ==
  /\ entries[x].vpn2 \div (entries[x].pagemask + 1)
       = page \div (entries[x].pagemask + 1)
  /\ entries[x].asid = regs.entryhi.asid \/ entries[x].global

GetTlbEntry(entries, regs, page) ==
  LET found == {x \in Entry : Matches(entries, regs, x, page)}
  IN IF found = {} THEN NoMatch
                   ELSE CHOOSE x \in found : \A y \in found : x <= y

(* TLBP and TLBR.                                                          *)
TlbLookup(entries, regs) ==
  [regs EXCEPT !.index = GetTlbEntry(entries, regs, regs.entryhi.vpn2)]

TlbRead(entries, regs) ==
  LET e == entries[regs.index]
  IN [regs EXCEPT !.entryhi = [vpn2 |-> e.vpn2, asid |-> e.asid],
                  !.pagemask = e.pagemask,
                  !.entrylo = [odd \in 0 .. 1 |->
                                 [e.lo[odd] EXCEPT !.global = e.global]]]

(* TLBWI and TLBWR: PAGEMASK counts only if it is that of a page size, the *)
(* entry is global if ENTRYLO0 says so.                                    *)
WriteIndex(regs, use_random) == IF use_random THEN regs.random ELSE regs.index

NewEntry(regs) ==
  LET fits == {i \in PageShifts : regs.pagemask = 2 ^ i - 1}
  IN [vpn2 |-> regs.entryhi.vpn2,
      asid |-> regs.entryhi.asid,
      pagemask |-> IF fits = {} THEN 0 ELSE regs.pagemask,
      pageshift |-> PPAGE_SH
                      + (IF fits = {} THEN 0 ELSE CHOOSE i \in fits : TRUE),
      global |-> regs.entrylo[0].global,
      lo |-> regs.entrylo]

TlbWrite(entries, regs, use_random) ==
  [entries EXCEPT ![WriteIndex(regs, use_random)] = NewEntry(regs)]

(***************************************************************************)
(* getphaddr: the physical address, or the exception the access raises.    *)
(***************************************************************************)
KernelMode(regs) == ~ regs.sr.user \/ regs.sr.exl

Found(paddr) == [exc |-> "NONE", refill |-> FALSE, paddr |-> paddr]
Fault(exc, refill) == [exc |-> exc, refill |-> refill, paddr |-> -1]

Mapped(e, vaddr, store) ==
  LET odd == (vaddr \div 2 ^ e.pageshift) % 2
      size == (e.pagemask + 1) * 2 ^ PPAGE_SH
      lo == e.lo[odd]
  IN IF ~ lo.valid THEN Fault(IF store THEN "TLBS" ELSE "TLBL", FALSE)
     ELSE IF store /\ ~ lo.dirty THEN Fault("MOD", FALSE)
     ELSE Found(((lo.pfn * 2 ^ PPAGE_SH) \div size) * size + (vaddr % size))

GetPhaddr(entries, regs, vaddr, store) ==
  LET x == GetTlbEntry(entries, regs, vaddr \div 2 ^ VPAGE_SH)
  IN IF vaddr >= KSEG0_MIN /\ ~ KernelMode(regs)
       THEN Fault(IF store THEN "ADES" ELSE "ADEL", FALSE)
     ELSE IF KSEG0_MIN <= vaddr /\ vaddr < KSEG2_MIN
       THEN Found((vaddr - KSEG0_MIN) % UNMAP_SIZE)
     ELSE IF x = NoMatch THEN Fault(IF store THEN "TLBS" ELSE "TLBL", TRUE)
     ELSE Mapped(entries[x], vaddr, store)

(***************************************************************************)
(* doexception: the registers it leaves and where it sends the CPU.  Its   *)
(* condition on the code (cp0.cc:225) holds for every code, so that every  *)
(* exception leaves its address in BADVADDR, CONTEXT and ENTRYHI.          *)
(***************************************************************************)
FaultAddress(regs, vaddr) ==
  LET page == vaddr \div 2 ^ VPAGE_SH
  IN [regs EXCEPT !.badvaddr = vaddr, !.context = page,
                  !.entryhi.vpn2 = page]

RestartAt(regs, epc, delay) ==
  IF regs.sr.exl THEN regs
  ELSE [regs EXCEPT !.epc = IF delay THEN epc - 4 ELSE epc,
                    !.cause.bd = delay]

DoException(regs, exc, epc, vaddr, delay) ==
  LET faulted == FaultAddress([regs EXCEPT !.cause.exc = exc], vaddr)
  IN [RestartAt(faulted, epc, delay) EXCEPT !.sr.exl = TRUE]

Vector(regs, exc, refill) ==
  IF exc \in {"TLBL", "TLBS"} /\ refill /\ ~ regs.sr.exl THEN "refill"
  ELSE IF exc = "INT" /\ regs.cause.iv THEN "int"
  ELSE "general"

(* ERET: setnpc takes EPC as the next PC and clears EXL.                   *)
Eret(regs) == [regs EXCEPT !.sr.exl = FALSE]
-----------------------------------------------------------------------------
Lo == [pfn : Nat, dirty : BOOLEAN, valid : BOOLEAN, global : BOOLEAN]

Cp0TypeOK ==
  /\ \A x \in Entry :
       /\ tlb[x].vpn2 \in Nat
       /\ tlb[x].asid \in ASID \cup {0}
       /\ \E i \in PageShifts : /\ tlb[x].pagemask = 2 ^ i - 1
                                /\ tlb[x] = ZeroEntry \/
                                     tlb[x].pageshift = PPAGE_SH + i
       /\ tlb[x].lo \in [0 .. 1 -> Lo]
  /\ r.index \in Entry \cup {NoMatch}
  /\ r.random \in Entry
  /\ r.wired \in Entry
  /\ r.entrylo \in [0 .. 1 -> Lo]
  /\ r.entryhi.asid \in ASID \cup {0}
  /\ r.count \in 0 .. CountMod - 1
  /\ r.compare \in 0 .. CountMod - 1
  /\ r.sr.im \subseteq 0 .. 7
  /\ r.cause.ip \subseteq 0 .. 7
=============================================================================
