------------------------------ MODULE TlbKernel -----------------------------
(***************************************************************************)
(* What an operating system does with coprocessor 0 to page its processes: *)
(* a linear page table in mapped kernel space that a refill handler reads, *)
(* a handler for everything else, a wired entry with large pages for the   *)
(* kernel's stack, two address spaces, and a timer interrupt.  The kernel  *)
(* is external to the simulator; it is here to put the operations of Cp0   *)
(* together in the order in which they depend on one another.              *)
(*                                                                         *)
(* An action is one instruction, or a run of instructions of which only    *)
(* one concerns Cp0, with the steps of coprocessor 0 that follow.  A pc is *)
(* the name of a place.  COUNT stays where it is here (TickKernel has the  *)
(* timer): an interrupt may become pending at any step, but not again      *)
(* before the program has executed one more instruction.                   *)
(***************************************************************************)
EXTENDS Cp0, FiniteSets

CONSTANTS
  UserPage,        \* per address space, the pages of its program
  Ops              \* and the instructions it is made of

(* There are pages for the stack, which one entry is wired to, and nothing *)
(* of the programs is beside it; KSEG0 and KSEG1 have room for a page per  *)
(* entry that nobody translates; the programs are below them, and the page *)
(* table of each is one page.                                              *)
ASSUME KernelAssumption ==
  /\ TLB_ENTRY > 1 /\ PPAGE_SH > 0 /\ PAGESHIFT_MAX >= PPAGE_SH + 2
  /\ KSEG2_MIN % (4 * 2 ^ VPAGE_SH) = 0
  /\ KSEG0_MIN % 2 ^ VPAGE_SH = 0
  /\ KSEG0_MIN + TLB_ENTRY * 2 ^ VPAGE_SH <= KSEG2_MIN
  /\ UserPage \in [ASID -> SUBSET Nat]
  /\ \A asid \in ASID : \A page \in UserPage[asid] :
       /\ (page + 1) * 2 ^ PPAGE_SH <= KSEG0_MIN
       /\ page < 2 * 2 ^ PPAGE_SH
  /\ \A asid \in ASID : \A o \in Ops[asid] :
       /\ o.kind \in {"load", "store", "unmap", "switch"}
       /\ o.vaddr \in 0 .. KSEG0_MIN - 1
       /\ o.vaddr \div 2 ^ PPAGE_SH \in UserPage[asid]

VARIABLES
  pc,      \* the place the CPU is at
  op,      \* the instruction the program of the current space is at
  pt,      \* the page tables: none, read only or writable
  saved,   \* EPC, saved by the handler that lets itself be interrupted
  quiet    \* the program has not gone on since the last interrupt

kernelVars == <<tlb, r, pc, op, pt, saved, quiet>>

PageSize == 2 ^ PPAGE_SH
PairSize == 2 ^ VPAGE_SH

(* Where things are.  The stack is a pair of pages of four times the       *)
(* smallest size; its page frames are given with bits the size masks out.  *)
STACK == KSEG2_MIN
StackPair == 8 * PageSize
StackFrame(odd) == 9 + 4 * odd
StackAddress(vaddr) == 8 * PageSize + (vaddr - STACK)
PTBASE == KSEG2_MIN + StackPair
TableFrame(asid) == 30 + asid
UserFrame(asid, page) == 20 + 4 * asid + page

Unique(x) == KSEG0_MIN \div PairSize + x     \* a page nobody translates

(* The entry of a page table as ENTRYLO wants it.                          *)
Pte(asid, page) ==
  LET mode == IF page \in UserPage[asid] THEN pt[asid][page] ELSE "none"
  IN [pfn |-> UserFrame(asid, page), valid |-> mode # "none",
      dirty |-> mode = "rw", global |-> FALSE]

PtePair(asid, pair) == [odd \in 0 .. 1 |-> Pte(asid, 2 * pair + odd)]

Access(vaddr, store) == GetPhaddr(tlb, r, vaddr, store)

KernelInit ==
  /\ Cp0Init
  /\ pc = "boot"
  /\ op = [kind |-> "none", vaddr |-> 0]
  /\ pt = [asid \in ASID |-> [page \in UserPage[asid] |-> "none"]]
  /\ saved = "user"
  /\ quiet = FALSE
-----------------------------------------------------------------------------
(***************************************************************************)
(* The steps of coprocessor 0 after an instruction: one, or another one    *)
(* for a second instruction or, with option -m, a second turn of the       *)
(* divider.                                                                *)
(***************************************************************************)
Steps(regs) ==
  \E turned \in {StepRandom(regs), StepRandom(StepRandom(regs))} :
    \/ r' = turned
    \/ ~ quiet /\ r' = SetInterrupt(turned, COMPARE_CONNECTED)

(* The CPU executes the instruction at from, unless it is interrupted.     *)
At(from) == pc = from /\ ~ CheckInterrupt(r)
Goto(from, to) == At(from) /\ pc' = to

(* It raises an exception instead.                                         *)
Raise(exc, refill, vaddr) ==
  /\ pc' = Vector(r, exc, refill)
  /\ Steps(DoException(r, exc, pc, vaddr, FALSE))

(* An interrupt, and a system call, hand over the address the CPU computed *)
(* last, whatever it was: say one that neither is about.                   *)
Interrupted ==
  /\ CheckInterrupt(r)
  /\ Raise("INT", FALSE, STACK)
  /\ UNCHANGED <<tlb, op, pt, saved, quiet>>
-----------------------------------------------------------------------------
(***************************************************************************)
(* The boot of the kernel: every entry gets a page of its own that is      *)
(* never translated, then the first is wired to the stack.                 *)
(***************************************************************************)
BootFlush ==
  /\ Goto("boot", "boot_write")
  /\ Steps([r EXCEPT !.entryhi = [vpn2 |-> Unique(r.index), asid |-> 0]])
  /\ UNCHANGED <<tlb, op, pt, saved, quiet>>

BootWrite ==
  /\ At("boot_write")
  /\ tlb' = TlbWrite(tlb, r, FALSE)
  /\ IF r.index = TLB_ENTRY - 1
     THEN pc' = "wire" /\ Steps([r EXCEPT !.index = 0])
     ELSE pc' = "boot" /\ Steps([r EXCEPT !.index = @ + 1])
  /\ UNCHANGED <<op, pt, saved, quiet>>

Wire ==
  /\ Goto("wire", "wire_write")
  /\ Steps([r EXCEPT
              !.entryhi = [vpn2 |-> STACK \div PairSize, asid |-> 0],
              !.pagemask = 3,
              !.entrylo = [odd \in 0 .. 1 |->
                             [pfn |-> StackFrame(odd), valid |-> TRUE,
                              dirty |-> TRUE, global |-> TRUE]]])
  /\ UNCHANGED <<tlb, op, pt, saved, quiet>>

WireWrite ==
  /\ At("wire_write")
  /\ tlb' = TlbWrite(tlb, r, FALSE)
  /\ \E asid \in ASID :
       /\ op' \in Ops[asid]
       /\ Steps([r EXCEPT !.pagemask = 0, !.wired = 1, !.entryhi.asid = asid,
                          !.sr = [ie |-> TRUE, exl |-> TRUE, user |-> TRUE,
                                  im |-> {COMPARE_CONNECTED}],
                          !.cause.iv = TRUE, !.epc = "user"])
  /\ pc' = "eret"
  /\ UNCHANGED <<pt, saved, quiet>>
-----------------------------------------------------------------------------
(***************************************************************************)
(* The programs: a load or store that succeeds lets its program go on.     *)
(***************************************************************************)
IsAccess == op.kind \in {"load", "store"}
UserAccess == Access(op.vaddr, op.kind = "store")

UserHit ==
  /\ At("user") /\ IsAccess /\ UserAccess.exc = "NONE"
  /\ op' \in Ops[r.entryhi.asid]
  /\ quiet' = FALSE
  /\ Steps(r)
  /\ UNCHANGED <<tlb, pc, pt, saved>>

UserFault ==
  /\ At("user") /\ IsAccess /\ UserAccess.exc # "NONE"
  /\ quiet' = FALSE
  /\ Raise(UserAccess.exc, UserAccess.refill, op.vaddr)
  /\ UNCHANGED <<tlb, op, pt, saved>>

UserCall ==
  /\ At("user") /\ ~ IsAccess
  /\ quiet' = FALSE
  /\ Raise("SYSCALL", FALSE, STACK)
  /\ UNCHANGED <<tlb, op, pt, saved>>

(***************************************************************************)
(* The refill handler reads the pair of the page through the linear page   *)
(* table.  When that is not mapped itself, the second exception goes to    *)
(* the general handler, and EPC is still the program's.                    *)
(***************************************************************************)
TableAddress(pair) == PTBASE + pair

RefillLoad ==
  /\ At("refill")
  /\ LET table == Access(TableAddress(r.context), FALSE)
         asid == table.paddr \div PageSize - TableFrame(0)
     IN IF table.exc = "NONE"
        THEN /\ pc' = "refill_write"
             /\ Steps([r EXCEPT !.entrylo = PtePair(asid, r.context)])
        ELSE Raise(table.exc, table.refill, TableAddress(r.context))
  /\ UNCHANGED <<tlb, op, pt, saved, quiet>>

(* TLBWR of either handler.                                                *)
WriteRandom ==
  /\ Goto("refill_write", "eret")
  /\ tlb' = TlbWrite(tlb, r, TRUE)
  /\ Steps(r)
  /\ UNCHANGED <<op, pt, saved, quiet>>

(* The general handler, on a miss of the page table.                       *)
TableMiss ==
  /\ Goto("general", "refill_write")
  /\ r.cause.exc = "TLBL" /\ r.badvaddr >= PTBASE
  /\ Steps([r EXCEPT !.entrylo =
              [odd \in 0 .. 1 |->
                 [pfn |-> TableFrame(r.entryhi.asid), valid |-> odd = 0,
                  dirty |-> FALSE, global |-> FALSE]]])
  /\ UNCHANGED <<tlb, op, pt, saved, quiet>>

(***************************************************************************)
(* The handlers save registers on the stack first.  They cannot go on when *)
(* it is not mapped.                                                       *)
(***************************************************************************)
StackMapped == Access(STACK + StackPair - 1, TRUE).exc = "NONE"

(* An invalid or read-only page becomes valid, or writable; TLBP finds the *)
(* entry that raised the exception by what doexception left in ENTRYHI.    *)
PageFault ==
  LET page == r.badvaddr \div PageSize
      asid == r.entryhi.asid
  IN /\ Goto("general", "fault_probe")
     /\ r.cause.exc \in {"TLBL", "TLBS", "MOD"} /\ r.badvaddr < KSEG0_MIN
     /\ StackMapped
     /\ pt' = [pt EXCEPT ![asid][page] =
                 IF r.cause.exc = "TLBL" THEN "ro" ELSE "rw"]
     /\ Steps(r)
     /\ UNCHANGED <<tlb, op, saved, quiet>>

FaultProbe ==
  /\ Goto("fault_probe", "fault_load")
  /\ Steps(TlbLookup(tlb, r))
  /\ UNCHANGED <<tlb, op, pt, saved, quiet>>

FaultLoad ==
  /\ Goto("fault_load", "fault_write")
  /\ Steps([r EXCEPT !.entrylo = PtePair(r.entryhi.asid, r.entryhi.vpn2)])
  /\ UNCHANGED <<tlb, op, pt, saved, quiet>>

(* TLBWI; with an index that is too large the simulator exits.             *)
FaultWrite ==
  /\ Goto("fault_write", "eret")
  /\ r.index \in Entry
  /\ tlb' = TlbWrite(tlb, r, FALSE)
  /\ Steps(r)
  /\ UNCHANGED <<op, pt, saved, quiet>>

KernelEret ==
  /\ At("eret")
  /\ pc' = r.epc
  /\ Steps(Eret(r))
  /\ UNCHANGED <<tlb, op, pt, saved, quiet>>
-----------------------------------------------------------------------------
(***************************************************************************)
(* System calls: the other program goes on; a page is given back, with     *)
(* interrupts enabled until the TLB is touched.                            *)
(***************************************************************************)
Called(kind) == At("general") /\ r.cause.exc = "SYSCALL" /\ op.kind = kind

Switch ==
  /\ Called("switch")
  /\ pc' = "eret"
  /\ \E asid \in ASID : /\ op' \in Ops[asid]
                        /\ Steps([r EXCEPT !.entryhi.asid = asid])
  /\ UNCHANGED <<tlb, pt, saved, quiet>>

UnmapEnter ==
  /\ Called("unmap")
  /\ StackMapped
  /\ pc' = "unmap"
  /\ saved' = r.epc
  /\ Steps([r EXCEPT !.sr.exl = FALSE, !.sr.user = FALSE])
  /\ UNCHANGED <<tlb, op, pt, quiet>>

UnmapPage ==
  /\ Goto("unmap", "unmap_mask")
  /\ StackMapped
  /\ pt' = [pt EXCEPT ![r.entryhi.asid][op.vaddr \div PageSize] = "none"]
  /\ Steps(r)
  /\ UNCHANGED <<tlb, op, saved, quiet>>

UnmapMask ==
  /\ Goto("unmap_mask", "unmap_hi")
  /\ Steps([r EXCEPT !.sr.ie = FALSE])
  /\ UNCHANGED <<tlb, op, pt, saved, quiet>>

UnmapHi ==
  /\ Goto("unmap_hi", "unmap_probe")
  /\ Steps([r EXCEPT !.entryhi.vpn2 = op.vaddr \div PairSize])
  /\ UNCHANGED <<tlb, op, pt, saved, quiet>>

UnmapProbe ==
  /\ At("unmap_probe")
  /\ LET found == TlbLookup(tlb, r)
     IN /\ pc' = IF found.index = NoMatch THEN "unmap_exit" ELSE "unmap_read"
        /\ Steps(found)
  /\ UNCHANGED <<tlb, op, pt, saved, quiet>>

(* TLBR, and the page is made invalid in what it returns.                  *)
UnmapRead ==
  LET odd == (op.vaddr \div PageSize) % 2
  IN /\ Goto("unmap_read", "unmap_write")
     /\ Steps([TlbRead(tlb, r) EXCEPT !.entrylo[odd].valid = FALSE])
     /\ UNCHANGED <<tlb, op, pt, saved, quiet>>

UnmapWrite ==
  /\ Goto("unmap_write", "unmap_exit")
  /\ tlb' = TlbWrite(tlb, r, FALSE)
  /\ Steps(r)
  /\ UNCHANGED <<op, pt, saved, quiet>>

UnmapExit ==
  /\ Goto("unmap_exit", "eret")
  /\ op' \in Ops[r.entryhi.asid]
  /\ Steps([r EXCEPT !.sr.exl = TRUE, !.sr.user = TRUE, !.sr.ie = TRUE,
                     !.epc = saved])
  /\ UNCHANGED <<tlb, pt, saved, quiet>>

(***************************************************************************)
(* The interrupt handler: COMPARE is written, which also acknowledges.     *)
(***************************************************************************)
Acknowledge ==
  /\ Goto("int", "eret")
  /\ StackMapped
  /\ quiet' = TRUE
  /\ r' = StepRandom(WriteCompare(r, r.compare))
  /\ UNCHANGED <<tlb, op, pt, saved>>

-----------------------------------------------------------------------------
Boot == BootFlush \/ BootWrite \/ Wire \/ WireWrite
User == UserHit \/ UserFault \/ UserCall
Handlers == RefillLoad \/ WriteRandom \/ TableMiss \/ PageFault \/ FaultProbe
              \/ FaultLoad \/ FaultWrite \/ KernelEret \/ Acknowledge
Calls == Switch \/ UnmapEnter \/ UnmapPage \/ UnmapMask \/ UnmapHi
           \/ UnmapProbe \/ UnmapRead \/ UnmapWrite \/ UnmapExit

KernelNext == Interrupted \/ Boot \/ User \/ Handlers \/ Calls

(* The program's instruction is done.                                      *)
Done == UserHit \/ Switch \/ UnmapExit

KernelSpec == KernelInit /\ [][KernelNext]_kernelVars
                /\ WF_kernelVars(KernelNext)
-----------------------------------------------------------------------------
Booted == pc \notin {"boot", "boot_write", "wire", "wire_write"}

(* A page the kernel is just giving back may still be in the TLB.          *)
Unmapping(page) ==
  /\ pc \in {"unmap_mask", "unmap_hi", "unmap_probe", "unmap_read",
             "unmap_write", "int", "eret"}
  /\ op.kind = "unmap" /\ op.vaddr \div PageSize = page

(* The first and last address of each page of the stack.                   *)
StackProbe == {STACK, STACK + 4 * PageSize - 1,
               STACK + 4 * PageSize, STACK + StackPair - 1}

KernelAccess(vaddr, store) ==
  GetPhaddr(tlb, [r EXCEPT !.sr.exl = TRUE], vaddr, store)

(***************************************************************************)
(* What the TLB translates is what the page tables say, in every handler   *)
(* and however the handlers were interrupted or nested: the stack is       *)
(* always there, a page of the current space leads to its frame, and only  *)
(* if the table allows it (unless it is just being given back); and no     *)
(* page is in two entries, of which getphaddr would see the first only.    *)
(***************************************************************************)
Coherent ==
  Booted =>
    LET asid == r.entryhi.asid
    IN /\ \A vaddr \in StackProbe :
            KernelAccess(vaddr, TRUE) = Found(StackAddress(vaddr))
       /\ LET a == KernelAccess(PTBASE + 1, FALSE)
          IN a.exc = "NONE" => a.paddr = TableFrame(asid) * PageSize + 1
       /\ \A page \in UserPage[asid], store \in BOOLEAN :
            LET a == GetPhaddr(tlb, r, page * PageSize + 1, store)
            IN a.exc = "NONE" =>
                 /\ a.paddr = UserFrame(asid, page) * PageSize + 1
                 /\ \/ Unmapping(page)
                    \/ pt[asid][page] = "rw"
                    \/ pt[asid][page] = "ro" /\ ~ store
       /\ \A page \in {0, STACK \div PairSize, PTBASE \div PairSize} :
            Cardinality({x \in Entry : Matches(tlb, r, x, page)}) <= 1

(***************************************************************************)
(* The entries below WIRED stay what they are, whatever RANDOM did when    *)
(* WIRED was written (MTC0 WIRED leaves RANDOM alone, the next step lifts  *)
(* it).                                                                    *)
(***************************************************************************)
WiredKept ==
  [][\A x \in Entry : x < r.wired => tlb'[x] = tlb[x]]_kernelVars
=============================================================================
