----------------------------- MODULE MultiCycle -----------------------------
(***************************************************************************)
(* The functional CPU of SimMips with coprocessor 0 (mips.cc), its memory  *)
(* controller (memory.cc) and the way the chip drives them (board.cc).     *)
(*                                                                         *)
(* Every phase of an instruction is one action.  With option -m each of    *)
(* them is one call of Mips::step_multi, and an interrupt is looked for    *)
(* before each; without it they follow one another inside one call of      *)
(* Mips::step_funct, which looks for an interrupt once, at its start.      *)
(* (A step of the CPU is one action also where step_funct goes on.)        *)
(* phase is Mips::state in the first case and the place inside step_funct  *)
(* in the second, where the code's own state stays what it was.            *)
(*                                                                         *)
(* A program counter counts instructions (the code adds 4).  The data are  *)
(* one register, which every instruction that has a rt or rs names, and    *)
(* the word at address DATA.  A word of the program is represented by its  *)
(* address: decoding the word n gives code[n].  Handlers keep the          *)
(* register and the word as they find them.                                *)
(***************************************************************************)
EXTENDS MipsInst

CONSTANTS
  Models,        \* the execution models: TRUE with option -m, FALSE without
  Programs,      \* functions from addresses to instructions
  WordMod,       \* words are 0 .. WordMod - 1
  HANDLER        \* where doexception sends the CPU

NUM_MCINST == 2
DATA == 0        \* the address of the data
BAD == -1        \* an address no device of the memory map answers

(* The instructions the programs are made of: those that change the        *)
(* register, go elsewhere, wait or access memory.                          *)
Unaligned == {"SWL", "SWR"}
Modelled == {"NOP", "ADDIU", "J", "BNE", "BNEL", "ERET", "WAIT",
             "LW", "LL", "SW", "SC"} \cup Unaligned

ASSUME ProgramAssumption ==
  /\ Models \subseteq BOOLEAN
  /\ WordMod \in Nat \ {0, 1}
  /\ HANDLER \in Nat \ {0}
  /\ \A p \in Programs :
       /\ DOMAIN p \subseteq Nat \ {0}
       /\ \A a \in DOMAIN p : /\ p[a].op \in Modelled
                              /\ p[a].attr = Attr(p[a].op)
                              /\ p[a].target \in Nat
                              /\ p[a].op = "ERET" => a > HANDLER

VARIABLES
  multicycle, code,      \* the execution model and the program
  phase,                 \* IF, ID, RF, EX, MS, MR, WB, WAIT or ERROR
  pc, delay_npc, r,      \* MipsArchstate
  inst, rrt, cond, npc, paddr, mcid, exc_occur, exc_code,   \* Mips
  head, tail, slot,      \* the ring of MemoryController, slot its inst[]
  mem,                   \* the word at DATA
  exl, epc,              \* SR.EXL and EPC of coprocessor 0
  ip                     \* an enabled and unmasked interrupt is pending

operands == <<inst, rrt, cond, npc, paddr>>
ring == <<head, tail, slot>>
cp0 == <<exl, epc>>
vars == <<multicycle, code, phase, pc, delay_npc, r, operands, mcid,
          exc_occur, exc_code, ring, mem, cp0, ip>>

Nop == [op |-> "NOP", attr |-> {}, target |-> 0]
NoRequest == [state |-> "NONE", op |-> "READ", addr |-> DATA, data |-> 0]

Init ==
  /\ multicycle \in Models
  /\ code \in Programs
  /\ phase = "IF"
  /\ pc = 1 /\ delay_npc = 0 /\ r = 0
  /\ inst = Nop /\ rrt = 0 /\ cond = FALSE /\ npc = 0 /\ paddr = DATA
  /\ mcid = 0 /\ exc_occur = FALSE /\ exc_code = "INT"
  /\ head = 0 /\ tail = 0 /\ slot = [i \in 0 .. NUM_MCINST - 1 |-> NoRequest]
  /\ mem = 0
  /\ exl = FALSE /\ epc = 0
  /\ ip = FALSE
-----------------------------------------------------------------------------
(***************************************************************************)
(* Faulty variants of definitions that follow, each a slip the code could  *)
(* have; no specification uses them.  A property that cannot fail when one *)
(* takes the place of its model would say nothing about the code.          *)
(***************************************************************************)
(* Faulty variant: nobody calls MemoryController::step.                    *)
BusStepMissing(b) == b

(* Faulty variants: interrupts are looked for in one phase only; not in    *)
(* WAIT.                                                                   *)
PolledOnce == phase = "EX"
RaisedAwake ==
  /\ phase = "IF" \/ (multicycle /\ phase # "WAIT")
  /\ ip /\ ~ exl /\ ~ exc_occur

(* Faulty variant: only loads go through the memory phases.                *)
AfterExecuteLoads == IF IsLoad(inst) THEN "MS" ELSE "WB"

(* Faulty variants: a delay slot is restarted by itself; an exception in a *)
(* handler overwrites where the program goes on.                           *)
RestartPcPlain == pc

EnterHandlerAnew ==
  /\ epc' = IF delay_npc # 0 THEN pc - 1 ELSE pc
  /\ exl' = TRUE
  /\ pc' = HANDLER
  /\ delay_npc' = 0
  /\ phase' = "IF"
  /\ UNCHANGED r

-----------------------------------------------------------------------------
(***************************************************************************)
(* The memory controller.  A bus is its ring and the word of memory.       *)
(***************************************************************************)
bus == [head |-> head, tail |-> tail, slot |-> slot, mem |-> mem]

SetBus(b) == /\ head' = b.head
             /\ tail' = b.tail
             /\ slot' = b.slot
             /\ mem' = b.mem

Following(i) == IF i = NUM_MCINST - 1 THEN 0 ELSE i + 1

(* MemoryController::step: the oldest pending request is carried out.      *)
Answered(b) ==
  LET q == b.slot[b.tail]
  IN IF q.addr = DATA
     THEN [q EXCEPT !.state = "FINISH",
                    !.data = IF q.op = "READ" THEN b.mem ELSE @]
     ELSE IF q.addr \in DOMAIN code
     THEN [q EXCEPT !.state = "FINISH", !.data = q.addr]
     ELSE [q EXCEPT !.state = "FAILURE"]

BusStep(b) ==
  LET q == b.slot[b.tail]
  IN IF q.state # "PEND" THEN b
     ELSE [b EXCEPT !.slot[b.tail] = Answered(b),
                    !.tail = Following(b.tail),
                    !.mem = IF q.op = "WRITE" /\ q.addr = DATA THEN q.data
                                                               ELSE @]

(* MemoryController::enqueue: -1 when the ring is full.                    *)
Full(b) == (b.tail - b.head + NUM_MCINST) % NUM_MCINST = 1

Enqueued(b, op, addr, data) ==
  IF Full(b) THEN b
  ELSE [b EXCEPT !.slot[b.head] = [state |-> "PEND", op |-> op, addr |-> addr,
                                   data |-> IF op = "WRITE" THEN data
                                            ELSE @.data],
                 !.head = Following(b.head)]

(* A request is carried out at once (MC_THROUGHMODE) or, with -m, by the   *)
(* call of MemoryController::step that ends the cycle: in both cases       *)
(* before the next phase.                                                  *)
SendNext(op, addr, data) ==    \* faulty variant: mcid is the next slot
  /\ mcid' = IF Full(bus) THEN -1 ELSE Following(head)
  /\ SetBus(BusStep(Enqueued(bus, op, addr, data)))

Send(op, addr, data) ==
  /\ mcid' = IF Full(bus) THEN -1 ELSE head
  /\ SetBus(BusStep(Enqueued(bus, op, addr, data)))

EndOfCycle == SetBus(IF multicycle THEN BusStep(bus) ELSE bus)
-----------------------------------------------------------------------------
(***************************************************************************)
(* MipsCp0::checkinterrupt, and where the two step functions ask it.       *)
(***************************************************************************)
Interrupt == ip /\ ~ exl
Polled == multicycle \/ phase \in {"IF", "WAIT"}

Raised == Polled /\ Interrupt /\ ~ exc_occur

(* A phase does nothing once an exception has occurred.                    *)
Excepted == exc_occur \/ Raised

(* Mips::exception.                                                        *)
Except(c) == exc_occur' = TRUE /\ exc_code' = c

NoExcept == UNCHANGED <<exc_occur, exc_code>>

SkipPhase ==
  /\ Excepted
  /\ IF Raised THEN Except("INT") ELSE NoExcept
  /\ EndOfCycle
  /\ UNCHANGED <<operands, mcid>>

Others == UNCHANGED <<multicycle, code, pc, delay_npc, r, cp0, ip>>

(* fetch.  A failing translation leaves inst as it was.                    *)
Fetch ==
  /\ phase = "IF"
  /\ Others
  /\ \/ SkipPhase /\ phase' = "ID"
     \/ /\ ~ Excepted
        /\ phase' = "ID"
        /\ Except("FAULT")
        /\ EndOfCycle
        /\ UNCHANGED <<operands, mcid>>
     \/ /\ ~ Excepted
        /\ phase' = IF Full(bus) THEN "ERROR" ELSE "ID"
        /\ Send("READ", pc, 0)
        /\ NoExcept
        /\ UNCHANGED operands

(* decode.                                                                 *)
Decode ==
  /\ phase = "ID"
  /\ Others
  /\ \/ SkipPhase /\ phase' = "RF"
     \/ /\ ~ Excepted
        /\ slot[mcid].state = "FAILURE"
        /\ phase' = "ERROR"
        /\ EndOfCycle /\ NoExcept
        /\ UNCHANGED <<operands, mcid>>
     \/ /\ ~ Excepted
        /\ slot[mcid].state # "FAILURE"
        /\ phase' = "RF"
        /\ inst' = code[slot[mcid].data]
        /\ EndOfCycle /\ NoExcept
        /\ UNCHANGED <<rrt, cond, npc, paddr, mcid>>

(* regfetch.                                                               *)
RegFetch ==
  /\ phase = "RF"
  /\ phase' = "EX"
  /\ Others
  /\ \/ SkipPhase
     \/ /\ ~ Excepted
        /\ rrt' = r
        /\ EndOfCycle /\ NoExcept
        /\ UNCHANGED <<inst, cond, npc, paddr, mcid>>
-----------------------------------------------------------------------------
IsJump(i) == i.attr \cap {"BRANCH", "BRANCH_LIKELY"} # {}

(* execute: an ADDIU adds one; a conditional branch compares the register  *)
(* with zero; a load or store whose address does not translate raises an   *)
(* exception, and one whose address is BAD goes on.                        *)
ExecuteAddress ==
  /\ IsLoadStore(inst)
  /\ UNCHANGED <<inst, rrt, cond, npc>>
  /\ \/ paddr' \in {DATA, BAD} /\ NoExcept
     \/ paddr' = paddr /\ Except("FAULT")

ExecuteOther ==
  /\ ~ IsLoadStore(inst)
  /\ NoExcept
  /\ UNCHANGED <<inst, paddr>>
  /\ rrt' = IF inst.op = "ADDIU" THEN (rrt + 1) % WordMod ELSE rrt
  /\ cond' = IF IsJump(inst) THEN inst.op = "J" \/ rrt # 0
             ELSE inst.op = "ERET" \/ cond
  /\ npc' = IF IsJump(inst) THEN inst.target
            ELSE IF inst.op = "ERET" THEN epc ELSE npc

(* proceedstate; without -m, the test in step_funct.                       *)
AfterExecute == IF IsLoadStore(inst) THEN "MS" ELSE "WB"

Execute ==
  /\ phase = "EX"
  /\ phase' = AfterExecute
  /\ Others
  /\ \/ SkipPhase
     \/ /\ ~ Excepted
        /\ ExecuteAddress \/ ExecuteOther
        /\ EndOfCycle
        /\ UNCHANGED mcid

(* memsend: an unaligned store first reads the word it will change.        *)
Request ==
  IF IsLoad(inst) \/ inst.op \in Unaligned THEN "READ" ELSE "WRITE"

MemSend ==
  /\ phase = "MS"
  /\ phase' = "MR"
  /\ Others
  /\ \/ SkipPhase
     \/ /\ ~ Excepted
        /\ Send(Request, paddr, rrt)
        /\ IF Full(bus) THEN Except("FAULT") ELSE NoExcept
        /\ UNCHANGED operands

(* memreceive: the answer, and the second half of an unaligned store.  The *)
(* enqueue of the second half does not set Mips::mcid.                     *)
MemReceive ==
  /\ phase = "MR"
  /\ phase' = "WB"
  /\ Others
  /\ \/ SkipPhase
     \/ /\ ~ Excepted
        /\ slot[mcid].state = "FAILURE"
        /\ Except("FAULT")
        /\ EndOfCycle
        /\ UNCHANGED <<operands, mcid>>
     \/ /\ ~ Excepted
        /\ slot[mcid].state # "FAILURE"
        /\ rrt' = CASE IsLoad(inst) -> slot[mcid].data
                    [] inst.op = "SC" -> 1
                    [] OTHER -> rrt
        /\ IF inst.op \in Unaligned
           THEN SetBus(BusStep(Enqueued(bus, "WRITE", paddr, rrt)))
           ELSE EndOfCycle
        /\ NoExcept
        /\ UNCHANGED <<inst, cond, npc, paddr, mcid>>
-----------------------------------------------------------------------------
(***************************************************************************)
(* writeback and setnpc.  doexception notes where to restart, unless a     *)
(* handler is running: at the branch when the instruction is in a delay    *)
(* slot.                                                                   *)
(***************************************************************************)
RestartPc == IF delay_npc # 0 THEN pc - 1 ELSE pc

EnterHandler ==
  /\ epc' = IF exl THEN epc ELSE RestartPc
  /\ exl' = TRUE
  /\ pc' = HANDLER
  /\ delay_npc' = 0
  /\ phase' = "IF"
  /\ UNCHANGED r

NextPhase(target) ==
  phase' = IF target = 0 THEN "ERROR"
           ELSE IF inst.op = "WAIT" THEN "WAIT" ELSE "IF"

FollowSlot ==
  /\ delay_npc # 0
  /\ pc' = delay_npc /\ delay_npc' = 0
  /\ NextPhase(1) /\ UNCHANGED cp0

FollowBranch ==
  /\ delay_npc = 0 /\ IsJump(inst) /\ cond
  /\ pc' = pc + 1 /\ delay_npc' = npc
  /\ NextPhase(npc) /\ UNCHANGED cp0

FollowEret ==
  /\ delay_npc = 0 /\ "BRANCH_ERET" \in inst.attr
  /\ exl' = FALSE
  /\ pc' = npc
  /\ NextPhase(npc) /\ UNCHANGED <<epc, delay_npc>>

FollowNext ==
  /\ delay_npc = 0 /\ "BRANCH_ERET" \notin inst.attr
  /\ ~ (IsJump(inst) /\ cond)
  /\ pc' = IF "BRANCH_LIKELY" \in inst.attr THEN pc + 2 ELSE pc + 1
  /\ NextPhase(1) /\ UNCHANGED <<delay_npc, cp0>>

WriteBack ==
  /\ phase = "WB"
  /\ exc_occur' = FALSE
  /\ EndOfCycle
  /\ UNCHANGED <<multicycle, code, operands, mcid, ip>>
  /\ \/ /\ Excepted
        /\ EnterHandler
        /\ exc_code' = IF Raised THEN "INT" ELSE exc_code
     \/ /\ ~ Excepted
        /\ r' = IF "WRITE_RT" \in inst.attr THEN rrt ELSE r
        /\ FollowSlot \/ FollowBranch \/ FollowEret \/ FollowNext
        /\ UNCHANGED exc_code

(* An interrupt ends CPU_WAIT, and the handler is entered in the same step.*)
Wake ==
  /\ phase = "WAIT"
  /\ Raised
  /\ EnterHandler
  /\ exc_code' = "INT"
  /\ exc_occur' = FALSE
  /\ EndOfCycle
  /\ UNCHANGED <<multicycle, code, operands, mcid, ip>>

CpuStep == \/ Fetch \/ Decode \/ RegFetch \/ Execute \/ MemSend \/ MemReceive
           \/ WriteBack \/ Wake

(* The devices run between two calls of the step function: an interrupt    *)
(* comes, or a handler has made its source withdraw it.                    *)
Devices ==
  /\ phase # "ERROR"
  /\ multicycle \/ phase \in {"IF", "WAIT"}
  /\ ip' = ~ ip
  /\ UNCHANGED <<multicycle, code, phase, pc, delay_npc, r, operands, mcid,
                 exc_occur, exc_code, ring, mem, cp0>>

Next == CpuStep \/ Devices

Spec == Init /\ [][Next]_vars

(* Board::exec calls the chip's step function until the CPU stops.         *)
FairSpec == Spec /\ WF_vars(CpuStep)
-----------------------------------------------------------------------------
Phase == {"IF", "ID", "RF", "EX", "MS", "MR", "WB", "WAIT", "ERROR"}
WordType == 0 .. WordMod - 1

CpuTypeOK ==
  /\ multicycle \in Models
  /\ code \in Programs
  /\ phase \in Phase
  /\ pc \in Nat /\ delay_npc \in Nat /\ npc \in Nat /\ epc \in Nat
  /\ r \in WordType /\ rrt \in WordType /\ mem \in WordType
  /\ inst = Nop \/ \E a \in DOMAIN code : inst = code[a]
  /\ cond \in BOOLEAN /\ exc_occur \in BOOLEAN /\ exl \in BOOLEAN
  /\ ip \in BOOLEAN
  /\ exc_code \in {"INT", "FAULT"}
  /\ paddr \in {DATA, BAD}
  /\ mcid \in 0 .. NUM_MCINST - 1
  /\ head \in 0 .. NUM_MCINST - 1 /\ tail \in 0 .. NUM_MCINST - 1
  /\ \A i \in DOMAIN slot : slot[i].state \in {"NONE", "FINISH", "FAILURE"}

(***************************************************************************)
(* Neither decode nor memreceive waits for the memory controller or looks  *)
(* whether its request has been carried out: they rely on the cycle that   *)
(* has passed.  The answer they read is the one to their own request, and  *)
(* no request finds the ring full, which would be taken for a bus error.   *)
(***************************************************************************)
OwnAnswer ==
  /\ head = tail
  /\ phase = "ID" /\ ~ exc_occur =>
       slot[mcid].addr = pc /\ slot[mcid].op = "READ"
  /\ phase = "MR" /\ ~ exc_occur =>
       slot[mcid].addr = paddr /\ slot[mcid].op = Request

(***************************************************************************)
(* An interrupt that stays enabled is taken, whatever the program does: it *)
(* may sleep in WAIT, run through faults of its own or loop.               *)
(***************************************************************************)
Served == []<>(~ Interrupt \/ phase = "ERROR")
=============================================================================
