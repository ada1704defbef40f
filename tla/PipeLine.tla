------------------------------ MODULE PipeLine ------------------------------
(***************************************************************************)
(* The five-stage pipeline of SimPipe (pipe.cc, pipe.h).                   *)
(*                                                                         *)
(* The loop of ExecLoop calls StepPipe once per simulated cycle.  StepPipe *)
(* runs the handlers of the stages from the last to the first and then     *)
(* shifts the latches; `step' is its program counter, and each handler is  *)
(* one action.  The order matters: what WriteBack, Mem and Exec do to the  *)
(* register board is seen by the Decode of the same cycle.                 *)
(*                                                                         *)
(* The instruction Fetch obtains from the functional simulator is any      *)
(* element of Inst: an arbitrary instruction stream, whatever branches,    *)
(* exceptions or interrupts produced it.  The latency of a data access is  *)
(* any element of Latency when the data cache is on; the module PipeCache  *)
(* joins it to the cache's own.  The cycle counter and the pipe log are    *)
(* left out.                                                               *)
(***************************************************************************)
EXTENDS MipsInst

CONSTANTS
  GPR,            \* the general registers the instructions use
  Inst,           \* the instructions the functional simulator may execute
  NoInst,         \* an empty latch (Latch::contain is false)
  Latency,        \* what Cache::Access may return
  forwarding,     \* option -f
  dcache_enable   \* some option -dcache-... was given

ASSUME RegAssumption == /\ GPR \subseteq 0 .. 31
                        /\ {0, REG_RA} \subseteq GPR

ASSUME InstAssumption == /\ NoInst \notin Inst
                         /\ \A inst \in Inst : /\ inst.attr \in AttrWord
                                               /\ inst.rs \in GPR
                                               /\ inst.rt \in GPR
                                               /\ inst.rd \in GPR

ASSUME OptionAssumption == /\ forwarding \in BOOLEAN
                           /\ dcache_enable \in BOOLEAN
                           /\ Latency \subseteq Int

Reg == GPR \cup {PIPE_REG_HI, PIPE_REG_LO}

SFETCH == 0
SDECODE == 1
SEXEC == 2
SMEM == 3
SWB == 4
Stage == 0 .. 4

VARIABLES
  step,              \* where StepPipe is; "Halted" once ExecLoop has left
  stageid,           \* the loop index of the shift
  stage_state,       \* IDLE, BUSY or STALL, per stage
  stage_wait_cycle,  \* of SMEM: the only entry the code ever changes
  latches,           \* the instruction each stage holds, or NoInst
  locked, ex_fw, ex2_fw, load0_fw, load_fw  \* reg_state, by field

board == <<locked, ex_fw, ex2_fw, load0_fw, load_fw>>
vars == <<step, stageid, stage_state, stage_wait_cycle, latches, board>>

TypeOK ==
  /\ step \in {"WriteBack", "Mem", "Exec", "Decode", "Fetch", "Shift",
               "Halted"}
  /\ stageid \in SFETCH .. SMEM
  /\ stage_state \in [Stage -> {"IDLE", "BUSY", "STALL"}]
  /\ stage_wait_cycle \in Int
  /\ latches \in [Stage -> Inst \cup {NoInst}]
  /\ locked \in [Reg -> Int]
  /\ ex_fw \in [Reg -> BOOLEAN]
  /\ ex2_fw \in [Reg -> BOOLEAN]
  /\ load0_fw \in [Reg -> BOOLEAN]
  /\ load_fw \in [Reg -> BOOLEAN]

Init ==
  /\ step = "WriteBack"
  /\ stageid = SMEM
  /\ stage_state = [s \in Stage |-> "IDLE"]
  /\ stage_wait_cycle = 0
  /\ latches = [s \in Stage |-> NoInst]
  /\ locked = [r \in Reg |-> 0]
  /\ ex_fw = [r \in Reg |-> FALSE]
  /\ ex2_fw = [r \in Reg |-> FALSE]
  /\ load0_fw = [r \in Reg |-> FALSE]
  /\ load_fw = [r \in Reg |-> FALSE]

Goto(from, to) == step = from /\ step' = to

(* The field f of the register board with v assigned to the registers S.   *)
Assign(f, S, v) == [r \in Reg |-> IF r \in S THEN v ELSE f[r]]

Contains(s) == latches[s] # NoInst

-----------------------------------------------------------------------------
(***************************************************************************)
(* Faulty variants of definitions that follow, each a slip the code could  *)
(* have; no specification uses them.  A property that cannot fail when one *)
(* takes the place of its model would say nothing about the code.          *)
(***************************************************************************)
(* Faulty variants of WriteBackReg, against which the properties are       *)
(* tried: a lock that is never released, a mark that is never cleared.     *)
KeepLock(S) ==
  /\ UNCHANGED locked
  /\ ex2_fw' = Assign(ex2_fw, S, FALSE)
  /\ load_fw' = Assign(load_fw, S, FALSE)

KeepMark(S) ==
  /\ locked' = [r \in Reg |-> IF r \in S THEN locked[r] - 1 ELSE locked[r]]
  /\ ex2_fw' = Assign(ex2_fw, S, FALSE)
  /\ UNCHANGED load_fw

(* Faulty variants: the stage forgets that the instruction has been here,  *)
(* the access takes a cycle more than it should.                           *)
StartAgain(wait) ==
  /\ stage_wait_cycle' = wait
  /\ stage_state' = [stage_state EXCEPT
                       ![SMEM] = IF wait > 0 THEN "BUSY" ELSE "IDLE"]

StartLong(wait) ==
  /\ stage_wait_cycle' = wait + 1
  /\ stage_state' = [stage_state EXCEPT
                       ![SMEM] = IF wait > 0 THEN "BUSY" ELSE "STALL"]

(* Faulty variant: a finished access goes back to IDLE and starts anew.    *)
BusyRestart ==
  /\ Goto("Mem", "Exec")
  /\ stage_state[SMEM] = "BUSY"
  /\ stage_wait_cycle' = stage_wait_cycle - 1
  /\ stage_state' = [stage_state EXCEPT
                       ![SMEM] = IF stage_wait_cycle - 1 <= 0 THEN "IDLE"
                                                              ELSE @]
  /\ UNCHANGED <<stageid, latches, board>>

(* Faulty variants of RegAvailable: the rule before v0.1.3 (a load hides   *)
(* nothing), the rule before v0.1.4 (a branch is like any instruction),    *)
(* and a lock test off by one.                                             *)
LoadHidesNothing(reg, branch) ==
  \/ reg = 0
  \/ locked[reg] <= 0
  \/ forwarding /\ branch /\ ex2_fw[reg]
  \/ forwarding /\ ~ branch /\ (ex_fw[reg] \/ ex2_fw[reg] \/ load_fw[reg])

BranchLikeOthers(reg, branch) ==
  \/ reg = 0
  \/ locked[reg] <= 0
  \/ forwarding /\ (ex_fw[reg] \/ (~ load0_fw[reg] /\ ex2_fw[reg])
                                \/ load_fw[reg])

LockOffByOne(reg, branch) == reg = 0 \/ locked[reg] <= 1

LockNeverFree(reg, branch) == reg = 0 \/ locked[reg] < 0

(* Faulty variant: the next latch is overwritten.                          *)
ShiftAlways == stage_state[stageid] = "STALL"

(* Faulty variant: the loop index is not reset for the next cycle.         *)
StageidRunsOn ==
  IF stageid = SFETCH THEN step' = "WriteBack" /\ stageid' = stageid - 1
                      ELSE step' = step /\ stageid' = stageid - 1

-----------------------------------------------------------------------------
(***************************************************************************)
(* WriteBack: the instruction in SWB leaves and WriteBackReg releases its  *)
(* destinations, register 0 excepted.                                      *)
(***************************************************************************)
WriteBackReg(S) ==
  /\ locked' = [r \in Reg |-> IF r \in S THEN locked[r] - 1 ELSE locked[r]]
  /\ ex2_fw' = Assign(ex2_fw, IF forwarding THEN S ELSE {}, FALSE)
  /\ load_fw' = Assign(load_fw, IF forwarding THEN S ELSE {}, FALSE)

WriteBack ==
  /\ Goto("WriteBack", "Mem")
  /\ Contains(SWB)
  /\ latches' = [latches EXCEPT ![SWB] = NoInst]
  /\ WriteBackReg(Dst(latches[SWB]) \ {0})
  /\ UNCHANGED <<stageid, stage_state, stage_wait_cycle, ex_fw, load0_fw>>

WriteBackEmpty ==
  /\ Goto("WriteBack", "Mem")
  /\ ~ Contains(SWB)
  /\ UNCHANGED <<stageid, stage_state, stage_wait_cycle, latches, board>>

(***************************************************************************)
(* Mem: an instruction that has just arrived starts its access (a load or  *)
(* a store) or moves its forwarding marks on (all others); a busy access   *)
(* counts its remaining cycles down.                                       *)
(***************************************************************************)
MemStart(wait) ==
  /\ stage_wait_cycle' = wait
  /\ stage_state' = [stage_state EXCEPT
                       ![SMEM] = IF wait > 0 THEN "BUSY" ELSE "STALL"]

MemAccess(latency) ==
  LET inst == latches[SMEM]
      loaded == IF "WRITE_RT" \in inst.attr /\ forwarding THEN {inst.rt} \ {0}
                                                          ELSE {}
  IN /\ Goto("Mem", "Exec")
     /\ stage_state[SMEM] = "IDLE" /\ Contains(SMEM)
     /\ IsLoadStore(inst)
     /\ MemStart(latency - 1)
     /\ load0_fw' = Assign(load0_fw, loaded, FALSE)
     /\ load_fw' = Assign(Assign(load_fw, loaded, TRUE),
                          IF "WRITE_RT" \in inst.attr THEN {0} ELSE {}, FALSE)
     /\ UNCHANGED <<stageid, latches, locked, ex_fw, ex2_fw>>

MemPass ==
  LET inst == latches[SMEM]
      moved == IF forwarding THEN Dst(inst) ELSE {}
  IN /\ Goto("Mem", "Exec")
     /\ stage_state[SMEM] = "IDLE" /\ Contains(SMEM)
     /\ ~ IsLoadStore(inst)
     /\ MemStart(0)
     /\ ex_fw' = Assign(ex_fw, moved, FALSE)
     /\ ex2_fw' = Assign(ex2_fw, moved, TRUE)
     /\ UNCHANGED <<stageid, latches, locked, load0_fw, load_fw>>

MemBusy ==
  /\ Goto("Mem", "Exec")
  /\ stage_state[SMEM] = "BUSY"
  /\ stage_wait_cycle' = stage_wait_cycle - 1
  /\ stage_state' = [stage_state EXCEPT
                       ![SMEM] = IF stage_wait_cycle - 1 <= 0 THEN "STALL"
                                                              ELSE @]
  /\ UNCHANGED <<stageid, latches, board>>

MemIdle ==
  /\ Goto("Mem", "Exec")
  /\ \/ stage_state[SMEM] = "IDLE" /\ ~ Contains(SMEM)
     \/ stage_state[SMEM] = "STALL"
  /\ UNCHANGED <<stageid, stage_state, stage_wait_cycle, latches, board>>

AccessLatency == IF dcache_enable THEN Latency ELSE {1}

(***************************************************************************)
(* Exec: every instruction takes one cycle.  An ALU result can be          *)
(* forwarded at once; a load hides older results of its destination.       *)
(***************************************************************************)
Exec ==
  LET inst == latches[SEXEC]
  IN /\ Goto("Exec", "Decode")
     /\ stage_state[SEXEC] = "IDLE" /\ Contains(SEXEC)
     /\ stage_state' = [stage_state EXCEPT ![SEXEC] = "STALL"]
     /\ ex_fw' = IF forwarding
                 THEN Assign(Assign(ex_fw,
                                    IF IsLoadStore(inst) THEN {} ELSE Dst(inst),
                                    TRUE),
                             {0}, FALSE)
                 ELSE ex_fw
     /\ load0_fw' = Assign(load0_fw,
                           IF forwarding /\ IsLoad(inst)
                           THEN {inst.rt} \ {0} ELSE {},
                           TRUE)
     /\ UNCHANGED <<stageid, stage_wait_cycle, latches, locked, ex2_fw,
                    load_fw>>

ExecIdle ==
  /\ Goto("Exec", "Decode")
  /\ \/ stage_state[SEXEC] = "IDLE" /\ ~ Contains(SEXEC)
     \/ stage_state[SEXEC] = "STALL"
  /\ UNCHANGED <<stageid, stage_state, stage_wait_cycle, latches, board>>

(***************************************************************************)
(* Decode: an instruction whose sources are all available locks its        *)
(* destinations and leaves; one with a missing source tries again.         *)
(***************************************************************************)
RegAvailable(reg, branch) ==
  \/ reg = 0
  \/ locked[reg] <= 0
  \/ forwarding /\ branch /\ ex2_fw[reg]
  \/ forwarding /\ ~ branch /\ ex_fw[reg]
  \/ forwarding /\ ~ branch /\ ~ load0_fw[reg] /\ ex2_fw[reg]
  \/ forwarding /\ ~ branch /\ load_fw[reg]

Ready(inst) == \A reg \in Src(inst) : RegAvailable(reg, IsBranch(inst))

CanDecode == stage_state[SDECODE] = "IDLE" /\ Contains(SDECODE)

Decode ==
  LET inst == latches[SDECODE]
  IN /\ Goto("Decode", "Fetch")
     /\ CanDecode
     /\ Ready(inst)
     /\ locked' = [r \in Reg |-> IF r = 0 THEN 0
                                 ELSE IF r \in Dst(inst) THEN locked[r] + 1
                                 ELSE locked[r]]
     /\ stage_state' = [stage_state EXCEPT ![SDECODE] = "STALL"]
     /\ UNCHANGED <<stageid, stage_wait_cycle, latches, ex_fw, ex2_fw,
                    load0_fw, load_fw>>

DecodeRetry ==
  /\ Goto("Decode", "Fetch")
  /\ CanDecode
  /\ ~ Ready(latches[SDECODE])
  /\ UNCHANGED <<stageid, stage_state, stage_wait_cycle, latches, board>>

DecodeIdle ==
  /\ Goto("Decode", "Fetch")
  /\ \/ stage_state[SDECODE] = "IDLE" /\ ~ Contains(SDECODE)
     \/ stage_state[SDECODE] = "STALL"
  /\ UNCHANGED <<stageid, stage_state, stage_wait_cycle, latches, board>>

(***************************************************************************)
(* Fetch: the functional simulator executes an instruction, and a copy of  *)
(* it enters the pipeline.  (The code leaves Latch::contain of SFETCH      *)
(* false and never reads it: STALL says that the stage is occupied.)       *)
(***************************************************************************)
Fetch(inst) ==
  /\ Goto("Fetch", "Shift")
  /\ stage_state[SFETCH] = "IDLE"
  /\ latches' = [latches EXCEPT ![SFETCH] = inst]
  /\ stage_state' = [stage_state EXCEPT ![SFETCH] = "STALL"]
  /\ UNCHANGED <<stageid, stage_wait_cycle, board>>

FetchIdle ==
  /\ Goto("Fetch", "Shift")
  /\ stage_state[SFETCH] = "STALL"
  /\ UNCHANGED <<stageid, stage_state, stage_wait_cycle, latches, board>>

(***************************************************************************)
(* The shift at the end of StepPipe: for stageid = SMEM downto SFETCH, a   *)
(* finished instruction moves on if the next latch is free.                *)
(***************************************************************************)
Shiftable == stage_state[stageid] = "STALL" /\ ~ Contains(stageid + 1)

NextStageid ==
  IF stageid = SFETCH THEN step' = "WriteBack" /\ stageid' = SMEM
                      ELSE step' = step /\ stageid' = stageid - 1

ShiftStage ==
  /\ step = "Shift"
  /\ Shiftable
  /\ latches' = [latches EXCEPT ![stageid + 1] = latches[stageid],
                                ![stageid] = NoInst]
  /\ stage_state' = [stage_state EXCEPT ![stageid] = "IDLE"]
  /\ NextStageid
  /\ UNCHANGED <<stage_wait_cycle, board>>

ShiftNothing ==
  /\ step = "Shift"
  /\ ~ Shiftable
  /\ NextStageid
  /\ UNCHANGED <<stage_state, stage_wait_cycle, latches, board>>

(***************************************************************************)
(* The test of ExecLoop's loop: the CPU has stopped (exit, error) or       *)
(* SIGINT has set recieve_int; either may be seen before any cycle.        *)
(***************************************************************************)
Halt ==
  /\ Goto("WriteBack", "Halted")
  /\ UNCHANGED <<stageid, stage_state, stage_wait_cycle, latches, board>>

-----------------------------------------------------------------------------
WriteBackStep == WriteBack \/ WriteBackEmpty
MemStep == (\E l \in AccessLatency : MemAccess(l))
             \/ MemPass \/ MemBusy \/ MemIdle
ExecStep == Exec \/ ExecIdle
DecodeStep == Decode \/ DecodeRetry \/ DecodeIdle
FetchStep == (\E inst \in Inst : Fetch(inst)) \/ FetchIdle
ShiftStep == ShiftStage \/ ShiftNothing

StepPipe == WriteBackStep \/ MemStep \/ ExecStep \/ DecodeStep
              \/ FetchStep \/ ShiftStep

Next == StepPipe \/ Halt

Spec == Init /\ [][Next]_vars

(* ExecLoop calls StepPipe again and again: the simulator never rests      *)
(* inside the loop.                                                        *)
FairSpec == Spec /\ WF_vars(StepPipe)
-----------------------------------------------------------------------------
(***************************************************************************)
(* Where the writers of a register are.  An instruction holds its locks    *)
(* from the Decode that issued it until it leaves SWB.                     *)
(***************************************************************************)
Issued(s) == /\ s # SFETCH
             /\ Contains(s)
             /\ s = SDECODE => stage_state[SDECODE] = "STALL"

Writes(s, r) == Issued(s) /\ r \in Dst(latches[s])

Holds(s, r) == IF Writes(s, r) THEN 1 ELSE 0

AluWrites(s, r) == Writes(s, r) /\ ~ IsLoadStore(latches[s])
MemWrites(s, r) == Writes(s, r) /\ IsLoadStore(latches[s])

(***************************************************************************)
(* What a stage state says of the latches, and what the handlers rely on:  *)
(* a stage that works or waits holds an instruction, and only Mem is ever  *)
(* busy; SWB is IDLE (the assertion at pipe.cc:480) and drained before     *)
(* anything else runs; an instruction that has just come into SMEM or SWB  *)
(* has left an IDLE stage behind it; and every stage that has run in this  *)
(* cycle has taken up what the last shift gave it.                         *)
(***************************************************************************)
StageShape ==
  /\ \A s \in Stage : stage_state[s] # "IDLE" => Contains(s)
  /\ \A s \in Stage : stage_state[s] = "BUSY" => s = SMEM
  /\ stage_state[SWB] = "IDLE"
  /\ Contains(SFETCH) => stage_state[SFETCH] = "STALL"
  /\ Contains(SWB) => stage_state[SMEM] = "IDLE"
  /\ Contains(SMEM) /\ stage_state[SMEM] = "IDLE"
       => stage_state[SEXEC] = "IDLE"
  /\ step \in {"Mem", "Exec", "Decode", "Fetch"} => ~ Contains(SWB)
  /\ step \in {"Exec", "Decode", "Fetch"} /\ Contains(SMEM)
       => stage_state[SMEM] # "IDLE"
  /\ step \in {"Decode", "Fetch"} /\ Contains(SEXEC)
       => stage_state[SEXEC] # "IDLE"
  /\ step = "Shift" =>
       /\ stage_state[SFETCH] = "STALL"
       /\ Contains(SWB) => stageid < SMEM
       /\ Contains(SMEM) /\ stage_state[SMEM] = "IDLE" => stageid < SEXEC
       /\ Contains(SEXEC) /\ stage_state[SEXEC] = "IDLE" => stageid < SDECODE

(***************************************************************************)
(* The lock of a register counts the instructions in flight that will      *)
(* write it, so WriteBackReg never takes it below zero (the assertion at   *)
(* pipe.cc:470); register 0 is never locked.                               *)
(***************************************************************************)
LockCount ==
  /\ locked[0] = 0
  /\ \A r \in Reg \ {0} :
       locked[r] = Holds(SDECODE, r) + Holds(SEXEC, r)
                     + Holds(SMEM, r) + Holds(SWB, r)

(***************************************************************************)
(* A forwarding mark is set exactly while an instruction that justifies it *)
(* is where the mark says: marks never dangle after their instruction has  *)
(* left (they would let a later reader run ahead of the next writer), and  *)
(* none is lost when several writers of one register are in flight.        *)
(* Without forwarding there are no marks.                                  *)
(***************************************************************************)
ForwardMarks ==
  \A r \in Reg \ {0} :
    /\ ex_fw[r] <=> /\ forwarding
                    /\ \/ AluWrites(SEXEC, r) /\ stage_state[SEXEC] = "STALL"
                       \/ AluWrites(SMEM, r) /\ stage_state[SMEM] = "IDLE"
    /\ ex2_fw[r] <=> /\ forwarding
                     /\ \/ AluWrites(SMEM, r) /\ stage_state[SMEM] # "IDLE"
                        \/ AluWrites(SWB, r)
    /\ load0_fw[r] <=>
         /\ forwarding
         /\ \/ /\ MemWrites(SEXEC, r) /\ IsLoad(latches[SEXEC])
               /\ stage_state[SEXEC] = "STALL"
            \/ /\ MemWrites(SMEM, r) /\ IsLoad(latches[SMEM])
               /\ stage_state[SMEM] = "IDLE"
    /\ load_fw[r] <=> /\ forwarding
                      /\ \/ MemWrites(SMEM, r) /\ stage_state[SMEM] # "IDLE"
                         \/ MemWrites(SWB, r)

(***************************************************************************)
(* README.txt:55-57 and 60-67 say when a reader may leave Decode: with     *)
(* forwarding it waits for an ALU result not at all, for loaded data one   *)
(* cycle; a branch, which needs its sources in ID, waits one cycle longer. *)
(* In terms of where the youngest writer of the source is when Decode      *)
(* runs (SWB has been emptied by then):                                    *)
(***************************************************************************)
Announced(s, r, branch) ==
  IF branch THEN s = SMEM /\ AluWrites(s, r)
            ELSE s = SMEM \/ AluWrites(s, r)

YoungestAnnounced(r, branch) ==
  IF Writes(SEXEC, r) THEN Announced(SEXEC, r, branch)
  ELSE Writes(SMEM, r) => Announced(SMEM, r, branch)

(* Two writers of r in flight at once, of which the older has already      *)
(* announced its result and the younger has not.  pipe.cc keeps one set of *)
(* marks per register, so the younger must hide the marks of the older.    *)
(* Only a load does (load0_fw), only from readers that are no branches,    *)
(* and only marks made by an ALU instruction.                              *)
Unhidden(r, branch) ==
  /\ Writes(SEXEC, r) /\ ~ Announced(SEXEC, r, branch)
  /\ Writes(SMEM, r) /\ Announced(SMEM, r, branch)
  /\ ~ branch /\ IsLoad(latches[SEXEC]) => ~ AluWrites(SMEM, r)

AtDecode == step = "Decode" /\ CanDecode

(***************************************************************************)
(* With forwarding, Decode finds a source available exactly when its       *)
(* youngest writer in flight has announced it, whatever the instructions   *)
(* around it, unless a mark of an older writer is left unhidden.  It       *)
(* covers the example of README.txt:60-67 (ALU writer, then load, then     *)
(* reader), the 1- and 2-cycle rules of README.txt:55-57, and busy         *)
(* accesses in SMEM.  Without forwarding, a source is available exactly    *)
(* when no writer of it is in flight.                                      *)
(***************************************************************************)
IssueRule ==
  AtDecode =>
    LET branch == IsBranch(latches[SDECODE])
    IN \A r \in Src(latches[SDECODE]) \ {0} :
         /\ forwarding /\ ~ Unhidden(r, branch) =>
              (RegAvailable(r, branch) <=> YoungestAnnounced(r, branch))
         /\ ~ forwarding =>
              (RegAvailable(r, branch) <=> \A s \in Stage : ~ Writes(s, r))
=============================================================================
