----------------------------- MODULE RestartCpu -----------------------------
(***************************************************************************)
(* What SimMips promises to a program that interrupts and exceptions are   *)
(* invisible: its instructions complete one at a time and in the program's *)
(* own order, whatever handlers ran in between.  Two things may show.  A   *)
(* branch whose delay slot was interrupted is executed again, and so is a  *)
(* store that had reached the memory when it was interrupted.              *)
(*                                                                         *)
(* A program counter counts instructions, so pc + 1 is the next one.  The  *)
(* data are one register and one word of memory, both below WordMod.       *)
(***************************************************************************)
EXTENDS MipsInst

CONSTANTS Programs, WordMod

VARIABLES
  code,        \* the program: an instruction for each address
  pc,          \* the next instruction to complete
  delay_npc,   \* where to go after the delay slot, 0 outside of one
  r, mem,      \* the data
  stopped

vars == <<code, pc, delay_npc, r, mem, stopped>>

Init ==
  /\ code \in Programs
  /\ pc = 1 /\ delay_npc = 0
  /\ r = 0 /\ mem = 0
  /\ stopped = FALSE

Here == code[pc]

Result(inst) ==
  CASE inst.op = "ADDIU" -> (r + 1) % WordMod
    [] "LOAD" \in inst.attr -> mem
    [] inst.op = "SC" -> 1
    [] OTHER -> r

Branches(inst) == inst.attr \cap {"BRANCH", "BRANCH_LIKELY"} # {}
Taken(inst) == Branches(inst) /\ (inst.op = "J" \/ r # 0)
SkipsSlot(inst) == "BRANCH_LIKELY" \in inst.attr /\ ~ Taken(inst)

Follow(inst) ==
  IF delay_npc # 0 THEN pc' = delay_npc /\ delay_npc' = 0
  ELSE IF Taken(inst) THEN pc' = pc + 1 /\ delay_npc' = inst.target
  ELSE pc' = (IF SkipsSlot(inst) THEN pc + 2 ELSE pc + 1) /\ delay_npc' = 0

Complete ==
  /\ pc \in DOMAIN code
  /\ r' = Result(Here)
  /\ mem' = IF "STORE" \in Here.attr THEN r ELSE mem
  /\ Follow(Here)
  /\ stopped' \in BOOLEAN
  /\ UNCHANGED code

(* The delay slot will be reached through its branch again.                *)
BackToBranch ==
  /\ delay_npc # 0
  /\ pc' = pc - 1
  /\ delay_npc' = 0
  /\ UNCHANGED <<code, r, mem, stopped>>

(* A store reaches the memory; it completes next, or it is made again.     *)
EarlyStore ==
  /\ pc \in DOMAIN code
  /\ "STORE" \in Here.attr
  /\ mem' = r
  /\ UNCHANGED <<code, pc, delay_npc, r, stopped>>

Stop == stopped' = TRUE /\ UNCHANGED <<code, pc, delay_npc, r, mem>>

Next == ~ stopped /\ (Complete \/ BackToBranch \/ EarlyStore \/ Stop)

Spec == Init /\ [][Next]_vars
=============================================================================
