------------------------------ MODULE PipeStall -----------------------------
(***************************************************************************)
(* How many cycles an instruction is held in Decode.  PipeLine has no      *)
(* variable that counts them; this module adds two history variables to    *)
(* it, which observe Decode and constrain nothing.                         *)
(***************************************************************************)
EXTENDS PipeLine, FiniteSetsExt

VARIABLES
  stalled,   \* failed attempts of the instruction that SDECODE holds,
             \* counted up to MaxStalled
  due        \* the attempts it had to fail, as seen at its first one

stallVars == <<vars, stalled, due>>

(***************************************************************************)
(* README.txt:55-57 and 60-67: how long a reader of r has to wait, given   *)
(* where the youngest writer of r is at the reader's first attempt, when   *)
(* every access takes one cycle.  A source with an unhidden older mark     *)
(* (see PipeLine) is not waited for; MCPipeReadme shows that this departs  *)
(* from the README.                                                        *)
(***************************************************************************)
Delay(r, branch) ==
  IF Unhidden(r, branch) /\ forwarding THEN 0
  ELSE IF Writes(SEXEC, r)
  THEN IF ~ forwarding THEN 2
       ELSE (IF branch THEN 1 ELSE 0) + (IF AluWrites(SEXEC, r) THEN 0 ELSE 1)
  ELSE IF Writes(SMEM, r) /\ (~ forwarding \/ (branch /\ MemWrites(SMEM, r)))
  THEN 1 ELSE 0

Required(inst) ==
  Max({Delay(r, IsBranch(inst)) : r \in Src(inst) \ {0}} \cup {0})

(* No instruction has to wait longer than two cycles: to count one more    *)
(* is enough to see one that waits too long.                               *)
MaxStalled == 3

DueNow == IF stalled = 0 THEN Required(latches[SDECODE]) ELSE due

Observe ==
  IF AtDecode
  THEN /\ stalled' = IF Ready(latches[SDECODE]) THEN 0
                     ELSE Min({stalled + 1, MaxStalled})
       /\ due' = IF Ready(latches[SDECODE]) THEN 0 ELSE DueNow
  ELSE UNCHANGED <<stalled, due>>

StallInit == Init /\ stalled = 0 /\ due = 0
StallNext == Next /\ Observe
StallSpec == StallInit /\ [][StallNext]_stallVars
StallFairSpec == StallSpec /\ WF_vars(StepPipe)

(***************************************************************************)
(* With the cache off an instruction leaves Decode after exactly the       *)
(* stalls its first attempt calls for, neither a cycle early (a hazard     *)
(* missed) nor a cycle late (a lock or a mark kept too long).              *)
(***************************************************************************)
ExactStall ==
  AtDecode /\ ~ dcache_enable => (Ready(latches[SDECODE]) <=> stalled = DueNow)
=============================================================================
