----------------------------- MODULE CpuRestart -----------------------------
(***************************************************************************)
(* MultiCycle implements RestartCpu.  While a handler runs (EXL is set)    *)
(* the program stands where EPC says.  Two history variables observe the   *)
(* CPU and constrain nothing.                                              *)
(***************************************************************************)
EXTENDS MultiCycle

(* The programs an interrupt can be invisible to: execution starts below   *)
(* the handler and does not run or jump into it, and the handler, whatever *)
(* it executes, gives back the register and the memory as they were.       *)
ASSUME HandlerAssumption ==
  /\ HANDLER > 1
  /\ \A p \in Programs : \A a \in DOMAIN p :
       IF a < HANDLER
       THEN a + 2 < HANDLER /\ p[a].target < HANDLER
       ELSE /\ p[a].attr \cap {"WRITE_RT", "LOAD", "STORE"} = {}
            /\ p[a].target \notin 1 .. HANDLER - 1

VARIABLES
  made,     \* requests for DATA the instruction at hand has made
  waited    \* steps of the CPU since an interrupt has been enabled

historyVars == <<vars, made, waited>>

UserPc == IF exl THEN epc ELSE pc
UserDelay == IF exl THEN 0 ELSE delay_npc

Abstract == INSTANCE RestartCpu WITH pc <- UserPc, delay_npc <- UserDelay,
                                     stopped <- (phase = "ERROR")

Requested ==
  \/ phase = "MS" /\ ~ Excepted /\ paddr = DATA
  \/ phase = "MR" /\ ~ Excepted /\ paddr = DATA /\ inst.op \in Unaligned

Watch ==
  /\ made' = IF phase \in {"WB", "WAIT"} THEN 0
             ELSE IF Requested THEN made + 1 ELSE made
  /\ waited' = IF Interrupt /\ ~ exl' THEN waited + 1 ELSE 0

HistoryInit == Init /\ made = 0 /\ waited = 0
HistoryNext == \/ CpuStep /\ Watch
               \/ /\ Devices
                  /\ waited' = IF ip' THEN waited ELSE 0
                  /\ UNCHANGED made
HistorySpec == HistoryInit /\ [][HistoryNext]_historyVars
HistoryFairSpec == HistorySpec /\ WF_vars(CpuStep)

(***************************************************************************)
(* The program's instructions complete in its own order, each with the     *)
(* register and the memory as if it ran alone, whatever interrupts came    *)
(* between two phases and whatever faults its own accesses met: EPC is     *)
(* where to go on, also out of a delay slot, out of WAIT, and after a      *)
(* fault inside a handler.                                                 *)
(***************************************************************************)
Restartable == Abstract!Spec

(***************************************************************************)
(* What an instruction has asked of the memory when it ends: its own       *)
(* accesses if it completes; if it does not, none, save that with -m an    *)
(* interrupt may stop it after it has made them, and they will be made     *)
(* again.  (For a device register that matters: the model excludes them.)  *)
(***************************************************************************)
Accesses ==
  IF ~ IsLoadStore(inst) THEN 0 ELSE IF inst.op \in Unaligned THEN 2 ELSE 1

OnceOnly ==
  phase = "WB" =>
    IF exc_occur THEN made > 0 => multicycle /\ exc_code = "INT"
                 ELSE made = Accesses

(***************************************************************************)
(* SimMips/README.txt: with -m an instruction takes five to seven cycles.  *)
(* So does, at most, an enabled interrupt to get the CPU into its handler. *)
(***************************************************************************)
Responsive == waited < 7
=============================================================================
