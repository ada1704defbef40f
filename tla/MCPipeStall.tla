----------------------------- MODULE MCPipeStall ----------------------------
(***************************************************************************)
(* Two small pipelines with the cache off, one that forwards and one with  *)
(* the interlock alone, each with an alphabet of its own.  Option -f is    *)
(* chosen in the initial state and kept.  They share their variables, step *)
(* excepted: the one that was not chosen stays halted.                     *)
(***************************************************************************)
EXTENDS PipeStall

VARIABLES
  f,              \* option -f was given
  interlock_step  \* step of the pipeline without forwarding

I(op, rs, rt, rd) == [attr |-> Attr(op), rs |-> rs, rt |-> rt, rd |-> rd]

MCGPR == {0, 2, 31}

(* Writers of $2 of each kind and of $31, readers that need them in ID     *)
(* (beq) and in EX.                                                        *)
StallInst == {I("ADDU", 2, 31, 2), I("LW", 0, 2, 0), I("SC", 0, 2, 0),
              I("BEQ", 2, 31, 0), I("JAL", 0, 0, 0), I("MFLO", 0, 0, 31),
              I("MULT", 2, 0, 0)}

(* Two destinations (mult), accumulation (madd: HI and LO read and         *)
(* written), the link register (jal, jr) and a load.                       *)
HiLoInst == {I("MULT", 2, 0, 0), I("MFLO", 0, 0, 2), I("MADD", 2, 31, 0),
             I("JAL", 0, 0, 0), I("JR", 31, 0, 0), I("LW", 31, 2, 0)}

Interlock == INSTANCE PipeLine WITH Inst <- HiLoInst, forwarding <- FALSE,
               step <- interlock_step

Order == INSTANCE PipeOrder WITH Inst <- StallInst \cup HiLoInst,
           step <- IF f THEN step ELSE interlock_step

MCInit ==
  /\ f \in BOOLEAN
  /\ IF f THEN StallInit /\ interlock_step = "Halted"
          ELSE Interlock!Init /\ step = "Halted" /\ stalled = 0 /\ due = 0

MCNext ==
  /\ \/ f /\ StallNext /\ UNCHANGED interlock_step
     \/ ~ f /\ Interlock!Next /\ UNCHANGED <<step, stalled, due>>
  /\ UNCHANGED f

mcVars == <<stallVars, interlock_step, f>>

Cycle == \/ f /\ StepPipe
         \/ ~ f /\ Interlock!StepPipe

MCSpec == MCInit /\ [][MCNext]_mcVars /\ WF_mcVars(Cycle /\ MCNext)

(* With either setting of the option instructions keep being retired, in   *)
(* order (PipeOrder).                                                      *)
InOrderLive == Order!InOrderLive
=============================================================================
