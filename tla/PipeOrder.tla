------------------------------ MODULE PipeOrder -----------------------------
(***************************************************************************)
(* PipeLine implements InOrderPipe: the latches, read from SWB back to     *)
(* SFETCH, are the window of the abstract pipeline.                        *)
(***************************************************************************)
EXTENDS PipeLine, Sequences

Latched(s) == IF Contains(s) THEN <<latches[s]>> ELSE <<>>

Window == Latched(SWB) \o Latched(SMEM) \o Latched(SEXEC)
            \o Latched(SDECODE) \o Latched(SFETCH)

(***************************************************************************)
(* The shifts and stalls of the stages neither lose nor duplicate nor      *)
(* reorder an instruction, and the interlock always lets go of the one it  *)
(* holds: InOrder is safety, InOrderLive also says that instructions keep  *)
(* being retired.                                                          *)
(***************************************************************************)
Abstract == INSTANCE InOrderPipe WITH window <- Window,
                                      stopped <- (step = "Halted"),
                                      Depth <- 5

InOrder == Abstract!Spec
InOrderLive == Abstract!Live
=============================================================================
