----------------------------- MODULE InOrderPipe ----------------------------
(***************************************************************************)
(* What a pipeline promises about the instructions themselves: those that  *)
(* the functional simulator has executed are retired once each, in the     *)
(* order of their execution, at most Depth of them are in flight, and the  *)
(* pipeline goes on retiring until the simulator stops.                    *)
(***************************************************************************)
EXTENDS Sequences, Naturals

CONSTANTS Inst, Depth

VARIABLES
  window,    \* the instructions in flight, the oldest first
  stopped    \* the simulator has left its loop

vars == <<window, stopped>>

Init == window = <<>> /\ stopped = FALSE

Enter ==
  /\ Len(window) < Depth
  /\ \E inst \in Inst : window' = Append(window, inst)
  /\ UNCHANGED stopped

Retire ==
  /\ window # <<>>
  /\ window' = Tail(window)
  /\ UNCHANGED stopped

Stop == stopped' = TRUE /\ UNCHANGED window

Next == ~ stopped /\ (Enter \/ Retire \/ Stop)

Spec == Init /\ [][Next]_vars

(* The pipeline never wedges: as long as the simulator runs, a next        *)
(* instruction retires.                                                    *)
Live == WF_vars(~ stopped /\ (Retire \/ Stop))

FairSpec == Spec /\ Live
=============================================================================
