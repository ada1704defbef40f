---------------------------- MODULE MCMultiCycle ----------------------------
(***************************************************************************)
(* Programs of three instructions with a handler of two: an instruction    *)
(* that changes the register or the memory, a branch back to it, a likely  *)
(* branch, a WAIT or a plain instruction, and in the delay slot accesses   *)
(* of each kind, a WAIT or another branch.                                 *)
(***************************************************************************)
EXTENDS CpuRestart, TLC

J(op, target) == [op |-> op, attr |-> Attr(op), target |-> target]
I(op) == J(op, 0)

MCHandler == 10
Handler == (10 :> I("NOP")) @@ (11 :> I("ERET"))

MCPrograms ==
  {(1 :> a) @@ (2 :> b) @@ (3 :> c) @@ Handler :
     a \in {I("ADDIU"), I("SWR")},
     b \in {J("BNE", 1), J("BNEL", 1), J("J", 0), I("WAIT")},
     c \in {I("LW"), I("SWR"), I("SC"), I("WAIT"), J("BNE", 2)}}
=============================================================================
