----------------------------- MODULE MCPipeLine -----------------------------
(***************************************************************************)
(* A small instance of PipeLine and of its refinement: an instruction      *)
(* alphabet over the registers 0, 2 and 31 that brings about every hazard  *)
(* the forwarding marks tell apart, with accesses of one and three cycles. *)
(***************************************************************************)
EXTENDS PipeOrder

I(op, rs, rt, rd) == [attr |-> Attr(op), rs |-> rs, rt |-> rt, rd |-> rd]

MCGPR == {0, 2, 31}

(* Writers of $2 of each kind (ALU, load, SC), a writer of $0, readers of  *)
(* $2 in ID (beq) and in EX (sw, addu).                                    *)
GprInst == {I("ADDU", 2, 0, 2), I("LW", 0, 2, 0), I("SC", 0, 2, 0),
            I("SW", 2, 0, 0), I("BEQ", 2, 0, 0), I("ADDIU", 2, 0, 0)}
=============================================================================
