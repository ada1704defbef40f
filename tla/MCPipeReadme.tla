---------------------------- MODULE MCPipeReadme ----------------------------
(***************************************************************************)
(* Short programs that put the rules of the README to the test.            *)
(***************************************************************************)
EXTENDS PipeReadme

I(op, rs, rt, rd) == [attr |-> Attr(op), rs |-> rs, rt |-> rt, rd |-> rd]

MCGPR == {0, 2, 31}

AluBranch == {I("ADDIU", 0, 2, 0), I("BEQ", 2, 0, 0)}
LoadUse == {I("LW", 0, 2, 0), I("ADDU", 2, 0, 0)}
=============================================================================
