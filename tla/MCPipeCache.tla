----------------------------- MODULE MCPipeCache ----------------------------
(***************************************************************************)
(* A direct-mapped cache of two lines under the pipeline: two blocks that  *)
(* share a line, one that does not, loads, stores and an ALU reader.       *)
(***************************************************************************)
EXTENDS PipeCache

M(op, rt, b) ==
  [attr |-> Attr(op), rs |-> 0, rt |-> rt, rd |-> 0, block |-> b]

MCGeometry == {[sets |-> 2, way |-> 1, writeback |-> TRUE]}
MCGPR == {0, 2, 31}
MCInst == {M("LW", 2, 0), M("SW", 2, 2), M("LW", 2, 1), M("SLL", 2, 0)}
MCLatency == {1, penalty, 2 * penalty}
=============================================================================
