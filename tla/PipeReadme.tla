----------------------------- MODULE PipeReadme -----------------------------
(***************************************************************************)
(* The interlock rules of README.txt, stated for every instruction stream: *)
(* what a reader of the change log may expect of any program.              *)
(***************************************************************************)
EXTENDS PipeLine

(* README.txt:56-57: "when a branch-type instruction is in ID, a RAW       *)
(* hazard on a preceding ALU instruction stalls it one cycle, one on a     *)
(* load two cycles": it leaves Decode only when the youngest writer of     *)
(* each of its sources has got that far.                                   *)
BranchRule ==
  AtDecode /\ forwarding /\ IsBranch(latches[SDECODE])
           /\ Ready(latches[SDECODE]) =>
    \A r \in Src(latches[SDECODE]) \ {0} : YoungestAnnounced(r, TRUE)

(* README.txt:65-67: an instruction that needs the value of a load right   *)
(* before it stalls one cycle; when a load passes stage E it makes what    *)
(* preceding instructions forward invalid.                                 *)
LoadRule ==
  AtDecode /\ forwarding /\ ~ IsBranch(latches[SDECODE])
           /\ Ready(latches[SDECODE]) =>
    \A r \in Src(latches[SDECODE]) \ {0} :
      Writes(SEXEC, r) => ~ IsLoad(latches[SEXEC])
=============================================================================
