-------------------------------- MODULE MCCp0 -------------------------------
(***************************************************************************)
(* The two programs of coprocessor 0 side by side: which of them runs is   *)
(* chosen in the initial state, and the other one's variables stay put.    *)
(* Three TLB entries, one of them wired; two address spaces that use the   *)
(* same pair of pages; COUNT in six bits.                                  *)
(***************************************************************************)
EXTENDS TlbKernel, TickKernel, TLC

VARIABLE program

Op(kind, vaddr) == [kind |-> kind, vaddr |-> vaddr]

MCUserPage == 1 :> {0, 1} @@ 2 :> {0}

(* Both halves of a pair in one space; a page that is read before it is    *)
(* written in the other.                                                   *)
MCOps ==
  1 :> {Op("load", 0), Op("store", 3), Op("unmap", 3), Op("switch", 0)}
  @@ 2 :> {Op("load", 1), Op("store", 0), Op("unmap", 0), Op("switch", 0)}

NoTicks == at = "off" /\ expire = 0 /\ masked = 0

NoPaging ==
  /\ pc = "boot" /\ op = Op("none", 0)
  /\ pt = [asid \in ASID |-> [page \in UserPage[asid] |-> "none"]]
  /\ saved = "user" /\ quiet = FALSE

MCInit ==
  \/ program = "paging" /\ KernelInit /\ NoTicks
  \/ program = "tick" /\ TickInit /\ NoPaging

MCNext ==
  /\ \/ program = "paging" /\ KernelNext /\ UNCHANGED <<at, expire, masked>>
     \/ program = "tick" /\ TickNext /\ UNCHANGED <<pc, op, pt, saved, quiet>>
  /\ UNCHANGED program

mcVars == <<kernelVars, tickVars, program>>
MCSpec == MCInit /\ [][MCNext]_mcVars /\ WF_mcVars(MCNext)

(***************************************************************************)
(* Every instruction of the paged programs is executed sooner or later: a  *)
(* chain of misses, nested misses, faults and interrupts ends, with the    *)
(* program where EPC says.  And the tick handler runs again and again.     *)
(***************************************************************************)
Served == []<><<\/ program = "paging" /\ Done
                \/ program = "tick" /\ TickWrite>>_mcVars
=============================================================================
