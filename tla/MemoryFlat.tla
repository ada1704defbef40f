----------------------------- MODULE MemoryFlat -----------------------------
(***************************************************************************)
(* Memory implements FlatMemory: the words of the pages, wherever the map  *)
(* leads, are the bytes of one array, and each step means there what its   *)
(* instruction and address say.                                            *)
(***************************************************************************)
EXTENDS Memory

RegBytes == [k \in 0 .. 3 |-> Extract(r, k, 1)]
MemBytes == [a \in Address |-> ByteAt(a)]

Abstract == INSTANCE FlatMemory WITH Byte <- 0 .. Radix - 1,
                                     mem <- MemBytes,
                                     reg <- RegBytes

(***************************************************************************)
(* Every instruction does to the bytes what its name and address say, and  *)
(* nothing else: a load of that width and sign finds there what was        *)
(* written last, by siminit or by the program, a store is neither lost nor *)
(* misplaced and reaches no byte beside its own, through overlapping       *)
(* entries of the map and into pages not yet made, and an access without   *)
(* memory has no effect.  FlatMemory reads the operation and the address   *)
(* from did, so that no other access can stand for the one executed.      *)
(***************************************************************************)
IsFlat == Abstract!Spec
=============================================================================
