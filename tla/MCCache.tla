------------------------------- MODULE MCCache ------------------------------
(***************************************************************************)
(* Two small caches: set associative and write-back, fully associative and *)
(* write-through, each with one or two blocks more than a set can hold.    *)
(***************************************************************************)
EXTENDS CacheLru

MCGeometry == {[sets |-> 2, way |-> 2, writeback |-> TRUE],
               [sets |-> 1, way |-> 3, writeback |-> FALSE]}
=============================================================================
