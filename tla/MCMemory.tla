------------------------------ MODULE MCMemory ------------------------------
(***************************************************************************)
(* Two entries of the map that overlap, in pages of two words: addresses   *)
(* below 8 belong to the first, those from 8 to 11 to the second.          *)
(***************************************************************************)
EXTENDS MemoryFlat

MCMap == <<[addr |-> 0, size |-> 8], [addr |-> 4, size |-> 8]>>

(* A raw file that the program overlaps; its last byte has no memory.      *)
MCRaw == <<[addr |-> 4, data |-> 1], [addr |-> 6, data |-> 1],
           [addr |-> 12, data |-> 1]>>

Text == [type |-> SHT_PROGBITS, alloc |-> TRUE, addr |-> 1,
         data |-> <<1, 1, 0, 1, 1>>]
Bss == [type |-> SHT_NOBITS, alloc |-> TRUE, addr |-> 5, data |-> <<1, 1>>]
Comment == [type |-> SHT_PROGBITS, alloc |-> FALSE, addr |-> 0,
            data |-> <<1>>]
InitArray == [type |-> SHT_INIT_ARRAY, alloc |-> TRUE, addr |-> 8,
              data |-> <<0, 1>>]

MCSections == <<Comment, Text, Bss>>
(* What a step does depends on did by its turn only, and IsFlat asks of   *)
(* each step that it changes the turn: states that differ in did alone    *)
(* have the same steps, and one of them will do.                           *)
MCView == <<pagetable, loaded, running, r, stores>>

MCConstructors == <<Text, InitArray>>
=============================================================================
