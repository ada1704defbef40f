------------------------------- MODULE MCWords ------------------------------
(***************************************************************************)
(* The two parts that compute with uint032_t, each at a width that can be  *)
(* enumerated: the options and the geometry of the cache, with arguments   *)
(* that include negative numbers, zero, a number that is no power of two   *)
(* and powers up to the word size; and the instructions, on all pairs of   *)
(* operands.  Which of the two is run is chosen in the initial state.      *)
(***************************************************************************)
EXTENDS CacheConfig, Execute

VARIABLE machine

MCArgs == {-2, 0, 1, 2, 3, 4, 8, 16}

(* Three registers that differ; one register three times; register 0.      *)
MCFields == {[rs |-> 1, rt |-> 2, rd |-> REG_RA],
             [rs |-> 2, rt |-> 2, rd |-> 2],
             [rs |-> 1, rt |-> 0, rd |-> 0]}

MCOthers == {[hi |-> 0, lo |-> 0, cond |-> FALSE, cp0 |-> FALSE],
             [hi |-> 15, lo |-> 9, cond |-> TRUE, cp0 |-> TRUE],
             [hi |-> 7, lo |-> 15, cond |-> FALSE, cp0 |-> TRUE]}

MCInit == /\ ConfigInit
          /\ ExecuteInit
          /\ \/ machine = "execute"
             \/ machine = "options" /\ before.cp0 = FALSE
                  /\ \A n \in Reg : before.r[n] = 0

MCNext == /\ \/ machine = "options" /\ ConfigNext /\ UNCHANGED executeVars
             \/ machine = "execute" /\ ExecuteNext /\ UNCHANGED configVars
          /\ UNCHANGED machine

MCSpec == MCInit /\ [][MCNext]_<<configVars, executeVars, machine>>
=============================================================================
