----------------------------- MODULE FlatMemory -----------------------------
(***************************************************************************)
(* What loads and stores promise: memory is an array of bytes.  Bytes are  *)
(* written before the program starts; after that an access of n bytes      *)
(* means the n bytes from its address rounded down to n, the least         *)
(* significant first; the two halves of an unaligned word mean the bytes   *)
(* of the aligned word at and below, or at and above, their address; an    *)
(* access where there is no memory does nothing.                           *)
(*                                                                         *)
(* The variable did names what has been done last: the operation, which   *)
(* says how many bytes, and the address.  A step does what its name says.  *)
(***************************************************************************)
EXTENDS Integers

CONSTANTS Byte, Address

VARIABLES
  mem,       \* the bytes, by their address
  reg,       \* the register, four bytes, the least significant at 0
  running,   \* the program has started
  did       \* what was done last: [op, addr, data, turn]

vars == <<mem, reg, running, did>>

Init == /\ mem = [a \in Address |-> 0]
        /\ reg \in [0 .. 3 -> Byte]
        /\ running = FALSE
        /\ did = [op |-> "none", addr |-> 0, data |-> 0, turn |-> 0]

(* Before the program starts.                                              *)
WriteByte(a, b) ==
  /\ ~ running
  /\ mem' = IF a \in Address THEN [mem EXCEPT ![a] = b] ELSE mem
  /\ UNCHANGED <<reg, running>>

Start == ~ running /\ running' = TRUE /\ UNCHANGED <<mem, reg>>

(* The loads and stores, of bytes, halves and words and of the two ends of *)
(* an unaligned word.                                                      *)
Ops == {"LB", "LBU", "LH", "LHU", "LW", "LWL", "LWR",
        "SB", "SH", "SW", "SC", "SWL", "SWR"}

Width(op) == IF op \in {"LB", "LBU", "SB"} THEN 1
             ELSE IF op \in {"LH", "LHU", "SH"} THEN 2 ELSE 4

Down(a, n) == a - (a % n)

(* The sign of the byte b, four times over.                                *)
Extension(b) == IF 2 * b > CHOOSE x \in Byte : \A y \in Byte : x >= y
                THEN CHOOSE x \in Byte : \A y \in Byte : x >= y
                ELSE 0

Load(a, n, signed) ==
  reg' = [k \in 0 .. 3 |-> IF k < n THEN mem[a + k]
                           ELSE IF signed THEN Extension(mem[a + n - 1]) ELSE 0]

(* The low end of a word that starts at a, and the high end of one that    *)
(* ends at a.                                                              *)
LoadRight(a) ==
  reg' = [k \in 0 .. 3 |-> IF a + k < Down(a, 4) + 4 THEN mem[a + k]
                                                     ELSE reg[k]]

LoadLeft(a) ==
  reg' = [k \in 0 .. 3 |-> IF a - 3 + k >= Down(a, 4) THEN mem[a - 3 + k]
                                                      ELSE reg[k]]

One == [k \in 0 .. 3 |-> IF k = 0 THEN 1 ELSE 0]

Store(a, n) ==
  mem' = [x \in Address |->
            IF a <= x /\ x < a + n THEN reg[x - a] ELSE mem[x]]

StoreRight(a) ==
  mem' = [x \in Address |->
            IF a <= x /\ x < Down(a, 4) + 4 THEN reg[x - a] ELSE mem[x]]

StoreLeft(a) ==
  mem' = [x \in Address |->
            IF Down(a, 4) <= x /\ x <= a THEN reg[x - (a - 3)] ELSE mem[x]]

LoadAccess(op, a) ==
  /\ UNCHANGED mem
  /\ \/ /\ op \in {"LB", "LBU", "LH", "LHU", "LW"}
        /\ Load(Down(a, Width(op)), Width(op), op \in {"LB", "LH"})
     \/ op = "LWR" /\ LoadRight(a)
     \/ op = "LWL" /\ LoadLeft(a)

(* A conditional store (SC) tells the register that it has been done.      *)
StoreAccess(op, a) ==
  /\ reg' = IF op = "SC" THEN One ELSE reg
  /\ \/ op \in {"SB", "SH", "SW", "SC"} /\ Store(Down(a, Width(op)), Width(op))
     \/ op = "SWR" /\ StoreRight(a)
     \/ op = "SWL" /\ StoreLeft(a)

Access(op, a) ==
  /\ running /\ op \in Ops
  /\ IF a \in Address THEN LoadAccess(op, a) \/ StoreAccess(op, a)
                      ELSE UNCHANGED <<mem, reg>>
  /\ UNCHANGED running

(* Every step changes the turn: none of them is a stuttering step.         *)
Next ==
  /\ did'.turn = 1 - did.turn
  /\ \/ did'.op = "byte" /\ WriteByte(did'.addr, did'.data)
     \/ did'.op = "start" /\ Start
     \/ Access(did'.op, did'.addr)

Spec == Init /\ [][Next]_vars
=============================================================================
