------------------------------ MODULE Execute -------------------------------
(***************************************************************************)
(* What an instruction computes: Mips::regfetch, execute and writeback     *)
(* (SimMips/mips.cc) for the instructions that name no memory and no       *)
(* register of coprocessor 0, on words of XLEN bits with immediates half   *)
(* as wide.  One instruction is executed from any contents of the          *)
(* registers; how instructions follow each other is in MultiCycle.         *)
(*                                                                         *)
(* The products of two uint032_t that MUL, MADD and MSUB make in int064_t  *)
(* overflow it; they wrap around, as the multiplication of the host does.  *)
(***************************************************************************)
EXTENDS MipsInst, Bitwise

CONSTANTS
  XLEN,       \* width of a word: 32
  AddrBits,   \* width of the address field of a jump: 26
  Pc,         \* where the instruction is
  Fields,     \* the register fields [rs, rt, rd] of the instruction
  Others      \* initial [hi, lo, cond, cp0]

ASSUME ExecuteAssumption == /\ XLEN \in Nat \ {0} /\ XLEN % 2 = 0
                            /\ AddrBits \in Nat /\ AddrBits + 2 < XLEN
                            /\ Pc \in 0 .. 2^XLEN - 1

VARIABLES
  inst,       \* the instruction, NotYet before it is executed
  before,     \* history: the machine before it
  after       \* the machine: r, hi, lo, cond, npc; cp0 present; exc

executeVars == <<inst, before, after>>

NotYet == [op |-> "none"]
Reg == {0, 1, 2, REG_RA}
ImmBits == XLEN \div 2
Word == 0 .. 2^XLEN - 1
Wrap(n) == n % 2^XLEN
Bit(w, b) == (w \div 2^b) % 2

(* The cast to int032_t.                                                   *)
Signed(w) == IF w < 2^(XLEN - 1) THEN w ELSE w - 2^XLEN

SGN(w) == Bit(w, XLEN - 1)

(* exts32: the lower y bits of x, with their sign.                         *)
exts32(x, y) ==
  IF y = XLEN THEN x
  ELSE IF Bit(x, y - 1) = 1 THEN 2^XLEN - 2^y + (x % 2^y) ELSE x % 2^y

(* Division as in C: towards zero, the remainder with the sign of a.       *)
Magnitude(n) == IF n < 0 THEN -n ELSE n
Quotient(a, b) ==
  IF (a < 0) = (b < 0) THEN Magnitude(a) \div Magnitude(b)
                       ELSE -(Magnitude(a) \div Magnitude(b))
Remainder(a, b) == a - b * Quotient(a, b)

-----------------------------------------------------------------------------
(* execute, by what it computes: rrd.                                      *)
Rrd(i, s, t, m) ==
  CASE i.op = "SLL"  -> Wrap(t * 2^i.imm)
    [] i.op = "SRL"  -> t \div 2^i.imm
    [] i.op = "SRA"  -> exts32(t \div 2^i.imm, XLEN - i.imm)
    [] i.op = "SLLV" -> Wrap(t * 2^(s % XLEN))
    [] i.op = "SRLV" -> t \div 2^(s % XLEN)
    [] i.op = "SRAV" -> exts32(t \div 2^(s % XLEN), XLEN - (s % XLEN))
    [] i.op \in {"JALR", "JALR_HB"} -> Wrap(Pc + 8)
    [] i.op \in {"MOVZ", "MOVN"} -> s
    [] i.op = "MFHI" -> m.hi
    [] i.op = "MFLO" -> m.lo
    [] i.op \in {"ADD", "ADDU"} -> Wrap(s + t)
    [] i.op \in {"SUB", "SUBU"} -> Wrap(s - t)
    [] i.op = "AND"  -> s & t
    [] i.op = "OR"   -> s | t
    [] i.op = "XOR"  -> s ^^ t
    [] i.op = "NOR"  -> Wrap(-1 - (s | t))
    [] i.op = "SLT"  -> IF Signed(s) < Signed(t) THEN 1 ELSE 0
    [] i.op = "SLTU" -> IF s < t THEN 1 ELSE 0
    [] i.op = "MUL"  -> Wrap(s * t)
    [] i.op = "CLZ"  -> CHOOSE n \in 0 .. XLEN :
                          /\ \A k \in 0 .. n - 1 : Bit(s, XLEN - 1 - k) = 0
                          /\ n < XLEN => Bit(s, XLEN - 1 - n) = 1
    [] i.op = "CLO"  -> CHOOSE n \in 0 .. XLEN :
                          /\ \A k \in 0 .. n - 1 : Bit(s, XLEN - 1 - k) = 1
                          /\ n < XLEN => Bit(s, XLEN - 1 - n) = 0
    [] OTHER -> m.r[i.rd]

(* rrt, which the instructions with an immediate write.                    *)
Rrt(i, s, t) ==
  LET imm == exts32(i.imm, ImmBits)
  IN CASE i.op \in {"ADDI", "ADDIU"} -> Wrap(s + imm)
       [] i.op = "SLTI"  -> IF Signed(s) < Signed(imm) THEN 1 ELSE 0
       [] i.op = "SLTIU" -> IF s < imm THEN 1 ELSE 0
       [] i.op = "ANDI"  -> s & i.imm
       [] i.op = "ORI"   -> s | i.imm
       [] i.op = "XORI"  -> s ^^ i.imm
       [] i.op = "LUI"   -> Wrap(i.imm * 2^ImmBits)
       [] OTHER -> t

(* rhi and rlo, as the two words of one number; MADD is MADDU and MSUB is  *)
(* MSUBU, since the operands are not cast to int032_t first.               *)
Pair(hi, lo) == <<Wrap(hi), Wrap(lo)>>
Long(n) == Pair(n \div 2^XLEN, n)

HiLo(i, s, t, m) ==
  CASE i.op = "MTHI"  -> <<s, m.lo>>
    [] i.op = "MTLO"  -> <<m.hi, s>>
    [] i.op = "MULT"  -> Long(Signed(s) * Signed(t))
    [] i.op = "MULTU" -> Long(s * t)
    [] i.op = "DIV" ->
         IF t # 0 /\ (s # 2^(XLEN - 1) \/ t # 2^XLEN - 1)
         THEN Pair(Remainder(Signed(s), Signed(t)),
                   Quotient(Signed(s), Signed(t)))
         ELSE <<0, 0>>
    [] i.op = "DIVU" -> IF t # 0 THEN <<s % t, s \div t>> ELSE <<0, 0>>
    [] i.op \in {"MADD", "MADDU"} -> Long(m.hi * 2^XLEN + m.lo + s * t)
    [] i.op \in {"MSUB", "MSUBU"} -> Long(m.hi * 2^XLEN + m.lo - s * t)
    [] OTHER -> <<m.hi, m.lo>>

(* cond: the condition of a branch or of a conditional move.               *)
Cond(i, s, t, m) ==
  CASE i.op \in {"J", "JAL", "JR", "JR_HB", "JALR", "JALR_HB"} -> TRUE
    [] i.op = "MOVZ" -> t = 0
    [] i.op = "MOVN" -> t # 0
    [] i.op \in {"BLTZ", "BLTZL", "BLTZAL", "BLTZALL"} -> Signed(s) < 0
    [] i.op \in {"BGEZ", "BGEZL", "BGEZAL", "BGEZALL"} -> Signed(s) >= 0
    [] i.op \in {"BEQ", "BEQL"} -> s = t
    [] i.op \in {"BNE", "BNEL"} -> s # t
    [] i.op \in {"BLEZ", "BLEZL"} -> Signed(s) <= 0
    [] i.op \in {"BGTZ", "BGTZL"} -> Signed(s) > 0
    [] OTHER -> m.cond

(* npc: where the branch leads.                                            *)
Npc(i, s, m) ==
  CASE i.op \in {"J", "JAL"} ->
         Pc - (Pc % 2^(AddrBits + 2)) + i.imm * 4
    [] i.op \in {"JR", "JR_HB", "JALR", "JALR_HB"} -> s
    [] i.attr \cap {"BRANCH", "BRANCH_LIKELY"} # {} ->
         Wrap(Pc + exts32(i.imm, ImmBits) * 4 + 4)
    [] OTHER -> m.npc

(* The exceptions of execute.                                              *)
Exception(i, s, t) ==
  LET imm == exts32(i.imm, ImmBits)
      Over(a, b, sum) == SGN(a) = SGN(b) /\ SGN(a) # SGN(sum)
      Trap == \/ i.op = "TGE"   /\ Signed(s) >= Signed(t)
              \/ i.op = "TGEU"  /\ s >= t
              \/ i.op = "TLT"   /\ Signed(s) < Signed(t)
              \/ i.op = "TLTU"  /\ s < t
              \/ i.op = "TEQ"   /\ s = t
              \/ i.op = "TNE"   /\ s # t
              \/ i.op = "TGEI"  /\ Signed(s) >= Signed(imm)
              \/ i.op = "TGEIU" /\ s >= imm
              \/ i.op = "TLTI"  /\ Signed(s) < Signed(imm)
              \/ i.op = "TLTIU" /\ s < imm
              \/ i.op = "TEQI"  /\ s = imm
              \/ i.op = "TNEI"  /\ s # imm
      Overflow == \/ i.op = "ADD"  /\ Over(s, t, Wrap(s + t))
                  \/ i.op = "SUB"  /\ SGN(s) # SGN(t)
                                   /\ SGN(s) # SGN(Wrap(s - t))
                  \/ i.op = "ADDI" /\ Over(s, imm, Wrap(s + imm))
  IN IF i.op = "BREAK" THEN "BP"
     ELSE IF Trap THEN "TRAP" ELSE IF Overflow THEN "OV" ELSE "none"

(* One instruction: regfetch, execute and writeback, which an exception    *)
(* skips.  Without coprocessor 0 there are no exceptions.  No attribute    *)
(* word names two general registers to write (lemma WordShape), so the     *)
(* order of the writes does not matter, except that register 0 is last.    *)
Outcome(i, m) ==
  LET s == m.r[i.rs]
      t == m.r[i.rt]
      exc == IF m.cp0 THEN Exception(i, s, t) ELSE "none"
      cond == Cond(i, s, t, m)
      hilo == HiLo(i, s, t, m)
      written ==
        [n \in Reg |->
           CASE n = 0 -> 0
             [] n # 0 /\ "WRITE_RT" \in i.attr /\ n = i.rt -> Rrt(i, s, t)
             [] n # 0 /\ n = i.rd
                  /\ \/ "WRITE_RD" \in i.attr
                     \/ "WRITE_RD_COND" \in i.attr /\ cond -> Rrd(i, s, t, m)
             [] n # 0 /\ "WRITE_RRA" \in i.attr /\ n = REG_RA -> Wrap(Pc + 8)
             [] OTHER -> m.r[n]]
  IN [m EXCEPT !.exc = exc, !.cond = cond, !.npc = Npc(i, s, m),
               !.r  = IF exc = "none" THEN written ELSE @,
               !.hi = IF exc = "none" /\ "WRITE_HI" \in i.attr
                      THEN hilo[1] ELSE @,
               !.lo = IF exc = "none" /\ "WRITE_LO" \in i.attr
                      THEN hilo[2] ELSE @]

Immediate(op) ==
  CASE op \in {"SLL", "SRL", "SRA"} -> 0 .. XLEN - 1
    [] op \in {"J", "JAL"} -> 0 .. 2^AddrBits - 1
    [] op \in (RegimmOps \cup ImmediateOps) \ {"J", "JAL"} -> 0 .. 2^ImmBits - 1
    [] OTHER -> {0}

Executed == (SpecialOps \ {"SYSCALL"}) \cup RegimmOps \cup ImmediateOps
              \cup Special2Ops

ExecuteInit ==
  /\ inst = NotYet
  /\ \E a, b \in Word, o \in Others :
       before = [r |-> [n \in Reg |-> IF n = 1 THEN a ELSE
                                      IF n = 2 THEN b ELSE 0],
                 hi |-> o.hi, lo |-> o.lo, cond |-> o.cond, cp0 |-> o.cp0,
                 npc |-> 0, exc |-> "none"]
  /\ after = before

ExecuteNext ==
  /\ inst = NotYet
  /\ \E op \in Executed : \E n \in Immediate(op), f \in Fields :
       inst' = [op |-> op, attr |-> Attr(op), imm |-> n,
                rs |-> f.rs, rt |-> f.rt, rd |-> f.rd]
  /\ before' = after
  /\ after' = Outcome(inst', after)

ExecuteSpec == ExecuteInit /\ [][ExecuteNext]_executeVars

-----------------------------------------------------------------------------
(* What the architecture says, in integers instead of words.               *)
S == before.r[inst.rs]
T == before.r[inst.rt]
Imm == Signed(exts32(inst.imm, ImmBits))
Unsigned64(m) == m.hi * 2^XLEN + m.lo
Signed64(m) == Signed(m.hi) * 2^XLEN + m.lo
Fits(n) == n \in -2^(XLEN - 1) .. 2^(XLEN - 1) - 1
Same(a, b, modulus) == (a - b) % modulus = 0

(* The sums and differences that may overflow, exactly.                    *)
Exact == CASE inst.op = "ADD"  -> Signed(S) + Signed(T)
           [] inst.op = "SUB"  -> Signed(S) - Signed(T)
           [] inst.op = "ADDI" -> Signed(S) + Imm

(* Of an instruction that went through: got is what it wrote.              *)
WordResult(got) ==
  LET op == inst.op
      amount == IF op \in {"SRA", "SRL"} THEN inst.imm ELSE S % XLEN
      Bitwise2(x, y) ==
        \A b \in 0 .. XLEN - 1 :
          Bit(got, b) =
            CASE op \in {"AND", "ANDI"} -> Bit(x, b) * Bit(y, b)
              [] op \in {"OR", "ORI"} ->
                   1 - (1 - Bit(x, b)) * (1 - Bit(y, b))
              [] op \in {"XOR", "XORI"} -> (Bit(x, b) + Bit(y, b)) % 2
              [] op = "NOR" -> (1 - Bit(x, b)) * (1 - Bit(y, b))
  IN /\ op \in {"SRA", "SRAV"} => Signed(got) = Signed(T) \div 2^amount
     /\ op \in {"SRL", "SRLV"} =>
          got * 2^amount <= T /\ T < (got + 1) * 2^amount
     /\ op \in {"AND", "OR", "XOR", "NOR"} => Bitwise2(S, T)
     /\ op \in {"ANDI", "ORI", "XORI"} => Bitwise2(S, inst.imm)
     /\ op = "ADDIU" => Same(got, S + Imm, 2^XLEN)
     /\ op = "SLTI" => (got = 1) = (Signed(S) < Imm)
     /\ op = "SLTIU" => (got = 1) = (S < Imm % 2^XLEN)
     /\ op = "CLZ" => /\ S < 2^(XLEN - got)
                      /\ got < XLEN => S >= 2^(XLEN - 1 - got)
     /\ op = "CLO" => /\ 2^XLEN - 1 - S < 2^(XLEN - got)
                      /\ got < XLEN => 2^XLEN - 1 - S >= 2^(XLEN - 1 - got)

PairResult ==
  LET op == inst.op
      divides(a, b, q, n) == /\ a = b * q + n
                             /\ Magnitude(n) < Magnitude(b)
                             /\ n # 0 => (n < 0) = (a < 0)
      negative == Signed(S) < 0 \/ Signed(T) < 0
      product == Signed(S) * Signed(T)
  IN /\ op = "MULT" => Signed64(after) = product
     /\ op = "MULTU" => Unsigned64(after) = S * T
     /\ op = "DIV" /\ T # 0 /\ Fits(Quotient(Signed(S), Signed(T))) =>
          divides(Signed(S), Signed(T), Signed(after.lo), Signed(after.hi))
     /\ op = "DIVU" /\ T # 0 => divides(S, T, after.lo, after.hi)
     /\ op = "MADDU" => Same(Unsigned64(after), Unsigned64(before) + S * T,
                             2^(2 * XLEN))
     /\ op = "MSUBU" => Same(Unsigned64(after), Unsigned64(before) - S * T,
                             2^(2 * XLEN))
     /\ op = "MADD" => Same(Signed64(after), Signed64(before) + product,
                            IF negative THEN 2^XLEN ELSE 2^(2 * XLEN))
     /\ op = "MSUB" => Same(Signed64(after), Signed64(before) - product,
                            IF negative THEN 2^XLEN ELSE 2^(2 * XLEN))

(***************************************************************************)
(* The word arithmetic of execute is the integer arithmetic of the         *)
(* architecture: shifts of negative words, quotients and remainders,       *)
(* products of two words, counts of leading bits; ADD, SUB and ADDI raise  *)
(* an overflow exactly when the sum does not fit, change nothing then, and *)
(* wrap around when there is no coprocessor to raise it.  Two departures   *)
(* are part of the statement: of MADD and MSUB only LO is right when an    *)
(* operand is negative, and the quotient of the one division that          *)
(* overflows is left open.                                                 *)
(***************************************************************************)
Arithmetic ==
  inst # NotYet =>
    LET dest == IF "WRITE_RT" \in inst.attr THEN inst.rt ELSE inst.rd
        got == after.r[dest]
    IN /\ inst.op \in {"ADD", "SUB", "ADDI"} =>
            /\ (after.exc = "OV") = (before.cp0 /\ ~ Fits(Exact))
            /\ after.exc = "OV" => after.r = before.r
            /\ after.exc # "OV" /\ dest # 0 => Same(got, Exact, 2^XLEN)
       /\ dest # 0 => WordResult(got)
       /\ PairResult

(***************************************************************************)
(* The attribute words tell the pipeline the truth about execute: an       *)
(* instruction changes no register that Dst does not name, and what it     *)
(* writes, where it branches and what it raises depends on no register     *)
(* that Src does not name.  SimPipe finds hazards from Src and Dst while   *)
(* the values come from here.  SYSCALL is left out of Executed because it  *)
(* is the one exception: without coprocessor 0, syscall() uses $v0 and the *)
(* argument registers, none of which its attribute word names.             *)
(***************************************************************************)
Declared ==
  inst # NotYet =>
    LET src == Src(inst)
        dst == Dst(inst)
        hidden == [before EXCEPT
                     !.r = [n \in Reg |-> IF n \in src THEN @[n] ELSE 0],
                     !.hi = IF PIPE_REG_HI \in src THEN @ ELSE 0,
                     !.lo = IF PIPE_REG_LO \in src THEN @ ELSE 0]
        blind == Outcome(inst, hidden)
        moved == "WRITE_RD_COND" \in inst.attr => after.cond
    IN /\ \A n \in Reg : after.r[n] # before.r[n] => n \in dst
       /\ after.hi # before.hi => PIPE_REG_HI \in dst
       /\ after.lo # before.lo => PIPE_REG_LO \in dst
       /\ blind.cond = after.cond /\ blind.npc = after.npc
       /\ blind.exc = after.exc
       /\ after.exc = "none" =>
            /\ moved => \A n \in Reg \cap dst : blind.r[n] = after.r[n]
            /\ PIPE_REG_HI \in dst => blind.hi = after.hi
            /\ PIPE_REG_LO \in dst => blind.lo = after.lo

(* Both together: the values an instruction computes are the right ones    *)
(* (mips.cc, execute), and the pipeline knows where they come from and go  *)
(* (mipsinst.cc, decode).                                                  *)
ExecutesRight == Arithmetic /\ Declared
=============================================================================
