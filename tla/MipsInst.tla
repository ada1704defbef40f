------------------------------ MODULE MipsInst ------------------------------
(***************************************************************************)
(* The attribute table of the instruction decoder (MipsInst::decode,       *)
(* SimMips/mipsinst.cc) and the tests the pipeline makes on it.            *)
(*                                                                         *)
(* An attribute word is the set of its flags.  The access widths (LOAD_1B, *)
(* STORE_4B_UNALIGN, ...) are not told apart: "LOAD" and "STORE" stand for *)
(* LOAD_ANY and STORE_ANY, the only masks pipe.cc uses.  Mnemonics are the *)
(* enumerators of define.h without their padding.                          *)
(***************************************************************************)
EXTENDS Integers

Attribute == {"READ_RS", "READ_RT", "READ_HI", "READ_LO",
              "WRITE_RS", "WRITE_RT", "WRITE_RD", "WRITE_RD_COND",
              "WRITE_RRA", "WRITE_HI", "WRITE_LO", "LOAD", "STORE",
              "BRANCH", "BRANCH_LIKELY", "BRANCH_ERET"}

(***************************************************************************)
(* The instructions of each opcode group of decode(), and the attribute    *)
(* word the group's switch gives to each of them.                          *)
(***************************************************************************)
SpecialOps == {"NOP", "SSNOP", "SLL", "SRL", "SRA", "SLLV", "SRLV", "SRAV",
               "JR", "JR_HB", "JALR", "JALR_HB", "MOVZ", "MOVN", "SYSCALL",
               "BREAK", "SYNC", "MFHI", "MTHI", "MFLO", "MTLO", "MULT",
               "MULTU", "DIV", "DIVU", "ADD", "ADDU", "SUB", "SUBU", "AND",
               "OR", "XOR", "NOR", "SLT", "SLTU", "TGE", "TGEU", "TLT",
               "TLTU", "TEQ", "TNE"}

SpecialAttr(op) ==
  CASE op \in {"NOP", "SSNOP", "SYSCALL", "BREAK", "SYNC"} -> {}
    [] op \in {"SLL", "SRL", "SRA"} -> {"READ_RT", "WRITE_RD"}
    [] op \in {"JR", "JR_HB"} -> {"BRANCH", "READ_RS"}
    [] op \in {"JALR", "JALR_HB"} -> {"BRANCH", "READ_RS", "WRITE_RD"}
    [] op \in {"MOVZ", "MOVN"} -> {"READ_RS", "READ_RT", "WRITE_RD_COND"}
    [] op = "MFHI" -> {"READ_HI", "WRITE_RD"}
    [] op = "MTHI" -> {"READ_RS", "WRITE_HI"}
    [] op = "MFLO" -> {"READ_LO", "WRITE_RD"}
    [] op = "MTLO" -> {"READ_RS", "WRITE_LO"}
    [] op \in {"MULT", "MULTU", "DIV", "DIVU"} ->
         {"READ_RS", "READ_RT", "WRITE_HI", "WRITE_LO"}
    [] op \in {"TGE", "TGEU", "TLT", "TLTU", "TEQ", "TNE"} ->
         {"READ_RS", "READ_RT"}
    [] OTHER -> {"READ_RS", "READ_RT", "WRITE_RD"}

RegimmOps == {"BLTZ", "BGEZ", "BLTZL", "BGEZL", "TGEI", "TGEIU", "TLTI",
              "TLTIU", "TEQI", "TNEI", "BLTZAL", "BGEZAL", "BLTZALL",
              "BGEZALL"}

RegimmAttr(op) ==
  CASE op \in {"BLTZ", "BGEZ"} -> {"BRANCH", "READ_RS"}
    [] op \in {"BLTZL", "BGEZL"} -> {"BRANCH_LIKELY", "READ_RS"}
    [] op \in {"BLTZAL", "BGEZAL"} -> {"BRANCH", "READ_RS", "WRITE_RRA"}
    [] op \in {"BLTZALL", "BGEZALL"} ->
         {"BRANCH_LIKELY", "READ_RS", "WRITE_RRA"}
    [] OTHER -> {"READ_RS"}

ImmediateOps == {"J", "JAL", "BEQ", "BNE", "BLEZ", "BGTZ", "ADDI", "ADDIU",
                 "SLTI", "SLTIU", "ANDI", "ORI", "XORI", "LUI", "BEQL",
                 "BNEL", "BLEZL", "BGTZL"}

ImmediateAttr(op) ==
  CASE op = "J" -> {"BRANCH"}
    [] op = "JAL" -> {"BRANCH", "WRITE_RRA"}
    [] op \in {"BEQ", "BNE"} -> {"BRANCH", "READ_RS", "READ_RT"}
    [] op \in {"BLEZ", "BGTZ"} -> {"BRANCH", "READ_RS"}
    [] op \in {"BEQL", "BNEL"} -> {"BRANCH_LIKELY", "READ_RS", "READ_RT"}
    [] op \in {"BLEZL", "BGTZL"} -> {"BRANCH_LIKELY", "READ_RS"}
    [] op = "LUI" -> {"WRITE_RT"}
    [] OTHER -> {"READ_RS", "WRITE_RT"}

Cop0Ops == {"MFC0", "CFC0", "MTC0", "TLBR", "TLBWI", "TLBWR", "TLBP", "ERET",
            "WAIT", "FLOAT_OPS", "UNDEFINED"}

Cop0Attr(op) ==
  CASE op \in {"MFC0", "CFC0"} -> {"WRITE_RT"}
    [] op = "MTC0" -> {"READ_RT"}
    [] op = "ERET" -> {"BRANCH_ERET"}
    [] OTHER -> {}

Special2Ops == {"MADD", "MADDU", "MUL", "MSUB", "MSUBU", "CLZ", "CLO"}

(* Faulty variant, which no specification uses: MADD and its like are not  *)
(* said to read the pair they add to.                                      *)
Special2AttrWriteOnly(op) ==
  CASE op = "MUL" -> {"READ_RS", "READ_RT", "WRITE_RD"}
    [] op \in {"CLZ", "CLO"} -> {"READ_RS", "WRITE_RD"}
    [] OTHER -> {"READ_RS", "READ_RT", "WRITE_HI", "WRITE_LO"}

Special2Attr(op) ==
  CASE op = "MUL" -> {"READ_RS", "READ_RT", "WRITE_RD"}
    [] op \in {"CLZ", "CLO"} -> {"READ_RS", "WRITE_RD"}
    [] OTHER -> {"READ_RS", "READ_RT", "READ_HI", "READ_LO",
                 "WRITE_HI", "WRITE_LO"}

MemoryOps == {"LB", "LH", "LWL", "LW", "LBU", "LHU", "LWR", "SB", "SH", "SWL",
              "SW", "SWR", "CACHE", "LL", "PREF", "SC"}

MemoryAttr(op) ==
  CASE op \in {"LB", "LH", "LW", "LBU", "LHU", "LL"} ->
         {"READ_RS", "WRITE_RT", "LOAD"}
    [] op \in {"LWL", "LWR"} -> {"READ_RS", "READ_RT", "WRITE_RT", "LOAD"}
    [] op = "SC" -> {"READ_RS", "READ_RT", "WRITE_RT", "STORE"}
    [] op \in {"CACHE", "PREF"} -> {"READ_RS"}
    [] OTHER -> {"READ_RS", "READ_RT", "STORE"}

Op == SpecialOps \cup RegimmOps \cup ImmediateOps \cup Cop0Ops
        \cup Special2Ops \cup MemoryOps

(***************************************************************************)
(* MipsInst::decode: the attribute word of an instruction.                 *)
(***************************************************************************)
Attr(op) ==
  CASE op \in SpecialOps -> SpecialAttr(op)
    [] op \in RegimmOps -> RegimmAttr(op)
    [] op \in ImmediateOps -> ImmediateAttr(op)
    [] op \in Cop0Ops -> Cop0Attr(op)
    [] op \in Special2Ops -> Special2Attr(op)
    [] op \in MemoryOps -> MemoryAttr(op)

AttrWord == {Attr(op) : op \in Op}

-----------------------------------------------------------------------------
(***************************************************************************)
(* An instruction as the latches carry it: a record with the fields attr,  *)
(* rs, rt and rd (and whatever else a composing module needs).  HI and LO  *)
(* extend the 32 general registers on the pipeline's register board.       *)
(***************************************************************************)
REG_RA == 31
PIPE_REG_HI == 32
PIPE_REG_LO == 33

IsLoad(inst) == "LOAD" \in inst.attr
IsLoadStore(inst) == inst.attr \cap {"LOAD", "STORE"} # {}
IsBranch(inst) == "BRANCH" \in inst.attr

(* The registers Decode asks RegAvailable about.                           *)
Src(inst) ==
  {r \in {inst.rs, inst.rt, PIPE_REG_HI, PIPE_REG_LO} :
     \/ "READ_RS" \in inst.attr /\ r = inst.rs
     \/ "READ_RT" \in inst.attr /\ r = inst.rt
     \/ "READ_HI" \in inst.attr /\ r = PIPE_REG_HI
     \/ "READ_LO" \in inst.attr /\ r = PIPE_REG_LO}

(* The registers the stages lock, mark and release: the chain of           *)
(* `if (inst->attr & WRITE_x)' that Decode, Exec, Mem and WriteBack repeat. *)
(* It is a set because no attribute word of the table names two general    *)
(* registers to write (lemma WordShape), so that none is visited twice.    *)
Dst(inst) ==
  {r \in {inst.rs, inst.rt, inst.rd, REG_RA, PIPE_REG_HI, PIPE_REG_LO} :
     \/ "WRITE_RS" \in inst.attr /\ r = inst.rs
     \/ "WRITE_RT" \in inst.attr /\ r = inst.rt
     \/ inst.attr \cap {"WRITE_RD", "WRITE_RD_COND"} # {} /\ r = inst.rd
     \/ "WRITE_RRA" \in inst.attr /\ r = REG_RA
     \/ "WRITE_HI" \in inst.attr /\ r = PIPE_REG_HI
     \/ "WRITE_LO" \in inst.attr /\ r = PIPE_REG_LO}
=============================================================================
