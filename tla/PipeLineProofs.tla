--------------------------- MODULE PipeLineProofs ---------------------------
(***************************************************************************)
(* Proofs about PipeLine, for every instruction alphabet, every latency    *)
(* and both settings of the options; then that its latches implement the   *)
(* in-order window of InOrderPipe, and how many cycles an instruction is   *)
(* held in Decode (PipeStall).                                             *)
(***************************************************************************)
EXTENDS PipeOrder, PipeStall, SequenceTheorems, TLAPS

(***************************************************************************)
(* What the attribute table says of the registers an instruction writes,   *)
(* one lemma per group of opcodes.                                         *)
(***************************************************************************)
OneTarget(a) ==
  \A x, y \in a \cap {"WRITE_RS", "WRITE_RT", "WRITE_RD", "WRITE_RD_COND",
                      "WRITE_RRA"} : x = y

(* The SPECIAL group accesses no memory and names one target at most.      *)
LEMMA SpecialShape ==
  ASSUME NEW op
  PROVE  SpecialAttr(op) \cap {"LOAD", "STORE"} = {} /\ OneTarget(SpecialAttr(op))
BY DEF SpecialAttr, OneTarget

(* The REGIMM group accesses no memory and names one target at most.       *)
LEMMA RegimmShape ==
  ASSUME NEW op
  PROVE  RegimmAttr(op) \cap {"LOAD", "STORE"} = {} /\ OneTarget(RegimmAttr(op))
BY DEF RegimmAttr, OneTarget

(* The immediate group accesses no memory and names one target at most.    *)
LEMMA ImmediateShape ==
  ASSUME NEW op
  PROVE  ImmediateAttr(op) \cap {"LOAD", "STORE"} = {} /\ OneTarget(ImmediateAttr(op))
BY DEF ImmediateAttr, OneTarget

(* The COP0 group accesses no memory and names one target at most.         *)
LEMMA Cop0Shape ==
  ASSUME NEW op
  PROVE  Cop0Attr(op) \cap {"LOAD", "STORE"} = {} /\ OneTarget(Cop0Attr(op))
BY DEF Cop0Attr, OneTarget

(* The SPECIAL2 group accesses no memory and names one target at most.     *)
LEMMA Special2Shape ==
  ASSUME NEW op
  PROVE  Special2Attr(op) \cap {"LOAD", "STORE"} = {} /\ OneTarget(Special2Attr(op))
BY DEF Special2Attr, OneTarget

(* The memory group writes rt or nothing, and every load of it writes rt.  *)
LEMMA MemoryShape ==
  ASSUME NEW op
  PROVE  /\ MemoryAttr(op) \cap {"WRITE_RS", "WRITE_RD", "WRITE_RD_COND",
                                 "WRITE_RRA", "WRITE_HI", "WRITE_LO"} = {}
         /\ "LOAD" \in MemoryAttr(op) => "WRITE_RT" \in MemoryAttr(op)
         /\ OneTarget(MemoryAttr(op))
BY DEF MemoryAttr, OneTarget

(* The whole table: an instruction that accesses memory writes no register *)
(* but rt, a load does write rt, and no instruction has two general        *)
(* registers to write.                                                     *)
LEMMA WordShape ==
  ASSUME NEW a \in AttrWord
  PROVE  /\ a \cap {"LOAD", "STORE"} # {} =>
              a \cap {"WRITE_RS", "WRITE_RD", "WRITE_RD_COND", "WRITE_RRA",
                      "WRITE_HI", "WRITE_LO"} = {}
         /\ "LOAD" \in a => "WRITE_RT" \in a
         /\ OneTarget(a)
<1>1. PICK op \in Op : a = Attr(op)
  BY DEF AttrWord
<1>2. op \in MemoryOps => Attr(op) = MemoryAttr(op)
  BY DEF Attr, MemoryOps, SpecialOps, RegimmOps, ImmediateOps, Cop0Ops,
         Special2Ops
<1>3. op \notin MemoryOps => /\ Attr(op) \cap {"LOAD", "STORE"} = {}
                             /\ OneTarget(Attr(op))
  BY SpecialShape, RegimmShape, ImmediateShape, Cop0Shape, Special2Shape
     DEF Attr, Op
<1>. QED
  BY <1>1, <1>2, <1>3, MemoryShape

(* A load or store writes rt, or nothing; a load always does.              *)
LEMMA LoadStoreDst ==
  ASSUME NEW inst \in Inst, IsLoadStore(inst)
  PROVE  /\ "WRITE_RT" \in inst.attr => Dst(inst) = {inst.rt}
         /\ "WRITE_RT" \notin inst.attr => Dst(inst) = {}
         /\ IsLoad(inst) => "WRITE_RT" \in inst.attr
BY WordShape, InstAssumption DEF IsLoadStore, IsLoad, Dst

(* A load is a load or a store: LOAD is in both masks of pipe.cc.          *)
LEMMA LoadIsLoadStore ==
  ASSUME NEW inst, IsLoad(inst)
  PROVE  IsLoadStore(inst)
BY DEF IsLoad, IsLoadStore

(* Setting some registers of a field of the board leaves it a field.       *)
LEMMA AssignType ==
  ASSUME NEW f \in [Reg -> BOOLEAN], NEW S, NEW v \in BOOLEAN
  PROVE  Assign(f, S, v) \in [Reg -> BOOLEAN]
BY DEF Assign

(* The five stages, one by one.                                            *)
LEMMA StageRange == Stage = {0, 1, 2, 3, 4}
BY DEF Stage

-----------------------------------------------------------------------------
(* No handler of StepPipe takes the state out of its types: the board has  *)
(* an entry for every register an instruction names, each latch holds an   *)
(* instruction or none, and the shift's index stays among the stages.      *)
THEOREM TypeCorrect == Spec => []TypeOK
<1>. USE DEF SFETCH, SDECODE, SEXEC, SMEM, SWB
<1>1. Init => TypeOK
  BY DEF Init, TypeOK, Stage
<1>2. TypeOK /\ [Next]_vars => TypeOK'
  <2>. SUFFICES ASSUME TypeOK, [Next]_vars PROVE TypeOK'
    OBVIOUS
  <2>. USE DEF TypeOK, Goto, Stage
  <2>1. CASE WriteBackStep
    <3>1. CASE WriteBack
      <4>1. ex2_fw' \in [Reg -> BOOLEAN] /\ load_fw' \in [Reg -> BOOLEAN]
        BY <3>1, AssignType DEF WriteBack, WriteBackReg
      <4>2. locked' \in [Reg -> Int]
        BY <3>1 DEF WriteBack, WriteBackReg
      <4>. QED
        BY <3>1, <4>1, <4>2 DEF WriteBack
    <3>2. CASE WriteBackEmpty
      BY <3>2 DEF WriteBackEmpty, board
    <3>. QED
      BY <2>1, <3>1, <3>2 DEF WriteBackStep
  <2>2. CASE MemStep
    <3>1. ASSUME NEW l \in AccessLatency, MemAccess(l) PROVE TypeOK'
      <4>1. l - 1 \in Int
        BY OptionAssumption DEF AccessLatency
      <4>2. load0_fw' \in [Reg -> BOOLEAN] /\ load_fw' \in [Reg -> BOOLEAN]
        BY <3>1, AssignType DEF MemAccess
      <4>. QED
        BY <3>1, <4>1, <4>2 DEF MemAccess, MemStart
    <3>2. CASE MemPass
      <4>1. ex_fw' \in [Reg -> BOOLEAN] /\ ex2_fw' \in [Reg -> BOOLEAN]
        BY <3>2, AssignType DEF MemPass
      <4>2. stage_wait_cycle' = 0 /\ stage_state' \in [Stage -> {"IDLE", "BUSY", "STALL"}]
        BY <3>2 DEF MemPass, MemStart
      <4>3. /\ step' = "Exec"
            /\ UNCHANGED <<stageid, latches, locked, load0_fw, load_fw>>
        BY <3>2 DEF MemPass
      <4>. QED
        BY <4>1, <4>2, <4>3
    <3>3. CASE MemBusy \/ MemIdle
      BY <3>3 DEF MemBusy, MemIdle, board
    <3>. QED
      BY <2>2, <3>1, <3>2, <3>3 DEF MemStep
  <2>3. CASE ExecStep
    <3>1. CASE Exec
      <4>1. ex_fw' \in [Reg -> BOOLEAN] /\ load0_fw' \in [Reg -> BOOLEAN]
        BY <3>1, AssignType DEF Exec
      <4>. QED
        BY <3>1, <4>1 DEF Exec
    <3>2. CASE ExecIdle
      BY <3>2 DEF ExecIdle, board
    <3>. QED
      BY <2>3, <3>1, <3>2 DEF ExecStep
  <2>4. CASE DecodeStep
    BY <2>4 DEF DecodeStep, Decode, DecodeRetry, DecodeIdle, board
  <2>5. CASE FetchStep
    BY <2>5 DEF FetchStep, Fetch, FetchIdle, board
  <2>6. CASE ShiftStep
    BY <2>6 DEF ShiftStep, ShiftStage, ShiftNothing, NextStageid, board
  <2>7. CASE Halt
    BY <2>7 DEF Halt, board
  <2>8. CASE UNCHANGED vars
    BY <2>8 DEF vars, board
  <2>. QED
    BY <2>1, <2>2, <2>3, <2>4, <2>5, <2>6, <2>7, <2>8 DEF Next, StepPipe
<1>. QED
  BY <1>1, <1>2, PTL DEF Spec

-----------------------------------------------------------------------------
(***************************************************************************)
(* The stage states say of the latches what the handlers rely on, whatever *)
(* the instructions are and however long the accesses take; in particular  *)
(* the assertion at pipe.cc:480 holds.                                     *)
(***************************************************************************)
LEMMA ShapeStep ==
  TypeOK /\ TypeOK' /\ StageShape /\ [Next]_vars => StageShape'
<1>. SUFFICES ASSUME TypeOK, TypeOK', StageShape, [Next]_vars
              PROVE  StageShape'
  OBVIOUS
<1>. USE StageRange, InstAssumption
     DEF TypeOK, StageShape, Contains, Goto, SFETCH, SDECODE, SEXEC, SMEM, SWB
<1>1. CASE WriteBackStep
  BY <1>1 DEF WriteBackStep, WriteBack, WriteBackEmpty
<1>2. CASE MemStep
  <2>1. ASSUME NEW l \in AccessLatency, MemAccess(l) PROVE StageShape'
    BY <2>1 DEF MemAccess, MemStart
  <2>2. CASE MemPass
    BY <2>2 DEF MemPass, MemStart
  <2>3. CASE MemBusy
    BY <2>3 DEF MemBusy
  <2>4. CASE MemIdle
    BY <2>4 DEF MemIdle
  <2>. QED
    BY <1>2, <2>1, <2>2, <2>3, <2>4 DEF MemStep
<1>3. CASE ExecStep
  BY <1>3 DEF ExecStep, Exec, ExecIdle
<1>4. CASE DecodeStep
  BY <1>4 DEF DecodeStep, Decode, DecodeRetry, DecodeIdle, CanDecode
<1>5. CASE FetchStep
  BY <1>5 DEF FetchStep, Fetch, FetchIdle
<1>6. CASE ShiftStep
  <2>1. CASE ShiftStage
    BY <2>1 DEF ShiftStage, Shiftable, NextStageid
  <2>2. CASE ShiftNothing
    BY <2>2 DEF ShiftNothing, Shiftable, NextStageid
  <2>. QED
    BY <1>6, <2>1, <2>2 DEF ShiftStep
<1>7. CASE Halt
  BY <1>7 DEF Halt
<1>8. CASE UNCHANGED vars
  BY <1>8 DEF vars
<1>. QED
  BY <1>1, <1>2, <1>3, <1>4, <1>5, <1>6, <1>7, <1>8 DEF Next, StepPipe

(* The shape of the latches and stage states holds in every state.         *)
THEOREM ShapeCorrect == Spec => []StageShape
<1>1. Init => StageShape
  BY StageRange DEF Init, StageShape, Contains, SFETCH, SDECODE, SEXEC, SMEM,
                    SWB
<1>. QED
  BY <1>1, ShapeStep, TypeCorrect, PTL DEF Spec

-----------------------------------------------------------------------------
(***************************************************************************)
(* The lock of a register counts the writers in flight: a Decode that      *)
(* issues adds one where WriteBack will take one off, and no step between  *)
(* them changes who holds the register.                                    *)
(***************************************************************************)
LEMMA LockStep ==
  TypeOK /\ TypeOK' /\ StageShape /\ LockCount /\ [Next]_vars => LockCount'
<1>. SUFFICES ASSUME TypeOK, TypeOK', StageShape, LockCount, [Next]_vars
              PROVE  LockCount'
  OBVIOUS
<1>. USE StageRange, InstAssumption, RegAssumption
     DEF TypeOK, StageShape, LockCount, Holds, Writes, Issued, Contains, Goto,
         SFETCH, SDECODE, SEXEC, SMEM, SWB
<1>1. CASE WriteBackStep
  <2>1. CASE WriteBack
    BY <2>1 DEF WriteBack, WriteBackReg, Reg
  <2>2. CASE WriteBackEmpty
    BY <2>2 DEF WriteBackEmpty, board
  <2>. QED
    BY <1>1, <2>1, <2>2 DEF WriteBackStep
<1>2. CASE MemStep
  <2>1. ASSUME NEW l \in AccessLatency, MemAccess(l) PROVE LockCount'
    BY <2>1 DEF MemAccess, MemStart
  <2>2. CASE MemPass
    BY <2>2 DEF MemPass, MemStart
  <2>3. CASE MemBusy
    BY <2>3 DEF MemBusy, board
  <2>4. CASE MemIdle
    BY <2>4 DEF MemIdle, board
  <2>. QED
    BY <1>2, <2>1, <2>2, <2>3, <2>4 DEF MemStep
<1>3. CASE ExecStep
  <2>1. CASE Exec
    BY <2>1 DEF Exec
  <2>2. CASE ExecIdle
    BY <2>2 DEF ExecIdle, board
  <2>. QED
    BY <1>3, <2>1, <2>2 DEF ExecStep
<1>4. CASE DecodeStep
  <2>1. CASE Decode
    BY <2>1 DEF Decode, CanDecode, Reg
  <2>2. CASE DecodeRetry \/ DecodeIdle
    BY <2>2 DEF DecodeRetry, DecodeIdle, board
  <2>. QED
    BY <1>4, <2>1, <2>2 DEF DecodeStep
<1>5. CASE FetchStep
  <2>1. ASSUME NEW inst \in Inst, Fetch(inst) PROVE LockCount'
    BY <2>1 DEF Fetch, board
  <2>2. CASE FetchIdle
    BY <2>2 DEF FetchIdle, board
  <2>. QED
    BY <1>5, <2>1, <2>2 DEF FetchStep
<1>6. CASE ShiftStep
  <2>1. CASE ShiftStage
    BY <2>1 DEF ShiftStage, Shiftable, board
  <2>2. CASE ShiftNothing
    BY <2>2 DEF ShiftNothing, board
  <2>. QED
    BY <1>6, <2>1, <2>2 DEF ShiftStep
<1>7. CASE Halt
  BY <1>7 DEF Halt, board
<1>8. CASE UNCHANGED vars
  BY <1>8 DEF vars, board
<1>. QED
  BY <1>1, <1>2, <1>3, <1>4, <1>5, <1>6, <1>7, <1>8 DEF Next, StepPipe

(* A lock is the number of instructions in flight that will write the      *)
(* register: the assertion at pipe.cc:470 never fails.                     *)
THEOREM LocksCorrect == Spec => []LockCount
<1>1. Init => LockCount
  BY StageRange, RegAssumption
     DEF Init, LockCount, Holds, Writes, Issued, Contains, Reg,
         SFETCH, SDECODE, SEXEC, SMEM, SWB
<1>. QED
  BY <1>1, LockStep, TypeCorrect, ShapeCorrect, PTL DEF Spec

-----------------------------------------------------------------------------
(***************************************************************************)
(* The forwarding marks: one step per action that moves a mark or moves    *)
(* the instruction it stands for.                                          *)
(***************************************************************************)
LEMMA MarkStep ==
  TypeOK /\ TypeOK' /\ StageShape /\ StageShape' /\ ForwardMarks
    /\ [Next]_vars => ForwardMarks'
<1>. SUFFICES ASSUME TypeOK, TypeOK', StageShape, StageShape', ForwardMarks,
                     [Next]_vars
              PROVE  ForwardMarks'
  OBVIOUS
<1>. USE StageRange, InstAssumption, RegAssumption
     DEF TypeOK, StageShape, ForwardMarks, AluWrites, MemWrites, Writes,
         Issued, Contains, Goto, SFETCH, SDECODE, SEXEC, SMEM, SWB
<1>1. CASE WriteBackStep
  <2>1. CASE WriteBack
    BY <2>1 DEF WriteBack, WriteBackReg, Assign
  <2>2. CASE WriteBackEmpty
    BY <2>2 DEF WriteBackEmpty, board
  <2>. QED
    BY <1>1, <2>1, <2>2 DEF WriteBackStep
<1>2. CASE MemStep
  <2>1. ASSUME NEW l \in AccessLatency, MemAccess(l) PROVE ForwardMarks'
    BY <2>1, LoadStoreDst DEF MemAccess, MemStart, Assign
  <2>2. CASE MemPass
    BY <2>2, LoadIsLoadStore DEF MemPass, MemStart, Assign
  <2>3. CASE MemBusy
    BY <2>3 DEF MemBusy, board
  <2>4. CASE MemIdle
    BY <2>4 DEF MemIdle, board
  <2>. QED
    BY <1>2, <2>1, <2>2, <2>3, <2>4 DEF MemStep
<1>3. CASE ExecStep
  <2>1. CASE Exec
    BY <2>1, LoadStoreDst, LoadIsLoadStore DEF Exec, Assign
  <2>2. CASE ExecIdle
    BY <2>2 DEF ExecIdle, board
  <2>. QED
    BY <1>3, <2>1, <2>2 DEF ExecStep
<1>4. CASE DecodeStep
  <2>1. CASE Decode
    BY <2>1 DEF Decode, CanDecode
  <2>2. CASE DecodeRetry \/ DecodeIdle
    BY <2>2 DEF DecodeRetry, DecodeIdle, board
  <2>. QED
    BY <1>4, <2>1, <2>2 DEF DecodeStep
<1>5. CASE FetchStep
  <2>1. ASSUME NEW inst \in Inst, Fetch(inst) PROVE ForwardMarks'
    BY <2>1 DEF Fetch, board
  <2>2. CASE FetchIdle
    BY <2>2 DEF FetchIdle, board
  <2>. QED
    BY <1>5, <2>1, <2>2 DEF FetchStep
<1>6. CASE ShiftStep
  <2>1. CASE ShiftStage
    BY <2>1 DEF ShiftStage, Shiftable, board
  <2>2. CASE ShiftNothing
    BY <2>2 DEF ShiftNothing, board
  <2>. QED
    BY <1>6, <2>1, <2>2 DEF ShiftStep
<1>7. CASE Halt
  BY <1>7 DEF Halt, board
<1>8. CASE UNCHANGED vars
  BY <1>8 DEF vars, board
<1>. QED
  BY <1>1, <1>2, <1>3, <1>4, <1>5, <1>6, <1>7, <1>8 DEF Next, StepPipe

(* The forwarding marks of the register board never dangle and are never   *)
(* lost, whatever writers of a register are in flight together.            *)
THEOREM MarksCorrect == Spec => []ForwardMarks
<1>1. Init => ForwardMarks
  BY StageRange, RegAssumption
     DEF Init, ForwardMarks, AluWrites, MemWrites, Writes, Issued, Contains,
         SFETCH, SDECODE, SEXEC, SMEM, SWB
<1>. QED
  BY <1>1, MarkStep, TypeCorrect, ShapeCorrect, PTL DEF Spec

-----------------------------------------------------------------------------
(***************************************************************************)
(* Decode issues an instruction when README.txt says it may: the locks and *)
(* the marks together tell where the youngest writer of every source is.   *)
(***************************************************************************)
(* Decode asks about registers of the board only.                          *)
LEMMA SrcType ==
  ASSUME NEW inst \in Inst
  PROVE  Src(inst) \subseteq Reg
BY InstAssumption DEF Src, Reg

(* The board, as the Decode of an instruction that is waiting sees it.     *)
LEMMA BoardAtDecode ==
  ASSUME TypeOK, StageShape, LockCount, ForwardMarks, AtDecode,
         NEW r \in Src(latches[SDECODE]) \ {0}
  PROVE  /\ latches[SDECODE] \in Inst /\ r \in Reg \ {0}
         /\ \A s \in {SFETCH, SDECODE, SWB} : ~ Writes(s, r)
         /\ locked[r] <= 0 <=> ~ Writes(SEXEC, r) /\ ~ Writes(SMEM, r)
         /\ forwarding =>
              /\ ex_fw[r] <=> AluWrites(SEXEC, r)
              /\ ex2_fw[r] <=> AluWrites(SMEM, r)
              /\ load0_fw[r] <=> MemWrites(SEXEC, r) /\ IsLoad(latches[SEXEC])
              /\ load_fw[r] <=> MemWrites(SMEM, r)
<1>. USE StageRange DEF SFETCH, SDECODE, SEXEC, SMEM, SWB
<1>1. latches[SDECODE] \in Inst /\ r \in Reg \ {0}
  BY SrcType DEF TypeOK, AtDecode, CanDecode, Contains
<1>2. /\ ~ Writes(SFETCH, r) /\ ~ Writes(SDECODE, r) /\ ~ Writes(SWB, r)
      /\ Contains(SMEM) => stage_state[SMEM] # "IDLE"
      /\ Contains(SEXEC) => stage_state[SEXEC] = "STALL"
  BY DEF TypeOK, StageShape, AtDecode, CanDecode, Writes, Issued
<1>3. locked[r] = Holds(SEXEC, r) + Holds(SMEM, r)
  BY <1>1, <1>2 DEF LockCount, Holds
<1>4. locked[r] <= 0 <=> ~ Writes(SEXEC, r) /\ ~ Writes(SMEM, r)
  BY <1>3 DEF Holds
<1>5. forwarding =>
        /\ ex_fw[r] <=> AluWrites(SEXEC, r)
        /\ ex2_fw[r] <=> AluWrites(SMEM, r)
        /\ load0_fw[r] <=> MemWrites(SEXEC, r) /\ IsLoad(latches[SEXEC])
        /\ load_fw[r] <=> MemWrites(SMEM, r)
  BY <1>1, <1>2 DEF ForwardMarks, AluWrites, MemWrites, Writes, Issued
<1> QED
  BY <1>1, <1>2, <1>4, <1>5

(* A source of the instruction in Decode is available as IssueRule says,   *)
(* by cases on the locks and on the marks.                                 *)
LEMMA IssueFromMarks ==
  TypeOK /\ StageShape /\ LockCount /\ ForwardMarks => IssueRule
<1>. SUFFICES ASSUME TypeOK, StageShape, LockCount, ForwardMarks, AtDecode,
                     NEW r \in Src(latches[SDECODE]) \ {0}
              PROVE  LET branch == IsBranch(latches[SDECODE])
                     IN /\ forwarding /\ ~ Unhidden(r, branch) =>
                             (RegAvailable(r, branch)
                                <=> YoungestAnnounced(r, branch))
                        /\ ~ forwarding =>
                             (RegAvailable(r, branch)
                                <=> \A s \in Stage : ~ Writes(s, r))
  BY DEF IssueRule
<1>1. CASE forwarding
  BY <1>1, BoardAtDecode
     DEF RegAvailable, YoungestAnnounced, Announced, Unhidden, AluWrites,
         MemWrites, SEXEC, SMEM
<1>2. CASE ~ forwarding
  BY <1>2, BoardAtDecode, StageRange
     DEF RegAvailable, SFETCH, SDECODE, SEXEC, SMEM, SWB
<1>. QED
  BY <1>1, <1>2

(* Decode issues by the rules of README.txt:55-67, but for the unhidden    *)
(* marks of older writers, for every instruction stream.                   *)
THEOREM IssueCorrect == Spec => []IssueRule
BY IssueFromMarks, TypeCorrect, ShapeCorrect, LocksCorrect, MarksCorrect, PTL

-----------------------------------------------------------------------------
(* A latch contributes one instruction to the window, or none.             *)
LEMMA LatchedType ==
  ASSUME TypeOK, NEW s \in Stage
  PROVE  Latched(s) \in Seq(Inst) /\ Len(Latched(s)) <= 1
BY DEF TypeOK, Latched, Contains

(* A latch hands its instruction to an empty one behind the prefix p.      *)
LEMMA MoveUp ==
  ASSUME NEW S, NEW p \in Seq(S), NEW x \in S
  PROVE  (p \o <<>>) \o <<x>> = (p \o <<x>>) \o <<>>
<1>1. <<x>> \in Seq(S)
  OBVIOUS
<1>2. p \o <<x>> \in Seq(S)
  BY <1>1, ConcatProperties
<1>. QED
  BY <1>2, ConcatEmptySeq

(* Taking the first element off a non-empty sequence.                      *)
LEMMA TailOfFirst ==
  ASSUME NEW S, NEW x \in S, NEW t \in Seq(S)
  PROVE  <<x>> \o t # <<>> /\ Tail(<<x>> \o t) = t
<1>1. <<x>> \in Seq(S)
  OBVIOUS
<1>2. <<x>> \o t \in Seq(S) /\ Len(<<x>> \o t) = 1 + Len(t)
  BY <1>1, ConcatProperties
<1>3. \A i \in 1 .. Len(t) : (<<x>> \o t)[i + 1] = t[i]
  BY <1>1, ConcatProperties, LenProperties
<1>4. Len(t) \in Nat /\ <<x>> \o t # <<>>
  BY <1>2, LenProperties, EmptySeq
<1>5. /\ Tail(<<x>> \o t) \in Seq(S)
      /\ Len(Tail(<<x>> \o t)) = Len(t)
      /\ \A i \in 1 .. Len(t) : Tail(<<x>> \o t)[i] = t[i]
  BY <1>2, <1>3, <1>4, HeadTailProperties
<1>. QED
  BY <1>4, <1>5, SeqEqual

(* The four latches ahead of Fetch leave room for one more instruction.    *)
LEMMA WindowLength ==
  ASSUME TypeOK
  PROVE  /\ Latched(SWB) \o Latched(SMEM) \o Latched(SEXEC)
              \o Latched(SDECODE) \in Seq(Inst)
         /\ Len(Latched(SWB) \o Latched(SMEM) \o Latched(SEXEC)
                  \o Latched(SDECODE)) < 5
<1>1. /\ Latched(SWB) \in Seq(Inst) /\ Len(Latched(SWB)) <= 1
      /\ Latched(SMEM) \in Seq(Inst) /\ Len(Latched(SMEM)) <= 1
      /\ Latched(SEXEC) \in Seq(Inst) /\ Len(Latched(SEXEC)) <= 1
      /\ Latched(SDECODE) \in Seq(Inst) /\ Len(Latched(SDECODE)) <= 1
  BY LatchedType, StageRange DEF SWB, SMEM, SEXEC, SDECODE
<1>2. /\ Latched(SWB) \o Latched(SMEM) \in Seq(Inst)
      /\ Len(Latched(SWB) \o Latched(SMEM)) <= 2
  BY <1>1, ConcatProperties, LenProperties
<1>3. /\ Latched(SWB) \o Latched(SMEM) \o Latched(SEXEC) \in Seq(Inst)
      /\ Len(Latched(SWB) \o Latched(SMEM) \o Latched(SEXEC)) <= 3
  BY <1>1, <1>2, ConcatProperties, LenProperties
<1>. QED
  BY <1>1, <1>3, ConcatProperties, LenProperties

-----------------------------------------------------------------------------
(* The empty pipeline is the empty window.                                 *)
LEMMA WindowInit == Init => Abstract!Init
<1>. SUFFICES ASSUME Init PROVE Abstract!Init
  OBVIOUS
<1>1. \A s \in Stage : Latched(s) = <<>>
  BY DEF Init, Latched, Contains
<1>2. Window = <<>> \o <<>> \o <<>> \o <<>> \o <<>>
  BY <1>1, StageRange DEF Window, SWB, SMEM, SEXEC, SDECODE, SFETCH
<1>3. Window = <<>>
  BY <1>2
<1>. QED
  BY <1>3 DEF Init, Abstract!Init

(* A step that touches no latch is invisible, but for the end of the loop. *)
LEMMA WindowStutter ==
  ASSUME UNCHANGED latches
  PROVE  UNCHANGED Window
BY DEF Window, Latched, Contains

(* Fetch appends an instruction to the window.                             *)
LEMMA WindowFetch ==
  ASSUME TypeOK, StageShape, NEW inst \in Inst, Fetch(inst)
  PROVE  Abstract!Enter /\ UNCHANGED (step = "Halted")
<1>. DEFINE rest == Latched(SWB) \o Latched(SMEM) \o Latched(SEXEC)
                      \o Latched(SDECODE)
<1>. USE StageRange DEF SWB, SMEM, SEXEC, SDECODE, SFETCH
<1>1. /\ Latched(SFETCH) = <<>>
      /\ Latched(SFETCH)' = <<inst>>
  BY InstAssumption DEF Fetch, Latched, Contains, StageShape, TypeOK
<1>2. /\ UNCHANGED Latched(SWB) /\ UNCHANGED Latched(SMEM)
      /\ UNCHANGED Latched(SEXEC) /\ UNCHANGED Latched(SDECODE)
  BY DEF Fetch, Latched, Contains, TypeOK
<1>3. rest \in Seq(Inst) /\ Len(rest) < 5
  BY WindowLength
<1>4. Window = rest \o <<>> /\ Window' = rest \o <<inst>>
  BY <1>1, <1>2 DEF Window
<1>5. Window = rest /\ Window' = Append(Window, inst)
  <2>. HIDE DEF rest
  <2>. QED
    BY <1>3, <1>4, ConcatEmptySeq, AppendIsConcat
<1>. QED
  BY <1>3, <1>5 DEF Abstract!Enter, Fetch, Goto

(* WriteBack takes the window's first instruction out.                     *)
LEMMA WindowWriteBack ==
  ASSUME TypeOK, StageShape, WriteBack
  PROVE  Abstract!Retire /\ UNCHANGED (step = "Halted")
<1>. USE StageRange DEF SWB, SMEM, SEXEC, SDECODE, SFETCH
<1>1. /\ Latched(SWB) = <<latches[SWB]>> /\ latches[SWB] \in Inst
      /\ Latched(SWB)' = <<>>
  BY DEF WriteBack, Latched, Contains, TypeOK
<1>2. /\ UNCHANGED Latched(SMEM) /\ UNCHANGED Latched(SEXEC)
      /\ UNCHANGED Latched(SDECODE) /\ UNCHANGED Latched(SFETCH)
  BY DEF WriteBack, Latched, Contains, TypeOK
<1>3. /\ Latched(SMEM) \in Seq(Inst) /\ Latched(SEXEC) \in Seq(Inst)
      /\ Latched(SDECODE) \in Seq(Inst) /\ Latched(SFETCH) \in Seq(Inst)
  BY LatchedType
<1>4. PICK x \in Inst, a \in Seq(Inst), b \in Seq(Inst), c \in Seq(Inst),
           d \in Seq(Inst) :
        /\ x = latches[SWB] /\ a = Latched(SMEM) /\ b = Latched(SEXEC)
        /\ c = Latched(SDECODE) /\ d = Latched(SFETCH)
  BY <1>1, <1>3
<1>. DEFINE t == ((a \o b) \o c) \o d
<1>5. /\ (((<<x>> \o a) \o b) \o c) \o d = <<x>> \o t
      /\ (((<<>> \o a) \o b) \o c) \o d = t
      /\ t \in Seq(Inst)
  <2>1. /\ <<x>> \in Seq(Inst)
        /\ a \o b \in Seq(Inst)
        /\ (a \o b) \o c \in Seq(Inst)
        /\ t \in Seq(Inst)
    BY ConcatProperties
  <2>2. (<<x>> \o a) \o b = <<x>> \o (a \o b)
    BY <2>1, ConcatAssociative
  <2>3. (<<x>> \o (a \o b)) \o c = <<x>> \o ((a \o b) \o c)
    BY <2>1, ConcatAssociative
  <2>4. (<<x>> \o ((a \o b) \o c)) \o d = <<x>> \o t
    BY <2>1, ConcatAssociative
  <2>. QED
    BY <2>1, <2>2, <2>3, <2>4, ConcatEmptySeq
<1>6. Window = <<x>> \o t
  BY <1>1, <1>4, <1>5 DEF Window
<1>7. Window' = t
  BY <1>1, <1>2, <1>4, <1>5 DEF Window
<1>8. Window # <<>> /\ Window' = Tail(Window)
  <2>. HIDE DEF t
  <2>. QED
    BY <1>5, <1>6, <1>7, TailOfFirst
<1>. QED
  BY <1>8 DEF Abstract!Retire, WriteBack, Goto

(* Only the position of the hand-over differs from stage to stage.         *)
LEMMA HandOver ==
  ASSUME TypeOK, StageShape, ShiftStage, NEW k \in 0 .. 3, k = stageid
  PROVE  /\ latches[k] \in Inst
         /\ Latched(k) = <<latches[k]>> /\ Latched(k + 1) = <<>>
         /\ Latched(k)' = <<>> /\ Latched(k + 1)' = <<latches[k]>>
         /\ \A s \in Stage \ {k, k + 1} : UNCHANGED Latched(s)
<1>. USE StageRange DEF ShiftStage, TypeOK, Latched, Contains
<1>1. /\ latches[k] \in Inst
      /\ Latched(k) = <<latches[k]>> /\ Latched(k + 1) = <<>>
  BY DEF Shiftable, StageShape
<1>2. latches' = [latches EXCEPT ![k + 1] = latches[k], ![k] = NoInst]
  OBVIOUS
<1>3. Latched(k)' = <<>> /\ Latched(k + 1)' = <<latches[k]>>
  BY <1>1, <1>2, InstAssumption
<1>4. \A s \in Stage \ {k, k + 1} : UNCHANGED Latched(s)
  BY <1>2
<1>. QED
  BY <1>1, <1>3, <1>4

(* The shift moves instructions from latch to latch, not in the window.    *)
LEMMA WindowShift ==
  ASSUME TypeOK, StageShape, ShiftStage
  PROVE  UNCHANGED Window /\ UNCHANGED (step = "Halted")
<1>1. stageid \in 0 .. 3
  BY DEF TypeOK, SFETCH, SMEM
<1>2. UNCHANGED (step = "Halted")
  BY DEF ShiftStage, NextStageid
<1>3. /\ <<>> \in Seq(Inst)
      /\ \A s \in Stage : Latched(s) \in Seq(Inst)
      /\ \A x \in Inst : <<x>> \in Seq(Inst)
  BY LatchedType
<1>4. \A p \in Seq(Inst), x \in Inst : (p \o <<>>) \o <<x>> = (p \o <<x>>) \o <<>>
  BY MoveUp
<1>5. CASE stageid = 3
  <2>1. /\ latches[3] \in Inst
        /\ Latched(3) = <<latches[3]>> /\ Latched(4) = <<>>
        /\ Latched(3)' = <<>> /\ Latched(4)' = <<latches[3]>>
        /\ \A s \in {0, 1, 2} : UNCHANGED Latched(s)
    BY <1>5, HandOver, StageRange
  <2>2. Latched(4) \o Latched(3) = (Latched(4) \o Latched(3))'
    BY <2>1, <1>3, ConcatEmptySeq
  <2>. QED
    BY <1>2, <2>1, <2>2 DEF Window, SWB, SMEM, SEXEC, SDECODE, SFETCH
<1>6. CASE stageid = 2
  <2>1. /\ latches[2] \in Inst
        /\ Latched(2) = <<latches[2]>> /\ Latched(3) = <<>>
        /\ Latched(2)' = <<>> /\ Latched(3)' = <<latches[2]>>
        /\ \A s \in {0, 1, 4} : UNCHANGED Latched(s)
    BY <1>6, HandOver, StageRange
  <2>. QED
    BY <1>2, <1>3, <1>4, <2>1, StageRange
       DEF Window, SWB, SMEM, SEXEC, SDECODE, SFETCH
<1>7. CASE stageid = 1
  <2>1. /\ latches[1] \in Inst
        /\ Latched(1) = <<latches[1]>> /\ Latched(2) = <<>>
        /\ Latched(1)' = <<>> /\ Latched(2)' = <<latches[1]>>
        /\ \A s \in {0, 3, 4} : UNCHANGED Latched(s)
    BY <1>7, HandOver, StageRange
  <2>2. Latched(4) \o Latched(3) \in Seq(Inst)
    BY <1>3, ConcatProperties, StageRange
  <2>. QED
    BY <1>2, <1>3, <1>4, <2>1, <2>2
       DEF Window, SWB, SMEM, SEXEC, SDECODE, SFETCH
<1>8. CASE stageid = 0
  <2>1. /\ latches[0] \in Inst
        /\ Latched(0) = <<latches[0]>> /\ Latched(1) = <<>>
        /\ Latched(0)' = <<>> /\ Latched(1)' = <<latches[0]>>
        /\ \A s \in {2, 3, 4} : UNCHANGED Latched(s)
    BY <1>8, HandOver, StageRange
  <2>2. Latched(4) \o Latched(3) \o Latched(2) \in Seq(Inst)
    BY <1>3, ConcatProperties, StageRange
  <2>. QED
    BY <1>2, <1>3, <1>4, <2>1, <2>2
       DEF Window, SWB, SMEM, SEXEC, SDECODE, SFETCH
<1>. QED
  BY <1>1, <1>5, <1>6, <1>7, <1>8

(* Every step of the pipeline is a step of the window or invisible.        *)
LEMMA WindowStep ==
  TypeOK /\ StageShape /\ [Next]_vars => [Abstract!Next]_(Abstract!vars)
<1>. SUFFICES ASSUME TypeOK, StageShape, [Next]_vars
              PROVE  Abstract!Next \/ UNCHANGED Abstract!vars
  OBVIOUS
<1>1. CASE WriteBack
  BY <1>1, WindowWriteBack DEF Abstract!Next, WriteBack, Goto
<1>2. ASSUME NEW inst \in Inst, Fetch(inst)
      PROVE  Abstract!Next \/ UNCHANGED Abstract!vars
  BY <1>2, WindowFetch DEF Abstract!Next, Fetch, Goto
<1>3. CASE ShiftStage
  BY <1>3, WindowShift DEF Abstract!vars
<1>4. CASE Halt
  BY <1>4, WindowStutter DEF Abstract!Next, Abstract!Stop, Halt, Goto
<1>5. CASE UNCHANGED <<step, latches>>
  BY <1>5, WindowStutter DEF Abstract!vars
<1>6. CASE UNCHANGED latches /\ step # "Halted" /\ step' # "Halted"
  BY <1>6, WindowStutter DEF Abstract!vars
<1>7. WriteBackEmpty \/ MemStep \/ ExecStep \/ DecodeStep \/ FetchIdle
        \/ ShiftNothing
      => UNCHANGED latches /\ step # "Halted" /\ step' # "Halted"
  BY DEF WriteBackEmpty, MemStep, MemAccess, MemPass, MemBusy, MemIdle,
         ExecStep, Exec, ExecIdle, DecodeStep, Decode, DecodeRetry,
         DecodeIdle, FetchIdle, ShiftNothing, NextStageid, Goto
<1>. QED
  BY <1>1, <1>2, <1>3, <1>4, <1>5, <1>6, <1>7
     DEF Next, StepPipe, WriteBackStep, FetchStep, ShiftStep, vars

(***************************************************************************)
(* Every behaviour of the pipeline is, latch by latch, one of the abstract *)
(* in-order pipeline: no instruction is lost, duplicated or overtaken.     *)
(***************************************************************************)
THEOREM OrderCorrect == Spec => InOrder
<1>1. Spec => [](TypeOK /\ StageShape)
  BY TypeCorrect, ShapeCorrect, PTL
<1>2. Spec => Abstract!Init
  BY WindowInit DEF Spec
<1>. QED
  BY <1>1, <1>2, WindowStep, PTL DEF Spec, InOrder, Abstract!Spec

-----------------------------------------------------------------------------
(***************************************************************************)
(* The stalls of an instruction in Decode (PipeStall), the cache off.  At  *)
(* its first attempt the instructions that keep it waiting are in SEXEC    *)
(* and SMEM; when they have moved on twice it waits for nobody.            *)
(***************************************************************************)
(* A branch reads general registers only.                                  *)
LEMMA BranchWord ==
  ASSUME NEW a \in AttrWord, "BRANCH" \in a
  PROVE  a \cap {"READ_HI", "READ_LO"} = {}
<1>1. PICK op \in Op : a = Attr(op)
  BY DEF AttrWord
<1>2. ASSUME op \in SpecialOps PROVE a \cap {"READ_HI", "READ_LO"} = {}
  <2>1. a = SpecialAttr(op)
    BY <1>1, <1>2 DEF Attr, SpecialOps, RegimmOps, ImmediateOps, Cop0Ops,
                      Special2Ops, MemoryOps
  <2> QED
    BY <2>1 DEF SpecialAttr
<1>3. ASSUME op \in Special2Ops PROVE a \cap {"READ_HI", "READ_LO"} = {}
  <2>1. a = Special2Attr(op)
    BY <1>1, <1>3 DEF Attr, SpecialOps, RegimmOps, ImmediateOps, Cop0Ops,
                      Special2Ops, MemoryOps
  <2> QED
    BY <2>1 DEF Special2Attr
<1>4. ASSUME op \notin SpecialOps, op \notin Special2Ops
      PROVE  a \cap {"READ_HI", "READ_LO"} = {}
  <2>1. \/ a = RegimmAttr(op) \/ a = ImmediateAttr(op) \/ a = Cop0Attr(op)
        \/ a = MemoryAttr(op)
    BY <1>1, <1>4 DEF Attr, Op
  <2>2. RegimmAttr(op) \cap {"READ_HI", "READ_LO"} = {}
    BY DEF RegimmAttr
  <2>3. ImmediateAttr(op) \cap {"READ_HI", "READ_LO"} = {}
    BY DEF ImmediateAttr
  <2>4. Cop0Attr(op) \cap {"READ_HI", "READ_LO"} = {}
    BY DEF Cop0Attr
  <2>5. MemoryAttr(op) \cap {"READ_HI", "READ_LO"} = {}
    BY DEF MemoryAttr
  <2> QED
    BY <2>1, <2>2, <2>3, <2>4, <2>5
<1> QED
  BY <1>2, <1>3, <1>4

(* So do its sources.                                                      *)
LEMMA BranchSrc ==
  ASSUME NEW inst \in Inst, IsBranch(inst)
  PROVE  Src(inst) \subseteq GPR
BY BranchWord, InstAssumption DEF IsBranch, Src

(* No instruction writes two general registers.                            *)
LEMMA OneGpr ==
  ASSUME NEW inst \in Inst, NEW x \in GPR, NEW y \in GPR,
         x \in Dst(inst), y \in Dst(inst)
  PROVE  x = y
<1>1. x # PIPE_REG_HI /\ x # PIPE_REG_LO /\ y # PIPE_REG_HI /\ y # PIPE_REG_LO
  BY RegAssumption DEF PIPE_REG_HI, PIPE_REG_LO
<1>2. OneTarget(inst.attr)
  BY WordShape, InstAssumption
<1> QED
  BY <1>1, <1>2 DEF Dst, OneTarget

(* A source calls for no stall exactly when it is available now.           *)
LEMMA DelayNow ==
  ASSUME TypeOK, StageShape, LockCount, ForwardMarks, AtDecode,
         NEW r \in Src(latches[SDECODE]) \ {0}, NEW branch \in BOOLEAN
  PROVE  /\ Delay(r, branch) \in 0 .. 2
         /\ RegAvailable(r, branch) <=> Delay(r, branch) = 0
<1>1. Delay(r, branch) \in 0 .. 2
  BY DEF Delay
<1>2. CASE ~ forwarding
  BY <1>2, BoardAtDecode DEF Delay, RegAvailable
<1>3. CASE forwarding /\ branch
  BY <1>3, BoardAtDecode
     DEF Delay, RegAvailable, Unhidden, Announced, AluWrites, MemWrites, SEXEC,
         SMEM
<1>4. CASE forwarding /\ ~ branch
  BY <1>4, BoardAtDecode
     DEF Delay, RegAvailable, Unhidden, Announced, AluWrites, MemWrites, SEXEC,
         SMEM
<1> QED
  BY <1>1, <1>2, <1>3, <1>4

(* What has to be waited for is in 0 .. 2, and it is what the slowest      *)
(* source calls for.                                                       *)
LEMMA RequiredIs ==
  ASSUME NEW inst,
         \A r \in Src(inst) \ {0} : Delay(r, IsBranch(inst)) \in 0 .. 2
  PROVE  /\ Required(inst) \in 0 .. 2
         /\ Required(inst) = 0 <=>
              \A r \in Src(inst) \ {0} : Delay(r, IsBranch(inst)) = 0
         /\ Required(inst) = 2 <=>
              \E r \in Src(inst) \ {0} : Delay(r, IsBranch(inst)) = 2
<1>1. PICK S : S = {Delay(r, IsBranch(inst)) : r \in Src(inst) \ {0}} \cup {0}
  OBVIOUS
<1>2. S \subseteq 0 .. 2 /\ 0 \in S
  BY <1>1
<1>3. \E m \in S : \A y \in S : m >= y
  <2>1. CASE 2 \in S
    BY <1>2, <2>1
  <2>2. CASE 2 \notin S /\ 1 \in S
    BY <1>2, <2>2
  <2>3. CASE 2 \notin S /\ 1 \notin S
    BY <1>2, <2>3
  <2> QED
    BY <2>1, <2>2, <2>3
<1>4. PICK m : m = Max(S)
  OBVIOUS
<1>5. m \in S /\ \A y \in S : m >= y
  BY <1>3, <1>4 DEF Max
<1>6. Required(inst) = m
  BY <1>1, <1>4 DEF Required
<1>7. m \in 0 .. 2
  BY <1>2, <1>5
<1>8. m = 0 <=> \A y \in S : y = 0
  BY <1>2, <1>5
<1>9. m = 2 <=> 2 \in S
  BY <1>2, <1>5
<1> QED
  BY <1>1, <1>6, <1>7, <1>8, <1>9

(* An instruction leaves at its first attempt if nothing is required.      *)
LEMMA FirstAttempt ==
  ASSUME TypeOK, StageShape, LockCount, ForwardMarks, AtDecode
  PROVE  /\ Required(latches[SDECODE]) \in 0 .. 2
         /\ Ready(latches[SDECODE]) <=> Required(latches[SDECODE]) = 0
<1>1. PICK inst : inst = latches[SDECODE]
  OBVIOUS
<1>2. IsBranch(inst) \in BOOLEAN
  BY DEF IsBranch
<1>3. \A r \in Src(inst) \ {0} :
        /\ Delay(r, IsBranch(inst)) \in 0 .. 2
        /\ RegAvailable(r, IsBranch(inst)) <=> Delay(r, IsBranch(inst)) = 0
  BY <1>1, <1>2, DelayNow
<1>4. RegAvailable(0, IsBranch(inst))
  BY DEF RegAvailable
<1>5. Ready(inst) <=> \A r \in Src(inst) \ {0} : RegAvailable(r, IsBranch(inst))
  BY <1>4 DEF Ready
<1> QED
  BY <1>1, <1>3, <1>5, RequiredIs

(* A branch with a source whose older mark is unhidden waits for nothing:  *)
(* the instructions in SEXEC and SMEM write this source and no other.      *)
LEMMA UnhiddenReady ==
  ASSUME TypeOK, StageShape, LockCount, ForwardMarks, AtDecode, forwarding,
         IsBranch(latches[SDECODE]),
         NEW r \in Src(latches[SDECODE]) \ {0}, Unhidden(r, TRUE)
  PROVE  Ready(latches[SDECODE])
<1>1. latches[SDECODE] \in Inst
  BY BoardAtDecode
<1>2. Writes(SEXEC, r) /\ Writes(SMEM, r)
  BY DEF Unhidden
<1>3. latches[SEXEC] \in Inst /\ latches[SMEM] \in Inst
  BY <1>2 DEF Writes, Issued, Contains, TypeOK, SEXEC, SMEM, Stage
<1>4. ASSUME NEW q \in Src(latches[SDECODE]), q # 0
      PROVE  RegAvailable(q, TRUE)
  <2>1. CASE q = r
    <3>1. Delay(r, TRUE) = 0
      BY DEF Delay
    <3> QED
      BY <2>1, <3>1, DelayNow
  <2>2. CASE q # r
    <3>1. q \in GPR /\ r \in GPR
      BY <1>1, BranchSrc
    <3>2. ~ Writes(SEXEC, q) /\ ~ Writes(SMEM, q)
      BY <1>2, <1>3, <2>2, <3>1, OneGpr DEF Writes
    <3> QED
      BY <1>4, <3>2, BoardAtDecode DEF RegAvailable
  <2> QED
    BY <2>1, <2>2
<1> QED
  BY <1>4 DEF Ready, RegAvailable

-----------------------------------------------------------------------------
(* The instruction in latch s will still keep the waiting one from leaving *)
(* when it is in SMEM.                                                     *)
Delays(s, r) ==
  /\ Contains(s) /\ r \in Dst(latches[s])
  /\ forwarding => IsBranch(latches[SDECODE]) /\ IsLoadStore(latches[s])

ToCome(s) ==
  IF \E r \in Src(latches[SDECODE]) \ {0} : Delays(s, r) THEN 2 ELSE 1

(* An instruction that fails its first attempt has two stalls if the one   *)
(* in SEXEC will keep it, and otherwise one.                               *)
LEMMA FirstStall ==
  ASSUME TypeOK, StageShape, LockCount, ForwardMarks, AtDecode,
         ~ Ready(latches[SDECODE])
  PROVE  Required(latches[SDECODE]) = ToCome(SEXEC)
<1>1. PICK inst : inst = latches[SDECODE]
  OBVIOUS
<1>2. PICK b \in BOOLEAN : b = IsBranch(inst)
  <2>1. IsBranch(inst) \in BOOLEAN
    BY DEF IsBranch
  <2> QED
    BY <2>1
<1>3. \A r \in Src(inst) \ {0} : Delay(r, b) \in 0 .. 2
  BY <1>1, DelayNow
<1>4. ASSUME NEW r \in Src(inst) \ {0}
      PROVE  Delay(r, b) = 2 <=> Delays(SEXEC, r)
  <2>1. Writes(SEXEC, r) <=> Contains(SEXEC) /\ r \in Dst(latches[SEXEC])
    BY DEF Writes, Issued, SEXEC, SFETCH, SDECODE
  <2>2. forwarding /\ b => ~ Unhidden(r, b)
    <3>1. SUFFICES ASSUME forwarding, b, Unhidden(r, b) PROVE FALSE
      OBVIOUS
    <3>2. b = TRUE
      BY <3>1
    <3> QED
      BY <1>1, <1>2, <1>4, <3>1, <3>2, UnhiddenReady
  <2> QED
    BY <1>1, <1>2, <2>1, <2>2 DEF Delay, Delays, AluWrites
<1>5. /\ Required(inst) \in 0 .. 2
      /\ Required(inst) = 2 <=> \E r \in Src(inst) \ {0} : Delay(r, b) = 2
  BY <1>2, <1>3, RequiredIs
<1>6. Required(inst) # 0
  BY <1>1, FirstAttempt
<1> QED
  BY <1>1, <1>4, <1>5, <1>6 DEF ToCome

(* Its second attempt finds that instruction in SMEM and SEXEC empty.      *)
LEMMA SecondAttempt ==
  ASSUME TypeOK, StageShape, LockCount, ForwardMarks, AtDecode,
         ~ Contains(SEXEC)
  PROVE  Ready(latches[SDECODE]) <=> ToCome(SMEM) = 1
<1>1. PICK inst : inst = latches[SDECODE]
  OBVIOUS
<1>2. PICK b \in BOOLEAN : b = IsBranch(inst)
  <2>1. IsBranch(inst) \in BOOLEAN
    BY DEF IsBranch
  <2> QED
    BY <2>1
<1>3. ASSUME NEW r \in Src(inst) \ {0}
      PROVE  RegAvailable(r, b) <=> ~ Delays(SMEM, r)
  <2>1. Writes(SMEM, r) <=> Contains(SMEM) /\ r \in Dst(latches[SMEM])
    BY DEF Writes, Issued, SMEM, SFETCH, SDECODE
  <2>2. ~ Writes(SEXEC, r)
    BY DEF Writes, Issued
  <2>3. Delays(SMEM, r) <=> /\ Writes(SMEM, r)
                            /\ forwarding => b /\ MemWrites(SMEM, r)
    BY <1>1, <1>2, <2>1 DEF Delays, MemWrites
  <2> QED
    BY <1>1, <2>2, <2>3, BoardAtDecode DEF RegAvailable, AluWrites, MemWrites
<1>4. RegAvailable(0, b)
  BY DEF RegAvailable
<1>5. Ready(inst) <=> \A r \in Src(inst) \ {0} : RegAvailable(r, b)
  BY <1>2, <1>4 DEF Ready
<1> QED
  BY <1>1, <1>3, <1>5 DEF ToCome

(* Its third finds both empty.                                             *)
LEMMA ThirdAttempt ==
  ASSUME TypeOK, StageShape, LockCount, ForwardMarks, AtDecode,
         ~ Contains(SEXEC), ~ Contains(SMEM)
  PROVE  Ready(latches[SDECODE])
<1>1. ToCome(SMEM) = 1
  BY DEF ToCome, Delays
<1> QED
  BY <1>1, SecondAttempt

(***************************************************************************)
(* Between the attempts SMEM and SEXEC are always free to move on, since   *)
(* no access takes longer than a cycle: what was in SEXEC is in SMEM when  *)
(* the instruction tries again, and nothing follows it.                    *)
(***************************************************************************)
Moved ==
  \/ step \in {"WriteBack", "Mem", "Exec", "Decode", "Halted"}
  \/ step = "Shift" /\ stageid < SEXEC

Ahead == IF Moved THEN SMEM ELSE SEXEC

HeldBack ==
  /\ CanDecode
  /\ Moved => ~ Contains(SEXEC)
  /\ stalled = 1 => due = ToCome(Ahead)
  /\ stalled = 2 => due = 2 /\ ~ Contains(Ahead)

StallInv ==
  /\ stage_state[SMEM] # "BUSY"
  /\ step # "Shift" => stageid = SMEM
  /\ step = "Shift" /\ stageid = SEXEC => ~ Contains(SMEM)
  /\ stalled \in 0 .. 2
  /\ stalled > 0 => HeldBack

(* Nobody has been held when the pipeline starts.                          *)
LEMMA StallStart == StallInit => StallInv
BY DEF StallInit, Init, StallInv, Stage, SMEM, SEXEC

(* The invariant is about these variables only.                            *)
LEMMA StallStutter ==
  ASSUME StallInv, UNCHANGED vars, UNCHANGED <<stalled, due>>
  PROVE  StallInv'
<1>1. /\ CanDecode' <=> CanDecode
      /\ Moved' <=> Moved
      /\ ToCome(SEXEC)' = ToCome(SEXEC) /\ ToCome(SMEM)' = ToCome(SMEM)
      /\ \A s \in {SEXEC, SMEM} : Contains(s)' <=> Contains(s)
  BY DEF vars, CanDecode, Moved, ToCome, Delays, Contains
<1> QED
  BY <1>1 DEF vars, StallInv, HeldBack, Ahead

(* Decode, the attempt itself.                                             *)
LEMMA AttemptStep ==
  ASSUME TypeOK, StageShape, LockCount, ForwardMarks, StallInv,
         AtDecode, Decode \/ DecodeRetry, Observe
  PROVE  StallInv'
<1>1. /\ step = "Decode" /\ step' = "Fetch" /\ stageid' = stageid
      /\ latches' = latches /\ CanDecode
      /\ stage_state'[SMEM] = stage_state[SMEM]
  BY DEF AtDecode, Decode, DecodeRetry, Goto, TypeOK, SMEM, SDECODE, Stage
<1>2. CASE Ready(latches[SDECODE])
  <2>1. stalled' = 0
    BY <1>2 DEF Observe
  <2> QED
    BY <1>1, <2>1 DEF StallInv
<1>3. CASE ~ Ready(latches[SDECODE])
  <2>1. /\ stage_state' = stage_state /\ DecodeRetry
    BY <1>3 DEF Decode, DecodeRetry
  <2>2. stalled' = Min({stalled + 1, MaxStalled}) /\ due' = DueNow
    BY <1>3 DEF Observe
  <2>3. stalled \in {0, 1}
    <3>1. stalled # 2
      BY <1>1, <1>3, ThirdAttempt DEF StallInv, HeldBack, Ahead, Moved
    <3> QED
      BY <3>1 DEF StallInv
  <2>4. stalled' = stalled + 1
    <3>1. PICK n \in {1, 2} : n = stalled + 1
      BY <2>3
    <3>2. Min({n, 3}) = n
      <4>1. PICK S : S = {n, 3}
        OBVIOUS
      <4>2. n \in S /\ \A y \in S : n <= y
        BY <3>1, <4>1
      <4>3. \A x \in S : (\A y \in S : x <= y) => x = n
        BY <3>1, <4>1, <4>2
      <4> QED
        BY <4>1, <4>2, <4>3 DEF Min
    <3> QED
      BY <2>2, <3>1, <3>2 DEF MaxStalled
  <2>5. /\ ~ Moved' /\ CanDecode'
        /\ ToCome(SEXEC)' = ToCome(SEXEC)
    BY <1>1, <2>1 DEF Moved, CanDecode, Contains, ToCome, Delays
  <2>6. CASE stalled = 0
    <3>1. due' = ToCome(SEXEC)
      BY <1>3, <2>2, <2>6, FirstStall DEF DueNow
    <3> QED
      BY <1>1, <2>1, <2>4, <2>5, <2>6, <3>1 DEF StallInv, HeldBack, Ahead
  <2>7. CASE stalled = 1
    <3>1. /\ ~ Contains(SEXEC) /\ due = ToCome(SMEM)
      BY <1>1, <2>7 DEF StallInv, HeldBack, Ahead, Moved
    <3>2. due' = 2
      BY <1>3, <2>2, <2>7, <3>1, SecondAttempt DEF DueNow, ToCome
    <3>3. ~ Contains(SEXEC)'
      BY <1>1, <3>1 DEF Contains
    <3> QED
      BY <1>1, <2>1, <2>4, <2>5, <2>7, <3>2, <3>3
         DEF StallInv, HeldBack, Ahead
  <2> QED
    BY <2>3, <2>6, <2>7
<1> QED
  BY <1>2, <1>3

(* Every other step.  The shift carries what is in SEXEC to SMEM, since    *)
(* SMEM has given its own to SWB.                                          *)
LEMMA BetweenAttempts ==
  ASSUME TypeOK, StageShape, StallInv, ~ dcache_enable, ~ AtDecode,
         [Next]_vars, UNCHANGED <<stalled, due>>
  PROVE  StallInv'
<1>. USE StageRange
     DEF TypeOK, Goto, SFETCH, SDECODE, SEXEC, SMEM, SWB
<1>1. ASSUME \A s \in {SDECODE, SEXEC, SMEM} : latches'[s] = latches[s],
             stage_state'[SMEM] # "BUSY",
             stage_state'[SDECODE] = stage_state[SDECODE],
             stageid' = stageid, step # "Shift", Moved' <=> Moved,
             step' = "Shift" => stageid = SMEM
      PROVE  StallInv'
  <2>1. /\ CanDecode' <=> CanDecode
        /\ \A s \in {SEXEC, SMEM} : Contains(s)' <=> Contains(s)
    BY <1>1 DEF CanDecode, Contains
  <2>2. ToCome(SEXEC)' = ToCome(SEXEC) /\ ToCome(SMEM)' = ToCome(SMEM)
    BY <1>1 DEF ToCome, Delays, Contains
  <2>3. HeldBack => HeldBack'
    BY <1>1, <2>1, <2>2 DEF HeldBack, Ahead
  <2> QED
    BY <1>1, <2>3 DEF StallInv
<1>2. CASE WriteBackStep
  BY <1>1, <1>2 DEF WriteBackStep, WriteBack, WriteBackEmpty, StallInv, Moved
<1>3. CASE MemStep
  <2>1. ASSUME NEW l \in AccessLatency, MemAccess(l) PROVE StallInv'
    <3>1. l = 1
      BY DEF AccessLatency
    <3> QED
      BY <1>1, <2>1, <3>1 DEF MemAccess, MemStart, StallInv, Moved
  <2>2. CASE MemPass
    BY <1>1, <2>2 DEF MemPass, MemStart, StallInv, Moved
  <2>3. CASE MemBusy
    BY <2>3 DEF MemBusy, StallInv
  <2>4. CASE MemIdle
    BY <1>1, <2>4 DEF MemIdle, StallInv, Moved
  <2> QED
    BY <1>3, <2>1, <2>2, <2>3, <2>4 DEF MemStep
<1>4. CASE ExecStep
  <2>1. CASE Exec
    <3>1. /\ latches' = latches /\ stageid' = stageid
          /\ stage_state'[SMEM] = stage_state[SMEM]
          /\ stage_state'[SDECODE] = stage_state[SDECODE]
          /\ step = "Exec" /\ step' = "Decode"
      BY <2>1 DEF Exec
    <3> QED
      BY <1>1, <3>1 DEF StallInv, Moved
  <2>2. CASE ExecIdle
    BY <1>1, <2>2 DEF ExecIdle, StallInv, Moved
  <2> QED
    BY <1>4, <2>1, <2>2 DEF ExecStep
<1>5. CASE DecodeStep
  <2>1. DecodeIdle /\ ~ CanDecode
    BY <1>5 DEF DecodeStep, Decode, DecodeRetry, DecodeIdle, AtDecode
  <2>2. stalled = 0
    BY <2>1 DEF StallInv, HeldBack
  <2> QED
    BY <2>1, <2>2 DEF DecodeIdle, StallInv
<1>6. CASE FetchStep
  BY <1>1, <1>6 DEF FetchStep, Fetch, FetchIdle, StallInv, Moved
<1>7. CASE ShiftStep
  <2>1. step = "Shift" /\ (ShiftStage \/ ShiftNothing)
    BY <1>7 DEF ShiftStep, ShiftStage, ShiftNothing
  <2>2. CASE stageid = SMEM
    <3>1. ~ Contains(SMEM)'
      <4>1. CASE Contains(SMEM)
        <5>1. stage_state[SMEM] = "STALL" /\ ~ Contains(SWB)
          BY <2>1, <2>2, <4>1 DEF StageShape, StallInv
        <5>2. ShiftStage
          BY <2>1, <2>2, <5>1 DEF ShiftNothing, Shiftable
        <5> QED
          BY <2>2, <5>2 DEF ShiftStage, Contains
      <4>2. CASE ~ Contains(SMEM)
        <5>1. stage_state[SMEM] = "IDLE"
          BY <4>2 DEF StageShape
        <5>2. latches' = latches
          BY <2>1, <2>2, <5>1 DEF ShiftStage, ShiftNothing, Shiftable
        <5> QED
          BY <4>2, <5>2 DEF Contains
      <4> QED
        BY <4>1, <4>2
    <3>2. /\ latches'[SEXEC] = latches[SEXEC]
          /\ latches'[SDECODE] = latches[SDECODE]
          /\ stage_state'[SDECODE] = stage_state[SDECODE]
          /\ stage_state'[SMEM] # "BUSY"
          /\ step' = "Shift" /\ stageid' = SEXEC
      BY <2>1, <2>2 DEF ShiftStage, ShiftNothing, NextStageid, StallInv
    <3>3. /\ CanDecode' <=> CanDecode
          /\ Contains(SEXEC)' <=> Contains(SEXEC)
          /\ ToCome(SEXEC)' = ToCome(SEXEC)
      BY <3>2 DEF CanDecode, Contains, ToCome, Delays
    <3>4. ~ Moved /\ ~ Moved'
      BY <2>1, <2>2, <3>2 DEF Moved
    <3>5. HeldBack => HeldBack'
      BY <3>3, <3>4 DEF HeldBack, Ahead
    <3> QED
      BY <3>1, <3>2, <3>5 DEF StallInv
  <2>3. CASE stageid = SEXEC
    <3>1. ~ Contains(SMEM)
      BY <2>1, <2>3 DEF StallInv
    <3>2. /\ ~ Contains(SEXEC)'
          /\ latches'[SMEM] = latches[SEXEC]
      <4>1. CASE Contains(SEXEC)
        <5>1. stage_state[SEXEC] = "STALL"
          BY <2>1, <2>3, <4>1 DEF StageShape
        <5>2. ShiftStage
          BY <2>1, <2>3, <3>1, <5>1 DEF ShiftNothing, Shiftable
        <5> QED
          BY <2>3, <5>2 DEF ShiftStage, Contains
      <4>2. CASE ~ Contains(SEXEC)
        <5>1. stage_state[SEXEC] = "IDLE"
          BY <4>2 DEF StageShape
        <5>2. latches' = latches
          BY <2>1, <2>3, <5>1 DEF ShiftStage, ShiftNothing, Shiftable
        <5> QED
          BY <3>1, <4>2, <5>2 DEF Contains
      <4> QED
        BY <4>1, <4>2
    <3>3. /\ latches'[SDECODE] = latches[SDECODE]
          /\ stage_state'[SDECODE] = stage_state[SDECODE]
          /\ stage_state'[SMEM] # "BUSY"
          /\ step' = "Shift" /\ stageid' = SDECODE
      BY <2>1, <2>3 DEF ShiftStage, ShiftNothing, NextStageid, StallInv
    <3>4. /\ CanDecode' <=> CanDecode
          /\ Contains(SMEM)' <=> Contains(SEXEC)
          /\ ToCome(SMEM)' = ToCome(SEXEC)
      BY <3>2, <3>3 DEF CanDecode, Contains, ToCome, Delays
    <3>5. ~ Moved /\ Moved'
      BY <2>1, <2>3, <3>3 DEF Moved
    <3>6. HeldBack => HeldBack'
      BY <3>2, <3>4, <3>5 DEF HeldBack, Ahead
    <3> QED
      BY <3>3, <3>6 DEF StallInv
  <2>4. CASE stageid < SEXEC
    <3>1. stageid \in {SFETCH, SDECODE}
      BY <2>4
    <3>2. /\ stage_state'[SMEM] = stage_state[SMEM]
          /\ step' # "Shift" => stageid' = SMEM
          /\ step' = "Shift" => stageid' = SFETCH
          /\ step' \in {"Shift", "WriteBack"}
      BY <2>1, <3>1 DEF ShiftStage, ShiftNothing, NextStageid
    <3>3. ASSUME stalled > 0 PROVE HeldBack'
      <4>1. HeldBack
        BY <3>3 DEF StallInv
      <4>2. ~ Shiftable
        BY <3>1, <4>1 DEF HeldBack, CanDecode, Shiftable
      <4>3. latches' = latches /\ stage_state' = stage_state
        BY <2>1, <4>2 DEF ShiftStage, ShiftNothing
      <4>4. /\ CanDecode' <=> CanDecode
            /\ \A s \in {SEXEC, SMEM} : Contains(s)' <=> Contains(s)
            /\ ToCome(SMEM)' = ToCome(SMEM)
        BY <4>3 DEF CanDecode, Contains, ToCome, Delays
      <4>5. Moved /\ Moved'
        BY <2>1, <2>4, <3>2 DEF Moved
      <4> QED
        BY <4>1, <4>4, <4>5 DEF HeldBack, Ahead
    <3> QED
      BY <3>2, <3>3 DEF StallInv
  <2> QED
    BY <2>2, <2>3, <2>4
<1>8. CASE Halt
  BY <1>1, <1>8 DEF Halt, StallInv, Moved
<1>9. CASE UNCHANGED vars
  BY <1>9, StallStutter
<1> QED
  BY <1>2, <1>3, <1>4, <1>5, <1>6, <1>7, <1>8, <1>9 DEF Next, StepPipe

(* What holds of PipeLine holds of it with its history.                    *)
LEMMA StallPipe ==
  StallSpec => [](TypeOK /\ StageShape /\ LockCount /\ ForwardMarks)
<1>1. StallInit => Init
  BY DEF StallInit
<1>2. [StallNext]_stallVars => [Next]_vars
  BY DEF StallNext, stallVars
<1>3. StallSpec => Spec
  BY <1>1, <1>2, PTL DEF StallSpec, Spec
<1> QED
  BY <1>3, TypeCorrect, ShapeCorrect, LocksCorrect, MarksCorrect, PTL

(* The invariant holds, with the cache off.                                *)
LEMMA StallAlways == StallSpec => [](dcache_enable \/ StallInv)
<1>1. /\ TypeOK /\ StageShape /\ LockCount /\ ForwardMarks
      /\ dcache_enable \/ StallInv
      /\ [StallNext]_stallVars
      => (dcache_enable \/ StallInv)'
  <2> SUFFICES ASSUME TypeOK, StageShape, LockCount, ForwardMarks,
                      StallInv, ~ dcache_enable, [StallNext]_stallVars
               PROVE  StallInv'
    OBVIOUS
  <2>1. CASE AtDecode /\ StallNext
    <3>1. Decode \/ DecodeRetry
      BY <2>1 DEF StallNext, Next, StepPipe, WriteBackStep, MemStep, ExecStep,
         DecodeStep, FetchStep, ShiftStep, WriteBack, WriteBackEmpty,
         MemAccess, MemPass, MemBusy, MemIdle, Exec, ExecIdle, DecodeIdle,
         Fetch, FetchIdle, ShiftStage, ShiftNothing, Halt, Goto, AtDecode,
         CanDecode
    <3> QED
      BY <2>1, <3>1, AttemptStep DEF StallNext
  <2>2. CASE ~ AtDecode /\ StallNext
    BY <2>2, BetweenAttempts DEF StallNext, Observe
  <2>3. CASE UNCHANGED stallVars
    <3>1. UNCHANGED vars /\ UNCHANGED <<stalled, due>>
      BY <2>3 DEF stallVars
    <3> QED
      BY <3>1, StallStutter
  <2> QED
    BY <2>1, <2>2, <2>3
<1> QED
  BY <1>1, StallStart, StallPipe, PTL DEF StallSpec

(* With the cache off an instruction stalls in Decode for exactly the      *)
(* cycles that the writers before it call for when it first tries, for     *)
(* every instruction stream and both settings of -f.                       *)
THEOREM ExactStallCorrect == StallSpec => []ExactStall
<1>1. ASSUME TypeOK, StageShape, LockCount, ForwardMarks,
             dcache_enable \/ StallInv
      PROVE  ExactStall
  <2> SUFFICES ASSUME AtDecode, ~ dcache_enable
               PROVE  Ready(latches[SDECODE]) <=> stalled = DueNow
    BY DEF ExactStall
  <2>1. StallInv /\ step = "Decode"
    BY <1>1 DEF AtDecode
  <2>2. CASE stalled = 0
    BY <1>1, <2>2, FirstAttempt DEF DueNow
  <2>3. CASE stalled = 1
    <3>1. ~ Contains(SEXEC) /\ due = ToCome(SMEM)
      BY <2>1, <2>3 DEF StallInv, HeldBack, Ahead, Moved
    <3> QED
      BY <1>1, <2>3, <3>1, SecondAttempt DEF DueNow
  <2>4. CASE stalled = 2
    <3>1. ~ Contains(SEXEC) /\ ~ Contains(SMEM) /\ due = 2
      BY <2>1, <2>4 DEF StallInv, HeldBack, Ahead, Moved
    <3> QED
      BY <1>1, <2>4, <3>1, ThirdAttempt DEF DueNow
  <2> QED
    BY <2>1, <2>2, <2>3, <2>4 DEF StallInv
<1> QED
  BY <1>1, StallPipe, StallAlways, PTL
=============================================================================
