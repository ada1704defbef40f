-------------------------- MODULE CpuRestartProofs --------------------------
(***************************************************************************)
(* Proofs about MultiCycle and CpuRestart.                                 *)
(*                                                                         *)
(* For every program: the types of MultiCycle, and that decode and         *)
(* memreceive, which never look whether their request has been carried     *)
(* out, read the answer to their own request.  The argument rests on the   *)
(* ring of the memory controller: it is empty between two phases, whatever *)
(* is sent is answered before the phase ends, and the phase between        *)
(* sending and reading sends nothing.                                      *)
(*                                                                         *)
(* For every program whose handler gives back the register and the memory: *)
(* MultiCycle implements RestartCpu, the requests of an instruction are    *)
(* counted, and an interrupt waits seven steps at most.                    *)
(***************************************************************************)
EXTENDS CpuRestart, TLAPS

Address == Nat \cup {BAD}
Slot == [state : {"NONE", "FINISH", "FAILURE"}, op : {"READ", "WRITE"},
         addr : Address, data : Nat]

(* The ring between two phases: no request is pending.                     *)
RingOK ==
  /\ head = tail
  /\ head \in 0 .. NUM_MCINST - 1
  /\ slot \in [0 .. NUM_MCINST - 1 -> Slot]
  /\ mem \in WordType

(* A program counter of 0 would be answered with the data: it never is 0   *)
(* while the CPU runs, and doexception can step back over a branch.        *)
PcOK ==
  /\ phase # "ERROR" => pc # 0
  /\ delay_npc # 0 => pc # 0

(* What decode and memreceive find besides the address they sent.          *)
AnswerOK ==
  /\ phase = "ID" /\ ~ exc_occur /\ slot[mcid].state # "FAILURE" =>
       slot[mcid].data = pc /\ pc \in DOMAIN code
  /\ phase = "MR" /\ ~ exc_occur =>
       /\ slot[mcid].state = "FAILURE" <=> paddr = BAD
       /\ paddr = DATA /\ IsLoad(inst) => slot[mcid].data = mem

CpuInv == CpuTypeOK /\ OwnAnswer /\ RingOK /\ PcOK /\ AnswerOK

-----------------------------------------------------------------------------
(* Words are natural numbers, and the programs are away from the data.     *)
LEMMA WordFacts ==
  /\ WordType \subseteq Nat /\ 0 \in WordType /\ 1 \in WordType
  /\ \A n \in Nat : n % WordMod \in WordType
  /\ \A p \in Programs : DATA \notin DOMAIN p /\ BAD \notin DOMAIN p
  /\ HANDLER \in Nat \ {0}
<1>1. WordMod \in Nat \ {0, 1}
  BY ProgramAssumption
<1>2. \A n \in Nat : n % WordMod \in 0 .. WordMod - 1
  BY <1>1
<1>3. \A p \in Programs : DOMAIN p \subseteq Nat \ {0}
  BY ProgramAssumption
<1> QED
  BY <1>1, <1>2, <1>3, ProgramAssumption DEF WordType, DATA, BAD

(* The ring has room while it is empty.                                    *)
LEMMA NeverFull ==
  ASSUME RingOK
  PROVE  ~ Full(bus)
<1>1. head \in Int /\ tail - head + 2 = 2 /\ 2 % 2 = 0
  BY DEF RingOK, NUM_MCINST
<1> QED
  BY <1>1 DEF Full, bus, NUM_MCINST

(* A cycle that sends nothing finds nothing to do.                         *)
LEMMA QuietCycle ==
  ASSUME RingOK, EndOfCycle
  PROVE  RingOK' /\ UNCHANGED <<ring, mem>>
<1>1. slot[tail].state # "PEND"
  BY DEF RingOK, Slot
<1>2. BusStep(bus) = bus
  BY <1>1 DEF BusStep, bus
<1>3. UNCHANGED <<ring, mem>>
  BY <1>2 DEF EndOfCycle, SetBus, bus, ring
<1> QED
  BY <1>3 DEF RingOK, ring, WordType

(***************************************************************************)
(* The functions of the controller on any bus whose oldest request waits.  *)
(***************************************************************************)
Bus == [head : 0 .. 1, tail : 0 .. 1,
        slot : [0 .. 1 -> [state : {"PEND", "NONE", "FINISH", "FAILURE"},
                           op : {"READ", "WRITE"}, addr : Address, data : Nat]],
        mem : WordType]

LEMMA AnsweredFields ==
  ASSUME code \in Programs, NEW b \in Bus, NEW q, q = b.slot[b.tail]
  PROVE  /\ Answered(b) \in Slot
         /\ Answered(b).addr = q.addr /\ Answered(b).op = q.op
         /\ q.addr = BAD => Answered(b).state = "FAILURE"
         /\ q.addr = DATA => Answered(b).state # "FAILURE"
         /\ q.addr = DATA /\ q.op = "READ" => Answered(b).data = b.mem
         /\ q.addr # DATA /\ Answered(b).state # "FAILURE" =>
              Answered(b).data = q.addr /\ q.addr \in DOMAIN code
<1>1. /\ q \in [state : {"PEND", "NONE", "FINISH", "FAILURE"},
                op : {"READ", "WRITE"}, addr : Address, data : Nat]
      /\ b.mem \in Nat
  BY WordFacts DEF Bus
<1>2. /\ \A a \in DOMAIN code : a \in Nat
      /\ DATA \notin DOMAIN code /\ BAD \notin DOMAIN code /\ BAD # DATA
  BY WordFacts, ProgramAssumption DEF DATA, BAD
<1>3. CASE q.addr = DATA /\ q.op = "READ"
  <2>1. Answered(b) = [[q EXCEPT !.state = "FINISH"] EXCEPT !.data = b.mem]
    BY <1>3 DEF Answered
  <2> QED
    BY <1>1, <1>2, <1>3, <2>1 DEF Slot
<1>4. CASE q.addr = DATA /\ q.op # "READ"
  <2>1. Answered(b) = [[q EXCEPT !.state = "FINISH"] EXCEPT !.data = q.data]
    BY <1>1, <1>4 DEF Answered
  <2> QED
    BY <1>1, <1>2, <1>4, <2>1 DEF Slot
<1>5. CASE q.addr # DATA /\ q.addr \in DOMAIN code
  <2>1. Answered(b) = [[q EXCEPT !.state = "FINISH"] EXCEPT !.data = q.addr]
    BY <1>5 DEF Answered
  <2> QED
    BY <1>1, <1>2, <1>5, <2>1 DEF Slot
<1>6. CASE q.addr # DATA /\ q.addr \notin DOMAIN code
  <2>1. Answered(b) = [q EXCEPT !.state = "FAILURE"]
    BY <1>6 DEF Answered
  <2> QED
    BY <1>1, <1>2, <1>6, <2>1 DEF Slot
<1> QED
  BY <1>3, <1>4, <1>5, <1>6

LEMMA BusStepFields ==
  ASSUME NEW b \in Bus, NEW q, q = b.slot[b.tail], q.state = "PEND"
  PROVE  /\ BusStep(b).head = b.head
         /\ BusStep(b).tail = Following(b.tail)
         /\ BusStep(b).slot = [b.slot EXCEPT ![b.tail] = Answered(b)]
         /\ BusStep(b).mem = IF q.op = "WRITE" /\ q.addr = DATA THEN q.data
                                                               ELSE b.mem
<1>1. BusStep(b) =
        [[[b EXCEPT !.slot = [b.slot EXCEPT ![b.tail] = Answered(b)]]
             EXCEPT !.tail = Following(b.tail)]
             EXCEPT !.mem = IF q.op = "WRITE" /\ q.addr = DATA THEN q.data
                                                               ELSE b.mem]
  BY DEF BusStep, Bus
<1> QED
  BY <1>1 DEF Bus

(***************************************************************************)
(* A request is answered in the cycle it is made: the slot it was given    *)
(* holds its address and its command, and the answer, which is a word of   *)
(* memory for the data, a place of the program for an instruction and a    *)
(* failure for an address that no device answers.                          *)
(***************************************************************************)
LEMMA SendAnswered ==
  ASSUME RingOK, code \in Programs, NEW op \in {"READ", "WRITE"},
         NEW addr \in Address, NEW data \in WordType,
         SetBus(BusStep(Enqueued(bus, op, addr, data)))
  PROVE  /\ RingOK'
         /\ slot'[head].addr = addr /\ slot'[head].op = op
         /\ addr = BAD => slot'[head].state = "FAILURE"
         /\ addr = DATA => slot'[head].state # "FAILURE"
         /\ addr = DATA /\ op = "READ" => slot'[head].data = mem
         /\ addr # DATA /\ slot'[head].state # "FAILURE" =>
              slot'[head].data = addr /\ addr \in DOMAIN code
         /\ mem' = IF op = "WRITE" /\ addr = DATA THEN data ELSE mem
<1>1. /\ head \in 0 .. 1 /\ tail = head /\ slot \in [0 .. 1 -> Slot]
      /\ mem \in WordType /\ data \in Nat /\ slot[head].data \in Nat
  BY WordFacts DEF RingOK, NUM_MCINST, Slot
<1>2. Following(head) \in 0 .. 1
  BY <1>1 DEF Following, NUM_MCINST
<1>3. bus \in Bus
  <2>1. \A i \in 0 .. 1 :
          slot[i] \in [state : {"PEND", "NONE", "FINISH", "FAILURE"},
                       op : {"READ", "WRITE"}, addr : Address, data : Nat]
    BY <1>1 DEF Slot
  <2>2. slot \in [0 .. 1 -> [state : {"PEND", "NONE", "FINISH", "FAILURE"},
                             op : {"READ", "WRITE"}, addr : Address,
                             data : Nat]]
    BY <1>1, <2>1
  <2> QED
    BY <1>1, <2>2 DEF Bus, bus
<1>4. PICK u \in Bus : /\ u = bus /\ ~ Full(u)
                       /\ u.head = head /\ u.tail = tail
                       /\ u.slot = slot /\ u.mem = mem
  <2>1. bus.head = head /\ bus.tail = tail /\ bus.slot = slot /\ bus.mem = mem
    BY DEF bus
  <2> QED
    BY <1>3, <2>1, NeverFull
<1>5. PICK d \in Nat : /\ d = IF op = "WRITE" THEN data ELSE slot[head].data
                       /\ op = "WRITE" => d = data
  BY <1>1
<1>6. PICK q : q = [state |-> "PEND", op |-> op, addr |-> addr, data |-> d]
  OBVIOUS
<1>7. PICK sent : sent = Enqueued(u, op, addr, data)
  OBVIOUS
<1>8. /\ q \in [state : {"PEND", "NONE", "FINISH", "FAILURE"},
                op : {"READ", "WRITE"}, addr : Address, data : Nat]
      /\ q.state = "PEND" /\ q.op = op /\ q.addr = addr
      /\ op = "WRITE" => q.data = data
  BY <1>5, <1>6
<1>9. [slot EXCEPT ![head] = q] \in
        [0 .. 1 -> [state : {"PEND", "NONE", "FINISH", "FAILURE"},
                    op : {"READ", "WRITE"}, addr : Address, data : Nat]]
  BY <1>1, <1>4, <1>8 DEF Bus
<1>10. sent = [[u EXCEPT !.slot = [slot EXCEPT ![head] = q]]
                  EXCEPT !.head = Following(head)]
  BY <1>4, <1>5, <1>6, <1>7 DEF Enqueued
<1>11. /\ sent.head = Following(head) /\ sent.tail = head
       /\ sent.slot = [slot EXCEPT ![head] = q] /\ sent.mem = mem
  BY <1>1, <1>4, <1>10 DEF Bus
<1>12. sent \in Bus
  BY <1>2, <1>4, <1>9, <1>10 DEF Bus
<1>13. q = sent.slot[sent.tail]
  BY <1>1, <1>11
<1>14. /\ head' = Following(head) /\ tail' = Following(head)
       /\ slot' = [slot EXCEPT ![head] = Answered(sent)]
       /\ mem' = IF op = "WRITE" /\ addr = DATA THEN data ELSE mem
  <2>1. [sent.slot EXCEPT ![sent.tail] = Answered(sent)]
          = [slot EXCEPT ![head] = Answered(sent)]
    BY <1>1, <1>11
  <2>2. /\ BusStep(sent).head = sent.head
        /\ BusStep(sent).tail = Following(sent.tail)
        /\ BusStep(sent).slot = [sent.slot EXCEPT ![sent.tail] = Answered(sent)]
        /\ BusStep(sent).mem = IF q.op = "WRITE" /\ q.addr = DATA THEN q.data
                                                                 ELSE sent.mem
    BY <1>8, <1>12, <1>13, BusStepFields
  <2>3. SetBus(BusStep(sent))
    BY <1>4, <1>7
  <2> QED
    BY <1>8, <1>11, <2>1, <2>2, <2>3 DEF SetBus
<1>15. /\ Answered(sent) \in Slot
       /\ Answered(sent).addr = addr /\ Answered(sent).op = op
       /\ addr = BAD => Answered(sent).state = "FAILURE"
       /\ addr = DATA => Answered(sent).state # "FAILURE"
       /\ addr = DATA /\ op = "READ" => Answered(sent).data = mem
       /\ addr # DATA /\ Answered(sent).state # "FAILURE" =>
            Answered(sent).data = addr /\ addr \in DOMAIN code
  BY <1>8, <1>11, <1>12, <1>13, AnsweredFields
<1>16. RingOK'
  BY <1>1, <1>2, <1>14, <1>15 DEF RingOK, NUM_MCINST, WordType
<1> QED
  BY <1>1, <1>14, <1>15, <1>16

-----------------------------------------------------------------------------
(* The CPU before its first instruction.                                   *)
LEMMA CpuInvInit == Init => CpuInv
<1> SUFFICES ASSUME Init PROVE CpuInv
  OBVIOUS
<1>1. slot \in [0 .. NUM_MCINST - 1 -> Slot] /\ 0 \in 0 .. NUM_MCINST - 1
  BY DEF Init, NoRequest, Slot, NUM_MCINST, DATA, Address
<1>2. \A i \in DOMAIN slot : slot[i].state = "NONE"
  BY DEF Init, NoRequest
<1>3. CpuTypeOK
  BY <1>1, <1>2, WordFacts DEF Init, CpuTypeOK, Phase, DATA
<1>4. RingOK
  BY <1>1, WordFacts DEF Init, RingOK
<1>5. OwnAnswer /\ PcOK /\ AnswerOK
  BY DEF Init, OwnAnswer, PcOK, AnswerOK
<1> QED
  BY <1>3, <1>4, <1>5 DEF CpuInv

(* The instruction at hand is one of the program's, or the first NOP.      *)
LEMMA InstFacts ==
  ASSUME CpuTypeOK
  PROVE  inst.target \in Nat
BY ProgramAssumption DEF CpuTypeOK, Nop

(***************************************************************************)
(* A phase that does nothing, because of an exception or of an interrupt   *)
(* found just before it: nobody will look for an answer.                   *)
(***************************************************************************)
LEMMA SkipKeeps ==
  ASSUME CpuInv, SkipPhase, Others, phase' \in Phase,
         phase' = "ERROR" <=> phase = "ERROR"
  PROVE  CpuInv'
<1>1. /\ exc_occur' = TRUE /\ exc_code' \in {"INT", "FAULT"}
      /\ UNCHANGED <<operands, mcid>>
  BY DEF SkipPhase, Excepted, Raised, Except, NoExcept, CpuInv, CpuTypeOK
<1>2. RingOK'
  BY QuietCycle DEF SkipPhase, CpuInv
<1>3. /\ head' \in 0 .. NUM_MCINST - 1 /\ tail' \in 0 .. NUM_MCINST - 1
      /\ \A i \in DOMAIN slot' : slot'[i].state \in {"NONE", "FINISH", "FAILURE"}
      /\ mem' \in WordType /\ head' = tail'
  BY <1>2 DEF RingOK, Slot, WordType
<1>4. CpuTypeOK'
  BY <1>1, <1>3 DEF CpuInv, CpuTypeOK, Others, operands, cp0, WordType, Phase
<1>5. OwnAnswer' /\ AnswerOK'
  BY <1>1, <1>3 DEF OwnAnswer, AnswerOK
<1>6. PcOK'
  BY DEF CpuInv, PcOK, Others
<1> QED
  BY <1>2, <1>4, <1>5, <1>6 DEF CpuInv

(* A phase that raises an exception: nobody will look for an answer.       *)
LEMMA FaultKeeps ==
  ASSUME CpuInv, EndOfCycle, Others, Except("FAULT"),
         UNCHANGED <<inst, rrt, cond, npc, paddr, mcid>>,
         phase' \in Phase, phase' = "ERROR" <=> phase = "ERROR"
  PROVE  CpuInv'
<1>1. exc_occur' = TRUE /\ exc_code' = "FAULT"
  BY DEF Except
<1>2. RingOK'
  BY QuietCycle DEF CpuInv
<1>3. /\ head' \in 0 .. NUM_MCINST - 1 /\ tail' \in 0 .. NUM_MCINST - 1
      /\ \A i \in DOMAIN slot' : slot'[i].state \in {"NONE", "FINISH", "FAILURE"}
      /\ mem' \in WordType /\ head' = tail'
  BY <1>2 DEF RingOK, Slot, WordType
<1>4. CpuTypeOK'
  BY <1>1, <1>3 DEF CpuInv, CpuTypeOK, Others, cp0, WordType, Phase
<1>5. OwnAnswer' /\ AnswerOK'
  BY <1>1, <1>3 DEF OwnAnswer, AnswerOK
<1>6. PcOK'
  BY DEF CpuInv, PcOK, Others
<1> QED
  BY <1>2, <1>4, <1>5, <1>6 DEF CpuInv

(* Every other phase up to writeback: what it must leave behind.           *)
LEMMA PhaseKeeps ==
  ASSUME CpuInv, Others, NoExcept, RingOK', phase' \in Phase,
         phase # "ERROR",
         inst' = Nop \/ \E a \in DOMAIN code : inst' = code[a],
         rrt' \in WordType, cond' \in BOOLEAN, npc' \in Nat,
         paddr' \in {DATA, BAD}, mcid' \in 0 .. NUM_MCINST - 1,
         phase' = "ID" /\ ~ exc_occur' =>
           /\ slot'[mcid'].addr = pc' /\ slot'[mcid'].op = "READ"
           /\ slot'[mcid'].state # "FAILURE" =>
                slot'[mcid'].data = pc' /\ pc' \in DOMAIN code,
         phase' = "MR" /\ ~ exc_occur' =>
           /\ slot'[mcid'].addr = paddr' /\ slot'[mcid'].op = Request'
           /\ slot'[mcid'].state = "FAILURE" <=> paddr' = BAD
           /\ paddr' = DATA /\ IsLoad(inst)' => slot'[mcid'].data = mem'
  PROVE  CpuInv'
<1>1. /\ head' \in 0 .. NUM_MCINST - 1 /\ tail' \in 0 .. NUM_MCINST - 1
      /\ \A i \in DOMAIN slot' : slot'[i].state \in {"NONE", "FINISH", "FAILURE"}
      /\ mem' \in WordType /\ head' = tail'
  BY DEF RingOK, Slot, WordType
<1>2. CpuTypeOK'
  BY <1>1 DEF CpuInv, CpuTypeOK, Others, NoExcept, cp0, WordType, Phase
<1>3. OwnAnswer'
  BY <1>1 DEF OwnAnswer
<1>4. AnswerOK'
  BY DEF AnswerOK, Others, WordType
<1>5. PcOK'
  BY DEF CpuInv, PcOK, Others
<1> QED
  BY <1>2, <1>3, <1>4, <1>5 DEF CpuInv

-----------------------------------------------------------------------------
(* Fetch sends the program counter and leaves the answer to decode.        *)
LEMMA FetchStep ==
  ASSUME CpuInv, Fetch
  PROVE  CpuInv'
<1>1. Others /\ phase = "IF" /\ pc # 0 /\ pc \in Nat /\ code \in Programs
  BY DEF Fetch, CpuInv, CpuTypeOK, PcOK
<1>2. CASE SkipPhase /\ phase' = "ID"
  BY <1>1, <1>2, SkipKeeps DEF Phase
<1>3. CASE /\ phase' = "ID" /\ Except("FAULT") /\ EndOfCycle
           /\ UNCHANGED <<operands, mcid>>
  BY <1>1, <1>3, FaultKeeps DEF Phase, operands
<1>4. CASE /\ phase' = IF Full(bus) THEN "ERROR" ELSE "ID"
           /\ Send("READ", pc, 0)
           /\ NoExcept
           /\ UNCHANGED operands
  <2>1. /\ RingOK /\ ~ Full(bus) /\ pc \in Address /\ 0 \in WordType
        /\ head \in 0 .. NUM_MCINST - 1
    BY <1>1, NeverFull, WordFacts DEF CpuInv, Address, RingOK
  <2>2. /\ mcid' = head /\ phase' = "ID"
        /\ SetBus(BusStep(Enqueued(bus, "READ", pc, 0)))
    BY <1>4, <2>1 DEF Send
  <2>3. /\ RingOK'
        /\ slot'[head].addr = pc /\ slot'[head].op = "READ"
        /\ slot'[head].state # "FAILURE" =>
             slot'[head].data = pc /\ pc \in DOMAIN code
    BY <1>1, <2>1, <2>2, SendAnswered DEF DATA
  <2>4. /\ inst' = Nop \/ \E a \in DOMAIN code : inst' = code[a]
        /\ rrt' \in WordType /\ cond' \in BOOLEAN /\ npc' \in Nat
        /\ paddr' \in {DATA, BAD} /\ mcid' \in 0 .. NUM_MCINST - 1
    BY <1>4, <2>1, <2>2 DEF CpuInv, CpuTypeOK, operands
  <2>5. slot'[mcid'].state # "FAILURE" =>
          slot'[mcid'].data = pc' /\ pc' \in DOMAIN code
    BY <1>1, <2>2, <2>3 DEF Others
  <2> QED
    BY <1>1, <1>4, <2>2, <2>3, <2>4, <2>5, PhaseKeeps DEF Phase, Others
<1> QED
  BY <1>2, <1>3, <1>4 DEF Fetch

(* Decode trusts that the answer is there: it is a word of the program.    *)
LEMMA DecodeStep ==
  ASSUME CpuInv, Decode
  PROVE  CpuInv'
<1>1. Others /\ phase = "ID"
  BY DEF Decode
<1>2. CASE SkipPhase /\ phase' = "RF"
  BY <1>1, <1>2, SkipKeeps DEF Phase
<1>3. CASE /\ phase' \in {"ERROR", "RF"}
           /\ EndOfCycle /\ NoExcept
           /\ UNCHANGED <<rrt, cond, npc, paddr, mcid>>
           /\ inst' = inst \/ inst' = code[slot[mcid].data]
           /\ inst' # inst => slot[mcid].data \in DOMAIN code
  <2>1. RingOK'
    BY <1>3, QuietCycle DEF CpuInv
  <2>2. /\ inst' = Nop \/ \E a \in DOMAIN code : inst' = code[a]
        /\ rrt' \in WordType /\ cond' \in BOOLEAN /\ npc' \in Nat
        /\ paddr' \in {DATA, BAD} /\ mcid' \in 0 .. NUM_MCINST - 1
    BY <1>3 DEF CpuInv, CpuTypeOK
  <2>3. phase' # "ID" /\ phase' # "MR" /\ phase' \in Phase /\ phase # "ERROR"
    BY <1>1, <1>3 DEF Phase
  <2> QED
    BY <1>1, <1>3, <2>1, <2>2, <2>3, PhaseKeeps
<1>4. CASE /\ ~ Excepted
           /\ slot[mcid].state = "FAILURE"
           /\ phase' = "ERROR"
           /\ EndOfCycle /\ NoExcept
           /\ UNCHANGED <<operands, mcid>>
  BY <1>3, <1>4 DEF operands
<1>5. CASE /\ ~ Excepted
           /\ slot[mcid].state # "FAILURE"
           /\ phase' = "RF"
           /\ inst' = code[slot[mcid].data]
           /\ EndOfCycle /\ NoExcept
           /\ UNCHANGED <<rrt, cond, npc, paddr, mcid>>
  BY <1>1, <1>3, <1>5 DEF CpuInv, AnswerOK, Excepted
<1> QED
  BY <1>2, <1>4, <1>5 DEF Decode

LEMMA RegFetchStep ==
  ASSUME CpuInv, RegFetch
  PROVE  CpuInv'
<1>1. Others /\ phase = "RF" /\ phase' = "EX"
  BY DEF RegFetch
<1>2. CASE SkipPhase
  BY <1>1, <1>2, SkipKeeps DEF Phase
<1>3. CASE /\ rrt' = r
           /\ EndOfCycle /\ NoExcept
           /\ UNCHANGED <<inst, cond, npc, paddr, mcid>>
  <2>1. RingOK'
    BY <1>3, QuietCycle DEF CpuInv
  <2>2. /\ inst' = Nop \/ \E a \in DOMAIN code : inst' = code[a]
        /\ rrt' \in WordType /\ cond' \in BOOLEAN /\ npc' \in Nat
        /\ paddr' \in {DATA, BAD} /\ mcid' \in 0 .. NUM_MCINST - 1
    BY <1>3 DEF CpuInv, CpuTypeOK
  <2> QED
    BY <1>1, <1>3, <2>1, <2>2, PhaseKeeps DEF Phase
<1> QED
  BY <1>2, <1>3 DEF RegFetch

LEMMA ExecuteStep ==
  ASSUME CpuInv, Execute
  PROVE  CpuInv'
<1>1. Others /\ phase = "EX" /\ phase' \in {"MS", "WB"}
  BY DEF Execute, AfterExecute
<1>2. CASE SkipPhase
  BY <1>1, <1>2, SkipKeeps DEF Phase
<1>3. CASE ExecuteAddress /\ Except("FAULT") /\ paddr' = paddr /\ EndOfCycle
             /\ UNCHANGED mcid
  BY <1>1, <1>3, FaultKeeps DEF Phase, ExecuteAddress
<1>4. CASE /\ NoExcept /\ EndOfCycle /\ UNCHANGED <<inst, mcid>>
           /\ rrt' \in WordType /\ cond' \in BOOLEAN /\ npc' \in Nat
           /\ paddr' \in {DATA, BAD}
  <2>1. RingOK'
    BY <1>4, QuietCycle DEF CpuInv
  <2>2. /\ inst' = Nop \/ \E a \in DOMAIN code : inst' = code[a]
        /\ mcid' \in 0 .. NUM_MCINST - 1
    BY <1>4 DEF CpuInv, CpuTypeOK
  <2> QED
    BY <1>1, <1>4, <2>1, <2>2, PhaseKeeps DEF Phase
<1>5. CASE ExecuteAddress /\ EndOfCycle /\ UNCHANGED mcid
  BY <1>3, <1>4, <1>5 DEF ExecuteAddress, CpuInv, CpuTypeOK
<1>6. CASE ExecuteOther /\ EndOfCycle /\ UNCHANGED mcid
  <2>1. rrt' \in WordType
    <3>1. rrt \in WordType /\ rrt + 1 \in Nat
      BY WordFacts DEF CpuInv, CpuTypeOK
    <3> QED
      BY <1>6, <3>1, WordFacts DEF ExecuteOther
  <2>2. cond' \in BOOLEAN
    BY <1>6 DEF ExecuteOther, CpuInv, CpuTypeOK
  <2>3. npc' \in Nat
    BY <1>6, InstFacts DEF ExecuteOther, CpuInv, CpuTypeOK
  <2> QED
    BY <1>4, <1>6, <2>1, <2>2, <2>3 DEF ExecuteOther, CpuInv, CpuTypeOK
<1> QED
  BY <1>2, <1>5, <1>6 DEF Execute

(* The ring has room, so that memsend never takes its -1 for a bus error;  *)
(* a load from memory is answered with a word.                             *)
LEMMA MemSendStep ==
  ASSUME CpuInv, MemSend
  PROVE  CpuInv'
<1>1. Others /\ phase = "MS" /\ phase' = "MR" /\ code \in Programs
  BY DEF MemSend, CpuInv, CpuTypeOK
<1>2. CASE SkipPhase
  BY <1>1, <1>2, SkipKeeps DEF Phase
<1>3. CASE /\ Send(Request, paddr, rrt)
           /\ IF Full(bus) THEN Except("FAULT") ELSE NoExcept
           /\ UNCHANGED operands
  <2>1. /\ RingOK /\ ~ Full(bus) /\ paddr \in {DATA, BAD} /\ paddr \in Address
        /\ rrt \in WordType /\ head \in 0 .. NUM_MCINST - 1 /\ mem \in WordType
        /\ Request \in {"READ", "WRITE"}
    BY NeverFull DEF CpuInv, CpuTypeOK, Address, RingOK, DATA, BAD, Request
  <2>2. /\ mcid' = head /\ NoExcept
        /\ SetBus(BusStep(Enqueued(bus, Request, paddr, rrt)))
    BY <1>3, <2>1 DEF Send
  <2>3. /\ RingOK'
        /\ slot'[head].addr = paddr /\ slot'[head].op = Request
        /\ slot'[head].state = "FAILURE" <=> paddr = BAD
        /\ paddr = DATA /\ Request = "READ" =>
             slot'[head].data = mem /\ mem' = mem
    BY <1>1, <2>1, <2>2, SendAnswered
  <2>4. /\ inst' = inst /\ paddr' = paddr /\ Request' = Request
        /\ inst = Nop \/ \E a \in DOMAIN code : inst = code[a]
        /\ rrt' \in WordType /\ cond' \in BOOLEAN /\ npc' \in Nat
        /\ mcid' \in 0 .. NUM_MCINST - 1
    BY <1>3, <2>1, <2>2 DEF CpuInv, CpuTypeOK, operands, Request, IsLoad
  <2>5. /\ slot'[mcid'].state = "FAILURE" <=> paddr' = BAD
        /\ paddr' = DATA /\ IsLoad(inst)' => slot'[mcid'].data = mem'
    BY <2>1, <2>2, <2>3, <2>4 DEF IsLoad, Request
  <2> QED
    BY <1>1, <2>1, <2>2, <2>3, <2>4, <2>5, PhaseKeeps DEF Phase
<1> QED
  BY <1>2, <1>3 DEF MemSend

(* memreceive, and the second request of an unaligned store, whose answer  *)
(* nobody reads.                                                           *)
LEMMA MemReceiveStep ==
  ASSUME CpuInv, MemReceive
  PROVE  CpuInv'
<1>1. Others /\ phase = "MR" /\ phase' = "WB" /\ code \in Programs
  BY DEF MemReceive, CpuInv, CpuTypeOK
<1>2. CASE SkipPhase
  BY <1>1, <1>2, SkipKeeps DEF Phase
<1>3. CASE /\ Except("FAULT")
           /\ EndOfCycle
           /\ UNCHANGED <<operands, mcid>>
  BY <1>1, <1>3, FaultKeeps DEF Phase, operands
<1>4. CASE /\ ~ Excepted
           /\ slot[mcid].state # "FAILURE"
           /\ rrt' = CASE IsLoad(inst) -> slot[mcid].data
                       [] inst.op = "SC" -> 1
                       [] OTHER -> rrt
           /\ IF inst.op \in Unaligned
              THEN SetBus(BusStep(Enqueued(bus, "WRITE", paddr, rrt)))
              ELSE EndOfCycle
           /\ NoExcept
           /\ UNCHANGED <<inst, cond, npc, paddr, mcid>>
  <2>1. /\ RingOK /\ paddr \in {DATA, BAD} /\ paddr \in Address
        /\ rrt \in WordType
    BY DEF CpuInv, CpuTypeOK, Address, DATA, BAD
  <2>2. RingOK'
    <3>1. CASE inst.op \in Unaligned
      BY <1>1, <1>4, <2>1, <3>1, SendAnswered
    <3>2. CASE inst.op \notin Unaligned
      BY <1>4, <2>1, <3>2, QuietCycle
    <3> QED
      BY <3>1, <3>2
  <2>3. rrt' \in WordType
    <3>1. IsLoad(inst) => slot[mcid].data \in WordType
      BY <1>1, <1>4, <2>1 DEF CpuInv, CpuTypeOK, AnswerOK, Excepted
    <3> QED
      BY <1>4, <2>1, <3>1, WordFacts
  <2>4. /\ inst' = Nop \/ \E a \in DOMAIN code : inst' = code[a]
        /\ cond' \in BOOLEAN /\ npc' \in Nat
        /\ paddr' \in {DATA, BAD} /\ mcid' \in 0 .. NUM_MCINST - 1
    BY <1>4 DEF CpuInv, CpuTypeOK
  <2> QED
    BY <1>1, <1>4, <2>2, <2>3, <2>4, PhaseKeeps DEF Phase
<1> QED
  BY <1>2, <1>3, <1>4 DEF MemReceive

-----------------------------------------------------------------------------
(* The end of an instruction: the next phase sends its own request.        *)
LEMMA EndKeeps ==
  ASSUME CpuInv, EndOfCycle,
         UNCHANGED <<multicycle, code, operands, mcid, ip>>,
         exc_occur' = FALSE, exc_code' \in {"INT", "FAULT"},
         phase' \in {"IF", "WAIT", "ERROR"},
         pc' \in Nat, delay_npc' \in Nat, epc' \in Nat, exl' \in BOOLEAN,
         r' \in WordType, PcOK'
  PROVE  CpuInv'
<1>1. RingOK'
  BY QuietCycle DEF CpuInv
<1>2. /\ head' \in 0 .. NUM_MCINST - 1 /\ tail' \in 0 .. NUM_MCINST - 1
      /\ \A i \in DOMAIN slot' : slot'[i].state \in {"NONE", "FINISH", "FAILURE"}
      /\ mem' \in WordType /\ head' = tail'
  BY <1>1 DEF RingOK, Slot, WordType
<1>3. CpuTypeOK'
  BY <1>2 DEF CpuInv, CpuTypeOK, operands, WordType, Phase
<1>4. OwnAnswer' /\ AnswerOK'
  BY <1>2 DEF OwnAnswer, AnswerOK
<1> QED
  BY <1>1, <1>3, <1>4 DEF CpuInv

(* doexception steps back from a delay slot onto its branch.               *)
LEMMA HandlerTypes ==
  ASSUME CpuInv, EnterHandler
  PROVE  /\ phase' \in {"IF", "WAIT", "ERROR"} /\ pc' \in Nat
         /\ delay_npc' \in Nat /\ epc' \in Nat /\ exl' \in BOOLEAN
         /\ r' \in WordType /\ PcOK'
<1>1. RestartPc \in Nat
  BY DEF RestartPc, CpuInv, CpuTypeOK, PcOK
<1>2. HANDLER \in Nat /\ HANDLER # 0
  BY WordFacts
<1> QED
  BY <1>1, <1>2 DEF EnterHandler, PcOK, CpuInv, CpuTypeOK, WordType

LEMMA WriteBackStep ==
  ASSUME CpuInv, WriteBack
  PROVE  CpuInv'
<1>1. /\ exc_occur' = FALSE /\ EndOfCycle
      /\ UNCHANGED <<multicycle, code, operands, mcid, ip>>
      /\ pc \in Nat /\ delay_npc \in Nat /\ npc \in Nat /\ epc \in Nat
      /\ exl \in BOOLEAN /\ exc_code \in {"INT", "FAULT"}
      /\ r \in WordType /\ rrt \in WordType
      /\ pc # 0
  BY DEF WriteBack, CpuInv, CpuTypeOK, PcOK
<1>2. CASE EnterHandler /\ exc_code' = IF Raised THEN "INT" ELSE exc_code
  BY <1>1, <1>2, HandlerTypes, EndKeeps
<1>3. CASE /\ r' = IF "WRITE_RT" \in inst.attr THEN rrt ELSE r
           /\ FollowSlot \/ FollowBranch \/ FollowEret \/ FollowNext
           /\ UNCHANGED exc_code
  <2>1. /\ pc' \in Nat /\ delay_npc' \in Nat /\ epc' \in Nat
        /\ exl' \in BOOLEAN /\ PcOK' /\ phase' \in {"IF", "WAIT", "ERROR"}
    <3>1. CASE FollowSlot
      BY <1>1, <3>1 DEF FollowSlot, NextPhase, PcOK, cp0
    <3>2. CASE FollowBranch
      BY <1>1, <3>2 DEF FollowBranch, NextPhase, PcOK, cp0
    <3>3. CASE FollowEret
      BY <1>1, <3>3 DEF FollowEret, NextPhase, PcOK, cp0
    <3>4. CASE FollowNext
      BY <1>1, <3>4 DEF FollowNext, NextPhase, PcOK, cp0
    <3> QED
      BY <1>3, <3>1, <3>2, <3>3, <3>4
  <2>2. r' \in WordType /\ exc_code' \in {"INT", "FAULT"}
    BY <1>1, <1>3
  <2> QED
    BY <1>1, <2>1, <2>2, EndKeeps
<1> QED
  BY <1>2, <1>3 DEF WriteBack

LEMMA WakeStep ==
  ASSUME CpuInv, Wake
  PROVE  CpuInv'
BY HandlerTypes, EndKeeps DEF Wake

LEMMA DevicesStep ==
  ASSUME CpuInv, Devices
  PROVE  CpuInv'
BY DEF Devices, CpuInv, CpuTypeOK, OwnAnswer, RingOK, PcOK, AnswerOK, ring, cp0,
       operands, Phase, WordType, Request, IsLoad

LEMMA CpuStutter ==
  ASSUME CpuInv, UNCHANGED vars
  PROVE  CpuInv'
BY DEF vars, CpuInv, CpuTypeOK, OwnAnswer, RingOK, PcOK, AnswerOK, ring, cp0,
       operands, Phase, WordType, Request, IsLoad

(* The invariant holds of every step, and so of every behaviour.           *)
LEMMA CpuInvNext == CpuInv /\ [Next]_vars => CpuInv'
BY FetchStep, DecodeStep, RegFetchStep, ExecuteStep, MemSendStep,
   MemReceiveStep, WriteBackStep, WakeStep, DevicesStep, CpuStutter
   DEF Next, CpuStep

LEMMA CpuInvAlways == Spec => []CpuInv
BY CpuInvInit, CpuInvNext, PTL DEF Spec

(***************************************************************************)
(* The CPU's state stays in its ranges: in particular the ids and indices  *)
(* of the ring, the EPC computed from the program counter, and what decode *)
(* and memreceive take out of the ring without looking.                    *)
(***************************************************************************)
THEOREM CpuTypeCorrect == Spec => []CpuTypeOK
<1>1. CpuInv => CpuTypeOK
  BY DEF CpuInv
<1> QED
  BY <1>1, CpuInvAlways, PTL

(* decode and memreceive read the answer to their own request.             *)
THEOREM OwnAnswerCorrect == Spec => []OwnAnswer
<1>1. CpuInv => OwnAnswer
  BY DEF CpuInv
<1> QED
  BY <1>1, CpuInvAlways, PTL

(***************************************************************************)
(* Three facts carry the refinement.  Until an exception occurs the        *)
(* latches of the phases describe the instruction at the program counter.  *)
(* When writeback comes, what it will put into the register is the result  *)
(* of that instruction, and a store has reached the memory.  And while a   *)
(* handler runs, EPC is a place of the program.                            *)
(***************************************************************************)
(* Where the CPU is: in the program, or in the handler with the program's  *)
(* place in EPC.                                                           *)
ModeOK ==
  phase # "ERROR" =>
    IF exl
    THEN /\ pc >= HANDLER /\ (delay_npc = 0 \/ delay_npc >= HANDLER)
         /\ epc < HANDLER /\ epc # 0
    ELSE /\ pc < HANDLER /\ delay_npc < HANDLER
         /\ delay_npc # 0 => pc > 1

(* The latches belong to the instruction at pc, until an exception occurs. *)
AtHandOK ==
  /\ phase \in {"RF", "EX", "MS", "MR", "WB"} /\ ~ exc_occur =>
       pc \in DOMAIN code /\ inst = code[pc]
  /\ phase \in {"EX", "MS", "MR"} /\ ~ exc_occur => rrt = r
  /\ phase \in {"MS", "MR"} => IsLoadStore(inst)
  /\ phase = "MR" /\ ~ exc_occur /\ paddr = DATA /\ Request = "WRITE" => mem = r

(* At writeback everything the instruction is to do has been prepared.     *)
DoneOK ==
  phase = "WB" /\ ~ exc_occur =>
    /\ inst.op = "ADDIU" => rrt = (r + 1) % WordMod
    /\ IsLoad(inst) => rrt = mem
    /\ inst.op = "SC" => rrt = 1
    /\ "STORE" \in inst.attr => mem = r
    /\ IsJump(inst) => npc = inst.target /\ (cond <=> inst.op = "J" \/ r # 0)
    /\ inst.op = "ERET" => npc = epc

RestartInv == CpuInv /\ ModeOK /\ AtHandOK /\ DoneOK

-----------------------------------------------------------------------------
(* The rows of the decoder's attribute table that the programs use.        *)
LEMMA AttrRows ==
  /\ Attr("NOP") = {} /\ Attr("WAIT") = {}
  /\ Attr("ADDIU") = {"READ_RS", "WRITE_RT"}
  /\ Attr("J") = {"BRANCH"}
  /\ Attr("BNE") = {"BRANCH", "READ_RS", "READ_RT"}
  /\ Attr("BNEL") = {"BRANCH_LIKELY", "READ_RS", "READ_RT"}
  /\ Attr("ERET") = {"BRANCH_ERET"}
  /\ Attr("LW") = {"READ_RS", "WRITE_RT", "LOAD"}
  /\ Attr("LL") = {"READ_RS", "WRITE_RT", "LOAD"}
  /\ Attr("SW") = {"READ_RS", "READ_RT", "STORE"}
  /\ Attr("SC") = {"READ_RS", "READ_RT", "WRITE_RT", "STORE"}
  /\ Attr("SWL") = {"READ_RS", "READ_RT", "STORE"}
  /\ Attr("SWR") = {"READ_RS", "READ_RT", "STORE"}
<1>1. Attr("NOP") = {}
  BY DEF Attr, SpecialOps, RegimmOps, ImmediateOps, Cop0Ops, Special2Ops,
         MemoryOps, SpecialAttr
<1>2. Attr("ADDIU") = {"READ_RS", "WRITE_RT"}
  BY DEF Attr, SpecialOps, RegimmOps, ImmediateOps, Cop0Ops, Special2Ops,
         MemoryOps, ImmediateAttr
<1>3. Attr("J") = {"BRANCH"}
  BY DEF Attr, SpecialOps, RegimmOps, ImmediateOps, Cop0Ops, Special2Ops,
         MemoryOps, ImmediateAttr
<1>4. Attr("BNE") = {"BRANCH", "READ_RS", "READ_RT"}
  BY DEF Attr, SpecialOps, RegimmOps, ImmediateOps, Cop0Ops, Special2Ops,
         MemoryOps, ImmediateAttr
<1>5. Attr("BNEL") = {"BRANCH_LIKELY", "READ_RS", "READ_RT"}
  BY DEF Attr, SpecialOps, RegimmOps, ImmediateOps, Cop0Ops, Special2Ops,
         MemoryOps, ImmediateAttr
<1>6. Attr("ERET") = {"BRANCH_ERET"} /\ Attr("WAIT") = {}
  BY DEF Attr, SpecialOps, RegimmOps, ImmediateOps, Cop0Ops, Special2Ops,
         MemoryOps, Cop0Attr
<1>7. /\ Attr("LW") = {"READ_RS", "WRITE_RT", "LOAD"}
      /\ Attr("LL") = {"READ_RS", "WRITE_RT", "LOAD"}
  BY DEF Attr, SpecialOps, RegimmOps, ImmediateOps, Cop0Ops, Special2Ops,
         MemoryOps, MemoryAttr
<1>8. /\ Attr("SW") = {"READ_RS", "READ_RT", "STORE"}
      /\ Attr("SC") = {"READ_RS", "READ_RT", "WRITE_RT", "STORE"}
  BY DEF Attr, SpecialOps, RegimmOps, ImmediateOps, Cop0Ops, Special2Ops,
         MemoryOps, MemoryAttr
<1>9. /\ Attr("SWL") = {"READ_RS", "READ_RT", "STORE"}
      /\ Attr("SWR") = {"READ_RS", "READ_RT", "STORE"}
  BY DEF Attr, SpecialOps, RegimmOps, ImmediateOps, Cop0Ops, Special2Ops,
         MemoryOps, MemoryAttr
<1> QED
  BY <1>1, <1>2, <1>3, <1>4, <1>5, <1>6, <1>7, <1>8, <1>9

(* What follows for an instruction of a program.                           *)
LEMMA InstructionKinds ==
  ASSUME NEW p \in Programs, NEW a \in DOMAIN p, NEW i, i = p[a]
  PROVE  /\ IsLoad(i) => /\ "WRITE_RT" \in i.attr /\ "STORE" \notin i.attr
                         /\ i.op \notin Unaligned /\ i.op # "SC"
                         /\ i.op # "ADDIU"
         /\ IsLoadStore(i) <=> IsLoad(i) \/ "STORE" \in i.attr
         /\ IsLoadStore(i) => ~ IsJump(i) /\ i.op # "ERET" /\ i.op # "ADDIU"
         /\ i.op = "SC" => "WRITE_RT" \in i.attr /\ "STORE" \in i.attr
         /\ i.op = "ADDIU" => "WRITE_RT" \in i.attr /\ ~ IsJump(i)
         /\ i.op \in Unaligned => "STORE" \in i.attr
         /\ "WRITE_RT" \in i.attr =>
              IsLoad(i) \/ i.op = "SC" \/ i.op = "ADDIU"
         /\ "BRANCH_ERET" \in i.attr <=> i.op = "ERET"
         /\ i.op = "ERET" => ~ IsJump(i)
<1>1. i.op \in Modelled /\ i.attr = Attr(i.op)
  BY ProgramAssumption
<1> QED
  BY <1>1, AttrRows DEF Modelled, Unaligned, IsLoad, IsLoadStore, IsJump

-----------------------------------------------------------------------------
LEMMA RestartInit == Init => RestartInv
<1> SUFFICES ASSUME Init PROVE RestartInv
  OBVIOUS
<1>1. CpuInv
  BY CpuInvInit
<1>2. ModeOK /\ AtHandOK /\ DoneOK
  BY HandlerAssumption, ProgramAssumption DEF Init, ModeOK, AtHandOK, DoneOK
<1> QED
  BY <1>1, <1>2 DEF RestartInv

(* Only writeback and the end of WAIT change the mode or the place.        *)
LEMMA ModeKept ==
  ASSUME ModeOK, Others, phase # "ERROR"
  PROVE  ModeOK'
BY DEF ModeOK, Others, cp0

(* The latches of a phase that sends nothing.                              *)
LEMMA QuietLatches ==
  ASSUME CpuInv, EndOfCycle
  PROVE  UNCHANGED <<slot, mem>>
BY QuietCycle DEF CpuInv, ring

(* A phase that is skipped, or raises an exception, prepares nothing.      *)
LEMMA FaultLatches ==
  ASSUME RestartInv, Others, phase # "ERROR", exc_occur' = TRUE,
         UNCHANGED inst,
         phase' \in {"MS", "MR"} =>
           phase \in {"MS", "MR"} \/ IsLoadStore(inst)
  PROVE  ModeOK' /\ AtHandOK' /\ DoneOK'
<1>1. IsLoadStore(inst)' <=> IsLoadStore(inst)
  BY DEF IsLoadStore
<1> QED
  BY <1>1, ModeKept DEF RestartInv, AtHandOK, DoneOK

LEMMA SkipLatches ==
  ASSUME RestartInv, Others, phase # "ERROR", SkipPhase,
         phase' \in {"MS", "MR"} =>
           phase \in {"MS", "MR"} \/ IsLoadStore(inst)
  PROVE  ModeOK' /\ AtHandOK' /\ DoneOK'
<1>1. exc_occur' = TRUE /\ UNCHANGED inst
  BY DEF SkipPhase, Excepted, Except, NoExcept, operands, RestartInv, CpuInv,
         CpuTypeOK
<1> QED
  BY <1>1, FaultLatches

LEMMA RestartFetch ==
  ASSUME RestartInv, Fetch
  PROVE  ModeOK' /\ AtHandOK' /\ DoneOK'
<1>1. Others /\ phase # "ERROR" /\ phase' \in {"ID", "ERROR"}
  BY DEF Fetch
<1> QED
  BY <1>1, ModeKept DEF RestartInv, AtHandOK, DoneOK

(* Decode takes the word at pc out of the ring.                            *)
LEMMA RestartDecode ==
  ASSUME RestartInv, Decode
  PROVE  ModeOK' /\ AtHandOK' /\ DoneOK'
<1>1. Others /\ phase = "ID" /\ phase' \in {"RF", "ERROR"}
  BY DEF Decode
<1>2. CASE SkipPhase
  BY <1>1, <1>2, SkipLatches
<1>3. CASE phase' = "ERROR"
  BY <1>1, <1>3, ModeKept DEF RestartInv, AtHandOK, DoneOK
<1>4. CASE /\ ~ Excepted
           /\ slot[mcid].state # "FAILURE"
           /\ phase' = "RF"
           /\ inst' = code[slot[mcid].data]
           /\ NoExcept
  <2>1. slot[mcid].data = pc /\ pc \in DOMAIN code
    BY <1>1, <1>4 DEF RestartInv, CpuInv, AnswerOK, Excepted
  <2>2. pc' \in DOMAIN code' /\ inst' = code'[pc']
    BY <1>1, <1>4, <2>1 DEF Others
  <2> QED
    BY <1>1, <1>4, <2>2, ModeKept DEF RestartInv, AtHandOK, DoneOK
<1> QED
  BY <1>2, <1>3, <1>4 DEF Decode

LEMMA RestartRegFetch ==
  ASSUME RestartInv, RegFetch
  PROVE  ModeOK' /\ AtHandOK' /\ DoneOK'
<1>1. Others /\ phase = "RF" /\ phase' = "EX"
  BY DEF RegFetch
<1>2. CASE SkipPhase
  BY <1>1, <1>2, SkipLatches
<1>3. CASE ~ Excepted /\ rrt' = r /\ NoExcept /\ UNCHANGED inst
  <2>1. pc' \in DOMAIN code' /\ inst' = code'[pc'] /\ rrt' = r'
    BY <1>1, <1>3 DEF Others, RestartInv, AtHandOK, Excepted
  <2> QED
    BY <1>1, <1>3, <2>1, ModeKept DEF RestartInv, AtHandOK, DoneOK
<1> QED
  BY <1>2, <1>3 DEF RegFetch

(* Execute prepares the whole instruction, or the access of one.           *)
LEMMA RestartExecute ==
  ASSUME RestartInv, Execute
  PROVE  ModeOK' /\ AtHandOK' /\ DoneOK'
<1>1. /\ Others /\ phase = "EX"
      /\ phase' = IF IsLoadStore(inst) THEN "MS" ELSE "WB"
  BY DEF Execute, AfterExecute
<1>2. CASE SkipPhase
  BY <1>1, <1>2, SkipLatches
<1>3. CASE ~ Excepted /\ ExecuteAddress
  <2>1. CASE Except("FAULT")
    BY <1>1, <1>3, <2>1, FaultLatches DEF Except, ExecuteAddress
  <2>2. CASE NoExcept
    <3>1. /\ pc' \in DOMAIN code' /\ inst' = code'[pc'] /\ rrt' = r'
          /\ IsLoadStore(inst)'
      BY <1>1, <1>3 DEF Others, RestartInv, AtHandOK, Excepted, ExecuteAddress,
                        IsLoadStore
    <3> QED
      BY <1>1, <1>3, <2>2, <3>1, ModeKept
         DEF RestartInv, AtHandOK, DoneOK, ExecuteAddress
  <2> QED
    BY <1>3, <2>1, <2>2 DEF ExecuteAddress
<1>4. CASE ~ Excepted /\ ExecuteOther /\ EndOfCycle
  <2>1. /\ pc \in DOMAIN code /\ inst = code[pc] /\ rrt = r
        /\ code \in Programs /\ ~ exc_occur
    BY <1>1, <1>4 DEF RestartInv, AtHandOK, CpuInv, CpuTypeOK, Excepted
  <2>2. /\ ~ IsLoadStore(inst) /\ NoExcept /\ UNCHANGED inst
        /\ rrt' = IF inst.op = "ADDIU" THEN (rrt + 1) % WordMod ELSE rrt
        /\ cond' = IF IsJump(inst) THEN inst.op = "J" \/ rrt # 0
                   ELSE inst.op = "ERET" \/ cond
        /\ npc' = IF IsJump(inst) THEN inst.target
                  ELSE IF inst.op = "ERET" THEN epc ELSE npc
    BY <1>4 DEF ExecuteOther
  <2>3. ~ IsLoad(inst) /\ "STORE" \notin inst.attr /\ inst.op # "SC"
    BY <2>1, <2>2, InstructionKinds
  <2>4. inst.op = "ERET" => ~ IsJump(inst)
    BY <2>1, InstructionKinds
  <2>5. /\ IsLoad(inst)' <=> IsLoad(inst)
        /\ IsJump(inst)' <=> IsJump(inst)
        /\ UNCHANGED <<code, pc, r, epc>> /\ phase' = "WB"
    BY <1>1, <2>2 DEF IsLoad, IsJump, Others, cp0
  <2>6. DoneOK'
    BY <2>1, <2>2, <2>3, <2>4, <2>5 DEF DoneOK
  <2>7. AtHandOK'
    BY <2>1, <2>2, <2>5 DEF AtHandOK
  <2> QED
    BY <1>1, <2>6, <2>7, ModeKept DEF RestartInv
<1> QED
  BY <1>2, <1>3, <1>4 DEF Execute

(* memsend: a plain store reaches the memory here.                         *)
LEMMA RestartMemSend ==
  ASSUME RestartInv, MemSend
  PROVE  ModeOK' /\ AtHandOK' /\ DoneOK'
<1>1. Others /\ phase = "MS" /\ phase' = "MR" /\ IsLoadStore(inst)
  BY DEF MemSend, RestartInv, AtHandOK
<1>2. CASE SkipPhase
  BY <1>1, <1>2, SkipLatches
<1>3. CASE /\ ~ Excepted
           /\ Send(Request, paddr, rrt)
           /\ IF Full(bus) THEN Except("FAULT") ELSE NoExcept
           /\ UNCHANGED operands
  <2>1. /\ RingOK /\ ~ Full(bus) /\ code \in Programs
        /\ paddr \in Address /\ rrt \in WordType
        /\ Request \in {"READ", "WRITE"}
    BY NeverFull DEF RestartInv, CpuInv, CpuTypeOK, Address, DATA, BAD, Request
  <2>2. NoExcept /\ SetBus(BusStep(Enqueued(bus, Request, paddr, rrt)))
    BY <1>3, <2>1 DEF Send
  <2>3. mem' = IF Request = "WRITE" /\ paddr = DATA THEN rrt ELSE mem
    BY <2>1, <2>2, SendAnswered
  <2>4. /\ pc \in DOMAIN code /\ inst = code[pc] /\ rrt = r
    BY <1>1, <1>3 DEF RestartInv, AtHandOK, Excepted
  <2>5. /\ UNCHANGED <<inst, rrt, paddr, code, pc, r>>
        /\ Request' = Request /\ (IsLoadStore(inst)' <=> IsLoadStore(inst))
    BY <1>1, <1>3 DEF operands, Others, Request, IsLoad, IsLoadStore
  <2>6. AtHandOK'
    BY <1>1, <2>3, <2>4, <2>5 DEF AtHandOK
  <2> QED
    BY <1>1, <2>6, ModeKept DEF RestartInv, DoneOK
<1> QED
  BY <1>1, <1>2, <1>3 DEF MemSend

(* memreceive: the answer of a load, the second half of an unaligned store. *)
LEMMA RestartMemReceive ==
  ASSUME RestartInv, MemReceive
  PROVE  ModeOK' /\ AtHandOK' /\ DoneOK'
<1>1. Others /\ phase = "MR" /\ phase' = "WB" /\ IsLoadStore(inst)
  BY DEF MemReceive, RestartInv, AtHandOK
<1>2. CASE SkipPhase
  BY <1>1, <1>2, SkipLatches
<1>3. CASE Except("FAULT") /\ UNCHANGED operands
  BY <1>1, <1>3, FaultLatches DEF Except, operands
<1>4. CASE /\ ~ Excepted
           /\ slot[mcid].state # "FAILURE"
           /\ rrt' = CASE IsLoad(inst) -> slot[mcid].data
                       [] inst.op = "SC" -> 1
                       [] OTHER -> rrt
           /\ IF inst.op \in Unaligned
              THEN SetBus(BusStep(Enqueued(bus, "WRITE", paddr, rrt)))
              ELSE EndOfCycle
           /\ NoExcept
           /\ UNCHANGED <<inst, cond, npc, paddr, mcid>>
  <2>1. /\ pc \in DOMAIN code /\ inst = code[pc] /\ rrt = r /\ code \in Programs
        /\ paddr = DATA /\ RingOK /\ rrt \in WordType
        /\ DATA \in Address
    BY <1>1, <1>4 DEF RestartInv, AtHandOK, CpuInv, CpuTypeOK, AnswerOK,
                      Excepted, Address, DATA
  <2>2. /\ IsLoad(inst) => "STORE" \notin inst.attr /\ inst.op \notin Unaligned
                           /\ inst.op # "SC"
        /\ ~ IsJump(inst) /\ inst.op # "ERET" /\ inst.op # "ADDIU"
    BY <1>1, <2>1, InstructionKinds
  <2>3. /\ UNCHANGED <<inst, code, pc, r, epc, npc, cond>>
        /\ IsLoad(inst)' <=> IsLoad(inst)
        /\ IsJump(inst)' <=> IsJump(inst)
    BY <1>1, <1>4 DEF Others, cp0, IsLoad, IsJump
  <2>4. inst.op \in Unaligned => mem' = r
    <3>1. inst.op \in Unaligned =>
            SetBus(BusStep(Enqueued(bus, "WRITE", DATA, rrt)))
      BY <1>4, <2>1
    <3> QED
      BY <2>1, <3>1, SendAnswered
  <2>5. inst.op \notin Unaligned => mem' = mem
    BY <1>4, QuietLatches DEF RestartInv
  <2>6. "STORE" \in inst.attr => mem' = r
    <3>1. "STORE" \in inst.attr /\ inst.op \notin Unaligned =>
            Request = "WRITE"
      BY <2>2 DEF Request
    <3>2. Request = "WRITE" => mem = r
      BY <1>1, <1>4, <2>1 DEF RestartInv, AtHandOK, Excepted
    <3> QED
      BY <2>4, <2>5, <3>1, <3>2
  <2>7. IsLoad(inst) => rrt' = mem'
    <3>1. IsLoad(inst) => slot[mcid].data = mem
      BY <1>1, <1>4, <2>1 DEF RestartInv, CpuInv, AnswerOK, Excepted
    <3> QED
      BY <1>4, <2>2, <2>5, <3>1
  <2>8. inst.op = "SC" => rrt' = 1
    BY <1>4, <2>2
  <2>9. DoneOK'
    BY <2>2, <2>3, <2>6, <2>7, <2>8 DEF DoneOK
  <2>10. AtHandOK'
    BY <1>1, <2>1, <2>3 DEF AtHandOK
  <2> QED
    BY <1>1, <2>9, <2>10, ModeKept DEF RestartInv
<1> QED
  BY <1>1, <1>2, <1>3, <1>4 DEF MemReceive

-----------------------------------------------------------------------------
(* The first phase of an instruction has no latches to rely on.            *)
LEMMA EndLatches ==
  ASSUME phase' \in {"IF", "WAIT", "ERROR"}
  PROVE  AtHandOK' /\ DoneOK'
BY DEF AtHandOK, DoneOK

(* The program's place goes into EPC, unless it is there already.          *)
LEMMA EnterMode ==
  ASSUME RestartInv, EnterHandler, phase # "ERROR"
  PROVE  ModeOK' /\ AtHandOK' /\ DoneOK'
<1>1. /\ HANDLER \in Nat \ {0} /\ pc \in Nat /\ delay_npc \in Nat /\ pc # 0
      /\ exl \in BOOLEAN
  BY WordFacts DEF RestartInv, CpuInv, CpuTypeOK, PcOK
<1>2. ~ exl => RestartPc < HANDLER /\ RestartPc # 0
  BY <1>1 DEF RestartInv, ModeOK, RestartPc
<1>3. ModeOK'
  BY <1>1, <1>2 DEF RestartInv, ModeOK, EnterHandler
<1> QED
  BY <1>3, EndLatches DEF EnterHandler

(* An instruction of the program leads into the program, one of the        *)
(* handler into the handler, or with ERET back to where EPC points.        *)
LEMMA FollowMode ==
  ASSUME RestartInv, phase = "WB", ~ exc_occur,
         FollowSlot \/ FollowBranch \/ FollowEret \/ FollowNext
  PROVE  ModeOK'
<1>1. /\ HANDLER \in Nat \ {0} /\ pc \in Nat /\ delay_npc \in Nat /\ pc # 0
      /\ exl \in BOOLEAN /\ npc \in Nat /\ epc \in Nat /\ code \in Programs
  BY WordFacts DEF RestartInv, CpuInv, CpuTypeOK, PcOK
<1>2. /\ pc \in DOMAIN code /\ inst = code[pc]
      /\ IsJump(inst) => npc = inst.target
      /\ inst.op = "ERET" => npc = epc
  BY DEF RestartInv, AtHandOK, DoneOK
<1>3. "BRANCH_ERET" \in inst.attr <=> inst.op = "ERET"
  BY <1>1, <1>2, InstructionKinds
<1>4. inst.op = "ERET" => pc > HANDLER
  BY <1>1, <1>2, ProgramAssumption
<1>5. /\ pc < HANDLER => pc + 2 < HANDLER /\ inst.target < HANDLER
      /\ ~ pc < HANDLER => inst.target \notin 1 .. HANDLER - 1
  BY <1>1, <1>2, HandlerAssumption
<1>6. inst.target \in Nat
  BY <1>1, <1>2, ProgramAssumption
<1>7. CASE ~ exl
  <2>1. pc < HANDLER /\ delay_npc < HANDLER /\ inst.op # "ERET"
    BY <1>1, <1>4, <1>7 DEF RestartInv, ModeOK
  <2>2. CASE FollowSlot
    BY <1>1, <1>7, <2>1, <2>2 DEF FollowSlot, ModeOK, cp0
  <2>3. CASE FollowBranch
    BY <1>1, <1>2, <1>5, <1>7, <2>1, <2>3 DEF FollowBranch, ModeOK, cp0
  <2>4. CASE FollowNext
    BY <1>1, <1>5, <1>7, <2>1, <2>4 DEF FollowNext, ModeOK, cp0
  <2> QED
    BY <1>3, <2>1, <2>2, <2>3, <2>4 DEF FollowEret
<1>8. CASE exl
  <2>1. /\ pc >= HANDLER /\ (delay_npc = 0 \/ delay_npc >= HANDLER)
        /\ epc < HANDLER /\ epc # 0
    BY <1>8 DEF RestartInv, ModeOK
  <2>2. CASE FollowSlot
    BY <1>1, <1>8, <2>1, <2>2 DEF FollowSlot, ModeOK, cp0
  <2>3. CASE FollowBranch
    <3>1. npc = 0 \/ npc >= HANDLER
      BY <1>1, <1>2, <1>5, <1>6, <2>1, <2>3 DEF FollowBranch
    <3> QED
      BY <1>1, <1>8, <2>1, <2>3, <3>1 DEF FollowBranch, ModeOK, cp0
  <2>4. CASE FollowEret
    BY <1>1, <1>2, <1>3, <2>1, <2>4 DEF FollowEret, ModeOK
  <2>5. CASE FollowNext
    BY <1>1, <1>8, <2>1, <2>5 DEF FollowNext, ModeOK, cp0
  <2> QED
    BY <2>2, <2>3, <2>4, <2>5
<1> QED
  BY <1>1, <1>7, <1>8

LEMMA RestartWriteBack ==
  ASSUME RestartInv, WriteBack
  PROVE  ModeOK' /\ AtHandOK' /\ DoneOK'
<1>1. phase = "WB"
  BY DEF WriteBack
<1>2. CASE EnterHandler
  BY <1>1, <1>2, EnterMode
<1>3. CASE ~ Excepted /\ (FollowSlot \/ FollowBranch \/ FollowEret \/ FollowNext)
  <2>1. phase' \in {"IF", "WAIT", "ERROR"}
    BY <1>3 DEF FollowSlot, FollowBranch, FollowEret, FollowNext, NextPhase
  <2> QED
    BY <1>1, <1>3, <2>1, FollowMode, EndLatches DEF Excepted
<1> QED
  BY <1>2, <1>3 DEF WriteBack

LEMMA RestartWake ==
  ASSUME RestartInv, Wake
  PROVE  ModeOK' /\ AtHandOK' /\ DoneOK'
BY EnterMode DEF Wake

LEMMA RestartIdle ==
  ASSUME RestartInv, Devices \/ UNCHANGED vars
  PROVE  ModeOK' /\ AtHandOK' /\ DoneOK'
BY DEF Devices, vars, operands, cp0, RestartInv, ModeOK, AtHandOK, DoneOK,
       IsLoadStore, IsLoad, IsJump, Request

LEMMA RestartInvNext == RestartInv /\ [Next]_vars => RestartInv'
<1> SUFFICES ASSUME RestartInv, [Next]_vars PROVE RestartInv'
  OBVIOUS
<1>1. CpuInv'
  BY CpuInvNext DEF RestartInv
<1>2. ModeOK' /\ AtHandOK' /\ DoneOK'
  BY RestartFetch, RestartDecode, RestartRegFetch, RestartExecute,
     RestartMemSend, RestartMemReceive, RestartWriteBack, RestartWake,
     RestartIdle DEF Next, CpuStep
<1> QED
  BY <1>1, <1>2 DEF RestartInv

LEMMA RestartInvAlways == Spec => []RestartInv
BY RestartInit, RestartInvNext, PTL DEF Spec

-----------------------------------------------------------------------------
(***************************************************************************)
(* The refinement.  Only memsend, memreceive and writeback show.           *)
(***************************************************************************)
Shown == Abstract!Next \/ UNCHANGED Abstract!vars

(* A phase that leaves the memory alone shows nothing, or that the CPU     *)
(* stops.                                                                  *)
LEMMA HiddenStep ==
  ASSUME UNCHANGED <<code, UserPc, UserDelay, r, mem>>, phase # "ERROR"
  PROVE  Shown
<1>1. CASE phase' = "ERROR"
  BY <1>1 DEF Shown, Abstract!Next, Abstract!Stop
<1>2. CASE phase' # "ERROR"
  BY <1>2 DEF Shown, Abstract!vars
<1> QED
  BY <1>1, <1>2

LEMMA HiddenPhase ==
  ASSUME Others, mem' = mem, phase # "ERROR"
  PROVE  Shown
BY HiddenStep DEF Others, cp0, UserPc, UserDelay

(* A store of the program reaches the memory before it completes.          *)
LEMMA StoreShown ==
  ASSUME RestartInv, Others, phase \in {"MS", "MR"}, ~ exc_occur,
         "STORE" \in inst.attr, mem' = r, phase' # "ERROR"
  PROVE  Shown
<1>1. pc \in DOMAIN code /\ inst = code[pc] /\ code \in Programs
  BY DEF RestartInv, AtHandOK, CpuInv, CpuTypeOK
<1>2. pc < HANDLER
  BY <1>1, HandlerAssumption
<1>3. ~ exl /\ ~ exl' /\ UNCHANGED <<code, pc, delay_npc, r>>
  <2>1. HANDLER \in Nat /\ pc \in Nat
    BY WordFacts DEF RestartInv, CpuInv, CpuTypeOK
  <2> QED
    BY <1>2, <2>1 DEF RestartInv, ModeOK, Others, cp0
<1>4. Abstract!EarlyStore
  BY <1>1, <1>3 DEF Abstract!EarlyStore, Abstract!Here, UserPc, UserDelay
<1> QED
  BY <1>4 DEF Shown, Abstract!Next

LEMMA FetchShown ==
  ASSUME RestartInv, Fetch
  PROVE  Shown
<1>1. Others /\ phase # "ERROR" /\ RingOK /\ code \in Programs /\ pc \in Address
      /\ 0 \in WordType
  BY WordFacts DEF Fetch, RestartInv, CpuInv, CpuTypeOK, Address
<1>2. CASE EndOfCycle
  BY <1>1, <1>2, QuietLatches, HiddenPhase DEF RestartInv
<1>3. CASE Send("READ", pc, 0)
  <2>1. mem' = mem
    BY <1>1, <1>3, SendAnswered DEF Send
  <2> QED
    BY <1>1, <2>1, HiddenPhase
<1> QED
  BY <1>2, <1>3 DEF Fetch, SkipPhase

LEMMA DecodeShown ==
  ASSUME RestartInv, Decode \/ RegFetch \/ Execute
  PROVE  Shown
<1>1. Others /\ phase # "ERROR" /\ EndOfCycle
  BY DEF Decode, RegFetch, Execute, SkipPhase
<1> QED
  BY <1>1, QuietLatches, HiddenPhase DEF RestartInv

LEMMA MemSendShown ==
  ASSUME RestartInv, MemSend
  PROVE  Shown
<1>1. Others /\ phase = "MS" /\ phase' = "MR" /\ IsLoadStore(inst)
  BY DEF MemSend, RestartInv, AtHandOK
<1>2. CASE SkipPhase
  BY <1>1, <1>2, QuietLatches, HiddenPhase DEF SkipPhase, RestartInv
<1>3. CASE ~ Excepted /\ Send(Request, paddr, rrt)
  <2>1. /\ RingOK /\ code \in Programs
        /\ paddr \in Address /\ rrt \in WordType
        /\ Request \in {"READ", "WRITE"}
    BY DEF RestartInv, CpuInv, CpuTypeOK, Address, DATA, BAD, Request
  <2>2. mem' = IF Request = "WRITE" /\ paddr = DATA THEN rrt ELSE mem
    BY <1>3, <2>1, SendAnswered DEF Send
  <2>3. ~ exc_occur /\ rrt = r
    BY <1>1, <1>3 DEF RestartInv, AtHandOK, Excepted
  <2>4. Request = "WRITE" => "STORE" \in inst.attr
    BY <1>1 DEF Request, IsLoadStore, IsLoad
  <2> QED
    BY <1>1, <2>2, <2>3, <2>4, HiddenPhase, StoreShown
<1> QED
  BY <1>2, <1>3 DEF MemSend

LEMMA MemReceiveShown ==
  ASSUME RestartInv, MemReceive
  PROVE  Shown
<1>1. Others /\ phase = "MR" /\ phase' = "WB" /\ IsLoadStore(inst)
  BY DEF MemReceive, RestartInv, AtHandOK
<1>2. CASE EndOfCycle
  BY <1>1, <1>2, QuietLatches, HiddenPhase DEF RestartInv
<1>3. CASE /\ ~ Excepted /\ slot[mcid].state # "FAILURE"
           /\ inst.op \in Unaligned
           /\ SetBus(BusStep(Enqueued(bus, "WRITE", paddr, rrt)))
  <2>1. /\ RingOK /\ code \in Programs /\ paddr = DATA /\ DATA \in Address
        /\ rrt \in WordType /\ rrt = r /\ ~ exc_occur
        /\ pc \in DOMAIN code /\ inst = code[pc]
    BY <1>1, <1>3 DEF RestartInv, AtHandOK, CpuInv, CpuTypeOK, AnswerOK,
                      Excepted, Address, DATA
  <2>2. mem' = r
    <3>1. SetBus(BusStep(Enqueued(bus, "WRITE", DATA, rrt)))
      BY <1>3, <2>1
    <3> QED
      BY <2>1, <3>1, SendAnswered
  <2>3. "STORE" \in inst.attr
    BY <1>3, <2>1, InstructionKinds
  <2> QED
    BY <1>1, <2>1, <2>2, <2>3, StoreShown
<1> QED
  BY <1>2, <1>3 DEF MemReceive, SkipPhase

(* Into a handler: the program's place does not move, or goes back from a  *)
(* delay slot to its branch.                                               *)
LEMMA EnterShown ==
  ASSUME RestartInv, EnterHandler, phase # "ERROR",
         UNCHANGED <<code, mem>>
  PROVE  Shown
<1>1. CASE exl
  <2>1. UNCHANGED <<UserPc, UserDelay>>
    BY <1>1 DEF EnterHandler, UserPc, UserDelay
  <2> QED
    BY <2>1, HiddenStep DEF EnterHandler
<1>2. CASE ~ exl /\ delay_npc = 0
  <2>1. UNCHANGED <<UserPc, UserDelay>>
    BY <1>2 DEF EnterHandler, UserPc, UserDelay, RestartPc
  <2> QED
    BY <2>1, HiddenStep DEF EnterHandler
<1>3. CASE ~ exl /\ delay_npc # 0
  <2>1. Abstract!BackToBranch
    BY <1>3 DEF Abstract!BackToBranch, EnterHandler, UserPc, UserDelay,
                RestartPc
  <2> QED
    BY <2>1 DEF Shown, Abstract!Next
<1> QED
  BY <1>1, <1>2, <1>3

(* An instruction of the program completes.                                *)
LEMMA CompleteShown ==
  ASSUME RestartInv, phase = "WB", ~ exc_occur, ~ exl, UNCHANGED <<code, mem>>,
         r' = IF "WRITE_RT" \in inst.attr THEN rrt ELSE r,
         FollowSlot \/ FollowBranch \/ FollowEret \/ FollowNext
  PROVE  Shown
<1>1. /\ pc \in DOMAIN code /\ inst = code[pc] /\ code \in Programs
      /\ pc \in Nat /\ HANDLER \in Nat /\ pc < HANDLER
  BY WordFacts DEF RestartInv, AtHandOK, CpuInv, CpuTypeOK, ModeOK
<1>2. inst.op # "ERET" /\ "BRANCH_ERET" \notin inst.attr
  BY <1>1, ProgramAssumption, InstructionKinds
<1>3. r' = Abstract!Result(inst)
  <2>1. IsLoad(inst) => inst.op # "ADDIU" /\ inst.op # "SC"
                        /\ "WRITE_RT" \in inst.attr
    BY <1>1, InstructionKinds
  <2>2. /\ inst.op = "SC" => "WRITE_RT" \in inst.attr
        /\ inst.op = "ADDIU" => "WRITE_RT" \in inst.attr
        /\ "WRITE_RT" \in inst.attr =>
             IsLoad(inst) \/ inst.op = "SC" \/ inst.op = "ADDIU"
    BY <1>1, InstructionKinds
  <2> QED
    BY <2>1, <2>2 DEF RestartInv, DoneOK, Abstract!Result, IsLoad
<1>4. mem' = IF "STORE" \in inst.attr THEN r ELSE mem
  BY DEF RestartInv, DoneOK
<1>5. /\ Abstract!Taken(inst) <=> IsJump(inst) /\ cond
      /\ IsJump(inst) => npc = inst.target
  BY DEF RestartInv, DoneOK, Abstract!Taken, Abstract!Branches, IsJump
<1>6. /\ "BRANCH_LIKELY" \in inst.attr => IsJump(inst)
  BY DEF IsJump
<1>7. UserPc = pc /\ UserDelay = delay_npc
  BY DEF UserPc, UserDelay
<1>8. ~ exl' /\ UserPc' = pc' /\ UserDelay' = delay_npc'
  BY <1>2 DEF FollowSlot, FollowBranch, FollowEret, FollowNext, cp0, UserPc,
              UserDelay
<1>9. Abstract!Follow(inst)
  BY <1>2, <1>5, <1>6, <1>7, <1>8
     DEF FollowSlot, FollowBranch, FollowEret, FollowNext, Abstract!Follow,
         Abstract!SkipsSlot
<1>10. Abstract!Complete
  BY <1>1, <1>3, <1>4, <1>7, <1>9 DEF Abstract!Complete, Abstract!Here
<1> QED
  BY <1>10 DEF Shown, Abstract!Next

(* An instruction of a handler completes.                                  *)
LEMMA HandlerShown ==
  ASSUME RestartInv, phase = "WB", ~ exc_occur, exl, UNCHANGED <<code, mem>>,
         r' = IF "WRITE_RT" \in inst.attr THEN rrt ELSE r,
         FollowSlot \/ FollowBranch \/ FollowEret \/ FollowNext
  PROVE  Shown
<1>1. /\ pc \in DOMAIN code /\ inst = code[pc] /\ code \in Programs
      /\ pc \in Nat /\ HANDLER \in Nat /\ pc >= HANDLER
      /\ inst.op = "ERET" => npc = epc
  BY WordFacts DEF RestartInv, AtHandOK, CpuInv, CpuTypeOK, ModeOK, DoneOK
<1>2. "WRITE_RT" \notin inst.attr
  <2>1. ~ pc < HANDLER
    BY <1>1
  <2> QED
    BY <1>1, <2>1, HandlerAssumption
<1>3. UNCHANGED <<UserPc, UserDelay>>
  <2>1. CASE FollowEret
    BY <1>1, <2>1, InstructionKinds DEF FollowEret, UserPc, UserDelay
  <2>2. CASE FollowSlot \/ FollowBranch \/ FollowNext
    BY <2>2 DEF FollowSlot, FollowBranch, FollowNext, cp0, UserPc, UserDelay
  <2> QED
    BY <2>1, <2>2
<1> QED
  BY <1>2, <1>3, HiddenStep

LEMMA WriteBackShown ==
  ASSUME RestartInv, WriteBack
  PROVE  Shown
<1>1. phase = "WB" /\ code' = code /\ mem' = mem /\ exl \in BOOLEAN
  BY QuietLatches DEF WriteBack, RestartInv, CpuInv, CpuTypeOK
<1>2. CASE EnterHandler
  BY <1>1, <1>2, EnterShown
<1>3. CASE /\ ~ Excepted
           /\ r' = IF "WRITE_RT" \in inst.attr THEN rrt ELSE r
           /\ FollowSlot \/ FollowBranch \/ FollowEret \/ FollowNext
  BY <1>1, <1>3, CompleteShown, HandlerShown DEF Excepted
<1> QED
  BY <1>2, <1>3 DEF WriteBack

LEMMA WakeShown ==
  ASSUME RestartInv, Wake
  PROVE  Shown
BY QuietLatches, EnterShown DEF Wake, RestartInv

LEMMA IdleShown ==
  ASSUME Devices \/ UNCHANGED vars
  PROVE  Shown
BY DEF Devices, vars, cp0, Shown, Abstract!vars, UserPc, UserDelay

LEMMA NextShown == RestartInv /\ [Next]_vars => Shown
BY FetchShown, DecodeShown, MemSendShown, MemReceiveShown, WriteBackShown,
   WakeShown, IdleShown DEF Next, CpuStep

LEMMA InitShown == Init => Abstract!Init
BY DEF Init, Abstract!Init, UserPc, UserDelay

(* What is observed does not constrain the CPU.                            *)
LEMMA HistoryIsSpec == HistorySpec => Spec
<1>1. HistoryInit => Init
  BY DEF HistoryInit
<1>2. [HistoryNext]_historyVars => [Next]_vars
  BY DEF HistoryNext, historyVars, Next
<1> QED
  BY <1>1, <1>2, PTL DEF HistorySpec, Spec

(***************************************************************************)
(* Interrupts and exceptions are invisible to the program: of whatever     *)
(* comes between two phases, and of the faults of its own accesses, it     *)
(* sees at most that a branch or a store is made again.                    *)
(***************************************************************************)
THEOREM RestartableCorrect == HistorySpec => Restartable
<1>1. RestartInv /\ [Next]_vars => [Abstract!Next]_(Abstract!vars)
  BY NextShown DEF Shown
<1> QED
  BY <1>1, InitShown, RestartInvAlways, HistoryIsSpec, PTL
     DEF Spec, Restartable, Abstract!Spec

-----------------------------------------------------------------------------
(* The requests an instruction has made when memreceive looks at it: its   *)
(* own one, unless the device memory did not answer; after an interrupt    *)
(* that -m let in, whatever it had made before.                            *)
MadeOK ==
  /\ made \in Nat
  /\ phase \notin {"MR", "WB"} => made = 0
  /\ phase = "MR" =>
       IF exc_occur THEN made > 0 => multicycle /\ exc_code = "INT"
                    ELSE made = IF paddr = DATA THEN 1 ELSE 0

CountInv == RestartInv /\ MadeOK /\ OnceOnly

LEMMA CountInit == HistoryInit => CountInv
<1> SUFFICES ASSUME HistoryInit PROVE CountInv
  OBVIOUS
<1>1. Init /\ made = 0 /\ phase = "IF"
  BY DEF HistoryInit, Init
<1> QED
  BY <1>1, RestartInit DEF CountInv, MadeOK, OnceOnly

(* A phase before memsend makes none.                                      *)
LEMMA CountEarly ==
  ASSUME CountInv, Watch, phase \in {"IF", "ID", "RF"},
         phase' \notin {"MR", "WB"}
  PROVE  MadeOK' /\ OnceOnly'
BY DEF CountInv, MadeOK, Watch, Requested, OnceOnly

(* An instruction that ends without an access completes without one.       *)
LEMMA CountExecute ==
  ASSUME CountInv, Execute, Watch
  PROVE  MadeOK' /\ OnceOnly'
<1>1. /\ phase = "EX" /\ phase' = IF IsLoadStore(inst) THEN "MS" ELSE "WB"
      /\ inst' = inst
  BY DEF Execute, AfterExecute, SkipPhase, operands, ExecuteAddress,
         ExecuteOther
<1>2. made' = 0
  BY <1>1 DEF CountInv, MadeOK, Watch, Requested
<1>3. IsLoadStore(inst)' <=> IsLoadStore(inst)
  BY <1>1 DEF IsLoadStore
<1> QED
  BY <1>1, <1>2, <1>3 DEF MadeOK, OnceOnly, Accesses

LEMMA CountMemSend ==
  ASSUME CountInv, MemSend, Watch
  PROVE  MadeOK' /\ OnceOnly'
<1>1. phase = "MS" /\ phase' = "MR" /\ made = 0 /\ RingOK
      /\ exc_occur \in BOOLEAN
  BY DEF MemSend, CountInv, MadeOK, RestartInv, CpuInv, CpuTypeOK
<1>2. CASE SkipPhase
  <2>1. made' = 0 /\ exc_occur' = TRUE
    BY <1>1, <1>2 DEF SkipPhase, Excepted, Except, NoExcept, Watch, Requested
  <2> QED
    BY <1>1, <2>1 DEF MadeOK, OnceOnly
<1>3. CASE /\ ~ Excepted
           /\ IF Full(bus) THEN Except("FAULT") ELSE NoExcept
           /\ UNCHANGED operands
  <2>1. exc_occur' = FALSE /\ paddr' = paddr
    BY <1>1, <1>3, NeverFull DEF NoExcept, Excepted, operands
  <2>2. made' = IF paddr = DATA THEN 1 ELSE 0
    BY <1>1, <1>3 DEF Watch, Requested
  <2> QED
    BY <1>1, <2>1, <2>2 DEF MadeOK, OnceOnly
<1> QED
  BY <1>2, <1>3 DEF MemSend

LEMMA CountMemReceive ==
  ASSUME CountInv, MemReceive, Watch
  PROVE  MadeOK' /\ OnceOnly'
<1>1. /\ phase = "MR" /\ phase' = "WB" /\ multicycle' = multicycle
      /\ exc_occur \in BOOLEAN /\ made \in Nat /\ IsLoadStore(inst)
  BY DEF MemReceive, Others, CountInv, MadeOK, RestartInv, CpuInv, CpuTypeOK,
         AtHandOK
<1>2. CASE SkipPhase
  <2>1. made' = made /\ exc_occur' = TRUE
    BY <1>1, <1>2 DEF SkipPhase, Excepted, Except, NoExcept, Watch, Requested
  <2>2. Raised => multicycle /\ exc_code' = "INT"
    BY <1>1, <1>2 DEF SkipPhase, Raised, Polled, Except
  <2>3. ~ Raised => exc_occur /\ exc_code' = exc_code
    BY <1>2 DEF SkipPhase, Excepted, NoExcept
  <2>4. exc_occur => (made > 0 => multicycle /\ exc_code = "INT")
    BY <1>1 DEF CountInv, MadeOK
  <2> QED
    BY <1>1, <2>1, <2>2, <2>3, <2>4 DEF MadeOK, OnceOnly
<1>3. CASE ~ Excepted /\ slot[mcid].state = "FAILURE" /\ Except("FAULT")
  <2>1. ~ exc_occur /\ paddr = BAD
    BY <1>1, <1>3 DEF CountInv, RestartInv, CpuInv, AnswerOK, Excepted
  <2>2. made = 0 /\ made' = 0
    BY <1>1, <2>1 DEF CountInv, MadeOK, Watch, Requested, DATA, BAD
  <2> QED
    BY <1>1, <1>3, <2>2 DEF MadeOK, OnceOnly, Except
<1>4. CASE /\ ~ Excepted /\ slot[mcid].state # "FAILURE"
           /\ NoExcept /\ UNCHANGED inst
  <2>1. ~ exc_occur /\ paddr = DATA
    BY <1>1, <1>4 DEF CountInv, RestartInv, CpuInv, CpuTypeOK, AnswerOK,
                      Excepted
  <2>2. made' = IF inst.op \in Unaligned THEN 2 ELSE 1
    BY <1>1, <1>4, <2>1 DEF CountInv, MadeOK, Watch, Requested
  <2>3. Accesses' = IF inst.op \in Unaligned THEN 2 ELSE 1
    BY <1>1, <1>4 DEF Accesses, IsLoadStore
  <2> QED
    BY <1>1, <1>4, <2>1, <2>2, <2>3 DEF MadeOK, OnceOnly, NoExcept
<1> QED
  BY <1>2, <1>3, <1>4 DEF MemReceive

(* The next instruction begins to count anew.                              *)
LEMMA CountEnd ==
  ASSUME WriteBack \/ Wake, Watch
  PROVE  MadeOK' /\ OnceOnly'
<1>1. phase' \in {"IF", "WAIT", "ERROR"}
  BY DEF WriteBack, Wake, EnterHandler, FollowSlot, FollowBranch, FollowEret,
         FollowNext, NextPhase
<1>2. made' = 0
  BY DEF WriteBack, Wake, Watch
<1> QED
  BY <1>1, <1>2 DEF MadeOK, OnceOnly

LEMMA CountIdle ==
  ASSUME CountInv, Devices \/ UNCHANGED vars, UNCHANGED made
  PROVE  MadeOK' /\ OnceOnly'
BY DEF Devices, vars, operands, CountInv, MadeOK, OnceOnly, Accesses,
       IsLoadStore

LEMMA HistoryIsNext == [HistoryNext]_historyVars => [Next]_vars
BY DEF HistoryNext, historyVars, Next

LEMMA CountInvNext == CountInv /\ [HistoryNext]_historyVars => CountInv'
<1> SUFFICES ASSUME CountInv, [HistoryNext]_historyVars PROVE CountInv'
  OBVIOUS
<1>1. RestartInv'
  BY HistoryIsNext, RestartInvNext DEF CountInv
<1>2. CASE CpuStep /\ Watch
  <2>1. CASE Fetch \/ Decode \/ RegFetch
    <3>1. phase \in {"IF", "ID", "RF"} /\ phase' \notin {"MR", "WB"}
      BY <2>1 DEF Fetch, Decode, RegFetch
    <3> QED
      BY <1>1, <1>2, <3>1, CountEarly DEF CountInv
  <2> QED
    BY <1>1, <1>2, <2>1, CountExecute, CountMemSend, CountMemReceive, CountEnd
       DEF CpuStep, CountInv
<1>3. CASE (Devices \/ UNCHANGED vars) /\ UNCHANGED made
  BY <1>1, <1>3, CountIdle DEF CountInv
<1> QED
  BY <1>2, <1>3 DEF HistoryNext, historyVars

(***************************************************************************)
(* An instruction that completes has made its own accesses, once each; one *)
(* that does not complete has made none, save under -m when an interrupt   *)
(* comes after them.                                                       *)
(***************************************************************************)
THEOREM OnceOnlyCorrect == HistorySpec => []OnceOnly
<1>1. CountInv => OnceOnly
  BY DEF CountInv
<1> QED
  BY <1>1, CountInit, CountInvNext, PTL DEF HistorySpec

-----------------------------------------------------------------------------
(* How many steps an instruction has behind it at least before a phase.    *)
Behind(p) == CASE p \in {"IF", "WAIT"} -> 0
               [] p = "ID" -> 1
               [] p = "RF" -> 2
               [] p = "EX" -> 3
               [] p = "MS" -> 4
               [] p = "MR" -> 5
               [] OTHER -> 6

(* Without -m an interrupt that is enabled after the fetch has already     *)
(* been noticed: the devices do not run inside step_funct.                 *)
NoticedOK ==
  phase \notin {"IF", "WAIT", "ERROR"} /\ Interrupt => multicycle \/ exc_occur

WaitInv == /\ phase \in Phase /\ exl \in BOOLEAN
           /\ waited \in 0 .. Behind(phase)
           /\ NoticedOK

LEMMA WaitInit == HistoryInit => WaitInv
<1> SUFFICES ASSUME HistoryInit PROVE WaitInv
  OBVIOUS
<1>1. phase = "IF" /\ exl = FALSE /\ waited = 0
  BY DEF HistoryInit, Init
<1>2. waited \in 0 .. Behind(phase)
  BY <1>1 DEF Behind
<1>3. NoticedOK /\ phase \in Phase
  BY <1>1 DEF NoticedOK, Phase
<1> QED
  BY <1>1, <1>2, <1>3 DEF WaitInv

(* A phase is one step.                                                    *)
LEMMA WaitPhase ==
  ASSUME WaitInv, Watch, Others, phase' \in Phase,
         phase \notin {"WAIT", "ERROR"}, phase' \notin {"IF", "WAIT"},
         Behind(phase) < Behind(phase'), exc_occur => exc_occur',
         phase = "IF" /\ Interrupt => exc_occur'
  PROVE  WaitInv'
<1>1. waited \in Nat /\ waited <= Behind(phase) /\ Behind(phase) \in Nat
      /\ Behind(phase') \in Nat
  BY DEF WaitInv, Behind
<1>2. waited' \in 0 .. Behind(phase')
  BY <1>1 DEF Watch
<1>3. (Interrupt' <=> Interrupt) /\ UNCHANGED <<exl, multicycle>>
  BY DEF Others, Interrupt, cp0
<1>4. NoticedOK'
  BY <1>3 DEF WaitInv, NoticedOK, Phase
<1> QED
  BY <1>2, <1>3, <1>4 DEF WaitInv, Behind

(* At its end an enabled interrupt is taken.                               *)
LEMMA WaitEnd ==
  ASSUME WaitInv, exc_occur \in BOOLEAN, WriteBack \/ Wake, Watch
  PROVE  WaitInv'
<1>1. phase' \in {"IF", "WAIT", "ERROR"} /\ exl' \in BOOLEAN
  BY DEF WaitInv, WriteBack, Wake, EnterHandler, FollowSlot, FollowBranch,
         FollowEret, FollowNext, NextPhase, cp0
<1>2. Interrupt => exl'
  <2>1. CASE WriteBack
    <3>1. Interrupt => Excepted
      BY <2>1 DEF WriteBack, WaitInv, NoticedOK, Excepted, Raised, Polled
    <3> QED
      BY <2>1, <3>1 DEF WriteBack, EnterHandler
  <2> QED
    BY <2>1 DEF Wake, EnterHandler
<1>3. waited' = 0
  BY <1>2 DEF Watch
<1> QED
  BY <1>1, <1>3 DEF WaitInv, Behind, NoticedOK, Phase

LEMMA WaitDevices ==
  ASSUME WaitInv, Devices, waited' = IF ip' THEN waited ELSE 0
  PROVE  WaitInv'
<1>1. UNCHANGED <<phase, exl, multicycle>>
  BY DEF Devices, cp0
<1>2. waited' \in 0 .. Behind(phase)
  BY DEF WaitInv, Behind
<1>3. phase \notin {"IF", "WAIT", "ERROR"} => multicycle
  BY DEF Devices
<1> QED
  BY <1>1, <1>2, <1>3 DEF WaitInv, Behind, NoticedOK

LEMMA WaitStep ==
  ASSUME WaitInv, exc_occur \in BOOLEAN, CpuStep, Watch
  PROVE  WaitInv'
<1>1. ASSUME SkipPhase PROVE exc_occur' = TRUE
  BY <1>1 DEF SkipPhase, Excepted, Except, NoExcept
<1>2. CASE Fetch
  <2>1. Interrupt => exc_occur'
    BY <1>1, <1>2 DEF Fetch, Excepted, Raised, Polled, Except
  <2>2. exc_occur => exc_occur'
    BY <1>1, <1>2 DEF Fetch, Excepted
  <2> QED
    BY <1>2, <2>1, <2>2, WaitPhase DEF Fetch, Behind, Phase
<1>3. CASE Decode
  <2>1. exc_occur => exc_occur'
    BY <1>1, <1>3 DEF Decode, Excepted
  <2> QED
    BY <1>3, <2>1, WaitPhase DEF Decode, Behind, Phase
<1>4. CASE RegFetch
  <2>1. exc_occur => exc_occur'
    BY <1>1, <1>4 DEF RegFetch, Excepted
  <2> QED
    BY <1>4, <2>1, WaitPhase DEF RegFetch, Behind, Phase
<1>5. CASE Execute
  <2>1. exc_occur => exc_occur'
    BY <1>1, <1>5 DEF Execute, Excepted
  <2> QED
    BY <1>5, <2>1, WaitPhase DEF Execute, AfterExecute, Behind, Phase
<1>6. CASE MemSend
  <2>1. exc_occur => exc_occur'
    BY <1>1, <1>6 DEF MemSend, Excepted
  <2> QED
    BY <1>6, <2>1, WaitPhase DEF MemSend, Behind, Phase
<1>7. CASE MemReceive
  <2>1. exc_occur => exc_occur'
    BY <1>1, <1>7 DEF MemReceive, Excepted
  <2> QED
    BY <1>7, <2>1, WaitPhase DEF MemReceive, Behind, Phase
<1> QED
  BY <1>2, <1>3, <1>4, <1>5, <1>6, <1>7, WaitEnd DEF CpuStep

LEMMA WaitInvNext ==
  WaitInv /\ CpuInv /\ [HistoryNext]_historyVars => WaitInv'
<1> SUFFICES ASSUME WaitInv, CpuInv, [HistoryNext]_historyVars PROVE WaitInv'
  OBVIOUS
<1>1. exc_occur \in BOOLEAN
  BY DEF CpuInv, CpuTypeOK
<1>2. CASE UNCHANGED historyVars
  BY <1>2 DEF historyVars, vars, cp0, WaitInv, NoticedOK, Interrupt, Behind,
              Phase
<1> QED
  BY <1>1, <1>2, WaitStep, WaitDevices DEF HistoryNext

(***************************************************************************)
(* An interrupt that is enabled and stays so has the CPU in its handler    *)
(* within seven steps, whatever the program is doing: SimMips/README.txt   *)
(* gives an instruction at most seven cycles.                              *)
(***************************************************************************)
THEOREM ResponsiveCorrect == HistorySpec => []Responsive
<1>1. WaitInv => Responsive
  BY DEF WaitInv, Behind, Responsive
<1> QED
  BY <1>1, WaitInit, WaitInvNext, CpuInvAlways, HistoryIsSpec, PTL
     DEF HistorySpec
=============================================================================
