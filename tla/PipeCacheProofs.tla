--------------------------- MODULE PipeCacheProofs ---------------------------
(***************************************************************************)
(* Proofs about PipeCache, for every instruction alphabet, every geometry  *)
(* and every penalty: the pipeline with its data cache is the pipeline of  *)
(* PipeLine, the cache sees every access once, and an access holds SMEM    *)
(* for the cycles the cache asked for.                                     *)
(***************************************************************************)
EXTENDS PipeCache, PipeLineProofs

(* What Cache::Access does whatever line it finds: the latency is that of  *)
(* a hit, of a miss or of a miss that writes back, and a write-back cache  *)
(* counts the access.                                                      *)
LEMMA AccessFacts ==
  ASSUME NEW b, NEW rwtype, DCache!Access(b, rwtype)
  PROVE  /\ latency' \in {1, penalty, 2 * penalty}
         /\ DCache!writeback => access_count' = access_count + 1
         /\ geometry' = geometry
<1>1. geometry' = geometry
  BY DEF DCache!Access
<1>2. CASE DCache!Hit(b, rwtype)
  BY <1>1, <1>2 DEF DCache!Hit
<1>3. CASE DCache!WriteAround(b, rwtype)
  BY <1>1, <1>3 DEF DCache!WriteAround
<1>4. CASE DCache!Fill(b, rwtype)
  BY <1>1, <1>4 DEF DCache!Fill, DCache!CountMiss
<1>5. CASE DCache!Replace(b, rwtype)
  BY <1>1, <1>5 DEF DCache!Replace, DCache!ReplaceTime, DCache!CountMiss
<1> QED
  BY <1>2, <1>3, <1>4, <1>5 DEF DCache!Access

-----------------------------------------------------------------------------
(* An access with the cache's latency is an access with some latency.      *)
LEMMA PipeNext == [PCNext]_pcVars => [Next]_vars
<1> SUFFICES ASSUME [PCNext]_pcVars PROVE [Next]_vars
  OBVIOUS
<1>1. CASE CachedAccess
  <2>1. latency' \in AccessLatency
    BY <1>1, AccessFacts, LatencyAssumption DEF CachedAccess, AccessLatency
  <2>2. MemAccess(latency')
    BY <1>1 DEF CachedAccess
  <2> QED
    BY <2>1, <2>2 DEF MemStep, StepPipe, Next
<1>2. CASE Uncached
  BY <1>2 DEF Uncached, MemStep, StepPipe, Next
<1>3. CASE UNCHANGED pcVars
  BY <1>3 DEF pcVars
<1> QED
  BY <1>1, <1>2, <1>3 DEF PCNext

(***************************************************************************)
(* The cache changes only how long an access takes: whatever is proved of  *)
(* the pipeline for every latency holds of the pipeline with its cache.    *)
(***************************************************************************)
THEOREM IsPipeLineCorrect == PCSpec => IsPipeLine
<1>1. PCInit => Init
  BY DEF PCInit
<1> QED
  BY <1>1, PipeNext, PTL DEF PCSpec, IsPipeLine, Spec

(* With the cache, too, the stage states say what the latches hold.        *)
LEMMA PipeShape == PCSpec => [](TypeOK /\ StageShape)
<1>1. IsPipeLine => [](TypeOK /\ StageShape)
  BY TypeCorrect, ShapeCorrect, PTL DEF IsPipeLine
<1> QED
  BY <1>1, IsPipeLineCorrect, PTL

-----------------------------------------------------------------------------
(* The accesses that have started and are not yet retired.                 *)
Started == (IF InFlight(SWB) THEN 1 ELSE 0)
             + (IF InFlight(SMEM) /\ stage_state[SMEM] # "IDLE" THEN 1 ELSE 0)

Counted == DCache!writeback => access_count = retired + Started

CountTypes == access_count \in Nat /\ retired \in Nat /\ held \in Nat
                /\ latency \in Nat

LEMMA CountTypesInit == PCInit => CountTypes
BY DEF PCInit, DCache!CacheInit, CountTypes

(* The counters only ever grow.                                            *)
LEMMA CountTypesNext == CountTypes /\ [PCNext]_pcVars => CountTypes'
<1> SUFFICES ASSUME CountTypes, [PCNext]_pcVars PROVE CountTypes'
  OBVIOUS
<1>1. CASE CachedAccess
  <2>1. PICK b, rwtype : DCache!Access(b, rwtype)
    BY <1>1 DEF CachedAccess
  <2>2. latency' \in Nat
    BY <2>1, AccessFacts, LatencyAssumption
  <2>3. access_count' = access_count + 1 \/ access_count' = access_count
    <3>1. CASE DCache!Hit(b, rwtype)
      BY <3>1 DEF DCache!Hit
    <3>2. CASE DCache!WriteAround(b, rwtype)
      BY <3>2 DEF DCache!WriteAround
    <3>3. CASE DCache!Fill(b, rwtype)
      BY <3>3 DEF DCache!Fill, DCache!CountMiss
    <3>4. CASE DCache!Replace(b, rwtype)
      BY <3>4 DEF DCache!Replace, DCache!CountMiss
    <3> QED
      BY <2>1, <3>1, <3>2, <3>3, <3>4 DEF DCache!Access
  <2> QED
    BY <1>1, <2>2, <2>3 DEF CachedAccess, CountTypes
<1>2. CASE Uncached
  BY <1>2 DEF Uncached, cacheVars, CountTypes
<1>3. CASE UNCHANGED pcVars
  BY <1>3 DEF pcVars, cacheVars, CountTypes
<1> QED
  BY <1>1, <1>2, <1>3 DEF PCNext

(* The only steps that disturb the count take an access out of SWB, or     *)
(* shift it from SMEM to SWB.                                              *)
LEMMA UncachedCount ==
  ASSUME TypeOK, TypeOK', StageShape, CountTypes, Uncached
  PROVE  retired' + Started' = retired + Started
<1> USE StageRange, InstAssumption
     DEF TypeOK, StageShape, CountTypes, Started, InFlight, Contains, Goto,
         SFETCH, SDECODE, SEXEC, SMEM, SWB
<1>1. CASE WriteBackStep
  BY <1>1 DEF Uncached, WriteBackStep, WriteBack, WriteBackEmpty
<1>2. CASE MemPass \/ MemBusy \/ MemIdle
  BY <1>2 DEF Uncached, MemPass, MemBusy, MemIdle, MemStart
<1>3. CASE ExecStep
  BY <1>3 DEF Uncached, ExecStep, Exec, ExecIdle
<1>4. CASE DecodeStep
  BY <1>4 DEF Uncached, DecodeStep, Decode, DecodeRetry, DecodeIdle
<1>5. CASE FetchStep
  BY <1>5 DEF Uncached, FetchStep, Fetch, FetchIdle
<1>6. CASE ShiftStep
  BY <1>6 DEF Uncached, ShiftStep, ShiftStage, ShiftNothing, Shiftable
<1>7. CASE Halt
  BY <1>7 DEF Uncached, Halt
<1> QED
  BY <1>1, <1>2, <1>3, <1>4, <1>5, <1>6, <1>7 DEF Uncached

LEMMA CountedNext ==
  ASSUME TypeOK, TypeOK', StageShape, CountTypes, Counted, [PCNext]_pcVars
  PROVE  Counted'
<1>1. CASE CachedAccess
  <2>1. /\ DCache!writeback' = DCache!writeback
        /\ DCache!writeback => access_count' = access_count + 1
    BY <1>1, AccessFacts DEF CachedAccess, DCache!writeback
  <2>2. Started' = Started + 1
    BY <1>1, StageRange DEF CachedAccess, MemAccess, MemStart, Started,
       InFlight, Contains, TypeOK, SMEM, SWB
  <2>3. retired' = retired
    BY <1>1 DEF CachedAccess
  <2> QED
    BY <2>1, <2>2, <2>3 DEF Counted, CountTypes, Started
<1>2. CASE Uncached
  <2>1. retired' + Started' = retired + Started
    BY <1>2, UncachedCount
  <2> QED
    BY <1>2, <2>1 DEF Counted, Uncached, cacheVars, DCache!writeback
<1>3. CASE UNCHANGED pcVars
  BY <1>3 DEF pcVars, cacheVars, vars, Counted, Started, InFlight, Contains,
              DCache!writeback
<1> QED
  BY <1>1, <1>2, <1>3 DEF PCNext

LEMMA CountedInit == PCInit => Counted
BY StageRange DEF PCInit, Init, DCache!CacheInit, Counted, Started, InFlight,
   Contains, SMEM, SWB

(***************************************************************************)
(* A write-back cache is probed once for each load and store that ran,     *)
(* when it starts in SMEM, however long it stays there.                    *)
(***************************************************************************)
THEOREM ProbeOnceCorrect == PCSpec => []ProbeOnce
<1>1. PCSpec => []CountTypes
  BY CountTypesInit, CountTypesNext, PTL DEF PCSpec
<1>2. PCSpec => []Counted
  BY <1>1, PipeShape, CountedInit, CountedNext, PTL DEF PCSpec
<1>3. CountTypes /\ Counted => ProbeOnce
  BY DEF CountTypes, Counted, Started, ProbeOnce
<1> QED
  BY <1>1, <1>2, <1>3, PTL

-----------------------------------------------------------------------------
(* An access starts with all the cycles it takes but the one at hand.      *)
LEMMA LatencyStart ==
  ASSUME TypeOK, CachedAccess
  PROVE  ExactLatency'
<1>1. PICK n \in Nat : latency' = n /\ n > 0
  <2>1. latency' \in {1, penalty, 2 * penalty}
    BY AccessFacts DEF CachedAccess
  <2> QED
    BY <2>1, LatencyAssumption
<1>2. MemAccess(n) /\ held' = 1
  BY <1>1 DEF CachedAccess
<1>3. /\ stage_wait_cycle' = n - 1
      /\ n > 1 => stage_state'[SMEM] = "BUSY"
      /\ n <= 1 => stage_state'[SMEM] = "STALL"
  BY <1>1, <1>2, StageRange DEF MemAccess, MemStart, TypeOK, SMEM
<1>4. held' + stage_wait_cycle' = n
  BY <1>1, <1>2, <1>3
<1> QED
  BY <1>1, <1>2, <1>3, <1>4 DEF ExactLatency

(* Mem counts a busy access down by one each cycle it is held.             *)
LEMMA LatencyNext ==
  ASSUME TypeOK, TypeOK', StageShape, CountTypes, ExactLatency, [PCNext]_pcVars
  PROVE  ExactLatency'
<1> USE StageRange, InstAssumption
     DEF TypeOK, StageShape, CountTypes, ExactLatency, InFlight, Contains,
         Goto, SFETCH, SDECODE, SEXEC, SMEM, SWB
<1>1. CASE CachedAccess
  BY <1>1, LatencyStart
<1>2. CASE Uncached
  <2>1. CASE WriteBackStep
    BY <1>2, <2>1 DEF Uncached, cacheVars, WriteBackStep, WriteBack,
                      WriteBackEmpty
  <2>2. CASE MemPass \/ MemIdle
    BY <1>2, <2>2 DEF Uncached, cacheVars, MemPass, MemIdle, MemStart
  <2>8. CASE MemBusy
    <3>1. /\ stage_state[SMEM] = "BUSY" /\ held' = held + 1
          /\ latency' = latency /\ latches' = latches
          /\ stage_wait_cycle' = stage_wait_cycle - 1
      BY <1>2, <2>8 DEF Uncached, cacheVars, MemBusy
    <3>2. stage_state'[SMEM] = IF stage_wait_cycle - 1 <= 0 THEN "STALL"
                                                            ELSE "BUSY"
      BY <2>8 DEF MemBusy
    <3> QED
      BY <3>1, <3>2
  <2>3. CASE ExecStep
    BY <1>2, <2>3 DEF Uncached, cacheVars, ExecStep, Exec, ExecIdle
  <2>4. CASE DecodeStep
    <3>1. /\ stage_state'[SMEM] = stage_state[SMEM]
          /\ UNCHANGED <<latches, stage_wait_cycle>>
      BY <2>4 DEF DecodeStep, Decode, DecodeRetry, DecodeIdle
    <3>2. UNCHANGED <<held, latency>>
      BY <1>2, <2>4 DEF Uncached, cacheVars, DecodeStep, Decode, DecodeRetry,
                        DecodeIdle
    <3> QED
      BY <3>1, <3>2
  <2>5. CASE FetchStep
    BY <1>2, <2>5 DEF Uncached, cacheVars, FetchStep, Fetch, FetchIdle
  <2>6. CASE ShiftStep
    BY <1>2, <2>6 DEF Uncached, cacheVars, ShiftStep, ShiftStage,
                      ShiftNothing, Shiftable
  <2>7. CASE Halt
    BY <1>2, <2>7 DEF Uncached, cacheVars, Halt
  <2> QED
    BY <1>2, <2>1, <2>2, <2>3, <2>4, <2>5, <2>6, <2>7,
       <2>8 DEF Uncached
<1>3. CASE UNCHANGED pcVars
  BY <1>3 DEF pcVars, cacheVars, vars
<1> QED
  BY <1>1, <1>2, <1>3 DEF PCNext

(* An access occupies SMEM for exactly the cycles Cache::Access returned,  *)
(* and SWB is free to take it when they are over.                          *)
THEOREM ExactLatencyCorrect == PCSpec => []ExactLatency
<1>1. PCSpec => []CountTypes
  BY CountTypesInit, CountTypesNext, PTL DEF PCSpec
<1>2. PCInit => ExactLatency
  BY StageRange DEF PCInit, Init, ExactLatency, InFlight, Contains, SMEM
<1> QED
  BY <1>1, <1>2, LatencyNext, PipeShape, PTL DEF PCSpec
=============================================================================
