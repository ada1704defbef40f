------------------------------ MODULE PipeCache -----------------------------
(***************************************************************************)
(* The pipeline with the data cache switched on: Mem takes the latency of  *)
(* a load or store from Cache::Access (pipe.cc:398-402).  An instruction   *)
(* carries the block of its address, which Fetch copies into the latch     *)
(* (paddr), in the field block.                                            *)
(*                                                                         *)
(* Two history variables observe the pipeline and constrain nothing:       *)
(* retired counts the loads and stores that have left SWB, held the cycles *)
(* Mem has spent on the one in SMEM.                                       *)
(***************************************************************************)
EXTENDS PipeLine, FiniteSets

CONSTANTS Geometry, penalty, Block, MaxAccess

(* The cache is on, and Mem may be told the latencies the cache returns.   *)
ASSUME LatencyAssumption ==
  /\ dcache_enable
  /\ penalty \in Nat \ {0}
  /\ {1, penalty, 2 * penalty} \subseteq Latency

VARIABLES
  geometry, state, tagarray, lru_count, remained_lines, block_hist, access_count,
  hit_count, compulsory_count, capacity_count, conflict_count, latency,
  retired, held

DCache == INSTANCE Cache

cacheVars == <<geometry, state, tagarray, lru_count, remained_lines, block_hist,
               access_count, hit_count, compulsory_count, capacity_count,
               conflict_count, latency>>
pcVars == <<vars, cacheVars, retired, held>>

RwTypeOf(inst) == IF IsLoad(inst) THEN "CACHE_READ" ELSE "CACHE_WRITE"

PCInit == Init /\ DCache!CacheInit /\ retired = 0 /\ held = 0

(* Mem with a load or store that has just arrived.                         *)
CachedAccess ==
  /\ step = "Mem"
  /\ stage_state[SMEM] = "IDLE" /\ Contains(SMEM)
  /\ IsLoadStore(latches[SMEM])
  /\ DCache!Access(latches[SMEM].block, RwTypeOf(latches[SMEM]))
  /\ MemAccess(latency')
  /\ held' = 1
  /\ UNCHANGED retired

(* Every other step leaves the cache alone.                                *)
Uncached ==
  /\ \/ WriteBackStep \/ MemPass \/ MemBusy \/ MemIdle \/ ExecStep
     \/ DecodeStep \/ FetchStep \/ ShiftStep \/ Halt
  /\ held' = IF step = "Mem" /\ stage_state[SMEM] = "BUSY" THEN held + 1
                                                           ELSE held
  /\ retired' = IF Contains(SWB) /\ latches'[SWB] = NoInst
                     /\ IsLoadStore(latches[SWB])
                THEN retired + 1 ELSE retired
  /\ UNCHANGED cacheVars

PCNext == CachedAccess \/ Uncached

PCSpec == PCInit /\ [][PCNext]_pcVars
-----------------------------------------------------------------------------
InFlight(s) == Contains(s) /\ IsLoadStore(latches[s])

(***************************************************************************)
(* A write-back cache sees every load and store once, when it starts in    *)
(* SMEM, however long it is held there: the accesses are those retired and *)
(* those started and not yet retired, so the statistics are those of the   *)
(* program that ran.                                                       *)
(***************************************************************************)
ProbeOnce ==
  DCache!writeback =>
    access_count = retired + (IF InFlight(SWB) THEN 1 ELSE 0)
                     + (IF InFlight(SMEM) /\ stage_state[SMEM] # "IDLE"
                        THEN 1 ELSE 0)

(***************************************************************************)
(* An access occupies SMEM for exactly the cycles Access returned: one     *)
(* that still has to wait has been held for less, and one that is done for *)
(* no more and no less, since SWB is always free to take it.               *)
(***************************************************************************)
ExactLatency ==
  InFlight(SMEM) =>
    /\ stage_state[SMEM] = "BUSY" => held + stage_wait_cycle = latency
                                       /\ stage_wait_cycle > 0
    /\ stage_state[SMEM] = "STALL" => held = latency

(***************************************************************************)
(* The composition is the pipeline of PipeLine with the latencies of a     *)
(* hit, of a miss and of a miss that writes back: what is proved of        *)
(* PipeLine for every Latency holds of it.                                 *)
(***************************************************************************)
IsPipeLine == Spec
=============================================================================
