----------------------------- MODULE CacheConfig ----------------------------
(***************************************************************************)
(* From the command line to the geometry of the data cache: CheckOpt and   *)
(* PipeInit (pipe.cc) and the constructor of Cache (cache.cc) with the     *)
(* helpers exp2p and calc_mask_bits, and the split of an address by        *)
(* is_hit.                                                                 *)
(*                                                                         *)
(* uint032_t has Bits bits here and a kilobyte has KB bytes: the wrap-     *)
(* around of the real 32 bits, at a size that can be enumerated.           *)
(***************************************************************************)
EXTENDS Integers, Bitwise

CONSTANTS
  Bits,          \* width of uint032_t
  KB,            \* bytes per unit of -dcache-size
  Args,          \* the integers given to options (atoi's results)
  MaxOptions,    \* bound on the length of the command line
  DefaultLine    \* DEFAULT_DCACHE_LINE

ASSUME ConfigAssumption == /\ Bits \in Nat \ {0}
                           /\ KB \in Nat \ {0}
                           /\ Args \subseteq Int
                           /\ MaxOptions \in Nat
                           /\ DefaultLine \in Nat

VARIABLES
  phase,         \* "Options", then "Ready", "Aborted" or "Crashed"
  options,       \* options parsed so far
  dcache_enable, dcache_size, dcache_way, dcache_line, dcache_penalty,
  dcache_writeback,
  index_mask, offset_mask_bits   \* the geometry, once Ready

config == <<dcache_enable, dcache_size, dcache_way, dcache_line,
            dcache_penalty, dcache_writeback>>
configVars == <<phase, options, config, index_mask, offset_mask_bits>>

Unsigned(n) == n % 2^Bits

DEFAULT_DCACHE_WRITEBACK == TRUE

(* The constructor of PipeLine.                                            *)
ConfigInit ==
  /\ phase = "Options"
  /\ options = 0
  /\ dcache_enable = FALSE
  /\ dcache_size = KB
  /\ dcache_way = 1
  /\ dcache_line = DefaultLine
  /\ dcache_penalty = 10
  /\ dcache_writeback = DEFAULT_DCACHE_WRITEBACK
  /\ index_mask = 0
  /\ offset_mask_bits = 0

-----------------------------------------------------------------------------
(* CheckOpt: one -dcache-... option and its argument.                      *)
CacheOption ==
  /\ phase = "Options" /\ options < MaxOptions
  /\ options' = options + 1
  /\ dcache_enable' = TRUE
  /\ UNCHANGED <<phase, index_mask, offset_mask_bits>>

OptSize(n) ==
  /\ CacheOption
  /\ dcache_size' = Unsigned(n * KB)
  /\ UNCHANGED <<dcache_way, dcache_line, dcache_penalty, dcache_writeback>>

OptWay(n) ==
  /\ CacheOption
  /\ dcache_way' = Unsigned(n)
  /\ UNCHANGED <<dcache_size, dcache_line, dcache_penalty, dcache_writeback>>

OptLine(n) ==
  /\ CacheOption
  /\ dcache_line' = Unsigned(n)
  /\ UNCHANGED <<dcache_size, dcache_way, dcache_penalty, dcache_writeback>>

OptPenalty(n) ==
  /\ CacheOption
  /\ dcache_penalty' = n
  /\ UNCHANGED <<dcache_size, dcache_way, dcache_line, dcache_writeback>>

OptWriteback(n) ==
  /\ CacheOption
  /\ dcache_writeback' = (n # 0)
  /\ UNCHANGED <<dcache_size, dcache_way, dcache_line, dcache_penalty>>

-----------------------------------------------------------------------------
(***************************************************************************)
(* Faulty variants of definitions that follow, each a slip the code could  *)
(* have; no specification uses them.  A property that cannot fail when one *)
(* takes the place of its model would say nothing about the code.          *)
(***************************************************************************)
(* Faulty variant: zero passes, as it does in the test n & (n-1) == 0.     *)
exp2pOrZero(number) == number = 0 \/ \E i \in 0 .. Bits - 1 : number = 2^i

(* Faulty variant: the width is that of the line, not of its mask.         *)
calc_line_bits(mask) ==
  IF \E i \in 0 .. Bits - 1 : mask = 2^i - 1
  THEN (CHOOSE i \in 0 .. Bits - 1 : mask = 2^i - 1) + 1
  ELSE Bits

-----------------------------------------------------------------------------
(* exp2p: number is 1 << i for some i below the width.                     *)
exp2p(number) == \E i \in 0 .. Bits - 1 : number = 2^i

(* calc_mask_bits: how many ones have to be shifted in to get mask.        *)
calc_mask_bits(mask) ==
  IF \E i \in 0 .. Bits - 1 : mask = 2^i - 1
  THEN CHOOSE i \in 0 .. Bits - 1 : mask = 2^i - 1
  ELSE Bits

LineTimesWay == Unsigned(dcache_line * dcache_way)

(* The checks of the constructor, up to its first division by a product.   *)
Rejected ==
  \/ ~ exp2p(dcache_size) \/ ~ exp2p(dcache_way) \/ ~ exp2p(dcache_line)
  \/ dcache_penalty < 1
  \/ dcache_line # 0 /\ dcache_size % dcache_line # 0

DividesByZero == dcache_line = 0 \/ LineTimesWay = 0

(* The constructor of Cache, which PipeInit calls with or without options. *)
Construct ==
  /\ phase = "Options"
  /\ UNCHANGED <<options, config>>
  /\ \/ /\ Rejected
        /\ phase' = "Aborted"
        /\ UNCHANGED <<index_mask, offset_mask_bits>>
     \/ /\ ~ Rejected /\ DividesByZero
        /\ phase' = "Crashed"
        /\ UNCHANGED <<index_mask, offset_mask_bits>>
     \/ /\ ~ Rejected /\ ~ DividesByZero
        /\ dcache_size % LineTimesWay # 0
        /\ phase' = "Aborted"
        /\ UNCHANGED <<index_mask, offset_mask_bits>>
     \/ /\ ~ Rejected /\ ~ DividesByZero
        /\ dcache_size % LineTimesWay = 0
        /\ phase' = "Ready"
        /\ offset_mask_bits' = calc_mask_bits(dcache_line - 1)
        /\ index_mask' =
             Unsigned(((dcache_size \div dcache_line) \div dcache_way - 1)
                        * 2^(calc_mask_bits(dcache_line - 1)))

ConfigNext ==
  \/ \E n \in Args : OptSize(n) \/ OptWay(n) \/ OptLine(n) \/ OptPenalty(n)
                       \/ OptWriteback(n)
  \/ Construct

ConfigSpec == ConfigInit /\ [][ConfigNext]_configVars
-----------------------------------------------------------------------------
(* is_hit: the tag and the index of an address.                            *)
TagOf(address) == address - (address & index_mask)
                          - (address & (dcache_line - 1))
IndexOf(address) == (address & index_mask) \div 2^offset_mask_bits

Address == 0 .. 2^(Bits + 1) - 1

(***************************************************************************)
(* Whatever options got through, the masks cut an address the way the      *)
(* module Cache assumes: the index is the block number modulo the number   *)
(* of sets, two addresses agree in tag and index exactly when they lie in  *)
(* the same line-sized block, and the sets fill the configured size.       *)
(***************************************************************************)
NumberOfSets == (dcache_size \div dcache_line) \div dcache_way
BlockNo(address) == address \div dcache_line

Geometry ==
  phase = "Ready" =>
    LET place == [a \in Address |-> <<TagOf(a), IndexOf(a)>>]
    IN /\ NumberOfSets * dcache_way * dcache_line = dcache_size
       /\ \A a \in Address : place[a][2] = BlockNo(a) % NumberOfSets
       /\ \A a, b \in Address : place[a] = place[b] <=> BlockNo(a) = BlockNo(b)

(***************************************************************************)
(* The constructor divides by zero (cache.cc:64, 68) in one case only:     *)
(* when line * way wraps around to 0.  The order of its checks rules out   *)
(* the others.                                                             *)
(***************************************************************************)
CrashOnlyOnWrap ==
  phase = "Crashed" => dcache_line * dcache_way >= 2^Bits
=============================================================================
