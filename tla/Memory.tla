-------------------------------- MODULE Memory ------------------------------
(***************************************************************************)
(* Loads and stores of the functional CPU without coprocessor 0 (mips.cc), *)
(* the memory controller in through mode with the memory map (memory.cc,   *)
(* board.cc), the main memory it leads to, and how siminit fills it: the   *)
(* raw files of the machine setting first, then the sections of the        *)
(* program (simloader.cc), byte by byte through the controller.            *)
(*                                                                         *)
(* A byte has Radix values, a word is a number below Radix^4; a shift is a *)
(* division or a multiplication, a mask a remainder.  An instruction is    *)
(* one action: in through mode its answer is there when enqueue returns.   *)
(* The other devices of the map are in Interrupt; the ring of requests is  *)
(* in MultiCycle.                                                          *)
(***************************************************************************)
EXTENDS Integers, Sequences

CONSTANTS
  Radix,      \* values of a byte
  PAGE_SIZE,
  Map,        \* the memory map: a sequence of [addr, size], all MAIN_MEMORY
  Raw,        \* the bytes of the raw files: a sequence of [addr, data]
  Sections,   \* of the program: a sequence of [type, alloc, addr, data]
  VAddr,      \* the addresses the program uses
  Word0,      \* what its register starts with
  MaxStores   \* bound on stores

ASSUME MemoryAssumption ==
  /\ Radix \in Nat /\ Radix >= 2 /\ Radix % 2 = 0
  /\ PAGE_SIZE \in Nat \ {0} /\ PAGE_SIZE % 4 = 0
  /\ Map \in Seq([addr : Nat, size : Nat \ {0}])
  /\ \A n \in DOMAIN Map : Map[n].addr % 4 = 0 /\ Map[n].size % 4 = 0
  /\ Raw \in Seq([addr : Nat, data : 0 .. Radix - 1])
  /\ Sections \in Seq([type : Nat, alloc : BOOLEAN, addr : Nat,
                       data : Seq(0 .. Radix - 1)])
  /\ VAddr \subseteq Nat
  /\ Word0 \in 0 .. Radix ^ 4 - 1
  /\ MaxStores \in Nat

(* Arithmetic, for the proofs: the provers know nothing of powers.         *)
ASSUME RadixAssumption ==
  /\ Radix ^ 0 = 1 /\ Radix ^ 1 = Radix /\ Radix ^ 2 = Radix * Radix
  /\ Radix ^ 3 = Radix * (Radix * Radix)
  /\ Radix ^ 4 = Radix * (Radix * (Radix * Radix))

Size(n) == Radix ^ n          \* values of n bytes
NULL == <<>>

VARIABLES
  pagetable,  \* per entry of the map, per page: its words, or NULL
  loaded,     \* bytes siminit has written so far
  running,    \* CPU_START
  r,          \* the register the instructions name
  stores,     \* executed so far
  did         \* history: what was done last, [op, addr, data, turn]

memVars == <<pagetable, loaded, running, r, stores, did>>

(* The step names what it does: a byte of the image, or an instruction and *)
(* its address.  The turn tells it from one more of the same.  No step     *)
(* depends on it.                                                          *)
Record(op, addr, data) ==
  did' = [op |-> op, addr |-> addr, data |-> data, turn |-> 1 - did.turn]

npage(n) == (Map[n].size + PAGE_SIZE - 1) \div PAGE_SIZE

(***************************************************************************)
(* The bytes of the sections that occupy memory, in the order of the file  *)
(* (loadelf32).  The type of a section is tested with "& SHT_NOBITS",      *)
(* which is 8: bit 3 of the type.                                          *)
(***************************************************************************)
SHT_PROGBITS == 1
SHT_NOBITS == 8
SHT_INIT_ARRAY == 14

(***************************************************************************)
(* Faulty variants of definitions that follow, each a slip the code could  *)
(* have; no specification uses them.  A property that cannot fail when one *)
(* takes the place of its model would say nothing about the code.          *)
(***************************************************************************)
(* Faulty variant: sections without contents keep what the file has there. *)
IsNoBitsNever(type) == FALSE

(* Faulty variants: the lower bit of the address takes the place of the    *)
(* higher one, so that both halves of a word are the low one; SWR shifts   *)
(* the register in more than 32 bits.                                      *)
Lane2LowBit(addr) == addr % 2

StoredRightWide(word, vaddr) ==
  r * Size(vaddr % 4) + (word % Size(vaddr % 4))
-----------------------------------------------------------------------------
IsNoBits(type) == (type \div SHT_NOBITS) % 2 = 1

SectionBytes(s) ==
  [j \in 1 .. Len(s.data) |->
     [addr |-> s.addr + j - 1,
      data |-> IF IsNoBits(s.type) THEN 0 ELSE s.data[j]]]

memtab ==
  LET taken[i \in 0 .. Len(Sections)] ==
        IF i = 0 THEN <<>>
        ELSE taken[i - 1] \o (IF Sections[i].alloc THEN SectionBytes(Sections[i])
                                                   ELSE <<>>)
  IN taken[Len(Sections)]

(* What siminit writes: setinitialdata runs before the program is written. *)
Image == Raw \o memtab

Init ==
  /\ pagetable = [n \in DOMAIN Map |-> [p \in 0 .. npage(n) - 1 |-> NULL]]
  /\ loaded = 0
  /\ running = FALSE
  /\ r = Word0
  /\ stores = 0
  /\ did = [op |-> "none", addr |-> 0, data |-> 0, turn |-> 0]
-----------------------------------------------------------------------------
(***************************************************************************)
(* MainMemory: pages of words, each made when it is first read or written. *)
(* An access of a word ignores the two lowest bits of its address.         *)
(***************************************************************************)
newpage == [w \in 0 .. PAGE_SIZE \div 4 - 1 |-> 0]

Page(n, addr) ==
  LET page == pagetable[n][addr \div PAGE_SIZE]
  IN IF page = NULL THEN newpage ELSE page

WordOf(addr) == (addr % PAGE_SIZE) \div 4

read4b(n, addr) == Page(n, addr)[WordOf(addr)]

(* The memory after page addr of device n has been made, and word addr     *)
(* written.                                                                *)
Touched(n, addr) ==
  [pagetable EXCEPT ![n][addr \div PAGE_SIZE] = Page(n, addr)]

write4b(n, addr, word) ==
  [Touched(n, addr) EXCEPT ![n][addr \div PAGE_SIZE][WordOf(addr)] = word]

(* The bytes of a word that an access of one or two bytes means.           *)
Lane(addr) == addr % 4
Lane2(addr) == (addr % 4) - (addr % 2)

Extract(word, lane, n) == (word \div Size(lane)) % Size(n)
Insert(word, lane, n, data) ==
  word + (data - Extract(word, lane, n)) * Size(lane)

read1b(n, addr) == Extract(read4b(n, addr), Lane(addr), 1)
read2b(n, addr) == Extract(read4b(n, addr), Lane2(addr), 2)
write1b(n, addr, data) ==
  write4b(n, addr, Insert(read4b(n, addr), Lane(addr), 1, data))
write2b(n, addr, data) ==
  write4b(n, addr, Insert(read4b(n, addr), Lane2(addr), 2, data))

(***************************************************************************)
(* MemoryController::step: the first entry of the map that has the address *)
(* answers; without one the request fails (MCI_FAILURE).                   *)
(***************************************************************************)
Has(n, addr) == Map[n].addr <= addr /\ addr - Map[n].addr < Map[n].size

Address ==
  UNION {Map[n].addr .. Map[n].addr + Map[n].size - 1 : n \in DOMAIN Map}

Device == [addr \in Address |->
             CHOOSE n \in DOMAIN Map :
               Has(n, addr) /\ \A k \in 1 .. n - 1 : ~ Has(k, addr)]

Offset(addr) == addr - Map[Device[addr]].addr

(* Bytes of the data that a request carries, or of the answer.             *)
Read(addr, n) ==
  CASE n = 1 -> read1b(Device[addr], Offset(addr))
    [] n = 2 -> read2b(Device[addr], Offset(addr))
    [] n = 4 -> read4b(Device[addr], Offset(addr))

Written(addr, n, data) ==
  CASE n = 1 -> write1b(Device[addr], Offset(addr), data)
    [] n = 2 -> write2b(Device[addr], Offset(addr), data)
    [] n = 4 -> write4b(Device[addr], Offset(addr), data)
-----------------------------------------------------------------------------
(***************************************************************************)
(* siminit: a byte that no memory answers for is dropped, and the next one *)
(* is tried.                                                               *)
(***************************************************************************)
LoadByte ==
  LET byte == Image[loaded + 1]
  IN /\ ~ running /\ loaded < Len(Image)
     /\ loaded' = loaded + 1
     /\ pagetable' = IF byte.addr \in Address
                     THEN Written(byte.addr, 1, byte.data) ELSE pagetable
     /\ Record("byte", byte.addr, byte.data)
     /\ UNCHANGED <<running, r, stores>>

Start ==
  /\ ~ running /\ loaded = Len(Image)
  /\ running' = TRUE
  /\ Record("start", 0, 0)
  /\ UNCHANGED <<pagetable, loaded, r, stores>>
-----------------------------------------------------------------------------
(***************************************************************************)
(* The instructions.  Without coprocessor 0 an address is what it is, an   *)
(* unaligned one included, and a failed request has no effect: exception   *)
(* returns, and the register is written with what it had.                  *)
(***************************************************************************)
exts32(data, n) ==
  IF 2 * data >= Size(n) THEN data + Size(4) - Size(n) ELSE data

LoadOps == {"LB", "LBU", "LH", "LHU", "LW"}
StoreOps == {"SB", "SH", "SW", "SC"}
MemOps == LoadOps \cup StoreOps \cup {"LWL", "LWR", "SWL", "SWR"}
Bytes(inst) == CASE inst \in {"LB", "LBU", "SB"} -> 1
                 [] inst \in {"LH", "LHU", "SH"} -> 2
                 [] OTHER -> 4

Loads(inst, vaddr) ==
  LET data == Read(vaddr, Bytes(inst))
  IN /\ r' = IF inst \in {"LB", "LH"} THEN exts32(data, Bytes(inst)) ELSE data
     /\ pagetable' = Touched(Device[vaddr], Offset(vaddr))
     /\ UNCHANGED stores

Stores(inst, vaddr) ==
  /\ stores < MaxStores
  /\ stores' = stores + 1
  /\ pagetable' = Written(vaddr, Bytes(inst), r % Size(Bytes(inst)))
  /\ r' = IF inst = "SC" THEN 1 ELSE r

(* LWR and LWL: the register keeps the bytes that the word does not give.  *)
LoadedRight(word, vaddr) ==
  LET k == vaddr % 4
  IN (word \div Size(k)) + (r \div Size(4 - k)) * Size(4 - k)

LoadedLeft(word, vaddr) ==
  LET k == 3 - (vaddr % 4)
  IN ((word * Size(k)) % Size(4)) + (r % Size(k))

LoadsUnaligned(inst, vaddr) ==
  LET word == Read(vaddr - (vaddr % 4), 4)
  IN /\ r' = IF inst = "LWR" THEN LoadedRight(word, vaddr)
                             ELSE LoadedLeft(word, vaddr)
     /\ pagetable' = Touched(Device[vaddr], Offset(vaddr))
     /\ UNCHANGED stores

(* SWR and SWL read the word first and write all of it back.               *)
StoredRight(word, vaddr) ==
  LET k == vaddr % 4
  IN ((r * Size(k)) % Size(4)) + (word % Size(k))

StoredLeft(word, vaddr) ==
  LET k == 3 - (vaddr % 4)
  IN (word \div Size(4 - k)) * Size(4 - k) + (r \div Size(k))

StoresUnaligned(inst, vaddr) ==
  LET aligned == vaddr - (vaddr % 4)
      word == Read(aligned, 4)
  IN /\ stores < MaxStores
     /\ stores' = stores + 1
     /\ pagetable' = Written(aligned, 4,
                             IF inst = "SWR" THEN StoredRight(word, vaddr)
                                             ELSE StoredLeft(word, vaddr))
     /\ UNCHANGED r

Succeeds(inst, vaddr) ==
  \/ inst \in LoadOps /\ Loads(inst, vaddr)
  \/ inst \in StoreOps /\ Stores(inst, vaddr)
  \/ inst \in {"LWL", "LWR"} /\ LoadsUnaligned(inst, vaddr)
  \/ inst \in {"SWL", "SWR"} /\ StoresUnaligned(inst, vaddr)

(* A request that failed ends the instruction, SC before it sets its       *)
(* register.                                                               *)
Fails == UNCHANGED <<pagetable, r, stores>>

LoadStore ==
  \E inst \in MemOps, vaddr \in VAddr :
    /\ running
    /\ IF vaddr \in Address THEN Succeeds(inst, vaddr) ELSE Fails
    /\ Record(inst, vaddr, 0)
    /\ UNCHANGED <<loaded, running>>

Next == LoadByte \/ Start \/ LoadStore

Spec == Init /\ [][Next]_memVars
-----------------------------------------------------------------------------
Word == 0 .. Size(4) - 1

MemTypeOK ==
  /\ \A n \in DOMAIN Map : \A p \in 0 .. npage(n) - 1 :
       \/ pagetable[n][p] = NULL
       \/ pagetable[n][p] \in [0 .. PAGE_SIZE \div 4 - 1 -> Word]
  /\ loaded \in 0 .. Len(Image)
  /\ running \in BOOLEAN
  /\ r \in Word
  /\ stores \in 0 .. MaxStores
  /\ did \in [op : MemOps \cup {"none", "byte", "start"}, addr : Nat,
              data : 0 .. Radix - 1, turn : {0, 1}]

(* The byte at a, as the program would see it.                             *)
ByteAt(a) == Read(a, 1)

(***************************************************************************)
(* When the program starts, every byte of its sections is where the linker *)
(* put it: those of a section with contents as they are in the file, those *)
(* of a section without (NOBITS) zero; a section later in the file wins    *)
(* over an earlier one, and all of them over the raw files; what nobody    *)
(* wrote is zero.                                                          *)
(***************************************************************************)
Wants(s, a) == s.alloc /\ s.addr <= a /\ a < s.addr + Len(s.data)

Wanted(a) ==
  LET sections == {i \in DOMAIN Sections : Wants(Sections[i], a)}
      raws == {i \in DOMAIN Raw : Raw[i].addr = a}
      last == CHOOSE i \in sections : \A j \in sections : i >= j
      lastRaw == CHOOSE i \in raws : \A j \in raws : i >= j
  IN IF sections # {}
     THEN IF Sections[last].type = SHT_NOBITS THEN 0
          ELSE Sections[last].data[a - Sections[last].addr + 1]
     ELSE IF raws # {} THEN Raw[lastRaw].data ELSE 0

ImageLoaded ==
  running /\ stores = 0 => \A a \in Address : ByteAt(a) = Wanted(a)
=============================================================================
