# SimPipe in TLA+

SimPipe 0.1.4 (`src/work/SimPipe-0.1.4`) is a cycle-level model of a five-stage
MIPS pipeline with an optional data cache. It drives SimMips 0.5
(`src/work/SimPipe-0.1.4/SimMips`), a functional simulator of a MIPS32
computer: processor, coprocessor 0, memory controller, interrupt controller,
serial port. This directory holds a TLA+ model of both, the TLC runs that check
it on small instances, and proofs of what matters most for every instance.

Paths below are relative to `src/work/SimPipe-0.1.4` unless they start with
`src/`.

## Inventory

| Component | Code | State it keeps | Operations | Modelled in |
|---|---|---|---|---|
| Pipeline | `pipe.cc`, `pipe.h` | five latches, five stage states, the wait counter of MEM, the register board (a lock count and four forwarding marks per register) | `StepPipe`: `WriteBack`, `Mem`, `Exec`, `Decode`, `Fetch`, `ShiftStage`; `ExecLoop` | `PipeLine`, `PipeOrder`, `PipeStall`, `PipeReadme` |
| Data cache | `cache.cc`, `cache.h` | per line a state, a tag and an LRU count; free lines, blocks seen, five statistics | `Access` | `Cache`, `CacheLru`, `PipeCache` |
| Options and cache geometry | `pipe.cc` `CheckOpt`, `cache.cc` constructor | six cache parameters, two masks | one action per option, `Construct` | `CacheConfig` |
| Instruction decoder | `SimMips/mipsinst.cc` | the attribute word of each instruction | `decode` | `MipsInst` |
| Functional CPU | `SimMips/mips.cc` | phase, PC, delay slot, pending exception, operands, architectural registers | `step_funct`, `step_multi` and the seven phases | control in `MultiCycle`, `CpuRestart`; what instructions compute in `Execute`; loads and stores of bytes in `Memory` |
| Main memory and controller | `SimMips/memory.cc` | pages of words, made on demand; the memory map; ring of two requests, mode | `read`/`write` of 1, 2, 4 bytes, `setpage`, `enqueue`, `step` | contents in `Memory`, requests in `MultiCycle` |
| Coprocessor 0 | `SimMips/cp0.cc` | control registers, TLB, divider | `step`, register access, TLB operations, `getphaddr`, `doexception`, `checkinterrupt` | `Cp0`, driven by `TlbKernel` and `TickKernel`; the CPU's side of an exception in `MultiCycle`, `CAUSE.IP` in `Interrupt` |
| Interrupt controller, serial port, ISA bus | `SimMips/device.cc` | IRR, IMR, ISR of two controllers; serial registers, current character | `recalcirq`, EOI, masks, ports, poll | `Interrupt` |
| Board and chip | `SimMips/board.cc` | memory map, run state | `exec`, `loadsetupfile`, `siminit`, `step_funct`, `step_multi` | the cycle in `MultiCycle`; the map and the writes of the start-up in `Memory` |
| ELF loader | `SimMips/simloader.cc` | segments, symbols | `loadfile` | which sections are written, and with what, in `Memory` |
| MieruPC I/O | `SimMips/device.cc` | LCD cursor and command buffer | register writes | no: terminal output |
| Entry points | `main.cc`, `SimMips/main.cc` | - | build the objects, call `exec` | no |
| `src/work/hello.c`, `report01.c` | programs to run on the simulator | | | no |
| `src/carch` | third-party cross toolchain | | | no |

### How they interact

`ExecLoop` (`pipe.cc:160`) is the outer loop of SimPipe: one `StepPipe` per
simulated cycle. A cycle runs the stages from write-back to fetch and then
shifts the latches. `Fetch` calls `Chip::step_funct`, which executes one whole
instruction in the functional CPU, and copies the decoded instruction and its
physical address into the first latch; the pipeline never feeds anything back
to the CPU, it only decides how many cycles pass. `Mem` calls `Cache::Access`
for the number of cycles an access takes. The stages talk to each other through
the latches, the stage states and the register board (`RegBoard`): `Decode`
locks the registers an instruction will write, `Exec` and `Mem` move forwarding
marks along with it, `WriteBack` clears both.

Inside SimMips a cycle of the chip steps the CPU, then coprocessor 0, then the
devices and, with `-m`, the memory controller (`board.cc:585-607`). The CPU asks
the memory controller through a ring of requests and reads the answers out of
the ring one phase later without looking whether they are there. Devices reach
the CPU over one bit of CAUSE: serial port to interrupt controller to
coprocessor 0, each level recomputed by a `recalcirq`. The CPU looks at the bit
at the start of an instruction, or with `-m` before every phase.

### What is hard

* *Order inside a cycle.* The stage handlers share the register board; which of
  them has run decides what `Decode` sees. (`PipeLine` makes each handler an
  action, so that states between them are visible.)
* *Several writers of a register in flight*, sharing one set of marks.
* *Accesses of several cycles* in SMEM while the rest of the pipeline fills up
  behind them.
* *Interrupts between two phases* of an instruction that may already have
  changed memory, sit in a delay slot, or be a WAIT.
* *Requests, masks, acknowledgements and polls* of the interrupt chain in an
  order the program chooses.
* *Boundary arguments* of the cache options, and of the instructions, in 32-bit
  arithmetic.
* *Exceptions inside exceptions*: a refill handler whose own load misses, while
  interrupts come at any instruction and entries of the TLB are being replaced.
* *Equality comparison of a free-running counter* (COUNT, COMPARE) that the
  program writes at its own pace.
* *Two tables about one instruction*: the attribute word, from which the
  pipeline derives dependences, and `execute`, which produces the values.
* *Bytes inside words*: partial and unaligned stores that read, shift, mask and
  write back, over a memory map whose entries may overlap.

Every such place, with its line, is a hazard in `PROJECT.json`, next to the
properties that watch it.

## The modules

| Module | What it is |
|---|---|
| `MipsInst` | attribute word, sources and destinations of the instructions (`mipsinst.cc`, `pipe.cc:296-308`, `:485-502`) |
| `PipeLine` | the pipeline: one action per way through each stage handler |
| `InOrderPipe` | abstract: a bounded FIFO window of instructions that keeps retiring |
| `PipeOrder` | refinement mapping `PipeLine` => `InOrderPipe` |
| `PipeStall` | `PipeLine` plus history variables that count the stalls of an instruction |
| `PipeReadme` | the two rules of `README.txt` that the code departs from |
| `Cache` | the cache's line arrays and statistics, `Access` |
| `LruCache` | abstract: per set, the resident blocks in order of use |
| `CacheLru` | refinement mapping `Cache` => `LruCache` |
| `PipeCache` | composition of `PipeLine` and `Cache`; itself a refinement of `PipeLine` |
| `CacheConfig` | command-line options, the constructor's checks, masks, address split, in `Bits`-bit arithmetic |
| `Execute` | what each instruction computes, in `XLEN`-bit arithmetic, and the architecture's definition in integers |
| `MultiCycle` | functional CPU, memory controller, handler entry and return; both execution models |
| `RestartCpu` | abstract: the program alone, one instruction at a time |
| `CpuRestart` | history variables and refinement mapping `MultiCycle` => `RestartCpu` |
| `Interrupt` | serial port, two interrupt controllers, the bit of CAUSE, and an arbitrary program |
| `Cp0` | coprocessor 0: TLB, exception registers, COUNT/COMPARE, RANDOM/WIRED, as operators |
| `TlbKernel` | a paging kernel on `Cp0` (external), with nested refills, page faults and interrupts |
| `TickKernel` | a periodic tick made with COUNT and COMPARE (external) |
| `Memory` | loads, stores, the memory map, pages, and how the program gets into memory |
| `FlatMemory` | abstract: one array of bytes, and what each load and store, by its name and address, does to it |
| `MemoryFlat` | refinement mapping `Memory` => `FlatMemory` |
| `PipeLineProofs`, `PipeCacheProofs`, `CacheProofs`, `CpuRestartProofs`, `Cp0Proofs`, `TlbKernelProofs`, `InterruptProofs`, `MemoryProofs` | the theorems about the module of that name; those about `PipeOrder` and `PipeStall` in `PipeLineProofs`, about `MultiCycle` in `CpuRestartProofs`, about `TickKernel` and the wired entry in `Cp0Proofs` |
| `MC...` | values of the constants for TLC |

### How state and actions correspond to the code

**PipeLine.** `latches`, `stage_state`, `stage_wait_cycle` and `board` are the
members of the same names; a latch with `contain == 0` is `NoInst`. (`contain` of
the SFETCH latch is written by `Fetch` and never read; it is not kept.) `step`
is the program counter of `StepPipe`, `stageid` the index of its shift loop.
The actions `WriteBack ... Fetch`, each with its alternatives (`MemAccess`,
`MemPass`, `MemBusy`, `MemIdle` for `Mem`), are the branches of the handler of
that name. `Halt` is the exit of `ExecLoop`. What `Fetch` gets from the functional simulator is any
element of `Inst`. Left out: the cycle counter, the instruction counter and the
pipe log (`-l`), which nothing reads back.

**Cache.** An address is its block number; `Index` and `Tag` are what the masks
cut out of it (that they do is `Geometry`, in `CacheConfig`). `state` per line
is the set of its flags, `lru_count`, `tagarray`, `remained_lines` and the five
counters are the members of the same names, `block_hist` is the set the code
searches for compulsory misses. `Access` has the four ways through the function:
`Hit`, `WriteAround`, `Fill`, `Replace`. What the constructor fixes (sets, ways,
write policy) is the variable `geometry`, chosen in the initial state.

**CacheConfig.** One action per option, in any order and number up to
`MaxOptions`, then `Construct`, which aborts, divides by zero ("Crashed") or
fixes the masks.

**Execute.** `Outcome` is `regfetch`, `execute` and `writeback` of one
instruction from any contents of the registers; `Rrd`, `Rrt`, `HiLo`, `Cond`,
`Npc` and `Exception` are what `execute` leaves in the members of those names.
The instructions are those of `decode` without loads and stores (`Memory`,
`MultiCycle`), coprocessor instructions (`Cp0`) and SYSCALL.

**Memory.** `pagetable` is the member of `MainMemory`, one per entry of the
map, a page `NULL` until it is read or written. `loaded` counts the bytes that
`siminit` has sent through the controller, first the raw files, then the
sections; each byte is one action (`LoadByte`), `running` ends that. A byte has `Radix`
values, so shifts and masks are divisions and remainders. The controller is in
through mode, as in `step_funct`. `did` is a history variable: every action records
in it which instruction it executes at which address, or which byte `siminit`
writes (`Record`), and flips `turn`, so that no action is a stuttering step.
`FlatMemory` has the same variable and reads from it which access it has to make;
the width and sign come from the name of the instruction, by a definition of its
own (`Width`). A store that is lost, or goes to an entry of the map that another
one hides, to the wrong half of a word or with the wrong width, and a load with the
wrong width or sign, are therefore no steps of `FlatMemory`.

**Cp0.** `MipsCp0` acts only when it is called, so its methods are operators on
`tlb` and `r` (the registers, each a record of its fields), and the modules
that use them say who calls. `TlbKernel` is a kernel written for the
architecture: it boots, wires one entry of large pages for its stack, keeps
linear page tables in mapped memory (so that the refill handler can itself
miss), handles modified and invalid faults, unmaps pages and switches between
two address spaces, and may be interrupted wherever it has not masked
interrupts. `TickKernel` adds a period to the expected time, writes COMPARE,
reads COUNT back and starts over if it was late. Both are external: what they
show is that a program which keeps the architecture's rules gets what the
architecture promises.

**MultiCycle.** `phase` is `Mips::state` with `-m` and the place inside
`step_funct` without it; both are in one state space (`multicycle` is chosen in
`Init`). Every phase is one action, including what `Chip::step_multi` does after
it (`EndOfCycle`). A request is carried out within the cycle that makes it: by
`enqueue` itself without `-m`, by the `MemoryController::step` of the same cycle
with it; this is why no state shows a pending request, and `CpuTypeOK` says so.
`ip` stands for "an interrupt is pending, enabled by IE and unmasked by IM";
`Devices` changes it between two calls of the step function. Faults are
nondeterministic: a fetch may fail to translate, an access may fail to
translate or go to an address no device has. `syscall`, the side effects of MTC0 and
of the TLB instructions, and a CPU without coprocessor 0 (which ignores
exceptions) are left out, and so are device registers whose reading has a side
effect: with `-m`, an interrupted read of one is made twice (`OnceOnly` shows
when).

**Interrupt.** `irr`, `imr`, `isr`, `init_mode`, `ier`, `iir`, `currentchar`
and `counter` are the members of the same names, with a set for each register
of flags; `div` and `int` are the two bits of LCR and MCR that matter. `Recalc`
and `Drive` are the two functions called `recalcirq`; their arguments are the
registers as the caller has left them. `ReadCause`/`WriteCause` are the MFC0 and
MTC0 of a read-modify-write of CAUSE. The other registers (OCW3, divisor,
scratch, FIFO control) influence no interrupt and are left out. Nothing is
connected to the second controller, so its requests stay empty, as in the
program.

## The runs

All runs have `CHECK_DEADLOCK FALSE` where the system may stop: the simulator
leaves its loop (`Halted`, `ERROR`), a bound on accesses or options is reached,
or the constructor has finished.

| Run | Bounds | What it shows |
|---|---|---|
| `pipe_forward` | `GprInst`: six instructions on register 2 (ALU, LW, SC, SW, BEQ, ADDIU); latencies 1 and 3 | types, `StageShape`, `LockCount`, `ForwardMarks`, `IssueRule`; implements `InOrderPipe` with its liveness |
| `stall` | one of two: seven instructions incl. JAL/link register, MULT/MFLO, with forwarding; two-destination instructions (MULT, MADD), HI/LO, link register, without; latency 1 | `ExactStall` with forwarding (without it: by the theorem); with either setting the interlock always lets go (`InOrderLive`) |
| `pipe_cache` | two sets of one line, three blocks, four accesses | one probe per access, latency = time in SMEM, and the composition is a `PipeLine` |
| `cache` | one of two: two sets of two ways, write-back; one set of three lines, write-through; four blocks (three or four in a set), six accesses | true LRU with dirty evictions and with write-arounds; ranks, statistics; no conflict misses without conflicts |
| `words` | one of two: cache options in 5-bit words, eight arguments incl. negative, 0 and powers of two, three options; all instructions on all pairs of 4-bit operands, three choices of register fields, with and without coprocessor 0 | geometry of what is accepted, division by zero only on wrap; `ExecutesRight`: integer arithmetic, and dependences as declared |
| `functional_cpu` | 40 programs of three instructions with a handler, both models | `Restartable`, `OnceOnly`, `Responsive`, `OwnAnswer`, `Served` |
| `interrupts` | two masks, both controllers, two characters, a poll every second cycle | `LineFollows`, `RequestFollows`, `InSequence`, `Delivered` |
| `cp0` | one of two: three TLB entries, one wired, two address spaces over one pair of pages; COUNT in six bits, a period of ten | `Coherent`, `WiredKept`, every chain of exceptions ends (`Served`); no tick is lost (`NextTick`) |
| `memory` | bytes of two values, two overlapping entries of the map, pages of two words, addresses at every offset of a word, two stores | `IsFlat`: every load and store does what its name and address say; `ImageLoaded` |
| `readme_branch` | ALU writers and a branch | **violated**: `BranchRule` |
| `readme_load` | loads and a reader | **violated**: `LoadRule` |
| `constructors` | `memory` with a section of type SHT_INIT_ARRAY | **violated**: `ImageLoaded` |

### Why the bounds are enough

*Registers.* The board treats every register alike except 0, and the link
register, HI and LO, which instructions name implicitly. `{0, 2, 31}` with HI and
LO has one of each kind; an instruction names at most two registers besides,
and what happens to one register does not depend on the marks of another (the
proofs of `PipeLineProofs` are for any `GPR`).
*Latencies* 1 and 3 give the two cases of `Mem` (done at once; busy for more
than one cycle, with the decrement seen at a value that is not its last).
*Instruction sets* hold one representative of each combination of attributes
that the board or the branch test tells apart; any sequence of them can fill
the five latches. *Cache.* Three blocks that share a set of two ways are the
least that evict, and bring an evicted block back; `MaxAccess` leaves room for
filling a set, touching it in another order, evicting and missing again.
*Config.* In 5 bits `line * way` wraps with two arguments of 8, and every shift
boundary is reached. *Execute.* Four bits have the least negative number, whose
negation overflows, two immediate bits their own sign, and every shift amount;
every pair of operands is tried, so nothing is left to the choice of values. *CPU.* Branches depend on whether the register is 0, so a
word modulo 2 suffices; interrupts can come, any number of times, at each of
the phases of each of the three instructions. *Interrupts.* Two characters are one to wait
while another is unread; a period of two polls has a step with and one without
a look. *Coprocessor 0.* One wired entry and two for everything else are the
least with which the entry of a page and the entry of its page table compete, so
that one refill can evict what another needs; two spaces use the same pages, so
that only the ASID tells their entries apart. Every start value of COUNT is
tried, so the wrap-around comes at every distance from COMPARE. *Memory.* What
happens to a byte does not depend on its value except for its sign, so two
values do; unaligned accesses meet every offset, addresses lie in the first
entry, in both, in the second and in none; two stores are one to write and one
that could destroy its neighbours. The view `MCView` leaves out `did`: what a step
does depends on it by `turn` only, which `IsFlat` asks every step to flip, so that
states which differ in `did` alone have the same steps. TLC checks `IsFlat` on every
step it generates, also one that leads to a state it has seen, and with it what
the step itself records.

### Fairness

`WF_vars(StepPipe)`: `ExecLoop` calls `StepPipe` again as long as it does not
leave, and no handler waits for anything outside. `WF_vars(CpuStep)`:
`Board::exec` calls the step function until the CPU stops; a device cannot keep
it from running. `WF_vars(SioStep)`: `Chip::step_funct` and `step_multi` step
every device in every cycle. In `cp0`, `WF` of the whole next-state relation:
the CPU goes on. There an interrupt is not pending again before the program has
executed one instruction (`quiet`); otherwise a kernel has no time left for its
program, whatever the simulator does. Nothing is assumed of the guest program, of the
terminal or of the devices in `MultiCycle`.

## What the checks say about the code

*The interlock.* `LockCount` and `ForwardMarks` hold: no lock or mark is lost,
kept or taken twice, so the assertions at `pipe.cc:470` and `:480` cannot fail.
`IssueRule` says precisely when an instruction leaves `Decode`, and thereby
shows where the code departs from `README.txt`: the marks of the older of two
writers in flight are hidden from a reader only if the younger is a load, the
older is an ALU instruction and the reader is no branch (definition `Unhidden`).
The two shortest consequences are the violated runs:

* `readme_branch`: `addiu $2; addiu $2; beq $2` - the branch leaves `Decode`
  without the stall of `README.txt:55-57`, on the mark of the first `addiu`
  (`pipe.cc:242`).
* `readme_load`: `lw $2; lw $2; addu _,$2` - the reader leaves without the
  load-use stall of `README.txt:65-67` (`pipe.cc:248`).

Only the cycle count is affected; values come from the functional simulator.

Noted while reading, outside the findings: branch-likely instructions are not
branches for the pipeline (`pipe.cc:296` tests `BRANCH` only), and the default
write policy is write-back (`pipe.h:77`) where `README.txt:38` says
write-through. The model follows the code in both.
`ExecLoop` never looks at `maxcycle`, so the option `-e` of `board.cc:87` does
not stop SimPipe. `board.cc:345` rejects an unknown register name by
`(!regnum) && (regnum >= NREG + 1)`, which is never true. A WAIT without
coprocessor 0 sleeps for ever. An unaligned store raises the exception of loads
(ADEL). A load that fails without coprocessor 0 leaves its register alone.

*The cache* implements true LRU in both policies, and its miss classes add up.
Its constructor divides by zero when `line * way` wraps to 0, and never
otherwise.

*The functional CPU* makes every instruction of the program appear once, in
order, whatever interrupts and faults come between; with `-m` an interrupted
store may reach memory before it is executed again (`EarlyStore` of
`RestartCpu`), which memory does not notice.

*Instructions* compute what the architecture says, and depend on and write only
the registers of their attribute words, with three departures that the
properties leave open: MADD and MSUB multiply without sign (`mips.cc:471-508`,
the same lines as MADDU and MSUBU), so HI is wrong when an operand is negative;
SYSCALL without coprocessor 0 reads and writes `$v0` and reads or writes the
argument registers although its attribute word names none, so the pipeline sees
no hazard there; a jump takes the upper bits of its own address, not of its
delay slot.

*Coprocessor 0* keeps what it translates in agreement with the page tables.
Two conditions on the guest are part of this. It must write every
entry of the TLB at boot: they start as zeros, which match page 0 of address
space 0 (`TlbKernel` does so). And it must mask interrupts between
MTC0 ENTRYHI and TLBWI/TLBWR: `cp0.cc:225` holds for every exception code, so
an interrupt overwrites BADVADDR, CONTEXT and ENTRYHI too. COUNT and COMPARE
meet by equality only, so a handler must read COUNT back after writing COMPARE;
one that does loses no tick.

*Memory* is flat: every load and store means the bytes that its name and address
say. The program is where the linker put it, except for
sections of the types 9 to 15: `simloader.cc:154` tests the section type with
`& SHT_NOBITS`, a value and not a flag, so that SHT_INIT_ARRAY and
SHT_FINI_ARRAY are loaded as zeros (run `constructors`).

*The interrupt chain* loses no character. An EOI issued while the cause is
still pending drops the request; the receiver gets it back at the next poll
(`Delivered`), the transmitter only when the guest next touches the port or a
character comes in.

## What is proved

The theorems hold for every value of the constants that satisfies the named
assumptions. TLC evaluates the assumptions in the runs.

| Assumption | What it says, and why |
|---|---|
| `RegAssumption`, `InstAssumption`, `OptionAssumption` | any set of general registers that has 0 and 31, any instruction alphabet over the decoder's attribute words, any latencies |
| `CacheAssumption` | any geometry that the constructor accepts, blocks are numbers |
| `LatencyAssumption` | the cache is on, and `PipeLine` has the three latencies a cache can return |
| `ProgramAssumption` | programs are of the modelled instructions and lie beside the data |
| `HandlerAssumption` | the handler gives back the register and the memory, and program and handler do not jump into each other: without that no hardware could make an interrupt invisible |
| `InterruptAssumption` | any poll period, masks and number of characters |
| `Cp0Assumption`, `TickAssumption` | any number of TLB entries, any range of COUNT; the handler has time for its work and can tell late from early |
| `KernelAssumption` | the kernel's stack is two pages of four times the smallest size, aligned to their block, in the mapped kernel space; more than one TLB entry; programs access addresses below the kernel's only, and few enough pages for a page table of one page; the unmapped part of the kernel's space has a pair of pages for each entry, to flush the TLB with |
| `MemoryAssumption` | any even number of values of a byte; pages, and the entries of the map, begin and end at a word: the code does not check this of a machine setting file, those in `SimMips/test` do it; raw files and sections are of bytes |
| `PowerAssumption`, `RadixAssumption` | powers of two are positive and double from 1 on, and what the first powers of the radix are; arithmetic that the provers do not know |

`PipeLineProofs`. `TypeCorrect`, `ShapeCorrect`, `LocksCorrect` and
`MarksCorrect` rest on one inductive invariant, the conjunction of `TypeOK`,
`StageShape`, `LockCount` and `ForwardMarks`. None is inductive alone. A
lock that `WriteBack` releases is positive only because `LockCount` names its
holder; what `Exec` marks is right only because `StageShape` says the stage
before has not run yet; that the shift keeps the marks needs that it moves an
instruction only into an empty latch, which is `StageShape` again. The
lemma `WordShape` (no attribute word names two general registers to write)
lets a set of destinations stand for the code's chain of `if`s. `IssueCorrect`
follows without induction: in a state that satisfies the invariant, `Decode`'s
test equals the rule.

`OrderCorrect` (about `PipeOrder`): every step maps to entering, retiring,
stopping or a stutter of the window; the case that needs the invariant is the
shift, which must find the next latch empty.

`ExactStallCorrect` (about `PipeStall`): with the cache off no access takes longer
than its cycle, so at the second attempt of an instruction SEXEC is empty and SMEM
holds what SEXEC held at the first, and at the third both are empty (`StallInv`).
At the first attempt a source is available exactly when it calls for no stall
(`DelayNow`); an instruction that fails has a second stall exactly when the writer
in SEXEC will not have announced its result in SMEM either (`FirstStall`,
`SecondAttempt`). The case that decides it is a branch with an unhidden mark. It may leave
now and could not a cycle later, so nothing else may hold it: by the attribute
table the two writers in flight write this one general register, and a branch
reads no other kind (`UnhiddenReady`).

`PipeCacheProofs`. `IsPipeLineCorrect`: a step of the composition is a step of
`PipeLine`, with a latency that `Access` returned (`AccessFacts`), so
all that is proved of the pipeline holds with the cache. `ProbeOnceCorrect` and
`ExactLatencyCorrect` then borrow `StageShape` through that refinement: the
count of accesses changes when an access starts, the stage state tells started
ones from others, and the shift keeps the sum. `ExactLatency` is inductive with
the types of the counters, because SWB is free whenever SMEM is done.

`CacheProofs`. The invariant `CacheInv` joins types, `NoDuplicate`, `LruRanks`,
`Accounting` and `KeptWhileRoom`. The lines of a set are an interval of `way`
numbers, and intervals of different sets are disjoint (`LinesOfSet`,
`SetsDisjoint`); a block is its tag and its index. `RanksKept` is the heart: if
the counts of a set are ranks and the line used is a filled line, the first free
one, or, in a full set, the one with count 0, then `update_lru_count` leaves
ranks. `KeptWhileRoom` is the strengthening that `FullyAssociative` needs: as
long as one line is free nothing has been evicted. `OneVictim` is a consequence
by counting: `way` distinct numbers below `way` cannot all be positive, so a full
set has one line to give up and `get_write_back_line` never falls back on its
default.

`TrueLruCorrect` is the refinement of `LruCache`. The counts of the `k` filled
lines of a set are all of `way-k .. way-1` (`LineOfPlace`, pigeonhole), so each
place in `Recency` has one line (`PlaceOfLine`). A use leaves the other sets as
they were (`OtherSets`); in its own set a filled line goes to the end and those
behind it come up one place (`MovesToEnd`), and a free line comes in last, where
the others keep their places because their counts all go down while the set gets
one longer (`ComesInLast`). A hit, whatever its place, is then `Find`
(`HitFinds`); a miss is `BringIn`, and in a full set the line with count 0 is the
one in the first place (`ReplaceBringsIn`). That the evicted block is paid for
needs `Held`: what a line holds is a block that the program touches.

`CpuRestartProofs`. `CpuInv` adds three facts to `CpuTypeOK` and `OwnAnswer`: the
ring is empty between two phases (`RingOK`), the program counter of a running
CPU is never 0, which would be the address of the data (`PcOK`), and what the
slot holds besides the address (`AnswerOK`). `SendAnswered` shows that a request
made in a phase is answered before the phase ends, in both modes, so the next
phase may read it without a look at its state.

`RestartableCorrect` maps every step of both execution models
to a step of the program or to a stutter. Three facts carry it: while no
exception has occurred the latches describe the instruction at the program
counter (`AtHandOK`); when `writeback` comes, what it will store is that
instruction's result (`DoneOK`); and while the handler runs, EPC is a place of
the program (`ModeOK`). The case that decides the theorem is an exception in a
delay slot, which maps to `BackToBranch`, and a store that had been sent, which maps
to `EarlyStore`: without either action in `RestartCpu` the proof fails.
`OnceOnlyCorrect` adds to the invariant what has been requested in each phase
(`MadeOK`), `ResponsiveCorrect` how long the interrupt has waited at most in each
phase (`WaitInv`).

`Cp0Proofs`. `NextTickCorrect` is about one integer, how far COUNT is behind
COMPARE (negative while it is before it). COUNT and COMPARE themselves wrap
around; `Behind` says that they differ by that integer modulo the range, and
`TickInv` keeps it in a window around 0 that is small compared to the range, with
bounds for each place of the program. A step adds one to it (`StepBehind`), and
the interrupt becomes pending exactly when it gets to 0 from below; what the
handler reads out of COUNT tells its sign (`BehindMeans`). So an early return
from the handler is a return with COUNT before COMPARE, and it has at most a
period to go.
`TickTypesCorrect` adds that the TLB, and the registers for it, stay as they were
made, while RANDOM goes around (`TlbIdle`).

`WiredKeptCorrect`, for any number of entries, any sizes of pages and any
programs, is about the paging kernel's 26 actions. The entry of the stack could
be overwritten in two ways. By TLBWR, if RANDOM were below WIRED: `RandomOK`
holds because every instruction is followed by a step, which lifts RANDOM above a
WIRED just written (`TurnKeeps`). By TLBWI, if TLBP ever found the stack: it looks
up only pages of programs, and those are not in the stack's block of pages
(`StackApart`, division by the page sizes), so the first match is another entry
(`Looked`), or none. `WiredInv` has to carry that address through the handlers
(`CarriedRegs`), and therefore say where an interrupt or a second exception,
which overwrite BADVADDR and ENTRYHI, can come at all (`PlaceRegs`: EXL in the
handlers, IE off from `unmap_hi` to `unmap_exit`), and that only the wired entry is
global (`EntriesOK`): what TLBR read and TLBWI writes back stays of one space.

`TlbKernelProofs`. `CoherentCorrect`: whatever the programs do, the TLB says what
the page tables say. `Coherent` cannot be inductive, as it speaks of the
translations of the current space; `MapInv` speaks of the entries, of every space.
By its page an entry is one of four things (`EntryContent`, `StackEntry`): left
from the boot, for a pair in the unmapped kernel space that no access looks up
(`FlushedPair`); the page table of a space (`TableHalves`); two pages of a program
(`UserHalves`); or the stack. Between the change of a page table and the TLBWI
after it the two do disagree, about one page: `Up` is the page a fault handler has
just made valid or writable, `Down` the one that is being given back, and
`HalfOK` asks the agreement of all others, one of them the other half of the same
entry. What the handler carries in ENTRYLO agrees again (`WriteMap`). While an
interrupt comes between the two, `Down` must outlive it (`Within`), and that is
why the place of the program that EPC holds is part of the invariant.

That no page gets into two entries (`Distinct`) is the other half. TLBWR puts a
page into a new entry, so the refill handler must know that it was in none
(`Absent`): because the access that missed says so (`GetPhaddr` found no match),
and because no other handler can write in between (EXL). The nested miss of the
page table writes the page of the table instead, and the page that missed first is
then asked for again. TLBWI writes the pair that TLBP looked up into the entry
where TLBP found it, which is the right one only if nothing has written the TLB
since; nothing has (`Present`). `MapInv` holds at the boot by `Flushed`: every entry gets
a page of its own. It starts from `WiredInv`, which says where exceptions can
come. `Cp0TypesCorrect`: with the types of registers and entries (`RegTypes`,
`EntryTypes`) `MapInv` is what `Cp0TypeOK` needs.

`MemoryProofs`. `MemoryIsFlat` goes up in three layers. *Bytes in a word*: a word
is `Num` of four bytes (`Digits`), and the shifts and masks of `mips.cc` and
`memory.cc` are what one thinks they are on those bytes (`NumParts`, `InsertByte`,
`InsertHalf`, `Shifted`); `UpIs` and `DownIs` are the two shapes that LWL, LWR, SWL
and SWR have. *Words in the memory*: an offset is a page and a word of it, one to
one (`SamePlace`), all bytes of a word are answered by the same entry of the map,
because entries begin and end at a word (`WordDevice`), and replacing a page
changes what is read nowhere else, also when the page has not been made
(`Replaced`). *Instructions*: each leaves what `FlatMemory` says of the same
instruction at the same address (`LoadsStep`, `StoresStep` and the two about
unaligned words), and one without memory leaves everything; since the step records
what it executes (`Recorded`), this is the step that `FlatMemory` takes; `ExtensionIs` and
`HalfExtended` are why the radix must be even. `MemInv`, `MemTypeOK` with the shape
of the page tables, is inductive. That it holds while `siminit` writes needs the
type of what it writes, a recursion over the sections (`TakenType`, by the least
counterexample).

`ImageIsLoaded` adds to `MemInv` that, while nothing has been stored, each byte is
the last that the loaded part of the image has for it (`LoadInv`), and then what
the last one is (`TakenLast`: the last section that wants the address, found by
the least counterexample again). Its hypothesis `OnlyNoBits`, that NOBITS is the
only type with bit 3 set among the sections that occupy memory, is what the run
`constructors` violates.

`InterruptProofs`. `InterruptTypeCorrect`, `LineCorrect`, `RequestCorrect` and
`SequenceCorrect` from the conjunction of the four invariants. The two lemmas
about the two `recalcirq` functions carry it: each of them establishes the
invariant from any registers its caller may have left, so every action is
either a call of one or leaves the lines alone.

Only model-checked: liveness (`InOrderLive`, `Served`, `Delivered`), since the
prover has no fairness; `Geometry`, `CrashOnlyOnWrap` and `ExecutesRight` (recursive bit operations).

## What is not modelled

*Parsing*: the command line apart from the cache options, the syntax of the
machine setting file, finding headers, names and symbols in an ELF file, the
fields and mnemonics of an instruction word. Sequential code without state to
get wrong afterwards. *Output*: terminal and LCD (`MieruIO`), registers,
statistics, the pipe log. *System calls* that SimMips carries out itself
(`mips.cc:779`): exit, write to the terminal, and a register set to 0.
*Memory accesses without a caller*: 8 and n bytes, `setpageentry`.
*Device registers nothing depends on*: OCW3, divisor, scratch, FIFO control.
*`Fetch` over the functional CPU*: SimPipe runs programs without coprocessor 0,
where every `step_funct` fetches an instruction; with one, `pipe.cc:266-270`
would enter an earlier instruction again after an interrupt or a WAIT, and the
repository does not say what the pipeline should do then, so there is no
property to check. *Destructive reads that are made again*: with `-m` an
interrupt can abandon a load of a device register (`device.cc:247`); devices are
not composed with the CPU. `src/carch` (the vendored toolchain, nearly all of
the repository's lines) and the sample programs are not part of the simulator.

## Plan

Done, in this order: `MipsInst`, `PipeLine`, its abstraction and proofs;
`Cache`, its abstraction, the composition; `CacheConfig`; `MultiCycle` and its
abstraction; `Interrupt` and its proofs; `Cp0` and its two programs; `Memory`
and its abstraction; `Execute`; the proofs about `Cache`, `PipeCache`,
`MultiCycle`, `CpuRestart`, `TickKernel`, `TlbKernel` and `Memory`. Left:

1. Devices behind the CPU of `MultiCycle`, to show when a destructive read is
   made again.
