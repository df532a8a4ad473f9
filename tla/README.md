# Microwatt core and SoC: TLA+ models, model checking and proofs

The repository holds the Microwatt POWER soft core in VHDL, the SoC around it
(Wishbone interconnect, interrupt controller, UART, SPI flash, DRAM glue), an
LMS adaptive filter attached to that SoC, and C programs: a debugger, a console
library, a boot loader and simulator glue.

This directory models two kinds of thing. The first is the in-order pipeline
with its scoreboard, the units of different latency behind it, and the stalls,
flushes, interrupts and retries that connect them. The second is what runs
around the core: the C and C++ programs of the repository together with the
hardware they talk to. These are the filter and its generated simulation model,
the debugger with the JTAG path to the core, the console with both ends of the
serial line, the boot loader with the SPI flash, the loader's C library and the
memories of the simulator.

## 1. Inventory

| Part | State | What changes it | What is hard | What must hold |
|---|---|---|---|---|
| Scoreboard (`control.vhdl`) | one register per tag, next tag, last CR/OV/issued tag | issue, completion, flush, possibly all in one cycle | tags are reused without a check; `recent` bits and flag tags go stale | hazard logic stalls exactly when needed |
| Decode (`decode1`, `decode2`) | instruction waiting or deferred, captured operands | new instruction, hazard, `busy_in`, flush | operands are captured while waiting, from three bypasses by register number | issued operands are the youngest older writer's |
| Execute (`execute1.vhdl`) | two stages, multi-cycle flags, wait state | decode2, unit results, stalls, interrupts | three sources of `busy`; flush does not reach the units started here | in-order completion, precise interrupts |
| Load/store (`loadstore1.vhdl`) | three stages, hash unit | execute1, dcache, MMU | no flush input; next request already sent when one fails | no request lost, answered twice, or left behind |
| Data cache (`dcache.vhdl`) | request and result registers, lines, TLB, reservation, reload machine | requests, Wishbone, snooping | reload while hits continue, stores queued, reservation loss | loads see the last store; `stcx` fails after a foreign write |
| MMU (`mmu.vhdl`) | walk state, cached table bases | requests, dcache answers | walk through the same cache that waits for it | every walk ends; only permitted entries are loaded |
| Fetch (`fetch1`, `icache`) | next address, lines, TLB | redirect, stall, reload | redirect during a reload | the stream after a redirect is the new one |
| FPU (`fpu.vhdl`) | one instruction, retirement flags, FPSCR | execute1, load/store stall, flush | finishes while others stall | retires once, in order |
| Writeback (`writeback.vhdl`) | none | three units | no arbitration | at most one completion and one write per cycle |
| Core debug, PMU | stop/step/log state, counters | DMI, events | log keeps filling while it is read | a stopped core steps once per request |
| Wishbone arbiter, SoC decode, IO bridge | selected master; bridge state | bus cycles | change of master, split accesses | an ack goes to the master that asked |
| XICS | CPPR, MFRR, XISR, XIVEs | register accesses, interrupt lines | new interrupt between accept and EOI | never present an interrupt at or below CPPR |
| LMS peripheral (`LMS.v`, `wb_lms.v`) | delay line, weights, error, bus registers | every clock, bus writes | fixed-point wraparound | update rule within range |
| Its generated model (`obj_dir`) | the same registers, stored combinational values, triggers | `eval()` | statement order, stale values, loop until nothing triggers | same registers as the Verilog |
| Debug access (`mw_debug.c`, `sim_jtag*`, `dmi_dtm_xilinx`, `wishbone_debug_master`, `core_debug`) | socket, JTAG process, DMI handshake in two clock domains, debug registers | debugger, JTAG clock, system clock, core | request and ack cross domains; a debugger is killed and restarted | each command does its work and ends |
| Serial line (`uart-verilator.c`, UARTs, `console.c`, `hello_world.c`) | a frame in each direction, FIFOs, program | host clock, sample clock, program, keyboard | two bit clocks, polling, no flow control | what is typed is echoed once and in order |
| Boot loader, SPI flash, resets | program position, flash registers, DRAM, cache | loader, chip, resets | reset inside a transaction | jump only to what was loaded |
| C library of the loader | caller's memory, place of `strtok` | calls | overlap, limits, wraparound, padding | agrees with a definition |
| Memories of the simulator | mapped regions | VHDL reads and writes | byte lanes, sizes | reads return the last write |
| FIFO, GPIO, syscon, L2 | small registers and queues | bus, pins | full/empty | order kept, nothing lost |

The hazards that follow from this are listed in `PROJECT.json` with the line
where each one bites.

## 2. Modules

```
CoreTypes      tags, instruction classes
 |- Control            the scoreboard             -> MCControl, Control_proofs
 |- DcachePort         data cache seen from its port
 |   `- Loadstore1     three stages, hash unit, MMU port
 |- Fpu                FPU as a sequencer
     `- Execute1       (Loadstore1 + Fpu) both execute stages
         `- Writeback  combinational merge
             `- Pipeline (Control + Writeback) decode2 and the clock  -> MCPipeline, MCMixed

WbLms          the Verilog of the LMS peripheral
VLMS           its generated C++ model, implements WbLms  -> MCVLMS, VLMS_proofs

EchoTerminal   a terminal that echoes
SerialSim      (UartVerilator + Uart + Console), implements EchoTerminal -> MCSerialSim

DebugRegs      register numbers and bit fields
 |- DebugTarget        DMI port, Wishbone master, core debug registers
 |- MwDebug            the commands of mw_debug as sequences of DMI operations
     `- SimJtag        (both) client, socket, JTAG process  -> MCSimJtag

SpiFlash       controller and chip
 `- Boot               the boot loader and resets  -> MCBoot

CString, Strto, Vsnprintf -> Libc      the loader's C library
SimBram                                the simulator's memories
 `- Support            (Libc or SimBram)  -> MCSupport
```

### The core

The design is synchronous: one step `Clock` of `Pipeline` is one rising edge, and
it is the conjunction of every component's clocked process. Combinational
signals (`busy_out`, `valid_in`, `complete_out`, `flush_out`, ...) are state-level
operators with the names they have in the VHDL. Choices that depend on data the
model does not have are made by `\E` inside the component: hit, miss or error of
a cache lookup, latency of memory, MMU, FPU and bit sorter, direction of a
branch, outcome of a hash comparison, interrupt requests.

* **CoreTypes** reduces an instruction to its class (unit and timing), target,
  two source registers, and its use of CR and XER[OV]. The `decode_rom` columns
  `unit`, `sgl_pipe` and `rpt` are kept in the classes. `NoTag` is an
  `instr_tag_t` with `valid = '0'`.
* **Control** is `control.vhdl`: `control0` is the clocked process,
  `gpr_hazard`, `cr_hazard`, `ov_hazard`, `serial_stall`, `valid_out` and
  `instr_tag` the combinational ones. History variables `lastw`, `lastcr` and
  `lastov` record the youngest outstanding writer of each register and flag.
  `ControlSpec` surrounds it with any stages that keep two rules: only an
  outstanding tag completes, and a tag is handed out only when it is free.
  `CompletesInOrder` and `TagsAreFree` check on `Pipeline` that the real stages
  keep them.
* **DcachePort**: `dc0` is `r0`, `dc1` is the part of `r1` that loadstore1 sees.
* **Loadstore1**: `r1`, `r2`, `r3` are the stage registers without addresses and
  data. The MMU is `idle`, `busy`, `done` or `err`.
* **Fpu**: all arithmetic states are one state `EXEC` of any length.
* **Execute1**: `ex1`, `ex2` are the stage registers; the interrupt that an
  instruction raises, or that is taken instead of it, is one bit.
* **Writeback** has no state. `completing`, `writing` and `interrupting` list
  the units that do so in this cycle.
* **Pipeline** adds decode2 and, as its environment, decode1 and fetch, which
  deliver any instruction of `Insns` or none. Instead of operand values decode2
  keeps for every captured operand whether it is the youngest older writer's
  result (`fresh`).

### The LMS peripheral

* **WbLms** is the Verilog. One step is one change of the pins; at a rising edge
  of `Clk` or `Rst` all registers move from their old values, as nonblocking
  assignments do. Words are unsigned numbers below `M`, with the integer one at
  `N`, and are read as two's complement.
* **VLMS** is the C++ of `obj_dir`. `Drive` is the test bench, `FirstEval` the
  first evaluation, `EvalPhaseAct` and `EvalPhaseNba` the two loops of `eval()`,
  and `NbaSequent` the statements that move the registers, with temporaries where
  the C++ has them. The combinational values `y_out` and `wn_u` are variables, as
  in the C++, and may be stale. Each register starts with a value of its own
  (`POWERUP`), as the constructor's random fill gives it. The refinement mapping
  shows the Verilog an edge only when its registers have moved (`SeenPin`).

Two things at time 0 need care. A Verilog `posedge` is also a change from x to 1,
so that a pin that is high from the start is an edge there; `Rises` is that edge.
The first evaluation of the C++ takes the levels it finds for the previous ones
and sees no edge. The two agree only if both pins are low at the first `eval()`
(`StartsLow`); what may be seen there is the constant `FIRST`. The test bench
`wb_lms_tb.v` raises `Rst` at time 0: simulated with an event simulator it resets
the design at once, and with the generated model only at the first rising clock.

### The serial line

* **UartVerilator** has the two state machines of `uart-verilator.c`, in clocks
  of the simulation; end of input stops the simulator.
* **Uart** is the UART of the SoC, either of the two, at one step per clock with
  sixteen sample ticks per bit. **Console** is `console.c` under the program
  `hello_world`, one access to the UART at a time.
* **SerialSim** is the loop of `microwatt-verilator.cpp` over all of them. A step
  is one clock; the core makes an access every `pace` clocks.
* **EchoTerminal** is what somebody at the terminal may rely on, and `SerialSim`
  implements it with `shown <- stdout`. There is no flow control: a byte that
  arrives at a full receive FIFO is dropped, which the abstract terminal allows
  only before the greeting is out and with as many bytes kept as the FIFO holds.
  `KEYS` says what each poll of the host's keyboard may find. The history
  variables `arrived` and `kept` count what has come through the line and what the
  FIFO took; `behind` is how much echo was owed at the last poll.

### The debugger

* **DebugTarget**: the JTAG side and the system side of `dmi_dtm_xilinx` step
  separately (`Tck`, `SysClk`), with both synchronizers. Behind it are the
  address decoder of `soc.vhdl`, the Wishbone master and the debug registers.
* **MwDebug** gives for each command the next DMI operation from the answers
  so far, so that a command is a sequence that branches on what it reads.
* **SimJtag** has the client (`Connect`, `Send`, `Receive`, `EndCommand`), which
  may be killed and started again (`Restart`); the socket functions, which open,
  accept and read in one call; and the JTAG process. Shifting is one action, taken
  after any number of JTAG clocks.

### The boot loader

* **SpiFlash**: the control and configuration registers, manual transfers and
  mapped reads. The chip is external: an identification, status and
  configuration registers, write enable, a write in progress, and a transaction.
* **Boot**: one action per part of `main()` between accesses to the flash, and
  `Access` for each of those, so that a reset can fall between any two.
  `CoreReset` keeps the flash controller, `SocReset` does not.

### Support code

* **CString**, **Strto** and **Vsnprintf** are the functions of the C library over
  an array of bytes, with the doublewords of `memcpy`, the static pointer of
  `strtok` and the limits of `vsnprintf`. **Libc** calls them.
* **SimBram**: regions are byte arrays; accesses are vectors of logic values.
* **Support** makes one specification of the two, which share nothing.

## 3. Properties

| Property | Meaning |
|---|---|
| `RecentIsYoungest` | the `recent` bits name exactly the youngest outstanding writers |
| `GprHazardExact`, `FlagHazardExact` | a reader stalls if and only if the youngest writer has no result yet |
| `CompletesInOrder` | at most one completion per cycle, always of the oldest outstanding instruction |
| `TagsAreFree` | a tag is free when it is handed out |
| `PreciseInterrupts` | an interrupting instruction is the oldest outstanding one |
| `OperandsFresh` | no issued instruction carries a stale operand |
| `WritesWhenCompleting` | one register write per cycle, by the unit that completes; no load completes without it |
| `NoOrphans` | what is in flight belongs to an outstanding instruction |
| `NotStalledAtCompletion`, `AnswersMatch` | the assertions of execute1 and loadstore1 |
| `IssuedIsInDcache` | no request is lost between loadstore1 and the dcache |
| `SerializedIssuesAlone` | serialized instructions issue into an empty pipeline |
| `EveryInstructionRetires`, `DecodeProgress` | liveness |
| `ImplementsRTL` | the generated model moves the registers as the Verilog does |
| `SchedulerInvariant` | triggers, previous pin levels and stored outputs agree |
| `OutputExact` | the filter's output is the exact product whenever that fits a word |
| `TapsCollapse` | the delay line shifts at every clock, not at every sample |
| `EvalReturns` | the loops of `eval()` end, without "did not converge" |
| `ImplementsTerminal` | greeting, then the echo of each byte kept, in order, nothing repeated or damaged, and nothing lost after the greeting |
| `SamplesInBit` | the drift of the two bit clocks stays within what both receivers bear |
| `EchoBeforePoll` | once the greeting is out, the echo still owed shrinks from one poll of the host to the next until none is |
| `OwnAnswer` | no request meets a busy DMI port, and the answer that ends an operation is its own |
| `CommandCorrect` | at its end a command has changed or seen exactly what it is for; only a stopped core is stepped |
| `Terminates` | the debugger ends, also after another one was interrupted |
| `JumpsToImage` | the loader jumps to what is completely in DRAM, with a clean cache |
| `BootsFlash` | an image in a readable flash is preferred to the payload |
| `FlashAnswers` | the flash is read through the map only when controller and chip will answer |
| `FlashRegsKept` | whatever a reset cuts off, the flash gains only quad enable |
| `Boots` | something is booted in the end |
| `ReadsLastWrite` | a memory of the simulator returns what was written last |
| `StringFunctionsRight` | copies, comparisons and searches agree with reference definitions (`CopiesExactly`, `ComparesRight`, `FindsRight`) |
| `TokensInOrder` | `strtok` returns the tokens of a string in order |
| `NumbersExact` | `strtoul` and `strtol` take the longest numeral and give its value |
| `PrintfCorrect` | the numbers `vsnprintf` prints read back, and without a padded `%c` it stays in its buffer (`PrintfExact`, `PrintfBounded`) |
| `PipelineTypeOK` | types of the pipeline and the scoreboard |

Several of these are as weak as the code makes them, and say so in their
comment. `JumpsToImage` asks for all segments only if the loadable program
headers come first, because `continue` skips the step to the next header.
`FlashRegsKept` holds for one reset; with two, the byte of a later RDID can be
written to a register. `ImplementsRTL` is claimed from pins that are low at the
first evaluation. `NumbersExact` takes blank, tab, newline and carriage return for
white space, as `strtoul` does; `isspace` of the same library knows vertical tab
and form feed too, and a numeral after one of these reads as 0. `PrintfExact`
counts a minus sign on top of the field width, where C has it inside.
`PrintfCorrect` leaves out the buffer limit for a padded `%c`, which has a run of
its own below. `Terminates` says of a debugger whose simulator went away, or whose
predecessor was interrupted, that it ends, not that what it shows is right.
`CommandCorrect` asks for the order of a dumped log only if it was
stopped before. `OwnAnswer` is about the first debugger: one
that follows an interrupted one may have its first command ignored.

## 4. Runs

`scoreboard` runs `Control` alone with three tags, two registers and three
instructions: three tags are the fewest with a youngest, an older and a free or
reused tag at the same time.

The pipeline runs use four tags, as the code does, two registers, and hash
computations of eight cycles. A program is any sequence over a small set of
instructions, so that each run covers every order of its instructions. Two
registers suffice for the dependences that matter: same target, target read by
the next, and an unrelated one. The sets are chosen by the units that interact:

| Run | Instructions | Main question |
|---|---|---|
| `execute` | one of three sets: ALU with Rc, compare, slow op, mfspr, branch, trap, illegal, mulo, bit sort, FP exception, illegal FP; or FP, load, store, lfs, multiply, ALU; or hashst, hashchk, ALU | bypasses, multi-cycle units, interrupts, flush; mutual stalls of FPU and load/store; hash unit and comparison |
| `memory` | load with update, split load, lfs, stcx, misaligned larx, fetch failure, ALU, sync, mtpid, wait, mtspr, mfdar, branch | retries, kills, double requests, serialization |
| `live` | load, FP, sync | liveness |

There is no state constraint: every run is exhaustive for its instruction set.
The safety runs use the view `View`, which counts tags from `curr_tag` and
leaves out registers that nobody reads; only the order of tags matters to the
logic, and the hazard loops find at most one match (theorem
`ScoreboardCorrect`). `live` and `tlbie_hang` do without it.

Some instructions are kept apart on purpose: interrupting FP instructions and
loads, and `tlbie`, whose combinations violate a property in the code as it is
and have a run of their own below; and bit sort and loads, `hashchk` or `hashst`
and loads, which go wrong too when they are combined. For these there is no run,
only the hazards at `execute1.vhdl:1929` and `loadstore1.vhdl:841` and
`976`. A flush does not clear `bsort_in_progress`. That does no harm behind a
branch or a trap, which keep a bit sort from starting, and `execute` has these
together; it does when a load or store takes an interrupt while a bit sort behind
it runs. Stage 2 announces `busy` for
`hashchk` only after the next request may have been accepted, and the hash unit
neither stops with its instruction nor holds its one-cycle `done` over a stall.

**Fairness of the pipeline** (`FairPipelineSpec`). The clock ticks (`WF_vars(Clock)`). Memory, the
MMU, the FPU and the bit sorter eventually leave their busy states: each of them
is a finite computation or a bus access that is acknowledged. If there are
infinitely many translation errors there are also infinitely many successful
lookups, because a retry follows the installation of the TLB entry it needs.
Nothing is assumed about the stages under test.

**Runs that show a disagreement.** Each checks one statement of the code's own
assertions or comments:

| Run | What happens |
|---|---|
| `fp_interrupt` | an illegal FP instruction ends during a load stall; the next load is accepted before the interrupt flushes, and completes with a freed tag |
| `tlbie_hang` | `tlbie` is taken for a retry when the MMU is done and never completes; a `sync` right behind it waits for ever |
| `printf_overrun` | the padding of a `%c` fills the room left and the character is stored all the same; the terminating zero lands one byte past the buffer |

**Runs around the core.**

| Run | Bounds | Why they are enough |
|---|---|---|
| `lms` | words of 4 bits with 2 fraction bits, two samples, six clock edges, three sets of power-up values, both pins low at first, bus and reset changing at any phase of the clock | four taps fill and one more edge reads them; products wrap at this width; the theorem covers the real width and every power-up value |
| `serial` | 50 MHz and 115200 baud, as in the code; a greeting of 15 bytes for 178, FIFOs of two bytes for 16 or 32; seven polls of the host that find 85, CR or nothing; an access every 37 or 151 clocks; both UARTs | real rates, since rounding is the point; 13 and 85 give the longest echo and the most edges; more is typed during the greeting than the FIFO holds, so bytes are lost, and a backlog of echo is left when the greeting ends |
| `debug` | all commands, one per client; data of 11 bits, four words of memory, a log of two entries; one interrupted client and one after it | the fields of each register fit; a second client meets every state a first one leaves; the log wraps |
| `boot` | six kinds of chip in quad mode or not; three sets of features; no image, and images with a note after or between two segments; two resets; five bytes of a transaction told apart | a second reset meets every state a first one leaves; no transaction of the loader has more bytes that matter |
| `support` | memory of 21 bytes with distinct contents, all strings of up to four characters over small alphabets, buffers from 0 to 16 bytes, words of 8 bits for numbers, 3-bit characters for formatting; two regions, three accesses | all overlaps and alignments of a doubleword; every limit below, at and above the length |

The runs in which the program may end (`serial`, `debug`, `boot`, `support`) do
not check for deadlock: end of input, `exit()`, the last command, the jump, or a
call with nothing after it are the end of a behaviour.

**Fairness around the core.** `lms`: `eval()` once called goes on; the test bench is
free to stop. `debug`: the client, the simulator and the system clock go on; JTAG
clocks, log entries and interruptions need not happen. `boot`: the loader goes on
and the flash chip finishes a write; resets need not happen and there are at most
`MAXRESETS`. `serial` has only safety properties.

## 5. Proofs

`Control_proofs` proves for every number of tags, every set of registers and
every set of instructions:

* `ControlInvariant`: `ControlSpec => []ControlInv`, the inductive invariant;
* `ControlTypeCorrect`, `ScoreboardCorrect`, `GprHazardCorrect`,
  `FlagHazardCorrect`: `[]` of `ControlTypeOK`, `RecentIsYoungest`,
  `GprHazardExact`, `FlagHazardExact`.

`ControlInv` is `ControlTypeOK /\ RecentIsYoungest /\ FlagsTracked`. The flag hazard
property is not inductive: `FlagsTracked` adds that a tag whose `wr_cr` (`wr_ov`)
bit is set is outstanding, and that the youngest outstanding flag writer is the
tag in `curr_cr_tag` (`curr_ov_tag`) exactly when that bit is set there. Lemma
`ControlStepFacts` reduces a step of the environment to what `control0` needs,
and `ControlStepInv` shows that `control0` preserves the invariant, conjunct by
conjunct, by cases on what the clock edge does to a tag: flushed, newly
allocated, completed, superseded or untouched. The assumptions are those of `CoreTypes`: at least
one tag, `NoReg` is not a register, and instructions are well typed.

The environment rules of `ControlSpec` are hypotheses of these theorems. That
the pipeline keeps them is model-checked (`CompletesInOrder`, `TagsAreFree`), not
proved.

`VLMS_proofs` proves for every word size `M` and weight `N` with `M` a multiple of
`N`, and every set of pin settings:

* `SchedulerCorrect`: `Spec => []SchedulerInvariant`;
* `GeneratedModelImplementsRTL`: `StartsLow` implies `Spec => ImplementsRTL`, the
  refinement.

`SchedulerInvariant` is inductive as it stands. The refinement needs two of its
parts: the stored outputs equal what the Verilog computes from the registers, and
a pending edge is one that the pins still show. The arithmetic lemmas lead to
`MaskShifted`: shifting a product logically in twice the word's width and masking
it gives the slice that the Verilog takes, also for negative products.
`SameOutput` and `SameUpdate` apply it to the output and the weights. `QuietStep`
and `EdgeStep` show that a step without a pending edge is a change of pins or a
stutter, and that `nba_sequent` with a pending edge is the Verilog's clock edge.
The assumptions are `WordAssumption` and `PinsAssumption` of `VLMS`.

Everything else is model-checked only. The prover does not handle fairness or
`ENABLED`, so all liveness stays with TLC. Nor can it do induction over data, so
what the recursive functions of the C library compute is checked on bounded
inputs.

## 6. Not modelled

* Of the modelled units of the core: arithmetic, addresses, data, SPR and MSR
  contents, FPSCR, interrupt vectors, quadword pairs and the DAWR comparison (a
  DAWR match is a nondeterministic fatal error).
* The cache proper, TLB and reservation, the page table walk, fetch, the
  interconnect, XICS, PMU, FIFO, GPIO and the L2: planned below.
* Of `mw_debug.c`: the backends for real JTAG adapters, which drive liburjtag,
  option parsing and printing. `fmt_log.c` only lays out a log.
* Of `console.c`: the interrupt enables, used only by a test of the XICS. Of
  `uart-verilator.c`: raw mode of the host's terminal.
* Of the generated C++: debug dumps, symbol table, threads and tracing.
* DRAM training, which is LiteX code outside the repository. ELF headers are
  declarations. Formats of the boot messages are left out.
* `sim_litedram_c.cpp` passes signals to a generated model that is not in the
  repository; `sim_console_c.c` is terminal I/O; LiteX cores are generated.
* Messages on the debug socket are not cut into fragments, and only register
  numbers below 96 are asked for: above, the count of `gpr_read` wraps around.

## 7. Plan

1. `WishboneArbiter`, IO bridge and address decoding of `soc.vhdl`: ack routing
   against an abstract bus, with a proof; starvation under fixed priority.
2. `Dcache`: lines, reload, stores, reservation and TLB, refining `DcachePort` by
   a mapping of `r0` and `r1`; `Mmu`: the walk, refining the four MMU states.
3. `Fetch`: fetch1 and icache with redirects, stop and reload, refining the
   environment of `Pipeline`.
4. `Xics`, `SyncFifo` (refining a bounded queue, with a proof), PMU.
5. Proofs: that `Clock` under the pipeline invariants implies `ControlNext`, so
   that the scoreboard theorems carry over to the pipeline; the handshake of the
   DMI port across its two clocks; the refinements of the FIFO and the arbiter.
6. Algorithms against reference definitions over bounded inputs: divider, PLRU,
   priority encoders, bit sort.
