-------------------------------- MODULE Boot --------------------------------
(***************************************************************************)
(* The boot loader, main.c: it finds out what flash there is and turns its *)
(* quad mode on, has the DRAM set up, and starts the contents of the BRAM, *)
(* an ELF image from the flash or the payload that comes with it.  The     *)
(* core, or the whole system, may be reset at any point of it.             *)
(***************************************************************************)
EXTENDS SpiFlash

CONSTANTS FEATURES,   \* sets of features a board may have
          IMAGES,     \* what may be in the flash
          ADDRESSES,  \* places in DRAM, Zero among them
          Zero,       \* its beginning
          MAXRESETS   \* bound: resets

ASSUME AddressesAssumption == Zero \in ADDRESSES

VARIABLES
    board,      \* features, default mode of the flash controller, flash image
    pc, todo,   \* where main() is, and register accesses it is about to make
    buf,        \* bytes it read there
    autocfg, try_flash,
    poff, i,    \* program header, and round of the loop
    target,     \* where it jumps, "none" so far
    alt_reset, init_done, dram,
    stale,      \* the instruction cache may hold what was in DRAM before
    busy,       \* history: the chip was writing when the ELF header was read
    resets

progVars == <<pc, todo, buf, autocfg, try_flash, poff, i, target>>
memVars == <<init_done, dram, stale>>
history == <<busy, resets>>
vars == <<board, progVars, memVars, alt_reset, history, spiVars>>

Has(f) == f \in board.ftr

Program(label, accesses) ==
    /\ pc' = label /\ todo' = accesses /\ buf' = <<>>

\* The program starts again at label.
Restarts(label, where) ==
    /\ Program(label, <<>>) /\ try_flash' = FALSE /\ autocfg' = DefaultCfg(TRUE)
    /\ poff' = 1 /\ i' = 0 /\ target' = where

Init ==
    /\ board \in [ftr : FEATURES, quad : BOOLEAN, image : IMAGES]
    /\ SpiInit(board.quad)
    /\ pc = "main" /\ todo = <<>> /\ buf = <<>> /\ try_flash = FALSE
    /\ autocfg = DefaultCfg(TRUE) /\ poff = 1 /\ i = 0 /\ target = "none"
    /\ alt_reset = Has("DRAM") /\ init_done = FALSE
    /\ dram = [a \in ADDRESSES |-> "junk"] /\ stale = FALSE
    /\ resets = 0 /\ busy = FALSE

-----------------------------------------------------------------------------
(* Accesses to the controller.                                             *)

fl_cs_on == <<[op |-> "ctrl", cs |-> TRUE]>>
fl_cs_off == <<[op |-> "ctrl", cs |-> FALSE]>>
writeb(b) == <<[op |-> "write", byte |-> b]>>
readb == <<[op |-> "read"]>>

send_wren == fl_cs_on \o writeb(WREN) \o fl_cs_off

\* Mutant: the chip is left selected after its status was read.
poll_wip_selected == fl_cs_on \o writeb(RDSR) \o readb

\* One round of wait_wip().
poll_wip == fl_cs_on \o writeb(RDSR) \o readb \o fl_cs_off

Access ==
    /\ todo # <<>>
    /\ LET a == Head(todo) IN
         CASE a.op = "ctrl" -> WriteCtrl(a.cs) /\ UNCHANGED buf
           [] a.op = "write" -> Transfer(a.byte) /\ UNCHANGED buf
           [] a.op = "read" -> Transfer(0) /\ buf' = Append(buf, Sends)
    /\ todo' = Tail(todo)
    /\ UNCHANGED <<board, pc, autocfg, try_flash, poff, i, target, memVars, alt_reset,
                   history>>

At(label) == pc = label /\ todo = <<>>
Goes(label, accesses) ==
    /\ Program(label, accesses)
    /\ UNCHANGED <<board, autocfg, try_flash, poff, i, target, memVars, alt_reset,
                   history, spiVars>>

-----------------------------------------------------------------------------
(* check_flash().                                                          *)

IsSpansion(d) == d[1] = 1 /\ d[2] \in {2, 32, 96} /\ d[3] \in {24, 25}
IsMicron(d) == d = <<32, 186, 24>>
IsIssi(d) == d[1] = 157 /\ d[2] \in {96, 112} /\ d[3] = 25

Start ==
    /\ At("main")
    /\ IF Has("SPI_FLASH")
       THEN Goes("id", fl_cs_on \o writeb(RDID) \o readb \o readb \o readb \o fl_cs_off)
       ELSE Goes("dram", <<>>)

\* No chip is found if the three bytes are all zeros or all ones.
check_flash ==
    /\ At("id")
    /\ LET issi == IsIssi(buf) IN
         /\ autocfg' = IF issi THEN [cmd |-> QUAD_FREAD_4BA, quad |-> TRUE, addr4 |-> TRUE]
                       ELSE DefaultCfg(TRUE)
         /\ CASE IsSpansion(buf) ->
                   Program("cf1", writeb(RDCR) \o fl_cs_on \o writeb(RDCR) \o readb
                                  \o fl_cs_off)
              [] IsMicron(buf) -> Program("cfg", <<>>)
              [] issi -> Program("sr", fl_cs_on \o writeb(RDSR) \o readb \o fl_cs_off)
              [] OTHER -> Program("offset", <<>>)
    /\ UNCHANGED <<board, try_flash, poff, i, target, memVars, alt_reset, history, spiVars>>

\* Mutant: the two registers are written in the wrong order.
EnableSpansion_Swapped(cf1) ==
    send_wren \o fl_cs_on \o writeb(WWR) \o writeb(SetBit(cf1, 1)) \o writeb(0)
    \o fl_cs_off \o fl_cs_off \o poll_wip

EnableSpansion(cf1) ==
    send_wren \o fl_cs_on \o writeb(WWR) \o writeb(0) \o writeb(SetBit(cf1, 1))
    \o fl_cs_off \o fl_cs_off \o poll_wip

check_spansion_quad_mode ==
    /\ At("cf1")
    /\ IF BitSet(buf[1], 1) THEN Goes("cfg", <<>>)
       ELSE Goes("wip", EnableSpansion(buf[1]))

check_enable_issi_quad ==
    /\ At("sr")
    /\ IF BitSet(buf[1], 6) THEN Goes("cfg", <<>>)
       ELSE Goes("wip", send_wren \o fl_cs_on \o writeb(WWR)
                        \o writeb(SetBit(buf[1], 6)) \o fl_cs_off \o poll_wip)

\* Mutant: the loop waits until no bit of the status register is set.
Busy_Any(sr) == sr # 0

Busy(sr) == BitSet(sr, 0)

wait_wip == At("wip") /\ IF Busy(buf[1]) THEN Goes("wip", poll_wip) ELSE Goes("cfg", <<>>)

\* SPI_REG_AUTO_CFG is set for quad reads.
Configure ==
    /\ At("cfg")
    /\ auto_cfg' = autocfg
    /\ Program("offset", <<>>)
    /\ UNCHANGED <<board, autocfg, try_flash, poff, i, target, memVars, alt_reset, history,
                   ctrl_cs, chip>>

-----------------------------------------------------------------------------
(* The rest of main().                                                     *)

\* Mutant: only a flash that is set to quad reads is tried.
TryFlash_Quad == autocfg = auto_cfg

\* The result of check_flash() is overwritten.
TryFlash == TRUE

Offset ==
    /\ At("offset")
    /\ try_flash' = TryFlash
    /\ Program("dram", <<>>)
    /\ UNCHANGED <<board, autocfg, poff, i, target, memVars, alt_reset, history, spiVars>>

\* sdram_init() (external) trains and tests the DRAM.
sdram_init ==
    /\ At("dram")
    /\ IF Has("DRAM") /\ ~init_done
       THEN init_done' = TRUE /\ dram' = [a \in ADDRESSES |-> "junk"]
       ELSE UNCHANGED <<init_done, dram>>
    /\ Program("alt", <<>>)
    /\ UNCHANGED <<board, autocfg, try_flash, poff, i, target, stale, alt_reset, history,
                   spiVars>>

\* SYS_REG_CTRL_ALT_RESET is cleared, and the source of the program chosen.
ChooseSource ==
    /\ At("alt")
    /\ alt_reset' = FALSE
    /\ Program(IF Has("BRAM") THEN "jump" ELSE IF try_flash THEN "ehdr" ELSE "sdram", <<>>)
    /\ target' = IF Has("BRAM") THEN "bram" ELSE target
    /\ UNCHANGED <<board, autocfg, try_flash, poff, i, memVars, history, spiVars>>

\* boot_flash(): the ELF header.  What an unreadable flash gives is no header.
boot_flash ==
    /\ At("ehdr")
    /\ Program(IF MapReads /\ board.image.elf THEN "phdr" ELSE "sdram", <<>>)
    /\ poff' = 1 /\ i' = 0 /\ busy' = chip.wip
    /\ UNCHANGED <<board, autocfg, try_flash, target, memVars, alt_reset, resets, spiVars>>

Phdr == board.image.phdrs[poff]

\* A round of the loop that reads a header: poff moves only past PT_LOAD.
ReadPhdr ==
    /\ At("phdr") /\ i < Len(board.image.phdrs)
    /\ IF Phdr.load THEN Program("copy", <<>>) /\ UNCHANGED i
       ELSE i' = i + 1 /\ UNCHANGED <<pc, todo, buf>>
    /\ UNCHANGED <<board, autocfg, try_flash, poff, target, memVars, alt_reset, history,
                   spiVars>>

CopySegment ==
    /\ At("copy")
    /\ dram' = IF init_done THEN [dram EXCEPT ![Phdr.addr] = Phdr.data] ELSE dram
    /\ stale' = TRUE
    /\ poff' = poff + 1 /\ i' = i + 1
    /\ Program("phdr", <<>>)
    /\ UNCHANGED <<board, autocfg, try_flash, target, init_done, alt_reset, history, spiVars>>

\* flush_cpu_icache(), and the entry point is returned.
BootImage ==
    /\ At("phdr") /\ i = Len(board.image.phdrs)
    /\ stale' = FALSE /\ target' = "flash"
    /\ Program("jump", <<>>)
    /\ UNCHANGED <<board, autocfg, try_flash, poff, i, init_done, dram, alt_reset, history,
                   spiVars>>

\* boot_sdram(), up to the copy ...
boot_sdram ==
    /\ At("sdram")
    /\ dram' = IF init_done THEN [dram EXCEPT ![Zero] = "payload"] ELSE dram
    /\ stale' = TRUE
    /\ Program("flush", <<>>)
    /\ UNCHANGED <<board, autocfg, try_flash, poff, i, target, init_done, alt_reset, history,
                   spiVars>>

\* Mutant: boot_sdram() does not flush the instruction cache.
FlushedBy_None == stale

\* What flush_cpu_icache() leaves stale.
FlushedBy == FALSE

\* ... and the rest of it.
BootPayload ==
    /\ At("flush")
    /\ stale' = FlushedBy /\ target' = "payload"
    /\ Program("jump", <<>>)
    /\ UNCHANGED <<board, autocfg, try_flash, poff, i, init_done, dram, alt_reset, history,
                   spiVars>>

-----------------------------------------------------------------------------
(* Resets.                                                                 *)

\* The core alone: the flash controller keeps its registers, and once ALT_RESET
\* is clear the core starts at address 0 instead of in the loader.
CoreReset ==
    /\ resets < MAXRESETS /\ pc # "jump"
    /\ resets' = resets + 1
    /\ IF alt_reset THEN Restarts("main", "none") ELSE Restarts("jump", "reset")
    /\ stale' = FALSE
    /\ UNCHANGED <<board, init_done, dram, alt_reset, busy, spiVars>>

\* The system: the DRAM controller may be reset with it, and the program that
\* was booted may have asked for it.
SocReset ==
    /\ resets < MAXRESETS
    /\ resets' = resets + 1
    /\ Restarts("main", "none")
    /\ SpiReset(board.quad)
    /\ alt_reset' = Has("DRAM") /\ stale' = FALSE
    /\ init_done' \in {init_done, FALSE}
    /\ UNCHANGED <<board, dram, busy>>

Loader == \/ Access \/ Start \/ check_flash \/ check_spansion_quad_mode
          \/ check_enable_issi_quad \/ wait_wip \/ Configure \/ Offset \/ sdram_init
          \/ ChooseSource \/ boot_flash \/ ReadPhdr \/ CopySegment \/ BootImage
          \/ boot_sdram \/ BootPayload

Write == ChipDone /\ UNCHANGED <<board, progVars, memVars, alt_reset, history>>

Next == Loader \/ Write \/ CoreReset \/ SocReset

\* The core runs, and the chip finishes what it writes.
Spec == Init /\ [][Next]_vars /\ WF_vars(Loader) /\ WF_vars(Write)

-----------------------------------------------------------------------------
LoadsFirst == \A m, n \in DOMAIN board.image.phdrs :
                 m < n /\ board.image.phdrs[n].load => board.image.phdrs[m].load

\* When main() returns there is a program to jump to: the DRAM is set up, all
\* segments of the image or the payload are in it, no matter in which state
\* resets left it, and the instruction cache is clean.  For an image with other
\* headers before a PT_LOAD one this is not so, since the continue of the loop
\* skips the step to the next header.  A core reset that does not start the
\* loader again finds the DRAM set up.
JumpsToImage ==
    pc = "jump" /\ target # "bram" =>
        /\ init_done /\ ~stale /\ ~alt_reset
        /\ target = "payload" => dram[Zero] = "payload"
        /\ target = "flash" /\ LoadsFirst =>
             \A n \in DOMAIN board.image.phdrs :
                board.image.phdrs[n].load =>
                    dram[board.image.phdrs[n].addr] = board.image.phdrs[n].data

\* An image in the flash is preferred to the payload whenever the flash can be
\* read, also if an earlier run of the loader was cut off in its check of the
\* flash and left it busy when the identification is read, but then no longer.
BootsFlash ==
    pc = "jump" /\ target = "payload" /\ Has("SPI_FLASH") /\ board.image.elf =>
        busy \/ ~MapReads

\* The memory map is not read while the chip is selected by hand: the
\* controller would never answer.  Not even a core reset in the middle of a
\* transaction leads there.  And it is switched to quad reads only if the chip
\* answers them: its quad mode has been written and the write is over.
FlashAnswers ==
    /\ pc \in {"ehdr", "phdr", "copy"} => ~ctrl_cs
    /\ pc = "offset" /\ auto_cfg # DefaultCfg(board.quad) => MapReads

\* Wherever a reset cuts the loader off, the registers of the chip gain no bit
\* but quad enable, and do not lose that or any configuration bit.  (A core
\* reset in a register write, which leaves the chip selected, and then a reset
\* of the system after the RDID of the next check_flash() do have that byte
\* written.)
FlashRegsKept ==
    [][resets <= 1 =>
       /\ \A b \in 0 .. 7 : BitSet(chip'.sr, b) => BitSet(chip.sr, b) \/ b = 6
       /\ \A b \in 0 .. 7 : BitSet(chip'.cr, b) => BitSet(chip.cr, b) \/ b = 1
       /\ \A b \in 0 .. 7 : BitSet(chip.cr, b) => BitSet(chip'.cr, b)
       /\ chip.kind = "issi" /\ BitSet(chip.sr, 6) => BitSet(chip'.sr, 6)]_vars

\* Something is booted in the end.
Boots == <>[](pc = "jump")
=============================================================================
