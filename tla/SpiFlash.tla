------------------------------ MODULE SpiFlash ------------------------------
(***************************************************************************)
(* The SPI flash controller as the boot loader sees it, its data, control  *)
(* and configuration registers and its memory map, with a flash chip on    *)
(* the bus.  The chip is external: it is modelled from the commands that   *)
(* main.c sends and the answers it expects.                                *)
(***************************************************************************)
EXTENDS Integers, Sequences

CONSTANT TXN   \* bound: bytes of a bus transaction that are told apart

VARIABLES ctrl_cs,   \* manual chip select
          auto_cfg,  \* how the memory map reads
          chip

spiVars == <<ctrl_cs, auto_cfg, chip>>

\* SPI_CMD_*.
RDID == 159
RDCR == 53
WREN == 6
RDSR == 5
WWR == 1
READ == 3
QUAD_FREAD == 107
QUAD_FREAD_4BA == 108

BitSet(b, i) == (b \div 2^i) % 2 = 1
SetBit(b, i) == IF BitSet(b, i) THEN b ELSE b + 2^i

-----------------------------------------------------------------------------
(* The chip.                                                               *)

Kinds == {"none", "pulled up", "spansion", "micron", "issi", "other"}

ID(kind) == CASE kind = "spansion" -> <<1, 32, 24>>
              [] kind = "micron" -> <<32, 186, 24>>
              [] kind = "issi" -> <<157, 96, 25>>
              [] OTHER -> <<239, 64, 24>>

\* A chip of some kind, with protection bits, quad mode on or off.
Chips ==
    {[kind |-> k, sr |-> IF k = "issi" /\ q THEN 92 ELSE 28,
      cr |-> IF k = "spansion" /\ q THEN 34 ELSE 32,
      wel |-> FALSE, wip |-> FALSE, new |-> <<>>, txn |-> <<>>, deaf |-> FALSE] :
        k \in Kinds, q \in BOOLEAN}

\* The next byte of a transaction: what the chip sends meanwhile, and what it
\* remembers.  While it writes it hears only RDSR.
Sends ==
    LET n == Len(chip.txn)
        cmd == chip.txn[1]
    IN  CASE chip.kind = "none" -> 0
          [] chip.kind = "pulled up" \/ chip.deaf \/ n = 0 -> 255
          [] cmd = RDID -> IF n <= 3 THEN ID(chip.kind)[n] ELSE 0
          [] cmd = RDSR -> IF chip.wip THEN SetBit(chip.sr, 0) ELSE chip.sr
          [] cmd = RDCR /\ chip.kind = "spansion" -> chip.cr
          [] OTHER -> 255

Hears(b) ==
    [chip EXCEPT !.txn = IF Len(@) < TXN THEN Append(@, b) ELSE @,
                 !.deaf = IF chip.txn = <<>> THEN chip.wip /\ b # RDSR ELSE @]

\* The end of a transaction.  A register write counts only if it has the one
\* byte, or for Spansion the one or two bytes, it should have.
Deselected ==
    LET t == chip.txn
        sizes == IF chip.kind = "spansion" THEN {2, 3} ELSE {2}
        idle == [chip EXCEPT !.txn = <<>>, !.deaf = FALSE]
        real == chip.kind \notin {"none", "pulled up"}
    IN  IF t = <<>> \/ chip.deaf \/ ~real THEN idle
        ELSE IF t = <<WREN>> THEN [idle EXCEPT !.wel = TRUE]
        ELSE IF t[1] = WWR /\ chip.wel /\ Len(t) \in sizes
             THEN [idle EXCEPT !.wip = TRUE, !.wel = FALSE, !.new = Tail(t)]
        ELSE idle

\* The chip finishes a register write; the two lowest status bits are its own.
ChipDone ==
    /\ chip.wip
    /\ chip' = [chip EXCEPT !.wip = FALSE, !.new = <<>>, !.sr = chip.new[1] - (chip.new[1] % 4),
                            !.cr = IF Len(chip.new) = 2 THEN chip.new[2] ELSE @]
    /\ UNCHANGED <<ctrl_cs, auto_cfg>>

\* The chip answers the quad read command that it is sent.
QuadAnswers(cmd) ==
    CASE chip.kind = "spansion" -> BitSet(chip.cr, 1) /\ cmd = QUAD_FREAD
      [] chip.kind = "micron" -> cmd = QUAD_FREAD
      [] chip.kind = "issi" -> BitSet(chip.sr, 6)
      [] OTHER -> FALSE

-----------------------------------------------------------------------------
(* The controller.                                                         *)

DefaultCfg(quad) == IF quad THEN [cmd |-> QUAD_FREAD, quad |-> TRUE, addr4 |-> FALSE]
                    ELSE [cmd |-> READ, quad |-> FALSE, addr4 |-> FALSE]

SpiInit(quad) == ctrl_cs = FALSE /\ auto_cfg = DefaultCfg(quad) /\ chip \in Chips

\* A read through the memory map gets the contents of the flash.
MapReads ==
    /\ chip.kind \notin {"none", "pulled up"} /\ ~chip.wip
    /\ auto_cfg.quad => QuadAnswers(auto_cfg.cmd)
    /\ auto_cfg.addr4 = (auto_cfg.cmd = QUAD_FREAD_4BA)

\* SPI_REG_CTRL: the chip select.
WriteCtrl(cs) ==
    /\ ctrl_cs' = cs
    /\ chip' = IF ctrl_cs /\ ~cs THEN Deselected ELSE chip
    /\ UNCHANGED auto_cfg

\* SPI_REG_DATA without chip select is an ordinary register access, which
\* does nothing.
Transfer(b) ==
    /\ chip' = IF ctrl_cs THEN Hears(b) ELSE chip
    /\ UNCHANGED <<ctrl_cs, auto_cfg>>

SpiReset(quad) ==
    /\ ctrl_cs' = FALSE /\ auto_cfg' = DefaultCfg(quad)
    /\ chip' = IF ctrl_cs THEN Deselected ELSE chip
=============================================================================
