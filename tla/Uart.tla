-------------------------------- MODULE Uart --------------------------------
(***************************************************************************)
(* The SoC's UART, fpga/pp_soc_uart.vhd or the 16550 of uart16550/, one    *)
(* step per clock.  Both run on a sample tick, sixteen ticks per bit, and  *)
(* a frame is counted in ticks here: start 0..15, data 16..143, stop from  *)
(* 144.  The registers between the processor, the FIFOs and the tick       *)
(* counters, which delay everything alike, are left out, and so is a frame *)
(* whose stop bit reads low (SamplesInBit shows that there is none).       *)
(***************************************************************************)
EXTENDS Integers, Sequences

CONSTANT FIFO_DEPTH

VARIABLES is16550, divisor, dlab, sample, counter, \* sample clock
          txfifo, txn, txbyte, block,              \* transmitter
          rxfifo, rxn, rxbyte, rxd2, rxd3          \* receiver

uartVars == <<is16550, divisor, dlab, sample, counter, txfifo, txn, txbyte,
              block, rxfifo, rxn, rxbyte, rxd2, rxd3>>

\* txn and rxn are the last tick done of the frame; these mean no frame.
TxIdleAt == IF is16550 THEN 157 ELSE 159
RxIdleAt == -1

\* 16550: ticks for which THRE is held off after a write to an empty FIFO.
block_value == 143

UartInit ==
    /\ is16550 \in BOOLEAN
    /\ divisor = 0 /\ dlab = FALSE /\ sample = 0 /\ counter = 0
    /\ txfifo = <<>> /\ txn = TxIdleAt /\ txbyte = 0 /\ block = 0
    /\ rxfifo = <<>> /\ rxn = RxIdleAt /\ rxbyte = 0 /\ rxd2 = 1 /\ rxd3 = 1

\* The transmit pin.
txd == IF txn < 16 THEN 0
       ELSE IF txn < 144 THEN (txbyte \div 2^(txn \div 16 - 1)) % 2
       ELSE 1

\* What the status registers tell the processor.
rx_empty == rxfifo = <<>>
tx_full == IF is16550 THEN ~(txfifo = <<>> /\ block = 0)
           ELSE Len(txfifo) = FIFO_DEPTH

-----------------------------------------------------------------------------
(* The sample clock.  The 16550 counts divisor clocks, the potato UART     *)
(* divisor + 1; a divisor of zero stops either.                            *)

Period == IF is16550 THEN divisor ELSE divisor + 1
SampleTick == divisor # 0 /\ sample = Period - 1

\* A write w is <<>> or <<register, value>>.
Writes(w, reg) == w # <<>> /\ w[1] = reg
WritesTx(w) == Writes(w, "TX") /\ ~dlab

SampleClock(w) ==
    /\ sample' = IF divisor = 0 \/ SampleTick \/ Writes(w, "DLL") THEN 0
                 ELSE sample + 1
    /\ counter' = IF SampleTick THEN (counter + 1) % 16 ELSE counter
    /\ divisor' = CASE Writes(w, "CLOCK_DIV") -> w[2] % 256
                    [] Writes(w, "DLL") /\ dlab -> (divisor \div 256) * 256 + w[2]
                    [] Writes(w, "DLM") /\ dlab -> w[2] * 256 + (divisor % 256)
                    [] OTHER -> divisor
    /\ dlab' = IF Writes(w, "LCR") THEN w[2] >= 128 ELSE dlab
    /\ UNCHANGED is16550

-----------------------------------------------------------------------------
(* Transmitter.                                                            *)

\* The tick takes a byte from the FIFO: s_pop_byte, the tick before the start
\* bit, in the 16550; the first tick of the start bit, which only begins on
\* every sixteenth tick, in the potato UART.
Pops == /\ SampleTick
        /\ IF is16550 THEN txn = 158
           ELSE txn = 159 /\ counter = 15 /\ txfifo # <<>>

TxNext == CASE txn = TxIdleAt /\ ~Pops /\ (~is16550 \/ txfifo = <<>>) -> txn
            [] txn = 159 -> 0
            [] OTHER -> txn + 1

Transmit(w) ==
    LET rest == IF Pops THEN Tail(txfifo) ELSE txfifo IN
    /\ txfifo' = CASE WritesTx(w) -> IF Len(txfifo) < FIFO_DEPTH
                                     THEN Append(rest, w[2]) ELSE rest
                   [] Writes(w, "FCR") -> <<>>
                   [] OTHER -> rest
    /\ txn' = IF SampleTick THEN TxNext ELSE txn
    /\ txbyte' = IF Pops THEN Head(txfifo) ELSE txbyte
    /\ block' = CASE is16550 /\ WritesTx(w) /\ ~tx_full -> block_value
                  [] SampleTick /\ block # 0 -> block - 1
                  [] OTHER -> block

-----------------------------------------------------------------------------
(* Receiver: two flip-flops on the pin, data bit k sampled at tick 24+16k  *)
(* after the tick that saw the start bit.                                  *)

RxSamples == SampleTick /\ rxn \in 23 .. 135 /\ rxn % 16 = 7
RxPushes == SampleTick /\ rxn = IF is16550 THEN 152 ELSE 151

\* A byte that finds the FIFO full is dropped.
RxKeeps == RxPushes /\ Len(rxfifo) < FIFO_DEPTH

\* Only the 16550 looks at the start bit again, half a bit after its edge.
RxFalseStart == is16550 /\ rxn = 7 /\ rxd3 = 1

RxNext == CASE rxn = RxIdleAt -> IF rxd3 = 0 THEN 0 ELSE RxIdleAt
            [] RxFalseStart \/ RxPushes -> RxIdleAt
            [] OTHER -> rxn + 1

Receive(w, pop, rxd) ==
    LET rest == IF pop THEN Tail(rxfifo) ELSE rxfifo
    IN  /\ rxd2' = rxd /\ rxd3' = rxd2
        /\ rxn' = IF SampleTick THEN RxNext ELSE rxn
        /\ rxbyte' = CASE RxSamples -> rxbyte + rxd3 * 2^(rxn \div 16 - 1)
                       [] rxn = RxIdleAt -> 0
                       [] OTHER -> rxbyte
        /\ rxfifo' = IF Writes(w, "FCR") THEN <<>>
                     ELSE IF RxKeeps THEN Append(rest, rxbyte) ELSE rest

\* One clock, in which the processor may write a register or read a byte.
UartClock(w, pop, rxd) ==
    SampleClock(w) /\ Transmit(w) /\ Receive(w, pop, rxd)
=============================================================================
