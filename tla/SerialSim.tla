----------------------------- MODULE SerialSim -----------------------------
(***************************************************************************)
(* The Verilator simulation of the SoC running hello_world: main() of      *)
(* verilator/microwatt-verilator.cpp clocks the SoC, hands its transmit    *)
(* pin to uart_tx() and takes its receive pin from uart_rx().  Of the SoC  *)
(* the UART and the program on the core are here; the core makes an access *)
(* every `pace` clocks.                                                    *)
(***************************************************************************)
EXTENDS UartVerilator, Uart, Console

CONSTANT PACES  \* clocks between two accesses of the core to the UART

VARIABLES pace, phase,
          uart0_rxd,      \* the receive pin, as main() last set it
          arrived, kept,  \* history: bytes the UART has received, and kept
          behind          \* history: Owed at the last poll of stdin

vars == <<hostVars, uartVars, consoleVars, pace, phase, uart0_rxd,
          arrived, kept, behind>>

Terminal == INSTANCE EchoTerminal
            WITH CAPACITY <- FIFO_DEPTH, shown <- stdout, closed <- exited

\* Bytes of echo that are not on stdout yet; there is no telling before the
\* greeting is.
Unknown == -1
Owed == IF Terminal!Greeted THEN Len(Terminal!Expected) - Len(stdout) ELSE Unknown

\* uart_rx() is about to poll stdin.
Polling == rx_state = "IDLE" /\ rx_sometimes = RX_INTERVAL

\* Verilator starts the input pins at 0.
Init ==
    /\ HostInit /\ UartInit /\ ConsoleInit
    /\ pace \in PACES /\ phase = 0 /\ uart0_rxd = 0
    /\ arrived = 0 /\ kept = <<>> /\ behind = Unknown

\* The core does nothing to the UART in this clock.
CoreBusy ==
    /\ phase # pace - 1
    /\ phase' = phase + 1
    /\ UNCHANGED consoleVars
    /\ UartClock(<<>>, FALSE, uart0_rxd)

CoreAccess ==
    /\ phase = pace - 1
    /\ phase' = 0
    /\ \/ console_init(is16550)
       \/ Setup
       \/ putchar(tx_full)
       \/ getchar(rx_empty, IF PopsByte THEN Head(rxfifo) ELSE 0)
    /\ UartClock(RegWrite, PopsByte, uart0_rxd)

Observe ==
    /\ arrived' = IF RxPushes THEN arrived + 1 ELSE arrived
    /\ kept' = IF RxKeeps THEN Append(kept, rxbyte) ELSE kept
    /\ behind' = IF Polling THEN Owed ELSE behind

\* The loop body of main().
tick ==
    /\ CoreBusy \/ CoreAccess
    /\ uart_tx(txd')
    /\ uart_rx
    /\ uart0_rxd' = rx'
    /\ UNCHANGED pace
    /\ Observe

Next == ~exited /\ tick

Spec == Init /\ [][Next]_vars

-----------------------------------------------------------------------------
\* What the simulator prints is the greeting and then, in order, the echo of
\* each byte that the UART kept: across uart_rx(), the UART, the polling
\* loops of console.c and uart_tx(), no byte is repeated or damaged, and one
\* is lost only while the greeting is still being printed and the receive
\* FIFO is full, never after it.
ImplementsTerminal == Terminal!TermSpec

\* The two baud rates, 434 clocks per bit on the host and 16 * 27 in the SoC,
\* drift apart by 20 clocks over a frame, and uart_tx() reports an edge that
\* is more than 5% of a bit off.  It never has to: both receivers take each
\* bit while the sender is sending that very bit, and the UART sees the stop
\* bit when it keeps the byte.
SamplesInBit ==
    /\ tx_state # "ERROR"
    /\ TxSamples => txn \div 16 = tx_bits + 1
    /\ RxSamples => rx_state = "BITS" /\ rx_bit = rxn \div 16 - 1
    /\ RxPushes => rxd3 = 1

\* Once the greeting is out the echo outruns the typing: when uart_rx() polls
\* stdin, less echo is owed than at the poll before, or none, although each
\* poll may bring a byte (RX_INTERVAL clocks and a frame between two polls,
\* two frames for the echo of a carriage return).
EchoBeforePoll == Polling /\ behind # Unknown => Owed = 0 \/ Owed < behind
=============================================================================
