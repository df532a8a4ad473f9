--------------------------- MODULE UartVerilator ---------------------------
(***************************************************************************)
(* The host side of the Verilator simulation: verilator/uart-verilator.c   *)
(* turns the serial output of the simulated SoC into bytes on stdout       *)
(* (uart_tx) and bytes from stdin into its serial input (uart_rx).  Both   *)
(* are called once per clock by main() of microwatt-verilator.cpp.         *)
(***************************************************************************)
EXTENDS Integers, Sequences

CONSTANTS CLK_FREQUENCY, BAUD,
          RX_INTERVAL,  \* clocks between two polls of stdin
          KEYS          \* KEYS[n]: what the n-th poll of stdin may find; bounds
                        \* the polls of a behaviour

VARIABLES tx_state, tx_countbits, tx_bits, tx_byte, tx_prev, stdout,
          rx_state, rx_char, rx_countbits, rx_bit, rx, rx_sometimes,
          typed,        \* bytes read from stdin so far
          polls, exited

txVars == <<tx_state, tx_countbits, tx_bits, tx_byte, tx_prev, stdout>>
rxVars == <<rx_state, rx_char, rx_countbits, rx_bit, rx, rx_sometimes,
            typed, polls, exited>>
hostVars == <<txVars, rxVars>>

NoKey == -1  \* poll() returned 0
CHARS == UNION {KEYS[n] : n \in DOMAIN KEYS} \ {NoKey}

BITWIDTH == (CLK_FREQUENCY + BAUD \div 2) \div BAUD

\* Bit k of a byte.
BitOf(c, k) == (c \div 2^k) % 2

\* The transition is not close to the start or the end of a bit.
is_error(c) == 100 * c <= 95 * BITWIDTH /\ 100 * c >= 5 * BITWIDTH

HostInit ==
    /\ tx_state = "IDLE" /\ tx_countbits = 0 /\ tx_bits = 0 /\ tx_byte = 0
    /\ tx_prev = 0 /\ stdout = <<>>
    /\ rx_state = "IDLE" /\ rx_char = 0 /\ rx_countbits = 0 /\ rx_bit = 0
    /\ rx = 1 /\ rx_sometimes = 0
    /\ typed = <<>> /\ polls = 0 /\ exited = FALSE

-----------------------------------------------------------------------------
(* uart_tx(): one operator per state of the switch.                        *)

TxFail == tx_countbits' = BITWIDTH * 2 /\ tx_state' = "ERROR"

TxIdle(tx) ==
    /\ IF tx = 0
       THEN /\ tx_state' = "START_BIT" /\ tx_countbits' = BITWIDTH
            /\ tx_bits' = 0 /\ tx_byte' = 0
       ELSE UNCHANGED <<tx_state, tx_countbits, tx_bits, tx_byte>>
    /\ UNCHANGED stdout

TxStart(tx) ==
    LET left == tx_countbits - 1 IN
    /\ IF tx = 1 /\ is_error(left) THEN TxFail
       ELSE IF left = 0 THEN tx_state' = "BITS" /\ tx_countbits' = BITWIDTH
       ELSE tx_countbits' = left /\ UNCHANGED tx_state
    /\ UNCHANGED <<tx_bits, tx_byte, stdout>>

TxSamples == tx_state = "BITS" /\ tx_countbits - 1 = BITWIDTH \div 2

TxBits(tx) ==
    LET left == tx_countbits - 1 IN
    /\ IF TxSamples
       THEN /\ tx_byte' = tx_byte + (IF tx = 1 THEN 2^tx_bits ELSE 0)
            /\ tx_bits' = tx_bits + 1
       ELSE UNCHANGED <<tx_byte, tx_bits>>
    /\ IF tx # tx_prev /\ is_error(left) THEN TxFail
       ELSE IF left = 0
            THEN /\ tx_state' = IF tx_bits = 8 THEN "STOP_BIT" ELSE "BITS"
                 /\ tx_countbits' = BITWIDTH
            ELSE tx_countbits' = left /\ UNCHANGED tx_state
    /\ UNCHANGED stdout

\* A start bit ends the stop bit early, and the countdown ends it too: when
\* both happen in the same clock the byte is written twice.
TxStop(tx) ==
    LET left == tx_countbits - 1
        early == IF tx = 0 THEN <<tx_byte>> ELSE <<>>
        ontime == IF left = 0 THEN <<tx_byte>> ELSE <<>>
    IN  /\ IF tx = 0 /\ is_error(left) THEN TxFail /\ UNCHANGED stdout
           ELSE /\ stdout' = stdout \o early \o ontime
                /\ tx_state' = IF tx = 0 \/ left = 0 THEN "IDLE" ELSE "STOP_BIT"
                /\ tx_countbits' = left
        /\ UNCHANGED <<tx_bits, tx_byte>>

TxError ==
    /\ tx_countbits' = tx_countbits - 1
    /\ tx_state' = IF tx_countbits = 1 THEN "IDLE" ELSE "ERROR"
    /\ UNCHANGED <<tx_bits, tx_byte, stdout>>

uart_tx(tx) ==
    /\ CASE tx_state = "IDLE" -> TxIdle(tx)
         [] tx_state = "START_BIT" -> TxStart(tx)
         [] tx_state = "BITS" -> TxBits(tx)
         [] tx_state = "STOP_BIT" -> TxStop(tx)
         [] tx_state = "ERROR" -> TxError
    /\ tx_prev' = tx

-----------------------------------------------------------------------------
(* uart_rx(): stdin is polled when the line is idle.                       *)

\* nonblocking_read() found a byte.
RxByte(c) ==
    /\ rx_state' = "START_BIT" /\ rx_char' = c /\ rx_countbits' = BITWIDTH
    /\ rx_bit' = 0 /\ rx' = 0
    /\ typed' = Append(typed, c)
    /\ UNCHANGED exited

\* It found nothing.
RxNothing ==
    /\ UNCHANGED <<rx_state, rx_char, rx_countbits, rx_bit, rx, typed, exited>>

\* read() did not return a byte, as at the end of a file: exit(1).
RxExit ==
    /\ exited' = TRUE
    /\ UNCHANGED <<rx_state, rx_char, rx_countbits, rx_bit, rx, typed>>

\* nonblocking_read() is called.
RxPoll ==
    /\ polls' = polls + 1
    /\ \/ /\ polls < Len(KEYS)
          /\ \E c \in KEYS[polls + 1] : IF c = NoKey THEN RxNothing ELSE RxByte(c)
       \/ RxExit

RxIdle ==
    /\ rx_state = "IDLE"
    /\ IF rx_sometimes >= RX_INTERVAL
       THEN rx_sometimes' = 0 /\ RxPoll
       ELSE /\ rx_sometimes' = rx_sometimes + 1
            /\ UNCHANGED <<rx_state, rx_char, rx_countbits, rx_bit, rx,
                           typed, polls, exited>>

RxLastCount == rx_countbits = 1

\* The level after the bit that ends: the next data bit or the stop bit.
NextBit == IF rx_bit = 7 THEN 1 ELSE BitOf(rx_char, rx_bit + 1)

RxSend ==
    /\ rx_state # "IDLE"
    /\ rx_countbits' = IF ~RxLastCount THEN rx_countbits - 1
                       ELSE IF rx_state = "STOP_BIT" THEN 0 ELSE BITWIDTH
    /\ IF RxLastCount
       THEN CASE rx_state = "START_BIT" ->
                 /\ rx_state' = "BITS" /\ rx' = BitOf(rx_char, 0)
                 /\ UNCHANGED rx_bit
              [] rx_state = "BITS" ->
                 /\ rx_bit' = rx_bit + 1 /\ rx' = NextBit
                 /\ rx_state' = IF rx_bit = 7 THEN "STOP_BIT" ELSE "BITS"
              [] rx_state = "STOP_BIT" ->
                 rx_state' = "IDLE" /\ UNCHANGED <<rx_bit, rx>>
       ELSE UNCHANGED <<rx_state, rx_bit, rx>>
    /\ UNCHANGED <<rx_char, rx_sometimes, typed, polls, exited>>

uart_rx == RxIdle \/ RxSend
=============================================================================
