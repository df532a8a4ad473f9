----------------------------- MODULE DebugRegs -----------------------------
(***************************************************************************)
(* The debug registers as mw_debug.c and the hardware both name them, and  *)
(* the bits of a DMI message: operation, data, address.                    *)
(***************************************************************************)
EXTENDS Integers, Sequences

CONSTANTS DBITS,    \* width of a DMI register, 64 in the code
          LOGBITS   \* width of a log address, 32 in the code

ABITS == 8
MSGBITS == 2 + DBITS + ABITS

\* DMI addresses, for core 0, operations and status.
WB_ADDR == 0
WB_DATA == 1
WB_CTRL == 2
CORE_CTRL == 16
CORE_STAT == 17
CORE_NIA == 18
CORE_MSR == 19
GSPR_INDEX == 20
GSPR_DATA == 21
LOG_ADDR == 22
LOG_DATA == 23
LOG_TRIGGER == 24
LOG_MTRIGGER == 25
SIM_QUIT == 255
NOP == 0
RD == 1
WR == 2
BSY == 3

LOG_STOP == 2^(LOGBITS - 1)

BitAt(n, k) == (n \div 2^k) % 2

\* A number as bits, least significant first, and back.
Bits(n, w) == [i \in 1 .. w |-> BitAt(n, i - 1)]
RECURSIVE Number(_)
Number(b) == IF b = <<>> THEN 0 ELSE b[1] + 2 * Number(Tail(b))
=============================================================================
