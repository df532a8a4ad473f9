------------------------------ MODULE Console ------------------------------
(***************************************************************************)
(* lib/console.c as hello_world/hello_world.c uses it: console_init, the   *)
(* greeting, then an echo loop.  A step is one access to the UART; the     *)
(* loops of getchar() and putchar() are a step per poll.                   *)
(***************************************************************************)
EXTENDS Integers, Sequences, SequencesExt

CONSTANTS PROC_FREQ,           \* frequency that SYS_REG_CLKINFO reports
          UART_BAUDS,
          LOGO1, LOGO2, DIRTY, \* the texts main() prints, as byte sequences
          GITINFO,             \* hexadecimal digits of the git hash
          IS_DIRTY

VARIABLES pc, uart_is_std,
          setup,   \* register writes that console_init has still to do
          out      \* bytes that have still to go through putchar()

consoleVars == <<pc, uart_is_std, setup, out>>

LF == 10
CR == 13

\* Mutant: eight samples per bit.
uart_divisor_8x(freq, bauds) == freq \div (bauds * 8)

uart_divisor(freq, bauds) == freq \div (bauds * 16)

potato_uart_init(freq) ==
    <<<<"CLOCK_DIV", uart_divisor(freq, UART_BAUDS) - 1>>>>

std_uart_init(freq) ==
    LET div == uart_divisor(freq, UART_BAUDS) IN
    <<<<"LCR", 128>>, <<"DLL", div % 256>>, <<"DLM", div \div 256>>,
      <<"LCR", 3>>, <<"MCR", 3>>, <<"FCR", 7>>>>

\* puts() sends a carriage return before every line feed.
puts(str) == FlattenSeq([i \in DOMAIN str |->
                            IF str[i] = LF THEN <<CR, LF>> ELSE <<str[i]>>])

HexDigit(c) == IF c >= 10 THEN 97 + c - 10 ELSE 48 + c

Greeting == puts(LOGO1)
            \o [i \in DOMAIN GITINFO |-> HexDigit(GITINFO[i])]
            \o (IF IS_DIRTY THEN puts(DIRTY) ELSE <<>>)
            \o puts(LOGO2)

\* Mutant: the line end goes through puts() as "\r\n".
EchoOf_puts(c) == IF c = CR THEN <<CR>> \o puts(<<CR, LF>>) ELSE <<c>>

\* What the loop of main() sends for a byte.
EchoOf(c) == IF c = CR THEN <<CR, LF>> ELSE <<c>>

ConsoleInit ==
    pc = "console_init" /\ uart_is_std = FALSE /\ setup = <<>> /\ out = <<>>

-----------------------------------------------------------------------------
(* The write a step makes, <<>> if none, and whether it reads a byte.      *)

RegWrite == CASE pc = "setup" -> Head(setup)
              [] pc = "write" -> <<"TX", Head(out)>>
              [] OTHER -> <<>>

PopsByte == pc = "read"

\* console_init() asks the system controller which UART there is.
console_init(is_16550) ==
    /\ pc = "console_init"
    /\ uart_is_std' = is_16550
    /\ setup' = IF is_16550 THEN std_uart_init(PROC_FREQ)
                ELSE potato_uart_init(PROC_FREQ)
    /\ pc' = "setup"
    /\ UNCHANGED out

Setup ==
    /\ pc = "setup"
    /\ setup' = Tail(setup)
    /\ IF Tail(setup) = <<>> THEN pc' = "put" /\ out' = Greeting
       ELSE UNCHANGED <<pc, out>>
    /\ UNCHANGED uart_is_std

\* Mutant: a full transmitter is not waited for.
putchar_nowait(full) ==
    \/ /\ pc = "put"
       /\ pc' = "write"
       /\ UNCHANGED <<uart_is_std, setup, out>>
    \/ /\ pc = "write"
       /\ out' = Tail(out)
       /\ pc' = IF Tail(out) = <<>> THEN "get" ELSE "put"
       /\ UNCHANGED <<uart_is_std, setup>>

putchar(full) ==
    \/ /\ pc = "put"
       /\ pc' = IF full THEN "put" ELSE "write"
       /\ UNCHANGED <<uart_is_std, setup, out>>
    \/ /\ pc = "write"
       /\ out' = Tail(out)
       /\ pc' = IF Tail(out) = <<>> THEN "get" ELSE "put"
       /\ UNCHANGED <<uart_is_std, setup>>

getchar(empty, c) ==
    \/ /\ pc = "get"
       /\ pc' = IF empty THEN "get" ELSE "read"
       /\ UNCHANGED <<uart_is_std, setup, out>>
    \/ /\ pc = "read"
       /\ out' = EchoOf(c)
       /\ pc' = "put"
       /\ UNCHANGED <<uart_is_std, setup>>
=============================================================================
