------------------------------- MODULE Strto -------------------------------
(***************************************************************************)
(* strtoul() and strtol() of the boot loader's libc.                       *)
(***************************************************************************)
EXTENDS CString

CONSTANT LONG_BITS   \* width of long

LONG == 2^LONG_BITS

digit(c) == CASE c \in 48 .. 57 -> c - 48
              [] c \in 97 .. 122 -> c - 97 + 10
              [] c \in 65 .. 90 -> c - 65 + 10
              [] OTHER -> 99

RECURSIVE skip_white(_, _)
skip_white(m, p) == IF m[p] \in {32, 9, 10, 13} THEN skip_white(m, p + 1) ELSE p

Hex(m, p) == m[p] = 48 /\ m[p + 1] = 120

\* Base 0 means that of a prefix; the prefix of base 16 is skipped.
base_of(m, p, base) == CASE base # 0 -> base [] Hex(m, p) -> 16 [] OTHER -> 10
skip_prefix(m, p, base) == IF base = 16 /\ Hex(m, p) THEN p + 2 ELSE p

\* Mutant: the first digit that is too big for the base still ends up in it.
RECURSIVE digits_over(_, _, _, _)
digits_over(m, p, base, rval) ==
    IF m[p] = 0 \/ digit(m[p]) > base THEN [val |-> rval, end |-> p]
    ELSE digits_over(m, p + 1, base, (rval * base + digit(m[p])) % LONG)

\* The loop over the digits, in the arithmetic of unsigned long.
RECURSIVE digits(_, _, _, _)
digits(m, p, base, rval) ==
    IF m[p] = 0 \/ digit(m[p]) >= base THEN [val |-> rval, end |-> p]
    ELSE digits(m, p + 1, base, (rval * base + digit(m[p])) % LONG)

number(m, p, base) ==
    LET b == base_of(m, p, base) IN digits(m, skip_prefix(m, p, b), b, 0)

strtoul(m, s, base) ==
    IF base < 0 \/ base > 36 THEN [val |-> 0, end |-> s]
    ELSE number(m, skip_white(m, s), base)

Signed(v) == IF v >= LONG \div 2 THEN v - LONG ELSE v

\* A minus sign is accepted, a plus sign is not.  Overflow wraps.
strtol(m, s, base) ==
    LET p == skip_white(m, s)
        n == number(m, IF m[p] = 45 THEN p + 1 ELSE p, base)
    IN  IF base < 0 \/ base > 36 THEN [val |-> 0, end |-> s]
        ELSE [val |-> Signed(IF m[p] = 45 THEN (LONG - n.val) % LONG ELSE n.val),
              end |-> n.end]
=============================================================================
