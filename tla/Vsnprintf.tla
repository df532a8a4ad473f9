----------------------------- MODULE Vsnprintf -----------------------------
(***************************************************************************)
(* vsnprintf() of the boot loader's libc.  A format is a sequence of       *)
(* characters.  What a call writes is a sequence of characters, without    *)
(* the NUL; room is how many more there may be.                            *)
(***************************************************************************)
EXTENDS CString, Sequences, SequencesExt

CONSTANT CHAR_BITS   \* width of char: 4 of them are an int, 8 a long

Zeichen == <<"0", "1", "2", "3", "4", "5", "6", "7", "8", "9",
             "a", "b", "c", "d", "e", "f">>
Upper == <<"0", "1", "2", "3", "4", "5", "6", "7", "8", "9",
           "A", "B", "C", "D", "E", "F">>

Conversions == {"d", "i", "u", "x", "X", "p", "c", "s", "%", "O", "o"}

\* convert[]: the values of so many bytes.
convert(bytes) == 2^(CHAR_BITS * bytes)

RECURSIVE print_intlen(_, _)
print_intlen(value, base) ==
    IF value < base THEN 1 ELSE 1 + print_intlen(value \div base, base)

RECURSIVE figures(_, _, _)
figures(value, base, set) ==
    (IF value < base THEN <<>> ELSE figures(value \div base, base, set))
    \o <<set[(value % base) + 1]>>

\* A number that does not fit is left out.
print_itoa(room, value, base, upper) ==
    IF print_intlen(value, base) > room THEN <<>>
    ELSE figures(value, base, IF upper THEN Upper ELSE Zeichen)

Least(a, b) == IF a < b THEN a ELSE b

\* The loops of print_fill() and print_str_fill().
fill(room, width, len, c) ==
    [j \in 1 .. (IF width > len THEN Least(width - len, room) ELSE 0) |-> c]

print_fill(room, width, value, base, c, optlen) ==
    fill(room, width, print_intlen(value, base) + optlen, c)

print_str(room, str) == SubSeq(str, 1, Least(Len(str), room))

-----------------------------------------------------------------------------
(* print_format().  form is a conversion from % to its letter.             *)

ZeroPadded(form) == form[2] \in {"0", "."}

Width(form) ==
    LET from == IF ZeroPadded(form) THEN 3 ELSE 2
        figs == SelectSeq(SubSeq(form, from, Len(form) - 1), LAMBDA c : c \in ToSet(SubSeq(Zeichen, 1, 10)))
    IN  FoldLeft(LAMBDA n, c : 10 * n + (CHOOSE k \in 0 .. 9 : Zeichen[k + 1] = c), 0, figs)

\* Bytes of the argument.
length_mod(form) ==
    LET h == Len(SelectSeq(form, LAMBDA c : c = "h")) IN
    CASE \E j \in DOMAIN form : form[j] \in {"l", "z"} -> 8
      [] h >= 2 -> 1
      [] h = 1 -> 2
      [] OTHER -> 4

\* Padding and figures.  The padding may leave the figures no room.
padded(room, width, value, base, c, upper) ==
    LET f == print_fill(room, width, value, base, c, 0)
    IN  f \o print_itoa(room - Len(f), value, base, upper)

\* Mutant: the sign bit is that of an int, whatever the length modifier.
signBit_int(bytes) == convert(4) \div 2

signBit(bytes) == convert(bytes) \div 2

\* A negative number: the sign, then the padding.
print_signed(room, form, var) ==
    LET bytes == length_mod(form)
        c == IF ZeroPadded(form) THEN "0" ELSE " "
        negative == Last(form) # "u" /\ (var \div signBit(bytes)) % 2 = 1
        value == IF negative THEN (convert(8) - var) % convert(bytes) ELSE var
    IN  IF negative
        THEN <<"-">> \o padded(room - 1, Width(form), value, 10, c, FALSE)
        ELSE padded(room, Width(form), value, 10, c, FALSE)

print_pointer(room, form, var) ==
    LET f == print_fill(room, Width(form), var, 16, " ", 2)
        x == print_str(room - Len(f), <<"0", "x">>)
    IN  f \o x \o print_itoa(room - Len(f) - Len(x), var, 16, FALSE)

\* There is no test of the room for the character itself.
print_char(room, form, var) == print_fill(room, Width(form), 1, 10, " ", 0) \o <<var>>

print_string(room, form, str) ==
    LET f == fill(room, Width(form), Len(str), " ")
    IN  f \o print_str(room - Len(f), str)

print_format(room, form, var) ==
    LET c == IF ZeroPadded(form) THEN "0" ELSE " "
        l == Last(form)
    IN  CASE l \in {"u", "d", "i"} -> print_signed(room, form, var)
          [] l \in {"x", "X"} -> padded(room, Width(form), var % convert(length_mod(form)),
                                        16, c, l = "X")
          [] l \in {"o", "O"} -> padded(room, Width(form), var % convert(length_mod(form)),
                                        8, c, FALSE)
          [] l = "p" -> print_pointer(room, form, var)
          [] l = "c" -> print_char(room, form, var)
          [] l = "s" -> print_string(room, form, var)

-----------------------------------------------------------------------------
(* vsnprintf().                                                            *)

\* Number of characters of the conversion that format begins with.
ConversionLength(format) ==
    CHOOSE n \in 2 .. Len(format) :
        format[n] \in Conversions /\ \A k \in 2 .. n - 1 : format[k] \notin Conversions

RECURSIVE print_all(_, _, _, _)
print_all(room, out, format, args) ==
    IF format = <<>> \/ Len(out) >= room THEN out
    ELSE IF format[1] # "%" THEN print_all(room, Append(out, format[1]), Tail(format), args)
    ELSE LET n == ConversionLength(format)
             rest == SubSeq(format, n + 1, Len(format))
         IN  IF format[n] = "%" THEN print_all(room, Append(out, "%"), rest, args)
             ELSE print_all(room, out \o print_format(room - Len(out), SubSeq(format, 1, n),
                                                      args[1]),
                            rest, Tail(args))

\* What is written before the NUL; nothing, not even that, without a buffer.  A
\* conversion is taken to fit formstr[], of 20 characters, which is not tested.
vsnprintf(buffer, bufsize, format, args) ==
    IF buffer = NULL \/ bufsize = 0 THEN <<>>
    ELSE print_all(bufsize - 1, <<>>, format, args)
=============================================================================
