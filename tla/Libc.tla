-------------------------------- MODULE Libc --------------------------------
(***************************************************************************)
(* Calls of the boot loader's libc, each checked against what the function *)
(* is for.  strtok() keeps a pointer between calls.                        *)
(***************************************************************************)
EXTENDS Strto, Vsnprintf, FiniteSets

CONSTANTS DATA, TEXTS, NUMBERS,  \* contents of memory: bytes, strings, numerals
          PATTERNS,              \* sets of separators
          BASES,
          FORMATS,               \* formats with their arguments, and the value that
                                 \* a single number has in its type
          SIZES,                 \* buffer sizes
          MaxSize                \* a big enough one

VARIABLES mem, nxtTok,
          call,      \* the last call: its function, arguments and result
          before,    \* history: memory at first
          tokens     \* history: strings that strtok() has returned

libcVars == <<mem, nxtTok, call, before, tokens>>

NoCall == [fn |-> "none"]

LibcInit == /\ mem \in DATA \cup TEXTS \cup NUMBERS
            /\ nxtTok = NULL /\ call = NoCall /\ before = mem /\ tokens = <<>>

Fresh == call = NoCall

\* A call with arguments p, q and n, after which the memory is m.
Calls(fn, p, q, n, ret, m) ==
    /\ call' = [fn |-> fn, p |-> p, q |-> q, n |-> n, ret |-> ret]
    /\ mem' = m /\ UNCHANGED before

Addr == DOMAIN mem
Fits(p, n) == p + n - 1 \in Addr \/ n = 0

\* Blocks that overlap go to memmove().
CallCopy ==
    /\ Fresh /\ mem \in DATA
    /\ \E p, q \in Addr : \E n \in 0 .. Cardinality(Addr) :
         /\ Fits(p, n) /\ Fits(q, n)
         /\ \/ Calls("memmove", p, q, n, p, memmove(mem, p, q, n))
            \/ (p + n <= q \/ q + n <= p)
               /\ Calls("memcpy", p, q, n, p, memcpy(mem, p, q, n))
            \/ q \in {0, 1} /\ Calls("memset", p, 300 * q, n, p, memset(mem, p, 300 * q, n))
            \/ p <= q /\ Calls("memchr", p, q, n, memchr(mem, p, 256 + mem[q], n), mem)
    /\ UNCHANGED <<nxtTok, tokens>>

Strings == {p \in Addr : \E e \in Addr : e >= p /\ mem[e] = 0}

\* A copy is made where it fits and does not reach its source.
CallString ==
    /\ Fresh /\ mem \in TEXTS
    /\ \E p, q \in Strings :
         \/ Calls("strcmp", p, q, 0, strcmp(mem, p, q), mem)
         \/ Calls("strcasecmp", p, q, 0, strcasecmp(mem, p, q), mem)
         \/ \E n \in 0 .. 2 : Calls("strncmp", p, q, n, strncmp(mem, p, q, n), mem)
         \/ \E n \in 0 .. 2 : Calls("strncasecmp", p, q, n, strncasecmp(mem, p, q, n), mem)
         \/ \E n \in 0 .. 2 : /\ Fits(p, n) /\ Fits(q, n)
                              /\ Calls("memcmp", p, q, n, memcmp(mem, p, q, n), mem)
         \/ \E hay \in {p, NULL}, needle \in {q, NULL} :
               Calls("strstr", hay, needle, 0, strstr(mem, hay, needle), mem)
         \/ Calls("strchr", p, 256 + mem[q], 0, strchr(mem, p, 256 + mem[q]), mem)
         \/ Calls("strrchr", p, 256 + mem[q], 0, strrchr(mem, p, 256 + mem[q]), mem)
         \/ Fits(p, q) /\ Calls("strnlen", p, 0, q, strnlen(mem, p, q), mem)
         \/ /\ q > p + strlen(mem, p) /\ Fits(p, strlen(mem, q) + 1)
            /\ p + strlen(mem, q) < q
            /\ Calls("strcpy", p, q, 0, p, strcpy(mem, p, q))
         \/ /\ q > p + strlen(mem, p) /\ p + strlen(mem, p) + strlen(mem, q) < q
            /\ Calls("strcat", p, q, 0, p, strcat(mem, p, q))
         \/ \E n \in 0 .. 3 : /\ p + n <= q
                              /\ Calls("strncpy", p, q, n, p, strncpy(mem, p, q, n))
    /\ UNCHANGED <<nxtTok, tokens>>

StringAt(m, p) == [j \in 1 .. strlen(m, p) |-> m[p + j - 1]]

\* strtok() on the string at 0, until it returns NULL.  n is the set of
\* separators.
CallStrtok ==
    /\ (Fresh /\ mem \in TEXTS) \/ (call.fn = "strtok" /\ call.ret # NULL)
    /\ \E pattern \in IF Fresh THEN PATTERNS ELSE {call.n} :
         LET src == IF Fresh THEN 0 ELSE NULL
             r == strtok(mem, nxtTok, src, pattern)
         IN  /\ Calls("strtok", src, 0, pattern, r.ret, r.mem)
             /\ nxtTok' = r.nxtTok
             /\ tokens' = IF r.ret = NULL THEN tokens
                          ELSE Append(tokens, StringAt(r.mem, r.ret))

CallStrto ==
    /\ Fresh /\ mem \in NUMBERS
    /\ \E base \in BASES : \/ Calls("strtoul", 0, 0, base, strtoul(mem, 0, base), mem)
                           \/ Calls("strtol", 0, 0, base, strtol(mem, 0, base), mem)
    /\ UNCHANGED <<nxtTok, tokens>>

CallPrintf ==
    /\ Fresh /\ mem \in DATA
    /\ \E f \in FORMATS, bufsize \in SIZES, buffer \in {NULL, 0} :
         Calls("vsnprintf", buffer, f, bufsize,
               vsnprintf(buffer, bufsize, f.format, f.args), mem)
    /\ UNCHANGED <<nxtTok, tokens>>

CallCtype ==
    /\ Fresh /\ mem \in DATA
    /\ \E ch \in 0 .. 127 :
         Calls("ctype", ch, 0, 0,
               [space |-> isspace(ch), digit |-> isdigit(ch), xdigit |-> isxdigit(ch),
                print |-> isprint(ch), up |-> toupper(ch), low |-> tolower(ch)], mem)
    /\ UNCHANGED <<nxtTok, tokens>>

LibcNext ==
    CallCopy \/ CallString \/ CallStrtok \/ CallStrto \/ CallPrintf \/ CallCtype

-----------------------------------------------------------------------------
Done(fns) == call.fn \in fns

\* The memory as at first, but for the bytes of seq at p.
With(p, seq) == [a \in Addr |-> IF a - p + 1 \in DOMAIN seq THEN seq[a - p + 1]
                                ELSE before[a]]
Block(p, n) == [j \in 1 .. n |-> before[p + j - 1]]
Text(p) == StringAt(before, p)

\* memmove() copies as if by way of a buffer however the blocks overlap, though
\* memcpy() under it moves doublewords; the copies write all they should and no
\* byte beside it, the NUL of a string included.
CopiesExactly ==
    /\ Done({"memmove", "memcpy"}) => mem = With(call.p, Block(call.q, call.n))
    /\ Done({"memset"}) => mem = With(call.p, [j \in 1 .. call.n |-> call.q % 256])
    /\ Done({"strcpy"}) => mem = With(call.p, Append(Text(call.q), 0))
    /\ Done({"strcat"}) => mem = With(call.p, Append(Text(call.p) \o Text(call.q), 0))
    /\ Done({"strncpy"}) =>
         mem = With(call.p, [j \in 1 .. call.n |->
                               IF j <= Len(Text(call.q)) THEN Text(call.q)[j] ELSE 0])

Cut(str, n) == SubSeq(str, 1, Least(n, Len(str)))
Capitals(str) == [j \in DOMAIN str |-> toupper(str[j])]
Sign(n) == IF n > 0 THEN 1 ELSE IF n < 0 THEN -1 ELSE 0

\* -1, 0 or 1 for the order of two strings in a dictionary.
Order(x, y) ==
    LET at(str, j) == IF j <= Len(str) THEN str[j] ELSE 0
        differ == {j \in 1 .. Len(x) + 1 : at(x, j) # at(y, j)}
    IN  IF x = y THEN 0
        ELSE LET j == CHOOSE k \in differ : \A l \in differ : k <= l
             IN  Sign(at(x, j) - at(y, j))

\* The comparisons agree with the order of the strings, or of the n characters
\* they are limited to.  strcasecmp() agrees on equality only: its result is the
\* difference of the characters as they are, unlike that of strncasecmp().
ComparesRight ==
    LET x == Text(call.p)
        y == Text(call.q)
    IN  /\ Done({"strcmp"}) => Sign(call.ret) = Order(x, y)
        /\ Done({"strncmp"}) => Sign(call.ret) = Order(Cut(x, call.n), Cut(y, call.n))
        /\ Done({"strncasecmp"}) =>
             Sign(call.ret) = Order(Capitals(Cut(x, call.n)), Capitals(Cut(y, call.n)))
        /\ Done({"strcasecmp"}) => (call.ret = 0) = (Capitals(x) = Capitals(y))
        /\ Done({"memcmp"}) =>
             Sign(call.ret) = Order(Block(call.p, call.n), Block(call.q, call.n))

\* Addresses from p on at which what() holds, and the first one.
Where(p, n, what(_)) == {a \in p .. p + n - 1 : what(a)}
FirstOf(S) == IF S = {} THEN NULL ELSE CHOOSE a \in S : \A b \in S : a <= b
LastOf(S) == IF S = {} THEN NULL ELSE CHOOSE a \in S : \A b \in S : a >= b

\* The searches return the first, or the last, place, and NULL only if there is
\* none.  (The NUL is not found by strchr() and strrchr().)
FindsRight ==
    LET len == Len(Text(call.p))
        isC(a) == before[a] = call.q % 256
        same(a) == before[a] = before[call.q]
        isStr(a) == Cut(StringAt(before, a), Len(Text(call.q))) = Text(call.q)
    IN  /\ Done({"memchr"}) => call.ret = FirstOf(Where(call.p, call.n, same))
        /\ Done({"strchr"}) => call.ret = FirstOf(Where(call.p, len, isC))
        /\ Done({"strrchr"}) => call.ret = LastOf(Where(call.p, len, isC))
        /\ Done({"strstr"}) =>
             call.ret = IF NULL \in {call.p, call.q} THEN NULL
                        ELSE FirstOf(Where(call.p, len + 1, isStr))
        /\ Done({"strnlen"}) => call.ret = Least(len, call.n)

\* What the memory and string functions promise.
StringFunctionsRight == CopiesExactly /\ ComparesRight /\ FindsRight

\* The tokens of a string: its longest parts without separators.
Starts(str, pattern) ==
    {j \in DOMAIN str : str[j] \notin pattern /\ (j > 1 => str[j - 1] \in pattern)}
TokenAt(str, j, pattern) ==
    CHOOSE t \in {SubSeq(str, j, k) : k \in j .. Len(str)} :
        /\ \A l \in DOMAIN t : t[l] \notin pattern
        /\ j + Len(t) <= Len(str) => str[j + Len(t)] \in pattern
Tokens(str, pattern) ==
    LET starts == SetToSortSeq(Starts(str, pattern), <)
    IN  [k \in DOMAIN starts |-> TokenAt(str, starts[k], pattern)]

\* strtok(), called until it returns NULL, returns the tokens of the string, in
\* order, each ended by a NUL while the rest of the string is still whole.
TokensInOrder ==
    Done({"strtok"}) =>
        LET all == Tokens(Text(0), call.n) IN
        /\ IF call.ret = NULL THEN tokens = all ELSE tokens = SubSeq(all, 1, Len(tokens))
        /\ nxtTok \in Addr

\* The value of a numeral, most significant digit first.
Value(base, ds) == FoldLeft(LAMBDA v, d : (v * base + d) % LONG, 0, ds)

\* Space, tab, line feed and carriage return.  isspace() also knows a vertical
\* tab and a form feed, which no numeral may follow.
White == {32, 9, 10, 13}

\* strtoul() and strtol() take the longest numeral of the base after White
\* characters, a sign and a prefix, end after it, and ctype agrees on what a
\* digit is, though on two characters more about what a space is.
NumbersExact ==
    LET str == Text(0)
        at(j) == IF j <= Len(str) THEN str[j] ELSE 0
        hex(j) == at(j) = 48 /\ at(j + 1) = 120
        white == Cardinality({j \in DOMAIN str : \A k \in 1 .. j : str[k] \in White})
        minus == IF Done({"strtol"}) /\ at(white + 1) = 45 THEN 1 ELSE 0
        first == white + minus + 1
        base == IF call.n = 0 THEN IF hex(first) THEN 16 ELSE 10 ELSE call.n
        from == IF base = 16 /\ hex(first) THEN first + 2 ELSE first
        ends == {j \in from - 1 .. Len(str) : \A k \in from .. j : digit(str[k]) < base}
        to == CHOOSE j \in ends : \A k \in ends : k <= j
        v == Value(base, [j \in 1 .. to - from + 1 |-> digit(str[from + j - 1])])
    IN  /\ Done({"strtoul", "strtol"}) /\ call.n \in 0 .. 36 =>
             /\ call.ret.end = to
             /\ (call.ret.val - (IF minus = 1 THEN -v ELSE v)) % LONG = 0
        /\ Done({"ctype"}) =>
             /\ call.ret.space = (call.p \in White \cup {11, 12})
             /\ call.ret.digit = (digit(call.p) < 10)
             /\ call.ret.xdigit = (digit(call.p) < 16)
             /\ digit(call.ret.up) = digit(call.ret.low)

\* A conversion of the format is a padded character.
PaddedChar(format) ==
    \E j, k \in DOMAIN format :
        /\ j + 1 < k /\ format[j] = "%" /\ format[k] = "c"
        /\ \A l \in j + 1 .. k - 1 : format[l] \notin Conversions

\* vsnprintf() stays in the buffer, NUL included: "Leave one space for NULL
\* character".
PrintfBounded ==
    Done({"vsnprintf"}) /\ call.n > 0 => Len(call.ret) + 1 <= call.n

\* A numeral, padded with spaces or zeros, read back.
ReadBack(str, base) ==
    FoldLeft(LAMBDA v, c : v * base + (IF c = " " THEN 0 ELSE
                 CHOOSE d \in 0 .. base - 1 : c \in {Zeichen[d + 1], Upper[d + 1]}),
             0, str)

\* A number that vsnprintf() prints in a big enough buffer reads back as the value
\* that the argument has in the type of the length modifier, and has as many
\* figures as it needs, or as the width asks for, after a sign that the width does
\* not count: %6d makes seven characters of -1.  A text that fits does not depend
\* on the buffer.
PrintfExact ==
    LET f == call.q
        l == Last(f.format)
        base == IF l \in {"x", "X"} THEN 16 ELSE IF l = "o" THEN 8 ELSE 10
        all == vsnprintf(0, MaxSize, f.format, f.args)
        body == IF f.value < 0 THEN Tail(all) ELSE all
        size == IF f.value < 0 THEN -f.value ELSE f.value
        len == CHOOSE n \in 1 .. 10 : size < base^n /\ (n > 1 => base^(n - 1) <= size)
        sign == IF f.value < 0 THEN 1 ELSE 0
    IN  Done({"vsnprintf"}) /\ call.p # NULL =>
          /\ Len(all) < call.n => call.ret = all
          /\ f.single => /\ f.value < 0 => all[1] = "-"
                         /\ ReadBack(body, base) = size
                         /\ Len(all) = sign + (IF Width(f.format) > len THEN Width(f.format)
                                               ELSE len)

\* vsnprintf() prints what it should and, if no conversion is a padded %c, stays
\* in the buffer.  With a padded %c it does not (PrintfBounded, violated).
PrintfCorrect ==
    /\ PrintfExact
    /\ Done({"vsnprintf"}) /\ ~PaddedChar(call.q.format) => PrintfBounded
=============================================================================
