------------------------------ MODULE CString ------------------------------
(***************************************************************************)
(* The memory, string and character functions of the boot loader's libc.   *)
(* m is the memory, a function from addresses to bytes; pointers are       *)
(* addresses.  Each loop of the code is a recursion.                       *)
(***************************************************************************)
EXTENDS Integers

NULL == -1

-----------------------------------------------------------------------------
(* ctype.h                                                                 *)

isspace(ch) == ch \in {32, 12, 10, 13, 9, 11}
isdigit(ch) == ch \in 48 .. 57
isxdigit(ch) == ch \in (48 .. 57) \cup (65 .. 70) \cup (97 .. 102)
isprint(ch) == ch >= 32 /\ ch < 127
toupper(ch) == IF ch >= 97 /\ ch <= 122 THEN ch - 32 ELSE ch
tolower(ch) == IF ch >= 65 /\ ch <= 90 THEN ch + 32 ELSE ch

-----------------------------------------------------------------------------
(* Blocks of bytes.  A doubleword is read before it is written.            *)

RECURSIVE memcpy(_, _, _, _)
memcpy(m, dest, src, n) ==
    LET k == IF n >= 8 THEN 8 ELSE 1 IN
    IF n = 0 THEN m
    ELSE memcpy([a \in DOMAIN m |->
                   IF a - dest \in 0 .. k - 1 THEN m[src + a - dest] ELSE m[a]],
                dest + k, src + k, n - k)

\* The loop of memmove() that goes from end to start.
RECURSIVE copy_down(_, _, _, _)
copy_down(m, dest, src, n) ==
    IF n = 0 THEN m
    ELSE copy_down([m EXCEPT ![dest + n - 1] = m[src + n - 1]], dest, src, n - 1)

\* Mutant: the blocks are taken to overlap only the other way round.
memmove_wrongway(m, dest, src, n) ==
    IF dest < src /\ dest + n >= src THEN copy_down(m, dest, src, n)
    ELSE memcpy(m, dest, src, n)

memmove(m, dest, src, n) ==
    IF src < dest /\ src + n >= dest THEN copy_down(m, dest, src, n)
    ELSE memcpy(m, dest, src, n)

\* Doublewords only for zeros.
RECURSIVE memset(_, _, _, _)
memset(m, dest, c, size) ==
    LET k == IF size >= 8 /\ c = 0 THEN 8 ELSE 1 IN
    IF size = 0 THEN m
    ELSE memset([a \in DOMAIN m |-> IF a - dest \in 0 .. k - 1 THEN c % 256 ELSE m[a]],
                dest + k, c, size - k)

RECURSIVE memcmp(_, _, _, _)
memcmp(m, p1, p2, n) ==
    CASE n = 0 -> 0
      [] n > 0 /\ m[p1] # m[p2] -> m[p1] - m[p2]
      [] OTHER -> memcmp(m, p1 + 1, p2 + 1, n - 1)

RECURSIVE memchr(_, _, _, _)
memchr(m, p, c, n) ==
    CASE n = 0 -> NULL
      [] n > 0 /\ m[p] = c % 256 -> p
      [] OTHER -> memchr(m, p + 1, c, n - 1)

-----------------------------------------------------------------------------
(* Strings.                                                                *)

RECURSIVE strlen(_, _)
strlen(m, s) == IF m[s] = 0 THEN 0 ELSE 1 + strlen(m, s + 1)

RECURSIVE strnlen(_, _, _)
strnlen(m, s, n) == IF m[s] = 0 \/ n = 0 THEN 0 ELSE 1 + strnlen(m, s + 1, n - 1)

RECURSIVE strcpy(_, _, _)
strcpy(m, dst, src) ==
    LET m1 == [m EXCEPT ![dst] = m[src]] IN
    IF m[src] = 0 THEN m1 ELSE strcpy(m1, dst + 1, src + 1)

strcat(m, dst, src) == strcpy(m, dst + strlen(m, dst), src)

\* The string, and zeros up to n bytes.
RECURSIVE strncpy(_, _, _, _)
strncpy(m, dst, src, n) ==
    IF n = 0 THEN m
    ELSE strncpy([m EXCEPT ![dst] = m[src]], dst + 1,
                 IF m[src] # 0 THEN src + 1 ELSE src, n - 1)

\* The character as the comparison sees it.
fold(nocase, c) == IF nocase THEN toupper(c) ELSE c

\* Where the loop of the comparisons stops; n = -1 for those without a limit.
RECURSIVE stops(_, _, _, _, _)
stops(m, s1, s2, n, nocase) ==
    IF m[s1] = 0 \/ m[s2] = 0 \/ n = 1 
       \/ fold(nocase, m[s1]) # fold(nocase, m[s2]) THEN 0
    ELSE 1 + stops(m, s1 + 1, s2 + 1, n - 1, nocase)

strcmp(m, s1, s2) == LET k == stops(m, s1, s2, -1, FALSE) IN m[s1 + k] - m[s2 + k]

\* The case is ignored up to the difference, but not in it.
strcasecmp(m, s1, s2) ==
    LET k == stops(m, s1, s2, -1, TRUE) IN m[s1 + k] - m[s2 + k]

strncmp(m, s1, s2, n) ==
    LET k == stops(m, s1, s2, n, FALSE) IN IF n < 1 THEN 0 ELSE m[s1 + k] - m[s2 + k]

strncasecmp(m, s1, s2, n) ==
    LET k == stops(m, s1, s2, n, TRUE)
    IN  IF n < 1 THEN 0 ELSE toupper(m[s1 + k]) - toupper(m[s2 + k])

RECURSIVE strchr(_, _, _)
strchr(m, s, c) ==
    CASE m[s] = 0 -> NULL
      [] m[s] # 0 /\ m[s] = c % 256 -> s
      [] OTHER -> strchr(m, s + 1, c)

\* The loop of strrchr(), with the last match so far.
RECURSIVE last_match(_, _, _, _)
last_match(m, s, c, last) ==
    IF m[s] = 0 THEN last
    ELSE last_match(m, s + 1, c, IF m[s] = c % 256 THEN s ELSE last)

strrchr(m, s, c) == last_match(m, s, c, NULL)

\* The loop of strstr().
RECURSIVE find(_, _, _, _, _)
find(m, pos, end, needle, nlen) ==
    CASE pos = end -> NULL
      [] pos < end /\ strncmp(m, pos, needle, nlen) = 0 -> pos
      [] OTHER -> find(m, pos + 1, end, needle, nlen)

strstr(m, hay, needle) ==
    LET nlen == strlen(m, needle) IN
    IF hay = NULL \/ needle = NULL THEN NULL
    ELSE IF nlen < 1 THEN hay ELSE find(m, hay, hay + strlen(m, hay), needle, nlen)

\* Mutant: the separators are skipped but not overwritten.
RECURSIVE token_unended(_, _, _, _)
token_unended(m, src, pattern, ret) ==
    CASE m[src] = 0 -> [mem |-> m, nxtTok |-> src, ret |-> ret]
      [] m[src] # 0 /\ m[src] \in pattern -> token_unended(m, src + 1, pattern, ret)
      [] OTHER -> token_unended(m, src + 1, pattern, IF ret = NULL THEN src ELSE ret)

\* The loop of strtok(); pattern is the set of separators, which are overwritten
\* up to the beginning of the token after the one that is returned.
RECURSIVE token(_, _, _, _)
token(m, src, pattern, ret) ==
    CASE m[src] = 0 -> [mem |-> m, nxtTok |-> src, ret |-> ret]
      [] m[src] # 0 /\ m[src] \in pattern ->
            token([m EXCEPT ![src] = 0], src + 1, pattern, ret)
      [] m[src] # 0 /\ m[src] \notin pattern /\ ret # NULL /\ m[src - 1] = 0 ->
            [mem |-> m, nxtTok |-> src, ret |-> ret]
      [] OTHER -> token(m, src + 1, pattern, IF ret = NULL THEN src ELSE ret)

strtok(m, nxtTok, src, pattern) ==
    LET s == IF src = NULL THEN nxtTok ELSE src IN
    IF s = NULL THEN [mem |-> m, nxtTok |-> nxtTok, ret |-> NULL]
    ELSE token(m, s, pattern, NULL)
=============================================================================
