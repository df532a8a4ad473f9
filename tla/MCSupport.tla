------------------------------- MODULE MCSupport -----------------------------
EXTENDS Support

\* Bytes that all differ, so that each shows where it came from.
MCData == {[a \in 0 .. 20 |-> a + 1]}

Ended(S) == {m \in [0 .. 4 -> S] : m[4] = 0}

\* NUL, A, B and a; NUL, tab, vertical tab, space, minus, 0, 1, f and x.
MCTexts == Ended({0, 65, 66, 97})
MCNumbers == Ended({0, 9, 11, 32, 45, 48, 49, 102, 120})

MCPatterns == {{65}, {65, 66}, {97, 99}}
MCBases == {-1, 0, 2, 10, 15, 16, 37}

Number1(format, value) ==
    [format |-> format, args |-> <<value % 2^(8 * CHAR_BITS)>>, value |-> value, single |-> TRUE]
Several(format, args) == [format |-> format, args |-> args, value |-> 0, single |-> FALSE]

Flags == {<<>>, <<"0", "3">>, <<"6">>}
Ints == {-2048, -77, -1, 0, 9, 10, 2047}
Longs == {-8388608, -300, 8388607}

MCFormats ==
    {Number1(<<"%">> \o w \o <<"d">>, v) : w \in Flags, v \in Ints}
    \cup {Number1(<<"%">> \o w \o m \o <<"i">>, v) :
            w \in Flags, m \in {<<"l">>, <<"l", "l">>}, v \in Ints \cup Longs}
    \cup {Number1(<<"%", "h">> \o <<"d">>, v) : v \in {-32, -1, 31}}
    \cup {Number1(<<"%", "h", "h">> \o <<"d">>, v) : v \in {-4, -1, 3}}
    \cup {Number1(<<"%">> \o w \o <<l>>, v) :
            w \in Flags, l \in {"u", "x", "X", "o"}, v \in {0, 15, 16, 4095}}
    \cup {Number1(<<"%">> \o w \o <<"l", "x">>, v) : w \in Flags, v \in {0, 16777215}}
    \cup {Several(<<"a", "%", "%", "%", "d", "b">>, <<123>>),
          Several(<<"%", "s", "=", "%", "0", "4", "x", ";">>, <<<<"k", "e", "y">>, 31>>),
          Several(<<"%", "5", "s", "%", "p">>, <<<<"o", "k">>, 255>>),
          Several(<<"%", "c", "%", "c">>, <<"u", "v">>),
          Several(<<"%", "3", "c", ".">>, <<"w">>)}

\* The conversion that shows the finding.
MCPaddedChar == {Several(<<"%", "3", "c", ".">>, <<"w">>)}

MCFiles == {<<1, 1, 0, 1>>, [a \in 1 .. 20 |-> a % 2]}
MCVectors == {<<"1", "1", "0", "U", "0", "0", "0", "1">>,
              <<"0", "0", "1", "1", "X", "1", "0", "0">>}
MCSelects == {0 .. 7, {4, 5, 6, 7}}
=============================================================================
