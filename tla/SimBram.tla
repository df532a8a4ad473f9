------------------------------ MODULE SimBram ------------------------------
(***************************************************************************)
(* The memories of a simulation, kept by C functions that the simulator    *)
(* calls with std_logic vectors.  A memory is a private mapping of a file, *)
(* made longer with zeros.                                                 *)
(***************************************************************************)
EXTENDS Integers, Sequences

CONSTANTS BYTE,          \* values of a byte
          PAGE,          \* getpagesize()
          FILES,         \* contents of memory files
          MEMORY_SIZES,
          VECTORS,       \* data vectors
          SELECTS,       \* sets of byte lanes
          NACCESSES,     \* bound: accesses
          MAX_REGIONS

VARIABLES regions,     \* behavioural_regions[], with as many as there are
          exited,
          read_dat,    \* history: vector that the last read returned, and ...
          expected,    \* ... the bytes it should stand for
          written,     \* history: last byte written, or of the file, per region and address
          accesses

ramVars == <<regions, exited, read_dat, expected, written, accesses>>

Lanes == 0 .. 7
BITS == CHOOSE n \in 1 .. 8 : 2^n = BYTE

\* The most significant bit comes first; what is neither 0 nor 1 counts as 0.
from_std_logic_vector(v) ==
    LET bit(j) == IF v[j] = "1" THEN 1 ELSE 0
        value[j \in 0 .. Len(v)] == IF j = 0 THEN 0 ELSE 2 * value[j - 1] + bit(j)
    IN  value[Len(v)]

to_std_logic_vector(val, len) ==
    [j \in 1 .. len |-> IF (val \div 2^(len - j)) % 2 = 1 THEN "1" ELSE "0"]

ALIGN_UP(n) == PAGE * ((n + PAGE - 1) \div PAGE)

ByteOf(file, a) == IF a < Len(file) THEN file[a + 1] ELSE 0

RamInit == /\ regions = <<>> /\ exited = FALSE /\ read_dat = <<>> /\ expected = <<>>
           /\ written = <<>> /\ accesses = 0

\* The mapping is as long as the longer of the memory and the file.  The host
\* may refuse to open, measure or map the file.
behavioural_initialize ==
    /\ ~exited
    /\ \E file \in FILES, size \in MEMORY_SIZES :
         LET r == [size |-> ALIGN_UP(size),
                   m |-> [a \in 0 .. (IF ALIGN_UP(size) > ALIGN_UP(Len(file))
                                      THEN ALIGN_UP(size) ELSE ALIGN_UP(Len(file))) - 1
                            |-> ByteOf(file, a)]]
         IN  \/ exited' = TRUE /\ UNCHANGED <<regions, written>>
             \/ /\ Len(regions) < MAX_REGIONS
                /\ regions' = Append(regions, r) /\ UNCHANGED exited
                /\ written' = Append(written, r.m)
    /\ UNCHANGED <<read_dat, expected, accesses>>

\* The addresses of the VHDL side: vectors of whole words, one past the memory too.
Addresses(r) == {to_std_logic_vector(8 * w, 8) : w \in 0 .. r.size \div 8}

\* The test lets the first byte past the end through, and the next one not.
BadAccess(r, addr) == \E k \in Lanes : addr + k > r.size

\* An identifier that no behavioural_initialize() has returned: exit(1), or a
\* region without memory, of size 0, for the first one that is free.
BadIndex == exited' = TRUE /\ UNCHANGED <<regions, written, read_dat, expected>>

ReadRegion ==
    /\ \E id \in DOMAIN regions : \E v \in Addresses(regions[id]) :
         LET r == regions[id]
             addr == from_std_logic_vector(v)
             sum[k \in 0 .. 8] == IF k = 0 THEN 0
                                  ELSE sum[k - 1] + r.m[addr + k - 1] * BYTE^(k - 1)
         IN  IF BadAccess(r, addr) THEN exited' = TRUE /\ UNCHANGED <<read_dat, expected>>
             ELSE /\ read_dat' = to_std_logic_vector(sum[8], 8 * BITS)
                  /\ expected' = [k \in Lanes |-> written[id][addr + k]]
                  /\ UNCHANGED exited
    /\ UNCHANGED <<regions, written>>

behavioural_read ==
    /\ ~exited /\ accesses < NACCESSES
    /\ accesses' = accesses + 1
    /\ BadIndex \/ ReadRegion

\* Mutant: all lanes are written.
Selected_All(sel) == Lanes

Selected(sel) == sel

\* Lanes before one that is out of range are written; what the byte after the
\* mapping belongs to, which lane 0 of the word after it reaches, is not modelled.
WriteRegion ==
    /\ \E id \in DOMAIN regions, dat \in VECTORS, sel \in SELECTS :
       \E v \in Addresses(regions[id]) :
         LET r == regions[id]
             addr == from_std_logic_vector(v)
             byte(k) == (from_std_logic_vector(dat) \div BYTE^k) % BYTE
             lanes == {k \in Selected(sel) : addr + k \in DOMAIN r.m /\ addr + k <= r.size}
         IN  /\ regions' = [regions EXCEPT ![id].m =
                  [a \in DOMAIN r.m |-> IF a - addr \in lanes THEN byte(a - addr) ELSE r.m[a]]]
             /\ written' = [written EXCEPT ![id] =
                  [a \in DOMAIN @ |-> IF a - addr \in sel THEN byte(a - addr) ELSE @[a]]]
             /\ exited' = \E k \in sel : addr + k > r.size
    /\ UNCHANGED <<read_dat, expected>>

behavioural_write ==
    /\ ~exited /\ accesses < NACCESSES
    /\ accesses' = accesses + 1
    /\ BadIndex \/ WriteRegion

RamNext == behavioural_initialize \/ behavioural_read \/ behavioural_write

-----------------------------------------------------------------------------
\* A read of a simulated memory returns the last bytes that were written there,
\* whatever other memories and lanes were written in between, else those of the
\* file, else zeros; the vector has the lanes in the order of the bus.
ReadsLastWrite ==
    read_dat # <<>> =>
        \A k \in Lanes :
            expected[k] = from_std_logic_vector(SubSeq(read_dat, (7 - k) * BITS + 1,
                                                       (8 - k) * BITS))
=============================================================================
