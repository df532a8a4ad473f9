------------------------------- MODULE MCBoot -------------------------------
EXTENDS Boot

MCFeatures == {{"DRAM"}, {"DRAM", "SPI_FLASH"}, {"DRAM", "BRAM", "SPI_FLASH"}}

Load(a, d) == [load |-> TRUE, addr |-> a, data |-> d]
Note == [load |-> FALSE]

\* No ELF file, one with two segments, and one with a note between them.
MCImages == {[elf |-> FALSE, phdrs |-> <<>>],
             [elf |-> TRUE, phdrs |-> <<Load("zero", "text"), Load("high", "data"), Note>>],
             [elf |-> TRUE, phdrs |-> <<Load("zero", "text"), Note, Load("high", "data")>>]}

MCAddresses == {"zero", "high"}
=============================================================================
