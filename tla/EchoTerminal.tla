---------------------------- MODULE EchoTerminal ----------------------------
(***************************************************************************)
(* What somebody at the terminal of the simulator sees: the greeting, then *)
(* the echo of what they typed, in order, nothing repeated or invented,    *)
(* until the simulator exits.  There is no flow control: what is typed     *)
(* while the greeting is still coming out is kept only up to CAPACITY      *)
(* bytes; after the greeting every byte is kept.                           *)
(***************************************************************************)
EXTENDS Integers, Sequences, SequencesExt

CONSTANTS CHARS, Greeting, EchoOf(_),
          CAPACITY  \* bytes that can wait for their echo

VARIABLES typed,
          arrived,  \* how many of the bytes typed have reached the other side
          kept,     \* the ones that will be echoed
          shown, closed

termVars == <<typed, arrived, kept, shown, closed>>

\* All that the bytes kept so far will put on the screen.
Expected == Greeting \o FlattenSeq([i \in DOMAIN kept |-> EchoOf(kept[i])])

Greeted == Len(shown) >= Len(Greeting)

TermInit == typed = <<>> /\ arrived = 0 /\ kept = <<>> /\ shown = <<>> /\ closed = FALSE

Type == \E c \in CHARS : typed' = Append(typed, c) /\ UNCHANGED closed

Close == closed' = TRUE /\ UNCHANGED typed

\* A byte arrives and is kept as it was typed, or is lost for want of room.
Arrive ==
    /\ arrived < Len(typed)
    /\ arrived' = arrived + 1
    /\ \/ kept' = Append(kept, typed[arrived + 1])
       \/ ~Greeted /\ Len(kept) >= CAPACITY /\ UNCHANGED kept

Show ==
    /\ Len(shown) < Len(Expected)
    /\ shown' = Append(shown, Expected[Len(shown) + 1])

\* The keyboard, the line and the screen may all move in one clock.
TermNext ==
    /\ ~closed
    /\ Type \/ Close \/ UNCHANGED <<typed, closed>>
    /\ Arrive \/ UNCHANGED <<arrived, kept>>
    /\ Show \/ UNCHANGED shown

TermSpec == TermInit /\ [][TermNext]_termVars
=============================================================================
