----------------------------- MODULE MCSimJtag -----------------------------
EXTENDS SimJtag

MCCommands ==
    {[name |-> n] : n \in {"creset", "icreset", "stop", "start", "step", "quit",
                           "status", "lstart", "lstop", "ldump", "ltrig",
                           "ltrig off", "mtrig", "mtrig off"}}
    \cup {[name |-> n, addr |-> 6] : n \in {"ltrig set", "mtrig set"}}
    \cup {[name |-> "dmiread", addr |-> 99],
          [name |-> "dmiwrite", addr |-> WB_CTRL, data |-> 3],
          [name |-> "mr", addr |-> 8, count |-> 2],
          [name |-> "mw", addr |-> 16, data |-> 1],
          [name |-> "load", addr |-> 8, file |-> <<1, 0, 1, 1, 0, 0, 0, 0, 0, 1>>],
          [name |-> "save", addr |-> 0, size |-> 9],
          [name |-> "gpr", reg |-> 95, count |-> 2]}

MCInterrupted == {c \in MCCommands : c.name = "mw"}
MCAgain == {c \in MCCommands : c.name = "dmiread"}
=============================================================================
