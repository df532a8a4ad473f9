------------------------------ MODULE Support ------------------------------
(***************************************************************************)
(* Support code in C that has no part in common: the functions of libc and *)
(* the memories of a simulation.  A behaviour is one of either.            *)
(***************************************************************************)
EXTENDS Libc, SimBram

VARIABLE part

vars == <<part, libcVars, ramVars>>

Init == part \in {"libc", "memory"} /\ LibcInit /\ RamInit

\* Only the first contents of mem are told apart where it has no part.
Next == \/ part = "libc" /\ LibcNext /\ UNCHANGED <<part, ramVars>>
        \/ /\ part = "memory" /\ mem \in DATA
           /\ RamNext /\ UNCHANGED <<part, libcVars>>

Spec == Init /\ [][Next]_vars
=============================================================================
