------------------------------ MODULE MCControl ------------------------------
(* The scoreboard alone, with arbitrary pipeline stages around it.         *)
EXTENDS Control

CONSTANTS r1, r2, none

I(wr, ra, cr, ov) ==
  [op |-> "alu", wr |-> wr, ra |-> ra, rb |-> none, cr |-> cr, ov |-> ov]

MCInsns == {I(r1, r2, "rc", "no"), I(r2, r1, "no", "out"), I(none, r2, "in", "in")}
=============================================================================
