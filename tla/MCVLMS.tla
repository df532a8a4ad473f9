------------------------------- MODULE MCVLMS -------------------------------
(* Instance of VLMS for TLC: 4-bit words with 2 fraction bits.             *)
EXTENDS VLMS

Idle == [cyc |-> 0, stb |-> 0, we |-> 0, adr |-> 0, dat |-> 3]
Write(a, d) == [cyc |-> 1, stb |-> 1, we |-> 1, adr |-> a, dat |-> d]
Read(a) == [cyc |-> 1, stb |-> 1, we |-> 0, adr |-> a, dat |-> 3]

\* Samples 3 (0.75) and 13 (-0.75); mode is the least bit of the data.
MCADRS == 0 .. 9
MCDATS == {3, 13}
MCBus == {Idle, Write(0, 3), Write(0, 13), Write(1, 13), Write(2, 3), Read(3)}

\* Bus inputs change with the clock low or high; reset with an idle bus.
MCPINS == [pin : [Clk : {0, 1}, Rst : {0}], bus : MCBus]
          \cup [pin : [Clk : {0, 1}, Rst : {1}], bus : {Idle}]

\* The first call has both pins low (StartsLow).
MCFIRST == {p \in MCPINS : p.pin = [Clk |-> 0, Rst |-> 0]}

\* Random registers: all different, with the bits at either level.
Drawn(k, mode, ack, irq) ==
    [x |-> [i \in Taps |-> (k + 3 * i) % M], wn |-> [i \in Taps |-> (11 + 5 * i + k) % M],
     err_reg |-> (k + 13) % M, x_in_reg |-> (k + 7) % M, d_in_reg |-> (k + 9) % M,
     mode_train_reg |-> mode, wb_dat_o |-> (k + 2) % M, wb_ack_o |-> ack, irq_o |-> irq,
     y_out |-> (k + 6) % M, wn_u |-> [i \in Taps |-> (k + 15 - i) % M]]

MCPOWERUP == {Drawn(5, 1, 0, 1), Drawn(11, 0, 1, 0), Drawn(2, 1, 1, 0)}
=============================================================================
