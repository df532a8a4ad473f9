------------------------------- MODULE WbLms -------------------------------
(***************************************************************************)
(* The Wishbone LMS peripheral at the level of its Verilog: wb_lms.v (bus  *)
(* registers) around LMS.v (four-tap adaptive filter).  One step is one    *)
(* change of the pins; the registers move at a rising edge of Clk or Rst,  *)
(* all of them from their old values, as nonblocking assignments do.       *)
(*                                                                         *)
(* M is the number of values of a word (2^16 in the code) and N the weight *)
(* of its integer part (2^12: words are Q4.12).  Words are kept unsigned,  *)
(* 0 .. M-1, and read as two's complement.                                 *)
(***************************************************************************)
EXTENDS Integers

CONSTANTS M, N,      \* values of a word, and the integer 1 in it
          ADRS, DATS \* register numbers (wb_adr_i[5:2]) and data on the bus

VARIABLES Clk, Rst,                            \* pins
          x, wn, err_reg,                      \* LMS.v
          x_in_reg, d_in_reg, mode_train_reg,  \* wb_lms.v
          wb_dat_o, wb_ack_o, irq_o

lmsVars == <<x, wn, err_reg>>
busVars == <<x_in_reg, d_in_reg, mode_train_reg, wb_dat_o, wb_ack_o, irq_o>>
vars == <<Clk, Rst, lmsVars, busVars>>

Taps == 0 .. 3
Bit == {0, 1}
Unknown == 2  \* x, the level of a pin before time 0
Word == 0 .. M - 1

\* The Wishbone inputs sampled by an edge.
Bus == [cyc : Bit, stb : Bit, we : Bit, adr : ADRS, dat : DATS]

\* $signed(v), and the slice [27:12] of a product.
Signed(v) == IF 2 * v >= M THEN v - M ELSE v
Slice(p) == (p \div N) % M

gamma == N \div 2

\* y_acc and y_out.
Dot(w, t) == Signed(w[0]) * Signed(t[0]) + Signed(w[1]) * Signed(t[1])
             + Signed(w[2]) * Signed(t[2]) + Signed(w[3]) * Signed(t[3])
Output(w, t) == Slice(Dot(w, t))

\* wn_u0 .. wn_u3: p_q, m and the sum.
Updated(w, t, e) ==
    [i \in Taps |->
        (w[i] + Slice(gamma * Signed(Slice(Signed(e) * Signed(t[i]))))) % M]

DelayLine ==
    x' = IF Rst' = 1 THEN [i \in Taps |-> 0]
         ELSE [i \in Taps |-> IF i = 0 THEN x_in_reg ELSE x[i-1]]

ErrorRegister ==
    err_reg' = IF Rst' = 0 /\ mode_train_reg = 1
               THEN (d_in_reg - Output(wn, x)) % M ELSE 0

Weights ==
    wn' = IF Rst' = 1 THEN [i \in Taps |-> 0]
          ELSE IF mode_train_reg = 1 THEN Updated(wn, x, err_reg) ELSE wn

\* What a read of register r returns.
ReadMux(r, y, e, w) ==
    CASE r = 3 -> y
      [] r = 4 -> e
      [] r \in 5 .. 8 -> w[r-5]
      [] OTHER -> 0

Accepted(b) == b.cyc = 1 /\ b.stb = 1 /\ wb_ack_o = 0

WishboneReset ==
    /\ wb_ack_o' = 0 /\ wb_dat_o' = 0 /\ irq_o' = 0
    /\ x_in_reg' = 0 /\ d_in_reg' = 0 /\ mode_train_reg' = 0

WishboneCycle(b) ==
    LET write == Accepted(b) /\ b.we = 1 IN
    /\ wb_ack_o' = IF Accepted(b) THEN 1 ELSE 0
    /\ irq_o' = IF write THEN 1 ELSE 0
    /\ x_in_reg' = IF write /\ b.adr = 0 THEN b.dat ELSE x_in_reg
    /\ d_in_reg' = IF write /\ b.adr = 1 THEN b.dat ELSE d_in_reg
    /\ mode_train_reg' = IF write /\ b.adr = 2 THEN b.dat % 2 ELSE mode_train_reg
    /\ wb_dat_o' = IF Accepted(b) /\ b.we = 0
                   THEN ReadMux(b.adr, Output(wn, x), err_reg, wn) ELSE wb_dat_o

Wishbone(b) == IF Rst' = 1 THEN WishboneReset ELSE WishboneCycle(b)

\* posedge of a pin that never returns to x: from 0, or from x, to 1.
Rises(old, new) == old # 1 /\ new = 1

\* One change of the pins: every always block runs when an edge is in it.
Step(clk, rst, b) ==
    /\ Clk' = clk /\ Rst' = rst
    /\ IF Rises(Clk, clk) \/ Rises(Rst, rst)
       THEN DelayLine /\ ErrorRegister /\ Weights /\ Wishbone(b)
       ELSE UNCHANGED <<lmsVars, busVars>>

\* Registers hold anything until the first reset.
Init ==
    /\ Clk = Unknown /\ Rst = Unknown
    /\ x \in [Taps -> Word] /\ wn \in [Taps -> Word] /\ err_reg \in Word
    /\ x_in_reg \in Word /\ d_in_reg \in Word /\ mode_train_reg \in Bit
    /\ wb_dat_o \in Word /\ wb_ack_o \in Bit /\ irq_o \in Bit

Next == \E clk \in Bit, rst \in Bit, b \in Bus : Step(clk, rst, b)

Spec == Init /\ [][Next]_vars
=============================================================================
