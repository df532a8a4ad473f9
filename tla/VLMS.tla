-------------------------------- MODULE VLMS --------------------------------
(***************************************************************************)
(* The LMS peripheral as the C++ simulation model Verilator made of it     *)
(* (LMS_Periph/obj_dir).  A test bench writes the input pins and calls     *)
(* eval_step(), which detects the edges (eval_triggers__act), runs the     *)
(* registers' code when there is one (nba_sequent) and repeats both phases *)
(* until nothing is triggered.  The first call settles the combinational   *)
(* outputs instead of seeing an edge (eval_static, eval_settle).           *)
(*                                                                         *)
(* The Verilog assigns all registers at once; the C++ assigns them one     *)
(* statement after another, some through __Vdly temporaries and some in    *)
(* place.  Below, an unprimed name is a value read before the statement    *)
(* that assigns it and a primed one a value read after it.                 *)
(***************************************************************************)
EXTENDS Integers

CONSTANTS M, N, ADRS, DATS,
          PINS,       \* pin settings the test bench drives
          FIRST,      \* the ones it drives for its first eval_step()
          POWERUP,    \* what ctor_var_reset may leave in the registers
          MAX_CLOCKS  \* bound on the edges of a behaviour

VARIABLES pin, bus,                  \* Clk and Rst; wb_*_i
          x, wn, err_reg, x_in_reg, d_in_reg, mode_train_reg,
          wb_dat_o, wb_ack_o, irq_o,
          y_out, wn_u,               \* combinational values, stored
          prev,                      \* __Vtrigprevexpr of Clk and Rst
          nbaTriggered,              \* edges noticed and not yet acted on
          didInit, pc, actIter, nbaIter,
          quiet, clocks              \* history: edges since x_in_reg moved; all

regs == <<x, wn, err_reg, x_in_reg, d_in_reg, mode_train_reg,
          wb_dat_o, wb_ack_o, irq_o>>
comb == <<y_out, wn_u>>
sched == <<prev, nbaTriggered, didInit, pc, actIter, nbaIter>>
history == <<quiet, clocks>>
vars == <<pin, bus, regs, comb, sched, history>>

Taps == 0 .. 3
Bit == {0, 1}
Word == 0 .. M - 1
Bus == [cyc : Bit, stb : Bit, we : Bit, adr : ADRS, dat : DATS]
Edges == {"Clk", "Rst"}  \* the pins with an @(posedge ...)
Pins == [pin : [Edges -> Bit], bus : Bus]
Zero == [i \in Taps |-> 0]

\* Contents of the registers and of the stored outputs before the first call.
PowerUp == [x : [Taps -> Word], wn : [Taps -> Word], err_reg : Word,
            x_in_reg : Word, d_in_reg : Word, mode_train_reg : Bit,
            wb_dat_o : Word, wb_ack_o : Bit, irq_o : Bit,
            y_out : Word, wn_u : [Taps -> Word]]

\* A word has at least as many values as its integer 1 (M = 2^16, N = 2^12).
ASSUME WordAssumption ==
    /\ M \in Nat \ {0} /\ N \in Nat \ {0}
    /\ \E k \in 1 .. M : M = N * k
ASSUME PinsAssumption ==
    /\ PINS \subseteq Pins /\ FIRST \subseteq PINS
    /\ POWERUP \subseteq PowerUp /\ DATS \subseteq Word

-----------------------------------------------------------------------------
(* Arithmetic of the generated code: VL_EXTENDS_II, a VL_MULS_III product  *)
(* in twice the width shifted right logically, and the final mask.         *)
Extends(v) == IF 2 * v >= M THEN v - M ELSE v
\* Mutant: the product kept in the width of a word.
Shifted_Narrow(p) == (p % M) \div N

Shifted(p) == (p % (M * M)) \div N
Mask(v) == v % M

Sum(w, t) == Extends(w[0]) * Extends(t[0])
             + (Extends(w[1]) * Extends(t[1])
                + (Extends(w[2]) * Extends(t[2])
                   + Extends(w[3]) * Extends(t[3])))
YOut(w, t) == Mask(Shifted(Sum(w, t)))
Wnu(w, t, e) ==
    [i \in Taps |-> Mask(w[i] + Shifted((N \div 2) *
                        Extends(Mask(Shifted(Extends(e) * Extends(t[i]))))))]

-----------------------------------------------------------------------------
\* The nested ?: on the address bits 5..2 that selects wb_dat_o.
ReadData(a, y, e, w) ==
    IF a = 8 THEN w[3]
    ELSE IF a \in {5, 6, 7} THEN w[a - 5]
    ELSE IF a = 4 THEN e
    ELSE IF a = 3 THEN y ELSE 0

\* nba_sequent under reset.
NbaReset ==
    /\ err_reg' = 0 /\ wn' = Zero /\ x' = Zero
    /\ wb_ack_o' = 0 /\ wb_dat_o' = 0 /\ irq_o' = 0
    /\ x_in_reg' = 0 /\ d_in_reg' = 0 /\ mode_train_reg' = 0

\* Mutant: the delay line reads x_in_reg after the bus write, not before.
NbaFilter_LateRead ==
    /\ IF mode_train_reg = 1
       THEN err_reg' = Mask(d_in_reg - y_out) /\ wn' = wn_u
       ELSE err_reg' = 0 /\ wn' = wn
    /\ x' = [i \in Taps |-> IF i = 0 THEN x_in_reg' ELSE x[i-1]]

\* Mutant: the last tap is not shifted.
NbaFilter_ShortLine ==
    /\ IF mode_train_reg = 1
       THEN err_reg' = Mask(d_in_reg - y_out) /\ wn' = wn_u
       ELSE err_reg' = 0 /\ wn' = wn
    /\ x' = [i \in Taps |-> IF i = 0 THEN x_in_reg
                            ELSE IF i = 3 THEN x[3] ELSE x[i-1]]

\* The filter's statements: temporaries first, committed after the bus code.
NbaFilter ==
    /\ IF mode_train_reg = 1
       THEN err_reg' = Mask(d_in_reg - y_out) /\ wn' = wn_u
       ELSE err_reg' = 0 /\ wn' = wn
    /\ x' = [i \in Taps |-> IF i = 0 THEN x_in_reg ELSE x[i-1]]

\* The bus statements: x_in_reg, d_in_reg, mode and wb_dat_o in place.
NbaBus(b) ==
    LET hit == b.cyc = 1 /\ b.stb = 1 /\ wb_ack_o = 0
        write == hit /\ b.we = 1
    IN  /\ wb_ack_o' = IF hit THEN 1 ELSE 0
        /\ irq_o' = IF write THEN 1 ELSE 0
        /\ x_in_reg' = IF write /\ b.adr = 0 THEN b.dat ELSE x_in_reg
        /\ d_in_reg' = IF write /\ b.adr = 1 THEN b.dat ELSE d_in_reg
        /\ mode_train_reg' = IF write /\ b.adr = 2 THEN b.dat % 2
                             ELSE mode_train_reg
        /\ wb_dat_o' = IF hit /\ b.we = 0
                       THEN ReadData(b.adr, y_out, err_reg, wn) ELSE wb_dat_o

\* Mutant: the outputs are computed before the delay line is committed.
Combinational_Early ==
    /\ y_out' = YOut(wn', x)
    /\ wn_u' = Wnu(wn', x, err_reg')

\* y_out and wn_u from what has just been committed.
Combinational ==
    /\ y_out' = YOut(wn', x')
    /\ wn_u' = Wnu(wn', x', err_reg')

NbaSequent ==
    /\ IF pin["Rst"] = 1 THEN NbaReset ELSE NbaBus(bus) /\ NbaFilter
    /\ Combinational

-----------------------------------------------------------------------------
\* The test bench sets the pins and calls eval_step().
Drive(p) ==
    /\ pc = "idle" /\ (didInit \/ p \in FIRST)
    /\ clocks + (IF prev["Clk"] = 0 /\ p.pin["Clk"] = 1 THEN 1 ELSE 0) <= MAX_CLOCKS
    /\ pin' = p.pin /\ bus' = p.bus
    /\ pc' = IF didInit THEN "act" ELSE "init"
    /\ actIter' = 0 /\ nbaIter' = 0
    /\ UNCHANGED <<regs, comb, prev, nbaTriggered, didInit, history>>

\* First call: eval_static takes the pins as their own previous values, so
\* that a pin that is high then shows no edge, and eval_settle computes the
\* outputs once.
FirstEval ==
    /\ pc = "init"
    /\ didInit' = TRUE
    /\ prev' = pin
    /\ UNCHANGED regs
    /\ Combinational
    /\ pc' = "act"
    /\ UNCHANGED <<pin, bus, nbaTriggered, actIter, nbaIter, history>>

Triggers == {s \in Edges : pin[s] = 1 /\ prev[s] = 0}

\* eval_phase__act, inside eval()'s inner loop.
EvalPhaseAct ==
    /\ pc = "act" /\ actIter <= 100
    /\ nbaTriggered' = nbaTriggered \cup Triggers
    /\ prev' = pin
    /\ actIter' = actIter + 1
    /\ pc' = IF Triggers # {} THEN "act" ELSE "nba"
    /\ UNCHANGED <<pin, bus, regs, comb, didInit, nbaIter, history>>

\* Mutant: __VnbaContinue is not cleared at the top of the loop.
EvalPhaseNba_Again ==
    /\ pc = "nba" /\ pc' = "act"
    /\ nbaIter' = 1 /\ actIter' = 0 /\ nbaTriggered' = {}
    /\ IF nbaTriggered # {} THEN NbaSequent ELSE UNCHANGED <<regs, comb>>
    /\ UNCHANGED <<pin, bus, prev, didInit, history>>

\* eval_phase__nba, inside eval()'s outer loop.
EvalPhaseNba ==
    /\ pc = "nba" /\ nbaIter <= 100
    /\ nbaIter' = nbaIter + 1 /\ actIter' = 0
    /\ IF nbaTriggered # {}
       THEN /\ NbaSequent /\ pc' = "act"
            /\ quiet' = IF x_in_reg' # x_in_reg THEN 0
                        ELSE IF quiet = 4 THEN 4 ELSE quiet + 1
            /\ clocks' = clocks + (IF "Clk" \in nbaTriggered THEN 1 ELSE 0)
       ELSE UNCHANGED <<regs, comb, history>> /\ pc' = "idle"
    /\ nbaTriggered' = {}
    /\ UNCHANGED <<pin, bus, prev, didInit>>

\* ctor_var_reset: every word and pin is drawn by a VL_RAND_RESET_I of its own.
Init ==
    /\ \E p \in PINS : pin = p.pin /\ bus = p.bus
    /\ \E v \in POWERUP :
          /\ x = v.x /\ wn = v.wn /\ err_reg = v.err_reg
          /\ x_in_reg = v.x_in_reg /\ d_in_reg = v.d_in_reg
          /\ mode_train_reg = v.mode_train_reg
          /\ wb_dat_o = v.wb_dat_o /\ wb_ack_o = v.wb_ack_o /\ irq_o = v.irq_o
          /\ y_out = v.y_out /\ wn_u = v.wn_u
    /\ prev \in [Edges -> Bit]
    /\ nbaTriggered = {} /\ didInit = FALSE /\ pc = "idle"
    /\ actIter = 0 /\ nbaIter = 0 /\ quiet = 0 /\ clocks = 0

Next == \/ \E p \in PINS : Drive(p)
        \/ FirstEval \/ EvalPhaseAct \/ EvalPhaseNba

\* eval_step() is straight-line code with loops: once called it runs.
Spec == Init /\ [][Next]_vars /\ WF_vars(FirstEval \/ EvalPhaseAct \/ EvalPhaseNba)

-----------------------------------------------------------------------------
(* Properties.                                                             *)

\* The pins as the Verilog sees them: an edge that was noticed but whose
\* registers have not moved yet has not happened, and before the first
\* evaluation there is no previous value.
SeenPin(s) == IF ~didInit THEN 2 ELSE IF s \in nbaTriggered THEN 0 ELSE prev[s]

RTL == INSTANCE WbLms WITH Clk <- SeenPin("Clk"), Rst <- SeenPin("Rst")

\* Clk and Rst are low at the first eval_step().  The Verilog sees a rising
\* edge when a pin goes from x to 1, as Rst does at time 0 in wb_lms_tb.v,
\* and resets; eval_static loses that edge, and a test bench for the C++ that
\* starts with a pin high has random registers until the next edge.
StartsLow == \A p \in FIRST : p.pin["Clk"] = 0 /\ p.pin["Rst"] = 0

\* The generated C++ implements the Verilog if the test bench StartsLow:
\* whatever it does with the pins after its first call, the registers move
\* exactly as the nonblocking assignments of wb_lms.v and LMS.v say
\* (nba_sequent's order of statements, the trigger bookkeeping of eval() and
\* the stored combinational values included).
ImplementsRTL == RTL!Spec

\* Types, and how eval()'s phases hang together: only an edge between two
\* evaluations is pending, it is the pin's present level, and the stored
\* outputs follow the registers from the first evaluation on.
SchedulerInvariant ==
    /\ pin \in [Edges -> Bit] /\ bus \in Bus
    /\ x \in [Taps -> Word] /\ wn \in [Taps -> Word] /\ err_reg \in Word
    /\ x_in_reg \in Word /\ d_in_reg \in Word
    /\ prev \in [Edges -> Bit] /\ nbaTriggered \subseteq Edges
    /\ didInit \in BOOLEAN /\ pc \in {"idle", "init", "act", "nba"}
    /\ pc \in {"act", "nba"} => didInit
    /\ pc = "init" => ~didInit /\ \E p \in FIRST : pin = p.pin
    /\ nbaTriggered # {} => pc \in {"act", "nba"}
    /\ \A s \in nbaTriggered : pin[s] = 1 /\ prev[s] = 1
    /\ pc = "nba" => prev = pin
    /\ didInit => y_out = YOut(wn, x) /\ wn_u = Wnu(wn, x, err_reg)

\* y_out is the exact dot product whenever that product fits a word: the
\* masks, the logical shift and the sum's width lose nothing else.
OutputExact ==
    LET exact == Sum(wn, x) \div N
    IN  pc = "idle" /\ didInit /\ -M <= 2 * exact /\ 2 * exact < M
            => Extends(y_out) = exact

\* The delay line shifts at every edge, not at every sample written: four
\* edges after the last change of x_in_reg all taps hold the same sample.
TapsCollapse == quiet = 4 => \A i \in Taps : x[i] = x_in_reg

\* Every eval_step() returns to the test bench: no loop of eval() gets to its
\* hundredth round, where VL_FATAL_MT would stop the model.
EvalReturns == pc = "act" ~> pc = "idle"
=============================================================================
