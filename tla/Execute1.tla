------------------------------- MODULE Execute1 -------------------------------
(***************************************************************************)
(* The two execute stages (execute1.vhdl), which also send instructions on *)
(* to loadstore1 and the FPU, and the multi-cycle units they start.        *)
(*                                                                         *)
(* Parameters: e is the instruction that decode2 presents, [valid, i, tag];*)
(* flush is flush_in; irq is "none", "pend" (an interrupt is pending, but  *)
(* MSR[EE] = 0) or "take" (it is to be taken, or a trace interrupt is).    *)
(***************************************************************************)
EXTENDS Loadstore1, Fpu

VARIABLES ex1, ex2,
          mulpipe,      \* valid bits of the multiplier pipeline
          bs,           \* the bit sort/permute unit: "idle", "run" or "done"
          wait_state    \* ctrl.wait_state

ex_vars == <<ex1, ex2, mulpipe, bs, wait_state>>

ex2_idle == [i |-> NoInsn, tag |-> NoTag, valid |-> FALSE, interrupt |-> FALSE,
             redirect |-> FALSE]

ex1_idle == [i |-> NoInsn, tag |-> NoTag, valid |-> FALSE, interrupt |-> FALSE,
             redirect |-> FALSE, busy |-> FALSE, mul |-> FALSE, mul_finish |-> FALSE,
             bsort |-> FALSE, enter_wait |-> FALSE]

ExInit ==
  /\ ex1 = ex1_idle
  /\ ex2 = ex2_idle
  /\ mulpipe = <<FALSE, FALSE, FALSE>>
  /\ bs = "idle"
  /\ wait_state = FALSE

-----------------------------------------------------------------------------
\* Mutant: an FP operation does not hold up decode2.
busy_out_no_fpu == ls_busy \/ ex1.busy \/ wait_state

busy_out == ls_busy \/ ex1.busy \/ fpu.busy \/ wait_state

stage2_stall == l2stall \/ fpu.f2stall

\* Mutant: the instruction behind a redirect or an interrupt is executed.
valid_in_shadow(e, flush) == e.valid /\ ~busy_out /\ ~flush

valid_in(e, flush) ==
  e.valid /\ ~busy_out /\ ~flush /\ ~ex1.redirect /\ ~ex1.interrupt

\* The interrupt taken instead of executing e; the second half of an
\* instruction is never interrupted.
prevented(e, flush, irq) ==
  /\ valid_in(e, flush)
  /\ e.i.op \in FaultingOps \/ (irq = "take" /\ e.i.op # "upd")

go(e, flush, irq) == valid_in(e, flush) /\ ~prevented(e, flush, irq)

mul_valid == mulpipe[3]

\* The multiply in progress has its result; with OE it takes one more cycle.
mul_done == mul_valid /\ ex1.i.op # "mulo"

bsort_done == bs = "done"

-----------------------------------------------------------------------------
(* execute1_1.                                                             *)

ex1_valid(e, flush, irq) ==
  IF ex1.bsort THEN bsort_done
  ELSE IF ex1.mul_finish THEN TRUE
  ELSE IF ex1.mul THEN mul_done
  ELSE IF go(e, flush, irq) THEN e.i.op \in FastOps \cup SecondStageOps
  ELSE busy_out /\ ex1.valid

ex1_busy(e, flush, irq) ==
  IF ex1.bsort THEN ~bsort_done
  ELSE IF ex1.mul THEN ~mul_done
  ELSE go(e, flush, irq) /\ e.i.op \in MultiCycleOps

ex1_interrupt(e, flush, irq) ==
  IF ex1.busy \/ ls_busy \/ fpu.busy THEN ex1.interrupt
  ELSE prevented(e, flush, irq) \/ (go(e, flush, irq) /\ e.i.op = "trap")

\* The stage as the edge leaves it when there is no flush; mispredict says how
\* the branch turns out.  An empty stage is normalised.
ex1_next(e, flush, irq, mispredict) ==
  LET gone == go(e, flush, irq)
      i == IF busy_out THEN ex1.i ELSE e.i
      v == [i |-> i, tag |-> IF busy_out THEN ex1.tag ELSE e.tag,
            valid |-> ex1_valid(e, flush, irq),
            interrupt |-> ex1_interrupt(e, flush, irq),
            redirect |-> /\ ex1_valid(e, flush, irq)
                         /\ IF busy_out THEN ex1.redirect ELSE mispredict,
            busy |-> ex1_busy(e, flush, irq),
            mul |-> IF ex1.mul THEN ~mul_valid ELSE gone /\ i.op \in {"mul", "mulo"},
            mul_finish |-> ex1.mul /\ mul_valid /\ ex1.i.op = "mulo",
            bsort |-> IF ex1.bsort THEN ~bsort_done ELSE gone /\ i.op = "bsort",
            enter_wait |-> IF gone THEN i.op = "wait" ELSE busy_out /\ ex1.enter_wait]
  IN  IF v.valid \/ v.interrupt \/ v.busy \/ v.bsort THEN v ELSE ex1_idle

\* A flush empties the stage, but leaves bsort_in_progress set.
ex1_flushed(v) ==
  IF v.bsort
    THEN [v EXCEPT !.valid = FALSE, !.interrupt = FALSE, !.redirect = FALSE,
                   !.busy = FALSE, !.mul = FALSE, !.mul_finish = FALSE]
    ELSE ex1_idle

execute1_1(e, flush, irq) ==
  \E mispredict \in IF go(e, flush, irq) /\ e.i.op = "br" THEN BOOLEAN ELSE {FALSE} :
     LET v == ex1_next(e, flush, irq, mispredict)
     IN  ex1' = IF flush THEN ex1_flushed(v) ELSE v

\* The units that are started here and know nothing of flushes.
multi_cycle(e, flush, irq) ==
  LET gone == go(e, flush, irq) IN
  /\ mulpipe' = <<gone /\ e.i.op \in {"mul", "mulo"}, mulpipe[1], mulpipe[2]>>
  /\ bs' \in IF gone /\ e.i.op = "bsort" THEN {"run"}
             ELSE IF bs = "run" THEN {"run", "done"}
             ELSE {"idle"}

-----------------------------------------------------------------------------
(* execute2_1.                                                             *)

\* Mutant: the second stage takes an instruction although it is stalled.
ex2_takes_stalled(flush) == ~flush

ex2_takes(flush) == ~stage2_stall /\ ~flush

execute2_1(flush, intr, irq) ==
  /\ ex2' = IF ex2_takes(flush) /\ (ex1.valid \/ ex1.interrupt)
              THEN [i |-> ex1.i, tag |-> ex1.tag, valid |-> ex1.valid,
                    interrupt |-> ex1.interrupt, redirect |-> ex1.redirect]
              ELSE ex2_idle
  /\ wait_state' = /\ wait_state \/ (~stage2_stall /\ ex1.enter_wait)
                   /\ irq = "none"
                   /\ ~intr

-----------------------------------------------------------------------------
(* The results that decode2 may take before they are written back.         *)

bypass_valid(e) ==
  IF ex1.bsort THEN bsort_done
  ELSE IF ex1.mul THEN mul_done
  ELSE e.valid /\ e.i.op \in FastOps

\* bypass_data: the tag and register come from v.e, the data from the first
\* stage result mux.
ex1_bypass(e) ==
  LET v == IF busy_out THEN ex1 ELSE e IN
  [tag |-> IF bypass_valid(e) /\ v.i.wr # NoReg THEN v.tag ELSE NoTag,
   reg |-> IF bypass_valid(e) THEN v.i.wr ELSE NoReg,
   producer |-> IF ex1.busy THEN ex1.tag ELSE e.tag]

ex1_cr_bypass(e) == IF bypass_valid(e) /\ e.i.cr = "out" THEN e.tag ELSE NoTag

bypass2_valid == ex1.valid /\ ex1.i.op # "mfspr"

ex2_bypass ==
  [tag |-> IF bypass2_valid /\ ex1.i.wr # NoReg THEN ex1.tag ELSE NoTag,
   reg |-> IF bypass2_valid THEN ex1.i.wr ELSE NoReg,
   producer |-> ex1.tag]

ex2_cr_bypass == IF bypass2_valid /\ cr_write(ex1.i) THEN ex1.tag ELSE NoTag

-----------------------------------------------------------------------------
\* One clock edge of the execute stages and of the units behind them.
ExClock(e, flush, intr, irq) ==
  LET gone == go(e, flush, irq)
      to(unit) == gone /\ e.i.op \in unit
  IN  /\ execute1_1(e, flush, irq)
      /\ multi_cycle(e, flush, irq)
      /\ execute2_1(flush, intr, irq)
      /\ LsClock(IF to(LDSTOps) THEN req_in(e.i, e.tag) ELSE NoRequest, fpu.f2stall)
      /\ FpuClock(flush, to(FPUOps), e.i, e.tag, l2stall)

ExTypeOK ==
  /\ LsTypeOK
  /\ FpuTypeOK
  /\ ex1 \in [i : Insn, tag : TagOpt, valid : BOOLEAN, interrupt : BOOLEAN,
              redirect : BOOLEAN, busy : BOOLEAN, mul : BOOLEAN, mul_finish : BOOLEAN,
              bsort : BOOLEAN, enter_wait : BOOLEAN]
  /\ ex2 \in [i : Insn, tag : TagOpt, valid : BOOLEAN, interrupt : BOOLEAN,
              redirect : BOOLEAN]
  /\ DOMAIN mulpipe = 1 .. 3 /\ \A k \in 1 .. 3 : mulpipe[k] \in BOOLEAN
  /\ bs \in {"idle", "run", "done"}
  /\ wait_state \in BOOLEAN
=============================================================================
