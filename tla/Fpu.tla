--------------------------------- MODULE Fpu ---------------------------------
(***************************************************************************)
(* The floating point unit (fpu.vhdl) as a sequencer: one instruction at a *)
(* time runs for any number of cycles, and retires (completes, interrupts, *)
(* or both) when the load/store unit does not stall (e_in.stall).          *)
(* Fields that nobody reads while no instruction is executing, or none is  *)
(* waiting to retire, are reset to keep the state space small.             *)
(***************************************************************************)
EXTENDS CoreTypes

VARIABLE fpu

fpu_idle ==
  [state |-> "IDLE", busy |-> FALSE, f2stall |-> FALSE, instr_done |-> FALSE,
   instr |-> NoInsn, instr_tag |-> NoTag,
   retiring |-> NoInsn, complete_tag |-> NoTag,
   complete |-> FALSE, do_intr |-> FALSE]

FpuInit == fpu = fpu_idle

retires(done, stall) == done /\ ~stall

\* One cycle of fpu_1.  accept: execute1 sends instruction i with this tag;
\* finish: the instruction being executed is in its last state.
fpu_1(accept, i, tag, stall, finish) ==
  LET done == finish \/ (fpu.instr_done /\ ~fpu.complete /\ ~fpu.do_intr)
      leaves == done /\ fpu.state = "EXEC"
      runs == (accept \/ fpu.state = "EXEC") /\ ~leaves
      insn == IF leaves THEN fpu.instr ELSE fpu.retiring
      retire == retires(done, stall)
  IN  [state |-> IF runs THEN "EXEC" ELSE "IDLE",
       busy |-> runs,
       f2stall |-> ~leaves /\ (fpu.f2stall \/ (fpu.state = "EXEC" /\ ~done /\ ~stall)),
       instr_done |-> done,
       instr |-> IF accept THEN i ELSE IF runs THEN fpu.instr ELSE NoInsn,
       instr_tag |-> IF accept THEN tag ELSE IF runs THEN fpu.instr_tag ELSE NoTag,
       retiring |-> IF done THEN insn ELSE NoInsn,
       complete_tag |-> IF leaves THEN fpu.instr_tag
                        ELSE IF done THEN fpu.complete_tag ELSE NoTag,
       complete |-> retire /\ insn.op # "fpill",
       do_intr |-> retire /\ insn.op \in {"fpx", "fpill"}]

FpuClock(flush, accept, i, tag, stall) ==
  IF flush THEN fpu' = fpu_idle
  ELSE \E finish \in IF fpu.state = "EXEC" THEN BOOLEAN ELSE {FALSE} :
         fpu' = fpu_1(accept, i, tag, stall, finish)

FpuTypeOK ==
  fpu \in [state : {"IDLE", "EXEC"}, busy : BOOLEAN, f2stall : BOOLEAN,
           instr_done : BOOLEAN, instr : Insn, instr_tag : TagOpt,
           retiring : Insn, complete_tag : TagOpt, complete : BOOLEAN, do_intr : BOOLEAN]
=============================================================================
