------------------------------- MODULE Pipeline -------------------------------
(***************************************************************************)
(* The in-order pipeline of the core (core.vhdl): decode2 with the         *)
(* scoreboard, the execute stages, loadstore1, the FPU and writeback, all  *)
(* clocked together.  One step is one clock cycle.  decode1 and the fetch  *)
(* stages are the environment: they present any instruction, or none.      *)
(*                                                                         *)
(* decode2 keeps, instead of operand values, whether each operand that it  *)
(* captured is the value of the youngest older writer (fresh).             *)
(***************************************************************************)
EXTENDS Control, Writeback, FiniteSets

VARIABLES din,      \* decode1's output register
          dc2,      \* decode2's register: the instruction, and its operands
          refill    \* cycles until fetch can deliver again after a flush

vars == <<control_vars, dcache_vars, ls_vars, fpu, ex_vars, din, dc2, refill>>

Operands == {"a", "b", "cr", "ov"}

dc2_init == [busy |-> FALSE, valid |-> FALSE, i |-> NoInsn, tag |-> NoTag,
             fresh |-> [o \in Operands |-> TRUE], sgl_pipe |-> FALSE, prev_sgl |-> FALSE]

PipelineInit ==
  /\ ControlInit
  /\ DcInit
  /\ LsInit
  /\ FpuInit
  /\ ExInit
  /\ din = NoInsn
  /\ dc2 = dc2_init
  /\ refill = 0

-----------------------------------------------------------------------------
(* decode2.                                                                *)

deferred == dc2.valid /\ busy_out

stall_out == dc2.busy \/ deferred

\* The instruction that may issue in this cycle: the one that has been waiting,
\* or the one decode1 presents.
current == IF dc2.busy THEN dc2.i ELSE din

\* v.sgl_pipe and v.prev_sgl.
takes_new == ~dc2.busy /\ din.op # "none"
v_sgl_pipe == IF takes_new THEN din.op \in SglOps ELSE dc2.sgl_pipe
v_prev_sgl == IF takes_new THEN dc2.sgl_pipe ELSE dc2.prev_sgl

\* Mutant: only the serialized instruction itself waits, not the one after it.
serialize_before_only == v_sgl_pipe

serialize == v_sgl_pipe \/ v_prev_sgl

\* The tags whose results are at hand, for registers and for CR.
available == {ex1_bypass(dc2).tag, ex2_bypass.tag, complete_out} \ {NoTag}
cr_available == {ex1_cr_bypass(dc2), ex2_cr_bypass, complete_out} \ {NoTag}

issue_valid ==
  valid_out(current, flush_out, serialize, available, cr_available, complete_out)

issue_tag == instr_tag(issue_valid, deferred)

\* Mutant: the older of the two execute bypasses wins.
bypass_older_first(r) ==
  IF ex2_bypass.reg = r THEN {ex2_bypass.producer}
  ELSE IF ex1_bypass(dc2).reg = r THEN {ex1_bypass(dc2).producer}
  ELSE IF wb_bypass.reg = r THEN {wb_bypass.producer}
  ELSE {}

\* byp_a, byp_b and byp_c: the producer of the value that the bypass network
\* supplies for r.  The network compares register numbers, not tags.
bypass(r) ==
  IF ex1_bypass(dc2).reg = r THEN {ex1_bypass(dc2).producer}
  ELSE IF ex2_bypass.reg = r THEN {ex2_bypass.producer}
  ELSE IF wb_bypass.reg = r THEN {wb_bypass.producer}
  ELSE {}

\* Whether operand o, register r, is fresh after this cycle's capture: from the
\* bypass, from the register file, or as captured before.
captured(o, r) ==
  \/ r = NoReg
  \/ bypass(r) # {} /\ bypass(r) = {lastw[r]}
  \/ bypass(r) = {} /\ IF dc2.busy THEN dc2.fresh[o] ELSE lastw[r] = NoTag

\* CR is taken from a bypass by tag, otherwise from the file with this cycle's
\* write merged in; XER[OV] always from the file.
captured_cr ==
  \/ ~cr_read(current)
  \/ lastcr \in {NoTag, complete_out, ex1_cr_bypass(dc2), ex2_cr_bypass}

captured_ov == ~ov_read(current) \/ lastov \in {NoTag, complete_out}

decode2_1 ==
  [busy |-> current.op # "none" /\ ~issue_valid,
   valid |-> issue_valid,
   i |-> current,
   tag |-> issue_tag,
   fresh |-> [o \in Operands |-> CASE o = "a" -> captured("a", current.ra)
                                   [] o = "b" -> captured("b", current.rb)
                                   [] o = "cr" -> captured_cr
                                   [] o = "ov" -> captured_ov],
   sgl_pipe |-> v_sgl_pipe,
   prev_sgl |-> v_prev_sgl]

decode2_0 ==
  dc2' = IF flush_out THEN dc2_init ELSE IF deferred THEN dc2 ELSE decode2_1

-----------------------------------------------------------------------------
\* decode1: nothing for two cycles after a flush; then any instruction or none,
\* and always the second half after a load with update.
decode1 ==
  IF flush_out THEN din' = NoInsn /\ refill' = 1
  ELSE IF stall_out THEN UNCHANGED <<din, refill>>
  ELSE IF refill > 0 THEN din' = NoInsn /\ refill' = refill - 1
  ELSE /\ IF din.op = "loadu" THEN din' = second_half(din)
                              ELSE din' \in Insns \cup {NoInsn}
       /\ UNCHANGED refill

\* Interrupt requests matter to an instruction about to execute and to a wait.
irqs == IF dc2.valid \/ ex1.enter_wait \/ wait_state THEN {"none", "pend", "take"}
        ELSE {"none"}

Clock ==
  \E irq \in irqs :
     /\ decode1
     /\ decode2_0
     /\ control0(flush_out, complete_out, issue_valid, issue_tag, current)
     /\ ExClock(dc2, flush_out, intr, irq)

PipelineSpec == PipelineInit /\ [][Clock]_vars

\* The clock ticks.  Memory, the page table walk, an FP operation and the bit
\* sorter take any number of cycles but finish: in every busy state of theirs
\* the finishing cycle is enabled, so each of these is its weak fairness.  A
\* retry after a page table walk does not miss in the TLB for ever.
Fairness ==
  /\ WF_vars(Clock)
  /\ []<>~dc_stall
  /\ []<>(mmu # "busy")
  /\ []<>(fpu.state # "EXEC")
  /\ []<>(bs # "run")
  /\ []<>d_error => []<>d_valid

FairPipelineSpec == PipelineSpec /\ Fairness

-----------------------------------------------------------------------------
\* decode2's registers, decode1's output and all the stages have their types.
PipelineTypeOK ==
  /\ ControlTypeOK
  /\ ExTypeOK
  /\ din \in Decoded \cup {NoInsn}
  /\ dc2 \in [busy : BOOLEAN, valid : BOOLEAN, i : Insn, tag : TagOpt,
              fresh : [Operands -> BOOLEAN], sgl_pipe : BOOLEAN, prev_sgl : BOOLEAN]
  /\ refill \in 0 .. 1

\* Tags are handed out in cyclic order, so the outstanding instruction whose
\* tag comes first after curr_tag was issued first.
oldest(t) ==
  \A u \in Outstanding : (t - curr_tag) % TAG_COUNT <= (u - curr_tag) % TAG_COUNT

\* Instructions complete one at a time and in program order, whatever unit they
\* are in: writeback never reports a tag that is not outstanding (the
\* "spurious completion" of control.vhdl) or that has an older one before it.
CompletesInOrder ==
  /\ Cardinality(completing) <= 1
  /\ completing # {} => complete_out \in Outstanding /\ oldest(complete_out)

\* control.vhdl hands out curr_tag without looking whether it is free; the
\* stages are so few that the previous holder is always done by then.
TagsAreFree == issue_tag # NoTag => issue_tag \notin Outstanding \ {complete_out}

\* An interrupt is precise: the instruction that raises it is the oldest
\* outstanding one, so everything before it has completed.
PreciseInterrupts ==
  \A t \in interrupting : t \in Outstanding /\ oldest(t) /\ complete_out \in {t, NoTag}

\* No operand that an issued instruction carries is out of date: for every
\* register the bypass network, which goes by register number, delivers the
\* result of the youngest older writer, or the register file has it.
OperandsFresh == dc2.valid => \A o \in Operands : dc2.fresh[o]

\* A register is written in the cycle in which its writer completes, by one
\* unit only (the assertions of writeback_0), and a load does not complete
\* without writing its target.
WritesWhenCompleting ==
  ~intr => /\ Cardinality(writing) <= 1
           /\ writing \subseteq completing
           /\ "ls" \in completing => ("ls" \in writing <=> r2.req.wr # NoReg)

\* Everything in flight belongs to an outstanding instruction: a flush leaves
\* nothing behind, although loadstore1 and the dcache do not see it.
NoOrphans ==
  /\ \A q \in {r1.req, r2.req} : q.valid => q.tag \in Outstanding
  /\ dc0.op # "none" /\ ~d_error => dc0.tag \in Outstanding
  /\ \A x \in {ex1, ex2} : x.valid \/ x.interrupt \/ x.redirect => x.tag \in Outstanding
  /\ fpu.busy => fpu.instr_tag \in Outstanding
  /\ fpu.instr_done => fpu.complete_tag \in Outstanding

\* "We mustn't get stalled on a cycle where execute2 is completing an
\* instruction or generating an interrupt" (execute1_0).
NotStalledAtCompletion == ex2.valid \/ ex2.interrupt => ~stage2_stall

\* An answer of the dcache or of the MMU is for the request in r2, which is
\* waiting for it (the assertions of loadstore1's clocked process).
AnswersMatch ==
  /\ d_valid \/ d_error => /\ r2.req.valid /\ r2.req.dc_req /\ r3.state = "IDLE"
                          /\ dc1.tag = r2.req.tag
  /\ m_done \/ m_err => r2.req.valid /\ r3.state = "MMU_WAIT"

\* A request that loadstore1 believes to be on its way is in the dcache.
IssuedIsInDcache ==
  r1.req.valid /\ r1.issued => dc0.op = r1.req.op /\ dc0.tag = r1.req.tag

\* A serialized instruction, and the one behind it, issue only when every older
\* instruction has completed, although control_hazards looks only at the tag
\* that was handed out last.
SerializedIssuesAlone ==
  issue_tag # NoTag /\ (v_sgl_pipe \/ v_prev_sgl) => Outstanding \subseteq {complete_out}

\* The assertion of control0: a tag that completes is outstanding.
NoSpuriousCompletion == complete_out # NoTag => complete_out \in Outstanding

\* Every instruction that issues completes or is flushed.
EveryInstructionRetires ==
  \A t \in Tags : t \in Outstanding ~> complete_out = t \/ flush_out

\* An instruction that waits in decode2 issues or is flushed.
DecodeProgress == dc2.busy ~> ~dc2.busy
=============================================================================
