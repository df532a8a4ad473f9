------------------------------- MODULE Writeback -------------------------------
(***************************************************************************)
(* writeback.vhdl has no state: it merges what the second execute stage,   *)
(* loadstore1 and the FPU present in this cycle into one completion, one   *)
(* register write, and the interrupt or redirect that flushes the core.    *)
(***************************************************************************)
EXTENDS Execute1

\* complete_out.
complete_out ==
  IF ex2.valid THEN ex2.tag
  ELSE IF ls_complete THEN r2.req.tag
  ELSE IF fpu.complete THEN fpu.complete_tag
  ELSE NoTag

intr == ex2.interrupt \/ r3.interrupt \/ fpu.do_intr

\* The instructions that raise the interrupt of this cycle.
interrupting ==
  (IF ex2.interrupt THEN {ex2.tag} ELSE {})
    \cup (IF r3.interrupt THEN {r3.itag} ELSE {})
    \cup (IF fpu.do_intr THEN {fpu.complete_tag} ELSE {})

flush_out == ex2.redirect \/ intr

\* The units that complete an instruction, and those that write a register,
\* in this cycle.
completing ==
  {u \in {"ex", "ls", "fp"} : \/ u = "ex" /\ ex2.valid
                              \/ u = "ls" /\ ls_complete
                              \/ u = "fp" /\ fpu.complete}

writing ==
  {u \in {"ex", "ls", "fp"} : \/ u = "ex" /\ ex2.valid /\ ex2.i.wr # NoReg
                              \/ u = "ls" /\ ls_write_enable
                              \/ u = "fp" /\ fpu.complete /\ fpu.retiring.wr # NoReg}

\* w_out.write_reg: the assignments of the process in order, so that loadstore1
\* overrides the FPU, which overrides execute1.
write_reg ==
  IF intr \/ writing = {} THEN NoReg
  ELSE IF "ls" \in writing THEN r2.req.wr
  ELSE IF "fp" \in writing THEN fpu.retiring.wr
  ELSE ex2.i.wr

wb_bypass == [reg |-> IF complete_out = NoTag THEN NoReg ELSE write_reg,
              producer |-> complete_out]
=============================================================================
