------------------------------ MODULE CoreTypes ------------------------------
(***************************************************************************)
(* What the pipeline stages of the core exchange: instruction tags         *)
(* (common.vhdl), and instructions reduced to what the pipeline control    *)
(* tells apart.                                                            *)
(*                                                                         *)
(* An instruction is a record                                              *)
(*   op      its class, which fixes the unit and the timing;               *)
(*   wr      the GPR/FPR it writes, or NoReg;                              *)
(*   ra, rb  the registers it reads, or NoReg;                             *)
(*   cr      "no", "in" (reads CR), "out" (writes it in the first stage),  *)
(*           "rc" (writes CR0 or CR1 from the result);                     *)
(*   ov      "no", "in" (reads XER[SO/OV]), "out" (sets it).               *)
(***************************************************************************)
EXTENDS Integers

CONSTANTS TAG_COUNT,   \* instruction tags (4 in common.vhdl)
          Regs,        \* general and floating point registers
          NoReg,       \* "this port is not used"
          Insns        \* the instructions a program may contain

ASSUME TagCountAssumption == TAG_COUNT \in Nat \ {0}
ASSUME NoRegAssumption == NoReg \notin Regs

Tags == 0 .. TAG_COUNT - 1

\* An instr_tag_t with valid = '0'.
NoTag == TAG_COUNT

TagOpt == Tags \cup {NoTag}

RegOpt == Regs \cup {NoReg}

tag_match(t1, t2) == t1 # NoTag /\ t1 = t2

-----------------------------------------------------------------------------
(* Instruction classes, by the unit that decode1 sends them to.            *)

\* One cycle; the result can be bypassed as it leaves the first stage.
FastOps == {"alu", "mtspr", "wait", "br", "trap"}

\* One cycle, result ready in the second stage: count-type and 32-bit multiply
\* ("slow"), mfspr of slow SPRs ("mfspr", which is never bypassed).
SecondStageOps == {"slow", "mfspr"}

\* Several cycles in the first stage: multiply without and with OE, and the
\* bit sort/permute unit.
MultiCycleOps == {"mul", "mulo", "bsort"}

\* Instructions that raise an interrupt instead of executing.
FaultingOps == {"ill"}

ALUOps == FastOps \cup SecondStageOps \cup MultiCycleOps \cup FaultingOps

\* "load2": a load that crosses a doubleword; "lfs": needs a conversion cycle;
\* "loadu" and "upd": the halves of a load with update; "larxm": a misaligned
\* load-and-reserve; "ifail": OP_FETCH_FAILED; "mfdar", "mtpid": SPRs that live
\* in loadstore1 and in the MMU.
LDSTOps == {"load", "load2", "lfs", "loadu", "upd", "store", "stcx", "sync",
            "larxm", "mfdar", "tlbie", "mtpid", "ifail", "hashst", "hashchk"}

\* "fpx" raises an enabled exception, "fpill" is an illegal FP instruction.
FPUOps == {"fp", "fpx", "fpill"}

Ops == ALUOps \cup LDSTOps \cup FPUOps

\* sgl_pipe = '1', or an mtspr that decode2 serializes.
SglOps == {"sync", "wait", "mtspr", "mtpid"}

Insn == [op : Ops \cup {"none"}, wr : RegOpt, ra : RegOpt, rb : RegOpt,
         cr : {"no", "in", "out", "rc"}, ov : {"no", "in", "out"}]

ASSUME InsnsAssumption == Insns \subseteq Insn

NoInsn == [op |-> "none", wr |-> NoReg, ra |-> NoReg, rb |-> NoReg,
           cr |-> "no", ov |-> "no"]

cr_write(i) == i.cr \in {"out", "rc"}

\* Ops that write CR only write some of the fields, so they also read it.
cr_read(i) == i.cr # "no"

ov_write(i) == i.ov = "out"

ov_read(i) == i.ov # "no"

reads(i) == {i.ra, i.rb} \ {NoReg}

\* The second half of a load with update (decode1 sends the instruction twice,
\* decode2_addrs gives the second half RA as its target and no inputs).
second_half(i) == [op |-> "upd", wr |-> i.ra, ra |-> NoReg, rb |-> NoReg,
                   cr |-> i.cr, ov |-> i.ov]

\* What decode1 can present to decode2.
Decoded == Insns \cup {second_half(i) : i \in {j \in Insns : j.op = "loadu"}}
=============================================================================
