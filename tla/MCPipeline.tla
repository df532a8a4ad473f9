------------------------------ MODULE MCPipeline ------------------------------
(* Programs for the pipeline: sets of instructions that may follow each    *)
(* other in any order.                                                     *)
EXTENDS Pipeline

CONSTANTS x, y, none

I(op, wr, ra, cr, ov) ==
  [op |-> op, wr |-> wr, ra |-> ra, rb |-> none, cr |-> cr, ov |-> ov]

ExecuteInsns ==
  {I("alu", x, y, "rc", "no"), I("alu", none, x, "out", "no"), I("slow", y, x, "no", "no"),
   I("mfspr", x, none, "no", "no"), I("br", none, none, "in", "no"),
   I("trap", none, y, "no", "no"), I("ill", none, none, "no", "no"),
   I("mulo", y, x, "no", "out"), I("bsort", x, none, "no", "in"),
   I("fpx", y, x, "rc", "no"), I("fpill", none, none, "no", "no")}

MemoryInsns ==
  {I("loadu", x, y, "no", "no"), I("load2", y, x, "no", "no"), I("lfs", x, none, "no", "no"),
   I("stcx", none, x, "rc", "in"), I("larxm", x, none, "no", "no"),
   I("ifail", none, none, "no", "no"), I("alu", y, x, "in", "out"),
   I("sync", none, none, "no", "no"), I("mtpid", none, x, "no", "no"),
   I("wait", none, none, "no", "no"), I("mtspr", none, x, "no", "no"),
   I("mfdar", x, none, "no", "no"), I("br", none, none, "no", "no")}

FloatMemoryInsns ==
  {I("fp", x, y, "rc", "no"), I("load", x, y, "no", "no"), I("store", none, x, "no", "no"),
   I("alu", y, x, "in", "out"), I("lfs", y, none, "no", "no"), I("mul", y, x, "no", "no")}

HashInsns == {I("hashst", none, x, "no", "no"), I("hashchk", none, x, "no", "no"),
              I("alu", x, none, "no", "no")}

LiveInsns == {I("load", x, none, "no", "no"), I("fp", x, x, "no", "no"),
              I("sync", none, none, "no", "no")}

\* Programs that show the findings.
FpInterruptInsns == {I("load", x, none, "no", "no"), I("fpill", none, none, "no", "no")}
TlbieInsns == {I("tlbie", none, none, "no", "no"), I("sync", none, none, "no", "no")}

-----------------------------------------------------------------------------
(* Two states are the same to TLC if they differ only in which tag comes   *)
(* next, or in registers whose contents nobody reads any more.  All tags   *)
(* are counted from curr_tag; nothing but the hazard loops, which find at  *)
(* most one match (ScoreboardCorrect), tells tag numbers apart.            *)

Rot(t) == IF t = NoTag THEN NoTag ELSE (t - curr_tag) % TAG_COUNT

RotIn(rec) == [rec EXCEPT !.tag = Rot(@)]

Live(q) == IF q.valid \/ q.dc_req THEN RotIn(q) ELSE NoRequest

View ==
  <<[d \in Tags |-> LET reg == tag_regs[(curr_tag + d) % TAG_COUNT]
                    IN  IF reg.valid THEN reg ELSE IdleTag],
    IF tag_regs[curr_cr_tag].wr_cr THEN Rot(curr_cr_tag) ELSE NoTag,
    IF tag_regs[curr_ov_tag].wr_ov THEN Rot(curr_ov_tag) ELSE NoTag,
    IF tag_regs[prev_tag].valid THEN Rot(prev_tag) ELSE NoTag,
    [r \in Regs |-> Rot(lastw[r])], Rot(lastcr), Rot(lastov),
    RotIn(dc0), RotIn(dc1),
    [r1 EXCEPT !.req = Live(r1.req)],
    [r2 EXCEPT !.req = IF ls_complete THEN RotIn(r2.req) ELSE Live(r2.req)],
    [r3 EXCEPT !.itag = Rot(@)], flushing, hash, mmu,
    [fpu EXCEPT !.instr_tag = Rot(@), !.complete_tag = Rot(@)],
    RotIn(ex1), RotIn(ex2), mulpipe, bs, wait_state, din,
    IF dc2.valid \/ dc2.busy THEN RotIn(dc2)
      ELSE [dc2_init EXCEPT !.sgl_pipe = dc2.sgl_pipe, !.prev_sgl = dc2.prev_sgl],
    refill>>
=============================================================================
