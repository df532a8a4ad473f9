------------------------------ MODULE Loadstore1 ------------------------------
(***************************************************************************)
(* The load/store unit (loadstore1.vhdl): three stages r1, r2, r3 between  *)
(* execute1, the data cache and the MMU.  The unit has no flush input: it  *)
(* relies on execute1 never sending it an instruction that could still be  *)
(* flushed by an older one outside the unit.                               *)
(***************************************************************************)
EXTENDS DcachePort

CONSTANT HASH_CYCLES   \* cycles of the HashDigest computation (8)

VARIABLES r1, r2, r3,
          flushing,     \* an alignment interrupt is on its way
          hash,         \* the hash unit: cycles to go, or HashIdle
          mmu           \* the MMU: "idle", "busy", "done" or "err"

ls_vars == <<r1, r2, r3, flushing, hash, mmu>>

NoRequest == [valid |-> FALSE, tag |-> NoTag, op |-> "none", wr |-> NoReg,
              dc_req |-> FALSE, incomplete |-> FALSE]

HashIdle == HASH_CYCLES + 1

LsInit ==
  /\ r1 = [req |-> NoRequest, issued |-> FALSE, busy |-> FALSE]
  /\ r2 = [req |-> NoRequest, busy |-> FALSE, wait_dc |-> FALSE, wait_mmu |-> FALSE,
           one_cycle |-> FALSE]
  /\ r3 = [state |-> "IDLE", complete |-> FALSE, interrupt |-> FALSE, stage1_en |-> TRUE,
           itag |-> NoTag]
  /\ flushing = FALSE
  /\ hash = HashIdle
  /\ mmu = "idle"

-----------------------------------------------------------------------------
(* loadstore1_in: the request made of an incoming instruction.             *)

align_intr(q) == q.op = "larxm"
load_sp(q) == q.op = "lfs"
mmu_op(q) == q.op \in {"tlbie", "mtpid", "ifail"}
hash_op(q) == q.op \in {"hashst", "hashchk"}
hashcmp(q) == q.op = "hashchk"

req_in(i, tag) ==
  [valid |-> TRUE, tag |-> tag, op |-> i.op, wr |-> i.wr,
   dc_req |-> i.op \in {"load", "load2", "lfs", "loadu", "store", "stcx", "sync",
                        "tlbie", "hashst", "hashchk"},
   incomplete |-> i.op = "load2"]

ls_stall == dc_stall \/ d_error \/ r2.busy

ls_busy == ls_stall \/ r1.busy

l2stall == ls_stall

ls_complete == r2.one_cycle \/ (r2.wait_dc /\ d_valid) \/ r3.complete

m_done == mmu = "done"
m_err == mmu = "err"

hash_done == hash = 0

-----------------------------------------------------------------------------
(* Stage 1 (loadstore1_1).  l is the request of this cycle, or NoRequest.  *)

\* Mutant: the request behind an alignment interrupt still goes to the dcache.
new_request_not_flushed(l) == l

\* A request behind an alignment interrupt becomes a no-op.
new_request(l) == [l EXCEPT !.dc_req = l.dc_req /\ ~flushing]

\* The request that goes to r1 next: the incoming one, the same one again, the
\* second doubleword, or the dummy request of the lfs conversion cycle.
stage1_req(l) ==
  IF ~r1.busy THEN new_request(l)
  ELSE IF r1.req.dc_req /\ ~r1.issued THEN r1.req
  ELSE IF r1.req.incomplete THEN [r1.req EXCEPT !.incomplete = FALSE]
  ELSE [r1.req EXCEPT !.valid = r1.req.valid /\ load_sp(r1.req), !.dc_req = FALSE]

\* It is to be sent to the dcache.
wants_issue(l) ==
  IF ~r1.busy THEN stage1_req(l).dc_req
              ELSE (r1.req.dc_req /\ ~r1.issued) \/ r1.req.incomplete

\* Hash instructions wait for the hash computation first.
issue(l) == wants_issue(l) /\ (hash_op(stage1_req(l)) => hash_done)

hash_start(l) == wants_issue(l) /\ hash_op(stage1_req(l)) /\ ~r1.busy

stage1_dcreq(l, exception) == ~exception /\ ~ls_stall /\ issue(l)

\* Mutant: the request in r1 survives an exception of the one ahead of it.
r1_survives == r1

\* The request in r1 when it is killed by an exception of the one ahead of it.
r1_killed == [r1 EXCEPT !.req.valid = FALSE, !.req.dc_req = FALSE,
                        !.req.incomplete = FALSE, !.issued = FALSE, !.busy = FALSE]

r1_loaded(l) ==
  LET req == stage1_req(l) IN
  [req |-> req, issued |-> issue(l),
   busy |-> IF wants_issue(l) /\ hash_op(req) THEN ~hash_done
            ELSE \/ issue(l) /\ (req.incomplete \/ load_sp(req))
                 \/ req.valid /\ mmu_op(req)]

\* Mutant: a request that the dcache dropped behind an error is not sent again.
r1_dropped == r1

\* While stalled: a request that the dcache dropped behind an error goes again.
r1_held == IF r1.issued /\ d_error THEN [r1 EXCEPT !.issued = FALSE, !.busy = TRUE] ELSE r1

loadstore1_1(l, exception) ==
  r1' = IF exception THEN r1_killed
        ELSE IF ls_stall THEN r1_held
        ELSE r1_loaded(l)

\* loadstore_hash_comb: done is up for one cycle, whoever is listening.
hash_step(l, exception) ==
  hash' = IF hash \in 1 .. HASH_CYCLES THEN hash - 1
          ELSE IF ~exception /\ ~ls_stall /\ hash_start(l) THEN HASH_CYCLES
          ELSE HashIdle

-----------------------------------------------------------------------------
(* Stage 2 (loadstore1_2).                                                 *)

\* Mutant: the first half of a two-doubleword access completes the instruction.
completes_on_first_reply(q) ==
  q.valid /\ q.dc_req /\ ~load_sp(q) /\ ~hashcmp(q) /\ q.op # "tlbie"

\* wait_dc: the reply of the dcache completes the instruction.
completes_on_reply(q) ==
  /\ q.valid /\ q.dc_req /\ ~load_sp(q) /\ ~q.incomplete
  /\ ~hashcmp(q) /\ q.op # "tlbie"

\* The request in r1 moves on, unless it still has to go to the dcache.
r2_moved ==
  LET q == r1.req IN
  IF ~q.valid \/ r1.issued \/ ~q.dc_req
    THEN [req |-> q,
          wait_dc |-> completes_on_reply(q),
          wait_mmu |-> q.valid /\ mmu_op(q),
          busy |-> q.valid /\ (align_intr(q) \/ hashcmp(q) \/ mmu_op(q)),
          one_cycle |-> /\ q.valid /\ ~(align_intr(q) \/ hashcmp(q))
                        /\ ~(q.dc_req \/ mmu_op(q))]
    ELSE [r2 EXCEPT !.req.valid = FALSE, !.wait_dc = FALSE, !.wait_mmu = FALSE,
                    !.one_cycle = FALSE]

loadstore1_2(e2stall) ==
  LET moved == IF ls_stall \/ e2stall THEN r2 ELSE r2_moved
      served == r2.wait_mmu /\ m_done
      idle == \/ served /\ mmu_op(r2.req)
              \/ r2.busy /\ ~r2.wait_mmu /\ (hashcmp(r2.req) => d_valid)
      released == [moved EXCEPT !.req.valid = @ /\ ~(served /\ mmu_op(r2.req)),
                                !.busy = @ /\ ~idle,
                                !.wait_mmu = @ /\ ~served]
  IN  r2' = IF (r2.req.valid /\ align_intr(r2.req)) \/ d_fatal \/ m_err
              THEN [released EXCEPT !.req.valid = FALSE, !.busy = FALSE,
                                    !.wait_dc = FALSE, !.wait_mmu = FALSE]
            ELSE IF d_error
              THEN [released EXCEPT !.wait_mmu = TRUE, !.busy = TRUE]
            ELSE released

-----------------------------------------------------------------------------
(* Stage 3 (loadstore1_3).  match is the outcome of comparing the loaded   *)
(* doubleword with the hash.                                               *)

hash_compared == d_valid /\ hashcmp(r2.req)

ls_exception(match) ==
  \/ hash_compared /\ ~match
  \/ r2.req.valid /\ align_intr(r2.req)
  \/ d_fatal
  \/ m_err

\* tlbie, mtspr and instruction-side misses go to the MMU, and so does a
\* load or store that the dcache could not translate.
mmureq ==
  \/ r3.state = "IDLE" /\ r2.req.valid /\ mmu_op(r2.req)
  \/ d_error /\ ~d_fatal

\* An access that the MMU has translated goes to the dcache again.
retry == m_done /\ r2.req.dc_req

loadstore1_3(match) ==
  r3' = [state |-> IF m_done \/ m_err THEN "IDLE" ELSE IF mmureq THEN "MMU_WAIT" ELSE r3.state,
         complete |-> (hash_compared /\ match) \/ (m_done /\ ~r2.req.dc_req),
         interrupt |-> ls_exception(match),
         stage1_en |-> \/ m_done \/ m_err
                       \/ r3.stage1_en /\ ~(d_error /\ ~d_fatal),
         itag |-> IF ls_exception(match) THEN r2.req.tag ELSE NoTag]

\* d_out: what loadstore1 asks of the dcache in this cycle.
d_out(l, exception) ==
  IF r3.stage1_en
    THEN IF stage1_dcreq(l, exception)
           THEN [op |-> stage1_req(l).op, tag |-> stage1_req(l).tag] ELSE DcIdle
    ELSE IF retry THEN [op |-> r2.req.op, tag |-> r2.req.tag] ELSE DcIdle

\* Mutant: the first half of a two-doubleword load writes the register.
ls_write_each_half ==
  IF d_valid
    THEN r2.req.op \in {"load", "load2", "loadu"}
    ELSE r2.req.valid /\ (r2.req.op \in {"mfdar", "upd"} \/ (load_sp(r2.req) /\ ~r2.req.dc_req))

\* l_out.write_enable: results, update addresses and SPR values.
ls_write_enable ==
  IF d_valid /\ ~r2.req.incomplete
    THEN r2.req.op \in {"load", "load2", "loadu"}
    ELSE r2.req.valid /\ (r2.req.op \in {"mfdar", "upd"} \/ (load_sp(r2.req) /\ ~r2.req.dc_req))

\* The MMU answers a request after any number of cycles; tlbie and mtspr
\* cannot fail.  Its own reads of the page tables are not modelled: while it
\* works, r2.busy holds everything else back.
mmu_step ==
  \/ mmu = "idle" /\ mmu' = IF mmureq THEN "busy" ELSE "idle"
  \/ mmu = "busy" /\ mmu' \in {"busy", "done"}
  \/ mmu = "busy" /\ r2.req.op \notin {"tlbie", "mtpid"} /\ mmu' = "err"
  \/ mmu \in {"done", "err"} /\ mmu' = "idle"

LsClock(l, e2stall) ==
  \E match \in IF hash_compared THEN BOOLEAN ELSE {TRUE} :
     /\ loadstore1_1(l, ls_exception(match))
     /\ hash_step(l, ls_exception(match))
     /\ loadstore1_2(e2stall)
     /\ loadstore1_3(match)
     /\ flushing' = /\ flushing \/ (r1'.req.valid /\ align_intr(r1'.req))
                    /\ ~ls_exception(match)
     /\ mmu_step
     /\ DcClock(d_out(l, ls_exception(match)), e2stall)

Request == [valid : BOOLEAN, tag : TagOpt, op : LDSTOps \cup {"none"}, wr : RegOpt,
            dc_req : BOOLEAN, incomplete : BOOLEAN]

LsTypeOK ==
  /\ DcTypeOK
  /\ r1 \in [req : Request, issued : BOOLEAN, busy : BOOLEAN]
  /\ r2 \in [req : Request, busy : BOOLEAN, wait_dc : BOOLEAN, wait_mmu : BOOLEAN,
             one_cycle : BOOLEAN]
  /\ r3 \in [state : {"IDLE", "MMU_WAIT"}, complete : BOOLEAN, interrupt : BOOLEAN,
             stage1_en : BOOLEAN, itag : TagOpt]
  /\ flushing \in BOOLEAN
  /\ hash \in 0 .. HashIdle
  /\ mmu \in {"idle", "busy", "done", "err"}
=============================================================================
