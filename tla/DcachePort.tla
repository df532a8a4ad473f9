------------------------------ MODULE DcachePort ------------------------------
(***************************************************************************)
(* The data cache as loadstore1 sees it: a request register (r0) and a     *)
(* result stage (r1).  A request taken in one cycle is looked up in the    *)
(* next; the cycle after that shows a result (d_in.valid), an error, or    *)
(* r1.full, which stalls loadstore1 until the slow operation is done.      *)
(* Which of these happens depends on cache, TLB and memory contents that   *)
(* this model does not have: it is a nondeterministic choice.              *)
(***************************************************************************)
EXTENDS CoreTypes

VARIABLES dc0,   \* r0: the request being looked up; op is "none" if r0_full = 0
          dc1    \* r1: st of the result stage, and the tag it answers

dcache_vars == <<dc0, dc1>>

DcIdle == [op |-> "none", tag |-> NoTag]

\* "hit": ls_valid, "error": ls_error for a translation or protection fault,
\* "fatal": ls_error for cache_paradox, reserve_nc or a DAWR match,
\* "full": slow operation in progress.
DcStates == {"idle", "hit", "error", "fatal", "full"}

DcInit == dc0 = DcIdle /\ dc1 = [st |-> "idle", tag |-> NoTag]

d_valid == dc1.st = "hit"
d_error == dc1.st \in {"error", "fatal"}
d_fatal == dc1.st = "fatal"
dc_stall == dc1.st = "full"

\* What the lookup of a request can lead to.  A TLB probe gets no answer, and
\* sync neither translates nor faults.
dcache_request(op) ==
  CASE op = "tlbie" -> {"idle"}
    [] op = "sync" -> {"hit", "full"}
    [] OTHER -> {"hit", "full", "error", "fatal"}

\* stage_0: loadstore1's request is taken unless r1 is full or hold is set.
stage_0(req, hold) == dc0' = IF dc_stall \/ hold THEN dc0 ELSE req

dcache_go(hold) == dc0.op # "none" /\ ~dc_stall /\ ~hold /\ ~d_error

\* dcache_fast_hit and dcache_slow, seen from outside.
stage_1(hold) ==
  \/ /\ dc_stall
     /\ dc1' \in {dc1, [dc1 EXCEPT !.st = "hit"]}
  \/ /\ ~dc_stall
     /\ ~dcache_go(hold)
     /\ dc1' = [st |-> "idle", tag |-> NoTag]
  \/ /\ dcache_go(hold)
     /\ \E s \in dcache_request(dc0.op) :
          dc1' = [st |-> s, tag |-> IF s = "idle" THEN NoTag ELSE dc0.tag]

DcClock(req, hold) == stage_0(req, hold) /\ stage_1(hold)

DcTypeOK ==
  /\ dc0 \in [op : LDSTOps \cup {"none"}, tag : TagOpt]
  /\ dc1 \in [st : DcStates, tag : TagOpt]
=============================================================================
