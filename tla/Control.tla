------------------------------- MODULE Control -------------------------------
(***************************************************************************)
(* The issue scoreboard (control.vhdl).  Every issued instruction holds a  *)
(* tag until it completes or is flushed.  tag_regs says what each tag will *)
(* write, and "recent" marks the youngest writer of a register; from these *)
(* bits the hazard logic decides whether the instruction in decode2 may    *)
(* issue.                                                                  *)
(*                                                                         *)
(* lastw, lastcr and lastov are history variables, which the code does not *)
(* have: the youngest outstanding writer of each register, of CR and of    *)
(* XER[OV], or NoTag.  They say what the scoreboard is for.                *)
(***************************************************************************)
EXTENDS CoreTypes

VARIABLES tag_regs, curr_tag, curr_cr_tag, curr_ov_tag, prev_tag,
          lastw, lastcr, lastov

scoreboard == <<tag_regs, curr_tag, curr_cr_tag, curr_ov_tag, prev_tag>>
history == <<lastw, lastcr, lastov>>
control_vars == <<scoreboard, history>>

TagRegister == [valid : BOOLEAN, reg : RegOpt, recent : BOOLEAN,
                wr_cr : BOOLEAN, wr_ov : BOOLEAN]

IdleTag == [valid |-> FALSE, reg |-> NoReg, recent |-> FALSE,
            wr_cr |-> FALSE, wr_ov |-> FALSE]

ControlInit ==
  /\ tag_regs = [t \in Tags |-> IdleTag]
  /\ curr_tag = 0
  /\ curr_cr_tag = 0
  /\ curr_ov_tag = 0
  /\ prev_tag = 0
  /\ lastw = [r \in Regs |-> NoTag]
  /\ lastcr = NoTag
  /\ lastov = NoTag

Outstanding == {t \in Tags : tag_regs[t].valid}

-----------------------------------------------------------------------------
(* control_hazards.  av is the set of tags whose result can be had in this *)
(* cycle: the two execute bypasses and the instruction that completes.     *)

\* Mutant: the valid bit of a tag is not looked at.
gpr_hazard_stale(r, av) ==
  \E t \in Tags : tag_regs[t].recent /\ tag_regs[t].reg = r /\ t \notin av

\* A later tag number overrides an earlier one in the loops of the process.
gpr_hazard(r, av) ==
  LET match == {t \in Tags : tag_regs[t].valid /\ tag_regs[t].recent
                             /\ tag_regs[t].reg = r}
  IN  \E t \in match : t \notin av /\ \A u \in match : u <= t

cr_hazard(crav) == tag_regs[curr_cr_tag].wr_cr /\ curr_cr_tag \notin crav

ov_hazard(complete) ==
  tag_regs[curr_ov_tag].wr_ov /\ ~tag_match(curr_ov_tag, complete)

serial_stall(complete) ==
  tag_regs[prev_tag].valid /\ ~tag_match(prev_tag, complete)

valid_out(i, flush, serialize, av, crav, complete) ==
  /\ i.op # "none"
  /\ ~flush
  /\ \A r \in reads(i) : ~gpr_hazard(r, av)
  /\ ~(cr_read(i) /\ cr_hazard(crav))
  /\ ~(ov_read(i) /\ ov_hazard(complete))
  /\ ~(serialize /\ serial_stall(complete))

\* Mutant: an instruction that is deferred gets a tag in every cycle.
instr_tag_deferred(valid, deferred) == IF valid THEN curr_tag ELSE NoTag

\* instr_tag_out: the tag of the instruction that issues in this cycle.
instr_tag(valid, deferred) == IF valid /\ ~deferred THEN curr_tag ELSE NoTag

-----------------------------------------------------------------------------
(* control0: the clock edge.                                               *)

freed(reg) == [valid |-> FALSE, reg |-> reg.reg, recent |-> reg.recent,
               wr_cr |-> FALSE, wr_ov |-> FALSE]

\* Mutant: completion leaves the CR bit of the tag set.
completed_keep_cr(t, complete) ==
  IF t = complete THEN [tag_regs[t] EXCEPT !.valid = FALSE, !.wr_ov = FALSE]
                  ELSE tag_regs[t]

\* Completion frees the tag.
completed(t, complete) ==
  IF t = complete THEN freed(tag_regs[t]) ELSE tag_regs[t]

\* Mutant: older writers stay recent.
superseded_never(reg, i) == reg

\* The previous writers of i's target are no longer recent.
superseded(reg, i) ==
  [reg EXCEPT !.recent = reg.recent /\ ~(i.wr # NoReg /\ reg.reg = i.wr)]

allocated(i) == [valid |-> TRUE, reg |-> i.wr, recent |-> i.wr # NoReg,
                 wr_cr |-> cr_write(i), wr_ov |-> ov_write(i)]

next_tag_reg(t, flush, complete, tag, i) ==
  CASE flush -> freed(tag_regs[t])
    [] ~flush /\ t = tag -> allocated(i)
    [] ~flush /\ t # tag -> IF tag = NoTag THEN completed(t, complete)
                            ELSE superseded(completed(t, complete), i)

\* The youngest writer w after this edge, when the issuing instruction writes
\* the resource iff wr.
youngest(w, flush, complete, tag, wr) ==
  CASE flush -> NoTag
    [] ~flush /\ tag # NoTag /\ wr -> tag
    [] ~flush /\ ~(tag # NoTag /\ wr) -> IF w = complete THEN NoTag ELSE w

\* Mutant: the tag counter does not wrap.
next_tag_no_wrap(tag) == IF tag # NoTag THEN curr_tag + 1 ELSE curr_tag

next_tag(tag) == IF tag # NoTag THEN (curr_tag + 1) % TAG_COUNT ELSE curr_tag

control0(flush, complete, valid, tag, i) ==
  /\ tag_regs' = [t \in Tags |-> next_tag_reg(t, flush, complete, tag, i)]
  /\ curr_tag' = next_tag(tag)
  /\ curr_cr_tag' = IF tag # NoTag /\ cr_write(i) THEN tag ELSE curr_cr_tag
  /\ curr_ov_tag' = IF tag # NoTag /\ ov_write(i) THEN tag ELSE curr_ov_tag
  /\ prev_tag' = IF valid THEN curr_tag ELSE prev_tag
  /\ lastw' = [r \in Regs |-> youngest(lastw[r], flush, complete, tag, i.wr = r)]
  /\ lastcr' = youngest(lastcr, flush, complete, tag, cr_write(i))
  /\ lastov' = youngest(lastov, flush, complete, tag, ov_write(i))

-----------------------------------------------------------------------------
(* The scoreboard on its own, under every behaviour of the other stages    *)
(* that keeps two rules: only an outstanding tag completes, and an         *)
(* instruction issues only to a tag that is free or is just being freed.   *)
(* control.vhdl asserts the first and relies on the second; module         *)
(* Pipeline shows that the stages of the core keep both.                   *)

ControlStep(flush, deferred, serialize, complete, i, av, crav) ==
  LET valid == valid_out(i, flush, serialize, av, crav, complete)
      tag == instr_tag(valid, deferred)
  IN  /\ tag # NoTag => curr_tag \notin Outstanding \ {complete}
      /\ control0(flush, complete, valid, tag, i)

ControlNext ==
  \E flush, deferred, serialize \in BOOLEAN, complete \in Outstanding \cup {NoTag},
     i \in Decoded \cup {NoInsn}, av \in SUBSET Outstanding,
     crav \in SUBSET Outstanding :
     ControlStep(flush, deferred, serialize, complete, i, av, crav)

ControlSpec == ControlInit /\ [][ControlNext]_control_vars

-----------------------------------------------------------------------------
\* The registers of the scoreboard hold what their declarations say.
ControlTypeOK ==
  /\ tag_regs \in [Tags -> TagRegister]
  /\ curr_tag \in Tags
  /\ curr_cr_tag \in Tags
  /\ curr_ov_tag \in Tags
  /\ prev_tag \in Tags
  /\ lastw \in [Regs -> TagOpt]
  /\ lastcr \in TagOpt
  /\ lastov \in TagOpt

\* A tag is valid, recent and for register r exactly when it belongs to the
\* youngest outstanding writer of r: the "recent" bits of tag_regs, which every
\* issue clears for older writers of its target, never go stale or get lost.
RecentIsYoungest ==
  \A r \in Regs, t \in Tags :
     (tag_regs[t].valid /\ tag_regs[t].recent /\ tag_regs[t].reg = r) <=> lastw[r] = t

\* The hazard logic of control_hazards stalls a reader of r exactly when the
\* youngest outstanding writer of r has no result to offer in this cycle: no
\* operand is read too early, and no reader waits for a writer that is gone.
GprHazardExact ==
  \A r \in Regs, av \in SUBSET Tags :
     gpr_hazard(r, av) <=> lastw[r] \notin av \cup {NoTag}

\* The same for CR and for XER[OV], whose youngest writers control.vhdl tracks
\* by curr_cr_tag and curr_ov_tag although their tags are reused meanwhile.
FlagHazardExact ==
  /\ \A crav \in SUBSET Tags : cr_hazard(crav) <=> lastcr \notin crav \cup {NoTag}
  /\ \A complete \in TagOpt : ov_hazard(complete) <=> lastov \notin {complete, NoTag}
=============================================================================
