---------------------------- MODULE Control_proofs ----------------------------
(***************************************************************************)
(* The scoreboard is exact for every number of tags, every set of          *)
(* registers and every program.                                            *)
(***************************************************************************)
EXTENDS Control, TLAPS

\* Only an outstanding tag has its CR or OV bit set, and the youngest CR and OV
\* writers are the ones curr_cr_tag and curr_ov_tag point at, if still marked.
FlagsTracked ==
  /\ \A t \in Tags : tag_regs[t].wr_cr \/ tag_regs[t].wr_ov => tag_regs[t].valid
  /\ lastcr = IF tag_regs[curr_cr_tag].wr_cr THEN curr_cr_tag ELSE NoTag
  /\ lastov = IF tag_regs[curr_ov_tag].wr_ov THEN curr_ov_tag ELSE NoTag

\* The inductive invariant of the scoreboard.
ControlInv == ControlTypeOK /\ RecentIsYoungest /\ FlagsTracked

-----------------------------------------------------------------------------
\* NoTag is not a tag, and tag numbers are naturals (common.vhdl's tag_number_t).
LEMMA TagFacts == /\ NoTag \notin Tags
                  /\ NoTag \in TagOpt
                  /\ Tags \subseteq Nat
                  /\ 0 \in Tags
                  /\ \A t \in Tags : (t + 1) % TAG_COUNT \in Tags
BY TagCountAssumption DEF Tags, NoTag, TagOpt

\* Whatever decode1 presents is an instruction record.
LEMMA DecodedIsInsn == Decoded \cup {NoInsn} \subseteq Insn
<1>1. NoInsn \in Insn
  BY DEF NoInsn, Insn, RegOpt
<1>2. ASSUME NEW i \in Insn PROVE second_half(i) \in Insn
  BY <1>2 DEF Insn, second_half, Ops, LDSTOps, RegOpt
<1>3. QED
  BY <1>1, <1>2, InsnsAssumption DEF Decoded

\* The scoreboard starts in its invariant: control0 under reset.
LEMMA ControlInitInv == ControlInit => ControlInv
<1> SUFFICES ASSUME ControlInit PROVE ControlInv
  OBVIOUS
<1> USE TagFacts
<1>1. ControlTypeOK
  BY DEF ControlInit, ControlTypeOK, TagRegister, IdleTag, RegOpt
<1>2. RecentIsYoungest
  BY DEF ControlInit, RecentIsYoungest, IdleTag
<1>3. FlagsTracked
  BY DEF ControlInit, FlagsTracked, IdleTag
<1>4. QED
  BY <1>1, <1>2, <1>3 DEF ControlInv

\* What one clock edge of control0 does, spelled out for one step of ControlNext:
\* a tag issues only if it is free, and not in the cycle of a flush.
LEMMA ControlStepFacts ==
  ASSUME ControlInv, ControlNext
  PROVE  \E flush \in BOOLEAN, valid \in BOOLEAN, complete \in TagOpt, tag \in TagOpt, i \in Insn :
           /\ control0(flush, complete, valid, tag, i)
           /\ tag # NoTag => ~flush /\ tag = curr_tag /\ (tag_regs[tag].valid => tag = complete)
<1>1. PICK flush \in BOOLEAN, deferred \in BOOLEAN, serialize \in BOOLEAN,
           complete \in Outstanding \cup {NoTag}, i \in Decoded \cup {NoInsn},
           av \in SUBSET Outstanding, crav \in SUBSET Outstanding :
           ControlStep(flush, deferred, serialize, complete, i, av, crav)
  BY DEF ControlNext
<1> DEFINE valid == valid_out(i, flush, serialize, av, crav, complete)
           tag == instr_tag(valid, deferred)
<1>2. tag # NoTag => curr_tag \notin Outstanding \ {complete}
  BY <1>1 DEF ControlStep
<1>3. control0(flush, complete, valid, tag, i)
  BY <1>1 DEF ControlStep
<1>4. valid \in BOOLEAN
  BY DEF valid_out
<1>5. complete \in TagOpt /\ i \in Insn
  BY DecodedIsInsn, TagFacts DEF Outstanding, TagOpt
<1>6. curr_tag \in Tags
  BY DEF ControlInv, ControlTypeOK
<1>7. tag \in TagOpt
  BY <1>6, TagFacts DEF instr_tag, TagOpt
<1>8. tag # NoTag => valid /\ tag = curr_tag
  BY DEF instr_tag
<1>9. valid => ~flush
  BY DEF valid_out
<1>10. tag # NoTag => (tag_regs[tag].valid => tag = complete)
  BY <1>2, <1>6, <1>8 DEF Outstanding
<1> HIDE DEF valid, tag
<1>11. QED
  BY <1>3, <1>4, <1>5, <1>7, <1>8, <1>9, <1>10

-----------------------------------------------------------------------------
\* One clock edge of control0 keeps the invariant.
LEMMA ControlStepInv ==
  ASSUME ControlInv,
         NEW flush \in BOOLEAN, NEW valid \in BOOLEAN,
         NEW complete \in TagOpt, NEW tag \in TagOpt, NEW i \in Insn,
         control0(flush, complete, valid, tag, i),
         tag # NoTag => ~flush /\ tag = curr_tag /\ (tag_regs[tag].valid => tag = complete)
  PROVE  ControlInv'
<1> USE TagFacts
<1> DEFINE after(t) == next_tag_reg(t, flush, complete, tag, i)
<1>1. /\ tag_regs \in [Tags -> TagRegister]
      /\ curr_tag \in Tags /\ curr_cr_tag \in Tags /\ curr_ov_tag \in Tags /\ prev_tag \in Tags
      /\ lastw \in [Regs -> TagOpt] /\ lastcr \in TagOpt /\ lastov \in TagOpt
  BY DEF ControlInv, ControlTypeOK
<1>2. i.wr \in RegOpt /\ cr_write(i) \in BOOLEAN /\ ov_write(i) \in BOOLEAN
  BY DEF Insn, cr_write, ov_write
<1>3. \A t \in Tags : tag_regs'[t] = after(t)
  BY DEF control0
<1>4. tag_regs' = [t \in Tags |-> after(t)]
  BY DEF control0
\* The four things that can happen to a tag register.
<1>5. ASSUME NEW t \in Tags
      PROVE  /\ flush => after(t) = freed(tag_regs[t])
             /\ ~flush /\ t = tag => after(t) = allocated(i)
             /\ ~flush /\ t # tag /\ tag = NoTag => after(t) = completed(t, complete)
             /\ ~flush /\ t # tag /\ tag # NoTag => after(t) = superseded(completed(t, complete), i)
  BY DEF next_tag_reg
<1>6. /\ allocated(i) \in TagRegister
      /\ allocated(i).valid
      /\ allocated(i).reg = i.wr
      /\ allocated(i).recent <=> i.wr # NoReg
      /\ allocated(i).wr_cr = cr_write(i)
      /\ allocated(i).wr_ov = ov_write(i)
  BY <1>2 DEF allocated, TagRegister
<1>7. ASSUME NEW t \in Tags
      PROVE  /\ freed(tag_regs[t]) \in TagRegister
             /\ ~freed(tag_regs[t]).valid /\ ~freed(tag_regs[t]).wr_cr /\ ~freed(tag_regs[t]).wr_ov
             /\ freed(tag_regs[t]).reg = tag_regs[t].reg
             /\ freed(tag_regs[t]).recent = tag_regs[t].recent
  BY <1>1 DEF freed, TagRegister
<1>8. ASSUME NEW c \in TagRegister
      PROVE  /\ superseded(c, i) \in TagRegister
             /\ superseded(c, i).valid = c.valid
             /\ superseded(c, i).wr_cr = c.wr_cr
             /\ superseded(c, i).wr_ov = c.wr_ov
             /\ superseded(c, i).reg = c.reg
             /\ superseded(c, i).recent <=> c.recent /\ ~(i.wr # NoReg /\ c.reg = i.wr)
  BY DEF superseded, TagRegister
<1>9. ASSUME NEW t \in Tags
      PROVE  /\ completed(t, complete) \in TagRegister
             /\ t = complete => completed(t, complete) = freed(tag_regs[t])
             /\ t # complete => completed(t, complete) = tag_regs[t]
  BY <1>1, <1>7 DEF completed
<1>10. ASSUME NEW w \in TagOpt, NEW wr \in BOOLEAN
      PROVE  /\ youngest(w, flush, complete, tag, wr) \in TagOpt
             /\ flush => youngest(w, flush, complete, tag, wr) = NoTag
             /\ ~flush /\ tag # NoTag /\ wr => youngest(w, flush, complete, tag, wr) = tag
             /\ ~flush /\ ~(tag # NoTag /\ wr) /\ w = complete
                  => youngest(w, flush, complete, tag, wr) = NoTag
             /\ ~flush /\ ~(tag # NoTag /\ wr) /\ w # complete
                  => youngest(w, flush, complete, tag, wr) = w
  BY DEF youngest
<1>11. ControlTypeOK'
  <2>1. tag_regs' \in [Tags -> TagRegister]
    <3>1. ASSUME NEW t \in Tags PROVE after(t) \in TagRegister
      <4>1. CASE ~flush /\ t = tag
        BY <1>5, <1>6, <4>1
      <4>2. CASE ~(~flush /\ t = tag)
        BY <1>5, <1>7, <1>8, <1>9, <4>2
      <4>3. QED
        BY <4>1, <4>2
    <3>2. QED
      BY <1>4, <3>1
  <2>2. lastw' \in [Regs -> TagOpt] /\ lastcr' \in TagOpt /\ lastov' \in TagOpt
    BY <1>1, <1>2, <1>10 DEF control0
  <2>3. curr_tag' \in Tags /\ curr_cr_tag' \in Tags /\ curr_ov_tag' \in Tags /\ prev_tag' \in Tags
    BY <1>1 DEF control0, next_tag, TagOpt
  <2>4. QED
    BY <2>1, <2>2, <2>3 DEF ControlTypeOK
<1>12. RecentIsYoungest'
  <2> SUFFICES ASSUME NEW r \in Regs, NEW t \in Tags
               PROVE  (after(t).valid /\ after(t).recent /\ after(t).reg = r) <=> lastw'[r] = t
    BY <1>3 DEF RecentIsYoungest
  <2>1. /\ flush => lastw'[r] = NoTag
        /\ ~flush /\ tag # NoTag /\ i.wr = r => lastw'[r] = tag
        /\ ~flush /\ ~(tag # NoTag /\ i.wr = r) /\ lastw[r] = complete => lastw'[r] = NoTag
        /\ ~flush /\ ~(tag # NoTag /\ i.wr = r) /\ lastw[r] # complete => lastw'[r] = lastw[r]
    BY DEF control0, youngest
  <2>2. (tag_regs[t].valid /\ tag_regs[t].recent /\ tag_regs[t].reg = r) <=> lastw[r] = t
    BY DEF ControlInv, RecentIsYoungest
  <2>3. lastw[r] \in TagOpt
    BY <1>1
  <2>4. r # NoReg
    BY NoRegAssumption
  <2>5. CASE flush
    BY <1>5, <1>7, <2>1, <2>3, <2>5
  <2>6. CASE ~flush /\ t = tag
    <3>1. /\ after(t).valid
          /\ after(t).reg = i.wr
          /\ after(t).recent <=> i.wr # NoReg
      BY <1>5, <1>6, <2>6
    <3>2. CASE i.wr = r
      BY <2>1, <2>3, <2>4, <2>6, <3>1, <3>2
    <3>3. CASE i.wr # r
      <4>1. lastw[r] = t => t = complete
        BY <2>2, <2>6
      <4>2. QED
        BY <2>1, <2>3, <2>6, <3>1, <3>3, <4>1
    <3>4. QED
      BY <3>2, <3>3
  <2>7. CASE ~flush /\ t # tag /\ tag = NoTag
    BY <1>5, <1>7, <1>9, <2>1, <2>2, <2>3, <2>7
  <2>8. CASE ~flush /\ t # tag /\ tag # NoTag
    <3>1. completed(t, complete) \in TagRegister /\ after(t) = superseded(completed(t, complete), i)
      BY <1>5, <1>9, <2>8
    <3>2. /\ after(t).valid = completed(t, complete).valid
          /\ after(t).reg = completed(t, complete).reg
          /\ after(t).recent <=> completed(t, complete).recent
                                 /\ ~(i.wr # NoReg /\ completed(t, complete).reg = i.wr)
      BY <1>8, <3>1
    <3>3. CASE t = complete
      <4>1. ~after(t).valid
        BY <1>7, <1>9, <3>2, <3>3
      <4>2. lastw'[r] # t
        BY <2>1, <2>8, <3>3
      <4>3. QED
        BY <4>1, <4>2
    <3>4. CASE t # complete
      <4>1. completed(t, complete) = tag_regs[t]
        BY <1>9, <3>4
      <4>2. lastw'[r] = t <=> lastw[r] = t /\ i.wr # r
        BY <2>1, <2>8, <3>4
      <4>3. QED
        BY <2>2, <2>4, <3>2, <4>1, <4>2
    <3>5. QED
      BY <3>3, <3>4
  <2>9. QED
    BY <2>5, <2>6, <2>7, <2>8
\* The flag bits of a tag after the edge.
<1>13. ASSUME NEW t \in Tags
       PROVE  /\ flush \/ (t # tag /\ t = complete)
                   => ~after(t).valid /\ ~after(t).wr_cr /\ ~after(t).wr_ov
              /\ ~flush /\ t = tag
                   => after(t).valid /\ after(t).wr_cr = cr_write(i) /\ after(t).wr_ov = ov_write(i)
              /\ ~flush /\ t # tag /\ t # complete
                   => /\ after(t).valid = tag_regs[t].valid
                      /\ after(t).wr_cr = tag_regs[t].wr_cr
                      /\ after(t).wr_ov = tag_regs[t].wr_ov
  BY <1>1, <1>5, <1>6, <1>7, <1>8, <1>9
<1>14. /\ \A t \in Tags : tag_regs[t].wr_cr \/ tag_regs[t].wr_ov => tag_regs[t].valid
       /\ lastcr = IF tag_regs[curr_cr_tag].wr_cr THEN curr_cr_tag ELSE NoTag
       /\ lastov = IF tag_regs[curr_ov_tag].wr_ov THEN curr_ov_tag ELSE NoTag
  BY DEF ControlInv, FlagsTracked
<1>15. FlagsTracked'
  <2>1. ASSUME NEW t \in Tags PROVE after(t).wr_cr \/ after(t).wr_ov => after(t).valid
    BY <1>13, <1>14
  <2>2. lastcr' = IF after(curr_cr_tag').wr_cr THEN curr_cr_tag' ELSE NoTag
    <3>1. /\ lastcr' = youngest(lastcr, flush, complete, tag, cr_write(i))
          /\ curr_cr_tag' = IF tag # NoTag /\ cr_write(i) THEN tag ELSE curr_cr_tag
      BY DEF control0
    <3>2. CASE flush
      BY <1>1, <1>2, <1>10, <1>13, <3>1, <3>2
    <3>3. CASE ~flush /\ tag # NoTag /\ cr_write(i)
      BY <1>1, <1>2, <1>10, <1>13, <3>1, <3>3 DEF TagOpt
    <3>4. CASE ~flush /\ ~(tag # NoTag /\ cr_write(i))
      <4>1. curr_cr_tag' = curr_cr_tag
        BY <3>1, <3>4
      <4>2. CASE curr_cr_tag = tag
        BY <1>1, <1>2, <1>10, <1>13, <1>14, <3>1, <3>4, <4>1, <4>2
      <4>3. CASE curr_cr_tag # tag
        BY <1>1, <1>2, <1>10, <1>13, <1>14, <3>1, <3>4, <4>1, <4>3
      <4>4. QED
        BY <4>2, <4>3
    <3>5. QED
      BY <3>2, <3>3, <3>4
  <2>3. lastov' = IF after(curr_ov_tag').wr_ov THEN curr_ov_tag' ELSE NoTag
    <3>1. /\ lastov' = youngest(lastov, flush, complete, tag, ov_write(i))
          /\ curr_ov_tag' = IF tag # NoTag /\ ov_write(i) THEN tag ELSE curr_ov_tag
      BY DEF control0
    <3>2. CASE flush
      BY <1>1, <1>2, <1>10, <1>13, <3>1, <3>2
    <3>3. CASE ~flush /\ tag # NoTag /\ ov_write(i)
      BY <1>1, <1>2, <1>10, <1>13, <3>1, <3>3 DEF TagOpt
    <3>4. CASE ~flush /\ ~(tag # NoTag /\ ov_write(i))
      <4>1. curr_ov_tag' = curr_ov_tag
        BY <3>1, <3>4
      <4>2. CASE curr_ov_tag = tag
        BY <1>1, <1>2, <1>10, <1>13, <1>14, <3>1, <3>4, <4>1, <4>2
      <4>3. CASE curr_ov_tag # tag
        BY <1>1, <1>2, <1>10, <1>13, <1>14, <3>1, <3>4, <4>1, <4>3
      <4>4. QED
        BY <4>2, <4>3
    <3>5. QED
      BY <3>2, <3>3, <3>4
  <2>4. curr_cr_tag' \in Tags /\ curr_ov_tag' \in Tags
    BY <1>11 DEF ControlTypeOK
  <2>5. QED
    BY <1>3, <2>1, <2>2, <2>3, <2>4 DEF FlagsTracked
<1>16. QED
  BY <1>11, <1>12, <1>15 DEF ControlInv

\* Every reachable state of the scoreboard satisfies the invariant.
THEOREM ControlInvariant == ControlSpec => []ControlInv
<1>1. ControlInv /\ [ControlNext]_control_vars => ControlInv'
  <2> SUFFICES ASSUME ControlInv, [ControlNext]_control_vars PROVE ControlInv'
    OBVIOUS
  <2>1. CASE ControlNext
    <3>1. PICK flush \in BOOLEAN, valid \in BOOLEAN, complete \in TagOpt, tag \in TagOpt,
               i \in Insn :
               /\ control0(flush, complete, valid, tag, i)
               /\ tag # NoTag => ~flush /\ tag = curr_tag /\ (tag_regs[tag].valid => tag = complete)
      BY <2>1, ControlStepFacts
    <3>2. QED
      BY <3>1, ControlStepInv
  <2>2. CASE UNCHANGED control_vars
    BY <2>2 DEF control_vars, scoreboard, history, ControlInv, ControlTypeOK,
                RecentIsYoungest, FlagsTracked
  <2>3. QED
    BY <2>1, <2>2
<1>2. QED
  BY ControlInitInv, <1>1, PTL DEF ControlSpec

\* The registers of control.vhdl keep their types.
THEOREM ControlTypeCorrect == ControlSpec => []ControlTypeOK
<1>1. ControlInv => ControlTypeOK
  BY DEF ControlInv
<1>2. QED
  BY ControlInvariant, <1>1, PTL

\* The "recent" bits always name the youngest outstanding writer of a register.
THEOREM ScoreboardCorrect == ControlSpec => []RecentIsYoungest
<1>1. ControlInv => RecentIsYoungest
  BY DEF ControlInv
<1>2. QED
  BY ControlInvariant, <1>1, PTL

\* With one recent writer at most, the loops of control_hazards stall a reader
\* exactly when that writer has nothing to offer.
LEMMA GprHazardFromInv == ControlInv => GprHazardExact
<1> SUFFICES ASSUME ControlInv, NEW r \in Regs, NEW av \in SUBSET Tags
             PROVE  gpr_hazard(r, av) <=> lastw[r] \notin av \cup {NoTag}
  BY DEF GprHazardExact
<1> DEFINE match == {t \in Tags : tag_regs[t].valid /\ tag_regs[t].recent
                                  /\ tag_regs[t].reg = r}
<1>1. \A t \in Tags : t \in match <=> lastw[r] = t
  BY DEF ControlInv, RecentIsYoungest
<1>2. match \subseteq Tags
  OBVIOUS
<1>3. lastw[r] \in Tags \cup {NoTag}
  BY DEF ControlInv, ControlTypeOK, TagOpt
<1>4. gpr_hazard(r, av) <=> \E t \in match : t \notin av /\ \A u \in match : u <= t
  BY DEF gpr_hazard
<1> HIDE DEF match
<1>5. CASE lastw[r] = NoTag
  BY <1>1, <1>2, <1>4, <1>5, TagFacts
<1>6. CASE lastw[r] \in Tags
  <2>1. match = {lastw[r]}
    BY <1>1, <1>2, <1>6
  <2>2. lastw[r] <= lastw[r] /\ lastw[r] # NoTag
    <3>1. \A n \in Nat : n <= n
      OBVIOUS
    <3>2. lastw[r] \in Nat /\ lastw[r] # NoTag
      BY <1>6, TagFacts
    <3>3. QED
      BY <3>1, <3>2
  <2>3. QED
    BY <1>4, <2>1, <2>2
<1>7. QED
  BY <1>3, <1>5, <1>6

\* The same for CR and XER[OV], from the tracking of curr_cr_tag and curr_ov_tag.
LEMMA FlagHazardFromInv == ControlInv => FlagHazardExact
<1> SUFFICES ASSUME ControlInv PROVE FlagHazardExact
  OBVIOUS
<1>1. /\ lastcr = IF tag_regs[curr_cr_tag].wr_cr THEN curr_cr_tag ELSE NoTag
      /\ lastov = IF tag_regs[curr_ov_tag].wr_ov THEN curr_ov_tag ELSE NoTag
      /\ curr_cr_tag \in Tags /\ curr_ov_tag \in Tags
  BY DEF ControlInv, FlagsTracked, ControlTypeOK
<1>2. ASSUME NEW crav \in SUBSET Tags
      PROVE  cr_hazard(crav) <=> lastcr \notin crav \cup {NoTag}
  BY <1>1, TagFacts DEF cr_hazard
<1>3. ASSUME NEW complete \in TagOpt
      PROVE  ov_hazard(complete) <=> lastov \notin {complete, NoTag}
  BY <1>1, TagFacts DEF ov_hazard, tag_match
<1>4. QED
  BY <1>2, <1>3 DEF FlagHazardExact

\* An instruction that control lets issue never reads a register too early, and
\* is never held back by a writer that is gone.
THEOREM GprHazardCorrect == ControlSpec => []GprHazardExact
BY ControlInvariant, GprHazardFromInv, PTL

\* The same for the condition register and the overflow bits.
THEOREM FlagHazardCorrect == ControlSpec => []FlagHazardExact
BY ControlInvariant, FlagHazardFromInv, PTL
=============================================================================
