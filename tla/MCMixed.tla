------------------------------- MODULE MCMixed -------------------------------
(* One run for three kinds of program: integer and FP instructions in the   *)
(* execute stages, FP with loads and stores, or hash instructions.  Which   *)
(* of them it is is settled at the start.                                   *)
EXTENDS MCPipeline

VARIABLE program

Programs == {ExecuteInsns, FloatMemoryInsns, HashInsns}

MixedInsns == UNION Programs

MixedInit == PipelineInit /\ program \in Programs

MixedNext == din' \in program \cup {NoInsn} /\ Clock /\ UNCHANGED program

MixedSpec == MixedInit /\ [][MixedNext]_<<vars, program>>

MixedView == <<View, program = HashInsns, program = ExecuteInsns>>
=============================================================================
