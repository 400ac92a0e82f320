------------------------------- MODULE MCGrade -------------------------------
(* A small instance of Grade for TLC: the shipped library serves base; wide_acc has the
   same mesh with other accumulators, and a library of its own; the user's has another mesh.
   The per-stage lowering makes two ELFs, the fused one and npu.compile make one. *)
EXTENDS Grade, TLC

MCDim  == [r \in {"base", "wide_acc"} |-> 16]
MCDirs == [l \in {"deploy", "fused", "per_stage"} |->
             CASE l = "deploy"    -> <<"deploy">>
               [] l = "fused"     -> <<"chain">>
               [] l = "per_stage" -> <<"stage0", "stage1">>]

Symmetry == Permutations(Procs)
=============================================================================
