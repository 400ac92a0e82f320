----------------------------- MODULE MCWorkload -----------------------------
(* A small instance of Workload for TLC. *)
EXTENDS Workload, TLC

Symmetry == Permutations(Procs)
=============================================================================
