-------------------------- MODULE MCSimqElaborate --------------------------
(* Small instances of SimqElaborate for TLC. *)
EXTENDS SimqElaborate, TLC

\* Processes and configurations are interchangeable (the liveness run does not use it).
Symmetry == Permutations(Procs) \cup Permutations(Configs)
=============================================================================
