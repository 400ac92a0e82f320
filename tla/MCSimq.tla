------------------------------- MODULE MCSimq -------------------------------
(* Small instances of Simq for TLC. *)
EXTENDS Simq, TLC

\* Processes are interchangeable; the safety runs use it, the liveness runs do not.
Symmetry == Permutations(Pids) \cup Permutations(Clients)
=============================================================================
