---------------------------- MODULE MCSpikeBuild ----------------------------
(* A small instance of SpikeBuild for TLC.  wide and narrow need builds of their own, with
   literals of their own; broad is wide under another label, so the two share a directory;
   lut differs from the baseline in fields spike never reads. *)
EXTENDS SpikeBuild, TLC

CONSTANTS baseline, wide, broad, narrow, lut

MCRecipes == {baseline, wide, broad, narrow, lut}
MCBuildId == [r \in MCRecipes |-> CASE r = baseline         -> "0"
                                    [] r \in {wide, broad}  -> "1"
                                    [] r = narrow           -> "2"
                                    [] r = lut              -> "3"]
MCPatch   == [r \in MCRecipes |-> CASE r \in {baseline, lut} -> "as shipped"
                                    [] r \in {wide, broad}   -> "wider"
                                    [] r = narrow            -> "narrower"]

\* wide and broad are the same to everyone but their callers.
Symmetry == Permutations(Procs) \cup Permutations({wide, broad})
=============================================================================
