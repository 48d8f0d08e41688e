--------------------------- MODULE MCFactorArtifact ---------------------------
(* Runs are interchangeable. *)
EXTENDS FactorArtifact, TLC

Interchangeable == Permutations(Runs)
===============================================================================
