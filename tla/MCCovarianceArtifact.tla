------------------------- MODULE MCCovarianceArtifact -------------------------
(* Runs are interchangeable: nothing but their identity tells them apart.    *)
EXTENDS CovarianceArtifact, TLC

Interchangeable == Permutations(Runs)
===============================================================================
