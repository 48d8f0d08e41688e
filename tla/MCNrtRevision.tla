----------------------------- MODULE MCNrtRevision -----------------------------
(* Kernel results as the terms of their inputs.                             *)
EXTENDS NrtRevision

Interchangeable == Permutations(Slcs)

PhaseTerm(input, j) == << "phase", j, input.real, input.carried, input.mask >>
CompressTerm(input) == << "compressed", input.real, input.carried, input.mask >>
QualityTerm(input) == << Len(input.real), input.mask >>
===============================================================================
