---------------------------- MODULE MCSequential ------------------------------
(* Bounds and kernel terms for checking Sequential.  A kernel result is the  *)
(* term of its input, so two products are equal only if their inputs are.    *)
EXTENDS Sequential

PhaseTerm(input, j) == << "phase", j, input.output_ref, input.real,
                          input.carried, input.mask >>
CompressTerm(input) == << "compressed", input.output_ref, input.compressed_ref,
                          input.real, input.carried, input.mask >>
QualityTerm(input) == << input.real, Len(input.carried), input.mask >>

Interchangeable == Permutations(Slcs)
===============================================================================
