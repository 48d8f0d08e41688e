-------------------------- MODULE MCTemporalProduct --------------------------
(* Two layers stand for the fourteen; transactions are interchangeable.       *)
EXTENDS TemporalProduct, TLC

TwoLayers == << "velocity", "sigma" >>
Interchangeable == Permutations(Transactions)
===============================================================================
