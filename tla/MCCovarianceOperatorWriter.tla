---------------------- MODULE MCCovarianceOperatorWriter ----------------------
(* Instances of CovarianceOperatorWriter for TLC.                          *)
EXTENDS CovarianceOperatorWriter, TLC

CONSTANTS A, B

Grid(top, left, bottom, right) ==
  [top |-> top, left |-> left, bottom |-> bottom, right |-> right]

(* Three tiles of A.  The third meets the first in one native row only, by    *)
(* when the second has been written between them.                            *)
BatchTiles ==
  A :> << [native |-> Grid(0, 0, 3, 3), owned |-> Grid(0, 0, 2, 2)],
          [native |-> Grid(0, 1, 3, 4), owned |-> Grid(0, 2, 2, 4)],
          [native |-> Grid(2, 0, 4, 4), owned |-> Grid(2, 0, 4, 4)] >> @@
  B :> << [native |-> Grid(0, 0, 1, 2), owned |-> Grid(0, 0, 1, 2)],
          [native |-> Grid(1, 0, 2, 2), owned |-> Grid(1, 0, 2, 2)] >>

UpdateTiles ==
  A :> << [native |-> Grid(0, 0, 1, 2), owned |-> Grid(0, 0, 1, 2)] >>

Corner == { << 2, 0 >> }
Origin == { << 0, 0 >> }
=============================================================================
