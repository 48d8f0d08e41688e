-------------------------- MODULE MCFramePublication --------------------------
(* Instances of FramePublication: a square frame of four pixels, published whole, *)
(* and a strip of two rows published as its middle four pixels.                *)
EXTENDS FramePublication, TLC

Kind(valid, dates, quality, up, keep, labels) ==
  [valid |-> valid, dates |-> dates, quality |-> quality, up |-> up, keep |-> keep,
   labels |-> labels]

(* Pixels: coherent in either of two components, merely fair, incoherent,        *)
(* unlabelled in a band, masked by the mask file, outside the STATIC granule,    *)
(* without one date, invalid.                                                *)
Best == Kind(TRUE, 1 .. 3, Good, TRUE, TRUE, << 1, 1 >>)
Other == [Best EXCEPT !.labels = << 1, 2 >>]
Middling == [Best EXCEPT !.quality = Fair]
Poor == [Other EXCEPT !.quality = Low]
Unlabelled == [Best EXCEPT !.labels = << 0, 2 >>]
FileMasked == [Best EXCEPT !.keep = FALSE]
Outside == [Best EXCEPT !.up = FALSE]
DateMissing == [Best EXCEPT !.dates = 1 .. 2]
Invalid == [Best EXCEPT !.valid = FALSE]

Kinds == {Best, Other, Middling, Poor, Unlabelled, FileMasked, Outside, DateMissing}

Whole(rows, cols, dates, pixel) ==
  [rows |-> rows, cols |-> cols, dates |-> dates, target |-> NoTarget, pixel |-> pixel]

Square == Grid(2, 2)
Squares == {Whole(2, 2, 3, pixel) : pixel \in [Square -> Kinds]}

(* Two acquisitions leave one date after the gauge.                            *)
TwoAcquisitions ==
  Whole(2, 2, 1, [p \in Square |-> [Best EXCEPT !.dates = {1}]])

Middle == [start |-> << 0, 1 >>, rows |-> 2, cols |-> 2]

(* A strip around the target, of one kind.                                    *)
Strips ==
  {[rows |-> 2, cols |-> 4, dates |-> 3, target |-> Middle,
    pixel |-> [p \in Grid(2, 4) |-> IF p[2] \in {1, 2} THEN inner[Minus(p, << 0, 1 >>)] ELSE outer]] :
     inner \in [Square -> Kinds \ {Outside, DateMissing}], outer \in {Best, Invalid}}

Some(configured, coherent, uncertainty, covariance, minimum, halo) ==
  [configured |-> configured, coherent |-> coherent, uncertainty |-> uncertainty,
   covariance |-> covariance, minimum |-> minimum, halo |-> halo]

Legacy == Some(NoPoint, FALSE, TRUE, FALSE, << 0, 1 >>, << 0, 0 >>)
Coherent == Some(NoPoint, TRUE, FALSE, TRUE, << 1, 2 >>, << 0, 0 >>)
Haloed == Some(NoPoint, TRUE, FALSE, FALSE, << 1, 2 >>, << 0, 1 >>)
Configured == Some(<< 0, 0 >>, TRUE, TRUE, FALSE, << 0, 1 >>, << 0, 0 >>)

AllFrames == Squares \cup Strips \cup {TwoAcquisitions}
AllSettings == {Legacy, Coherent, Haloed, Configured}

(* Where code and comment disagree: a stack of two acquisitions.                *)
TwoDates == {TwoAcquisitions}
Plainly == {Legacy}
===============================================================================
