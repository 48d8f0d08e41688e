---------------------------- MODULE MCDisplacement ----------------------------
(* Instances of Displacement: two overlapping bursts on a short axis.         *)
EXTENDS Displacement

NoGap == [burst |-> 1, date |-> 1, pixels |-> {}]

Axis(len, stride, half, block) ==
  [len |-> len, stride |-> stride, half |-> half, block |-> block]

Plain == [axis |-> Axis(12, 2, 1, 2), offsets |-> << 0, 3 >>, gap |-> NoGap, bounded |-> FALSE]

(* One date is missing from all a tile reads: away from the seam, and on it.    *)
GapAway == [Plain EXCEPT !.gap = [burst |-> 1, date |-> 2, pixels |-> 0 .. 6]]
GapOnSeam == [Plain EXCEPT !.offsets = << 0, 2 >>, !.gap = [burst |-> 2, date |-> 3, pixels |-> 0 .. 7]]
Bounded == [Plain EXCEPT !.bounded = TRUE]

(* A burst whose last cell is partial enough for the compressed SLC to be        *)
(* projected with a longer repeat than the stride.                          *)
Stretched == [Plain EXCEPT !.axis = Axis(15, 4, 1, 1), !.offsets = << 0 >>]

SeamlessLayouts == {GapAway, Bounded}
SeamLayouts == {GapOnSeam}
StretchedLayouts == {Stretched}

Contents == {{}, {2, 3}}
NoContents == {{}}
===============================================================================
