-------------------------------- MODULE Tiling --------------------------------
(***************************************************************************)
(* The tiles one burst is phase-linked in (dolphin-workflows tiling.rs), and  *)
(* which of a tile's products are those of a whole-burst run.  Rows and        *)
(* columns are tiled and windowed independently, so one axis is modelled: an   *)
(* axis is [len, stride, half, block], with len native pixels, looks of stride, *)
(* windows of 2 half + 1, and tiles of block output cells.                   *)
(***************************************************************************)
EXTENDS Integers, Sequences, FiniteSets, FiniteSetsExt

Lesser(a, b) == IF a < b THEN a ELSE b
Greater(a, b) == IF a < b THEN b ELSE a
Monus(a, b) == Greater(a - b, 0)
CeilDiv(a, b) == (a + b - 1) \div b

(* Strides::out_shape: a trailing partial cell is dropped.                  *)
OutLen(axis, len) == len \div axis.stride
Cells(axis, len) == 0 .. OutLen(axis, len) - 1
Interval(start, stop) == [start |-> start, stop |-> stop]
-------------------------------------------------------------------------------
(* The kernels, on a grid of len native pixels                             *)

(* window_origin_row and _col: the window of an output cell, clamped inward.  *)
Origin(axis, len, g) ==
  Lesser(Monus(axis.stride \div 2 + g * axis.stride, axis.half), len - (2 * axis.half + 1))

Window(axis, len, g) == Origin(axis, len, g) .. Origin(axis, len, g) + 2 * axis.half

(* upsample_nearest: the cell whose phase a native pixel is compressed with;  *)
(* the repeat is inferred from the two lengths.                             *)
CellOf(axis, len, p) ==
  LET out == OutLen(axis, len)
  IN  IF out = len THEN p ELSE Lesser(p \div Greater(len \div out, 1), out - 1)

-------------------------------------------------------------------------------
(* plan_tiles                                                              *)

(* axis_window: the native pixels to read for the cells from og0 up to og1,    *)
(* behind depth ministacks.                                                *)
Halo_OneWindow(axis, depth) == 0  \* mutant: the windows of carried blocks are not counted
Halo(axis, depth) == Monus(depth, 1) * (axis.half + axis.stride)

(* At the far edge a tile starts early enough to infer the burst's repeat.    *)
RepeatAgrees(axis, start) ==
  LET len == axis.len - start
  IN  OutLen(axis, len) > 0
      /\ len \div OutLen(axis, len) = axis.len \div OutLen(axis, axis.len)

AxisWindow(axis, depth, og0, og1) ==
  LET s == axis.stride
      lo == Monus(Origin(axis, axis.len, og0), Halo(axis, depth))
      hi == Greater(Origin(axis, axis.len, og1 - 1) + 2 * axis.half + 1 + Halo(axis, depth), s * og1)
      snapped == (lo \div s) * s
      stop == Lesser(CeilDiv(hi, s) * s, axis.len)
      edge == {0} \cup {c * s : c \in {d \in 0 .. lo \div s : RepeatAgrees(axis, d * s)}}
  IN  Interval(IF stop = axis.len THEN Max(edge) ELSE snapped, stop)

TileStarts(axis) == [t \in 1 .. CeilDiv(OutLen(axis, axis.len), axis.block) |-> (t - 1) * axis.block]

Tiles(axis, depth) ==
  [t \in DOMAIN TileStarts(axis) |->
     LET og0 == TileStarts(axis)[t]
         og1 == Lesser(og0 + axis.block, OutLen(axis, axis.len))
         read == AxisWindow(axis, depth, og0, og1)
     IN  [read |-> read, out |-> Interval(og0, og1), local |-> og0 - read.start \div axis.stride]]

(* TiledOutput::place refuses a tile whose kernel output does not hold it.    *)
TileFits(axis, tile) ==
  /\ tile.read.stop - tile.read.start > 2 * axis.half
  /\ tile.local >= 0
  /\ tile.local + tile.out.stop - tile.out.start <= OutLen(axis, tile.read.stop - tile.read.start)
===============================================================================
