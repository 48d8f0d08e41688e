----------------------------- MODULE Displacement -----------------------------
(***************************************************************************)
(* The displacement workflow (dolphin-workflows displacement.rs) up to the    *)
(* stitched frame: a batch run, which links each burst tile by tile; a         *)
(* resumable run, which links whole bursts and keeps their state; and an       *)
(* update, which folds new acquisitions into that state.  The layover/shadow   *)
(* masks are files another process may replace at any time.                *)
(*                                                                         *)
(* A linked phase is abstracted to what it was computed from: the samples its  *)
(* window saw, and the compressed samples it was carried, each with the phase  *)
(* it was compressed with.  Two phases are equal when those are.            *)
(***************************************************************************)
EXTENDS Tiling, MiniStackPlanner, SequencesExt

CONSTANTS
  Layouts,           \* [axis, offsets, gap, bounded]: surveys to run
  MaskContents,      \* sets of pixels a mask may mask out
  MinSeamSupport,    \* MIN_SEAM_SUPPORT
  MaxAcquisitions,   \* bound on the dates of a burst
  MaxReplacements    \* bound on mask replacements

VARIABLES
  layout,     \* the survey
  arrived,    \* the acquisitions of each burst on disk
  disk,       \* the content of each burst's mask file
  replaced,   \* counts mask replacements
  series,     \* DisplacementState
  published,  \* what the call that just returned published
  mode, stage, burst, \* the call in progress, and where it is
  files,      \* the acquisitions its configuration lists, per burst
  captured,   \* input_groups, as captured by the call
  prepared,   \* the content each mask was preflighted with
  identity,   \* BurstMaskState: that content, and the file's at link time
  seen,       \* the content each of a burst's tiles was read under
  linked      \* SequentialState of each burst linked

external == << layout, arrived, disk, replaced >>
inflight == << mode, stage, burst, files, captured, prepared, identity, seen, linked >>
vars == << external, series, published, inflight >>

NoOutput == [mode |-> "none", displacements |-> << >>]

(* The caller takes an output before anything else happens.                 *)
Taken == published' = NoOutput /\ UNCHANGED series

axis == layout.axis
Bursts == 1 .. Len(layout.offsets)
Pixels == 0 .. axis.len - 1
Whole == Interval(0, axis.len)
Among(read) == read.start .. read.stop - 1
-------------------------------------------------------------------------------
(* Linking one stack of samples                                            *)

NoPhase == [reals |-> << >>, carried |-> << >>]

(* The finite samples of each date of a burst: all but the layout's gap.     *)
Finite(b, n) ==
  [t \in 1 .. n |->
     Pixels \ (IF layout.gap.burst = b /\ layout.gap.date = t THEN layout.gap.pixels ELSE {})]

(* mask_stack *)
Masked(samples, mask) == [t \in DOMAIN samples |-> samples[t] \ mask]

Plans(n) == PlanWithOffset(n, 0)
Dates(plan) == plan.real_start + 1 .. plan.real_start + plan.num_real

(* link_and_compress over a ministack: the phase of each cell, NaN if some     *)
(* date or carried compressed SLC has no power in its window                *)
(* (has_complete_power).  A compressed sample is NaN where a date or the      *)
(* phase it is projected on is (compression_state).                        *)
LinkMinistack(read, samples, plan, before) ==
  LET len == read.stop - read.start
      window == [g \in Cells(axis, len) |-> {read.start + p : p \in Window(axis, len, g)}]
      phase(c, p) == before[c][CellOf(axis, len, p - read.start)]
      compressed ==
        [c \in {id + 1 : id \in CarriedParentIds(plan)} |->
           {p \in Among(read) : /\ phase(c, p) # NoPhase
                                /\ \A t \in Dates(Plans(Len(samples))[c]) : p \in samples[t]}]
      reals(g) == [t \in Dates(plan) |-> window[g] \cap samples[t]]
      carried(g) ==
        [c \in DOMAIN compressed |-> {<< p, phase(c, p) >> : p \in window[g] \cap compressed[c]}]
      power(seq) == \A i \in DOMAIN seq : seq[i] # {}
  IN  [g \in Cells(axis, len) |->
         IF power(reals(g)) /\ power(carried(g))
         THEN [reals |-> reals(g), carried |-> carried(g)]
         ELSE NoPhase]

(* drive: one ministack after another, behind the sealed ones kept.          *)
Link(read, samples, kept) ==
  LET plans == Plans(Len(samples))
      upTo[k \in 0 .. Cardinality(DOMAIN plans)] ==
        IF k <= Len(kept) THEN SubSeq(kept, 1, k)
        ELSE LET before == upTo[k - 1]
             IN  Append(before, LinkMinistack(read, samples, plans[k], before))
  IN  upTo[Cardinality(DOMAIN plans)]

(* looked_validity and apply_output_validity: a cell is valid if one of its   *)
(* own pixels is, and an invalid cell has no phase.                         *)
LookedValid(read, mask) ==
  {g \in Cells(axis, read.stop - read.start) :
     \E p \in 0 .. axis.stride - 1 : read.start + g * axis.stride + p \notin mask}

ApplyValidity(levels, valid) ==
  [phases |-> [k \in DOMAIN levels |->
                 [g \in DOMAIN levels[k] |-> IF g \in valid THEN levels[k][g] ELSE NoPhase]],
   valid |-> valid]

(* A burst linked whole, as resumable runs do.                              *)
WholeBurst(state) == ApplyValidity(state.levels, LookedValid(Whole, state.mask))
-------------------------------------------------------------------------------
(* phase_link_tiled_impl                                                    *)

TilePlans(n) == Tiles(axis, CeilDiv(n, Greater(MinistackSize, 1)))

(* A tile is skipped where some date has no finite sample (before the mask is  *)
(* applied), or the mask leaves none valid.                                *)
Supported(read, samples, mask) ==
  /\ \A t \in DOMAIN samples : samples[t] \cap Among(read) # {}
  /\ ~ Among(read) \subseteq mask

LinkTile(tile, samples, mask) ==
  ApplyValidity(Link(tile.read, [t \in DOMAIN samples |->
                                   Masked(samples, mask)[t] \cap Among(tile.read)], << >>),
                LookedValid(tile.read, mask))

(* TiledOutput::place and place_nodata                                      *)
TiledBurst(b, n, masks) ==
  LET tiles == TilePlans(n)
      samples == Finite(b, n)
      placed == {i \in DOMAIN tiles : Supported(tiles[i].read, samples, masks[i])}
      link == [i \in placed |-> LinkTile(tiles[i], samples, masks[i])]
      owner(g) == {i \in placed : g \in Among(tiles[i].out)}
      local(i, g) == g - tiles[i].out.start + tiles[i].local
  IN  [phases |-> [k \in DOMAIN Plans(n) |->
                     [g \in Cells(axis, axis.len) |->
                        IF owner(g) = {} THEN NoPhase
                        ELSE LET i == CHOOSE i \in owner(g) : TRUE
                             IN  link[i].phases[k][local(i, g)]]],
       valid |-> {g \in Cells(axis, axis.len) :
                    \E i \in owner(g) : local(i, g) \in link[i].valid}]

(* TiledPhaseLinkStats::finish, and the size check of place.                *)
TilesAccepted(b, n, masks) ==
  /\ \A i \in DOMAIN TilePlans(n) : TileFits(axis, TilePlans(n)[i])
  /\ \A t \in 1 .. n : Finite(b, n)[t] # {}
  /\ \E i \in DOMAIN TilePlans(n) : Supported(TilePlans(n)[i].read, Finite(b, n), masks[i])
-------------------------------------------------------------------------------
(* stitch_bursts                                                            *)

FrameCells == 0 .. Max({layout.offsets[b] : b \in Bursts}) + OutLen(axis, axis.len) - 1

(* The samples a burst's dates are levelled by: both finite, in a covered      *)
(* cell whose coherence is.                                                *)
SeamSupport(frame, link, offset, k) ==
  {<< frame.phases[k][offset + g], link.phases[k][g] >> :
     g \in {g \in DOMAIN link.phases[k] :
              /\ offset + g \in frame.covered
              /\ frame.phases[k][offset + g] # NoPhase
              /\ link.phases[k][g] # NoPhase}}

(* paste3_finite_complex: a finite phase overwrites, a NaN does not.          *)
Paste(frame, link, b) ==
  LET offset == layout.offsets[b]
      over(k, f) == f - offset \in DOMAIN link.phases[k] /\ link.phases[k][f - offset] # NoPhase
  IN  [phases |-> [k \in DOMAIN link.phases |->
                     LET seam == IF b = 1 THEN {} ELSE SeamSupport(frame, link, offset, k)
                     IN  [f \in FrameCells |->
                            IF over(k, f)
                            THEN [owner |-> b, phase |-> link.phases[k][f - offset], seam |-> seam]
                            ELSE frame.phases[k][f]]],
       covered |-> frame.covered \cup {offset + g : g \in link.valid},
       levelled |-> /\ frame.levelled
                    /\ b > 1 => \A k \in DOMAIN link.phases :
                         Cardinality(SeamSupport(frame, link, offset, k)) >= MinSeamSupport]

Stitch(links) ==
  LET upTo[b \in 0 .. Len(links)] ==
        IF b = 0
        THEN [phases |-> [k \in DOMAIN links[1].phases |-> [f \in FrameCells |-> NoPhase]],
              covered |-> {}, levelled |-> TRUE]
        ELSE LET before == upTo[b - 1] IN Paste(before, links[b], b)
  IN  upTo[Len(links)]

(* finish_displacement keeps the covered cells finite at every date.         *)
Displacements(frame) ==
  [f \in {f \in frame.covered : \A k \in DOMAIN frame.phases : frame.phases[k][f] # NoPhase} |->
     [k \in DOMAIN frame.phases |-> frame.phases[k][f]]]
-------------------------------------------------------------------------------
NoSeries == [inputs |-> << >>, bursts |-> << >>]
Nothing == << >>

Goto(s, b) == stage' = s /\ burst' = b

(* The workflow takes the bursts in order, step by step.                    *)
EachThen(s, next) == IF burst < Len(layout.offsets) THEN Goto(s, burst + 1) ELSE Goto(next, 1)

Idle == /\ Goto("idle", 1)
        /\ mode' = "none" /\ files' = Nothing /\ captured' = Nothing /\ prepared' = Nothing
        /\ identity' = Nothing /\ seen' = Nothing /\ linked' = Nothing

Init ==
  /\ layout \in Layouts
  /\ arrived = [b \in Bursts |-> 1]
  /\ disk \in [Bursts -> MaskContents]
  /\ replaced = 0
  /\ series = NoSeries /\ published = NoOutput
  /\ mode = "none" /\ stage = "idle" /\ burst = 1
  /\ files = Nothing /\ captured = Nothing /\ prepared = Nothing
  /\ identity = Nothing /\ seen = Nothing /\ linked = Nothing

(* The world outside: a pass brings one acquisition per burst, not all at once; *)
(* a mask file is replaced.                                                *)
Arrive(b) ==
  /\ stage = "idle"
  /\ arrived[b] < MaxAcquisitions
  /\ arrived' = [arrived EXCEPT ![b] = @ + 1]
  /\ Taken /\ UNCHANGED << layout, disk, replaced, inflight >>

Replace(b, content) ==
  /\ replaced < MaxReplacements
  /\ content # disk[b]
  /\ disk' = [disk EXCEPT ![b] = content]
  /\ replaced' = replaced + 1
  /\ Taken /\ UNCHANGED << layout, arrived, inflight >>

(* validate_common_burst_dates *)
CommonDates == \A b \in Bursts : arrived[b] = arrived[1]

(* The prefix and length checks of validate_updated_input_groups.            *)
Extends == \A b \in Bursts : arrived[b] > series.bursts[b].dates

Enter(m) ==
  /\ stage = "idle"
  /\ CommonDates
  /\ PlanAccepted(arrived[1], 0)
  /\ mode' = m
  /\ files' = arrived
  /\ Taken /\ UNCHANGED << captured, prepared, identity, seen, linked, external >>

(* run_displacement *)
RunBatch == Enter("batch") /\ Goto("preflight", 1)

(* run_displacement_resumable *)
RunResumable == Enter("resumable") /\ Goto("capture", 1)

(* update_displacement *)
Update == series # NoSeries /\ Extends /\ Enter("update") /\ Goto("capture", 1)

(* Any read or kernel may fail, and then the caller keeps what it had.       *)
Fail == stage # "idle" /\ Idle /\ Taken /\ UNCHANGED external

(* capture_input_groups, and the comparison validate_updated_input_groups    *)
(* makes with the captured state.  A bounded update is a run over.          *)
Capture ==
  /\ stage = "capture"
  /\ mode = "update" => disk[burst] = series.inputs[burst]
  /\ captured' = Append(captured, disk[burst])
  /\ EachThen("capture", IF mode = "update" /\ layout.bounded THEN "recapture" ELSE "preflight")
  /\ Taken /\ UNCHANGED << mode, files, prepared, identity, seen, linked, external >>

Rerun ==
  /\ stage = "recapture"
  /\ mode' = "resumable"
  /\ captured' = Nothing
  /\ Goto("capture", 1)
  /\ Taken /\ UNCHANGED << files, prepared, identity, seen, linked, external >>

(* preflight_mask_semantics *)
Preflight ==
  /\ stage = "preflight"
  /\ LookedValid(Whole, disk[burst]) # {}
  /\ prepared' = Append(prepared, disk[burst])
  /\ CASE mode = "batch" -> EachThen("preflight", "tile")
       [] mode = "resumable" -> EachThen("preflight", "identify")
       [] mode = "update" -> Goto("identify", burst)
  /\ Taken /\ UNCHANGED << mode, files, captured, identity, seen, linked, external >>

(* PreparedBurstMask::resumable_state, and the comparison                   *)
(* preflight_update_masks makes with the burst's.                          *)
Identify ==
  LET current == [semantic |-> prepared[burst], file |-> disk[burst]]
  IN  /\ stage = "identify"
      /\ mode = "update" => current = series.bursts[burst].mask
      /\ identity' = Append(identity, current)
      /\ IF mode = "update" THEN EachThen("preflight", "link") ELSE Goto("link", burst)
      /\ Taken /\ UNCHANGED << mode, files, captured, prepared, seen, linked, external >>

(* One tile of link_one_burst: the mask is read for each of them.            *)
ReadTile ==
  LET tiles == Len(TilePlans(files[burst]))
      masks == IF Len(seen) < burst THEN << disk[burst] >> ELSE Append(seen[burst], disk[burst])
  IN  /\ stage = "tile"
      /\ seen' = SubSeq(seen, 1, burst - 1) \o << masks >>
      /\ IF Len(masks) < tiles THEN Goto("tile", burst)
         ELSE /\ TilesAccepted(burst, files[burst], masks)
              /\ EachThen("tile", "finish")
      /\ Taken /\ UNCHANGED << mode, files, captured, prepared, identity, linked, external >>

LinkBurst(mask, kept) ==
  [mask |-> mask,
   dates |-> files[burst],
   levels |-> Link(Whole, Masked(Finite(burst, files[burst]), mask), kept)]

(* link_one_burst_resumable *)
LinkWhole ==
  /\ stage = "link" /\ mode = "resumable"
  /\ linked' = Append(linked, LinkBurst(disk[burst], << >>))
  /\ EachThen("identify", "finish")
  /\ Taken /\ UNCHANGED << mode, files, captured, prepared, identity, seen, external >>

(* seal_state: the full ministacks of a burst.                              *)
Sealed(state) == SubSeq(state.levels, 1, state.dates \div MinistackSize)

(* The check of update_sequential_impl.                                     *)
SameValidity_Unchecked(state, mask) == TRUE  \* mutant: the preflight is trusted
SameValidity(state, mask) == mask = state.mask

(* update_one_burst *)
Fold ==
  LET state == series.bursts[burst].state
  IN  /\ stage = "link" /\ mode = "update"
      /\ SameValidity(state, disk[burst])
      /\ linked' = Append(linked, LinkBurst(disk[burst], Sealed(state)))
      /\ EachThen("link", "finish")
      /\ Taken /\ UNCHANGED << mode, files, captured, prepared, identity, seen, external >>

Links ==
  [b \in Bursts |-> IF mode = "batch" THEN TiledBurst(b, files[b], seen[b]) ELSE WholeBurst(linked[b])]

(* finish_displacement, and what the call returns.                          *)
Finish ==
  LET frame == Stitch(Links)
  IN  /\ stage = "finish"
      /\ frame.levelled
      /\ published' = [mode |-> mode, displacements |-> Displacements(frame),
                       dates |-> files[1],
                       masks |-> IF mode = "batch" THEN [b \in Bursts |-> ToSet(seen[b])]
                                 ELSE [b \in Bursts |-> {linked[b].mask}]]
      /\ series' = IF mode = "batch" THEN series
                   ELSE [inputs |-> captured,
                         bursts |-> [b \in Bursts |-> [dates |-> files[b], mask |-> identity[b],
                                                       state |-> linked[b]]]]
      /\ Idle
      /\ UNCHANGED external

Environment == \E b \in Bursts : Arrive(b) \/ \E content \in MaskContents : Replace(b, content)
Call == RunBatch \/ RunResumable \/ Update
Step == Capture \/ Rerun \/ Preflight \/ Identify \/ ReadTile \/ LinkWhole \/ Fold \/ Finish \/ Fail
Next == Environment \/ Call \/ Step

Spec == Init /\ [][Next]_vars
-------------------------------------------------------------------------------
(* Properties                                                              *)

TypeOK ==
  /\ layout \in Layouts
  /\ arrived \in [Bursts -> 1 .. MaxAcquisitions]
  /\ disk \in [Bursts -> MaskContents]
  /\ replaced \in 0 .. MaxReplacements
  /\ mode \in {"none", "batch", "resumable", "update"}
  /\ stage \in {"idle", "capture", "recapture", "preflight", "identify", "tile", "link", "finish"}
  /\ burst \in Bursts
  /\ \A b \in DOMAIN linked : Len(linked[b].levels) = Cardinality(DOMAIN Plans(files[b]))
  /\ series # NoSeries =>
       \A b \in Bursts :
         /\ series.bursts[b].dates = series.bursts[1].dates
         /\ Len(series.bursts[b].state.levels)
              = Cardinality(DOMAIN Plans(series.bursts[b].dates))

(* The masks a call that returned read, if it read only one content of each.   *)
OneContent == \A b \in Bursts : Cardinality(published.masks[b]) = 1
TheMask(b) == CHOOSE m \in published.masks[b] : TRUE

WholeFrame ==
  Stitch([b \in Bursts |->
            WholeBurst([mask |-> TheMask(b), dates |-> published.dates,
                        levels |-> Link(Whole, Masked(Finite(b, published.dates), TheMask(b)), << >>)])])

BatchFrame ==
  Stitch([b \in Bursts |->
            TiledBurst(b, published.dates, [i \in DOMAIN TilePlans(published.dates) |-> TheMask(b)])])

(* phase_link_tiled_impl: a batch run whose mask files were left alone         *)
(* publishes the displacements of bursts linked whole: no window, carried       *)
(* compressed SLC, stride cell or seam is cut by a tile's edge.               *)
TilesAreSeamless ==
  (published.mode = "batch" /\ OneContent)
    => published.displacements = Displacements(WholeFrame)

(* update_displacement and run_displacement_resumable: however the mask files   *)
(* were replaced under the calls that built a series, what the last one         *)
(* published is what a batch run publishes under one content of each mask.     *)
ModesAgree ==
  published.mode \in {"resumable", "update"}
    => /\ BatchFrame.levelled
       /\ \A b \in Bursts :
            TilesAccepted(b, published.dates, [i \in DOMAIN TilePlans(published.dates) |-> TheMask(b)])
       /\ published.displacements = Displacements(BatchFrame)
===============================================================================
