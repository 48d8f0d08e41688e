--------------------------- MODULE FramePublication ---------------------------
(***************************************************************************)
(* The end of a displacement run (dolphin-workflows displacement.rs): the      *)
(* corrected series is referenced to a pixel, a bounded run is trimmed to its  *)
(* target, the publication masks and the component membership are applied, the *)
(* reference is chosen again when they took it away, and the frame is          *)
(* published.  All of it is one call; what is hard is that each step reads      *)
(* layers that an earlier one has masked, trimmed or referenced.              *)
(*                                                                         *)
(* A pixel is << row, column >>, from << 0, 0 >>.                               *)
(***************************************************************************)
EXTENDS Integers, Sequences, FiniteSetsExt, Functions

CONSTANTS
  Frames,    \* [rows, cols, dates, target, pixel]: stitched, unwrapped, inverted
  Settings,  \* [configured, coherent, uncertainty, covariance, minimum, halo]
  NoPoint,   \* no pixel
  NoTarget   \* an unbounded run has no target

(* How coherent a pixel is: NaN, up to the correlation threshold, above it, and  *)
(* above the reference coherence floor too.                                  *)
NaN == 0
Low == 1
Fair == 2
Good == 3

VARIABLES
  frame, setting, \* what the run is given
  stage,     \* how far it has come
  reason,    \* the check that failed, if one did
  spatial,   \* SpatialProducts: rows, cols, validity mask and layers
  origin,    \* the frame's pixel at << 0, 0 >> (geotransform)
  reference, \* reference_point
  selection, \* reference_selection: whether it fell back, and the stage it was made at
  datum,     \* the frame's pixel the series is relative to
  fitted,    \* and the one it was relative to when velocity was fitted
  eligible,  \* the pixels counted in eligible_before_components
  rejected,  \* component_rejected_per_band
  census,    \* unwrap_component
  status     \* SpatialReferenceStatus

given == << frame, setting >>
report == << eligible, rejected, census, status >>
place == << spatial, origin, reference, selection, datum, fitted >>
vars == << given, stage, reason, place, report >>

Grid(rows, cols) == (0 .. rows - 1) \X (0 .. cols - 1)
Local == Grid(spatial.rows, spatial.cols)
Plus(p, q) == << p[1] + q[1], p[2] + q[2] >>
Minus(p, q) == << p[1] - q[1], p[2] - q[2] >>
Source(p) == frame.pixel[Plus(origin, p)]
Bands == DOMAIN frame.pixel[<< 0, 0 >>].labels
Dates == 1 .. frame.dates

(* Layers of one grid, with as many bands for every pixel; the target lies inside.   *)
ASSUME FramesAssumption ==
  \A f \in Frames :
    /\ f.rows \in Nat \ {0} /\ f.cols \in Nat \ {0} /\ f.dates \in Nat
    /\ DOMAIN f.pixel = Grid(f.rows, f.cols)
    /\ NoPoint \notin DOMAIN f.pixel
    /\ \A p \in DOMAIN f.pixel :
         LET pixel == f.pixel[p]
         IN  /\ pixel.valid \in BOOLEAN /\ pixel.keep \in BOOLEAN /\ pixel.up \in BOOLEAN
             /\ pixel.dates \subseteq 1 .. f.dates
             /\ pixel.quality \in NaN .. Good
             /\ pixel.labels \in Seq(Nat)
             /\ Len(pixel.labels) = Len(f.pixel[<< 0, 0 >>].labels)
    /\ f.target # NoTarget =>
         /\ f.target.start \in Nat \X Nat
         /\ f.target.rows \in Nat \ {0} /\ f.target.cols \in Nat \ {0}
         /\ f.target.start[1] + f.target.rows <= f.rows
         /\ f.target.start[2] + f.target.cols <= f.cols

ASSUME SettingsAssumption == \A s \in Settings : s.minimum \in Nat \X Nat
-------------------------------------------------------------------------------
(* Regions of pixels                                                        *)

Gap(a, b) == IF a > b THEN a - b ELSE b - a
Touching(pool) ==
  {e \in pool \X pool : Gap(e[1][1], e[2][1]) <= 1 /\ Gap(e[1][2], e[2][2]) <= 1}
Adjacent(pool) ==
  {e \in pool \X pool : Gap(e[1][1], e[2][1]) + Gap(e[1][2], e[2][2]) <= 1}

RowMajor(p, q) == p[1] < q[1] \/ (p[1] = q[1] /\ p[2] < q[2])
FirstOf(region) == CHOOSE p \in region : \A q \in region : ~RowMajor(q, p)

(* Bigger first; of two as big, the one reached first.                        *)
Precedes(one, other) ==
  \/ Cardinality(one) > Cardinality(other)
  \/ Cardinality(one) = Cardinality(other) /\ RowMajor(FirstOf(one), FirstOf(other))

(* The regions of a pool: the parts that no edge leaves and that have no smaller    *)
(* such part.                                                               *)
Regions(pool, edges) ==
  LET apart == {s \in SUBSET pool : s # {} /\ \A e \in edges : (e[1] \in s) = (e[2] \in s)}
  IN  {r \in apart : \A s \in apart : s \subseteq r => s = r}

LargestComponent(pool, edges) ==
  LET regions == Regions(pool, edges)
  IN  IF pool = {} THEN {}
      ELSE CHOOSE r \in regions : \A s \in regions \ {r} : Precedes(r, s)

(* label_unwrap_components: valid pixels with one nonzero label vector share a    *)
(* component; components are numbered by size.                               *)
UnwrapComponents(s) ==
  LET labelled == {p \in s.valid : 0 \notin Range(s.layers[p].labels)}
      like(p) == {q \in labelled : s.layers[q].labels = s.layers[p].labels}
      groups == {like(p) : p \in labelled}
  IN  [p \in Grid(s.rows, s.cols) |->
         IF p \in labelled
         THEN 1 + Cardinality({g \in groups : Precedes(g, like(p))})
         ELSE 0]
-------------------------------------------------------------------------------
(* Choosing the reference                                                   *)

(* reference_pixel_is_valid *)
Referenceable(s, p) == p \in s.valid /\ s.layers[p].dates = Dates

(* EdgeHalo::excludes: at is the searched grid's place in a grid of that shape. *)
InHalo(p, at, rows, cols) ==
  LET q == Plus(at, p)
  IN  \/ q[1] < setting.halo[1] \/ q[1] + setting.halo[1] >= rows
      \/ q[2] < setting.halo[2] \/ q[2] + setting.halo[2] >= cols

(* What coherent_support chooses from: the largest unwrap component, if any     *)
(* pixel is labelled, above the floor and off the edge.                       *)
SupportPool(s, at, rows, cols) ==
  LET components == UnwrapComponents(s)
      labelled == {p \in Grid(s.rows, s.cols) : components[p] # 0}
  IN  {p \in Grid(s.rows, s.cols) :
         /\ Referenceable(s, p)
         /\ s.layers[p].quality = Good
         /\ labelled # {} => components[p] = 1
         /\ ~InHalo(p, at, rows, cols)}

(* A bug: no fallback when no pixel has coherent support.                      *)
Candidates_NoFallback(s, at, rows, cols) ==
  LET support == SupportPool(s, at, rows, cols)
      legacy == {p \in Grid(s.rows, s.cols) : Referenceable(s, p) /\ s.layers[p].quality >= Fair}
      choose(region, fellBack) == {[point |-> p, fellBack |-> fellBack] : p \in region}
  IN  IF setting.coherent
      THEN choose(LargestComponent(support, Touching(support)), FALSE)
      ELSE choose(LargestComponent(legacy, Adjacent(legacy)), FALSE)

(* select_valid_reference_point.  Which pixel of the largest region ranks best   *)
(* is left open.                                                            *)
Candidates(s, at, rows, cols) ==
  LET support == SupportPool(s, at, rows, cols)
      legacy == {p \in Grid(s.rows, s.cols) : Referenceable(s, p) /\ s.layers[p].quality >= Fair}
      choose(region, fellBack) == {[point |-> p, fellBack |-> fellBack] : p \in region}
  IN  IF setting.coherent /\ support # {}
      THEN choose(LargestComponent(support, Touching(support)), FALSE)
      ELSE choose(LargestComponent(legacy, Adjacent(legacy)), setting.coherent)

(* velocity_pixel_uncertainty_fit: a rate needs two finite dates.               *)
Fitted(s) ==
  LET rated(layer) == [layer EXCEPT !.velocity = Cardinality(layer.dates) >= 2]
  IN  [s EXCEPT !.layers = [p \in DOMAIN @ |-> rated(@[p])]]
-------------------------------------------------------------------------------
(* A run                                                                    *)

AsUnwrapped ==
  [rows |-> frame.rows, cols |-> frame.cols,
   valid |-> {p \in DOMAIN frame.pixel : frame.pixel[p].valid},
   layers |-> [p \in DOMAIN frame.pixel |->
                 [dates |-> frame.pixel[p].dates, velocity |-> FALSE,
                  quality |-> frame.pixel[p].quality, up |-> frame.pixel[p].up,
                  labels |-> frame.pixel[p].labels]]]

(* checked_configured_analysis_reference let the run come this far.            *)
Init ==
  /\ frame \in Frames
  /\ setting \in Settings
  /\ setting.configured # NoPoint =>
       /\ setting.configured \in DOMAIN frame.pixel
       /\ frame.pixel[setting.configured].valid
       /\ frame.pixel[setting.configured].quality # NaN
  /\ stage = "corrected"
  /\ reason = "none"
  /\ spatial = AsUnwrapped
  /\ origin = << 0, 0 >>
  /\ reference = NoPoint
  /\ selection = [fellBack |-> FALSE, at |-> "corrected"]
  /\ datum = NoPoint
  /\ fitted = NoPoint
  /\ eligible = {}
  /\ rejected = [b \in Bands |-> 0]
  /\ census = << >>
  /\ status = "undecided"

Fail(check) ==
  /\ stage' = "failed"
  /\ reason' = check
  /\ UNCHANGED << given, place, report >>

(* A bug: velocity left as fitted to the old datum.                           *)
RereferenceTo_Unfitted(s, point, fellBack) ==
  /\ spatial' = s
  /\ reference' = point
  /\ selection' = [fellBack |-> fellBack, at |-> stage]
  /\ datum' = Plus(origin, point)
  /\ fitted' = fitted

(* rereference_to; correct_then_reference with frame_velocity.                *)
RereferenceTo(s, point, fellBack) ==
  /\ spatial' = Fitted(s)
  /\ reference' = point
  /\ selection' = [fellBack |-> fellBack, at |-> stage]
  /\ datum' = Plus(origin, point)
  /\ fitted' = datum'

(* final_spatial_reference, correct_then_reference and frame_velocity.  Velocity   *)
(* uncertainty needs a datum, unless no pixel could be one.                    *)
FinalSpatialReference ==
  LET chosen == IF setting.configured = NoPoint
                THEN Candidates(spatial, << 0, 0 >>, frame.rows, frame.cols)
                ELSE {c \in {[point |-> setting.configured, fellBack |-> FALSE]} :
                        Referenceable(spatial, c.point)}
  IN  /\ stage = "corrected"
      /\ \/ \E c \in chosen :
              /\ RereferenceTo(spatial, c.point, c.fellBack)
              /\ stage' = "referenced"
              /\ UNCHANGED << given, reason, origin, report >>
         \/ /\ chosen = {}
            /\ setting.configured = NoPoint
            /\ setting.uncertainty => \A p \in Local : ~Referenceable(spatial, p)
            /\ spatial' = Fitted(spatial)
            /\ stage' = "referenced"
            /\ UNCHANGED << given, reason, origin, reference, selection, datum, fitted, report >>
         \/ /\ chosen = {}
            /\ setting.configured # NoPoint
            /\ Fail("configured")
         \/ /\ chosen = {}
            /\ setting.configured = NoPoint
            /\ setting.uncertainty /\ \E p \in Local : Referenceable(spatial, p)
            /\ Fail("uncertainty")

InTarget(p) == Minus(p, frame.target.start) \in Grid(frame.target.rows, frame.target.cols)

Cut(s) ==
  LET start == frame.target.start
      grid == Grid(frame.target.rows, frame.target.cols)
  IN  [rows |-> frame.target.rows, cols |-> frame.target.cols,
       valid |-> {p \in grid : Plus(start, p) \in s.valid},
       layers |-> [p \in grid |-> s.layers[Plus(start, p)]]]

(* trim: a reference in the halo cannot be given in the target's coordinates, so   *)
(* one is chosen in the target before the layers are cut to it.               *)
Trim ==
  LET chosen == Candidates(Cut(spatial), frame.target.start, spatial.rows, spatial.cols)
      global(c) == Plus(frame.target.start, c.point)
      inside == reference # NoPoint /\ InTarget(reference)
  IN  /\ stage = "referenced"
      /\ frame.target # NoTarget
      /\ \/ /\ inside
            /\ spatial' = Cut(spatial)
            /\ reference' = Minus(reference, frame.target.start)
            /\ origin' = frame.target.start
            /\ stage' = "trimmed"
            /\ UNCHANGED << given, reason, selection, datum, fitted, report >>
         \/ /\ ~inside
            /\ \E c \in chosen :
                 /\ spatial' = Cut(Fitted(spatial))
                 /\ reference' = Minus(global(c), frame.target.start)
                 /\ selection' = [fellBack |-> c.fellBack, at |-> stage]
                 /\ datum' = global(c)
                 /\ fitted' = datum'
            /\ origin' = frame.target.start
            /\ stage' = "trimmed"
            /\ UNCHANGED << given, reason, report >>
         \/ /\ ~inside
            /\ chosen = {}
            /\ Fail("target")

KeepWhole ==
  /\ stage = "referenced"
  /\ frame.target = NoTarget
  /\ stage' = "trimmed"
  /\ UNCHANGED << given, reason, place, report >>

Blank == [dates |-> {}, velocity |-> FALSE, quality |-> NaN, up |-> FALSE,
          labels |-> [b \in Bands |-> 0]]

(* apply_validity_mask: a pixel stays valid while its velocity, every date and its *)
(* geometry are finite; every layer is blanked off the mask.                  *)
ApplyValidityMask(s) ==
  LET kept == {p \in s.valid : /\ s.layers[p].velocity
                               /\ s.layers[p].dates = Dates
                               /\ s.layers[p].up}
  IN  [s EXCEPT !.valid = kept,
                !.layers = [p \in DOMAIN @ |-> IF p \in kept THEN @[p] ELSE Blank]]

(* restrict_component_mask: each band judges the pixels eligible on entry.       *)
Keeps(s, b, p, point) ==
  /\ s.layers[p].labels[b] # 0
  /\ point # NoPoint => s.layers[p].labels[b] = s.layers[point].labels[b]

RejectedBy(s, b, point) == {p \in s.valid : ~Keeps(s, b, p, point)}

Restricted(s, point) == [s EXCEPT !.valid = @ \ UNION {RejectedBy(s, b, point) : b \in Bands}]

(* A bug: the mask file read where the untrimmed grid lay.                     *)
WithinPublicationMask_Untrimmed(s) == [s EXCEPT !.valid = {p \in @ : frame.pixel[p].keep}]

(* restrict_publication_mask, read where the trimmed grid lies.               *)
WithinPublicationMask(s) == [s EXCEPT !.valid = {p \in @ : Source(p).keep}]

ApplyMasks ==
  LET masked == WithinPublicationMask(ApplyValidityMask(spatial))
      restricted == Restricted(masked, NoPoint)
  IN  /\ stage = "trimmed"
      /\ eligible' = masked.valid
      /\ rejected' = [b \in Bands |-> Cardinality(RejectedBy(masked, b, NoPoint))]
      /\ spatial' = restricted
      /\ census' = UnwrapComponents(restricted)
      /\ stage' = "masked"
      /\ UNCHANGED << given, reason, origin, reference, selection, datum, fitted, status >>

(* The datum must survive the masks; when it did not it is chosen again among     *)
(* the pixels that did, and when nothing did the product is unavailable.        *)
SelectSurvivingReference ==
  LET chosen == Candidates(spatial, << 0, 0 >>, spatial.rows, spatial.cols)
      survives == reference # NoPoint /\ reference \in spatial.valid
  IN  /\ stage = "masked"
      /\ \/ /\ survives
            /\ status' = "selected"
            /\ UNCHANGED << reason, place >>
         \/ /\ ~survives
            /\ \E c \in chosen : RereferenceTo(spatial, c.point, c.fellBack)
            /\ status' = "selected"
            /\ UNCHANGED << reason, origin >>
         \/ /\ ~survives /\ chosen = {} /\ spatial.valid = {}
            /\ status' = "unavailable"
            /\ UNCHANGED << reason, place >>
         \/ /\ ~survives /\ chosen = {} /\ spatial.valid # {}
            /\ reason' = "threshold"
            /\ UNCHANGED << place, status >>
      /\ stage' = IF reason' = "none" THEN "settled" ELSE "failed"
      /\ UNCHANGED << given, eligible, rejected, census >>

(* With a reference the mask keeps its component only; the reference must have a   *)
(* label in every band.                                                     *)
RestrictToReference ==
  /\ stage = "settled"
  /\ \/ /\ reference # NoPoint => 0 \notin Range(spatial.layers[reference].labels)
        /\ spatial' = Restricted(spatial, reference)
        /\ rejected' = [b \in Bands |->
                          rejected[b] + Cardinality(RejectedBy(spatial, b, reference))]
        /\ stage' = "restricted"
        /\ UNCHANGED << given, reason, origin, reference, selection, datum, fitted,
                        eligible, census, status >>
     \/ /\ reference # NoPoint /\ 0 \in Range(spatial.layers[reference].labels)
        /\ Fail("component")

(* unwrap_component_provenance *)
ReferenceComponent ==
  IF reference = NoPoint \/ census[reference] = 0 THEN {}
  ELSE {p \in Local : census[p] = census[reference]}

(* The target must be connected to the reference well enough.                  *)
Connected ==
  \/ frame.target = NoTarget
  \/ ReferenceComponent = {}
  \/ Cardinality(ReferenceComponent) * setting.minimum[2]
       >= setting.minimum[1] * Cardinality(Local)

(* emit_displacement, from the census to the product.                         *)
Publish ==
  /\ stage = "restricted"
  /\ \/ /\ Connected
        /\ setting.covariance => reference # NoPoint
        /\ spatial' = ApplyValidityMask(spatial)
        /\ stage' = "published"
        /\ UNCHANGED << given, reason, origin, reference, selection, datum, fitted, report >>
     \/ /\ ~Connected
        /\ Fail("disconnected")
     \/ /\ Connected
        /\ setting.covariance /\ reference = NoPoint
        /\ Fail("covariance")

Next ==
  \/ FinalSpatialReference \/ Trim \/ KeepWhole \/ ApplyMasks
  \/ SelectSurvivingReference \/ RestrictToReference \/ Publish

Spec == Init /\ [][Next]_vars
-------------------------------------------------------------------------------
(* Properties                                                               *)

Layers ==
  [dates : SUBSET Dates, velocity : BOOLEAN, quality : NaN .. Good, up : BOOLEAN,
   labels : [Bands -> Nat]]

(* Every layer covers the grid in use, and the reference is a pixel of it.       *)
TypeOK ==
  /\ stage \in {"corrected", "referenced", "trimmed", "masked", "settled", "restricted",
                "published", "failed"}
  /\ (stage = "failed") = (reason # "none")
  /\ spatial.valid \subseteq Local
  /\ spatial.layers \in [Local -> Layers]
  /\ reference \in Local \cup {NoPoint}
  /\ \A p \in Local : Plus(origin, p) \in DOMAIN frame.pixel
  /\ rejected \in [Bands -> Nat]
  /\ census = << >> \/ census \in [Local -> 0 .. Cardinality(Local)]
  /\ status \in {"undecided", "selected", "unavailable"}

(* Series, velocity and the reference that is reported agree at every stage on     *)
(* one pixel of the frame, whatever re-referencing and trimming came between.   *)
OneDatum ==
  stage # "corrected" =>
    /\ reference # NoPoint => datum = Plus(origin, reference)
    /\ reference = NoPoint => datum = NoPoint
    /\ fitted = datum

(* What a pixel of the frame needs of itself to be published.                  *)
Qualifies(q) ==
  LET pixel == frame.pixel[q]
  IN  /\ pixel.valid /\ pixel.keep /\ pixel.up
      /\ pixel.dates = Dates /\ frame.dates >= 2

(* All of the qualifying pixels of the reference's unwrap component, and nothing    *)
(* else: one two-pi ambiguity per interferogram.  Off the mask every layer is     *)
(* blank.                                                                   *)
MaskIsOneComponent ==
  /\ status = "selected" =>
       /\ reference \in spatial.valid
       /\ 0 \notin Range(Source(reference).labels)
       /\ spatial.valid = {p \in Local : /\ Qualifies(Plus(origin, p))
                                         /\ Source(p).labels = Source(reference).labels}
  /\ status = "unavailable" => spatial.valid = {}
  /\ \A p \in Local \ spatial.valid : spatial.layers[p] = Blank
  /\ \A p \in spatial.valid : spatial.layers[p].quality = Source(p).quality

(* The census counts for the reference's component what is published, and for a     *)
(* bounded product that is enough of the target.                              *)
CensusIsOfTheMask ==
  status = "selected" =>
    /\ ReferenceComponent = spatial.valid
    /\ frame.target # NoTarget =>
         Cardinality(spatial.valid) * setting.minimum[2]
           >= setting.minimum[1] * frame.target.rows * frame.target.cols

(* The pixels lost to component membership are accounted for: no band rejects      *)
(* more than were lost, and together they reject all that were.                *)
RejectionsExplained ==
  LET lost == Cardinality(eligible) - Cardinality(spatial.valid)
  IN  /\ \A b \in Bands : rejected[b] <= lost
      /\ lost <= MapThenSumSet(LAMBDA b : rejected[b], Bands)

(* A product with a reference publishes the reference's unwrap component, and its  *)
(* census and its counts are of what it publishes, though they were taken between *)
(* masks, before and after the reference was settled (emit_displacement).        *)
PublishedIsOneComponent ==
  stage = "published" => MaskIsOneComponent /\ CensusIsOfTheMask /\ RejectionsExplained

(* A run is refused for want of a reference only when no pixel it could publish     *)
(* is coherent enough to be one.                                             *)
Published == IF frame.target = NoTarget THEN DOMAIN frame.pixel
             ELSE {Plus(p, frame.target.start) : p \in Grid(frame.target.rows, frame.target.cols)}

RefusedHasNoReference ==
  reason \in {"uncertainty", "target", "threshold", "component"} =>
    \A q \in Published :
      ~(Qualifies(q) /\ 0 \notin Range(frame.pixel[q].labels) /\ frame.pixel[q].quality >= Fair)

(* "No displacement-valid pixel survived the publication masks, so nothing could  *)
(* serve as the datum: the product is published entirely as nodata, with the     *)
(* reason, rather than failing the run" (SpatialReferenceStatus).              *)
NothingLeftIsPublished ==
  (stage = "failed" /\ ~setting.covariance) => reason # "component"

===============================================================================
