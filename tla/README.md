# Verification of dolphinRust

TLA+ models of the stateful core of dolphinRust (src/crates), checked by TLC on
small instances and, where a theorem is stated, proved by TLAPS for every value
of the constants. dolphinRust turns a stack of radar acquisitions (SLCs) into a
displacement time series. Most of its lines are floating-point kernels, which
are out of reach here; the rest, which decides what is linked behind what, what
is kept between calls, what is on disk after a crash and what a reader may
trust, is discrete, stateful and hard to test, and is what these modules are
about.

## 1. Inventory of the system

| Part (src/crates/...) | State it keeps | Operations | Hard behaviour |
|---|---|---|---|
| dolphin-stack/src/lib.rs, ministack planner | none | plan_with_offset, references, carried_parent_ids | off-by-one at the short last block; plans of a tail against plans of the whole stack |
| dolphin-workflows/src/sequential.rs, sequential driver | SequentialState: sealed products and compressed SLCs, open raw SLCs, mask | run_sequential*, update_sequential*, drive, seal_state, with_sealed_prefix | any sequence of runs, updates and failures must give what one run gives |
| sequential.rs, NRT covariance revision | SequentialCovarianceState: sequential state, generation registry | run/update with a covariance operator | two states that must describe the same series; sealed blocks copied from the parent |
| dolphin-workflows/src/sequential_covariance.rs, influence replay | bounded working sets | planning, block construction, joint replay | memory caps, order of replay |
| dolphin-workflows/src/covariance_artifact.rs, artifact transaction | one directory: HDF5, manifest, two scratch names, lock | acquire, finalize, read, verify | crashes between renames, other processes, failed syncs |
| dolphin-io/src/covariance.rs, operator writer | open chain, overlap frontier, per-burst invariants, identity index, generation registry | create, write_block, copy_validated_sealed_block, seal_generation, finish, drop | lazily detected duplicates, blocks compared only with what is kept, counted disk |
| dolphin-workflows/src/spatial_reference_covariance_output.rs, production replay | provider under a shared lock | emit, open provider, replay | operator replaced between two tile groups |
| dolphin-workflows/src/spatial_covariance_artifact.rs, factor artifact | directory with HDF5, manifest and quarantine slots | acquire, finalize, recover, quarantine | a pair renamed one file at a time |
| dolphin-workflows/src/temporal_covariance_product.rs, temporal product | directory, stage directory, rollback journal, ownership markers | publish, rollback, recover, orphan cleanup | crash in publication, in rollback, in recovery |
| dolphin-workflows/src/displacement.rs, workflow | DisplacementState (a sequential state per burst), masks, output rasters | run_displacement, run_displacement_resumable, update_displacement, finish_displacement | several bursts updated together, masks composed in order |
| tiling.rs, dolphin-core/src/blocks.rs | none | plan_tiles, axis_window, iter_blocks | halo of a dependency cone, partial edges, strides |
| burst.rs, crop.rs, window_datum.rs | none | group_by_burst, frame_grid, stitching order, label_unwrap_components | nodata against later bursts |
| displacement.rs, publication of the frame | SpatialProducts: mask, layers, reference | final_spatial_reference, trim, apply_validity_mask, restrict_component_mask, emit_displacement | every step reads layers an earlier one masked, trimmed or referenced |
| unwrap_backend.rs, dolphin-unwrap | scratch directories, simplex tree, region labels | unwrap a network in parallel, tile seams, pivots | shared file names, ties, termination |
| dolphin-timeseries, network.rs, loop_closure.rs, loop_correction.rs | none | build_network, correct_loop_closure_errors, loop_closure_qc, mask_failed_loops | whole-cycle errors told from ties, medians over pixels being corrected, a loop that must end |
| dolphin-timeseries, the rest | none | cycle steps, inversion, covariance | numeric |
| dolphin-ingest/src/staging.rs | scratch directory | download_all | same file name from two URIs |
| dolphin-phaselink, -shp, -ps, -filtering, -corrections | none | kernels | numeric |
| readers and writers of dolphin-io, dolphin-cli, config, provenance | none | formats, parsing, receipts | pure I/O |

How they interact. The workflow groups the inputs by burst, plans tiles, and per
tile calls the sequential driver, which asks the planner for ministacks and the
engine for each link. A capturing run opens an artifact transaction, streams
each tile's blocks, one per ministack generation, into the operator writer,
which keeps an HDF5 scratch file, and finalizes: HDF5 first, manifest last.
A production run then reopens that operator, tile group by tile group, and
emits a factor artifact, from which the temporal product is made, reading it by
its path. A resumable workflow keeps per burst a sequential state and, beside it,
what the inputs and masks were. Results flow
through files in one work directory, shared with whatever other process was
given the same one; within a process the interaction is by calls.

What makes each part correct:

- planner and driver: a series is partitioned exactly; a resumed tail is numbered
  and referenced as the whole stack would be; what an update publishes is what a
  run over everything publishes; a failed call changes nothing;
- operator writer: a complete file is the plan, consistent where tiles overlap,
  with unique nodes; honest blocks are not refused; sealed generations stay;
- artifact: no crash, failure or other process leaves a marker beside bytes it
  does not name; a commit that was reported survives; a replay reads one operator,
  its own;
- factor artifact: a valid pair is never touched, an invalid one is moved aside whole,
  a product is made from one factor;
- temporal product: a bundle is whole or undone after any crash, recovery is itself
  restartable, and no other program's file is removed;
- covariance revision: state, registry and file describe one series, and a revision
  equals a capture of everything;
- workflow: tiles are seamless; batch runs, resumable runs and updates publish the
  same frame, or refuse;
- loop closure: a pixel is repaired only where one smallest repair exists, the repair
  of one pixel changes no verdict on another, and the solver ends;
- publication: what is published is one unwrap component, relative to one pixel of it,
  and the counts say what was lost.

## 2. Modules

| Module | What it is |
|---|---|
| MiniStackPlanner | planner arithmetic, as constant operators |
| Ministacks | what one ministack contributes (kernels uninterpreted), what a batch run is |
| PhaseSeries | abstract specification: published output = batch run of the whole series |
| Sequential | the resumable driver, one ministack per step; refines PhaseSeries |
| MCSequential | instances; kernel results as terms of their inputs |
| SequentialProofs | theorems about Sequential |
| DurableDirectory | a directory with updates that reach the disk late, in any order |
| CovarianceArtifact | capture, commit and replay by several processes over it |
| MCCovarianceArtifact, CovarianceArtifactProofs | instances, theorems |
| CovarianceOperatorWriter | the streaming writer of an operator |
| MCCovarianceOperatorWriter, CovarianceOperatorWriterProofs | instances, theorems |
| FactorArtifact, MCFactorArtifact, FactorArtifactProofs | the factor's transaction and its reader, over DurableDirectory; instances, theorems |
| Publication | abstract specification: at most one bundle, for good, Ok only to its publisher |
| TemporalProduct, MCTemporalProduct, TemporalProductProofs | the product's transaction; refines Publication; instances, theorems |
| NrtRevision, MCNrtRevision, NrtRevisionProofs | revisions of a covariance operator, over Ministacks; instances, theorems |
| Tiling | plan_tiles and the kernels' windows, as constant operators over one axis |
| Displacement, MCDisplacement | the workflow's three modes up to the stitched frame, over Tiling and the planner |
| FramePublication, MCFramePublication, FramePublicationProofs | the workflow's tail: reference, trim, masks, components, census; instances, theorems |
| InterferogramNetwork | the pairs of a network, its triangles and its fan, as constant operators |
| SmallestCorrection | abstract specification: per pixel the one smallest correction, or none |
| LoopClosure, MCLoopClosure, LoopClosureProofs | the correction and the gate over one frame; refines SmallestCorrection; instances, theorems |

An operator whose name has the form Name_Word is a mutant: a plausible bug in the
definition Name that follows it, and part of no specification.

### Sequential (sequential.rs, dolphin-stack/src/lib.rs)

history, validity, sealed and open are the caller's SequentialState with the
acquisitions it stands for; published and outcome what the last call returned;
the rest the call in progress. Run, RejectRun, Update and RejectUpdate are the
entries of run_sequential_resumable_impl and update_sequential_impl up to
drive, with their early errors; LinkNext is one turn of drive's loop; LinkFails an
error of the engine or of a block's references; Return is build_output, seal_state and
with_sealed_prefix; NothingToConcatenate is the error of an empty stack. Every
call changes the caller's state at its return only, as in the code, where the
new state is a returned value.

A kernel is a constant operator of its input (carried compressed SLCs, real
SLCs, the two references and the effective mask). That is what the driver relies
on, and it makes equality of products equality of everything that went in. TLC is
given injective terms. Pixels, sizes and the engine's backend are left out.

PhaseSeries says nothing of ministacks: a request names a whole series, and the
answer is a batch run of it. Sequential implements it with request read off the
call in progress and the other variables mapped to themselves.

### CovarianceArtifact (covariance_artifact.rs; CovarianceCaptureArtifact in displacement.rs; emit in spatial_reference_covariance_output.rs)

Each system call that touches the directory or the lock is a step. A directory
entry is the run whose bytes it holds, so a digest matches exactly when the
entry is the run; bytes may be dirty, synced or torn. DurableDirectory keeps
the set of directories a power loss could leave: each update may or may not have
reached each of them, until sync_directory collapses the set to the live one. A
rename is one update, which the file system's journal justifies. Locks are flock
locks: they go with the process. A run can fail at every step (Fail), which drops
its locks; a power loss ends every running run, keeps one of the images and may
tear bytes that were not synced. A later run starts from whatever is left. The
replay half verifies the live operator twice without a lock, and between these
opens a provider per tile group under the shared lock, reading from the path.

### CovarianceOperatorWriter (dolphin-io/src/covariance.rs)

at is the writer's place in the plan: the open chain, the active burst, the
overlap frontier, the chains the open one must agree with, and per burst its form
and the tiles counted. levels, used and cap are the identity index, a binary
counter of sorted runs; digest and sealed are the generation registry; file is the
HDF5 file. WriteBlock is the whole of write_block for a block all checks accept,
RefuseBlock any refusal or I/O error at any point of it, which poisons the writer
but may already have closed a chain and counted a tile; CopySealedBlock is
copy_validated_sealed_block; SealGeneration, Finish and Abandon (a refused finish,
or a drop) are the rest.

Abstractions: a block's stride, support, estimator and tolerance are one value, its
form; whether its dates and digests are those of the plan is one Boolean, ours; a
block's digest is the block. Source ids are derived from the source's content, so
two tiles that saw a native cell differently list different ids; node ids are
truncated digests, so two different blocks may share one (Clash). Disk is counted
in records, not bytes. Of a refused block only the effects on at are kept, because
a poisoned writer accepts nothing further.

### FactorArtifact (spatial_covariance_artifact.rs; emit; the reader in temporal_covariance_product.rs)

Directory, crashes and locks as in CovarianceArtifact. A factor is never replaced:
recover and finalize inspect the final pair, end if it is valid, move it to the first
free quarantine slot, manifest first, if it is invalid, and fail if it cannot be read.
The calibration evidence is one number that changes at any time (ChangeEvidence), and
a pair is valid only for the evidence it was sealed with; that makes a committed pair
invalid, and sends it to quarantine, without any crash. A consumer is one call of
write_temporal_covariance_products: it verifies the pair under the shared lock, drops
the lock, reads blocks by path any number of times, and revalidates.

### TemporalProduct (temporal_covariance_product.rs; promote_fixed_cube_receipt in fixed_cube.rs)

One action per change of the directory, and one per sync, of the call that holds the
lock: recovery, orphan cleanup, stage, journal, layers, promotion, provenance,
removal of the stage, rollback. run holds its locals; run.phase says which caller an
error returns to, which decides who rolls back, once or twice (Fail, Blocked). A file
is the transaction that wrote it, or Foreign. Names with a reserved prefix are one
slot: Owned with a valid marker, Bare in the windows between a name and its marker,
where a kill leaves a directory every later call refuses. Layers are never synced by
their writer, so a power loss may tear them (torn); verify_final_cogs does not see
that, installed_artifact_is_owned does. Two layers stand for the fourteen: the code
treats all of them by one loop, and two give a first and a last. The inference, the
working-set admission, and the checks of inputs and evidence are Fail.

hasty is a history variable: it turns true when recovery removes a journal, taking
the bundle for complete, while the bundle was not yet on disk. AllOrNothing is
stated up to that; section 6 says what may go wrong then.

### NrtRevision (sequential.rs, sequential_covariance.rs, registry and writer of covariance.rs)

revisions are what calls returned, with the file that was finished from each; any of
them may be continued, several times. writer is the destination the caller created,
from the plan of any revision; call the update in progress. An update names a state,
a parent file and a destination of its own choosing, and its request may differ from
the honest one in one way: mask, configuration, model, frame, tolerance, a member
digest, a missing receipt, the prior digest, a cap. A digest is what it digests; a
block carries its kernel product as in Ministacks. CopyNext, LinkNext and Return are
the copy loop, a turn of drive_with_covariance_capture, and the end with
seal_writer_generations. The writer is reduced to what an update meets of it;
CovarianceOperatorWriter has the rest.

### Tiling and Displacement (tiling.rs, displacement.rs, sequential.rs, kernels)

Rows and columns are tiled, windowed and strided independently, so one axis is
modelled. A phase is what it was computed from: per date the finite samples of its
window, per carried compressed SLC the samples with the phases they were projected
on. Two runs give equal pixels when they agree on that, which is what bit-identity
of the kernels comes to. A window without a finite sample at some date gives NaN
(has_complete_power), which spreads to compressed samples as compression_state says.

RunBatch, RunResumable and Update are the entries; Capture, Preflight, Identify,
ReadTile or LinkWhole or Fold, and Finish the steps at which the code reads a file or
keeps something. Mask files are read four times by an update, at different moments,
and Replace may strike between any two. Acquisitions arrive burst by burst. An update
with bounds is a run over (Rerun). The layout constant fixes the axis, the offsets
of the bursts on the frame, one gap (a date without finite samples in an interval)
and whether bounds are set.

Left out: what follows the frame (similarity, unwrapping, inversion, corrections,
rasters; FramePublication has the tail after them); the coherence threshold of the seam (all finite phases pass
it); the crop's margin (the window is the whole burst); absent masks.

### FramePublication (displacement.rs from the corrected series; reference.rs; crop.rs)

One run over one frame: final_spatial_reference, trim, the publication masks,
component membership, the reference chosen again, the census and the product, one
action per step whose error ends the run or whose result a later step reads. spatial
is SpatialProducts, its layers reduced to what the steps decide by: which dates are
finite, whether there is a rate, how coherent the pixel is (four classes), whether
its geometry is finite, and its unwrap label per interferogram. origin relates the
grid in use to the frame's. datum and fitted are history: the pixel series and
velocity are relative to. The order that the code gives pixels of one region, by
coherence and distance, is left open, so any pixel of the right region may be chosen.
Left out: the writing of rasters and receipts, and the statistics in them.

### InterferogramNetwork and LoopClosure (network.rs, loop_closure.rs, loop_correction.rs, apply_loop_closure_qc in displacement.rs)

One run over one frame, after unwrapping: MakeNetwork builds the pairs and refuses an
unsupported network; CorrectPixel decides one pixel, or starts the solver on it; Cancel
is one turn of the solver's loop, ReadPotentials its end; ApplyCorrections writes all
corrections at once, after the last is decided, as the code does; Gate is
loop_closure_qc with mask_failed_loops. Pixels are decided in parallel in the code
and in order here: each reads the stack and the roots as they were before, and
writes its own outcome. negative_cycle and shortest_distances are translated arc by
arc and pass by pass, as recursive functions, because which cycle is found depends on
the order; BoundsMeet is the comparison of the two distances at their end.

A member of Runs is what the stage is given. RunsAssumption says what the callers
guarantee: dates in order, modes of the shape of NetworkConfig with pairs (early,
later), a label and a phase for every pixel and pair, and no correction without the
gate (mask_unwrap_loop_errors).

Phases are in quarters of a cycle, the largest unit that tells the code's two
thresholds (a quarter, a half) from their neighbours; rounding is away from zero, as
in f64::round. costs and flow exist while a pixel is being solved. Left out: the
counts and layers of the report, and the shapes of the arrays.

SmallestCorrection says of a pixel which corrections close every loop, which are the
smallest, and that it gets that one if there is one only. It knows nothing of fans,
flows or potentials.

## 3. Runs

| Run | Question | Bounds, and why they are enough |
|---|---|---|
| sequential | any history of runs, updates, rejections and failures gives what one run gives, a tail plans exactly when the whole stack does, and every call comes back | ministacks of 2, carry cap 1, FirstPerMinistack, output reference 1, so that a short block may not resolve; 2 SLCs, 2 masks and none; series to 6 in calls of at most 2: three blocks, so the carry cap bites; calls that end full, short, and cross two blocks |
| artifact | crash safety, isolation, replay stability and progress together | 2 runs over 2 tile groups and two power losses: a run interrupted, one that recovers it or replays meanwhile, and a loss in the recovery |
| artifact_marker | a failed finalize leaves no new marker: violated (see 6) | 2 runs, no power loss |
| operator | a complete file is the plan; honest blocks are accepted; the index counts right | bursts of 3 and 2 tiles, 2 generations: 10 blocks, so the index has four levels; the third tile meets the first in one row, the edge of the frontier bound; caps that are and are not enough |
| operator_update | what the parent sealed stays | one tile, 3 generations, two of them carried, so a block may have one or two parents |
| factor | a factor's pair through crashes, quarantines and an unlocked reader | 3 runs: one publishes, one quarantines it when the evidence changed and publishes, a third finds either; 2 slots, 1 change, 1 power loss, 1 consumer |
| product | publication, rollback and recovery are all-or-nothing and implement Publication | 2 calls, 2 layers, 2 faults: a crash, and a crash in its recovery, or a foreign file at a layer |
| revision | a revision is a capture of the whole series | ministacks of 2, carry cap 2; series to 5 in up to 3 revisions of at most 3 acquisitions: an open generation filled, exceeded by two, or left open; the GPU threshold of 3 is above every ministack |
| displacement | tiles are seamless, and the three modes agree | 2 bursts of 12 pixels and 6 cells, overlapping by 3 cells, stride 2, windows of 3, three tiles of 2 cells, of which the outer two read a part of the burst only; ministacks of 2 and 3 dates: one carried compressed SLC; masks of two contents, replaced once; a gap away from the overlap |
| frame | what is published is one component relative to one pixel, with true counts | all frames of 2 by 2 pixels of eight kinds (all masks, two components, gaps, three coherences), and the middle of 2 by 4 under a target; four settings: both rules of choice, a halo, a configured pixel, required uncertainty or covariance |
| frame_empty | a frame of which nothing survives is published as nodata: violated (see 6) | two acquisitions, one setting |
| loops | the correction is the unique smallest one or none, corrects no verdict but its own, and ends | every misclosure of up to 2 cycles on four dates, bandwidth 2, and on five, bandwidth 2, of up to 1 on four, bandwidth 3, where loops share pairs and ties occur; frames of 3 pixels of 12 kinds (errors of one cycle, quarters on both sides of each threshold, missing, unlabelled, in another component), corrected or only gated; networks of every mixture of the four modes over 3 to 5 dates, one series with a gap; MinRootPixels 2 stands for 16, so that 3 pixels have roots, small triples and none; Reach 2 is enough, or SmallestCorrection would find other corrections than the solver, which has no such bound |

Properties, by the hazard they are aimed at:

- SealedBoundary: acquisitions lost or doubled where the sealed prefix meets the
  open block. CarryAligned: compressed SLCs taken from the wrong blocks. PlansAgree:
  a resumed tail accepted or refused differently. ImplementsSeries: the incremental
  result differs from the batch result. CallsReturn: a call that does not end.
- MarkerNamesItsBytes holds of every directory a power loss could leave, not of the
  live one only. CommitsSurvive: a commit undone by a failure or a power loss.
  ScratchIsPrivate: a capture refused because another changed its scratch.
  ReplayIsStable, FactorFromOwnOperator: a factor mixed from two operators.
- CompleteFileHoldsThePlan: refused blocks counted as written. SharedSourcesAgree:
  tiles never compared because the frontier forgot one. NodesUnique: duplicates
  missed by lazy merging. IndexListsTheFile: leaked or lost runs.
  HonestBlockAccepted: refusals of a correct capture. CarriedBlocksUnchanged,
  SealedForEver: revisions that disagree on what was sealed.
- PairNeverMixed and CommittedKept hold of every directory a power loss could leave;
  ValidPairIsImmutable: a valid pair moved by a run that could not read it;
  ProductOfOneFactor: a product of blocks of two factors.
- AllOrNothing, likewise of every directory: a bundle half there with no journal to
  undo it. ForeignKept: a rollback that trusts a name. OnlyUnownedCollides: a
  rollback blocked by what a crashed transaction installed itself. PublishesOnce:
  Ok for a bundle that a power loss or a later call can still undo.
- RevisionIsRecapture: an update mixing three revisions. RegistriesMeet: a call that
  did all its work and is refused at the end. ExtendsLikeACapture: a series that
  cannot be extended, or is extended where a capture would be refused.
- OneDatum: a layer left relative to an old reference. PublishedIsOneComponent: a
  pixel published that a mask took, or lost that none did, or counts and census of
  another mask than the published one. RefusedHasNoReference: a run refused that had
  a pixel to refer to.
- NeverGuesses: a correction that is not the smallest, or one of several.
  JudgedAsWithout: a pixel masked or kept because another was corrected.
  CancellingPays: a cycle that is none, or has no room, so that the solver never ends.
  FanNetworksAccepted: a network refused that the code says is supported.
- TilesAreSeamless: a halo short by one, a stride cell or a seam cut by a tile.
  ModesAgree: an update under masks that changed between, or within, calls.

TLC's symmetry is used on SLCs, runs and transactions, in runs that check safety
only: nothing in the modules tells the members of these sets apart. The runs of the
writer, of revisions, of the workflow, of a frame and of its loops allow deadlock,
because a run ends, or at the bounds no operation is left; CovarianceArtifact, FactorArtifact and TemporalProduct have an
explicit Finished step instead.

Fairness. CallsReturn assumes weak fairness of a turn of the drive loop and of its
return: the loop is sequential code in one thread, and a kernel that returns, with
a result or an error, is all that is assumed. RunsEnd assumes weak fairness of each
run's own next system call; nothing is assumed of failures, of power losses or of
one run on behalf of another. It holds because every lock is requested with LOCK_NB.

## 4. Proofs

TLAPS proves these for all values of the constants, from the assumptions named in
the modules that declare them: PlannerAssumption, MaskAssumption, BoundAssumption,
RevisionAssumption (sizes are naturals, no mask is told from the masks),
ArtifactAssumption, FactorAssumption, ProductAssumption, LayersAssumption (names and
markers differ, there is a layer, counts are naturals), PlanAssumption, GridAssumption,
CarriedAssumption, UnwrittenAssumption (a plan the code validates, and what a
revision carries), FramesAssumption, SettingsAssumption (a frame has pixels, each of
them has a kind), RunsAssumption and RootAssumption (section 2). TLC evaluates all of them on the instances. Each module has one
inductive invariant, and its properties are corollaries of it.

| Module | Inductive invariant | Properties proved |
|---|---|---|
| SequentialProofs | Inductive | TypeOK, SealedBoundary, CarryAligned, PlansAgree, ImplementsSeries |
| CovarianceArtifactProofs | CommitInductive, ReplayInductive | TypeOK, MarkerNamesItsBytes, CommitsSurvive, ScratchIsPrivate, ReplayIsStable, FactorFromOwnOperator |
| CovarianceOperatorWriterProofs | RegistryBound, WriterInvariant | CompleteFileHoldsThePlan, SharedSourcesAgree, NodesUnique, IndexListsTheFile, HonestBlockAccepted, CarriedBlocksUnchanged, SealedForEver |
| FactorArtifactProofs | FactorInvariant | TypeOK, PairNeverMixed, CommittedKept, ProductOfOneFactor, ValidPairIsImmutable |
| TemporalProductProofs | ProductInvariant | AllOrNothing, ForeignKept, OnlyUnownedCollides, PublishesOnce |
| NrtRevisionProofs | RevisionInvariant | RevisionIsRecapture, RegistriesMeet, ExtendsLikeACapture |
| FramePublicationProofs | FrameInvariant | OneDatum, PublishedIsOneComponent, RefusedHasNoReference |
| LoopClosureProofs | LoopInv | JudgedAsWithout, FanNetworksAccepted, CancellingPays, NeverGuesses |

SequentialProofs. The properties of Sequential are not inductive: that the state
after a return is right depends on what the call had linked. The invariant says
that the sealed products, and the products of a call so far with its seed, are the
blocks a batch run of the same series would have at those positions, and that a
call's tail is the end of that series. The key lemma (PlanShift) is arithmetic: a
tail cut at a multiple of the ministack size and planned from that offset has the
blocks of the whole stack's plan, shifted; PlansAgree follows from it and from the
boundary. A further one (AssembleSame) shows that the kernel's input is then the
same. BatchRunUnique shows that the abstract answer is determined.

CovarianceArtifactProofs. Marker, bytes and images are tied together per step of
the one run that holds the lock; CommitInductive has, for each such step, which
names it owns in every image and what is synced, and that with no holder a marker's
bytes are in place. ReplayInductive adds that while the live marker is a run's own,
all it has replayed is its own, and that a marker once replaced never becomes that
run's again, so the last check settles what was read before it. CommitsSurvive needs
in addition that a committed marker, as long as it stands, stands in every image.

CovarianceOperatorWriterProofs. RegistryBound: each written block is the one its
registered digest names, sealed generations have all digests, and those carried are
the parent's. WriterInvariant places everything the writer keeps in the plan: every
counted tile but the open one has all its generations in the file, and the open chain
is all that was written of its tile; the frontier holds every tile of the burst that
a later one can still meet, because one is dropped only when every tile left starts
below it; the overlaps include all earlier tiles that meet the open
one; the runs of the index hold each block of the file once, no two of a node in one
run, and the space counted is the sum of theirs, which is where sums
come in. HonestBlockAccepted follows under its own condition, a cap
of twice the records.

FactorArtifactProofs. As for the artifact, with one more place per quarantine slot: for
each step of the lock's holder, which pair is where, how far an image may lag behind
the directory, and that of a pair being moved the manifest goes first. A consumer has
no lock; its part of the invariant is that as long as the pair it named is the valid
one it has read nothing else, and that a pair no longer valid in its place never is
again, since no run publishes twice.

TemporalProductProofs. What a crash leaves depends on the step it strikes and on what
reached the disk, so the invariant says, for each step of the call that holds the
lock and for every image: who owns each product, what the journal accounts for,
whether stage, journal and layers are synced, which layers are laid down, and, of a
rollback, what is undone. Only then does a kill at any step leave what recovery
expects. PublishesOnce is a step simulation of Publication under the refinement mapping:
a bundle is published when every image has it whole and has no journal. AllOrNothing, as in its statement,
is up to hasty recoveries (section 6).

NrtRevisionProofs. A revision, a writer and a call half way are each said to be what
one capture of the whole series under terms of their own would make of it, or would have
made so far: the terms are those of the call that began the chain. The lemmas are that
the plan of a tail is the tail of the plan (TailPlanned), that arrivals leave full
blocks as they are (FullBlocksStay), and that a copied and a linked block are the block
the capture would write (SameBlock), step by step (CopyStep, LinkStep). References are
first dates there because assess_support refuses to capture under any other plan.

FramePublicationProofs. The invariant says what spatial holds at each stage as a function
of the frame read, the mask and the origin. Regions are the minimal parts closed under
adjacency, so the proof needs no paths; that a run without a reference had no
candidate rests on the order of regions being total on a finite set, so that there
is a first (FirstExists).

LoopClosureProofs. LoopInv says that the pairs are the network of the run and, beyond
the refusal, hold a fan; that pixels are decided in turn on the stack as it was
unwrapped, with a correction that closes every loop or with none; that while a pixel
is solved costs is such a correction and flow a circulation of at most one unit per
pair; and JudgedAsWithout. It needs the algorithms to do what they are for:

- Bellman-Ford (Search, NegativeCycle). A distance is at least what its arc makes it,
  and on every loop somewhere more (Sound). What the last pass relaxes is nearer in the
  end than one pass before, so its predecessor is nearer than two passes before, and so
  on: the walk back stays among relaxed nodes as many steps as there are nodes, hence
  goes round, and the arcs it goes round sum to less than nothing (CycleFound). When a
  pass relaxes nothing there is no such cycle (NoCycleNoGain).
- A circulation (Balanced) has sum 0 against the differences of any potential, so it
  stays one when a cycle is added, and no pair is pushed twice: CancelKeeps, which is
  CancellingPays.
- Distances, over the residual arcs or over the same turned, is the greatest potential
  with 0 at the first date (PotentialsAre). Every date is reached because the fan has
  the sequential pairs and a circulation that uses up the room out of a set of dates
  does so on both sides (RoomCrosses).
- A correction that differs from one closing every loop by the differences of a
  potential closes them too (DifferencesClose), so what is read off closes them.
- On a network with a fan the converse holds as well: two corrections that close the
  same loops differ by a potential (FollowersDiffer), along the fan from pair to pair.
  So where the particular correction does not close, none does (NothingCloses).
- Weak duality (Duality). The size of a correction is at least the circulation times it,
  pair by pair, and the circulation times it is the same for all that close the loops
  (Worth). They are equal exactly where the potential is feasible for the residual arcs
  (FeasibleFits), so the smallest corrections are those of the feasible potentials
  (SmallestAre). The two distances bound these from above and below and are among them:
  they meet where there is one, and two potentials never give one correction
  (BoundsTell, PotentialsTold).
- A repair brings every residual it moves to within a quarter of a cycle of its root
  (ClosedIsNear); values moved into the interval a median is in leave it there
  (MedianStays); so the rounded median stays (RepairsKeepRoots), and with it the verdict
  on every other pixel.

The refinement (PixelsGetWhatIsPromised) follows: of all the steps only settling a pixel
changes an outcome, to what SmallestCorrection promises. It is proved from ReachSuffices,
that no smallest correction of a run's pixels adds more than Reach cycles to a pair: Reach
is no constant of the code, it only keeps the corrections that TLC lists finite. Any Reach
of at least the size of the particular corrections will do (EnoughReach).

The library states induction for an operator parameter, which the provers cannot
instantiate. In each of these modules the predicate is a set and the recursion a
function instead: a non-empty set of naturals has a least member, a set that takes in
a finite set element by element holds it, a recursion over the subsets of a finite set
has a solution. From the last follows what is used of sums over finite sets. Each
module states those of these lemmas it needs.

Only model-checked:

- every liveness property (CallsReturn, RunsEnd), since fairness and ENABLED are beyond
  the prover;
- TilesAreSeamless and ModesAgree: whole runs over strided windows of a layout.

The type invariants of Sequential, CovarianceArtifact and FactorArtifact are proved.
The other modules state theirs for the reader, or have the typing a proof needs as a
part of its inductive invariant; their runs check what could go wrong instead.

## 5. Not modelled, and why

Kernels (phase linking, statistics, inversion, corrections, filters, GPU) are
floating-point functions without state; readers, writers, configuration, provenance
and the command line are input and output. The validation scripts, the oracle, the
benchmarks and the examples are not part of the program. PROJECT.json lists every
component with its status, and every hazard, those that no property covers yet with
the module that is planned for it.

## 6. Disagreements between code and documentation

Two are shown by runs.

artifact_marker. covariance_artifact.rs documents that a failed finalize leaves no new
completion marker. Its last step, the directory sync after the manifest's rename
(line 384), may fail after the marker is in place: the caller gets an error, and the
directory holds a complete artifact. The artifact left is valid (MarkerNamesItsBytes
holds in that state as well); only the statement is too strong.

frame_empty. displacement.rs:189 says that a frame no pixel of which survives is
published as nodata, with the reason. A reference chosen before the masks is not
cleared then, restrict_component_mask looks its label up in a layer the mask has
blanked, and the run fails. Two acquisitions always end so: one date has no rate.

The others are limits of properties above, kept out of the instances or the
statements, and named here so that nobody takes them for checked.

- AllOrNothing is stated but for hasty recoveries. fixed_cube.rs:196 says the receipt
  is promoted only after every file exists. Recovery (temporal_covariance_product.rs,
  line 3596) takes a bundle it sees whole for complete and removes the journal without
  syncing the directory first; when the recovered call was killed between linking
  the provenance file and syncing, and power is lost right after, the removal may be on
  disk and the provenance not. The next call finds no journal, files that exist, and
  refuses.
- TilesAreSeamless is checked where the quotient of a burst's length by its number of
  output cells is the stride. upsample_nearest infers its repeat from that quotient;
  where it is larger (15 pixels at stride 4: StretchedLayouts in MCDisplacement, for
  which the property fails) only tiles at the far edge are widened to infer the same
  (tiling.rs:136), and with two ministacks or more the others differ from a
  whole-burst run. displacement.rs:3294 says tiling is bit-identical to one.
- ModesAgree is checked for a date missing away from the overlap of bursts. A tile that
  a batch run finds one date missing from is nodata at every date; a resumable run
  drops only the ministack of that date. Where bursts overlap (SeamLayouts, for which
  the property fails) the two frames differ, in the phases pasted and in the seam's
  levelling; elsewhere a pixel is published only when finite at every date.
  displacement.rs:4480 says that the two modes publish the same.
- RejectionsExplained bounds the counts of rejected pixels and does not equate them:
  a pixel without a label in one band and with another label than the reference's in
  a second is gone before the second is judged, where displacement.rs:149 says it
  counts in each.
- Where the mask file takes every pixel the product is published without a datum, but
  names the reference chosen before; and the search after the masks places the
  target at its own origin, not in the processing grid as displacement.rs:863 says.
  PublishedIsOneComponent speaks of neither.

## 7. Plan

What is left, in order.

1. Proofs about Tiling: the window of a tile holds the windows of its cells.
2. Scratch directories of parallel unwraps; the integer parts of the native unwrapper.
3. Staging of remote inputs; grouping of files, frame_grid and the crop's windows.
