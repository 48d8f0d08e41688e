------------------------------ MODULE NrtRevision ------------------------------
(***************************************************************************)
(* Revisions of one burst's covariance operator as acquisitions arrive        *)
(* (sequential.rs, the *_with_covariance_capture calls; their topology in      *)
(* sequential_covariance.rs).  A revision is a new file: the generations its   *)
(* parent sealed are copied from the parent's file block by block, the open    *)
(* one and what follows are linked anew.  What must agree, and is kept in      *)
(* three places, is the caller's SequentialCovarianceState, the registry of    *)
(* the writer it was given, and the parent's file, any of which may be another *)
(* revision's.  A digest is what it digests.                                 *)
(***************************************************************************)
EXTENDS Ministacks

CONSTANTS
  Frames,           \* where on the global grids a request says its tile lies
  Models,           \* source model versions, with their receipts
  Configs,          \* digests of the configuration and the kernels
  Tolerances,       \* SequentialCovarianceCaptureRequest.branch_tolerance
  LargestOnCpu,     \* the ministack size above which the engine takes the GPU
  None,
  MaxAcquisitions,  \* bounds on the length of a series,
  MaxArrivals,      \*   on the acquisitions of one update,
  MaxRevisions      \*   and on the revisions

ASSUME RevisionAssumption ==
  /\ LargestOnCpu \in Nat
  /\ {MaxAcquisitions, MaxArrivals, MaxRevisions} \subseteq Nat

(* The all-zero digest of a block that is yet to be written, which no block has.  *)
Unwritten == [zero |-> TRUE]

VARIABLES
  revisions,  \* what calls returned: [series, state, output, file or None]
  writer,     \* the destination CovarianceOperatorWriter, or None
  call        \* the call in progress, or None

vars == << revisions, writer, call >>

Init == revisions = << >> /\ writer = None /\ call = None
-------------------------------------------------------------------------------
(***************************************************************************)
(* What a request plans                                                    *)
(***************************************************************************)

(* The generations a registry has sealed, by their numbers.                   *)
Sealed(registry) == {k \in DOMAIN registry : registry[k].sealed}

NumGenerations(n) == Cardinality(BatchIndices(n))

(* The members of each generation, as an honest caller digests them.         *)
MembersOf(series) ==
  [k \in 1 .. NumGenerations(Len(series)) |->
     SubSeq(series, (k - 1) * MinistackSize + 1, Smaller(k * MinistackSize, Len(series)))]

(* assess_support and the backend that plan_*_capture_impl resolves.          *)
Supported(n) ==
  /\ CompressedSlcPlan = "AlwaysFirst" /\ OutputReferenceIdx = 0
  /\ \A k \in BatchIndices(n) : Size(PlanWithOffset(n, 0)[k]) <= LargestOnCpu

(* SequentialReplayTopology::plan_identified_generations: its errors, and its *)
(* blocks.                                                                 *)
TopologyAccepted(n, req) ==
  /\ n > 0
  /\ MaxNumCompressed = 0 => n <= MinistackSize
  /\ Supported(n)
  /\ PlanAccepted(n, 0)
  /\ Len(req.members) = NumGenerations(n)

BlockId(k, req) == << k, req.members[k], req.model, req.frame >>

Topology(n, req) ==
  [k \in BatchIndices(n) |->
     LET ms == PlanWithOffset(n, 0)[k]
     IN  [id |-> BlockId(k, req),
          start |-> ms.real_start, count |-> ms.num_real,
          parents |-> {BlockId(p + 1, req) : p \in CarriedParentIds(ms)}]]

(* provisional_covariance_generation_registry.                             *)
Provisional(n, mask, req) ==
  [k \in 1 .. NumGenerations(n) |->
     LET block == Topology(n, req)[k]
     IN  [member |-> req.members[k], start |-> block.start, count |-> block.count,
          model |-> req.model, config |-> req.config, mask |-> mask,
          id |-> block.id, digest |-> Unwritten, sealed |-> FALSE]]

(* The acquisitions that sealed generations count.                           *)
SealedDates(registry) ==
  SumFunctionOnSet([k \in DOMAIN registry |-> registry[k].count], Sealed(registry))

TotalDates_Sealed(state, new) ==  \* mutant: the open acquisitions are not counted
  SealedDates(state.registry) + Len(new)

TotalDates(state, new) ==
  SealedDates(state.registry) + Len(state.open) + Len(new)

(* plan_sequential_covariance_update: a sealed generation keeps the parent's  *)
(* blocks, and must otherwise be planned as it was.                         *)
SameGeneration(planned, kept) ==
  [planned EXCEPT !.id = kept.id, !.digest = kept.digest, !.sealed = TRUE] = kept

UpdatePlanned(state, new, req) ==
  LET n == TotalDates(state, new)
  IN  /\ new # << >>
      /\ req.prior = state.manifest
      /\ req.config = state.config /\ req.model = state.model
      /\ TopologyAccepted(n, req)
      /\ \A k \in Sealed(state.registry) :
           /\ k <= NumGenerations(n)
           /\ SameGeneration(Provisional(n, state.mask, req)[k], state.registry[k])

UpdatePlan(state, new, req) ==
  LET n == TotalDates(state, new)
  IN  [k \in 1 .. NumGenerations(n) |->
         IF k \in Sealed(state.registry) THEN state.registry[k]
         ELSE Provisional(n, state.mask, req)[k]]

(* CovarianceGenerationRegistry::validate_plan: block ids are derived anew.   *)
FitsPlan(registry, n, req) ==
  \A k \in DOMAIN registry :
    /\ registry[k].id = << k, registry[k].member, registry[k].model, req.frame >>
    /\ registry[k].start = Topology(n, req)[k].start
    /\ registry[k].count = Topology(n, req)[k].count

NewWriter(registry, req) ==
  [registry |-> registry, written |-> << >>, poisoned |-> FALSE,
   frame |-> req.frame, manifest |-> req.manifest]
-------------------------------------------------------------------------------
(***************************************************************************)
(* Calls                                                                   *)
(***************************************************************************)

(* run_sequential_resumable_with_covariance_capture, into a writer that was   *)
(* made from its own plan.                                                  *)
CaptureAccepted(stack, req) == req.prior = None /\ TopologyAccepted(Len(stack), req)

Capture(stack, req) ==
  /\ call = None
  /\ CaptureAccepted(stack, req)
  /\ writer' = NewWriter(Provisional(Len(stack), req.mask, req), req)
  /\ call' = [from |-> None, parent |-> None, series |-> stack, tail |-> stack,
              seed |-> << >>, kept |-> << >>, out |-> << >>, req |-> req]
  /\ UNCHANGED revisions

(* The caller plans an update and creates its writer.                        *)
CreateDestination(from, new, req) ==
  LET state == revisions[from].state
      registry == UpdatePlan(state, new, req)
  IN  /\ call = None
      /\ UpdatePlanned(state, new, req)
      /\ FitsPlan(registry, TotalDates(state, new), req)
      /\ writer' = NewWriter(registry, req)
      /\ UNCHANGED << revisions, call >>

(* update_sequential_with_covariance_capture_impl, up to the first copy.      *)
IdentityAgrees(state, file, req) ==
  /\ req.mask = state.mask
  /\ req.config = state.config /\ req.model = state.model
  /\ req.prior = state.manifest
  /\ file.registry = state.registry

DestinationUntouched(state, new, req) ==
  /\ writer # None /\ writer.written = << >>
  /\ writer.registry = UpdatePlan(state, new, req)
  /\ writer.frame = req.frame /\ writer.manifest = req.manifest
  /\ FitsPlan(writer.registry, TotalDates(state, new), req)

ReceiptsCarried(state, req) ==
  /\ Cardinality(Sealed(state.registry)) = Len(state.sealed)
  /\ \A k \in Sealed(state.registry) : req.members[k] = state.registry[k].member

(* validate_sealed_blocks: there is one, and each fits the caller's cap (one    *)
(* that does not read back is a Fail).                                     *)
SealedBlocksValid(parent, req) ==
  Sealed(revisions[parent].file.registry) # {} /\ req.cap = "enough"

UpdateAccepted(from, parent, new, req) ==
  LET state == revisions[from].state
  IN  /\ revisions[parent].file # None
      /\ IdentityAgrees(state, revisions[parent].file, req)
      /\ UpdatePlanned(state, new, req)
      /\ DestinationUntouched(state, new, req)
      /\ ReceiptsCarried(state, req)
      /\ PlanAccepted(Len(state.open) + Len(new), Len(state.sealed))
      /\ SealedBlocksValid(parent, req)

Update(from, parent, new, req) ==
  LET state == revisions[from].state
  IN  /\ call = None
      /\ UpdateAccepted(from, parent, new, req)
      /\ call' = [from |-> from, parent |-> parent,
                  series |-> revisions[from].series \o new, tail |-> state.open \o new,
                  seed |-> state.sealed,
                  kept |-> [k \in Sealed(state.registry) |-> state.registry[k]],
                  out |-> << >>, req |-> req]
      /\ UNCHANGED << revisions, writer >>
-------------------------------------------------------------------------------
(***************************************************************************)
(* The writer, of which CovarianceOperatorWriter is the whole                *)
(***************************************************************************)

WriterAccepts(b) ==
  LET planned == writer.registry[b.k]
      written == Range(writer.written)
  IN  /\ ~ writer.poisoned
      /\ b.k \in DOMAIN writer.registry
      /\ planned.id = b.id /\ planned.member = b.member /\ planned.model = b.model
      /\ planned.start = b.start /\ planned.count = b.count
      /\ planned.digest \in {Unwritten, b}
      /\ \A c \in written : c.k # b.k /\ c.tolerance = b.tolerance
      /\ b.parents \subseteq {c.id : c \in written}

Write(b) ==
  writer' = [writer EXCEPT !.written = Append(@, b), !.registry[b.k].digest = b]

NextBlock == Len(writer.written) + 1

Copying == NextBlock \in DOMAIN call.kept

(* copy_validated_sealed_block.                                             *)
CopyNext ==
  /\ call # None /\ Copying
  /\ LET b == revisions[call.parent].file.blocks[NextBlock]
     IN  /\ writer.registry[NextBlock].sealed
         /\ revisions[call.parent].file.registry[NextBlock] = writer.registry[NextBlock]
         /\ b = writer.registry[NextBlock].digest
         /\ WriterAccepts(b)
         /\ Write(b)
  /\ UNCHANGED << revisions, call >>

TailPlan == PlanWithOffset(Len(call.tail), Len(call.seed))

Linked == NextBlock - Cardinality(DOMAIN call.kept)

(* One turn of drive_with_covariance_capture: the block is linked by the      *)
(* tail's plan and named by the topology of the whole series                *)
(* (build_covariance_operator_block).                                       *)
LinkNext ==
  /\ call # None /\ ~ Copying /\ Linked \in DOMAIN TailPlan
  /\ LET ms == TailPlan[Linked]
         carry == CompressedOf(call.seed \o call.out)
         product == LinkAndCompress(Assemble(carry, call.tail, ms, call.req.mask))
         planned == Topology(Len(call.series), call.req)[ms.block_id + 1]
         b == [k |-> ms.block_id + 1, id |-> planned.id, start |-> planned.start,
               count |-> ms.num_real, parents |-> planned.parents,
               member |-> call.req.members[ms.block_id + 1], model |-> call.req.model,
               tolerance |-> call.req.tolerance, product |-> product]
     IN  /\ planned.count = ms.num_real
         /\ Cardinality(planned.parents) = ms.num_compressed
         /\ WriterAccepts(b)
         /\ Write(b)
         /\ call' = [call EXCEPT !.out = Append(@, product)]
  /\ UNCHANGED revisions

(* A read, a kernel, a check or the writer fails: the call returns the error,  *)
(* and the writer holds what was written, poisoned or not.                   *)
Fail ==
  /\ call # None
  /\ \E poisoned \in BOOLEAN : writer' = [writer EXCEPT !.poisoned = poisoned]
  /\ call' = None
  /\ UNCHANGED revisions
-------------------------------------------------------------------------------
(***************************************************************************)
(* Returning                                                               *)
(***************************************************************************)

AllLinked == call # None /\ ~ Copying /\ Linked \notin DOMAIN TailPlan

(* build_covariance_generation_registry.                                    *)
IsSealed(count) == count = MinistackSize

BuiltRegistry_Captured ==  \* mutant: the blocks copied by this call are not digested
  [k \in 1 .. NumGenerations(Len(call.series)) |->
     LET planned == Provisional(Len(call.series), call.req.mask, call.req)[k]
     IN  [planned EXCEPT
            !.digest = IF k \in DOMAIN call.kept THEN @ ELSE writer.written[k],
            !.sealed = IsSealed(planned.count)]]

BuiltRegistry ==
  [k \in 1 .. NumGenerations(Len(call.series)) |->
     LET planned == Provisional(Len(call.series), call.req.mask, call.req)[k]
     IN  [planned EXCEPT
            !.digest = IF k \in DOMAIN call.kept THEN call.kept[k].digest ELSE writer.written[k],
            !.sealed = IsSealed(planned.count)]]

(* seal_state and with_sealed_prefix.                                      *)
LastIsOpen == TailPlan[Len(call.out)].num_real < MinistackSize

OpenRealSlcs_FromStart ==  \* mutant: cut from the start of the tail
  IF LastIsOpen THEN SubSeq(call.tail, 1, TailPlan[Len(call.out)].num_real) ELSE << >>

OpenRealSlcs ==
  IF LastIsOpen
  THEN LET ms == TailPlan[Len(call.out)]
       IN  SubSeq(call.tail, ms.real_start + 1, ms.real_start + ms.num_real)
  ELSE << >>

StateAfter ==
  [sealed |-> call.seed \o (IF LastIsOpen THEN Front(call.out) ELSE call.out),
   open |-> OpenRealSlcs,
   mask |-> call.req.mask, config |-> call.req.config, model |-> call.req.model,
   manifest |-> call.req.manifest, registry |-> BuiltRegistry]

(* seal_writer_generations.                                                *)
SealedBy(state) ==
  [k \in DOMAIN writer.registry |->
     [writer.registry[k] EXCEPT !.sealed = @ \/ state.registry[k].sealed]]

SealAgrees(state) == SealedBy(state) = state.registry

Return ==
  /\ AllLinked
  /\ SealAgrees(StateAfter)
  /\ revisions' = Append(revisions,
       [series |-> call.series, state |-> StateAfter, file |-> None,
        output |-> BuildOutput(call.seed \o call.out, call.req.mask)])
  /\ writer' = [writer EXCEPT !.registry = SealedBy(StateAfter)]
  /\ call' = None

(* The caller finishes the writer of the revision it was returned last.       *)
Finish ==
  /\ call = None /\ writer # None /\ revisions # << >>
  /\ ~ writer.poisoned
  /\ Last(revisions).file = None
  /\ writer.registry = Last(revisions).state.registry
  /\ revisions' = [revisions EXCEPT ![Len(revisions)].file =
                     [registry |-> writer.registry, blocks |-> writer.written]]
  /\ writer' = None
  /\ UNCHANGED call

(* The writer is dropped, complete or not.                                  *)
Drop ==
  /\ call = None /\ writer # None
  /\ writer' = None
  /\ UNCHANGED << revisions, call >>
-------------------------------------------------------------------------------
(* What callers ask for: an honest request, or one that differs from it in    *)
(* one way.                                                                *)
Honest(series, mask, config, model, prior, frame, tolerance) ==
  [mask |-> mask, config |-> config, model |-> model, prior |-> prior,
   manifest |-> series, members |-> MembersOf(series), frame |-> frame,
   tolerance |-> tolerance, cap |-> "enough"]

(* Before the first capture one of these is as good as another.             *)
CaptureRequests(stack) ==
  {Honest(stack, mask, CHOOSE c \in Configs : TRUE, CHOOSE m \in Models : TRUE, None,
          CHOOSE f \in Frames : TRUE, CHOOSE t \in Tolerances : TRUE) : mask \in Validities}

HonestUpdate(i, new) ==
  LET state == revisions[i].state
      first == state.registry[1].digest
  IN  Honest(revisions[i].series \o new, state.mask, state.config, state.model,
             state.manifest, state.registry[1].id[4], first.tolerance)

UpdateRequests(i, new) ==
  LET honest == HonestUpdate(i, new)
  IN  {honest, [honest EXCEPT !.cap = "short"], [honest EXCEPT !.prior = None],
       [honest EXCEPT !.members[1] = Append(@, @[1])],
       [honest EXCEPT !.members = Front(@)]}
      \cup {[honest EXCEPT !.mask = mask] : mask \in Validities}
      \cup {[honest EXCEPT !.config = config] : config \in Configs}
      \cup {[honest EXCEPT !.model = model] : model \in Models}
      \cup {[honest EXCEPT !.frame = frame] : frame \in Frames}
      \cup {[honest EXCEPT !.tolerance = tolerance] : tolerance \in Tolerances}

Stacks(n) == UNION {[1 .. k -> Slcs] : k \in 1 .. n}

Arrivals(i) == Stacks(Smaller(MaxArrivals, MaxAcquisitions - Len(revisions[i].series)))

Room == Len(revisions) < MaxRevisions

Next ==
  \/ Room /\ revisions = << >> /\ \E stack \in Stacks(MaxArrivals) :
       \E req \in CaptureRequests(stack) : Capture(stack, req)
  \/ Room /\ \E i \in DOMAIN revisions : \E new \in Arrivals(i) :
       \E req \in UpdateRequests(i, new) :
         \/ writer = None /\ CreateDestination(i, new, req)
         \/ \E parent \in DOMAIN revisions : Update(i, parent, new, req)
  \/ CopyNext \/ LinkNext \/ Fail \/ Return \/ Finish \/ Drop

Spec == Init /\ [][Next]_vars
-------------------------------------------------------------------------------
(***************************************************************************)
(* Properties                                                              *)
(***************************************************************************)

IsRegistry(registry) ==
  \A k \in DOMAIN registry :
    /\ registry[k].count \in 1 .. MinistackSize /\ registry[k].sealed \in BOOLEAN
    /\ registry[k].mask \in Validities /\ registry[k].config \in Configs
    /\ registry[k].model \in Models

TypeOK ==
  /\ Len(revisions) <= MaxRevisions
  /\ \A i \in DOMAIN revisions :
       /\ IsRegistry(revisions[i].state.registry)
       /\ revisions[i].series \in Seq(Slcs) /\ revisions[i].state.open \in Seq(Slcs)
       /\ Len(revisions[i].state.open) < MinistackSize
       /\ revisions[i].state.mask \in Validities
  /\ writer # None => IsRegistry(writer.registry) /\ writer.poisoned \in BOOLEAN
  /\ call # None => call.series \in Seq(Slcs) /\ call.tail \in Seq(Slcs)

(* The state every finished revision passes through.                       *)
JustFinished ==
  /\ call = None /\ writer = None
  /\ revisions # << >> /\ Last(revisions).file # None

(* A finished revision, copied from its parents in part and perhaps over        *)
(* several of them, holds block for block what one capture of the whole         *)
(* series would, under one tolerance, frame, mask and model, names each         *)
(* block by its digest, seals exactly the full generations, and was published    *)
(* with the phases of that capture                                           *)
(* (update_sequential_with_covariance_capture_impl).                          *)
RevisionIsRecapture ==
  JustFinished =>
    LET i == Len(revisions)
        r == revisions[i]
        whole == BatchBlocks(r.series, r.state.mask)
        topology == Topology(Len(r.series),
          [HonestUpdate(i, << >>) EXCEPT !.members = MembersOf(r.series)])
    IN  /\ r.output = RunSequential(r.series, r.state.mask)
        /\ Len(r.file.blocks) = Len(whole)
        /\ \A k \in DOMAIN whole :
             LET b == r.file.blocks[k]
                 g == r.file.registry[k]
             IN  /\ b.product = whole[k]
                 /\ b.id = topology[k].id /\ b.parents = topology[k].parents
                 /\ b.tolerance = r.file.blocks[1].tolerance
                 /\ g.digest = b /\ g.id = b.id
                 /\ g.sealed = (g.count = MinistackSize)
                 /\ g.mask = r.state.mask /\ g.config = r.state.config

(* The writer's registry and the state's are built by two routes, one from the   *)
(* parent's registry and the blocks as they were written, one from the whole     *)
(* series' topology and the blocks as they were captured: a call that has        *)
(* linked everything is never refused by seal_writer_generations.              *)
RegistriesMeet == AllLinked => SealAgrees(StateAfter)

(* Any finished revision with a sealed generation can be extended, by an honest  *)
(* request into a fresh writer, exactly when a capture of the extended series     *)
(* would be accepted from scratch; a plan, a count or an identity carried from    *)
(* call to call never locks a series out (plan_sequential_covariance_update).    *)
ExtendsLikeACapture ==
  JustFinished /\ Sealed(Last(revisions).state.registry) # {} =>
    LET i == Len(revisions)
        state == revisions[i].state
    IN  \A new \in Stacks(MaxArrivals) :
          LET req == HonestUpdate(i, new)
          IN  CaptureAccepted(revisions[i].series \o new, [req EXCEPT !.prior = None])
              <=> /\ UpdatePlanned(state, new, req)
                  /\ FitsPlan(UpdatePlan(state, new, req), TotalDates(state, new), req)
                  /\ IdentityAgrees(state, revisions[i].file, req)
                  /\ ReceiptsCarried(state, req)
                  /\ PlanAccepted(Len(state.open) + Len(new), Len(state.sealed))
===============================================================================
