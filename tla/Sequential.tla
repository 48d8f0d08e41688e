------------------------------ MODULE Sequential ------------------------------
(***************************************************************************)
(* The resumable sequential phase-linking run of dolphin-workflows          *)
(* (sequential.rs): a first run over a stack, then updates that fold new     *)
(* acquisitions in by re-linking only the open trailing ministack and what   *)
(* follows it.  A call links one ministack per step, because a kernel may    *)
(* fail at any of them; the caller's state changes only when a call returns. *)
(***************************************************************************)
EXTENDS Ministacks

CONSTANTS
  MaxAcquisitions,  \* bound on the length of a series
  MaxArrivals       \* bound on the acquisitions of one call

ASSUME BoundAssumption == MaxAcquisitions \in Nat /\ MaxArrivals \in Nat

VARIABLES
  \* the caller's SequentialState, and the acquisitions it stands for
  history,    \* every acquisition consumed so far (BurstState.files)
  validity,   \* SequentialState.native_validity
  sealed,     \* products of the sealed ministacks, oldest first
  open,       \* SequentialState.open_real_slcs
  \* what calls returned
  published,  \* the last SequentialOutput
  outcome,    \* how the last call ended
  \* the call in progress
  pc,         \* "idle" or "drive"
  kind,       \* "run" or "update"
  mask,       \* the native validity passed to the call
  arrivals,   \* the acquisitions passed to the call
  tail,       \* the real SLCs the call links
  carry,      \* compressed SLCs, seed first
  out         \* products of the ministacks linked so far

persisted == << history, validity, sealed, open >>
returned  == << published, outcome >>
inflight  == << pc, kind, mask, arrivals, tail, carry, out >>
vars == << persisted, returned, inflight >>

Resumable == published # NoOutput

(* The blocks a call's plan is numbered from, and its plan.                *)
Seed(k) == IF k = "update" THEN sealed ELSE << >>

(* Mutant: the resumed tail is planned as if it were a stack of its own.    *)
Plan_Restarted == PlanWithOffset(Len(tail), 0)

Plan == PlanWithOffset(Len(tail), Len(Seed(kind)))

Init ==
  /\ history = << >> /\ validity = NoMask /\ sealed = << >> /\ open = << >>
  /\ published = NoOutput /\ outcome = "none"
  /\ pc = "idle" /\ kind = "run" /\ mask = NoMask
  /\ arrivals = << >> /\ tail = << >> /\ carry = << >> /\ out = << >>

(***************************************************************************)
(* Entering a call                                                         *)
(***************************************************************************)

Enter(k, m, new, stack) ==
  /\ pc' = "drive"
  /\ kind' = k
  /\ mask' = m
  /\ arrivals' = new
  /\ tail' = stack
  /\ carry' = CompressedOf(Seed(k))
  /\ out' = << >>
  /\ UNCHANGED << persisted, returned >>

Reject ==
  /\ outcome' = "rejected"
  /\ UNCHANGED << persisted, published, inflight >>

(* run_sequential_resumable_impl up to drive.  fits: the mask, if there is  *)
(* one, lies on the stack's grid.                                          *)
RunAccepted(stack, m, fits) ==
  /\ m = NoMask \/ fits
  /\ PlanAccepted(Len(stack), 0)

Run(stack, m, fits) ==
  /\ pc = "idle"
  /\ RunAccepted(stack, m, fits)
  /\ Enter("run", m, stack, stack)

RejectRun(stack, m, fits) ==
  /\ pc = "idle"
  /\ ~ RunAccepted(stack, m, fits)
  /\ Reject

(* update_sequential_impl up to drive.  fits: the new acquisitions and the  *)
(* mask lie on the series' grid.                                           *)
MaskMatches_Any(m) == TRUE  \* mutant: mixes mask modes

MaskMatches(m) == m = validity

UpdateAccepted(new, m, fits) ==
  /\ new # << >>
  /\ fits
  /\ MaskMatches(m)
  /\ PlanAccepted(Len(open) + Len(new), Len(sealed))

Update(new, m, fits) ==
  /\ pc = "idle"
  /\ Resumable
  /\ UpdateAccepted(new, m, fits)
  /\ Enter("update", m, new, open \o new)

RejectUpdate(new, m, fits) ==
  /\ pc = "idle"
  /\ Resumable
  /\ ~ UpdateAccepted(new, m, fits)
  /\ Reject

(***************************************************************************)
(* drive: one ministack per step                                           *)
(***************************************************************************)

NextBlock == Len(out) + 1

LinkNext ==
  /\ pc = "drive"
  /\ NextBlock \in DOMAIN Plan
  /\ LET block == LinkAndCompress(Assemble(carry, tail, Plan[NextBlock], mask))
     IN  /\ carry' = Append(carry, block.compressed)
         /\ out' = Append(out, block)
  /\ UNCHANGED << persisted, returned, pc, kind, mask, arrivals, tail >>

Leave ==
  /\ pc' = "idle" /\ kind' = "run" /\ mask' = NoMask
  /\ arrivals' = << >> /\ tail' = << >> /\ carry' = << >> /\ out' = << >>

(* Mutant: the call starts its loop over instead of giving up.              *)
LinkFails_Retries ==
  /\ pc = "drive"
  /\ NextBlock \in DOMAIN Plan
  /\ outcome' = "failed"
  /\ carry' = CompressedOf(Seed(kind)) /\ out' = << >>
  /\ UNCHANGED << persisted, published, pc, kind, mask, arrivals, tail >>

(* engine.link or the block's references fail: the call returns the error   *)
(* and the caller keeps the state it had.                                  *)
LinkFails ==
  /\ pc = "drive"
  /\ NextBlock \in DOMAIN Plan
  /\ outcome' = "failed"
  /\ Leave
  /\ UNCHANGED << persisted, published >>

(***************************************************************************)
(* Returning                                                               *)
(***************************************************************************)

(* seal_state: every block but a short last one is sealed, and the short    *)
(* one's raw SLCs are kept.                                                *)
LastIsOpen == Plan[Len(out)].num_real < MinistackSize
NumSealed_All == Len(out)  \* mutant: seals the short block too
NumSealed == IF LastIsOpen THEN Len(out) - 1 ELSE Len(out)

(* Mutant: the open block keeps its compressed SLC in place of its raw ones. *)
OpenRealSlcs_Compressed ==
  IF LastIsOpen THEN << out[Len(out)].compressed >> ELSE << >>

OpenRealSlcs ==
  IF LastIsOpen
  THEN LET ms == Plan[Len(out)]
       IN  SubSeq(tail, ms.real_start + 1, ms.real_start + ms.num_real)
  ELSE << >>

(* build_output over the sealed prefix chained to the call's products, then *)
(* seal_state and, for an update, with_sealed_prefix.                      *)
Return ==
  /\ pc = "drive"
  /\ NextBlock \notin DOMAIN Plan
  /\ out # << >>
  /\ history' = (IF kind = "update" THEN history ELSE << >>) \o arrivals
  /\ published' = BuildOutput(Seed(kind) \o out, mask)
  /\ validity' = mask
  /\ sealed' = Seed(kind) \o SubSeq(out, 1, NumSealed)
  /\ open' = OpenRealSlcs
  /\ outcome' = "returned"
  /\ Leave

(* An empty stack plans no block, and there is no phase to concatenate.    *)
NothingToConcatenate ==
  /\ pc = "drive"
  /\ NextBlock \notin DOMAIN Plan
  /\ out = << >>
  /\ outcome' = "failed"
  /\ Leave
  /\ UNCHANGED << persisted, published >>

-------------------------------------------------------------------------------
Stacks(n) == UNION {[1 .. k -> Slcs] : k \in 0 .. n}

(* What a caller may pass: bounded so that a series stays within            *)
(* MaxAcquisitions.                                                        *)
Room == MaxAcquisitions - Len(history)

Next ==
  \/ \E stack \in Stacks(MaxArrivals), m \in Validities, fits \in BOOLEAN :
       Run(stack, m, fits) \/ RejectRun(stack, m, fits)
  \/ \E new \in Stacks(Smaller(MaxArrivals, Room)), m \in Validities, fits \in BOOLEAN :
       Update(new, m, fits) \/ RejectUpdate(new, m, fits)
  \/ LinkNext
  \/ LinkFails
  \/ Return
  \/ NothingToConcatenate

Spec == Init /\ [][Next]_vars
FairSpec == Spec /\ WF_vars(LinkNext \/ LinkFails) /\ WF_vars(Return \/ NothingToConcatenate)

-------------------------------------------------------------------------------
(***************************************************************************)
(* Properties                                                              *)
(***************************************************************************)

IsSequence(s) == s \in Seq(Range(s))

TypeOK ==
  /\ {history, open, arrivals, tail} \subseteq Seq(Slcs)
  /\ {validity, mask} \subseteq Validities
  /\ IsSequence(sealed) /\ IsSequence(carry) /\ IsSequence(out)
  /\ outcome \in {"none", "rejected", "failed", "returned"}
  /\ pc \in {"idle", "drive"}
  /\ kind \in {"run", "update"}

(* The state a call leaves behind loses no acquisition and keeps none twice: *)
(* the sealed ministacks cover whole blocks of the series, and the raw SLCs   *)
(* kept for the open one are exactly the acquisitions after them, fewer than  *)
(* a ministack (seal_state, with_sealed_prefix).                            *)
SealedBoundary ==
  Resumable =>
    /\ Len(history) = Len(sealed) * MinistackSize + Len(open)
    /\ Len(open) < MinistackSize
    /\ \A i \in 1 .. Len(open) : open[i] = history[Len(sealed) * MinistackSize + i]

(* Whenever a block is about to be linked, the compressed SLCs assemble takes *)
(* from the end of the carry are those of the blocks the plan names as its    *)
(* parents, and they all exist: a resumed tail numbers its blocks, and indexes *)
(* the carry, as the uninterrupted run would (carried_parent_ids, assemble).  *)
CarryAligned ==
  pc = "drive" /\ NextBlock \in DOMAIN Plan =>
    LET ms == Plan[NextBlock]
        linked == Seed(kind) \o out
    IN  /\ ms.block_id = Len(linked)
        /\ \A id \in CarriedParentIds(ms) :
             /\ id + 1 \in DOMAIN linked
             /\ linked[id + 1].compressed = carry[id + 1]
        /\ Len(carry) = Len(linked)

(* Resuming neither accepts nor rejects a series a full rerun would not: the  *)
(* references of a short resumed tail resolve exactly when those of the whole  *)
(* extended stack do (plan_with_offset).                                    *)
PlansAgree ==
  Resumable =>
    \A n \in 1 .. MaxArrivals :
      PlanAccepted(Len(open) + n, Len(sealed)) <=> PlanAccepted(Len(history) + n, 0)

(* The series the call in progress will publish if it returns.              *)
Whole == (IF kind = "update" THEN history ELSE << >>) \o arrivals

RequestView ==
  IF pc = "drive"
  THEN [op |-> kind, stack |-> Whole, mask |-> mask]
  ELSE [op |-> "none", stack |-> << >>, mask |-> NoMask]

Series == INSTANCE PhaseSeries WITH request <- RequestView

(* The incremental driver implements the abstract series: every call either   *)
(* publishes a batch run of the whole extended series or leaves it untouched.  *)
ImplementsSeries == Series!SeriesSpec

(* Every call comes back: the drive loop ends in an output or an error.       *)
CallsReturn == pc = "drive" ~> pc = "idle"
===============================================================================
