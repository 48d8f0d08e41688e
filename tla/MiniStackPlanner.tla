--------------------------- MODULE MiniStackPlanner ---------------------------
(***************************************************************************)
(* The planning arithmetic of dolphin-stack: how a stack of real SLCs is   *)
(* partitioned into ministacks, how many compressed SLCs each one carries, *)
(* and which index each one is referenced to.  Everything here is a        *)
(* constant operator; Sequential drives the plan.                          *)
(***************************************************************************)
EXTENDS Integers, Sequences

CONSTANTS
  MinistackSize,        \* SequentialConfig.ministack_size
  MaxNumCompressed,     \* SequentialConfig.max_num_compressed
  OutputReferenceIdx,   \* SequentialConfig.output_reference_idx, a usize
  CompressedSlcPlan     \* SequentialConfig.compressed_slc_plan

CompressedSlcPlans == {"AlwaysFirst", "FirstPerMinistack", "LastPerMinistack"}

ASSUME PlannerAssumption ==
  /\ MinistackSize \in Nat
  /\ MaxNumCompressed \in Nat
  /\ OutputReferenceIdx \in Nat
  /\ CompressedSlcPlan \in CompressedSlcPlans

Smaller(a, b) == IF a <= b THEN a ELSE b

(* MiniStack::size: carried compressed SLCs and real SLCs together. *)
Size(ms) == ms.num_compressed + ms.num_real

(* MiniStack::carried_parent_ids: the global blocks whose compressed SLCs  *)
(* this block is linked behind, oldest first.                              *)
CarriedParentIds(ms) == (ms.block_id - ms.num_compressed) .. (ms.block_id - 1)

(* resolve_reference_index, split into its error check and its value.      *)
ReferenceResolves(idx, len) == len > 0 /\ (idx = -1 \/ idx \in 0 .. len - 1)
ResolveReferenceIndex(idx, len) == IF idx = -1 THEN len - 1 ELSE idx

(* MiniStackPlanner::references. *)
References(numCompressed) ==
  CASE CompressedSlcPlan = "AlwaysFirst" ->
         [output |-> OutputReferenceIdx, compressed |-> OutputReferenceIdx]
    [] CompressedSlcPlan = "FirstPerMinistack" ->
         [output |-> OutputReferenceIdx, compressed |-> numCompressed]
    [] CompressedSlcPlan = "LastPerMinistack" ->
         [output |-> numCompressed - 1, compressed |-> -1]

(* Mutant: the carry is counted from the start of the stack at hand, not      *)
(* from the global block number.                                           *)
Batch_RelativeCarry(numSlc, batch, start) ==
  LET nc == Smaller(start, MaxNumCompressed)
  IN  [block_id |-> batch, num_compressed |-> nc, real_start |-> start,
       num_real |-> Smaller(MinistackSize, numSlc - start),
       output_reference_idx |-> References(nc).output,
       compressed_reference_idx |-> References(nc).compressed]

(* MiniStackPlanner::batch.  batch is the global block number, start the   *)
(* block's first real SLC in the stack at hand.                            *)
Batch(numSlc, batch, start) ==
  LET nc == Smaller(batch, MaxNumCompressed)
  IN  [block_id |-> batch, num_compressed |-> nc, real_start |-> start,
       num_real |-> Smaller(MinistackSize, numSlc - start),
       output_reference_idx |-> References(nc).output,
       compressed_reference_idx |-> References(nc).compressed]

(* The blocks of a stack: (0..num_slc).step_by(ministack_size), counted     *)
(* from one.                                                               *)
BatchIndices(numSlc) == {i \in 1 .. numSlc : (i - 1) * MinistackSize < numSlc}

(* MiniStackPlanner::plan_with_offset.  A resumed tail is numbered from    *)
(* batchOffset, the number of blocks already sealed.                       *)
PlanWithOffset(numSlc, batchOffset) ==
  [i \in BatchIndices(numSlc) |->
     Batch(numSlc, batchOffset + i - 1, (i - 1) * MinistackSize)]

(* The errors plan_with_offset returns: a ministack size below two, or a    *)
(* block whose references do not resolve inside it.                        *)
PlanAccepted(numSlc, batchOffset) ==
  /\ MinistackSize >= 2
  /\ \A i \in BatchIndices(numSlc) :
       LET ms == PlanWithOffset(numSlc, batchOffset)[i]
       IN  /\ ReferenceResolves(ms.output_reference_idx, Size(ms))
           /\ ReferenceResolves(ms.compressed_reference_idx, Size(ms))
===============================================================================
