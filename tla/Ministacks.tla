------------------------------ MODULE Ministacks ------------------------------
(***************************************************************************)
(* What one ministack contributes to a sequential run, and what a run       *)
(* publishes from its ministacks.  The phase-linking and compression        *)
(* kernels are uninterpreted: all that matters to the control is that each   *)
(* product is a function of the kernel's input, and nothing else.           *)
(***************************************************************************)
EXTENDS MiniStackPlanner, SequencesExt

CONSTANTS
  Slcs,           \* real acquisitions
  Masks,          \* native validity masks a caller may configure
  NoMask,         \* the unmasked API
  AllValid,       \* a configured mask that masks nothing
  Phase(_, _),    \* linked phase of one date of a kernel input
  Compress(_),    \* the compressed SLC of a kernel input
  Quality(_)      \* coherence, CRLB and closure layers of a kernel input

ASSUME MaskAssumption == NoMask \notin Masks /\ AllValid \in Masks

Validities == Masks \cup {NoMask}

(* nontrivial_mask: a configured mask that is all valid links unmasked.    *)
EffectiveMask(m) == IF m = AllValid THEN NoMask ELSE m

(* assemble: the last num_compressed compressed SLCs of the carry, ahead of *)
(* the block's real SLCs.                                                  *)
Assemble(carry, stack, ms, m) ==
  [carried |-> [j \in 1 .. ms.num_compressed |->
                  carry[Len(carry) - ms.num_compressed + j]],
   real |-> [j \in 1 .. ms.num_real |-> stack[ms.real_start + j]],
   output_ref |-> ResolveReferenceIndex(ms.output_reference_idx, Size(ms)),
   compressed_ref |-> ResolveReferenceIndex(ms.compressed_reference_idx, Size(ms)),
   mask |-> EffectiveMask(m)]

(* link_and_compress, and the slice of its phases drive keeps: one phase    *)
(* per real date, the carried dates dropped.                               *)
LinkAndCompress(input) ==
  LET nc == Len(input.carried)
  IN  [phase |-> [j \in 1 .. Len(input.real) |-> Phase(input, nc + j)],
       compressed |-> Compress(input),
       quality |-> Quality(input)]

CompressedOf(blocks) == [k \in 1 .. Len(blocks) |-> blocks[k].compressed]

(* build_output: the per-block products in order, the phases concatenated   *)
(* along the date axis.                                                    *)
BuildOutput(blocks, m) ==
  [cpx_phase |-> FlattenSeq([k \in 1 .. Len(blocks) |-> blocks[k].phase]),
   blocks |-> blocks,
   validity_mask |-> EffectiveMask(m)]

(* What there is before any call has returned.                             *)
NoOutput == BuildOutput(<< >>, NoMask)

(* drive over a raw stack, as a relation: blocks holds one product per       *)
(* planned ministack, each linked behind the compressed SLCs of those       *)
(* before it.                                                              *)
IsBatchRun(stack, m, blocks) ==
  LET plans == PlanWithOffset(Len(stack), 0)
  IN  /\ DOMAIN blocks = DOMAIN plans
      /\ \A k \in DOMAIN plans :
           blocks[k] = LinkAndCompress(
             Assemble([j \in 1 .. k - 1 |-> blocks[j].compressed],
                      stack, plans[k], m))

(* The same, computed block by block: what run_sequential returns for the    *)
(* whole stack.                                                            *)
BatchBlocks(stack, m) ==
  LET plans == PlanWithOffset(Len(stack), 0)
      upTo[k \in 0 .. Cardinality(DOMAIN plans)] ==
        IF k = 0 THEN << >>
        ELSE Append(upTo[k - 1],
               LinkAndCompress(
                 Assemble(CompressedOf(upTo[k - 1]), stack, plans[k], m)))
  IN  upTo[Cardinality(DOMAIN plans)]

RunSequential(stack, m) == BuildOutput(BatchBlocks(stack, m), m)
===============================================================================
