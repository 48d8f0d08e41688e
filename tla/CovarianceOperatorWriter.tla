----------------------- MODULE CovarianceOperatorWriter -----------------------
(***************************************************************************)
(* The streaming writer of a covariance operator (dolphin-io,               *)
(* covariance.rs, CovarianceOperatorWriter).  Blocks arrive one at a time:   *)
(* burst after burst, in a burst one chain of generations per tile.  Each    *)
(* is compared with the few earlier ones the writer still keeps (the open    *)
(* chain, and the finished chains whose native grid can still be met), while *)
(* node ids are compared lazily, as the sorted runs of an identity index are *)
(* merged.  A registry of generations, when there is one, binds the blocks   *)
(* of a revision to those of its parent.                                     *)
(***************************************************************************)
EXTENDS Integers, Sequences, FiniteSets, FiniteSetsExt, Functions

CONSTANTS
  Bursts,      \* burst ids
  Tiles,       \* [Bursts -> Seq(tile)]: CovarianceBurstPlan.tiles
  LastGen,     \* the last generation planned, the same for every burst
  Forms,       \* stride, support, estimator branch and tolerance of a block
  OddCells,    \* native cells whose source two tiles may have read differently
  DiskCaps,    \* caps the identity index may be given, in records
  Registered,  \* the writer has a generation registry
  CarriedGens, \* generations the registry carries sealed from the parent
  Unwritten,   \* the all-zero digest of a block not written yet
  Clash        \* the node id two different blocks may both hash to

Gens == 0 .. LastGen

(***************************************************************************)
(* Grids and the plan                                                      *)
(***************************************************************************)

(* A grid has a top and a left, and stops that are exclusive.               *)
Grids == [top : Nat, left : Nat, bottom : Nat, right : Nat]

Overlap(g, h) ==
  g.top < h.bottom /\ h.top < g.bottom /\ g.left < h.right /\ h.left < g.right

Cells(g) == (g.top .. g.bottom - 1) \X (g.left .. g.right - 1)

RowMajorBefore(g, h) ==
  g.top < h.top \/ (g.top = h.top /\ g.left < h.left)

PlanValid ==
  \A burst \in Bursts :
    /\ Tiles[burst] # << >>
    /\ \A i, j \in DOMAIN Tiles[burst] : i < j =>
         LET g == Tiles[burst][i].owned
             h == Tiles[burst][j].owned
         IN  RowMajorBefore(g, h) /\ ~ Overlap(g, h)

ASSUME PlanAssumption ==
  LastGen \in Nat /\ Bursts # {} /\ PlanValid

ASSUME GridAssumption ==
  /\ Tiles \in [Bursts -> Seq([native : Grids, owned : Grids])]
  /\ DiskCaps \subseteq Nat

(* Only a registry carries generations.                                    *)
ASSUME CarriedAssumption ==
  /\ Registered \in BOOLEAN
  /\ CarriedGens \subseteq Gens
  /\ ~ Registered => CarriedGens = {}

(* covariance_record_block_id: what a block's id is derived from.          *)
Keys == UNION { {burst} \X Gens \X { Tiles[burst][i] : i \in DOMAIN Tiles[burst] }
                : burst \in Bursts }

(* A block: parents are the generations its carry_parent_ids name, odd the  *)
(* cells whose source it saw in the second of two forms, ours whether its   *)
(* dates and digests are those of the plan or of its registered generation. *)
AllTiles == UNION { { Tiles[burst][i] : i \in DOMAIN Tiles[burst] } : burst \in Bursts }

Blocks ==
  { b \in [burst : Bursts, gen : Gens, tile : AllTiles, parents : SUBSET Gens,
           form : Forms, odd : SUBSET OddCells, collides : BOOLEAN, ours : BOOLEAN] :
      /\ b.odd \subseteq Cells(b.tile.native)
      /\ \A p \in b.parents : p < b.gen }

ASSUME UnwrittenAssumption == Unwritten \notin Blocks

Key(b)  == << b.burst, b.gen, b.tile >>
Node(b) == IF b.collides THEN Clash ELSE Key(b)

VARIABLES
  phase,     \* "open", "complete" or "dropped"
  poisoned,
  file,      \* the blocks in the HDF5 file
  at,        \* the writer's place in the plan, a record of
             \*   chain     current_chain: the blocks of the open tile chain
             \*   active    active_burst, a set of at most one burst
             \*   frontier  overlap_frontier, as << burst, tile >>
             \*   overlaps  active_overlap_chains, as << burst, tile >>
             \*   begun     burst_invariants: [started burst -> [form, next]]
  levels,    \* identity_index.levels: runs as sets of blocks, {} for none
  used,      \* identity_index.current_disk_bytes, in records
  cap,       \* identity_index.disk_cap_bytes, in records
  digest,    \* the registry's block digests: [Keys -> Blocks or Unwritten]
  sealed,    \* the registry's sealed generations, as << burst, generation >>
  parent     \* the parent revision's sealed blocks: [CarriedKeys -> Blocks]

index    == << levels, used >>
registry == << digest, sealed >>
vars == << phase, poisoned, file, at, index, cap, registry, parent >>

Live == phase = "open" /\ ~ poisoned

FileKeys == { Key(b) : b \in file }

(***************************************************************************)
(* What two blocks, and a block and its parents, must have in common        *)
(***************************************************************************)

(* validate_shared_native_sources.                                         *)
SourcesAgree(b, c) ==
  b.odd \cap Cells(c.tile.native) = c.odd \cap Cells(b.tile.native)

SameGeneration(b, c) == b.burst = c.burst /\ b.gen = c.gen

(* The parents are the generations just before the block's, from some one   *)
(* on; generation 0 alone has none.                                        *)
ProperParents(b) ==
  IF b.gen = 0 THEN b.parents = {}
  ELSE \E oldest \in 0 .. b.gen - 1 : b.parents = oldest .. b.gen - 1

(* A set of blocks one capture of one stack could have produced.            *)
Coherent(blocks) ==
  /\ \A b \in blocks : b.ours /\ ProperParents(b)
  /\ \A b, c \in blocks : b # c =>
       /\ Node(b) # Node(c)
       /\ b.burst = c.burst => b.form = c.form
       /\ SameGeneration(b, c) => SourcesAgree(b, c)

(***************************************************************************)
(* Init: CovarianceOperatorWriter::create_internal                         *)
(***************************************************************************)

CarriedKeys == { k \in Keys : k[2] \in CarriedGens }

(* What a parent revision may have sealed.                                 *)
SealedParents ==
  LET Written(k) == { b \in Blocks : Key(b) = k /\ b.ours /\ ProperParents(b) }
  IN  { d \in [CarriedKeys -> UNION { Written(k) : k \in CarriedKeys }] :
          /\ \A k \in CarriedKeys : d[k] \in Written(k)
          /\ Coherent({ d[k] : k \in CarriedKeys }) }

(* The registry of an update carries the parent's sealed generations, with   *)
(* their digests (which stand for the blocks); the rest is still unwritten.  *)
Init ==
  /\ phase = "open" /\ poisoned = FALSE /\ file = {}
  /\ at = [chain |-> {}, active |-> {}, frontier |-> {}, overlaps |-> {},
           begun |-> << >>]
  /\ levels = << >> /\ used = 0 /\ cap \in DiskCaps
  /\ parent \in SealedParents
  /\ sealed = Bursts \X CarriedGens
  /\ digest = IF Registered
              THEN [k \in Keys |-> IF k \in CarriedKeys THEN parent[k] ELSE Unwritten]
              ELSE << >>

(***************************************************************************)
(* The identity index: a binary counter of sorted runs                     *)
(***************************************************************************)

(* What a run lists: a source once per burst, generation and cell, and per  *)
(* form it was seen in, for a source id is bound to the source's content;   *)
(* and the blocks' nodes.                                                   *)
Records(run) ==
  { << Node(b) >> : b \in run } \cup
  UNION { { << b.burst, b.gen, cell, cell \in b.odd >> : cell \in Cells(b.tile.native) }
          : b \in run }

Size(run) == Cardinality(Records(run))
SizeBelow(i) ==
  SumFunctionOnSet([j \in DOMAIN levels |-> Size(levels[j])], 1 .. i - 1)

(* What has been merged when the merge with level i begins.                *)
Carry(run, i) == run \cup UNION { levels[j] : j \in 1 .. i - 1 }

MergeAdmits(run, i) ==
  LET left  == levels[i]
      right == Carry(run, i)
  IN  left = {} \/ right = {} \/
        /\ { Node(b) : b \in left } \cap { Node(b) : b \in right } = {}
        /\ used + Size(right) - SizeBelow(i) + Size(left) + Size(right) <= cap

(* insert_run: the run merges with every level up to the first free one.    *)
FreeLevel == Min({ i \in 1 .. Len(levels) + 1 : i \in DOMAIN levels => levels[i] = {} })

IndexAdmits(b) ==
  /\ used + Size({b}) <= cap
  /\ \A i \in 1 .. FreeLevel - 1 : MergeAdmits({b}, i)

(* Mutant: the space of the merged runs is not given back.                  *)
AddToIndex_Leaks(b) ==
  LET carry == Carry({b}, FreeLevel)
      longer == [i \in 1 .. IF FreeLevel > Len(levels) THEN FreeLevel ELSE Len(levels) |->
                   IF i < FreeLevel THEN {} ELSE IF i = FreeLevel THEN carry ELSE levels[i]]
  IN  /\ levels' = longer
      /\ used' = used + Size(carry)

AddToIndex(b) ==
  LET carry == Carry({b}, FreeLevel)
      longer == [i \in 1 .. IF FreeLevel > Len(levels) THEN FreeLevel ELSE Len(levels) |->
                   IF i < FreeLevel THEN {} ELSE IF i = FreeLevel THEN carry ELSE levels[i]]
  IN  /\ levels' = longer
      /\ used' = used + Size(carry) - SizeBelow(FreeLevel)

(* Mutant: the runs that are left are never compared.                       *)
IndexFinishes_Unmerged == TRUE

(* CovarianceIdentityIndex::finish merges the runs that are left.           *)
IndexFinishes == \A i \in DOMAIN levels : MergeAdmits({}, i)

(***************************************************************************)
(* write_block                                                             *)
(***************************************************************************)

NextTile(burst) == IF burst \in DOMAIN at.begun THEN at.begun[burst].next ELSE 0

(* future_min_native_rows: the top of the planned tiles after the first n.  *)
FutureMinRow(burst, n) ==
  Min({ Tiles[burst][i].native.top : i \in n + 1 .. Len(Tiles[burst]) })

ChainComplete ==
  at.chain = {} \/ { b.gen : b \in at.chain } = Gens

(* Mutant: a burst that has begun is never its own continuation.            *)
CanBegin_NewBurstOnly(b) ==
  /\ ChainComplete
  /\ b.burst \notin DOMAIN at.begun
  /\ NextTile(b.burst) < Len(Tiles[b.burst])

CanBegin(b) ==
  /\ ChainComplete
  /\ b.burst \in at.active \/ b.burst \notin DOMAIN at.begun
  /\ NextTile(b.burst) < Len(Tiles[b.burst])

(* Mutant: the frontier lets a chain go one row too early.                  *)
Begin_EvictsEarly(b) ==
  LET finished == { << c.burst, c.tile >> : c \in at.chain }
      before   == IF b.burst \in at.active THEN at.frontier \cup finished ELSE {}
      kept     == { c \in before :
                      c[2].native.bottom > FutureMinRow(b.burst, NextTile(b.burst)) + 1 }
  IN  [at EXCEPT !.chain = {}, !.active = {b.burst}, !.frontier = kept,
                 !.overlaps = { c \in kept : Overlap(c[2].native, b.tile.native) }]

(* begin_tile_chain: the finished chain joins the frontier, which then      *)
(* drops what no planned tile of the burst can meet any more.               *)
Begin(b) ==
  LET finished == { << c.burst, c.tile >> : c \in at.chain }
      before   == IF b.burst \in at.active THEN at.frontier \cup finished ELSE {}
      kept     == { c \in before :
                      c[2].native.bottom > FutureMinRow(b.burst, NextTile(b.burst)) }
  IN  [at EXCEPT !.chain = {}, !.active = {b.burst}, !.frontier = kept,
                 !.overlaps = { c \in kept : Overlap(c[2].native, b.tile.native) }]

Begun(b) == IF b.gen = 0 THEN Begin(b) ELSE at

(* Mutant: a registered digest is overwritten instead of compared.          *)
IdentityHolds_AnyDigest(b) ==
  /\ b.ours
  /\ Registered => Key(b) \in Keys

(* validate_block_generation_identity.                                     *)
IdentityHolds(b) ==
  /\ b.ours
  /\ Registered => Key(b) \in Keys /\ digest[Key(b)] \in {Unwritten, b}

(* validate_burst_invariant: the first block of a burst fixes its form, and *)
(* generation 0 counts the tile.                                           *)
Place(w, b) ==
  IF b.burst \in DOMAIN w.begun THEN w.begun[b.burst] ELSE [form |-> b.form, next |-> 0]

CanCount(w, b) ==
  LET place   == Place(w, b)
      planned == Tiles[b.burst]
  IN  /\ place.form = b.form
      /\ b.gen = 0 =>
           /\ place.next < Len(planned)
           /\ place.next > 0 => RowMajorBefore(planned[place.next].owned, b.tile.owned)
           /\ planned[place.next + 1] = b.tile

Count(w, b) ==
  LET place == Place(w, b)
      after == IF b.gen = 0 THEN [place EXCEPT !.next = @ + 1] ELSE place
  IN  [w EXCEPT !.begun = [burst \in DOMAIN w.begun \cup {b.burst} |->
                             IF burst = b.burst THEN after ELSE w.begun[burst]]]

(* CovarianceTopologyState::validate against the open chain.                *)
JoinsChain(w, b) ==
  /\ ProperParents(b)
  /\ \A p \in b.parents :
       \E c \in w.chain : Key(c) = << b.burst, p, b.tile >> /\ c.form = b.form
  /\ \A c \in w.chain : Node(c) # Node(b)

(* validate_active_overlaps: the blocks are read back from the file.        *)
AgreesWithOverlaps(w, b) ==
  \A c \in file :
    << c.burst, c.tile >> \in w.overlaps /\ SameGeneration(b, c) =>
      /\ Node(b) # Node(c)
      /\ b.form = c.form
      /\ ~ Overlap(b.tile.owned, c.tile.owned)
      /\ SourcesAgree(b, c)

NotRepeated(b) == \A c \in Begun(b).chain : c.gen # b.gen

Reached(b) == Key(b) \notin FileKeys /\ (b.gen = 0 => CanBegin(b))

Counted(b) ==
  Reached(b) /\ IdentityHolds(b) /\ NotRepeated(b) /\ CanCount(Begun(b), b)

Accepts(b) ==
  /\ Counted(b)
  /\ JoinsChain(Begun(b), b)
  /\ AgreesWithOverlaps(Begun(b), b)
  /\ IndexAdmits(b)

WriteBlock(b) ==
  /\ Live
  /\ Accepts(b)
  /\ file' = file \cup {b}
  /\ at' = [Count(Begun(b), b) EXCEPT !.chain = @ \cup {b}]
  /\ AddToIndex(b)
  /\ digest' = IF Registered THEN [digest EXCEPT ![Key(b)] = b] ELSE digest
  /\ UNCHANGED << phase, poisoned, cap, sealed, parent >>

(* Mutant: a refused block does not poison the writer.                      *)
RefuseBlock_Forgets(b) ==
  /\ Live
  /\ at' = IF Counted(b) THEN Count(Begun(b), b) ELSE IF Reached(b) THEN Begun(b) ELSE at
  /\ UNCHANGED << phase, poisoned, file, index, cap, registry, parent >>

(* A check fails, or the file does.  The tile may have been counted by then, *)
(* and the chain closed; the writer is poisoned.                            *)
RefuseBlock(b) ==
  /\ Live
  /\ poisoned' = TRUE
  /\ at' = IF Counted(b) THEN Count(Begun(b), b) ELSE IF Reached(b) THEN Begun(b) ELSE at
  /\ UNCHANGED << phase, file, index, cap, registry, parent >>

(* copy_validated_sealed_block: read is what the parent's file holds under   *)
(* the key; a read that differs from the digest is refused with no effect.   *)
CopySealedBlock(k, read) ==
  /\ Registered
  /\ << k[1], k[2] >> \in sealed
  /\ parent[k] = digest[k]
  /\ Key(read) = k /\ read = digest[k]
  /\ WriteBlock(read)

(***************************************************************************)
(* seal_generation, finish and drop                                        *)
(***************************************************************************)

(* Mutant: a generation seals before its blocks are written.                *)
SealGeneration_Early(burst, g) ==
  /\ Live /\ Registered
  /\ sealed' = sealed \cup { << burst, g >> }
  /\ UNCHANGED << phase, poisoned, file, at, index, cap, digest, parent >>

SealGeneration(burst, g) ==
  /\ Live /\ Registered
  /\ \A k \in Keys : k[1] = burst /\ k[2] = g => digest[k] # Unwritten
  /\ sealed' = sealed \cup { << burst, g >> }
  /\ UNCHANGED << phase, poisoned, file, at, index, cap, digest, parent >>

CanFinish ==
  /\ file # {}
  /\ ChainComplete
  /\ DOMAIN at.begun = Bursts
  /\ \A burst \in Bursts : at.begun[burst].next = Len(Tiles[burst])
  /\ Registered => \A k \in Keys : digest[k] # Unwritten
  /\ IndexFinishes

Finish ==
  /\ Live
  /\ CanFinish
  /\ phase' = "complete"
  /\ levels' = << >> /\ used' = 0
  /\ UNCHANGED << poisoned, file, at, cap, registry, parent >>

(* finish refuses, or the owner drops the writer: an incomplete scratch.    *)
Abandon ==
  /\ phase = "open"
  /\ phase' = "dropped"
  /\ levels' = << >> /\ used' = 0
  /\ UNCHANGED << poisoned, file, at, cap, registry, parent >>

Next ==
  \/ \E b \in Blocks : WriteBlock(b)
  \/ \E b \in Blocks : RefuseBlock(b)
  \/ \E k \in CarriedKeys : \E read \in Blocks : CopySealedBlock(k, read)
  \/ \E burst \in Bursts, g \in Gens : SealGeneration(burst, g)
  \/ Finish
  \/ Abandon

Spec == Init /\ [][Next]_vars

(***************************************************************************)
(* Properties                                                              *)
(***************************************************************************)

TypeOK ==
  /\ phase \in {"open", "complete", "dropped"} /\ poisoned \in BOOLEAN
  /\ file \subseteq Blocks
  /\ at.chain \subseteq Blocks /\ at.active \subseteq Bursts
  /\ at.frontier \cup at.overlaps \subseteq Bursts \X AllTiles
  /\ DOMAIN at.begun \subseteq Bursts
  /\ \A burst \in DOMAIN at.begun :
       at.begun[burst].form \in Forms /\ at.begun[burst].next \in 0 .. Len(Tiles[burst])
  /\ levels \in Seq(SUBSET Blocks) /\ used \in Nat /\ cap \in DiskCaps
  /\ DOMAIN digest = IF Registered THEN Keys ELSE {}
  /\ \A k \in DOMAIN digest : digest[k] \in Blocks \cup {Unwritten}
  /\ sealed \subseteq Bursts \X Gens
  /\ parent \in [CarriedKeys -> Blocks]

(* A file marked complete holds every planned block of every burst, tile and *)
(* generation, each once: neither the chain checks, which trust that a tile   *)
(* counted is a tile written, nor finish, which compares tile counts only,    *)
(* lets a refused block pass for a written one.                              *)
CompleteFileHoldsThePlan ==
  phase = "complete" =>
    FileKeys = Keys /\ Cardinality(file) = Cardinality(Keys)

(* Any two blocks of a generation whose native grids meet saw their shared   *)
(* sources alike, although a block is compared only with the chains the      *)
(* frontier has kept.                                                       *)
SharedSourcesAgree ==
  \A b, c \in file : SameGeneration(b, c) => SourcesAgree(b, c)

(* No two blocks of a complete file own a node of the same id, although most *)
(* pairs meet only in a merge of the identity index, some only at the end.   *)
NodesUnique ==
  phase = "complete" => \A b, c \in file : b # c => Node(b) # Node(c)

(* The runs of the index list the blocks of the file and nothing else, and   *)
(* the disk it says it uses is what its runs hold, within the cap: merging    *)
(* neither loses a run nor leaks its space.                                  *)
IndexListsTheFile ==
  Live =>
    /\ UNION { levels[i] : i \in DOMAIN levels } = file
    /\ used = SizeBelow(Len(levels) + 1)
    /\ used <= cap

(* A block still to come, as an honest capture would write it.              *)
NextInOrder(b) ==
  /\ Key(b) \in Keys \ FileKeys
  /\ IF b.gen = 0
     THEN LET written == { c.tile : c \in { d \in file : d.burst = b.burst } }
          IN  /\ \A c \in file : \A g \in Gens : << c.burst, g, c.tile >> \in FileKeys
              /\ b.tile = Tiles[b.burst][Cardinality(written) + 1]
              /\ written = {} \/ b.burst \in at.active
     ELSE << b.burst, b.gen - 1, b.tile >> \in FileKeys

(* No honest capture is refused: a block that comes in plan order, agrees     *)
(* with all that was written and with its registered digest passes every      *)
(* check, given an index cap of twice the records written.                   *)
HonestBlockAccepted ==
  Live =>
    \A b \in Blocks :
      /\ NextInOrder(b)
      /\ Coherent(file \cup {b})
      /\ Registered => digest[Key(b)] \in {Unwritten, b}
      /\ 2 * SumFunction([c \in file \cup {b} |-> Size({c})]) <= cap
      => Accepts(b)

(* What a revision holds of a generation its parent sealed is what the parent *)
(* holds, whether the block was copied from it or handed in by the caller.   *)
CarriedBlocksUnchanged ==
  \A b \in file : Key(b) \in CarriedKeys => b = parent[Key(b)]

(* Once a generation is sealed the digests of its blocks never change, so a   *)
(* parent's registry and its updates' registries agree on it for ever.       *)
SealedForEver ==
  [][\A k \in DOMAIN digest : << k[1], k[2] >> \in sealed =>
       << k[1], k[2] >> \in sealed' /\ digest'[k] = digest[k]]_vars

=============================================================================
