---------------------------- MODULE FactorArtifact ----------------------------
(***************************************************************************)
(* The reference-specific factor (HDF5 bytes and the manifest that completes   *)
(* them) in the directory it is published to: the transaction of               *)
(* spatial_covariance_artifact.rs, emit, which runs it, and the temporal        *)
(* product, which reads the factor without holding its lock.                   *)
(*                                                                         *)
(* Unlike a covariance operator, a factor is never replaced: a valid pair ends  *)
(* the run, an invalid one is moved to a quarantine slot, and one that cannot   *)
(* be read is left alone.  A calibrated pair is valid for the evidence it was   *)
(* sealed with only.  An entry of the directory is the run whose bytes it       *)
(* holds.                                                                  *)
(***************************************************************************)
EXTENDS DurableDirectory, Integers

CONSTANTS
  Runs,         \* runs of emit, each with a factor of its own
  NoRun,
  Consumers,    \* runs of write_temporal_covariance_products
  Slots,        \* bound on quarantine slots (1000 in quarantine_final_artifact)
  MaxEvidence,  \* bound on changes of the calibration evidence
  MaxCrashes    \* bound on power losses

ASSUME FactorAssumption ==
  /\ NoRun \notin Runs
  /\ Slots \in Nat /\ MaxEvidence \in Nat /\ MaxCrashes \in Nat

VARIABLES
  synced,     \* runs whose HDF5 bytes are on disk
  torn,       \* runs whose HDF5 bytes a power loss has torn
  writer,     \* holder of the exclusive lock
  pc,         \* where each run is
  slot,       \* the quarantine slot a run has chosen
  sealedFor,  \* the evidence a run's factor was made for
  committed,  \* runs whose finalize returned Ok
  evidence,   \* the evidence that stands in the directory
  reader,     \* where each consumer is
  factor,     \* the factor a consumer's promotion names
  used,       \* the factors its products were computed from
  crashes

producers == << synced, torn, writer, pc, slot, sealedFor, committed >>
consumers == << reader, factor, used >>
vars == << directory, producers, consumers, evidence, crashes >>

Scratch == -1
Final == 0
Places == Scratch .. Slots
Names == {"hdf5", "manifest"} \X Places
Files == Runs \cup {NoRun}

At(kind, place) == << kind, place >>

Init ==
  /\ DirectoryInit([name \in Names |-> NoRun])
  /\ synced = {} /\ torn = {} /\ writer = NoRun
  /\ pc = [r \in Runs |-> "start"] /\ slot = [r \in Runs |-> Final]
  /\ sealedFor = [r \in Runs |-> 0]
  /\ committed = {}
  /\ evidence = 0
  /\ reader = [c \in Consumers |-> "start"]
  /\ factor = [c \in Consumers |-> NoRun]
  /\ used = [c \in Consumers |-> {}]
  /\ crashes = 0

Goto(r, step) == pc' = [pc EXCEPT ![r] = step]
Step(r, from, to) == pc[r] = from /\ Goto(r, to)
Keep == UNCHANGED << synced, torn, writer, slot, sealedFor, committed, consumers, evidence, crashes >>

(* One name gets another's entry, and the other goes. *)
Rename(from, to) ==
  Change([name \in {from, to} |-> IF name = to THEN live[from] ELSE NoRun])

Remove(name) == Change([n \in {name} |-> NoRun])

End(r, how) ==
  /\ Goto(r, how)
  /\ writer' = NoRun
  /\ UNCHANGED << directory, synced, torn, slot, sealedFor, committed, consumers, evidence, crashes >>
-------------------------------------------------------------------------------
(* read_manifest_unlocked, as inspect_final_artifact sorts its outcomes.       *)
Owner == live[At("manifest", Final)]

Present(kind) == live[At(kind, Final)] # NoRun

Verified ==
  /\ Present("manifest")
  /\ live[At("hdf5", Final)] = Owner /\ Owner \notin torn
  /\ sealedFor[Owner] = evidence

Absent == ~ Present("manifest") /\ ~ Present("hdf5")
Invalid == ~ Absent /\ ~ Verified

(* SpatialReferenceCovarianceArtifactTransaction::acquire. *)
Acquire(r) ==
  /\ Step(r, "start", "recover")
  /\ writer = NoRun
  /\ writer' = r
  /\ UNCHANGED << directory, synced, torn, slot, sealedFor, committed, consumers, evidence, crashes >>

MoveAside(r, next) ==
  /\ \E k \in 1 .. Slots :
       /\ \A j \in 1 .. k - 1 : live[At("manifest", j)] # NoRun \/ live[At("hdf5", j)] # NoRun
       /\ live[At("manifest", k)] = NoRun /\ live[At("hdf5", k)] = NoRun
       /\ slot' = [slot EXCEPT ![r] = k]
  /\ Goto(r, next)
  /\ UNCHANGED << directory, synced, torn, writer, sealedFor, committed, consumers, evidence, crashes >>

(* recover_incomplete_artifact. *)
Recover(r) ==
  /\ pc[r] = "recover"
  /\ \/ /\ Absent \/ Verified
        /\ Goto(r, "clear")
        /\ UNCHANGED directory /\ Keep
     \/ /\ Invalid
        /\ MoveAside(r, "aside_then_clear")

(* quarantine_final_artifact, the manifest first. *)
QuarantineManifest(r, from, to) ==
  /\ Step(r, from, to)
  /\ IF Present("manifest")
     THEN Rename(At("manifest", Final), At("manifest", slot[r]))
     ELSE UNCHANGED directory
  /\ Keep

QuarantineHdf5(r, from, to) ==
  /\ Step(r, from, to)
  /\ IF Present("hdf5")
     THEN Rename(At("hdf5", Final), At("hdf5", slot[r]))
     ELSE UNCHANGED directory
  /\ Keep

SyncQuarantine_Skipped(r, from, to) ==  \* mutant: the moves may not be on disk
  /\ Step(r, from, to)
  /\ UNCHANGED directory /\ Keep

SyncQuarantine(r, from, to) ==
  /\ Step(r, from, to)
  /\ SyncDirectory
  /\ Keep

Clear(r) ==
  /\ \/ /\ Step(r, "clear", "clear_manifest")
        /\ Remove(At("hdf5", Scratch))
     \/ /\ Step(r, "clear_manifest", "cleared")
        /\ Remove(At("manifest", Scratch))
  /\ Keep

SyncCleared(r) ==
  /\ Step(r, "cleared", "replay")
  /\ SyncDirectory
  /\ Keep

(* emit: the factor is computed into its scratch, for the evidence it finds.    *)
Replay(r) ==
  /\ Step(r, "replay", "seal")
  /\ Change([name \in {At("hdf5", Scratch)} |-> r])
  /\ sealedFor' = [sealedFor EXCEPT ![r] = evidence]
  /\ UNCHANGED << synced, torn, writer, slot, committed, consumers, evidence, crashes >>

(* finalize, up to inspect_final_artifact.                                   *)
Seal(r) ==
  /\ Step(r, "seal", "inspect")
  /\ live[At("hdf5", Scratch)] = r /\ sealedFor[r] = evidence
  /\ synced' = synced \cup {r}
  /\ UNCHANGED << directory, torn, writer, slot, sealedFor, committed, consumers, evidence, crashes >>

StaleEvidence(r) ==
  /\ pc[r] = "seal" /\ sealedFor[r] # evidence
  /\ End(r, "failed")

Inspect_Replacing(r) ==  \* mutant: whatever stands there makes way
  /\ pc[r] = "inspect"
  /\ \/ /\ Absent
        /\ Goto(r, "write_manifest")
        /\ UNCHANGED directory /\ Keep
     \/ /\ ~ Absent
        /\ MoveAside(r, "aside_then_write")

Inspect(r) ==
  /\ pc[r] = "inspect"
  /\ \/ /\ Absent
        /\ Goto(r, "write_manifest")
        /\ UNCHANGED directory /\ Keep
     \/ /\ Invalid
        /\ MoveAside(r, "aside_then_write")
     \/ /\ Verified
        /\ End(r, "exists")

WriteManifest(r) ==
  /\ Step(r, "write_manifest", "rename_hdf5")
  /\ Change([name \in {At("manifest", Scratch)} |-> r])
  /\ Keep

RenameHdf5(r) ==
  /\ Step(r, "rename_hdf5", "sync_hdf5")
  /\ Rename(At("hdf5", Scratch), At("hdf5", Final))
  /\ Keep

SyncHdf5(r) ==
  /\ Step(r, "sync_hdf5", "rename_manifest")
  /\ SyncDirectory
  /\ Keep

RenameManifest(r) ==
  /\ Step(r, "rename_manifest", "sync_manifest")
  /\ Rename(At("manifest", Scratch), At("manifest", Final))
  /\ Keep

SyncManifest_Skipped(r) ==  \* mutant: Ok before the rename is on disk
  /\ Step(r, "sync_manifest", "done")
  /\ committed' = committed \cup {r}
  /\ writer' = NoRun
  /\ UNCHANGED << directory, synced, torn, slot, sealedFor, consumers, evidence, crashes >>

SyncManifest(r) ==
  /\ Step(r, "sync_manifest", "done")
  /\ SyncDirectory
  /\ committed' = committed \cup {r}
  /\ writer' = NoRun
  /\ UNCHANGED << synced, torn, slot, sealedFor, consumers, evidence, crashes >>

Quarantine(r) ==
  \/ QuarantineManifest(r, "aside_then_clear", "aside_hdf5_then_clear")
  \/ QuarantineHdf5(r, "aside_hdf5_then_clear", "sync_aside_then_clear")
  \/ SyncQuarantine(r, "sync_aside_then_clear", "clear")
  \/ QuarantineManifest(r, "aside_then_write", "aside_hdf5_then_write")
  \/ QuarantineHdf5(r, "aside_hdf5_then_write", "sync_aside_then_write")
  \/ SyncQuarantine(r, "sync_aside_then_write", "write_manifest")

Produce(r) ==
  \/ Acquire(r) \/ Recover(r) \/ Quarantine(r) \/ Clear(r) \/ SyncCleared(r)
  \/ Replay(r) \/ Seal(r) \/ StaleEvidence(r) \/ Inspect(r)
  \/ WriteManifest(r) \/ RenameHdf5(r) \/ SyncHdf5(r) \/ RenameManifest(r) \/ SyncManifest(r)

Ended == {"done", "failed", "exists", "lost"}

(* The lock is taken, the pair cannot be read (Unverifiable), no quarantine     *)
(* slot is free, or the disk fails.                                          *)
Fail(r) ==
  /\ pc[r] \notin Ended
  /\ Goto(r, "failed")
  /\ writer' = IF writer = r THEN NoRun ELSE writer
  /\ UNCHANGED << directory, synced, torn, slot, sealedFor, committed, consumers, evidence, crashes >>
-------------------------------------------------------------------------------
(* The temporal product.  validate_temporal_covariance_promotion takes the       *)
(* shared lock to verify the pair and drops it before the blocks are read.      *)
Keeping == UNCHANGED << directory, producers, evidence, crashes >>

Refused(c) ==
  /\ reader' = [reader EXCEPT ![c] = "failed"]
  /\ UNCHANGED << factor, used >> /\ Keeping

Readable == writer = NoRun /\ Verified

Validate(c) ==
  /\ reader[c] = "start"
  /\ IF Readable
     THEN /\ reader' = [reader EXCEPT ![c] = "read"]
          /\ factor' = [factor EXCEPT ![c] = Owner]
          /\ UNCHANGED used /\ Keeping
     ELSE Refused(c)

(* process_factor_blocks opens the factor by its path for each block. *)
ReadBlock(c) ==
  /\ reader[c] = "read"
  /\ IF Present("hdf5")
     THEN /\ used' = [used EXCEPT ![c] = @ \cup {live[At("hdf5", Final)]}]
          /\ \E next \in {"read", "revalidate"} : reader' = [reader EXCEPT ![c] = next]
          /\ UNCHANGED factor /\ Keeping
     ELSE Refused(c)

SamePromotion_AnyFactor(c) == Readable  \* mutant: any valid factor will do
SamePromotion(c) == Readable /\ Owner = factor[c]

Revalidate(c) ==
  /\ reader[c] = "revalidate"
  /\ IF SamePromotion(c)
     THEN /\ reader' = [reader EXCEPT ![c] = "done"]
          /\ UNCHANGED << factor, used >> /\ Keeping
     ELSE Refused(c)

Consume(c) == Validate(c) \/ ReadBlock(c) \/ Revalidate(c)
-------------------------------------------------------------------------------
(* The preregistration, design, results or receipts in the directory change.    *)
ChangeEvidence ==
  /\ evidence < MaxEvidence
  /\ evidence' = evidence + 1
  /\ UNCHANGED << directory, producers, consumers, crashes >>

PowerLoss ==
  /\ crashes < MaxCrashes
  /\ crashes' = crashes + 1
  /\ Lose
  /\ \E lost \in SUBSET {r \in Runs : pc[r] = "seal"} : torn' = torn \cup lost
  /\ writer' = NoRun
  /\ pc' = [r \in Runs |-> IF pc[r] \in Ended \cup {"start"} THEN pc[r] ELSE "lost"]
  /\ reader' = [c \in Consumers |-> IF reader[c] \in {"read", "revalidate"} THEN "failed" ELSE reader[c]]
  /\ UNCHANGED << synced, slot, sealedFor, committed, factor, used, evidence >>

Finished ==
  /\ \A r \in Runs : pc[r] \in Ended
  /\ \A c \in Consumers : reader[c] \in {"done", "failed"}
  /\ UNCHANGED vars

Next ==
  \/ \E r \in Runs : Produce(r) \/ Fail(r)
  \/ \E c \in Consumers : Consume(c)
  \/ ChangeEvidence \/ PowerLoss \/ Finished

Spec == Init /\ [][Next]_vars
-------------------------------------------------------------------------------
(***************************************************************************)
(* Properties                                                              *)
(***************************************************************************)

TypeOK ==
  /\ live \in images /\ images \subseteq [Names -> Files]
  /\ synced \subseteq Runs /\ torn \subseteq Runs \ synced
  /\ writer \in Files
  /\ \A r \in Runs : pc[r] \notin Ended \cup {"start"} <=> writer = r
  /\ slot \in [Runs -> Final .. Slots]
  /\ sealedFor \in [Runs -> 0 .. MaxEvidence] /\ evidence \in 0 .. MaxEvidence
  /\ committed \subseteq synced
  /\ reader \in [Consumers -> {"start", "read", "revalidate", "done", "failed"}]
  /\ factor \in [Consumers -> Files] /\ used \in [Consumers -> SUBSET Files]
  /\ crashes \in 0 .. MaxCrashes

(* In no directory a process or a power loss can leave does a manifest stand     *)
(* next to another run's bytes, although old pairs are moved away and new ones   *)
(* put in their place name by name (quarantine_final_artifact,                  *)
(* finalize_spatial_reference_covariance_artifact).                            *)
PairNeverMixed ==
  \A dir \in images :
    dir[At("manifest", Final)] # NoRun =>
      dir[At("hdf5", Final)] \in {dir[At("manifest", Final)], NoRun}

(* The bytes and the manifest of a factor that was ever committed are never      *)
(* destroyed: they stand where they were committed, or in a quarantine slot.     *)
CommittedKept ==
  \A r \in committed, dir \in images, kind \in {"hdf5", "manifest"} :
    \E place \in Final .. Slots : dir[At(kind, place)] = r

(* "valid_pair_is_immutable": no run moves, replaces or hides a committed pair     *)
(* while it is valid, whether or not the pair can be read at the moment.          *)
ValidPairIsImmutable ==
  [][\A r \in committed :
       Verified /\ Owner = r =>
         live'[At("manifest", Final)] = r /\ live'[At("hdf5", Final)] = r]_vars

(* A temporal product is published from one factor only, the one its promotion    *)
(* names, although its blocks are read without the factor's lock                 *)
(* (write_product_transaction_with_validator's revalidate).                     *)
ProductOfOneFactor ==
  \A c \in Consumers : reader[c] = "done" => used[c] = {factor[c]}
===============================================================================
