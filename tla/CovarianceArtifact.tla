-------------------------- MODULE CovarianceArtifact --------------------------
(***************************************************************************)
(* The transaction that publishes a covariance operator (HDF5 bytes and the   *)
(* JSON manifest that is its only completion marker), and the production      *)
(* replay that then reads it back tile group by tile group to emit a factor   *)
(* artifact: covariance_artifact.rs, CovarianceCaptureArtifact in             *)
(* displacement.rs, emit in spatial_reference_covariance_output.rs.           *)
(*                                                                         *)
(* Several runs share one work directory.  A run may fail at any step, a       *)
(* power loss may stop all of them, and a later run starts from what is left.  *)
(* An entry of the directory is the run whose bytes it holds.                 *)
(***************************************************************************)
EXTENDS DurableDirectory, Naturals

CONSTANTS
  Runs,        \* displacement processes, each capturing bytes of its own
  NoRun,       \* no such process, no such file
  TileGroups,  \* groups of factor blocks emit opens a provider for
  MaxCrashes   \* bound on power losses

ASSUME ArtifactAssumption ==
  /\ NoRun \notin Runs
  /\ TileGroups \in Nat /\ MaxCrashes \in Nat

VARIABLES
  bytes,      \* bytes[r]: how far r's HDF5 bytes have got
  marker,     \* marker[r]: how far r's manifest bytes have got
  writer,     \* holder of the exclusive lock
  readers,    \* holders of the shared lock
  pc,         \* where each run is
  why,        \* why a run gave up
  committed,  \* runs whose finalize_covariance_artifact returned Ok
  seen,       \* the marker a run has read and not yet verified
  replayed,   \* whose operator blocks a run has replayed
  groups,     \* tile groups a run has replayed
  crashes

process == << pc, why, seen, replayed, groups >>
locks   == << writer, readers >>
data    == << bytes, marker >>
vars    == << directory, data, locks, process, committed, crashes >>

Names == {"hdf5", "manifest", "hdf5_scratch", "manifest_scratch"}
Files == Runs \cup {NoRun}
Directories == [Names -> Files]
Progress == {"none", "dirty", "synced", "torn"}

CaptureSteps ==
  {"recover", "create", "seal", "sync_scratch", "write_manifest", "sync_written",
   "remove_marker", "sync_removed", "rename_hdf5", "sync_hdf5", "rename_manifest",
   "sync_manifest"}
ReplaySteps ==
  {"check_before", "verify_before", "open", "replay", "check_after", "verify_after", "emit"}
Ended == {"done", "failed", "lost"}
Running == CaptureSteps \cup ReplaySteps

Init ==
  /\ DirectoryInit([name \in Names |-> NoRun])
  /\ bytes = [r \in Runs |-> "none"] /\ marker = [r \in Runs |-> "none"]
  /\ writer = NoRun /\ readers = {}
  /\ pc = [r \in Runs |-> "start"] /\ why = [r \in Runs |-> "none"]
  /\ committed = {}
  /\ seen = [r \in Runs |-> NoRun]
  /\ replayed = [r \in Runs |-> {}]
  /\ groups = [r \in Runs |-> 0]
  /\ crashes = 0

Goto(r, step) == pc' = [pc EXCEPT ![r] = step]
Step(r, from, to) == pc[r] = from /\ Goto(r, to)

(* Dropping a run's guards releases its locks.                              *)
Unlock(r) ==
  /\ writer' = IF writer = r THEN NoRun ELSE writer
  /\ readers' = readers \ {r}

GiveUp(r, reason) ==
  /\ Goto(r, "failed")
  /\ why' = [why EXCEPT ![r] = reason]
  /\ Unlock(r)
  /\ UNCHANGED << directory, data, seen, replayed, groups, committed, crashes >>

(***************************************************************************)
(* Capture: CovarianceCaptureArtifact::create and finish,                    *)
(* finalize_covariance_artifact                                             *)
(***************************************************************************)

(* CovarianceArtifactTransaction::acquire, flock LOCK_EX | LOCK_NB.           *)
LockFree_Always == TRUE               \* mutant: the lock is not taken
LockFree_Shared == writer = NoRun     \* mutant: readers do not count
LockFree == writer = NoRun /\ readers = {}

Acquire(r) ==
  /\ Step(r, "start", "recover")
  /\ LockFree
  /\ writer' = r
  /\ UNCHANGED << directory, data, readers, why, seen, replayed, groups, committed, crashes >>

AcquireBusy(r) ==
  /\ pc[r] = "start"
  /\ ~ LockFree
  /\ GiveUp(r, "busy")

(* recover_incomplete_covariance_operator. *)
RecoverScratch(r) ==
  /\ Step(r, "recover", "create")
  /\ IF live["hdf5_scratch"] = NoRun
     THEN UNCHANGED directory
     ELSE Change([name \in {"hdf5_scratch"} |-> NoRun])
  /\ UNCHANGED << data, locks, why, seen, replayed, groups, committed, crashes >>

(* CovarianceOperatorWriter::create_with_identity_index_disk_cap. *)
CreateScratch(r) ==
  /\ Step(r, "create", "seal")
  /\ Change([name \in {"hdf5_scratch"} |-> r])
  /\ bytes' = [bytes EXCEPT ![r] = "dirty"]
  /\ UNCHANGED << marker, locks, why, seen, replayed, groups, committed, crashes >>

(* CovarianceOperatorWriter::finish: the receipt names the bytes written.     *)
Seal(r) ==
  /\ Step(r, "seal", "sync_scratch")
  /\ UNCHANGED << directory, data, locks, why, seen, replayed, groups, committed, crashes >>

ScratchIsSealed(r) == live["hdf5_scratch"] = r

SyncScratch(r) ==
  /\ Step(r, "sync_scratch", "write_manifest")
  /\ ScratchIsSealed(r)
  /\ bytes' = [bytes EXCEPT ![r] = "synced"]
  /\ UNCHANGED << directory, marker, locks, why, seen, replayed, groups, committed, crashes >>

(* "covariance HDF5 changed after the writer sealed it". *)
ScratchChanged(r) ==
  /\ pc[r] = "sync_scratch"
  /\ ~ ScratchIsSealed(r)
  /\ GiveUp(r, "changed")

VerifyScratch(r) == IF ScratchIsSealed(r) THEN SyncScratch(r) ELSE ScratchChanged(r)

(* write_synced on the manifest's scratch name, which a failed run may have    *)
(* left behind: File::create truncates it.                                  *)
WriteManifest(r) ==
  /\ Step(r, "write_manifest", "sync_written")
  /\ Change([name \in {"manifest_scratch"} |-> r])
  /\ marker' = [marker EXCEPT ![r] = "dirty"]
  /\ UNCHANGED << bytes, locks, why, seen, replayed, groups, committed, crashes >>

SyncWritten(r) ==
  /\ Step(r, "sync_written", "remove_marker")
  /\ marker' = [marker EXCEPT ![r] = "synced"]
  /\ UNCHANGED << directory, bytes, locks, why, seen, replayed, groups, committed, crashes >>

RemoveMarker_Kept(r) ==  \* mutant: the old marker outlives the bytes it names
  /\ Step(r, "remove_marker", "sync_removed")
  /\ UNCHANGED << directory, data, locks, why, seen, replayed, groups, committed, crashes >>

(* An old marker must not name bytes while the fixed HDF5 path is replaced.   *)
RemoveMarker(r) ==
  /\ Step(r, "remove_marker", "sync_removed")
  /\ IF live["manifest"] = NoRun
     THEN UNCHANGED directory
     ELSE Change([name \in {"manifest"} |-> NoRun])
  /\ UNCHANGED << data, locks, why, seen, replayed, groups, committed, crashes >>

SyncRemoved(r) ==
  /\ Step(r, "sync_removed", "rename_hdf5")
  /\ SyncDirectory
  /\ UNCHANGED << data, locks, why, seen, replayed, groups, committed, crashes >>

RenameHdf5(r) ==
  /\ Step(r, "rename_hdf5", "sync_hdf5")
  /\ Change([name \in {"hdf5", "hdf5_scratch"} |->
               IF name = "hdf5" THEN live["hdf5_scratch"] ELSE NoRun])
  /\ UNCHANGED << data, locks, why, seen, replayed, groups, committed, crashes >>

SyncHdf5(r) ==
  /\ Step(r, "sync_hdf5", "rename_manifest")
  /\ SyncDirectory
  /\ UNCHANGED << data, locks, why, seen, replayed, groups, committed, crashes >>

RenameManifest(r) ==
  /\ Step(r, "rename_manifest", "sync_manifest")
  /\ Change([name \in {"manifest", "manifest_scratch"} |->
               IF name = "manifest" THEN live["manifest_scratch"] ELSE NoRun])
  /\ UNCHANGED << data, locks, why, seen, replayed, groups, committed, crashes >>

SyncManifest_Skipped(r) ==  \* mutant: Ok is returned before the rename is on disk
  /\ Step(r, "sync_manifest", "check_before")
  /\ committed' = committed \cup {r}
  /\ Unlock(r)
  /\ UNCHANGED << directory, data, why, seen, replayed, groups, crashes >>

(* The last sync, Ok(manifest), and the transaction dropped with the capture. *)
SyncManifest(r) ==
  /\ Step(r, "sync_manifest", "check_before")
  /\ SyncDirectory
  /\ committed' = committed \cup {r}
  /\ Unlock(r)
  /\ UNCHANGED << data, why, seen, replayed, groups, crashes >>

Capture(r) ==
  \/ Acquire(r) \/ AcquireBusy(r)
  \/ RecoverScratch(r) \/ CreateScratch(r) \/ Seal(r)
  \/ VerifyScratch(r)
  \/ WriteManifest(r) \/ SyncWritten(r) \/ RemoveMarker(r) \/ SyncRemoved(r)
  \/ RenameHdf5(r) \/ SyncHdf5(r) \/ RenameManifest(r) \/ SyncManifest(r)

(***************************************************************************)
(* Production replay: emit                                                  *)
(***************************************************************************)

(* read_covariance_artifact_manifest_with_byte_cap, which emit calls without   *)
(* a lock: the marker is parsed first, the bytes hashed later.                *)
MarkerReadable == live["manifest"] # NoRun /\ marker[live["manifest"]] # "torn"

ReadMarker(r, from, to) ==
  /\ Step(r, from, to)
  /\ MarkerReadable
  /\ seen' = [seen EXCEPT ![r] = live["manifest"]]
  /\ UNCHANGED << directory, data, locks, why, replayed, groups, committed, crashes >>

NoMarker(r, from) ==
  /\ pc[r] = from
  /\ ~ MarkerReadable
  /\ GiveUp(r, "replaced")

(* The file at the operator's path has the digest a marker gives.            *)
Verified(owner) == live["hdf5"] = owner /\ bytes[owner] # "torn"

(* The operator is the one this run committed. *)
SameOperator(r) == seen[r] = r /\ Verified(seen[r])

VerifyBytes(r, from, to) ==
  /\ Step(r, from, to)
  /\ SameOperator(r)
  /\ seen' = [seen EXCEPT ![r] = NoRun]
  /\ UNCHANGED << directory, data, locks, why, replayed, groups, committed, crashes >>

OperatorChanged(r, from) ==
  /\ pc[r] = from
  /\ ~ SameOperator(r)
  /\ GiveUp(r, "replaced")

(* ProductionProviderBundle::open: each provider takes the shared lock and     *)
(* verifies whichever operator it finds, not the one the run committed.       *)
Openable == writer = NoRun /\ MarkerReadable /\ Verified(live["manifest"])

OpenProvider_Unlocked(r) ==  \* mutant: the lock is dropped once the marker is verified
  /\ Step(r, "open", "replay")
  /\ Openable
  /\ seen' = [seen EXCEPT ![r] = live["manifest"]]
  /\ UNCHANGED << directory, data, locks, why, replayed, groups, committed, crashes >>

OpenProvider(r) ==
  /\ Step(r, "open", "replay")
  /\ Openable
  /\ readers' = readers \cup {r}
  /\ seen' = [seen EXCEPT ![r] = live["manifest"]]
  /\ UNCHANGED << directory, data, writer, why, replayed, groups, committed, crashes >>

OpenRefused_Waits(r) ==  \* mutant: waits for a stable operator instead of giving up
  /\ pc[r] = "open"
  /\ ~ Openable
  /\ UNCHANGED vars

OpenRefused(r) ==
  /\ pc[r] = "open"
  /\ ~ Openable
  /\ GiveUp(r, "replaced")

(* Blocks are read from the operator's path while the provider is open.       *)
ReplayGroup(r) ==
  /\ pc[r] = "replay"
  /\ replayed' = [replayed EXCEPT ![r] = @ \cup {live["hdf5"]}]
  /\ groups' = [groups EXCEPT ![r] = @ + 1]
  /\ Goto(r, IF groups[r] + 1 < TileGroups THEN "open" ELSE "check_after")
  /\ readers' = readers \ {r}
  /\ seen' = [seen EXCEPT ![r] = NoRun]
  /\ UNCHANGED << directory, data, writer, why, committed, crashes >>

(* finalize_spatial_reference_covariance_artifact. *)
Emit(r) ==
  /\ Step(r, "emit", "done")
  /\ UNCHANGED << directory, data, locks, why, seen, replayed, groups, committed, crashes >>

CheckAfter_Skipped(r) ==  \* mutant: the factor is committed unchecked
  /\ Step(r, "check_after", "emit")
  /\ UNCHANGED << directory, data, locks, why, seen, replayed, groups, committed, crashes >>

CheckAfter(r) == ReadMarker(r, "check_after", "verify_after") \/ NoMarker(r, "check_after")

Replay(r) ==
  \/ ReadMarker(r, "check_before", "verify_before") \/ NoMarker(r, "check_before")
  \/ VerifyBytes(r, "verify_before", "open") \/ OperatorChanged(r, "verify_before")
  \/ OpenProvider(r) \/ OpenRefused(r) \/ ReplayGroup(r)
  \/ CheckAfter(r)
  \/ VerifyBytes(r, "verify_after", "emit") \/ OperatorChanged(r, "verify_after")
  \/ Emit(r)

(***************************************************************************)
(* Failures                                                                *)
(***************************************************************************)

(* The call a run is about to make returns an error, or the run is killed.    *)
Fail(r) ==
  /\ pc[r] \in Running
  /\ GiveUp(r, "io")

(* Power loss: locks and runs are gone, the directory is one of its images,    *)
(* and bytes that were never synced may be torn.                            *)
Crash ==
  /\ crashes < MaxCrashes
  /\ crashes' = crashes + 1
  /\ Lose
  /\ \E torn \in SUBSET {r \in Runs : bytes[r] = "dirty"} :
       bytes' = [r \in Runs |-> IF r \in torn THEN "torn" ELSE bytes[r]]
  /\ \E torn \in SUBSET {r \in Runs : marker[r] = "dirty"} :
       marker' = [r \in Runs |-> IF r \in torn THEN "torn" ELSE marker[r]]
  /\ writer' = NoRun /\ readers' = {}
  /\ pc' = [r \in Runs |-> IF pc[r] \in Running THEN "lost" ELSE pc[r]]
  /\ UNCHANGED << why, seen, replayed, groups, committed >>

(* Every run has ended. *)
Finished ==
  /\ \A r \in Runs : pc[r] \in Ended
  /\ UNCHANGED vars

Next ==
  \/ \E r \in Runs : Capture(r) \/ Replay(r) \/ Fail(r)
  \/ Crash
  \/ Finished

Spec == Init /\ [][Next]_vars
FairSpec == Spec /\ \A r \in Runs : WF_vars(Capture(r) \/ Replay(r))

-------------------------------------------------------------------------------
(***************************************************************************)
(* Properties                                                              *)
(***************************************************************************)

TypeOK ==
  /\ live \in Directories /\ images \subseteq Directories
  /\ bytes \in [Runs -> Progress] /\ marker \in [Runs -> Progress]
  /\ live \in images
  /\ writer \in Files /\ readers \subseteq Runs
  /\ writer # NoRun => readers = {}
  /\ pc \in [Runs -> {"start"} \cup Running \cup Ended]
  /\ why \in [Runs -> {"none", "busy", "changed", "replaced", "io"}]
  /\ committed \subseteq Runs
  /\ seen \in [Runs -> Files]
  /\ replayed \in [Runs -> SUBSET Files]
  /\ groups \in [Runs -> Nat]
  /\ crashes \in Nat

(* In no directory a process or a power loss can leave does a completion       *)
(* marker stand next to other bytes than the ones it names, or next to bytes    *)
(* that are not on disk (finalize_covariance_artifact's order of removals,      *)
(* renames and syncs).                                                     *)
MarkerNamesItsBytes ==
  \A dir \in images :
    dir["manifest"] # NoRun =>
      /\ dir["hdf5"] = dir["manifest"]
      /\ bytes[dir["manifest"]] = "synced"
      /\ marker[dir["manifest"]] = "synced"

(* No capture is refused because its own sealed scratch has changed: while it   *)
(* holds the exclusive lock, no other run recovers or writes that name          *)
(* (CovarianceArtifactTransaction).                                         *)
ScratchIsPrivate == \A r \in Runs : why[r] # "changed"

(* The marker of a capture that returned Ok goes only when a later capture      *)
(* removes it: neither a failure nor a power loss undoes a commit               *)
(* (finalize_covariance_artifact's last sync).                               *)
CommitsSurvive ==
  [][\A r \in committed :
       live["manifest"] = r /\ live'["manifest"] # r =>
         \E q \in Runs : pc[q] = "remove_marker" /\ pc'[q] = "sync_removed"]_vars

(* While a provider is open the operator it verified stays in place: marker and *)
(* bytes are those it opened (the shared lock CovarianceArtifactReplayProvider   *)
(* keeps).                                                                 *)
ReplayIsStable ==
  \A r \in Runs :
    pc[r] = "replay" => live["hdf5"] = seen[r] /\ live["manifest"] = seen[r]

(* A factor artifact is emitted only if every block it was replayed from came   *)
(* from the operator the run itself captured, although the lock is dropped       *)
(* between tile groups and a provider accepts any valid operator (emit's two     *)
(* checks).                                                                *)
FactorFromOwnOperator ==
  \A r \in Runs : pc[r] \in {"emit", "done"} => replayed[r] \subseteq {r}

(* A failed transaction leaves no new completion marker.                      *)
FailedLeavesNoMarker ==
  \A r \in Runs : pc[r] = "failed" /\ r \notin committed => live["manifest"] # r

(* Every run that starts ends: no step waits for another run's lock            *)
(* (LOCK_NB), so no two runs can wait for each other.                         *)
RunsEnd == \A r \in Runs : pc[r] \in Running ~> pc[r] \in Ended
===============================================================================
