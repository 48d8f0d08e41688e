----------------------- MODULE CovarianceArtifactProofs -----------------------
(***************************************************************************)
(* Proofs about CovarianceArtifact, for any number of runs, tile groups and   *)
(* power losses.                                                           *)
(***************************************************************************)
EXTENDS CovarianceArtifact, TLAPS

(***************************************************************************)
(* The inductive invariant                                                 *)
(***************************************************************************)

(* The exclusive lock is held exactly during a capture, the shared one exactly *)
(* while a provider is open.                                               *)
Locking ==
  /\ \A r \in Runs : pc[r] \in CaptureSteps <=> writer = r
  /\ \A r \in Runs : pc[r] = "replay" <=> r \in readers

(* What a capture has on disk at each of its steps.                           *)
HasScratch == {"seal", "sync_scratch", "write_manifest", "sync_written", "remove_marker",
               "sync_removed", "rename_hdf5"}
HasSyncedBytes == {"write_manifest", "sync_written", "remove_marker", "sync_removed",
                   "rename_hdf5", "sync_hdf5", "rename_manifest"}
HasManifest == {"sync_written", "remove_marker", "sync_removed", "rename_hdf5",
                "sync_hdf5", "rename_manifest"}
HasSyncedManifest == HasManifest \ {"sync_written"}
NoMarkerAnywhere == {"rename_hdf5", "sync_hdf5", "rename_manifest"}

Scratch ==
  \A r \in Runs :
    /\ pc[r] \in HasScratch => live["hdf5_scratch"] = r
    /\ pc[r] \in HasManifest => live["manifest_scratch"] = r
    /\ pc[r] \in HasSyncedBytes => bytes[r] = "synced"
    /\ pc[r] \in HasSyncedManifest => marker[r] = "synced"

(* Runs that have not written yet are named by no marker.                     *)
Fresh ==
  \A r \in Runs :
    /\ pc[r] \in {"start", "recover", "create"} => bytes[r] = "none"
    /\ pc[r] \in {"start", "recover", "create", "seal", "sync_scratch", "write_manifest"}
         => marker[r] = "none"

(* The two syncs before the marker's rename leave no image in which the old     *)
(* marker, or the old bytes, are still there.                                *)
Ordered ==
  \A r \in Runs :
    /\ pc[r] = "sync_removed" => live["manifest"] = NoRun
    /\ pc[r] \in NoMarkerAnywhere => \A dir \in images : dir["manifest"] = NoRun
    /\ pc[r] = "sync_hdf5" => live["hdf5"] = r
    /\ pc[r] = "rename_manifest" => \A dir \in images : dir["hdf5"] = r

CommitInv == TypeOK /\ Locking /\ Scratch /\ Fresh /\ Ordered /\ MarkerNamesItsBytes

LEMMA InitCommitInv ==
  Init => CommitInv
<1>. SUFFICES ASSUME Init PROVE CommitInv
  OBVIOUS
<1>. USE ArtifactAssumption DEF Init, DirectoryInit
<1>1. TypeOK
  BY DEF TypeOK, Directories, Files, Names, Progress, Running, Ended
<1>2. Locking /\ Scratch /\ Fresh /\ Ordered
  BY DEF Locking, Scratch, Fresh, Ordered, CaptureSteps, HasScratch, HasManifest,
         HasSyncedBytes, HasSyncedManifest, NoMarkerAnywhere
<1>3. MarkerNamesItsBytes
  BY DEF MarkerNamesItsBytes, Names
<1>4. QED
  BY <1>1, <1>2, <1>3 DEF CommitInv

(* An update keeps directories directories, and the live one among the images. *)
LEMMA ChangeShape ==
  ASSUME NEW changes, DOMAIN changes \subseteq Names,
         \A name \in DOMAIN changes : changes[name] \in Files,
         live \in Directories, images \subseteq Directories, live \in images,
         Change(changes)
  PROVE  /\ live' \in Directories /\ images' \subseteq Directories /\ live' \in images'
         /\ \A name \in Names :
              live'[name] = IF name \in DOMAIN changes THEN changes[name] ELSE live[name]
         /\ \A dir \in images' : dir \in images \/ \E old \in images : \A name \in Names :
              dir[name] = IF name \in DOMAIN changes THEN changes[name] ELSE old[name]
<1>1. \A dir \in Directories :
        /\ Updated(dir, changes) \in Directories
        /\ \A name \in Names : Updated(dir, changes)[name]
             = IF name \in DOMAIN changes THEN changes[name] ELSE dir[name]
  BY DEF Updated, Directories
<1>2. live' = Updated(live, changes)
      /\ images' = images \cup {Updated(dir, changes) : dir \in images}
  BY DEF Change
<1>3. QED
  BY <1>1, <1>2

(* Leaving the capture or the replay, for whatever reason.                   *)
LEMMA GiveUpStep ==
  ASSUME CommitInv, NEW r \in Runs, NEW reason \in {"busy", "changed", "replaced", "io"},
         pc[r] \in {"start"} \cup Running, GiveUp(r, reason)
  PROVE  CommitInv'
<1>. USE ArtifactAssumption DEF CommitInv
<1>1. /\ pc' = [pc EXCEPT ![r] = "failed"] /\ why' = [why EXCEPT ![r] = reason]
      /\ writer' = (IF writer = r THEN NoRun ELSE writer) /\ readers' = readers \ {r}
      /\ UNCHANGED << live, images, bytes, marker, seen, replayed, groups, committed, crashes >>
  BY DEF GiveUp, Goto, Unlock, directory, data
<1>2. TypeOK'
  BY <1>1 DEF TypeOK, Files, Ended
<1>3. \A q \in Runs : pc'[q] = IF q = r THEN "failed" ELSE pc[q]
  BY <1>1 DEF TypeOK
<1>4. Locking'
  BY <1>1, <1>3 DEF Locking, CaptureSteps
<1>5. Scratch'
  BY <1>1, <1>3 DEF Scratch, HasScratch, HasManifest, HasSyncedBytes, HasSyncedManifest
<1>6. Fresh'
  BY <1>1, <1>3 DEF Fresh
<1>7. Ordered'
  BY <1>1, <1>3 DEF Ordered, NoMarkerAnywhere
<1>8. MarkerNamesItsBytes'
  BY <1>1 DEF MarkerNamesItsBytes
<1>9. QED
  BY <1>2, <1>4, <1>5, <1>6, <1>7, <1>8

(* A step of a run that is not capturing moves nothing on disk.               *)
LEMMA ReplayStep ==
  ASSUME CommitInv, NEW r \in Runs,
         UNCHANGED << live, images, bytes, marker, writer >>,
         NEW step \in (ReplaySteps \cup {"done"}), pc[r] \in ReplaySteps,
         pc' = [pc EXCEPT ![r] = step],
         readers' = (IF step = "replay" THEN readers \cup {r} ELSE readers \ {r}),
         step = "replay" => writer = NoRun,
         TypeOK'
  PROVE  CommitInv'
<1>. USE ArtifactAssumption DEF CommitInv
<1>1. \A q \in Runs : pc'[q] = IF q = r THEN step ELSE pc[q]
  BY DEF TypeOK
<1>2. Locking'
  BY <1>1 DEF Locking, CaptureSteps, ReplaySteps
<1>3. Scratch'
  BY <1>1 DEF Scratch, HasScratch, HasManifest, HasSyncedBytes, HasSyncedManifest, ReplaySteps
<1>4. Fresh'
  BY <1>1 DEF Fresh, ReplaySteps
<1>5. Ordered'
  BY <1>1 DEF Ordered, NoMarkerAnywhere, ReplaySteps
<1>6. MarkerNamesItsBytes'
  BY DEF MarkerNamesItsBytes
<1>7. QED
  BY <1>2, <1>3, <1>4, <1>5, <1>6

LEMMA ReplayActions ==
  ASSUME CommitInv, NEW r \in Runs, Replay(r)
  PROVE  CommitInv'
<1>. USE ArtifactAssumption
<1>1. ASSUME NEW from \in ReplaySteps, NEW to \in ReplaySteps \ {"replay"}, from # "replay",
             ReadMarker(r, from, to) \/ VerifyBytes(r, from, to)
      PROVE  CommitInv'
  <2>1. /\ pc[r] = from /\ pc' = [pc EXCEPT ![r] = to]
        /\ seen' \in [Runs -> Files]
        /\ UNCHANGED << live, images, bytes, marker, writer, readers, why, replayed, groups,
                         committed, crashes >>
    BY <1>1 DEF ReadMarker, VerifyBytes, Step, Goto, directory, data, locks, CommitInv, TypeOK,
                Directories, Names, Files
  <2>2. TypeOK'
    BY <2>1 DEF CommitInv, TypeOK, Running
  <2>3. readers' = readers \ {r}
    BY <1>1, <2>1 DEF CommitInv, Locking
  <2>4. QED
    BY <2>1, <2>2, <2>3, ReplayStep
<1>2. ASSUME NEW from \in ReplaySteps, NoMarker(r, from) \/ OperatorChanged(r, from)
      PROVE  CommitInv'
  BY <1>2, GiveUpStep DEF NoMarker, OperatorChanged, Running
<1>3. CASE OpenProvider(r)
  <2>1. /\ pc[r] = "open" /\ pc' = [pc EXCEPT ![r] = "replay"] /\ writer = NoRun
        /\ seen' = [seen EXCEPT ![r] = live["manifest"]] /\ readers' = readers \cup {r}
        /\ UNCHANGED << live, images, bytes, marker, writer, why, replayed, groups,
                         committed, crashes >>
    BY <1>3 DEF OpenProvider, Openable, Step, Goto, directory, data
  <2>2. live["manifest"] \in Files
    BY DEF CommitInv, TypeOK, Directories, Names
  <2>3. TypeOK'
    BY <2>1, <2>2 DEF CommitInv, TypeOK, Running, ReplaySteps
  <2>4. QED
    BY <2>1, <2>3, ReplayStep DEF ReplaySteps
<1>4. CASE OpenRefused(r)
  BY <1>4, GiveUpStep DEF OpenRefused, Running, ReplaySteps
<1>5. CASE ReplayGroup(r)
  <2>. DEFINE next == IF groups[r] + 1 < TileGroups THEN "open" ELSE "check_after"
  <2>1. /\ pc[r] = "replay" /\ pc' = [pc EXCEPT ![r] = next]
        /\ seen' = [seen EXCEPT ![r] = NoRun] /\ readers' = readers \ {r}
        /\ replayed' = [replayed EXCEPT ![r] = @ \cup {live["hdf5"]}]
        /\ groups' = [groups EXCEPT ![r] = @ + 1]
        /\ UNCHANGED << live, images, bytes, marker, writer, why, committed, crashes >>
    BY <1>5 DEF ReplayGroup, Goto, directory, data
  <2>2. next \in {"open", "check_after"}
    OBVIOUS
  <2>. HIDE DEF next
  <2>3. live["hdf5"] \in Files
    BY DEF CommitInv, TypeOK, Directories, Names
  <2>4. TypeOK'
    BY <2>1, <2>2, <2>3 DEF CommitInv, TypeOK, Running, ReplaySteps, Files
  <2>5. QED
    BY <2>1, <2>2, <2>4, ReplayStep DEF ReplaySteps
<1>6. CASE Emit(r)
  <2>1. /\ pc[r] = "emit" /\ pc' = [pc EXCEPT ![r] = "done"]
        /\ UNCHANGED << live, images, bytes, marker, writer, readers, why, seen, replayed, groups,
                         committed, crashes >>
    BY <1>6 DEF Emit, Step, Goto, directory, data, locks
  <2>2. TypeOK'
    BY <2>1 DEF CommitInv, TypeOK, Ended
  <2>3. readers' = readers \ {r}
    BY <2>1 DEF CommitInv, Locking
  <2>4. QED
    BY <2>1, <2>2, <2>3, ReplayStep DEF ReplaySteps
<1>7. QED
  BY <1>1, <1>2, <1>3, <1>4, <1>5, <1>6 DEF Replay, CheckAfter, ReplaySteps

(* Steps of the capture.  The run holds the exclusive lock, so no other run is  *)
(* capturing or replaying.                                                  *)
LEMMA Alone ==
  ASSUME Locking, TypeOK, NEW r \in Runs, pc[r] \in CaptureSteps
  PROVE  /\ writer = r /\ readers = {}
         /\ \A q \in Runs \ {r} : pc[q] \notin CaptureSteps /\ pc[q] # "replay"
BY ArtifactAssumption DEF Locking, TypeOK

(* A capturing run moves on to its next capture step.                         *)
LEMMA CaptureLocking ==
  ASSUME Locking, TypeOK, NEW r \in Runs, pc[r] \in CaptureSteps,
         NEW step \in CaptureSteps, pc' = [pc EXCEPT ![r] = step], UNCHANGED locks
  PROVE  /\ Locking'
         /\ \A q \in Runs : pc'[q] = IF q = r THEN step ELSE pc[q]
         /\ \A q \in Runs \ {r} : pc[q] \notin CaptureSteps
BY Alone DEF Locking, TypeOK, locks, CaptureSteps

(* Recovery touches only the scratch name. *)
LEMMA RecoverScratchStep ==
  ASSUME CommitInv, NEW r \in Runs, RecoverScratch(r)
  PROVE  CommitInv'
<1>. USE ArtifactAssumption DEF CommitInv
<1>1. /\ pc[r] = "recover" /\ pc' = [pc EXCEPT ![r] = "create"]
      /\ IF live["hdf5_scratch"] = NoRun THEN UNCHANGED directory
         ELSE Change([name \in {"hdf5_scratch"} |-> NoRun])
      /\ UNCHANGED << bytes, marker, writer, readers, why, seen, replayed, groups, committed, crashes >>
  BY DEF RecoverScratch, Step, Goto, data, locks
<1>2. /\ Locking'
      /\ \A q \in Runs : pc'[q] = IF q = r THEN "create" ELSE pc[q]
      /\ \A q \in Runs \ {r} : pc[q] \notin CaptureSteps
  BY <1>1, CaptureLocking DEF CaptureSteps, locks
<1>3. /\ live' \in Directories /\ images' \subseteq Directories /\ live' \in images'
      /\ live'["hdf5"] = live["hdf5"]
      /\ live'["manifest"] = live["manifest"]
      /\ live'["hdf5_scratch"] = NoRun
      /\ live'["manifest_scratch"] = live["manifest_scratch"]
      /\ \A dir \in images' : dir \in images \/ \E old \in images :
           /\ dir["hdf5"] = old["hdf5"]
           /\ dir["manifest"] = old["manifest"]
           /\ dir["hdf5_scratch"] = NoRun
           /\ dir["manifest_scratch"] = old["manifest_scratch"]
  <2>1. CASE live["hdf5_scratch"] = NoRun
    BY <1>1, <2>1 DEF TypeOK, directory
  <2>2. CASE live["hdf5_scratch"] # NoRun
    <3>. DEFINE changes == [name \in {"hdf5_scratch"} |-> NoRun]
    <3>1. DOMAIN changes \subseteq Names /\ \A n \in DOMAIN changes : changes[n] \in Files
      BY DEF Names, Files
    <3>2. Change(changes)
      BY <1>1, <2>2
    <3>3. QED
      BY <3>1, <3>2, ChangeShape DEF TypeOK, Names
  <2>3. QED
    BY <2>1, <2>2
<1>4. TypeOK'
  BY <1>1, <1>2, <1>3 DEF TypeOK, Running, CaptureSteps, Progress
<1>5. Scratch'
  BY <1>1, <1>2, <1>3 DEF Scratch, TypeOK, HasScratch, HasManifest,
     HasSyncedBytes, HasSyncedManifest, CaptureSteps
<1>6. Fresh'
  BY <1>1, <1>2 DEF Fresh, TypeOK, CaptureSteps
<1>7. Ordered'
  BY <1>1, <1>2, <1>3 DEF Ordered, Scratch, TypeOK, NoMarkerAnywhere,
     HasScratch, HasManifest,
     HasSyncedBytes, HasSyncedManifest, CaptureSteps
<1>8. MarkerNamesItsBytes'
  BY <1>1, <1>2, <1>3 DEF MarkerNamesItsBytes, Ordered, Scratch, Fresh, TypeOK, Directories,
                          NoMarkerAnywhere, Names, Files, HasScratch, HasManifest,
     HasSyncedBytes, HasSyncedManifest, CaptureSteps
<1>9. QED
  BY <1>2, <1>4, <1>5, <1>6, <1>7, <1>8

(* So does creating it. *)
LEMMA CreateScratchStep ==
  ASSUME CommitInv, NEW r \in Runs, CreateScratch(r)
  PROVE  CommitInv'
<1>. USE ArtifactAssumption DEF CommitInv
<1>1. /\ pc[r] = "create" /\ pc' = [pc EXCEPT ![r] = "seal"]
      /\ Change([name \in {"hdf5_scratch"} |-> r]) /\ bytes' = [bytes EXCEPT ![r] = "dirty"]
      /\ UNCHANGED << marker, writer, readers, why, seen, replayed, groups, committed, crashes >>
  BY DEF CreateScratch, Step, Goto, locks
<1>2. /\ Locking'
      /\ \A q \in Runs : pc'[q] = IF q = r THEN "seal" ELSE pc[q]
      /\ \A q \in Runs \ {r} : pc[q] \notin CaptureSteps
  BY <1>1, CaptureLocking DEF CaptureSteps, locks
<1>3. /\ live' \in Directories /\ images' \subseteq Directories /\ live' \in images'
      /\ live'["hdf5"] = live["hdf5"]
      /\ live'["manifest"] = live["manifest"]
      /\ live'["hdf5_scratch"] = r
      /\ live'["manifest_scratch"] = live["manifest_scratch"]
      /\ \A dir \in images' : dir \in images \/ \E old \in images :
           /\ dir["hdf5"] = old["hdf5"]
           /\ dir["manifest"] = old["manifest"]
           /\ dir["hdf5_scratch"] = r
           /\ dir["manifest_scratch"] = old["manifest_scratch"]
  <2>. DEFINE changes == [name \in {"hdf5_scratch"} |-> r]
  <2>1. DOMAIN changes \subseteq Names /\ \A name \in DOMAIN changes : changes[name] \in Files
    BY DEF Names, Files, TypeOK, Directories
  <2>2. Change(changes)
    BY <1>1
  <2>3. QED
    BY <2>1, <2>2, ChangeShape DEF TypeOK, Names
<1>4. TypeOK'
  BY <1>1, <1>2, <1>3 DEF TypeOK, Running, CaptureSteps, Progress
<1>5. Scratch'
  BY <1>1, <1>2, <1>3 DEF Scratch, TypeOK, HasScratch, HasManifest,
     HasSyncedBytes, HasSyncedManifest, CaptureSteps
<1>6. Fresh'
  BY <1>1, <1>2 DEF Fresh, TypeOK, CaptureSteps
<1>7. Ordered'
  BY <1>1, <1>2, <1>3 DEF Ordered, Scratch, TypeOK, NoMarkerAnywhere,
     HasScratch, HasManifest,
     HasSyncedBytes, HasSyncedManifest, CaptureSteps
<1>8. MarkerNamesItsBytes'
  BY <1>1, <1>2, <1>3 DEF MarkerNamesItsBytes, Ordered, Scratch, Fresh, TypeOK, Directories,
                          NoMarkerAnywhere, Names, Files, HasScratch, HasManifest,
     HasSyncedBytes, HasSyncedManifest, CaptureSteps
<1>9. QED
  BY <1>2, <1>4, <1>5, <1>6, <1>7, <1>8

(* Sealing and syncing leave the directory alone. *)
LEMMA SealStep ==
  ASSUME CommitInv, NEW r \in Runs, Seal(r)
  PROVE  CommitInv'
<1>. USE ArtifactAssumption DEF CommitInv
<1>1. /\ pc[r] = "seal" /\ pc' = [pc EXCEPT ![r] = "sync_scratch"]
      /\ UNCHANGED << live, images, bytes, marker, writer, readers, why, seen, replayed, groups, committed, crashes >>
  BY DEF Seal, Step, Goto, directory, data, locks
<1>2. /\ Locking'
      /\ \A q \in Runs : pc'[q] = IF q = r THEN "sync_scratch" ELSE pc[q]
      /\ \A q \in Runs \ {r} : pc[q] \notin CaptureSteps
  BY <1>1, CaptureLocking DEF CaptureSteps, locks
<1>3. UNCHANGED << live, images >>
  BY <1>1
<1>4. TypeOK'
  BY <1>1, <1>2, <1>3 DEF TypeOK, Running, CaptureSteps, Progress
<1>5. Scratch'
  BY <1>1, <1>2, <1>3 DEF Scratch, TypeOK, HasScratch, HasManifest,
     HasSyncedBytes, HasSyncedManifest, CaptureSteps
<1>6. Fresh'
  BY <1>1, <1>2 DEF Fresh, TypeOK, CaptureSteps
<1>7. Ordered'
  BY <1>1, <1>2, <1>3 DEF Ordered, Scratch, TypeOK, NoMarkerAnywhere,
     HasScratch, HasManifest,
     HasSyncedBytes, HasSyncedManifest, CaptureSteps
<1>8. MarkerNamesItsBytes'
  BY <1>1, <1>2, <1>3 DEF MarkerNamesItsBytes, Ordered, Scratch, Fresh, TypeOK, Directories,
                          NoMarkerAnywhere, Names, Files, HasScratch, HasManifest,
     HasSyncedBytes, HasSyncedManifest, CaptureSteps
<1>9. QED
  BY <1>2, <1>4, <1>5, <1>6, <1>7, <1>8

(* Syncing the bytes, with the digest the receipt gives. *)
LEMMA SyncScratchStep ==
  ASSUME CommitInv, NEW r \in Runs, SyncScratch(r)
  PROVE  CommitInv'
<1>. USE ArtifactAssumption DEF CommitInv
<1>1. /\ pc[r] = "sync_scratch" /\ pc' = [pc EXCEPT ![r] = "write_manifest"]
      /\ bytes' = [bytes EXCEPT ![r] = "synced"]
      /\ UNCHANGED << live, images, marker, writer, readers, why, seen, replayed, groups, committed, crashes >>
  BY DEF SyncScratch, Step, Goto, directory, locks
<1>2. /\ Locking'
      /\ \A q \in Runs : pc'[q] = IF q = r THEN "write_manifest" ELSE pc[q]
      /\ \A q \in Runs \ {r} : pc[q] \notin CaptureSteps
  BY <1>1, CaptureLocking DEF CaptureSteps, locks
<1>3. UNCHANGED << live, images >>
  BY <1>1
<1>4. TypeOK'
  BY <1>1, <1>2, <1>3 DEF TypeOK, Running, CaptureSteps, Progress
<1>5. Scratch'
  BY <1>1, <1>2, <1>3 DEF Scratch, TypeOK, HasScratch, HasManifest,
     HasSyncedBytes, HasSyncedManifest, CaptureSteps
<1>6. Fresh'
  BY <1>1, <1>2 DEF Fresh, TypeOK, CaptureSteps
<1>7. Ordered'
  BY <1>1, <1>2, <1>3 DEF Ordered, Scratch, TypeOK, NoMarkerAnywhere,
     HasScratch, HasManifest,
     HasSyncedBytes, HasSyncedManifest, CaptureSteps
<1>8. MarkerNamesItsBytes'
  BY <1>1, <1>2, <1>3 DEF MarkerNamesItsBytes, Ordered, Scratch, Fresh, TypeOK, Directories,
                          NoMarkerAnywhere, Names, Files, HasScratch, HasManifest,
     HasSyncedBytes, HasSyncedManifest, CaptureSteps
<1>9. QED
  BY <1>2, <1>4, <1>5, <1>6, <1>7, <1>8

(* The manifest is written under its scratch name. *)
LEMMA WriteManifestStep ==
  ASSUME CommitInv, NEW r \in Runs, WriteManifest(r)
  PROVE  CommitInv'
<1>. USE ArtifactAssumption DEF CommitInv
<1>1. /\ pc[r] = "write_manifest" /\ pc' = [pc EXCEPT ![r] = "sync_written"]
      /\ Change([name \in {"manifest_scratch"} |-> r]) /\ marker' = [marker EXCEPT ![r] = "dirty"]
      /\ UNCHANGED << bytes, writer, readers, why, seen, replayed, groups, committed, crashes >>
  BY DEF WriteManifest, Step, Goto, locks
<1>2. /\ Locking'
      /\ \A q \in Runs : pc'[q] = IF q = r THEN "sync_written" ELSE pc[q]
      /\ \A q \in Runs \ {r} : pc[q] \notin CaptureSteps
  BY <1>1, CaptureLocking DEF CaptureSteps, locks
<1>3. /\ live' \in Directories /\ images' \subseteq Directories /\ live' \in images'
      /\ live'["hdf5"] = live["hdf5"]
      /\ live'["manifest"] = live["manifest"]
      /\ live'["hdf5_scratch"] = live["hdf5_scratch"]
      /\ live'["manifest_scratch"] = r
      /\ \A dir \in images' : dir \in images \/ \E old \in images :
           /\ dir["hdf5"] = old["hdf5"]
           /\ dir["manifest"] = old["manifest"]
           /\ dir["hdf5_scratch"] = old["hdf5_scratch"]
           /\ dir["manifest_scratch"] = r
  <2>. DEFINE changes == [name \in {"manifest_scratch"} |-> r]
  <2>1. DOMAIN changes \subseteq Names /\ \A name \in DOMAIN changes : changes[name] \in Files
    BY DEF Names, Files, TypeOK, Directories
  <2>2. Change(changes)
    BY <1>1
  <2>3. QED
    BY <2>1, <2>2, ChangeShape DEF TypeOK, Names
<1>4. TypeOK'
  BY <1>1, <1>2, <1>3 DEF TypeOK, Running, CaptureSteps, Progress
<1>5. Scratch'
  BY <1>1, <1>2, <1>3 DEF Scratch, TypeOK, HasScratch, HasManifest,
     HasSyncedBytes, HasSyncedManifest, CaptureSteps
<1>6. Fresh'
  BY <1>1, <1>2 DEF Fresh, TypeOK, CaptureSteps
<1>7. Ordered'
  BY <1>1, <1>2, <1>3 DEF Ordered, Scratch, TypeOK, NoMarkerAnywhere,
     HasScratch, HasManifest,
     HasSyncedBytes, HasSyncedManifest, CaptureSteps
<1>8. MarkerNamesItsBytes'
  BY <1>1, <1>2, <1>3 DEF MarkerNamesItsBytes, Ordered, Scratch, Fresh, TypeOK, Directories,
                          NoMarkerAnywhere, Names, Files, HasScratch, HasManifest,
     HasSyncedBytes, HasSyncedManifest, CaptureSteps
<1>9. QED
  BY <1>2, <1>4, <1>5, <1>6, <1>7, <1>8

(* And synced there. *)
LEMMA SyncWrittenStep ==
  ASSUME CommitInv, NEW r \in Runs, SyncWritten(r)
  PROVE  CommitInv'
<1>. USE ArtifactAssumption DEF CommitInv
<1>1. /\ pc[r] = "sync_written" /\ pc' = [pc EXCEPT ![r] = "remove_marker"]
      /\ marker' = [marker EXCEPT ![r] = "synced"]
      /\ UNCHANGED << live, images, bytes, writer, readers, why, seen, replayed, groups, committed, crashes >>
  BY DEF SyncWritten, Step, Goto, directory, locks
<1>2. /\ Locking'
      /\ \A q \in Runs : pc'[q] = IF q = r THEN "remove_marker" ELSE pc[q]
      /\ \A q \in Runs \ {r} : pc[q] \notin CaptureSteps
  BY <1>1, CaptureLocking DEF CaptureSteps, locks
<1>3. UNCHANGED << live, images >>
  BY <1>1
<1>4. TypeOK'
  BY <1>1, <1>2, <1>3 DEF TypeOK, Running, CaptureSteps, Progress
<1>5. Scratch'
  BY <1>1, <1>2, <1>3 DEF Scratch, TypeOK, HasScratch, HasManifest,
     HasSyncedBytes, HasSyncedManifest, CaptureSteps
<1>6. Fresh'
  BY <1>1, <1>2 DEF Fresh, TypeOK, CaptureSteps
<1>7. Ordered'
  BY <1>1, <1>2, <1>3 DEF Ordered, Scratch, TypeOK, NoMarkerAnywhere,
     HasScratch, HasManifest,
     HasSyncedBytes, HasSyncedManifest, CaptureSteps
<1>8. MarkerNamesItsBytes'
  BY <1>1, <1>2, <1>3 DEF MarkerNamesItsBytes, Ordered, Scratch, Fresh, TypeOK, Directories,
                          NoMarkerAnywhere, Names, Files, HasScratch, HasManifest,
     HasSyncedBytes, HasSyncedManifest, CaptureSteps
<1>9. QED
  BY <1>2, <1>4, <1>5, <1>6, <1>7, <1>8

(* The old marker goes first. *)
LEMMA RemoveMarkerStep ==
  ASSUME CommitInv, NEW r \in Runs, RemoveMarker(r)
  PROVE  CommitInv'
<1>. USE ArtifactAssumption DEF CommitInv
<1>1. /\ pc[r] = "remove_marker" /\ pc' = [pc EXCEPT ![r] = "sync_removed"]
      /\ IF live["manifest"] = NoRun THEN UNCHANGED directory
         ELSE Change([name \in {"manifest"} |-> NoRun])
      /\ UNCHANGED << bytes, marker, writer, readers, why, seen, replayed, groups, committed, crashes >>
  BY DEF RemoveMarker, Step, Goto, data, locks
<1>2. /\ Locking'
      /\ \A q \in Runs : pc'[q] = IF q = r THEN "sync_removed" ELSE pc[q]
      /\ \A q \in Runs \ {r} : pc[q] \notin CaptureSteps
  BY <1>1, CaptureLocking DEF CaptureSteps, locks
<1>3. /\ live' \in Directories /\ images' \subseteq Directories /\ live' \in images'
      /\ live'["hdf5"] = live["hdf5"]
      /\ live'["manifest"] = NoRun
      /\ live'["hdf5_scratch"] = live["hdf5_scratch"]
      /\ live'["manifest_scratch"] = live["manifest_scratch"]
      /\ \A dir \in images' : dir \in images \/ \E old \in images :
           /\ dir["hdf5"] = old["hdf5"]
           /\ dir["manifest"] = NoRun
           /\ dir["hdf5_scratch"] = old["hdf5_scratch"]
           /\ dir["manifest_scratch"] = old["manifest_scratch"]
  <2>1. CASE live["manifest"] = NoRun
    BY <1>1, <2>1 DEF TypeOK, directory
  <2>2. CASE live["manifest"] # NoRun
    <3>. DEFINE changes == [name \in {"manifest"} |-> NoRun]
    <3>1. DOMAIN changes \subseteq Names /\ \A n \in DOMAIN changes : changes[n] \in Files
      BY DEF Names, Files
    <3>2. Change(changes)
      BY <1>1, <2>2
    <3>3. QED
      BY <3>1, <3>2, ChangeShape DEF TypeOK, Names
  <2>3. QED
    BY <2>1, <2>2
<1>4. TypeOK'
  BY <1>1, <1>2, <1>3 DEF TypeOK, Running, CaptureSteps, Progress
<1>5. Scratch'
  BY <1>1, <1>2, <1>3 DEF Scratch, TypeOK, HasScratch, HasManifest,
     HasSyncedBytes, HasSyncedManifest, CaptureSteps
<1>6. Fresh'
  BY <1>1, <1>2 DEF Fresh, TypeOK, CaptureSteps
<1>7. Ordered'
  BY <1>1, <1>2, <1>3 DEF Ordered, Scratch, TypeOK, NoMarkerAnywhere,
     HasScratch, HasManifest,
     HasSyncedBytes, HasSyncedManifest, CaptureSteps
<1>8. MarkerNamesItsBytes'
  BY <1>1, <1>2, <1>3 DEF MarkerNamesItsBytes, Ordered, Scratch, Fresh, TypeOK, Directories,
                          NoMarkerAnywhere, Names, Files, HasScratch, HasManifest,
     HasSyncedBytes, HasSyncedManifest, CaptureSteps
<1>9. QED
  BY <1>2, <1>4, <1>5, <1>6, <1>7, <1>8

(* After this sync no image has a marker. *)
LEMMA SyncRemovedStep ==
  ASSUME CommitInv, NEW r \in Runs, SyncRemoved(r)
  PROVE  CommitInv'
<1>. USE ArtifactAssumption DEF CommitInv
<1>1. /\ pc[r] = "sync_removed" /\ pc' = [pc EXCEPT ![r] = "rename_hdf5"]
      /\ SyncDirectory
      /\ UNCHANGED << bytes, marker, writer, readers, why, seen, replayed, groups, committed, crashes >>
  BY DEF SyncRemoved, Step, Goto, data, locks
<1>2. /\ Locking'
      /\ \A q \in Runs : pc'[q] = IF q = r THEN "rename_hdf5" ELSE pc[q]
      /\ \A q \in Runs \ {r} : pc[q] \notin CaptureSteps
  BY <1>1, CaptureLocking DEF CaptureSteps, locks
<1>3. /\ live' = live /\ images' = {live}
      /\ live \in Directories
  BY <1>1 DEF SyncDirectory, TypeOK
<1>4. TypeOK'
  BY <1>1, <1>2, <1>3 DEF TypeOK, Running, CaptureSteps, Progress
<1>5. Scratch'
  BY <1>1, <1>2, <1>3 DEF Scratch, TypeOK, HasScratch, HasManifest,
     HasSyncedBytes, HasSyncedManifest, CaptureSteps
<1>6. Fresh'
  BY <1>1, <1>2 DEF Fresh, TypeOK, CaptureSteps
<1>7. Ordered'
  BY <1>1, <1>2, <1>3 DEF Ordered, Scratch, TypeOK, NoMarkerAnywhere,
     HasScratch, HasManifest,
     HasSyncedBytes, HasSyncedManifest, CaptureSteps
<1>8. MarkerNamesItsBytes'
  BY <1>1, <1>2, <1>3 DEF MarkerNamesItsBytes, Ordered, Scratch, Fresh, TypeOK, Directories,
                          NoMarkerAnywhere, Names, Files, HasScratch, HasManifest,
     HasSyncedBytes, HasSyncedManifest, CaptureSteps
<1>9. QED
  BY <1>2, <1>4, <1>5, <1>6, <1>7, <1>8

(* The bytes are installed under no marker. *)
LEMMA RenameHdf5Step ==
  ASSUME CommitInv, NEW r \in Runs, RenameHdf5(r)
  PROVE  CommitInv'
<1>. USE ArtifactAssumption DEF CommitInv
<1>1. /\ pc[r] = "rename_hdf5" /\ pc' = [pc EXCEPT ![r] = "sync_hdf5"]
      /\ Change([name \in {"hdf5", "hdf5_scratch"} |->
                   IF name = "hdf5" THEN live["hdf5_scratch"] ELSE NoRun])
      /\ UNCHANGED << bytes, marker, writer, readers, why, seen, replayed, groups, committed, crashes >>
  BY DEF RenameHdf5, Step, Goto, data, locks
<1>2. /\ Locking'
      /\ \A q \in Runs : pc'[q] = IF q = r THEN "sync_hdf5" ELSE pc[q]
      /\ \A q \in Runs \ {r} : pc[q] \notin CaptureSteps
  BY <1>1, CaptureLocking DEF CaptureSteps, locks
<1>3. /\ live' \in Directories /\ images' \subseteq Directories /\ live' \in images'
      /\ live'["hdf5"] = live["hdf5_scratch"]
      /\ live'["manifest"] = live["manifest"]
      /\ live'["hdf5_scratch"] = NoRun
      /\ live'["manifest_scratch"] = live["manifest_scratch"]
      /\ \A dir \in images' : dir \in images \/ \E old \in images :
           /\ dir["hdf5"] = live["hdf5_scratch"]
           /\ dir["manifest"] = old["manifest"]
           /\ dir["hdf5_scratch"] = NoRun
           /\ dir["manifest_scratch"] = old["manifest_scratch"]
  <2>. DEFINE changes == [name \in {"hdf5", "hdf5_scratch"} |->
                   IF name = "hdf5" THEN live["hdf5_scratch"] ELSE NoRun]
  <2>1. DOMAIN changes \subseteq Names /\ \A name \in DOMAIN changes : changes[name] \in Files
    BY DEF Names, Files, TypeOK, Directories
  <2>2. Change(changes)
    BY <1>1
  <2>3. /\ live' \in Directories /\ images' \subseteq Directories /\ live' \in images'
        /\ \A name \in Names :
             live'[name] = IF name \in DOMAIN changes THEN changes[name] ELSE live[name]
        /\ \A dir \in images' : dir \in images \/ \E old \in images : \A name \in Names :
             dir[name] = IF name \in DOMAIN changes THEN changes[name] ELSE old[name]
    <3>. HIDE DEF changes
    <3>1. QED
      BY <2>1, <2>2, ChangeShape DEF TypeOK
  <2>4. /\ DOMAIN changes = {"hdf5", "hdf5_scratch"}
        /\ changes["hdf5"] = live["hdf5_scratch"] /\ changes["hdf5_scratch"] = NoRun
    OBVIOUS
  <2>. HIDE DEF changes
  <2>5. QED
    BY <2>3, <2>4 DEF Names
<1>4. TypeOK'
  BY <1>1, <1>2, <1>3 DEF TypeOK, Running, CaptureSteps, Progress
<1>5. Scratch'
  BY <1>1, <1>2, <1>3 DEF Scratch, TypeOK, HasScratch, HasManifest,
     HasSyncedBytes, HasSyncedManifest, CaptureSteps
<1>6. Fresh'
  BY <1>1, <1>2 DEF Fresh, TypeOK, CaptureSteps
<1>7. Ordered'
  BY <1>1, <1>2, <1>3 DEF Ordered, Scratch, TypeOK, NoMarkerAnywhere,
     HasScratch, HasManifest,
     HasSyncedBytes, HasSyncedManifest, CaptureSteps
<1>8. MarkerNamesItsBytes'
  BY <1>1, <1>2, <1>3 DEF MarkerNamesItsBytes, Ordered, Scratch, Fresh, TypeOK, Directories,
                          NoMarkerAnywhere, Names, Files, HasScratch, HasManifest,
     HasSyncedBytes, HasSyncedManifest, CaptureSteps
<1>9. QED
  BY <1>2, <1>4, <1>5, <1>6, <1>7, <1>8

(* After this sync every image has the new bytes. *)
LEMMA SyncHdf5Step ==
  ASSUME CommitInv, NEW r \in Runs, SyncHdf5(r)
  PROVE  CommitInv'
<1>. USE ArtifactAssumption DEF CommitInv
<1>1. /\ pc[r] = "sync_hdf5" /\ pc' = [pc EXCEPT ![r] = "rename_manifest"]
      /\ SyncDirectory
      /\ UNCHANGED << bytes, marker, writer, readers, why, seen, replayed, groups, committed, crashes >>
  BY DEF SyncHdf5, Step, Goto, data, locks
<1>2. /\ Locking'
      /\ \A q \in Runs : pc'[q] = IF q = r THEN "rename_manifest" ELSE pc[q]
      /\ \A q \in Runs \ {r} : pc[q] \notin CaptureSteps
  BY <1>1, CaptureLocking DEF CaptureSteps, locks
<1>3. /\ live' = live /\ images' = {live}
      /\ live \in Directories
  BY <1>1 DEF SyncDirectory, TypeOK
<1>4. TypeOK'
  BY <1>1, <1>2, <1>3 DEF TypeOK, Running, CaptureSteps, Progress
<1>5. Scratch'
  BY <1>1, <1>2, <1>3 DEF Scratch, TypeOK, HasScratch, HasManifest,
     HasSyncedBytes, HasSyncedManifest, CaptureSteps
<1>6. Fresh'
  BY <1>1, <1>2 DEF Fresh, TypeOK, CaptureSteps
<1>7. Ordered'
  BY <1>1, <1>2, <1>3 DEF Ordered, Scratch, TypeOK, NoMarkerAnywhere,
     HasScratch, HasManifest,
     HasSyncedBytes, HasSyncedManifest, CaptureSteps
<1>8. MarkerNamesItsBytes'
  BY <1>1, <1>2, <1>3 DEF MarkerNamesItsBytes, Ordered, Scratch, Fresh, TypeOK, Directories,
                          NoMarkerAnywhere, Names, Files, HasScratch, HasManifest,
     HasSyncedBytes, HasSyncedManifest, CaptureSteps
<1>9. QED
  BY <1>2, <1>4, <1>5, <1>6, <1>7, <1>8

(* So whichever images have the marker have the bytes it names. *)
LEMMA RenameManifestStep ==
  ASSUME CommitInv, NEW r \in Runs, RenameManifest(r)
  PROVE  CommitInv'
<1>. USE ArtifactAssumption DEF CommitInv
<1>1. /\ pc[r] = "rename_manifest" /\ pc' = [pc EXCEPT ![r] = "sync_manifest"]
      /\ Change([name \in {"manifest", "manifest_scratch"} |->
                   IF name = "manifest" THEN live["manifest_scratch"] ELSE NoRun])
      /\ UNCHANGED << bytes, marker, writer, readers, why, seen, replayed, groups, committed, crashes >>
  BY DEF RenameManifest, Step, Goto, data, locks
<1>2. /\ Locking'
      /\ \A q \in Runs : pc'[q] = IF q = r THEN "sync_manifest" ELSE pc[q]
      /\ \A q \in Runs \ {r} : pc[q] \notin CaptureSteps
  BY <1>1, CaptureLocking DEF CaptureSteps, locks
<1>3. /\ live' \in Directories /\ images' \subseteq Directories /\ live' \in images'
      /\ live'["hdf5"] = live["hdf5"]
      /\ live'["manifest"] = live["manifest_scratch"]
      /\ live'["hdf5_scratch"] = live["hdf5_scratch"]
      /\ live'["manifest_scratch"] = NoRun
      /\ \A dir \in images' : dir \in images \/ \E old \in images :
           /\ dir["hdf5"] = old["hdf5"]
           /\ dir["manifest"] = live["manifest_scratch"]
           /\ dir["hdf5_scratch"] = old["hdf5_scratch"]
           /\ dir["manifest_scratch"] = NoRun
  <2>. DEFINE changes == [name \in {"manifest", "manifest_scratch"} |->
                   IF name = "manifest" THEN live["manifest_scratch"] ELSE NoRun]
  <2>1. DOMAIN changes \subseteq Names /\ \A name \in DOMAIN changes : changes[name] \in Files
    BY DEF Names, Files, TypeOK, Directories
  <2>2. Change(changes)
    BY <1>1
  <2>3. /\ live' \in Directories /\ images' \subseteq Directories /\ live' \in images'
        /\ \A name \in Names :
             live'[name] = IF name \in DOMAIN changes THEN changes[name] ELSE live[name]
        /\ \A dir \in images' : dir \in images \/ \E old \in images : \A name \in Names :
             dir[name] = IF name \in DOMAIN changes THEN changes[name] ELSE old[name]
    <3>. HIDE DEF changes
    <3>1. QED
      BY <2>1, <2>2, ChangeShape DEF TypeOK
  <2>4. /\ DOMAIN changes = {"manifest", "manifest_scratch"}
        /\ changes["manifest"] = live["manifest_scratch"] /\ changes["manifest_scratch"] = NoRun
    OBVIOUS
  <2>. HIDE DEF changes
  <2>5. QED
    BY <2>3, <2>4 DEF Names
<1>4. TypeOK'
  BY <1>1, <1>2, <1>3 DEF TypeOK, Running, CaptureSteps, Progress
<1>5. Scratch'
  BY <1>1, <1>2, <1>3 DEF Scratch, TypeOK, HasScratch, HasManifest,
     HasSyncedBytes, HasSyncedManifest, CaptureSteps
<1>6. Fresh'
  BY <1>1, <1>2 DEF Fresh, TypeOK, CaptureSteps
<1>7. Ordered'
  BY <1>1, <1>2, <1>3 DEF Ordered, Scratch, TypeOK, NoMarkerAnywhere,
     HasScratch, HasManifest,
     HasSyncedBytes, HasSyncedManifest, CaptureSteps
<1>8. MarkerNamesItsBytes'
  BY <1>1, <1>2, <1>3 DEF MarkerNamesItsBytes, Ordered, Scratch, Fresh, TypeOK, Directories,
                          NoMarkerAnywhere, Names, Files, HasScratch, HasManifest,
     HasSyncedBytes, HasSyncedManifest, CaptureSteps
<1>9. QED
  BY <1>2, <1>4, <1>5, <1>6, <1>7, <1>8

(* Ok is returned once every image has the marker.                            *)
LEMMA SyncManifestStep ==
  ASSUME CommitInv, NEW r \in Runs, SyncManifest(r)
  PROVE  CommitInv'
<1>. USE ArtifactAssumption DEF CommitInv
<1>1. /\ pc[r] = "sync_manifest" /\ pc' = [pc EXCEPT ![r] = "check_before"]
      /\ live' = live /\ images' = {live} /\ committed' = committed \cup {r}
      /\ writer' = (IF writer = r THEN NoRun ELSE writer) /\ readers' = readers \ {r}
      /\ UNCHANGED << bytes, marker, why, seen, replayed, groups, crashes >>
  BY DEF SyncManifest, SyncDirectory, Step, Goto, Unlock, data
<1>2. \A q \in Runs : pc'[q] = IF q = r THEN "check_before" ELSE pc[q]
  BY <1>1 DEF TypeOK
<1>3. TypeOK'
  BY <1>1 DEF TypeOK, Running, ReplaySteps, Files
<1>4. Locking'
  BY <1>1, <1>2, Alone DEF Locking, CaptureSteps, TypeOK
<1>5. Scratch'
  BY <1>1, <1>2 DEF Scratch, HasScratch, HasManifest, HasSyncedBytes, HasSyncedManifest
<1>6. Fresh'
  BY <1>1, <1>2 DEF Fresh
<1>7. Ordered'
  BY <1>1, <1>2 DEF Ordered, NoMarkerAnywhere, TypeOK
<1>8. MarkerNamesItsBytes'
  BY <1>1 DEF MarkerNamesItsBytes, TypeOK
<1>9. QED
  BY <1>3, <1>4, <1>5, <1>6, <1>7, <1>8

LEMMA AcquireStep ==
  ASSUME CommitInv, NEW r \in Runs, Acquire(r)
  PROVE  CommitInv'
<1>. USE ArtifactAssumption DEF CommitInv
<1>1. /\ pc[r] = "start" /\ pc' = [pc EXCEPT ![r] = "recover"]
      /\ writer = NoRun /\ readers = {} /\ writer' = r
      /\ UNCHANGED << live, images, bytes, marker, readers, why, seen, replayed, groups,
                       committed, crashes >>
  BY DEF Acquire, LockFree, Step, Goto, directory, data
<1>2. \A q \in Runs : pc'[q] = IF q = r THEN "recover" ELSE pc[q]
  BY <1>1 DEF TypeOK
<1>3. TypeOK'
  BY <1>1 DEF TypeOK, Running, CaptureSteps, Files
<1>4. Locking'
  BY <1>1, <1>2 DEF Locking, CaptureSteps
<1>5. Scratch'
  BY <1>1, <1>2 DEF Scratch, HasScratch, HasManifest, HasSyncedBytes, HasSyncedManifest
<1>6. Fresh'
  BY <1>1, <1>2 DEF Fresh
<1>7. Ordered'
  BY <1>1, <1>2 DEF Ordered, NoMarkerAnywhere
<1>8. MarkerNamesItsBytes'
  BY <1>1 DEF MarkerNamesItsBytes
<1>9. QED
  BY <1>3, <1>4, <1>5, <1>6, <1>7, <1>8

(* A power loss picks one image, and tears only bytes no marker names.        *)
LEMMA CrashStep ==
  ASSUME CommitInv, Crash
  PROVE  CommitInv'
<1>. USE ArtifactAssumption DEF CommitInv
<1>1. PICK dir \in images : live' = dir /\ images' = {dir}
  BY DEF Crash, Lose
<1>2. /\ \A q \in Runs : bytes'[q] = bytes[q] \/ bytes[q] = "dirty"
      /\ \A q \in Runs : marker'[q] = marker[q] \/ marker[q] = "dirty"
      /\ bytes' \in [Runs -> Progress] /\ marker' \in [Runs -> Progress]
  <2>1. PICK torn \in SUBSET {r \in Runs : bytes[r] = "dirty"} :
          bytes' = [r \in Runs |-> IF r \in torn THEN "torn" ELSE bytes[r]]
    BY DEF Crash
  <2>2. PICK ripped \in SUBSET {r \in Runs : marker[r] = "dirty"} :
          marker' = [r \in Runs |-> IF r \in ripped THEN "torn" ELSE marker[r]]
    BY DEF Crash
  <2>3. QED
    BY <2>1, <2>2 DEF TypeOK, Progress
<1>3. /\ writer' = NoRun /\ readers' = {} /\ crashes' = crashes + 1
      /\ pc' = [r \in Runs |-> IF pc[r] \in Running THEN "lost" ELSE pc[r]]
      /\ UNCHANGED << why, seen, replayed, groups, committed >>
  BY DEF Crash
<1>4. \A q \in Runs : pc'[q] \in {"start"} \cup Ended
      /\ (pc'[q] = "start" => pc[q] = "start")
  BY <1>3 DEF TypeOK, Ended
<1>5. TypeOK'
  BY <1>1, <1>2, <1>3, <1>4 DEF TypeOK, Files
<1>6. Locking'
  BY <1>3, <1>4 DEF Locking, CaptureSteps, Ended
<1>7. Scratch' /\ Ordered'
  BY <1>4 DEF Scratch, Ordered, HasScratch, HasManifest, HasSyncedBytes, HasSyncedManifest,
              NoMarkerAnywhere, Ended
<1>8. Fresh'
  BY <1>2, <1>4 DEF Fresh, Ended
<1>9. MarkerNamesItsBytes'
  BY <1>1, <1>2 DEF MarkerNamesItsBytes, TypeOK, Directories, Names, Files
<1>10. QED
  BY <1>5, <1>6, <1>7, <1>8, <1>9

LEMMA StutterStep ==
  ASSUME CommitInv, UNCHANGED vars
  PROVE  CommitInv'
<1>1. UNCHANGED << live, images, bytes, marker, writer, readers, pc, why, seen, replayed, groups,
                   committed, crashes >>
  BY DEF vars, directory, data, locks, process
<1>2. QED
  BY <1>1 DEF CommitInv, TypeOK, Locking, Scratch, Fresh, Ordered, MarkerNamesItsBytes

LEMMA NextCommitInv ==
  ASSUME CommitInv, [Next]_vars
  PROVE  CommitInv'
<1>1. ASSUME NEW r \in Runs, Capture(r)
      PROVE  CommitInv'
  <2>1. CASE AcquireBusy(r)
    BY <2>1, GiveUpStep DEF AcquireBusy
  <2>2. CASE ScratchChanged(r)
    BY <2>2, GiveUpStep DEF ScratchChanged, Running, CaptureSteps
  <2>3. QED
    BY <1>1, <2>1, <2>2, AcquireStep, RecoverScratchStep, CreateScratchStep, SealStep,
       SyncScratchStep, WriteManifestStep, SyncWrittenStep, RemoveMarkerStep, SyncRemovedStep,
       RenameHdf5Step, SyncHdf5Step, RenameManifestStep, SyncManifestStep DEF Capture, VerifyScratch
<1>2. ASSUME NEW r \in Runs, Replay(r)
      PROVE  CommitInv'
  BY <1>2, ReplayActions
<1>3. ASSUME NEW r \in Runs, Fail(r)
      PROVE  CommitInv'
  BY <1>3, GiveUpStep DEF Fail
<1>4. CASE Crash
  BY <1>4, CrashStep
<1>5. CASE UNCHANGED vars
  BY <1>5, StutterStep
<1>6. QED
  BY <1>1, <1>2, <1>3, <1>4, <1>5 DEF Next, Finished

THEOREM CommitInductive ==
  Spec => []CommitInv
<1>1. Init => CommitInv
  BY InitCommitInv
<1>2. CommitInv /\ [Next]_vars => CommitInv'
  BY NextCommitInv
<1>3. QED
  BY <1>1, <1>2, PTL DEF Spec

(* Every variable keeps its type, and the lock is never both exclusive and      *)
(* shared.                                                                 *)
THEOREM ArtifactTypeCorrect ==
  Spec => []TypeOK
<1>1. CommitInv => TypeOK
  BY DEF CommitInv
<1>2. QED
  BY <1>1, CommitInductive, PTL

(* Whatever a failure or a power loss interrupts, a completion marker never     *)
(* stands next to other bytes than those it names (finalize_covariance_artifact). *)
THEOREM MarkerIsTruthful ==
  Spec => []MarkerNamesItsBytes
<1>1. CommitInv => MarkerNamesItsBytes
  BY DEF CommitInv
<1>2. QED
  BY <1>1, CommitInductive, PTL

(***************************************************************************)
(* The replay                                                              *)
(***************************************************************************)

(* While the marker is a run's own, all it has replayed is its own; once the    *)
(* marker is another's it never becomes the run's again, so the last check      *)
(* settles it.                                                              *)
OwnReplay ==
  \A r \in Runs :
    /\ pc[r] \in {"start", "check_before", "verify_before"} \cup CaptureSteps
         => replayed[r] = {}
    /\ pc[r] \in {"open", "replay", "check_after"} /\ live["manifest"] = r
         => replayed[r] \subseteq {r}
    /\ pc[r] = "verify_after" /\ seen[r] = r => replayed[r] \subseteq {r}
    /\ pc[r] \in {"emit", "done"} => replayed[r] \subseteq {r}

ReplayInv == CommitInv /\ ScratchIsPrivate /\ ReplayIsStable /\ OwnReplay

(* What an update of some names does to the live manifest.                    *)
LEMMA ManifestChange ==
  ASSUME NEW changes, live \in Directories, Change(changes)
  PROVE  live'["manifest"]
           = IF "manifest" \in DOMAIN changes THEN changes["manifest"] ELSE live["manifest"]
BY DEF Change, Updated, Directories, Names

(* A capture step replays nothing, and makes nobody's marker but its own.       *)
LEMMA CaptureEffect ==
  ASSUME CommitInv, NEW r \in Runs, Capture(r), ~ AcquireBusy(r), ~ ScratchChanged(r)
  PROVE  /\ pc[r] \in {"start"} \cup CaptureSteps
         /\ \E step \in CaptureSteps \cup {"check_before"} : pc' = [pc EXCEPT ![r] = step]
         /\ \A q \in Runs \ {r} : pc[q] # "replay"
         /\ live'["manifest"] \in {live["manifest"], NoRun, r}
         /\ UNCHANGED << why, seen, replayed >>
<1>. USE DEF Step, Goto, directory, CaptureSteps, SyncDirectory
<1>1. live \in Directories
  BY DEF CommitInv, TypeOK
<1>2. CASE Acquire(r)
  BY <1>2 DEF Acquire, LockFree, CommitInv, Locking
<1>3. ASSUME pc[r] \in CaptureSteps
      PROVE  \A q \in Runs \ {r} : pc[q] # "replay"
  BY <1>3, Alone DEF CommitInv
<1>4. CASE RecoverScratch(r)
  BY <1>1, <1>3, <1>4, ManifestChange DEF RecoverScratch
<1>5. CASE CreateScratch(r) \/ WriteManifest(r)
  BY <1>1, <1>3, <1>5, ManifestChange DEF CreateScratch, WriteManifest
<1>6. CASE Seal(r) \/ SyncScratch(r) \/ SyncWritten(r) \/ SyncRemoved(r) \/ SyncHdf5(r)
           \/ SyncManifest(r)
  BY <1>3, <1>6 DEF Seal, SyncScratch, SyncWritten, SyncRemoved, SyncHdf5, SyncManifest
<1>7. CASE RemoveMarker(r)
  BY <1>1, <1>3, <1>7, ManifestChange DEF RemoveMarker
<1>8. CASE RenameHdf5(r)
  <2>1. "manifest" \notin DOMAIN [name \in {"hdf5", "hdf5_scratch"} |->
               IF name = "hdf5" THEN live["hdf5_scratch"] ELSE NoRun]
    OBVIOUS
  <2>2. live'["manifest"] = live["manifest"]
    BY <1>1, <1>8, <2>1, ManifestChange DEF RenameHdf5
  <2>3. QED
    BY <1>3, <1>8, <2>2 DEF RenameHdf5
<1>9. CASE RenameManifest(r)
  <2>. DEFINE changes == [name \in {"manifest", "manifest_scratch"} |->
               IF name = "manifest" THEN live["manifest_scratch"] ELSE NoRun]
  <2>1. "manifest" \in DOMAIN changes /\ changes["manifest"] = live["manifest_scratch"]
    OBVIOUS
  <2>2. live["manifest_scratch"] = r
    BY <1>9 DEF RenameManifest, CommitInv, Scratch, HasManifest
  <2>3. Change(changes)
    BY <1>9 DEF RenameManifest
  <2>. HIDE DEF changes
  <2>4. live'["manifest"] = r
    BY <1>1, <2>1, <2>2, <2>3, ManifestChange
  <2>5. QED
    BY <1>3, <1>9, <2>4 DEF RenameManifest
<1>10. QED
  BY <1>2, <1>4, <1>5, <1>6, <1>7, <1>8, <1>9 DEF Capture, VerifyScratch

LEMMA CaptureReplayInv ==
  ASSUME ReplayInv, NEW r \in Runs, Capture(r), ~ AcquireBusy(r), ~ ScratchChanged(r)
  PROVE  (ScratchIsPrivate /\ ReplayIsStable /\ OwnReplay)'
<1>. USE ArtifactAssumption DEF ReplayInv
<1>1. PICK step \in CaptureSteps \cup {"check_before"} : pc' = [pc EXCEPT ![r] = step]
  BY CaptureEffect
<1>2. /\ pc[r] \in {"start"} \cup CaptureSteps
      /\ \A q \in Runs \ {r} : pc[q] # "replay"
      /\ live'["manifest"] \in {live["manifest"], NoRun, r}
      /\ UNCHANGED << why, seen, replayed >>
  BY CaptureEffect
<1>3. \A q \in Runs : pc'[q] = IF q = r THEN step ELSE pc[q]
  BY <1>1 DEF CommitInv, TypeOK
<1>4. ScratchIsPrivate'
  BY <1>2 DEF ScratchIsPrivate
<1>5. ReplayIsStable'
  BY <1>2, <1>3 DEF ReplayIsStable, CaptureSteps
<1>6. OwnReplay'
  BY <1>2, <1>3 DEF OwnReplay, CaptureSteps
<1>7. QED
  BY <1>4, <1>5, <1>6

LEMMA GiveUpReplayInv ==
  ASSUME ReplayInv, NEW r \in Runs, NEW reason \in {"busy", "replaced", "io"}, GiveUp(r, reason)
  PROVE  (ScratchIsPrivate /\ ReplayIsStable /\ OwnReplay)'
<1>. USE ArtifactAssumption DEF ReplayInv
<1>1. /\ \A q \in Runs : pc'[q] = IF q = r THEN "failed" ELSE pc[q]
      /\ \A q \in Runs : why'[q] = IF q = r THEN reason ELSE why[q]
      /\ UNCHANGED << live, seen, replayed >>
  BY DEF GiveUp, Goto, directory, CommitInv, TypeOK
<1>2. ScratchIsPrivate' /\ ReplayIsStable'
  BY <1>1 DEF ScratchIsPrivate, ReplayIsStable
<1>3. OwnReplay'
  BY <1>1 DEF OwnReplay, CaptureSteps
<1>4. QED
  BY <1>2, <1>3

LEMMA ReplayReplayInv ==
  ASSUME ReplayInv, NEW r \in Runs, Replay(r)
  PROVE  (ScratchIsPrivate /\ ReplayIsStable /\ OwnReplay)'
<1>. USE ArtifactAssumption DEF ReplayInv
<1>1. ASSUME NEW from, NoMarker(r, from) \/ OperatorChanged(r, from)
      PROVE  (ScratchIsPrivate /\ ReplayIsStable /\ OwnReplay)'
  BY <1>1, GiveUpReplayInv DEF NoMarker, OperatorChanged
<1>2. CASE OpenRefused(r)
  BY <1>2, GiveUpReplayInv DEF OpenRefused
<1>3. ASSUME NEW to, pc' = [pc EXCEPT ![r] = to]
      PROVE  \A q \in Runs : pc'[q] = IF q = r THEN to ELSE pc[q]
  BY <1>3 DEF CommitInv, TypeOK
<1>4. ASSUME NEW from \in {"check_before", "check_after"},
             NEW to \in {"verify_before", "verify_after"},
             from = "check_before" <=> to = "verify_before", ReadMarker(r, from, to)
      PROVE  (ScratchIsPrivate /\ ReplayIsStable /\ OwnReplay)'
  <2>1. /\ pc[r] = from /\ \A q \in Runs : pc'[q] = IF q = r THEN to ELSE pc[q]
        /\ \A q \in Runs : seen'[q] = IF q = r THEN live["manifest"] ELSE seen[q]
        /\ UNCHANGED << live, why, replayed >>
    BY <1>3, <1>4 DEF ReadMarker, Step, Goto, directory, CommitInv, TypeOK
  <2>2. ScratchIsPrivate' /\ ReplayIsStable'
    BY <2>1 DEF ScratchIsPrivate, ReplayIsStable
  <2>3. OwnReplay'
    BY <1>4, <2>1 DEF OwnReplay, CaptureSteps
  <2>4. QED
    BY <2>2, <2>3
<1>5. CASE VerifyBytes(r, "verify_before", "open") \/ VerifyBytes(r, "verify_after", "emit")
  <2>1. PICK from \in {"verify_before", "verify_after"}, to \in {"open", "emit"} :
          VerifyBytes(r, from, to) /\ (from = "verify_before" <=> to = "open")
    BY <1>5
  <2>2. /\ pc[r] = from /\ \A q \in Runs : pc'[q] = IF q = r THEN to ELSE pc[q]
        /\ seen[r] = r /\ \A q \in Runs : seen'[q] = IF q = r THEN NoRun ELSE seen[q]
        /\ UNCHANGED << live, why, replayed >>
    BY <1>3, <2>1 DEF VerifyBytes, SameOperator, Step, Goto, directory, CommitInv, TypeOK
  <2>3. ScratchIsPrivate' /\ ReplayIsStable'
    BY <2>2 DEF ScratchIsPrivate, ReplayIsStable
  <2>4. OwnReplay'
    BY <2>1, <2>2 DEF OwnReplay, CaptureSteps
  <2>5. QED
    BY <2>3, <2>4
<1>6. CASE OpenProvider(r)
  <2>1. /\ pc[r] = "open" /\ \A q \in Runs : pc'[q] = IF q = r THEN "replay" ELSE pc[q]
        /\ \A q \in Runs : seen'[q] = IF q = r THEN live["manifest"] ELSE seen[q]
        /\ live["hdf5"] = live["manifest"]
        /\ UNCHANGED << live, why, replayed >>
    BY <1>3, <1>6 DEF OpenProvider, Openable, Verified, Step, Goto, directory, CommitInv, TypeOK
  <2>2. ScratchIsPrivate' /\ ReplayIsStable'
    BY <2>1 DEF ScratchIsPrivate, ReplayIsStable
  <2>3. OwnReplay'
    BY <2>1 DEF OwnReplay, CaptureSteps
  <2>4. QED
    BY <2>2, <2>3
<1>7. CASE ReplayGroup(r)
  <2>1. PICK to \in {"open", "check_after"} : pc' = [pc EXCEPT ![r] = to]
    BY <1>7 DEF ReplayGroup, Goto
  <2>2. /\ pc[r] = "replay" /\ \A q \in Runs : pc'[q] = IF q = r THEN to ELSE pc[q]
        /\ \A q \in Runs : seen'[q] = IF q = r THEN NoRun ELSE seen[q]
        /\ \A q \in Runs : replayed'[q] = IF q = r THEN replayed[q] \cup {live["hdf5"]}
                                          ELSE replayed[q]
        /\ UNCHANGED << live, why >>
    BY <1>3, <1>7, <2>1 DEF ReplayGroup, directory, CommitInv, TypeOK
  <2>3. live["hdf5"] = live["manifest"]
    BY <2>2 DEF ReplayIsStable
  <2>4. ScratchIsPrivate' /\ ReplayIsStable'
    BY <2>2 DEF ScratchIsPrivate, ReplayIsStable
  <2>5. live["manifest"] = r => replayed'[r] \subseteq {r}
    <3>1. live["manifest"] = r => replayed[r] \subseteq {r}
      BY <2>2 DEF OwnReplay
    <3>2. replayed'[r] = replayed[r] \cup {live["hdf5"]}
      BY <2>2
    <3>3. QED
      BY <2>3, <3>1, <3>2
  <2>6. OwnReplay'
    <3>1. to \notin {"start", "check_before", "verify_before", "verify_after", "emit", "done"}
          /\ to \notin CaptureSteps
      BY <2>1 DEF CaptureSteps
    <3>2. \A q \in Runs \ {r} : pc'[q] = pc[q] /\ replayed'[q] = replayed[q] /\ seen'[q] = seen[q]
      BY <2>2
    <3>3. pc'[r] = to /\ live' = live
      BY <2>2
    <3>4. QED
      BY <2>5, <3>1, <3>2, <3>3 DEF OwnReplay
  <2>7. QED
    BY <2>4, <2>6
<1>8. CASE Emit(r)
  <2>1. /\ pc[r] = "emit" /\ \A q \in Runs : pc'[q] = IF q = r THEN "done" ELSE pc[q]
        /\ UNCHANGED << live, why, seen, replayed >>
    BY <1>3, <1>8 DEF Emit, Step, Goto, directory
  <2>2. ScratchIsPrivate' /\ ReplayIsStable'
    BY <2>1 DEF ScratchIsPrivate, ReplayIsStable
  <2>3. OwnReplay'
    BY <2>1 DEF OwnReplay, CaptureSteps
  <2>4. QED
    BY <2>2, <2>3
<1>9. QED
  BY <1>1, <1>2, <1>4, <1>5, <1>6, <1>7, <1>8 DEF Replay, CheckAfter

LEMMA NextReplayInv ==
  ASSUME ReplayInv, [Next]_vars
  PROVE  ReplayInv'
<1>1. CommitInv'
  BY NextCommitInv DEF ReplayInv
<1>2. ASSUME NEW r \in Runs, Capture(r)
      PROVE  (ScratchIsPrivate /\ ReplayIsStable /\ OwnReplay)'
  <2>1. ~ ScratchChanged(r)
    BY DEF ScratchChanged, ScratchIsSealed, ReplayInv, CommitInv, Scratch, HasScratch
  <2>2. CASE AcquireBusy(r)
    BY <2>2, GiveUpReplayInv DEF AcquireBusy
  <2>3. QED
    BY <1>2, <2>1, <2>2, CaptureReplayInv
<1>3. ASSUME NEW r \in Runs, Replay(r)
      PROVE  (ScratchIsPrivate /\ ReplayIsStable /\ OwnReplay)'
  BY <1>3, ReplayReplayInv
<1>4. ASSUME NEW r \in Runs, Fail(r)
      PROVE  (ScratchIsPrivate /\ ReplayIsStable /\ OwnReplay)'
  BY <1>4, GiveUpReplayInv DEF Fail
<1>5. CASE Crash
  <2>1. /\ pc' = [r \in Runs |-> IF pc[r] \in Running THEN "lost" ELSE pc[r]]
        /\ UNCHANGED << why, seen, replayed >>
    BY <1>5 DEF Crash
  <2>2. \A q \in Runs : pc'[q] \in {"start"} \cup Ended /\ (pc'[q] # "lost" => pc'[q] = pc[q])
    BY <2>1 DEF ReplayInv, CommitInv, TypeOK, Ended
  <2>3. ScratchIsPrivate'
    BY <2>1 DEF ReplayInv, ScratchIsPrivate
  <2>4. \A q \in Runs : pc'[q] \in {"start", "done", "failed", "lost"}
    BY <2>2 DEF Ended
  <2>5. ReplayIsStable'
    BY <2>4 DEF ReplayIsStable
  <2>6. OwnReplay'
    <3>1. \A q \in Runs : pc'[q] \in {"start", "done"} => pc'[q] = pc[q]
      BY <2>2
    <3>2. OwnReplay
      BY DEF ReplayInv
    <3>3. QED
      BY <2>1, <2>4, <3>1, <3>2 DEF OwnReplay, CaptureSteps
  <2>7. QED
    BY <1>1, <2>3, <2>5, <2>6 DEF ReplayInv
<1>6. CASE UNCHANGED vars
  <2>1. UNCHANGED << live, pc, why, seen, replayed >>
    BY <1>6 DEF vars, directory, process
  <2>2. QED
    BY <1>1, <2>1 DEF ReplayInv, ScratchIsPrivate, ReplayIsStable, OwnReplay
<1>7. QED
  BY <1>1, <1>2, <1>3, <1>4, <1>5, <1>6 DEF Next, Finished, ReplayInv

THEOREM ReplayInductive ==
  Spec => []ReplayInv
<1>1. Init => ReplayInv
  <2>1. SUFFICES ASSUME Init PROVE ReplayInv
    OBVIOUS
  <2>2. ScratchIsPrivate /\ ReplayIsStable /\ OwnReplay
    BY <2>1 DEF Init, ScratchIsPrivate, ReplayIsStable, OwnReplay
  <2>3. QED
    BY <2>1, <2>2, InitCommitInv DEF ReplayInv
<1>2. ReplayInv /\ [Next]_vars => ReplayInv'
  BY NextReplayInv
<1>3. QED
  BY <1>1, <1>2, PTL DEF Spec

(* No capture is refused for bytes another run changed under it                 *)
(* (CovarianceArtifactTransaction).                                          *)
THEOREM NoScratchInterference ==
  Spec => []ScratchIsPrivate
<1>1. ReplayInv => ScratchIsPrivate
  BY DEF ReplayInv
<1>2. QED
  BY <1>1, ReplayInductive, PTL

(* An open provider's operator stays as it was verified                        *)
(* (acquire_covariance_artifact_read_lock).                                   *)
THEOREM ProviderStable ==
  Spec => []ReplayIsStable
<1>1. ReplayInv => ReplayIsStable
  BY DEF ReplayInv
<1>2. QED
  BY <1>1, ReplayInductive, PTL

(* The two checks of emit are enough: a factor is never emitted from another     *)
(* run's operator blocks, whatever happened between tile groups.                *)
THEOREM FactorIsOwn ==
  Spec => []FactorFromOwnOperator
<1>1. ReplayInv => FactorFromOwnOperator
  BY DEF ReplayInv, OwnReplay, FactorFromOwnOperator
<1>2. QED
  BY <1>1, ReplayInductive, PTL

(***************************************************************************)
(* Commits                                                                 *)
(***************************************************************************)

(* A committed marker that stands is in every image, and its run is past its      *)
(* capture.                                                                *)
DurableCommits ==
  \A r \in committed :
    /\ pc[r] \notin {"start"} \cup CaptureSteps
    /\ live["manifest"] = r => \A dir \in images : dir["manifest"] = r

Durable == CommitInv /\ DurableCommits

MarkerKept ==
  /\ live'["manifest"] = live["manifest"]
  /\ \A dir \in images' : \E old \in images : dir["manifest"] = old["manifest"]

LEMMA MarkerUntouched ==
  ASSUME NEW changes, "manifest" \notin DOMAIN changes, live \in Directories,
         images \subseteq Directories, Change(changes)
  PROVE  MarkerKept
BY DEF MarkerKept, Change, Updated, Directories, Names

(* What a capture step does to the marker: it keeps it, syncs it, removes it, or   *)
(* puts its own where none stands.                                            *)
LEMMA CaptureMarker ==
  ASSUME CommitInv, NEW r \in Runs, Capture(r), ~ AcquireBusy(r), ~ ScratchChanged(r)
  PROVE  \/ MarkerKept /\ UNCHANGED committed
         \/ live'["manifest"] = NoRun /\ UNCHANGED committed
            /\ pc[r] = "remove_marker" /\ pc'[r] = "sync_removed"
         \/ live["manifest"] = NoRun /\ live'["manifest"] = r /\ UNCHANGED committed
            /\ pc'[r] \in CaptureSteps
         \/ images' = {live} /\ live' = live /\ committed' = committed \cup {r}
            /\ pc'[r] = "check_before"
<1>. USE DEF Step, Goto, directory, CaptureSteps, SyncDirectory, CommitInv
<1>1. live \in Directories /\ images \subseteq Directories /\ live \in images
      /\ pc \in [Runs -> {"start"} \cup Running \cup Ended]
  BY DEF TypeOK
<1>2. UNCHANGED << live, images >> => MarkerKept
  BY DEF MarkerKept
<1>3. CASE Acquire(r) \/ Seal(r) \/ SyncScratch(r) \/ SyncWritten(r)
  BY <1>2, <1>3 DEF Acquire, Seal, SyncScratch, SyncWritten
<1>4. CASE RecoverScratch(r) \/ CreateScratch(r) \/ WriteManifest(r)
  <2>1. UNCHANGED committed
    BY <1>4 DEF RecoverScratch, CreateScratch, WriteManifest
  <2>2. CASE UNCHANGED directory
    BY <1>2, <2>1, <2>2
  <2>3. ASSUME NEW name \in {"hdf5_scratch", "manifest_scratch"}, NEW entry,
               Change([n \in {name} |-> entry])
        PROVE  MarkerKept
    BY <1>1, <2>3, MarkerUntouched
  <2>4. QED
    BY <1>4, <2>1, <2>2, <2>3 DEF RecoverScratch, CreateScratch, WriteManifest
<1>5. CASE RemoveMarker(r)
  <2>1. CASE live["manifest"] = NoRun
    BY <1>2, <1>5, <2>1 DEF RemoveMarker
  <2>2. CASE live["manifest"] # NoRun
    BY <1>1, <1>5, <2>2, ManifestChange DEF RemoveMarker
  <2>3. QED
    BY <2>1, <2>2
<1>6. CASE SyncRemoved(r) \/ SyncHdf5(r)
  BY <1>1, <1>6 DEF SyncRemoved, SyncHdf5, MarkerKept
<1>7. CASE RenameHdf5(r)
  <2>1. "manifest" \notin DOMAIN [name \in {"hdf5", "hdf5_scratch"} |->
               IF name = "hdf5" THEN live["hdf5_scratch"] ELSE NoRun]
    OBVIOUS
  <2>2. QED
    BY <1>1, <1>7, <2>1, MarkerUntouched DEF RenameHdf5
<1>8. CASE RenameManifest(r)
  <2>. DEFINE changes == [name \in {"manifest", "manifest_scratch"} |->
               IF name = "manifest" THEN live["manifest_scratch"] ELSE NoRun]
  <2>1. "manifest" \in DOMAIN changes /\ changes["manifest"] = live["manifest_scratch"]
    OBVIOUS
  <2>2. live["manifest_scratch"] = r /\ live["manifest"] = NoRun
    BY <1>1, <1>8 DEF RenameManifest, Scratch, HasManifest, Ordered, NoMarkerAnywhere
  <2>3. Change(changes)
    BY <1>8 DEF RenameManifest
  <2>. HIDE DEF changes
  <2>4. live'["manifest"] = r
    BY <1>1, <2>1, <2>2, <2>3, ManifestChange
  <2>5. pc'[r] = "sync_manifest" /\ UNCHANGED committed
    BY <1>1, <1>8 DEF RenameManifest
  <2>6. QED
    BY <2>2, <2>4, <2>5
<1>9. CASE SyncManifest(r)
  BY <1>1, <1>9 DEF SyncManifest
<1>10. QED
  BY <1>3, <1>4, <1>5, <1>6, <1>7, <1>8, <1>9 DEF Capture, VerifyScratch

(* Outside a capture no step touches the directory, but a power loss.             *)
LEMMA OutsideCapture ==
  ASSUME TypeOK, NEW r \in Runs, Replay(r) \/ Fail(r) \/ AcquireBusy(r) \/ ScratchChanged(r)
  PROVE  UNCHANGED << live, images, committed >>
         /\ \E step \in {"failed", "done"} \cup ReplaySteps : pc' = [pc EXCEPT ![r] = step]
<1>1. ASSUME NEW reason, GiveUp(r, reason)
      PROVE  UNCHANGED << live, images, committed >> /\ pc' = [pc EXCEPT ![r] = "failed"]
  BY <1>1 DEF GiveUp, Goto, directory
<1>2. ASSUME NEW from, NEW to, ReadMarker(r, from, to) \/ VerifyBytes(r, from, to)
      PROVE  UNCHANGED << live, images, committed >> /\ pc' = [pc EXCEPT ![r] = to]
  BY <1>2 DEF ReadMarker, VerifyBytes, Step, Goto, directory
<1>3. ASSUME NEW from, NoMarker(r, from) \/ OperatorChanged(r, from)
      PROVE  UNCHANGED << live, images, committed >> /\ pc' = [pc EXCEPT ![r] = "failed"]
  BY <1>1, <1>3 DEF NoMarker, OperatorChanged
<1>4. CASE Fail(r) \/ AcquireBusy(r) \/ ScratchChanged(r) \/ OpenRefused(r)
  BY <1>1, <1>4 DEF Fail, AcquireBusy, ScratchChanged, OpenRefused
<1>5. CASE OpenProvider(r) \/ ReplayGroup(r) \/ Emit(r)
  BY <1>5 DEF OpenProvider, ReplayGroup, Emit, Step, Goto, directory, ReplaySteps
<1>6. QED
  BY <1>2, <1>3, <1>4, <1>5 DEF Replay, CheckAfter, ReplaySteps

LEMMA NextDurable ==
  ASSUME Durable, [Next]_vars
  PROVE  /\ Durable'
         /\ \A r \in committed : live["manifest"] = r /\ live'["manifest"] # r =>
              \E q \in Runs : pc[q] = "remove_marker" /\ pc'[q] = "sync_removed"
<1>. USE ArtifactAssumption DEF Durable
<1>1. CommitInv' /\ live \in images /\ committed \subseteq Runs
      /\ pc \in [Runs -> {"start"} \cup Running \cup Ended]
  BY NextCommitInv DEF CommitInv, TypeOK
<1>2. ASSUME NEW r \in Runs, Capture(r), ~ AcquireBusy(r), ~ ScratchChanged(r)
      PROVE  /\ DurableCommits'
             /\ \A q \in committed : live["manifest"] = q /\ live'["manifest"] # q =>
                  pc[r] = "remove_marker" /\ pc'[r] = "sync_removed"
  <2>1. PICK step \in CaptureSteps \cup {"check_before"} : pc' = [pc EXCEPT ![r] = step]
    BY <1>2, CaptureEffect
  <2>2. r \notin committed /\ \A q \in Runs \ {r} : pc'[q] = pc[q]
    BY <1>1, <1>2, <2>1, CaptureEffect DEF DurableCommits
  <2>3. CASE MarkerKept /\ UNCHANGED committed
    BY <1>1, <2>2, <2>3 DEF DurableCommits, MarkerKept
  <2>4. CASE live'["manifest"] = NoRun /\ UNCHANGED committed
             /\ pc[r] = "remove_marker" /\ pc'[r] = "sync_removed"
    BY <1>1, <2>2, <2>4 DEF DurableCommits
  <2>5. CASE live["manifest"] = NoRun /\ live'["manifest"] = r /\ UNCHANGED committed
    BY <1>1, <2>2, <2>5 DEF DurableCommits
  <2>6. CASE images' = {live} /\ live' = live /\ committed' = committed \cup {r}
             /\ pc'[r] = "check_before"
    BY <1>1, <2>2, <2>6 DEF DurableCommits, CaptureSteps
  <2>7. QED
    BY <1>2, <2>3, <2>4, <2>5, <2>6, CaptureMarker
<1>3. ASSUME NEW r \in Runs, Replay(r) \/ Fail(r) \/ AcquireBusy(r) \/ ScratchChanged(r)
      PROVE  DurableCommits' /\ live' = live
  <2>1. PICK step \in {"failed", "done"} \cup ReplaySteps : pc' = [pc EXCEPT ![r] = step]
    BY <1>3, OutsideCapture DEF CommitInv
  <2>2. UNCHANGED << live, images, committed >>
    BY <1>3, OutsideCapture DEF CommitInv
  <2>3. \A q \in Runs : pc'[q] = IF q = r THEN step ELSE pc[q]
    BY <1>1, <2>1
  <2>4. QED
    BY <1>1, <2>2, <2>3 DEF DurableCommits, CaptureSteps, ReplaySteps
<1>4. CASE Crash
  <2>1. PICK dir \in images : live' = dir /\ images' = {dir}
    BY <1>4 DEF Crash, Lose
  <2>2. /\ pc' = [r \in Runs |-> IF pc[r] \in Running THEN "lost" ELSE pc[r]]
        /\ UNCHANGED committed
    BY <1>4 DEF Crash
  <2>3. \A r \in committed : pc'[r] \notin {"start"} \cup CaptureSteps
    BY <1>1, <2>2 DEF DurableCommits, CaptureSteps
  <2>4. QED
    BY <1>1, <2>1, <2>2, <2>3 DEF DurableCommits
<1>5. CASE UNCHANGED vars
  BY <1>1, <1>5 DEF vars, directory, process, DurableCommits
<1>6. QED
  BY <1>1, <1>2, <1>3, <1>4, <1>5 DEF Next, Finished

(* Neither a failure nor a power loss undoes a capture that returned Ok: its        *)
(* marker goes only when a later capture removes it (finalize_covariance_artifact's *)
(* last sync).                                                              *)
THEOREM CommitsHold ==
  Spec => CommitsSurvive
<1>. DEFINE Kept == \A r \in committed :
                      live["manifest"] = r /\ live'["manifest"] # r =>
                        \E q \in Runs : pc[q] = "remove_marker" /\ pc'[q] = "sync_removed"
<1>1. Init => Durable
  BY InitCommitInv DEF Init, Durable, DurableCommits
<1>2. Durable /\ [Next]_vars => Durable' /\ Kept
  BY NextDurable
<1>. HIDE DEF Kept
<1>3. Durable /\ [Next]_vars => Durable' /\ [Kept]_vars
  BY <1>2
<1>4. Spec => [][Kept]_vars
  BY <1>1, <1>3, PTL DEF Spec
<1>5. QED
  BY <1>4 DEF Kept, CommitsSurvive
===============================================================================
