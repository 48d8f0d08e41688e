-------------------------- MODULE FactorArtifactProofs --------------------------
(***************************************************************************)
(* Proofs about FactorArtifact, for any number of runs, consumers, quarantine   *)
(* slots, changes of the evidence and power losses.                           *)
(***************************************************************************)
EXTENDS FactorArtifact, TLAPS

(***************************************************************************)
(* The inductive invariant                                                 *)
(***************************************************************************)

Kinds == {"hdf5", "manifest"}
Published == Final .. Slots

(* The steps of a run, in the order it takes them.                            *)
Aside == {"aside_then_clear", "aside_then_write"}
AsideHdf5 == {"aside_hdf5_then_clear", "aside_hdf5_then_write"}
SyncAside == {"sync_aside_then_clear", "sync_aside_then_write"}
ThenWrite == {"aside_then_write", "aside_hdf5_then_write", "sync_aside_then_write"}
ThenClear == {"aside_then_clear", "aside_hdf5_then_clear", "sync_aside_then_clear"}
Unsealed == {"start", "recover", "clear", "clear_manifest", "cleared", "replay", "seal"} \cup ThenClear
Sealed == {"inspect", "write_manifest", "rename_hdf5"} \cup ThenWrite
Publishing == {"sync_hdf5", "rename_manifest", "sync_manifest"}
Steps == Unsealed \cup Sealed \cup Publishing \cup Ended

(* Only a run whose factor is whole and synced gets to publish it. *)
Progress ==
  /\ pc \in [Runs -> Steps]
  /\ \A r \in Runs :
       /\ pc[r] \in Unsealed => r \notin synced \cup torn
       /\ pc[r] \in Sealed \cup Publishing => r \in synced
       /\ pc[r] \in Sealed => live[At("hdf5", Scratch)] = r
       /\ pc[r] \in {"rename_hdf5", "sync_hdf5", "rename_manifest"} => live[At("manifest", Scratch)] = r
       /\ sealedFor[r] <= evidence

(* What a run cleared out of its way is gone from every image before it puts     *)
(* its own in that place, and its bytes are on disk there before the manifest.  *)
Ordered ==
  \A r \in Runs :
    /\ pc[r] \in {"replay", "seal", "inspect"} =>
         \A dir \in images, kind \in Kinds : dir[At(kind, Final)] = live[At(kind, Final)]
    /\ pc[r] \in {"write_manifest", "rename_hdf5"} =>
         \A dir \in images, kind \in Kinds : dir[At(kind, Final)] = NoRun
    /\ pc[r] \in {"sync_hdf5", "rename_manifest"} =>
         \A dir \in images : dir[At("manifest", Final)] = NoRun
    /\ pc[r] = "sync_hdf5" => live[At("hdf5", Final)] = r
    /\ pc[r] \in {"rename_manifest", "sync_manifest"} =>
         \A dir \in images : dir[At("hdf5", Final)] = r
    /\ pc[r] = "sync_manifest" => live[At("manifest", Final)] = r

(* A pair on its way into quarantine cannot become valid, and its slot is free.  *)
Quarantining ==
  \A r \in Runs :
    /\ pc[r] \in Aside => ~ Verified /\ live[At("manifest", slot[r])] = NoRun
    /\ pc[r] \in AsideHdf5 \cup SyncAside => ~ Present("manifest")
    /\ pc[r] \in Aside \cup AsideHdf5 => slot[r] # Final /\ live[At("hdf5", slot[r])] = NoRun
    /\ pc[r] \in SyncAside => ~ Present("hdf5")

(* An image differs from the directory only in moves that did not reach it.      *)
ImagesLag ==
  \A dir \in images, kind \in Kinds, place \in Published :
    \/ dir[At(kind, place)] \in {NoRun, live[At(kind, place)]}
    \/ place = Final /\ live[At(kind, place)] = NoRun

(* What a run publishes is in one place. *)
OnePlace ==
  \A dir \in images, kind \in Kinds, p, q \in Published :
    dir[At(kind, p)] = dir[At(kind, q)] => p = q \/ dir[At(kind, p)] = NoRun

(* It is nowhere before the run renames it there.                             *)
Unpublished ==
  \A r \in Runs, dir \in images, place \in Published :
    /\ pc[r] \in Unsealed \cup Sealed => dir[At("hdf5", place)] # r
    /\ pc[r] \in Unsealed \cup Sealed \cup (Publishing \ {"sync_manifest"})
         => dir[At("manifest", place)] # r

Disk == PairNeverMixed /\ CommittedKept /\ ImagesLag /\ OnePlace
FactorInv == TypeOK /\ Progress /\ Ordered /\ Quarantining /\ Unpublished /\ Disk

(* As long as the pair a consumer names is still the valid one, it has read       *)
(* nothing else; once it is not, it never is again.                            *)
Consuming ==
  \A c \in Consumers :
    /\ reader[c] = "start" => used[c] = {}
    /\ reader[c] = "revalidate" => used[c] # {}
    /\ reader[c] \in {"read", "revalidate"} =>
         /\ factor[c] \in Runs /\ pc[factor[c]] \in Ended
         /\ Verified /\ Owner = factor[c] => used[c] \subseteq {factor[c]}

LEMMA InitFactorInv ==
  Init => FactorInv /\ Consuming
<1>. SUFFICES ASSUME Init PROVE FactorInv /\ Consuming
  OBVIOUS
<1>. USE FactorAssumption DEF Init, DirectoryInit
<1>1. TypeOK
  BY DEF TypeOK, Names, Files, Ended, Final
<1>2. \A kind \in Kinds, place \in Places : live[At(kind, place)] = NoRun
  BY DEF Kinds, At, Names
<1>3. Progress /\ Ordered /\ Quarantining
  BY <1>2 DEF Progress, Ordered, Quarantining, Steps, Unsealed, Sealed, Publishing, ThenClear,
              ThenWrite, Aside, AsideHdf5, SyncAside
<1>4. Published \subseteq Places /\ Final \in Published
  BY DEF Published, Places, Scratch, Final
<1>5. Unpublished /\ Disk
  BY <1>2, <1>4 DEF Unpublished, Disk, PairNeverMixed, CommittedKept, ImagesLag, OnePlace, Kinds
<1>6. QED
  BY <1>1, <1>3, <1>5 DEF FactorInv, Consuming

(***************************************************************************)
(* What the operations do to the directory                                  *)
(***************************************************************************)

LEMMA Naming ==
  /\ Published \subseteq Places /\ Final \in Published /\ Scratch \in Places
  /\ Scratch \notin Published
  /\ \A kind \in Kinds, place \in Places : At(kind, place) \in Names
  /\ \A k, l \in Kinds, p, q \in Places : At(k, p) = At(l, q) => k = l /\ p = q
BY FactorAssumption DEF Published, Places, Scratch, Final, Kinds, Names, At

Directories == [Names -> Files]
Typed == live \in images /\ images \subseteq Directories

(* An entry of a directory after a move within one kind of name.               *)
Moved(new, old, kind, from, to, entry) ==
  \A k \in Kinds, p \in Places :
    new[At(k, p)] = IF k = kind /\ p = to THEN entry
                    ELSE IF k = kind /\ p = from THEN NoRun ELSE old[At(k, p)]

LEMMA ChangeShape ==
  ASSUME NEW changes, DOMAIN changes \subseteq Names,
         \A name \in DOMAIN changes : changes[name] \in Files,
         Typed, Change(changes)
  PROVE  /\ Typed'
         /\ \A name \in Names :
              live'[name] = IF name \in DOMAIN changes THEN changes[name] ELSE live[name]
         /\ \A dir \in images' : dir \in images \/ \E old \in images : \A name \in Names :
              dir[name] = IF name \in DOMAIN changes THEN changes[name] ELSE old[name]
<1>1. \A dir \in Directories :
        /\ Updated(dir, changes) \in Directories
        /\ \A name \in Names : Updated(dir, changes)[name]
             = IF name \in DOMAIN changes THEN changes[name] ELSE dir[name]
  BY DEF Updated, Directories
<1>2. live' = Updated(live, changes)
      /\ images' = images \cup {Updated(dir, changes) : dir \in images}
  BY DEF Change
<1>3. QED
  BY <1>1, <1>2 DEF Typed

LEMMA RenameShape ==
  ASSUME NEW kind \in Kinds, NEW from \in Places, NEW to \in Places, from # to,
         Typed, Rename(At(kind, from), At(kind, to))
  PROVE  /\ Typed'
         /\ Moved(live', live, kind, from, to, live[At(kind, from)])
         /\ \A dir \in images' : dir \in images
              \/ \E old \in images : Moved(dir, old, kind, from, to, live[At(kind, from)])
<1>. DEFINE a == At(kind, from)
            b == At(kind, to)
            changes == [name \in {a, b} |-> IF name = b THEN live[a] ELSE NoRun]
<1>1. a \in Names /\ b \in Names /\ a # b /\ live[a] \in Files
  BY Naming DEF Typed, Directories
<1>2. DOMAIN changes = {a, b} /\ changes[b] = live[a] /\ changes[a] = NoRun
  BY <1>1
<1>3. Change(changes)
  BY DEF Rename
<1>4. \A name \in DOMAIN changes : changes[name] \in Files
  BY <1>1, <1>2 DEF Files
<1>. HIDE DEF changes
<1>5. /\ Typed'
      /\ \A name \in Names :
           live'[name] = IF name \in DOMAIN changes THEN changes[name] ELSE live[name]
      /\ \A dir \in images' : dir \in images \/ \E old \in images : \A name \in Names :
           dir[name] = IF name \in DOMAIN changes THEN changes[name] ELSE old[name]
  BY <1>1, <1>2, <1>3, <1>4, ChangeShape
<1>6. ASSUME NEW new, NEW old,
             \A name \in Names :
               new[name] = IF name \in DOMAIN changes THEN changes[name] ELSE old[name]
      PROVE  Moved(new, old, kind, from, to, live[a])
  BY <1>1, <1>2, <1>6, Naming DEF Moved
<1>7. QED
  BY <1>5, <1>6

(* A change of the scratch directory leaves what is published alone.            *)
Same(new, old) == \A kind \in Kinds, place \in Published : new[At(kind, place)] = old[At(kind, place)]
Quiet == /\ Typed' /\ Same(live', live)
         /\ \A dir \in images' : \E old \in images : Same(dir, old)

LEMMA ScratchShape ==
  ASSUME NEW kind \in Kinds, NEW entry \in Files, Typed,
         Change([name \in {At(kind, Scratch)} |-> entry])
  PROVE  /\ Quiet
         /\ live'[At(kind, Scratch)] = entry
         /\ \A other \in Kinds \ {kind} : live'[At(other, Scratch)] = live[At(other, Scratch)]
<1>. DEFINE changes == [name \in {At(kind, Scratch)} |-> entry]
<1>1. DOMAIN changes = {At(kind, Scratch)} /\ changes[At(kind, Scratch)] = entry
  OBVIOUS
<1>2. Change(changes)
  OBVIOUS
<1>3. DOMAIN changes \subseteq Names
  BY <1>1, Naming
<1>. HIDE DEF changes
<1>4. /\ Typed'
      /\ \A name \in Names :
           live'[name] = IF name \in DOMAIN changes THEN changes[name] ELSE live[name]
      /\ \A dir \in images' : dir \in images \/ \E old \in images : \A name \in Names :
           dir[name] = IF name \in DOMAIN changes THEN changes[name] ELSE old[name]
  BY <1>1, <1>2, <1>3, ChangeShape
<1>5. ASSUME NEW new, NEW old,
             \A name \in Names :
               new[name] = IF name \in DOMAIN changes THEN changes[name] ELSE old[name]
      PROVE  Same(new, old)
  BY <1>1, <1>5, Naming DEF Same
<1>6. QED
  BY <1>1, <1>4, <1>5, Naming DEF Quiet, Same

LEMMA StillQuiet ==
  ASSUME Typed, UNCHANGED directory
  PROVE  Quiet
BY DEF Quiet, Typed, Same, directory

LEMMA SyncQuiet ==
  ASSUME Typed, SyncDirectory
  PROVE  Quiet /\ images' = {live} /\ live' = live
BY DEF Quiet, Typed, Same, SyncDirectory

(* Then the pairs, the committed factors and the images keep what they had.     *)
LEMMA QuietDisk ==
  ASSUME Disk, Quiet, UNCHANGED committed
  PROVE  Disk'
<1>. USE Naming DEF Disk, Quiet, Same
<1>1. PairNeverMixed'
  BY DEF PairNeverMixed, Kinds
<1>2. CommittedKept'
  BY DEF CommittedKept, Kinds, Published
<1>3. ImagesLag'
  BY DEF ImagesLag
<1>4. OnePlace'
  BY DEF OnePlace
<1>5. QED
  BY <1>1, <1>2, <1>3, <1>4

(***************************************************************************)
(* What the steps do to the runs                                            *)
(***************************************************************************)

Holding == Steps \ (Ended \cup {"start"})

(* The holder of the lock is the only run between its start and its end.        *)
LEMMA Alone ==
  ASSUME TypeOK, Progress, NEW r \in Runs, pc[r] \in Holding
  PROVE  writer = r /\ \A q \in Runs \ {r} : pc[q] \in Ended \cup {"start"}
BY FactorAssumption DEF TypeOK, Progress, Holding

LEMMA StepNames ==
  /\ Unsealed \cap Sealed = {} /\ Unsealed \cap Publishing = {} /\ Sealed \cap Publishing = {}
  /\ (Unsealed \cup Sealed \cup Publishing) \cap Ended = {}
  /\ Aside \cup AsideHdf5 \cup SyncAside = ThenClear \cup ThenWrite
  /\ ThenClear \subseteq Unsealed /\ ThenWrite \subseteq Sealed
BY DEF Unsealed, Sealed, Publishing, Ended, Aside, AsideHdf5, SyncAside, ThenClear, ThenWrite

(* A run that fails, or that a power loss ends, has nothing left to keep.        *)
LEMMA EndStep ==
  ASSUME FactorInv, Consuming, NEW r \in Runs, NEW how \in {"failed", "exists"},
         pc[r] \notin Ended, pc' = [pc EXCEPT ![r] = how],
         writer' = IF writer = r THEN NoRun ELSE writer,
         UNCHANGED << directory, synced, torn, slot, sealedFor, committed, consumers, evidence, crashes >>
  PROVE  FactorInv' /\ Consuming'
<1>. USE FactorAssumption DEF FactorInv, directory, consumers
<1>1. \A q \in Runs : pc'[q] = IF q = r THEN how ELSE pc[q]
  BY DEF Progress
<1>2. TypeOK'
  BY <1>1 DEF TypeOK, Ended, Files
<1>3. Progress'
  BY <1>1 DEF Progress, Steps, Unsealed, Sealed, Publishing, ThenClear, ThenWrite, Ended
<1>4. Ordered'
  BY <1>1 DEF Ordered
<1>5. Quarantining'
  BY <1>1 DEF Quarantining, Aside, AsideHdf5, SyncAside, Verified, Owner, Present
<1>6. Unpublished'
  BY <1>1 DEF Unpublished, Unsealed, Sealed, Publishing, ThenClear, ThenWrite
<1>7. Disk'
  BY StillQuiet, QuietDisk DEF TypeOK, Typed, Directories
<1>8. Consuming'
  BY <1>1 DEF Consuming, Verified, Owner, Present, Ended
<1>9. QED
  BY <1>2, <1>3, <1>4, <1>5, <1>6, <1>7, <1>8

(* A step of the run that holds the lock, or takes it, and that changes nothing   *)
(* that is published.                                                        *)
LEMMA QuietStep ==
  ASSUME FactorInv, Consuming, NEW r \in Runs, NEW to \in Holding,
         pc' = [pc EXCEPT ![r] = to],
         writer' = r, writer \in {NoRun, r}, pc[r] \in Holding \cup {"start"},
         Quiet, UNCHANGED << torn, committed, consumers, evidence, crashes >>,
         slot' \in [Runs -> Published], sealedFor' \in [Runs -> 0 .. evidence],
         \A q \in Runs \ {r} : slot'[q] = slot[q] /\ sealedFor'[q] = sealedFor[q],
         to \in Unsealed => pc[r] \in Unsealed,
         to \in Sealed => pc[r] \in Unsealed \cup Sealed,
         to \in Publishing => pc[r] \in Publishing, pc[r] # "sync_manifest",
         synced' = IF to \in Sealed THEN synced \cup {r} ELSE synced,
         to \in Sealed => live'[At("hdf5", Scratch)] = r,
         to \in {"rename_hdf5", "sync_hdf5", "rename_manifest"} => live'[At("manifest", Scratch)] = r,
         sealedFor'[Owner] = sealedFor[Owner]
  PROVE  /\ TypeOK' /\ Progress' /\ Unpublished' /\ Disk' /\ Consuming'
         /\ \A q \in Runs : pc'[q] = IF q = r THEN to ELSE pc[q]
         /\ \A q \in Runs \ {r} : pc[q] \in Ended \cup {"start"}
         /\ Verified' <=> Verified
<1>. USE FactorAssumption DEF FactorInv, consumers
<1>1. \A q \in Runs : pc'[q] = IF q = r THEN to ELSE pc[q]
  BY DEF Progress
<1>2. \A q \in Runs \ {r} : pc[q] \in Ended \cup {"start"}
  BY DEF TypeOK, Progress, Holding
<1>3. TypeOK'
  <2>1. Typed'
    BY DEF Quiet
  <2>2. synced' \subseteq Runs /\ synced \subseteq synced' /\ torn' \subseteq Runs \ synced'
    BY StepNames DEF TypeOK, Progress
  <2>3. \A q \in Runs : pc'[q] \notin Ended \cup {"start"} <=> writer' = q
    BY <1>1, <1>2 DEF Holding, TypeOK
  <2>4. sealedFor' \in [Runs -> 0 .. MaxEvidence]
    BY DEF TypeOK
  <2>5. QED
    BY <2>1, <2>2, <2>3, <2>4 DEF TypeOK, Typed, Directories, Files, Published
<1>4. Progress'
  <2>1. pc' \in [Runs -> Steps]
    BY <1>1 DEF Progress, Holding
  <2>2. \A q \in Runs \ {r} : pc'[q] \in Ended \cup {"start"}
    BY <1>1, <1>2
  <2>3. "start" \in Unsealed
    BY DEF Unsealed
  <2>4. \A q \in Runs \ {r} :
          /\ pc'[q] \in Unsealed => q \notin synced' \cup torn'
          /\ pc'[q] \notin Sealed \cup Publishing
          /\ sealedFor'[q] <= evidence'
    BY <1>1, <2>2, <2>3, StepNames DEF Progress
  <2>5. /\ pc'[r] \in Unsealed => r \notin synced' \cup torn'
        /\ pc'[r] \in Sealed \cup Publishing => r \in synced'
        /\ sealedFor'[r] <= evidence'
    <3>1. pc'[r] = to
      BY <1>1
    <3>2. sealedFor'[r] \in 0 .. evidence /\ evidence \in Nat
      BY DEF TypeOK
    <3>3. CASE to \in Unsealed
      BY <3>1, <3>2, <3>3, StepNames DEF Progress
    <3>4. CASE to \in Sealed
      BY <3>1, <3>2, <3>4, StepNames DEF Progress
    <3>5. CASE to \in Publishing
      BY <3>1, <3>2, <3>5, StepNames DEF Progress
    <3>6. QED
      BY <3>3, <3>4, <3>5 DEF Holding, Steps
  <2>6. "rename_hdf5" \in Sealed /\ {"sync_hdf5", "rename_manifest"} \subseteq Publishing
    BY DEF Sealed, Publishing
  <2>7. QED
    BY <1>1, <2>1, <2>4, <2>5, <2>6 DEF Progress
<1>5. Unpublished'
  <2>. SUFFICES ASSUME NEW q \in Runs, NEW dir \in images', NEW place \in Published
       PROVE /\ pc'[q] \in Unsealed \cup Sealed => dir[At("hdf5", place)] # q
             /\ pc'[q] \in Unsealed \cup Sealed \cup (Publishing \ {"sync_manifest"})
                  => dir[At("manifest", place)] # q
    BY DEF Unpublished
  <2>1. PICK old \in images : Same(dir, old)
    BY DEF Quiet
  <2>2. dir[At("hdf5", place)] = old[At("hdf5", place)]
        /\ dir[At("manifest", place)] = old[At("manifest", place)]
    BY <2>1 DEF Same, Kinds
  <2>3. CASE q # r
    BY <1>1, <2>2, <2>3 DEF Unpublished
  <2>4. CASE q = r
    BY <1>1, <2>2, <2>4, StepNames DEF Unpublished
  <2>5. QED
    BY <2>3, <2>4
<1>6. Disk'
  BY QuietDisk
<1>7. Present("hdf5")' = Present("hdf5") /\ Present("manifest")' = Present("manifest")
      /\ Owner' = Owner /\ live'[At("hdf5", Final)] = live[At("hdf5", Final)]
  BY Naming DEF Quiet, Same, Kinds, Present, Owner
<1>8. Verified' <=> Verified
  BY <1>7 DEF Verified
<1>9. Consuming'
  BY <1>1, <1>7, <1>8 DEF Consuming, Holding, Ended
<1>10. QED
  BY <1>1, <1>2, <1>3, <1>4, <1>5, <1>6, <1>8, <1>9

(* Taking the lock, recovery, and what a run does in its scratch directory.       *)
LEMMA PrepareSteps ==
  ASSUME FactorInv, Consuming, NEW r \in Runs,
         Acquire(r) \/ Recover(r) \/ Clear(r) \/ SyncCleared(r) \/ Replay(r)
  PROVE  FactorInv' /\ Consuming'
<1>. USE FactorAssumption
<1>. DEFINE Frame == UNCHANGED << synced, torn, committed, consumers, evidence, crashes >>
            Lock == writer' = r /\ writer \in {NoRun, r}
            Others == UNCHANGED << slot, sealedFor >>
            Goal == TypeOK' /\ Progress' /\ Unpublished' /\ Disk' /\ Consuming'
                    /\ (\A q \in Runs \ {r} : pc'[q] \in Ended \cup {"start"})
                    /\ (Verified' <=> Verified)
<1>1. Typed
  BY DEF FactorInv, TypeOK, Typed, Directories
<1>2. slot \in [Runs -> Published] /\ sealedFor \in [Runs -> 0 .. evidence]
  BY DEF FactorInv, TypeOK, Progress, Published
<1>3. ASSUME NEW from \in (Unsealed \ ThenClear), NEW to \in (Unsealed \ {"start"}),
             pc[r] = from, Goto(r, to), Lock, Quiet, Frame, UNCHANGED sealedFor,
             slot' \in [Runs -> Published], \A q \in Runs \ {r} : slot'[q] = slot[q]
      PROVE  Goal /\ pc'[r] = to
  <2>1. /\ to \in Holding /\ from \in Holding \cup {"start"}
        /\ to \notin Sealed \cup Publishing /\ from # "sync_manifest"
        /\ to \notin {"rename_hdf5", "sync_hdf5", "rename_manifest"}
    BY DEF Holding, Steps, Unsealed, ThenClear, Sealed, ThenWrite, Publishing, Ended
  <2>2. /\ TypeOK' /\ Progress' /\ Unpublished' /\ Disk' /\ Consuming'
        /\ \A q \in Runs : pc'[q] = IF q = r THEN to ELSE pc[q]
        /\ \A q \in Runs \ {r} : pc[q] \in Ended \cup {"start"}
        /\ Verified' <=> Verified
    BY <1>2, <1>3, <2>1, QuietStep DEF Goto
  <2>3. QED
    BY <2>2
<1>. HIDE DEF Goal
<1>4. ASSUME Goal, NEW to \in {"recover", "clear", "clear_manifest", "cleared"}, pc'[r] = to
      PROVE  FactorInv' /\ Consuming'
  <2>1. \A q \in Runs : pc'[q] \in Ended \cup {"start", "recover", "clear", "clear_manifest", "cleared"}
    BY <1>4 DEF Goal
  <2>2. Ordered' /\ Quarantining'
    BY <2>1 DEF Ordered, Quarantining, Aside, AsideHdf5, SyncAside, Ended
  <2>3. QED
    BY <1>4, <2>2 DEF Goal, FactorInv
<1>5. CASE Acquire(r)
  <2>1. pc[r] = "start" /\ Goto(r, "recover") /\ Lock /\ Frame /\ Others /\ UNCHANGED directory
    BY <1>5 DEF Acquire, Step, consumers
  <2>2. Goal /\ pc'[r] = "recover"
    BY <1>1, <1>2, <1>3, <2>1, StillQuiet DEF Unsealed, ThenClear
  <2>3. QED
    BY <1>4, <2>2
<1>6. ASSUME pc[r] \in Holding PROVE writer = r
  BY <1>6, Alone DEF FactorInv
<1>7. CASE Recover(r)
  <2>1. pc[r] = "recover" /\ writer = r
    BY <1>6, <1>7 DEF Recover, Holding, Steps, Unsealed, Ended
  <2>2. CASE Goto(r, "clear") /\ UNCHANGED directory /\ Keep
    <3>1. Goal /\ pc'[r] = "clear"
      BY <1>1, <1>2, <1>3, <2>1, <2>2, StillQuiet DEF Unsealed, ThenClear, Keep, consumers
    <3>2. QED
      BY <1>4, <3>1
  <2>3. CASE Invalid /\ MoveAside(r, "aside_then_clear")
    <3>1. PICK k \in 1 .. Slots :
            /\ live[At("manifest", k)] = NoRun /\ live[At("hdf5", k)] = NoRun
            /\ slot' = [slot EXCEPT ![r] = k]
      BY <2>3 DEF MoveAside
    <3>2. Goto(r, "aside_then_clear") /\ UNCHANGED directory /\ Frame
          /\ UNCHANGED << writer, sealedFor >>
      BY <2>3 DEF MoveAside, consumers
    <3>3. slot' \in [Runs -> Published] /\ \A q \in Runs \ {r} : slot'[q] = slot[q]
      BY <1>2, <3>1 DEF Published, Final
    <3>4. Goal /\ pc'[r] = "aside_then_clear"
      BY <1>1, <1>3, <2>1, <3>2, <3>3, StillQuiet DEF Unsealed, ThenClear
    <3>5. slot'[r] = k /\ k # Final
      BY <1>2, <3>1 DEF Final
    <3>6. ~ Verified'
      BY <2>3, <3>4 DEF Goal, Invalid
    <3>7. Ordered' /\ Quarantining'
      BY <3>1, <3>2, <3>4, <3>5, <3>6 DEF Goal, Ordered, Quarantining, Aside, AsideHdf5, SyncAside,
            Ended, directory
    <3>8. QED
      BY <3>4, <3>7 DEF Goal, FactorInv
  <2>4. QED
    BY <1>7, <2>2, <2>3 DEF Recover
<1>8. CASE Clear(r)
  <2>1. PICK kind \in Kinds, to \in {"clear_manifest", "cleared"} :
          /\ pc[r] \in {"clear", "clear_manifest"} /\ Goto(r, to)
          /\ Change([n \in {At(kind, Scratch)} |-> NoRun])
          /\ Frame /\ Others /\ UNCHANGED writer
    BY <1>8 DEF Clear, Step, Remove, Keep, consumers, Kinds
  <2>2. Quiet
    BY <1>1, <2>1, ScratchShape DEF Files
  <2>3. writer = r
    BY <1>6, <2>1 DEF Holding, Steps, Unsealed, Ended
  <2>4. Goal /\ pc'[r] = to
    BY <1>2, <1>3, <2>1, <2>2, <2>3 DEF Unsealed, ThenClear
  <2>5. QED
    BY <1>4, <2>4
<1>9. CASE SyncCleared(r)
  <2>1. pc[r] = "cleared" /\ Goto(r, "replay") /\ SyncDirectory /\ Frame /\ Others /\ UNCHANGED writer
    BY <1>9 DEF SyncCleared, Step, Keep, consumers
  <2>2. Quiet /\ images' = {live} /\ live' = live
    BY <1>1, <2>1, SyncQuiet
  <2>3. writer = r
    BY <1>6, <2>1 DEF Holding, Steps, Unsealed, Ended
  <2>4. Goal /\ pc'[r] = "replay"
    BY <1>2, <1>3, <2>1, <2>2, <2>3 DEF Unsealed, ThenClear
  <2>5. Ordered' /\ Quarantining'
    BY <2>2, <2>4 DEF Goal, Ordered, Quarantining, Aside, AsideHdf5, SyncAside, Ended
  <2>6. QED
    BY <2>4, <2>5 DEF Goal, FactorInv
<1>10. CASE Replay(r)
  <2>1. pc[r] = "replay" /\ Goto(r, "seal") /\ Change([name \in {At("hdf5", Scratch)} |-> r])
        /\ sealedFor' = [sealedFor EXCEPT ![r] = evidence]
        /\ Frame /\ UNCHANGED << writer, slot >>
    BY <1>10 DEF Replay, Step, consumers
  <2>2. Quiet
    BY <1>1, <2>1, ScratchShape DEF Files, Kinds
  <2>3. writer = r
    BY <1>6, <2>1 DEF Holding, Steps, Unsealed, Ended
  <2>4. Owner # r
    BY <2>1, Naming DEF FactorInv, Unpublished, Unsealed, Owner, TypeOK
  <2>5. sealedFor' \in [Runs -> 0 .. evidence] /\ sealedFor'[Owner] = sealedFor[Owner]
        /\ \A q \in Runs \ {r} : sealedFor'[q] = sealedFor[q]
    BY <1>2, <2>1, <2>4 DEF FactorInv, TypeOK
  <2>6. /\ "seal" \in Holding /\ "replay" \in Holding /\ "seal" \in Unsealed /\ "replay" \in Unsealed
        /\ "seal" \notin Sealed \cup Publishing
    BY DEF Holding, Steps, Unsealed, Ended, Sealed, ThenWrite, Publishing
  <2>7. /\ TypeOK' /\ Progress' /\ Unpublished' /\ Disk' /\ Consuming'
        /\ \A q \in Runs : pc'[q] = IF q = r THEN "seal" ELSE pc[q]
        /\ \A q \in Runs \ {r} : pc[q] \in Ended \cup {"start"}
        /\ Verified' <=> Verified
    BY <1>2, <2>1, <2>2, <2>3, <2>5, <2>6, QuietStep DEF Goto
  <2>8. Ordered'
    BY <2>1, <2>2, <2>7, Naming DEF FactorInv, Ordered, Ended, Quiet, Same
  <2>9. Quarantining'
    BY <2>7 DEF Quarantining, Aside, AsideHdf5, SyncAside, Ended
  <2>10. QED
    BY <2>7, <2>8, <2>9 DEF FactorInv
<1>11. QED
  BY <1>5, <1>7, <1>8, <1>9, <1>10

(* Sealing the factor, and looking at what stands in its place.                  *)
LEMMA SealSteps ==
  ASSUME FactorInv, Consuming, NEW r \in Runs,
         Seal(r) \/ StaleEvidence(r) \/ Inspect(r) \/ WriteManifest(r) \/ SyncHdf5(r)
  PROVE  FactorInv' /\ Consuming'
<1>. USE FactorAssumption
<1>. DEFINE Frame == UNCHANGED << torn, committed, consumers, evidence, crashes, writer, sealedFor >>
            Goal == TypeOK' /\ Progress' /\ Unpublished' /\ Disk' /\ Consuming'
                    /\ (\A q \in Runs \ {r} : pc'[q] \in Ended \cup {"start"})
                    /\ (Verified' <=> Verified)
<1>1. Typed
  BY DEF FactorInv, TypeOK, Typed, Directories
<1>2. slot \in [Runs -> Published] /\ sealedFor \in [Runs -> 0 .. evidence]
  BY DEF FactorInv, TypeOK, Progress, Published
<1>3. /\ {"seal", "inspect", "write_manifest", "rename_hdf5", "sync_hdf5", "rename_manifest",
          "aside_then_write"} \subseteq Holding
      /\ {"inspect", "write_manifest", "rename_hdf5", "aside_then_write"} \subseteq Sealed
      /\ "seal" \in Unsealed /\ {"sync_hdf5", "rename_manifest"} \subseteq Publishing
  BY DEF Holding, Steps, Unsealed, Ended, Sealed, ThenWrite, Publishing
<1>4. pc[r] \in Holding => writer = r
  BY Alone DEF FactorInv
<1>5. ASSUME NEW from \in {"seal", "inspect", "write_manifest"},
             NEW to \in {"inspect", "write_manifest", "rename_hdf5", "aside_then_write"},
             pc[r] = from, Goto(r, to), Quiet, Frame,
             slot' \in [Runs -> Published], \A q \in Runs \ {r} : slot'[q] = slot[q],
             synced' = synced \cup {r},
             live'[At("hdf5", Scratch)] = r,
             to = "rename_hdf5" => live'[At("manifest", Scratch)] = r
      PROVE  Goal /\ pc'[r] = to
  <2>1. /\ to \in Holding /\ from \in Holding /\ to \in Sealed /\ from \in Unsealed \cup Sealed
        /\ to \notin Unsealed \cup Publishing /\ from # "sync_manifest"
        /\ to \notin {"sync_hdf5", "rename_manifest"}
    BY <1>3, StepNames
  <2>2. /\ TypeOK' /\ Progress' /\ Unpublished' /\ Disk' /\ Consuming'
        /\ \A q \in Runs : pc'[q] = IF q = r THEN to ELSE pc[q]
        /\ \A q \in Runs \ {r} : pc[q] \in Ended \cup {"start"}
        /\ Verified' <=> Verified
    <3>1. /\ pc' = [pc EXCEPT ![r] = to] /\ writer = r /\ writer' = r /\ pc[r] = from
          /\ synced' = IF to \in Sealed THEN synced \cup {r} ELSE synced
          /\ sealedFor' \in [Runs -> 0 .. evidence] /\ sealedFor' = sealedFor
          /\ UNCHANGED << torn, committed, consumers, evidence, crashes >>
      BY <1>2, <1>4, <1>5, <2>1 DEF Goto
    <3>2. /\ Quiet /\ from \in Holding \cup {"start"} /\ writer \in {NoRun, r}
          /\ slot' \in [Runs -> Published]
          /\ \A q \in Runs \ {r} : slot'[q] = slot[q] /\ sealedFor'[q] = sealedFor[q]
          /\ to \in Unsealed => from \in Unsealed
          /\ to \in Sealed => from \in Unsealed \cup Sealed
          /\ to \in Publishing => from \in Publishing
          /\ to \in Sealed => live'[At("hdf5", Scratch)] = r
          /\ to \in {"rename_hdf5", "sync_hdf5", "rename_manifest"}
               => live'[At("manifest", Scratch)] = r
          /\ sealedFor'[Owner] = sealedFor[Owner]
      BY <1>5, <2>1, <3>1
    <3>3. QED
      BY <2>1, <3>1, <3>2, QuietStep
  <2>3. QED
    BY <2>2
<1>. HIDE DEF Goal
<1>6. ASSUME pc[r] \in {"inspect", "write_manifest"}
      PROVE  r \in synced /\ live[At("hdf5", Scratch)] = r
  BY <1>3, <1>6 DEF FactorInv, Progress
<1>7. CASE Seal(r)
  <2>1. pc[r] = "seal" /\ Goto(r, "inspect") /\ Frame /\ UNCHANGED << directory, slot >>
        /\ live[At("hdf5", Scratch)] = r /\ synced' = synced \cup {r}
    BY <1>7 DEF Seal, Step, consumers
  <2>2. Goal /\ pc'[r] = "inspect"
    BY <1>1, <1>2, <1>5, <2>1, StillQuiet DEF directory
  <2>3. Ordered'
    BY <2>1, <2>2 DEF Goal, FactorInv, Ordered, Ended, directory
  <2>4. Quarantining'
    BY <2>2 DEF Goal, Quarantining, Aside, AsideHdf5, SyncAside, Ended
  <2>5. QED
    BY <2>2, <2>3, <2>4 DEF Goal, FactorInv
<1>8. CASE StaleEvidence(r)
  <2>1. /\ pc[r] \notin Ended /\ pc' = [pc EXCEPT ![r] = "failed"] /\ writer' = NoRun
        /\ UNCHANGED << directory, synced, torn, slot, sealedFor, committed, consumers, evidence, crashes >>
    BY <1>8 DEF StaleEvidence, End, Goto, Ended
  <2>2. writer = r
    BY <1>3, <1>4, <1>8 DEF StaleEvidence
  <2>3. QED
    BY <2>1, <2>2, EndStep
<1>9. CASE Inspect(r)
  <2>1. pc[r] = "inspect"
    BY <1>9 DEF Inspect
  <2>2. CASE Absent /\ Goto(r, "write_manifest") /\ UNCHANGED directory /\ Keep
    <3>1. Goal /\ pc'[r] = "write_manifest"
      BY <1>1, <1>2, <1>5, <1>6, <2>1, <2>2, StillQuiet DEF Keep, directory, consumers
    <3>2. \A dir \in images, kind \in Kinds : dir[At(kind, Final)] = live[At(kind, Final)]
      BY <2>1 DEF FactorInv, Ordered
    <3>3. \A kind \in Kinds : live[At(kind, Final)] = NoRun
      BY <2>2 DEF Absent, Present, Kinds
    <3>4. Ordered'
      BY <2>2, <3>1, <3>2, <3>3 DEF Goal, FactorInv, Ordered, Ended, directory
    <3>5. Quarantining'
      BY <3>1 DEF Goal, Quarantining, Aside, AsideHdf5, SyncAside, Ended
    <3>6. QED
      BY <3>1, <3>4, <3>5 DEF Goal, FactorInv
  <2>3. CASE Invalid /\ MoveAside(r, "aside_then_write")
    <3>1. PICK k \in 1 .. Slots :
            /\ live[At("manifest", k)] = NoRun /\ live[At("hdf5", k)] = NoRun
            /\ slot' = [slot EXCEPT ![r] = k]
      BY <2>3 DEF MoveAside
    <3>2. Goto(r, "aside_then_write") /\ UNCHANGED directory /\ Frame /\ UNCHANGED synced
      BY <2>3 DEF MoveAside, consumers
    <3>3. slot' \in [Runs -> Published] /\ \A q \in Runs \ {r} : slot'[q] = slot[q]
      BY <1>2, <3>1 DEF Published, Final
    <3>4. Goal /\ pc'[r] = "aside_then_write"
      BY <1>1, <1>5, <1>6, <2>1, <3>2, <3>3, StillQuiet DEF directory
    <3>5. slot'[r] = k /\ k # Final
      BY <1>2, <3>1 DEF Final
    <3>6. ~ Verified'
      BY <2>3, <3>4 DEF Goal, Invalid
    <3>7. Ordered' /\ Quarantining'
      BY <3>1, <3>2, <3>4, <3>5, <3>6 DEF Goal, Ordered, Quarantining, Aside, AsideHdf5, SyncAside,
            Ended, directory
    <3>8. QED
      BY <3>4, <3>7 DEF Goal, FactorInv
  <2>4. CASE Verified /\ End(r, "exists")
    <3>1. /\ pc[r] \notin Ended /\ pc' = [pc EXCEPT ![r] = "exists"] /\ writer' = NoRun
          /\ UNCHANGED << directory, synced, torn, slot, sealedFor, committed, consumers, evidence, crashes >>
      BY <2>1, <2>4 DEF End, Goto, Ended
    <3>2. writer = r
      BY <1>3, <1>4, <2>1
    <3>3. QED
      BY <3>1, <3>2, EndStep
  <2>5. QED
    BY <1>9, <2>2, <2>3, <2>4 DEF Inspect
<1>10. CASE WriteManifest(r)
  <2>1. pc[r] = "write_manifest" /\ Goto(r, "rename_hdf5")
        /\ Change([name \in {At("manifest", Scratch)} |-> r]) /\ Frame /\ UNCHANGED << slot, synced >>
    BY <1>10 DEF WriteManifest, Step, Keep, consumers
  <2>2. Quiet /\ live'[At("manifest", Scratch)] = r
        /\ live'[At("hdf5", Scratch)] = live[At("hdf5", Scratch)]
    BY <1>1, <2>1, ScratchShape DEF Files, Kinds
  <2>3. Goal /\ pc'[r] = "rename_hdf5"
    BY <1>2, <1>5, <1>6, <2>1, <2>2
  <2>4. Ordered'
    BY <2>1, <2>2, <2>3, Naming DEF Goal, FactorInv, Ordered, Ended, Quiet, Same
  <2>5. Quarantining'
    BY <2>3 DEF Goal, Quarantining, Aside, AsideHdf5, SyncAside, Ended
  <2>6. QED
    BY <2>3, <2>4, <2>5 DEF Goal, FactorInv
<1>11. CASE SyncHdf5(r)
  <2>1. pc[r] = "sync_hdf5" /\ Goto(r, "rename_manifest") /\ SyncDirectory /\ Frame
        /\ UNCHANGED << slot, synced >>
    BY <1>11 DEF SyncHdf5, Step, Keep, consumers
  <2>2. Quiet /\ images' = {live} /\ live' = live
    BY <1>1, <2>1, SyncQuiet
  <2>3. live[At("hdf5", Final)] = r /\ live[At("manifest", Final)] = NoRun
        /\ live[At("manifest", Scratch)] = r
    BY <1>1, <2>1 DEF FactorInv, Ordered, Progress, Typed
  <2>4. /\ TypeOK' /\ Progress' /\ Unpublished' /\ Disk' /\ Consuming'
        /\ \A q \in Runs : pc'[q] = IF q = r THEN "rename_manifest" ELSE pc[q]
        /\ \A q \in Runs \ {r} : pc[q] \in Ended \cup {"start"}
        /\ Verified' <=> Verified
    <3>1. /\ "rename_manifest" \notin Unsealed \cup Sealed /\ "rename_manifest" \in Holding
          /\ "sync_hdf5" \in Publishing
      BY <1>3, StepNames
    <3>2. QED
      BY <1>2, <1>3, <1>4, <2>1, <2>2, <2>3, <3>1, QuietStep DEF Goto
  <2>5. Ordered'
    BY <2>1, <2>2, <2>3, <2>4 DEF FactorInv, Ordered, Ended
  <2>6. Quarantining'
    BY <2>4 DEF Quarantining, Aside, AsideHdf5, SyncAside, Ended
  <2>7. QED
    BY <2>4, <2>5, <2>6 DEF FactorInv
<1>12. QED
  BY <1>7, <1>8, <1>9, <1>10, <1>11

(* Moving one name of an invalid pair to a free slot keeps what was committed.    *)
LEMMA MoveDisk ==
  ASSUME Disk, Typed, NEW kind \in Kinds, NEW k \in Published, k # Final,
         live[At(kind, Final)] # NoRun, live[At(kind, k)] = NoRun,
         Rename(At(kind, Final), At(kind, k)), UNCHANGED committed
  PROVE  /\ Disk' /\ Typed'
         /\ Moved(live', live, kind, Final, k, live[At(kind, Final)])
         /\ \A dir \in images' : dir \in images
              \/ \E old \in images : Moved(dir, old, kind, Final, k, live[At(kind, Final)])
<1>. USE Naming
<1>. DEFINE entry == live[At(kind, Final)]
<1>1. /\ Typed'
      /\ Moved(live', live, kind, Final, k, entry)
      /\ \A dir \in images' : dir \in images
           \/ \E old \in images : Moved(dir, old, kind, Final, k, entry)
  BY RenameShape
<1>. HIDE DEF entry
<1>2. entry # NoRun /\ \A dir \in images : dir[At(kind, Final)] \in {NoRun, entry} /\ dir[At(kind, k)] = NoRun
  BY DEF entry, Disk, ImagesLag
<1>3. PairNeverMixed'
  <2>. SUFFICES ASSUME NEW dir \in images', dir[At("manifest", Final)] # NoRun
       PROVE dir[At("hdf5", Final)] \in {dir[At("manifest", Final)], NoRun}
    BY DEF PairNeverMixed
  <2>1. CASE dir \in images
    BY <2>1 DEF Disk, PairNeverMixed
  <2>2. ASSUME NEW old \in images, Moved(dir, old, kind, Final, k, entry)
        PROVE  dir[At("hdf5", Final)] \in {dir[At("manifest", Final)], NoRun}
    <3>1. /\ dir[At("hdf5", Final)] = IF kind = "hdf5" THEN NoRun ELSE old[At("hdf5", Final)]
          /\ dir[At("manifest", Final)] = IF kind = "manifest" THEN NoRun ELSE old[At("manifest", Final)]
      BY <2>2 DEF Moved, Kinds
    <3>2. QED
      BY <3>1 DEF Disk, PairNeverMixed, Kinds
  <2>3. QED
    BY <1>1, <2>1, <2>2
<1>4. CommittedKept'
  <2>. SUFFICES ASSUME NEW r \in committed, NEW dir \in images', NEW l \in Kinds
       PROVE \E place \in Published : dir[At(l, place)] = r
    BY DEF CommittedKept, Kinds, Published
  <2>1. CASE dir \in images
    BY <2>1 DEF Disk, CommittedKept, Kinds, Published
  <2>2. ASSUME NEW old \in images, Moved(dir, old, kind, Final, k, entry)
        PROVE  \E place \in Published : dir[At(l, place)] = r
    <3>1. PICK place \in Published : old[At(l, place)] = r
      BY DEF Disk, CommittedKept, Kinds, Published
    <3>2. CASE l # kind \/ place \notin {Final, k}
      BY <2>2, <3>1, <3>2 DEF Moved
    <3>3. CASE l = kind /\ place = Final
      <4>1. dir[At(l, k)] = entry
        BY <2>2, <3>3 DEF Moved
      <4>2. CASE r # NoRun
        BY <1>2, <3>1, <3>3, <4>1, <4>2
      <4>3. CASE r = NoRun
        BY <2>2, <3>3, <4>3 DEF Moved
      <4>4. QED
        BY <4>2, <4>3
    <3>4. CASE l = kind /\ place = k
      BY <1>2, <2>2, <3>1, <3>4 DEF Moved
    <3>5. QED
      BY <3>2, <3>3, <3>4
  <2>3. QED
    BY <1>1, <2>1, <2>2
<1>5. ImagesLag'
  <2>. SUFFICES ASSUME NEW dir \in images', NEW l \in Kinds, NEW place \in Published
       PROVE \/ dir[At(l, place)] \in {NoRun, live'[At(l, place)]}
             \/ place = Final /\ live'[At(l, place)] = NoRun
    BY DEF ImagesLag
  <2>1. live'[At(l, place)] = IF l = kind /\ place = k THEN entry
          ELSE IF l = kind /\ place = Final THEN NoRun ELSE live[At(l, place)]
    BY <1>1 DEF Moved
  <2>2. \A old \in images : \/ old[At(l, place)] \in {NoRun, live[At(l, place)]}
                            \/ place = Final /\ live[At(l, place)] = NoRun
    BY DEF Disk, ImagesLag
  <2>3. CASE dir \in images
    BY <1>2, <2>1, <2>2, <2>3
  <2>4. ASSUME NEW old \in images, Moved(dir, old, kind, Final, k, entry)
        PROVE  dir[At(l, place)] = IF l = kind /\ place = k THEN entry
                 ELSE IF l = kind /\ place = Final THEN NoRun ELSE old[At(l, place)]
    BY <2>4 DEF Moved
  <2>5. QED
    BY <1>1, <2>1, <2>2, <2>3, <2>4
<1>6. OnePlace'
  <2>. SUFFICES ASSUME NEW dir \in images', NEW l \in Kinds, NEW p \in Published, NEW q \in Published,
                       dir[At(l, p)] = dir[At(l, q)], p # q
       PROVE dir[At(l, p)] = NoRun
    BY DEF OnePlace
  <2>1. CASE dir \in images
    BY <2>1 DEF Disk, OnePlace
  <2>2. ASSUME NEW old \in images, Moved(dir, old, kind, Final, k, entry)
        PROVE  dir[At(l, p)] = NoRun
    <3>1. \A place \in Published : dir[At(l, place)] = IF l = kind /\ place = k THEN entry
                 ELSE IF l = kind /\ place = Final THEN NoRun ELSE old[At(l, place)]
      BY <2>2 DEF Moved
    <3>2. \A place \in Published : place \notin {Final, k} => old[At(kind, place)] # entry
      BY <1>2 DEF Disk, ImagesLag, OnePlace, Typed, entry
    <3>3. old[At(l, p)] = old[At(l, q)] => old[At(l, p)] = NoRun
      BY DEF Disk, OnePlace
    <3>4. QED
      BY <3>1, <3>2, <3>3
  <2>3. QED
    BY <1>1, <2>1, <2>2
<1>7. QED
  BY <1>1, <1>3, <1>4, <1>5, <1>6 DEF Disk, entry

(* Setting an invalid pair aside. *)
LEMMA QuarantineSteps ==
  ASSUME FactorInv, Consuming, NEW r \in Runs, Quarantine(r)
  PROVE  FactorInv' /\ Consuming'
<1>. USE FactorAssumption
<1>. DEFINE Frame == UNCHANGED << synced, torn, writer, slot, sealedFor, committed, consumers, evidence, crashes >>
            From == {"aside_then_clear", "aside_then_write", "aside_hdf5_then_clear",
                     "aside_hdf5_then_write", "sync_aside_then_clear", "sync_aside_then_write"}
            To == {"aside_hdf5_then_clear", "aside_hdf5_then_write", "sync_aside_then_clear",
                   "sync_aside_then_write", "clear", "write_manifest"}
            Goal == TypeOK' /\ Progress' /\ Unpublished' /\ Disk' /\ Consuming'
                    /\ (\A q \in Runs \ {r} : pc'[q] \in Ended \cup {"start"})
<1>1. Typed
  BY DEF FactorInv, TypeOK, Typed, Directories
<1>2. slot \in [Runs -> Published] /\ sealedFor \in [Runs -> 0 .. evidence]
  BY DEF FactorInv, TypeOK, Progress, Published
<1>3. From \cup To \subseteq Holding /\ From \cup To \subseteq Unsealed \cup Sealed
  BY DEF Holding, Steps, Unsealed, Ended, Sealed, ThenWrite, ThenClear
<1>4. ASSUME pc[r] \in From
      PROVE  /\ writer = r /\ \A q \in Runs \ {r} : pc[q] \in Ended \cup {"start"}
             /\ pc[r] \in Sealed => r \in synced /\ live[At("hdf5", Scratch)] = r
             /\ pc[r] \in Unsealed => r \notin synced
  BY <1>3, <1>4, Alone DEF FactorInv, Progress
<1>5. ASSUME NEW from \in From, NEW to \in To, pc[r] = from, Goto(r, to), Frame, Quiet,
             UNCHANGED live, from \in Unsealed <=> to \in Unsealed
      PROVE  Goal /\ pc'[r] = to
  <2>1. /\ pc[r] = from /\ pc' = [pc EXCEPT ![r] = to] /\ writer = r /\ writer' = r
        /\ synced' = IF to \in Sealed THEN synced \cup {r} ELSE synced
        /\ UNCHANGED << torn, committed, consumers, evidence, crashes >>
        /\ slot' \in [Runs -> Published] /\ sealedFor' \in [Runs -> 0 .. evidence]
        /\ \A q \in Runs \ {r} : slot'[q] = slot[q] /\ sealedFor'[q] = sealedFor[q]
        /\ sealedFor'[Owner] = sealedFor[Owner]
    BY <1>2, <1>3, <1>4, <1>5, StepNames DEF Goto
  <2>2. /\ to \in Holding /\ pc[r] \in Holding \cup {"start"} /\ writer \in {NoRun, r}
        /\ to \in Unsealed => pc[r] \in Unsealed
        /\ to \in Sealed => pc[r] \in Unsealed \cup Sealed
        /\ to \in Publishing => pc[r] \in Publishing
        /\ pc[r] # "sync_manifest"
        /\ to \in Sealed => live'[At("hdf5", Scratch)] = r
        /\ to \in {"rename_hdf5", "sync_hdf5", "rename_manifest"}
             => live'[At("manifest", Scratch)] = r
        /\ Quiet
    BY <1>3, <1>4, <1>5, <2>1, StepNames DEF Publishing
  <2>3. /\ TypeOK' /\ Progress' /\ Unpublished' /\ Disk' /\ Consuming'
        /\ \A q \in Runs : pc'[q] = IF q = r THEN to ELSE pc[q]
        /\ \A q \in Runs \ {r} : pc[q] \in Ended \cup {"start"}
    BY <2>1, <2>2, QuietStep
  <2>4. QED
    BY <2>3
<1>6. ASSUME NEW kind \in Kinds, NEW from \in From, NEW to \in (To \ {"clear", "write_manifest"}),
             pc[r] = from, Goto(r, to), Frame, from \in Unsealed <=> to \in Unsealed,
             ~ Verified, slot[r] # Final, live[At(kind, slot[r])] = NoRun, Present(kind),
             Rename(At(kind, Final), At(kind, slot[r]))
      PROVE  /\ Goal /\ pc'[r] = to
             /\ Moved(live', live, kind, Final, slot[r], live[At(kind, Final)])
  <2>. DEFINE k == slot[r]
              entry == live[At(kind, Final)]
  <2>1. k \in Published /\ k # Final /\ k # Scratch
    BY <1>2, <1>6, Naming
  <2>2. /\ Disk' /\ Typed'
        /\ Moved(live', live, kind, Final, k, entry)
        /\ \A dir \in images' : dir \in images
             \/ \E old \in images : Moved(dir, old, kind, Final, k, entry)
    BY <1>1, <1>6, <2>1, MoveDisk DEF Present, FactorInv
  <2>3. \A q \in Runs : pc'[q] = IF q = r THEN to ELSE pc[q]
    BY <1>6 DEF Goto, FactorInv, Progress
  <2>4. \A q \in Runs \ {r} : pc'[q] \in Ended \cup {"start"}
    BY <1>4, <1>6, <2>3
  <2>5. TypeOK'
    <3>1. \A q \in Runs : pc'[q] \notin Ended \cup {"start"} <=> writer' = q
      BY <1>3, <1>4, <1>6, <2>3, <2>4 DEF Holding, FactorInv, TypeOK
    <3>2. QED
      BY <1>6, <2>2, <3>1 DEF TypeOK, Typed, Directories, FactorInv, consumers
  <2>6. \A l \in Kinds : live'[At(l, Scratch)] = live[At(l, Scratch)]
    BY <2>1, <2>2, Naming DEF Moved
  <2>7. Progress'
    <3>1. pc' \in [Runs -> Steps]
      BY <1>3, <1>6, <2>3 DEF FactorInv, Progress, Goto, Holding
    <3>2. \A q \in Runs : /\ (pc'[q] \in Unsealed <=> pc[q] \in Unsealed)
                          /\ (pc'[q] \in Sealed <=> pc[q] \in Sealed)
                          /\ (pc'[q] \in Publishing <=> pc[q] \in Publishing)
      BY <1>3, <1>6, <2>3, StepNames
    <3>3. {"sync_hdf5", "rename_manifest"} \subseteq Publishing /\ r \notin {q \in Runs : pc'[q] = "rename_hdf5"}
      BY <1>6, <2>3 DEF Publishing
    <3>4. \A q \in Runs : pc'[q] \notin {"rename_hdf5", "sync_hdf5", "rename_manifest"}
      BY <1>3, <1>6, <2>3, <2>4, <3>3, StepNames DEF Ended
    <3>5. QED
      BY <1>6, <2>6, <3>1, <3>2, <3>4 DEF Progress, FactorInv, Kinds
  <2>8. Unpublished'
    <3>. SUFFICES ASSUME NEW q \in Runs, NEW dir \in images', NEW place \in Published
         PROVE /\ pc'[q] \in Unsealed \cup Sealed => dir[At("hdf5", place)] # q
               /\ pc'[q] \in Unsealed \cup Sealed \cup (Publishing \ {"sync_manifest"})
                    => dir[At("manifest", place)] # q
      BY DEF Unpublished
    <3>1. pc'[q] \in Unsealed \cup Sealed => pc[q] \in Unsealed \cup Sealed
      BY <1>3, <1>6, <2>3
    <3>2. pc'[q] \in Publishing => pc[q] \in Publishing /\ pc'[q] = pc[q]
      BY <1>3, <1>6, <2>3, StepNames
    <3>3. \A l \in Kinds : \E old \in images, p \in Published :
            dir[At(l, place)] \in {NoRun, old[At(l, p)]}
      BY <1>1, <2>1, <2>2, Naming DEF Moved, Typed
    <3>4. QED
      BY <3>1, <3>2, <3>3 DEF FactorInv, Unpublished, Kinds
  <2>9. Consuming'
    <3>1. ~ Verified'
      <4>1. /\ live'[At("hdf5", Final)] = IF kind = "hdf5" THEN NoRun ELSE live[At("hdf5", Final)]
            /\ live'[At("manifest", Final)] = IF kind = "manifest" THEN NoRun ELSE live[At("manifest", Final)]
        BY <2>1, <2>2, Naming DEF Moved, Kinds
      <4>2. QED
        BY <1>6, <4>1 DEF Verified, Present, Owner, Kinds
    <3>2. QED
      BY <1>3, <1>6, <2>3, <3>1 DEF Consuming, consumers, Holding
  <2>10. QED
    BY <2>2, <2>3, <2>4, <2>5, <2>7, <2>8, <2>9
<1>7. {"aside_then_clear", "aside_hdf5_then_clear", "sync_aside_then_clear", "clear"} \subseteq Unsealed
      /\ {"aside_then_write", "aside_hdf5_then_write", "sync_aside_then_write", "write_manifest"} \cap Unsealed = {}
  BY DEF Unsealed, ThenClear
<1>. HIDE DEF Goal
<1>8. ASSUME NEW from \in Aside, NEW to \in AsideHdf5, from \in Unsealed <=> to \in Unsealed,
             QuarantineManifest(r, from, to)
      PROVE  FactorInv' /\ Consuming'
  <2>1. /\ pc[r] = from /\ Goto(r, to) /\ Frame
        /\ IF Present("manifest") THEN Rename(At("manifest", Final), At("manifest", slot[r]))
           ELSE UNCHANGED directory
    BY <1>8 DEF QuarantineManifest, Step, Keep, consumers
  <2>2. from \in From /\ to \in (To \ {"clear", "write_manifest"})
    BY DEF Aside, AsideHdf5
  <2>3. ~ Verified /\ slot[r] # Final /\ live[At("manifest", slot[r])] = NoRun
        /\ live[At("hdf5", slot[r])] = NoRun
    BY <2>1 DEF FactorInv, Quarantining
  <2>4. Goal /\ pc'[r] = to /\ live'[At("manifest", Final)] = NoRun
        /\ live'[At("hdf5", slot[r])] = NoRun
    <3>1. CASE Present("manifest")
      <4>1. /\ Goal /\ pc'[r] = to
            /\ Moved(live', live, "manifest", Final, slot[r], live[At("manifest", Final)])
        BY <1>6, <1>8, <2>1, <2>2, <2>3, <3>1 DEF Kinds
      <4>2. slot[r] \in Places
        BY <1>2, Naming
      <4>3. QED
        BY <2>3, <4>1, <4>2, Naming DEF Moved, Kinds
    <3>2. CASE ~ Present("manifest")
      BY <1>1, <1>5, <1>8, <2>1, <2>2, <2>3, <3>2, StillQuiet DEF Present, directory
    <3>3. QED
      BY <3>1, <3>2
  <2>5. Ordered' /\ Quarantining'
    BY <2>1, <2>3, <2>4 DEF Goal, Ordered, Quarantining, Aside, AsideHdf5, SyncAside, Ended, Present
  <2>6. QED
    BY <2>4, <2>5 DEF Goal, FactorInv
<1>9. ASSUME NEW from \in AsideHdf5, NEW to \in SyncAside, from \in Unsealed <=> to \in Unsealed,
             QuarantineHdf5(r, from, to)
      PROVE  FactorInv' /\ Consuming'
  <2>1. /\ pc[r] = from /\ Goto(r, to) /\ Frame
        /\ IF Present("hdf5") THEN Rename(At("hdf5", Final), At("hdf5", slot[r]))
           ELSE UNCHANGED directory
    BY <1>9 DEF QuarantineHdf5, Step, Keep, consumers
  <2>2. from \in From /\ to \in (To \ {"clear", "write_manifest"})
    BY DEF SyncAside, AsideHdf5
  <2>3. ~ Verified /\ slot[r] # Final /\ live[At("hdf5", slot[r])] = NoRun
        /\ live[At("manifest", Final)] = NoRun
    BY <2>1 DEF FactorInv, Quarantining, Verified, Present
  <2>4. Goal /\ pc'[r] = to /\ \A kind \in Kinds : live'[At(kind, Final)] = NoRun
    <3>1. CASE Present("hdf5")
      <4>1. /\ Goal /\ pc'[r] = to
            /\ Moved(live', live, "hdf5", Final, slot[r], live[At("hdf5", Final)])
        BY <1>6, <1>9, <2>1, <2>2, <2>3, <3>1 DEF Kinds
      <4>2. slot[r] \in Places
        BY <1>2, Naming
      <4>3. QED
        BY <2>3, <4>1, <4>2, Naming DEF Moved, Kinds
    <3>2. CASE ~ Present("hdf5")
      <4>1. UNCHANGED live /\ Quiet
        BY <1>1, <2>1, <3>2, StillQuiet DEF directory
      <4>2. Goal /\ pc'[r] = to
        BY <1>5, <1>9, <2>1, <2>2, <4>1
      <4>3. QED
        BY <2>3, <3>2, <4>1, <4>2 DEF Present, Kinds
    <3>3. QED
      BY <3>1, <3>2
  <2>5. Ordered' /\ Quarantining'
    BY <2>4 DEF Goal, Ordered, Quarantining, Aside, AsideHdf5, SyncAside, Ended, Present, Kinds
  <2>6. QED
    BY <2>4, <2>5 DEF Goal, FactorInv
<1>10. ASSUME NEW from \in SyncAside, NEW to \in {"clear", "write_manifest"},
              from \in Unsealed <=> to \in Unsealed, SyncQuarantine(r, from, to)
       PROVE  FactorInv' /\ Consuming'
  <2>1. pc[r] = from /\ Goto(r, to) /\ Frame /\ SyncDirectory
    BY <1>10 DEF SyncQuarantine, Step, Keep, consumers
  <2>2. from \in From /\ to \in To
    BY DEF SyncAside
  <2>3. Quiet /\ images' = {live} /\ live' = live
    BY <1>1, <2>1, SyncQuiet
  <2>4. Goal /\ pc'[r] = to
    BY <1>5, <1>10, <2>1, <2>2, <2>3
  <2>5. \A kind \in Kinds : live[At(kind, Final)] = NoRun
    BY <2>1 DEF FactorInv, Quarantining, Present, Kinds
  <2>6. Ordered' /\ Quarantining'
    BY <2>3, <2>4, <2>5 DEF Goal, Ordered, Quarantining, Aside, AsideHdf5, SyncAside, Ended
  <2>7. QED
    BY <2>4, <2>6 DEF Goal, FactorInv
<1>11. QED
  BY <1>7, <1>8, <1>9, <1>10 DEF Quarantine, Aside, AsideHdf5, SyncAside

(* Publishing: the bytes, then the manifest that completes them.                  *)
LEMMA PublishShape ==
  ASSUME Typed, NEW kind \in Kinds, NEW r \in Runs, live[At(kind, Scratch)] = r,
         Rename(At(kind, Scratch), At(kind, Final))
  PROVE  /\ Typed'
         /\ live'[At(kind, Final)] = r
         /\ \A l \in Kinds \ {kind} : live'[At(l, Scratch)] = live[At(l, Scratch)]
         /\ \A l \in Kinds, place \in Published :
              l # kind \/ place # Final => live'[At(l, place)] = live[At(l, place)]
         /\ \A dir \in images' : dir \in images \/ \E old \in images :
              /\ dir[At(kind, Final)] = r
              /\ \A l \in Kinds, place \in Published :
                   l # kind \/ place # Final => dir[At(l, place)] = old[At(l, place)]
<1>. USE Naming
<1>1. /\ Typed'
      /\ Moved(live', live, kind, Scratch, Final, r)
      /\ \A dir \in images' : dir \in images
           \/ \E old \in images : Moved(dir, old, kind, Scratch, Final, r)
  BY RenameShape DEF Final, Scratch
<1>2. ASSUME NEW new, NEW old, Moved(new, old, kind, Scratch, Final, r)
      PROVE  /\ new[At(kind, Final)] = r
             /\ \A l \in Kinds \ {kind} : new[At(l, Scratch)] = old[At(l, Scratch)]
             /\ \A l \in Kinds, place \in Published :
                  l # kind \/ place # Final => new[At(l, place)] = old[At(l, place)]
  BY <1>2 DEF Moved
<1>3. QED
  BY <1>1, <1>2

(* A final name that stands empty in every image gets the entry of a run that is   *)
(* nowhere yet: no committed entry goes, and none is doubled.                    *)
LEMMA PublishDisk ==
  ASSUME Disk, Typed, NEW kind \in Kinds, NEW r \in Runs, live[At(kind, Scratch)] = r,
         Rename(At(kind, Scratch), At(kind, Final)), UNCHANGED committed, NoRun \notin committed,
         \A dir \in images : dir[At(kind, Final)] = NoRun,
         \A dir \in images, place \in Published : dir[At(kind, place)] # r
  PROVE  CommittedKept' /\ ImagesLag' /\ OnePlace'
<1>. USE Naming
<1>1. /\ Typed' /\ live'[At(kind, Final)] = r
      /\ \A l \in Kinds, place \in Published :
           l # kind \/ place # Final => live'[At(l, place)] = live[At(l, place)]
  BY PublishShape
<1>2. \A dir \in images' : dir \in images \/ \E old \in images :
              /\ dir[At(kind, Final)] = r
              /\ \A l \in Kinds, place \in Published :
                   l # kind \/ place # Final => dir[At(l, place)] = old[At(l, place)]
  BY PublishShape
<1>3. CommittedKept'
  <2>. SUFFICES ASSUME NEW q \in committed, NEW dir \in images', NEW l \in Kinds
       PROVE \E place \in Published : dir[At(l, place)] = q
    BY DEF CommittedKept, Kinds, Published
  <2>1. \A old \in images : \E place \in Published :
          old[At(l, place)] = q /\ (l # kind \/ place # Final)
    BY DEF Disk, CommittedKept, Kinds, Published
  <2>2. QED
    BY <1>2, <2>1
<1>4. ImagesLag'
  <2>. SUFFICES ASSUME NEW dir \in images', NEW l \in Kinds, NEW place \in Published
       PROVE \/ dir[At(l, place)] \in {NoRun, live'[At(l, place)]}
             \/ place = Final /\ live'[At(l, place)] = NoRun
    BY DEF ImagesLag
  <2>1. \A old \in images : \/ old[At(l, place)] \in {NoRun, live[At(l, place)]}
                            \/ place = Final /\ live[At(l, place)] = NoRun
    BY DEF Disk, ImagesLag
  <2>2. CASE l = kind /\ place = Final
    BY <1>1, <1>2, <2>2
  <2>3. CASE l # kind \/ place # Final
    BY <1>1, <1>2, <2>1, <2>3
  <2>4. QED
    BY <2>2, <2>3
<1>5. OnePlace'
  <2>. SUFFICES ASSUME NEW dir \in images', NEW l \in Kinds, NEW p \in Published, NEW q \in Published,
                       dir[At(l, p)] = dir[At(l, q)], p # q
       PROVE dir[At(l, p)] = NoRun
    BY DEF OnePlace
  <2>1. \A old \in images : old[At(l, p)] = old[At(l, q)] => old[At(l, p)] = NoRun
    BY DEF Disk, OnePlace
  <2>2. QED
    BY <1>2, <2>1
<1>6. QED
  BY <1>3, <1>4, <1>5

LEMMA PublishSteps ==
  ASSUME FactorInv, Consuming, NEW r \in Runs, RenameHdf5(r) \/ RenameManifest(r) \/ SyncManifest(r)
  PROVE  FactorInv' /\ Consuming'
<1>. USE FactorAssumption
<1>. DEFINE Frame == UNCHANGED << synced, torn, slot, sealedFor, consumers, evidence, crashes >>
<1>1. Typed /\ NoRun \notin committed
  BY DEF FactorInv, TypeOK, Typed, Directories
<1>2. /\ {"rename_hdf5", "sync_hdf5", "rename_manifest", "sync_manifest"} \subseteq Holding
      /\ "rename_hdf5" \in Sealed /\ Publishing = {"sync_hdf5", "rename_manifest", "sync_manifest"}
      /\ "done" \in Ended /\ "rename_hdf5" \notin Unsealed \cup Publishing
  BY DEF Holding, Steps, Unsealed, ThenClear, Ended, Sealed, Publishing
<1>3. pc[r] \in Holding => writer = r /\ \A q \in Runs \ {r} : pc[q] \in Ended \cup {"start"}
  BY Alone DEF FactorInv
<1>4. CASE RenameHdf5(r)
  <2>1. /\ pc[r] = "rename_hdf5" /\ pc' = [pc EXCEPT ![r] = "sync_hdf5"]
        /\ Rename(At("hdf5", Scratch), At("hdf5", Final)) /\ Frame /\ UNCHANGED << writer, committed >>
    BY <1>4 DEF RenameHdf5, Step, Goto, Keep, consumers
  <2>2. /\ \A q \in Runs : pc'[q] = IF q = r THEN "sync_hdf5" ELSE pc[q]
        /\ writer = r /\ \A q \in Runs \ {r} : pc[q] \in Ended \cup {"start"}
    BY <1>2, <1>3, <2>1 DEF FactorInv, Progress
  <2>3. /\ live[At("hdf5", Scratch)] = r /\ live[At("manifest", Scratch)] = r /\ r \in synced
        /\ \A dir \in images, kind \in Kinds : dir[At(kind, Final)] = NoRun
        /\ \A dir \in images, place \in Published :
             dir[At("hdf5", place)] # r /\ dir[At("manifest", place)] # r
    BY <1>2, <2>1 DEF FactorInv, Progress, Ordered, Unpublished
  <2>4. /\ Typed' /\ live'[At("hdf5", Final)] = r /\ live'[At("manifest", Scratch)] = r
        /\ live'[At("manifest", Final)] = NoRun
        /\ \A dir \in images' : /\ dir[At("manifest", Final)] = NoRun
                                /\ dir[At("hdf5", Final)] \in {NoRun, r}
                                /\ \E old \in images : \A l \in Kinds, place \in Published :
                                     l # "hdf5" \/ place # Final => dir[At(l, place)] = old[At(l, place)]
    BY <1>1, <2>1, <2>3, PublishShape, Naming DEF Kinds, Typed
  <2>5. TypeOK'
    <3>1. \A q \in Runs : pc'[q] \notin Ended \cup {"start"} <=> writer' = q
      BY <1>2, <2>1, <2>2 DEF Holding
    <3>2. QED
      BY <2>1, <2>4, <3>1 DEF FactorInv, TypeOK, Typed, Directories, consumers
  <2>6. Progress'
    <3>1. pc' \in [Runs -> Steps]
      BY <1>2, <2>1 DEF FactorInv, Progress, Holding
    <3>2. "sync_hdf5" \notin Unsealed \cup Sealed /\ "start" \notin Sealed \cup Publishing
      BY <1>2, StepNames DEF Unsealed
    <3>3. QED
      BY <1>2, <2>1, <2>2, <2>3, <2>4, <3>1, <3>2, StepNames DEF FactorInv, Progress, Ended
  <2>7. Ordered' /\ Quarantining'
    BY <2>2, <2>4 DEF Ordered, Quarantining, Aside, AsideHdf5, SyncAside, Ended
  <2>8. Unpublished'
    <3>1. "sync_hdf5" \notin Unsealed \cup Sealed
      BY <1>2, StepNames
    <3>2. ASSUME NEW q \in Runs \ {r}, NEW dir \in images', NEW place \in Published
          PROVE  /\ pc'[q] \in Unsealed \cup Sealed => dir[At("hdf5", place)] # q
                 /\ pc'[q] \in Unsealed \cup Sealed \cup (Publishing \ {"sync_manifest"})
                      => dir[At("manifest", place)] # q
      BY <2>2, <2>4, Naming DEF FactorInv, Unpublished, Kinds, Final
    <3>3. \A dir \in images', place \in Published : dir[At("manifest", place)] # r
      BY <2>3, <2>4 DEF Kinds
    <3>4. QED
      BY <2>2, <3>1, <3>2, <3>3 DEF Unpublished
  <2>9. Disk'
    <3>1. CommittedKept' /\ ImagesLag' /\ OnePlace'
      BY <1>1, <2>1, <2>3, PublishDisk DEF FactorInv, Kinds
    <3>2. PairNeverMixed'
      BY <2>4 DEF PairNeverMixed
    <3>3. QED
      BY <3>1, <3>2 DEF Disk
  <2>10. Consuming'
    BY <1>2, <2>1, <2>2, <2>4 DEF Consuming, consumers, Verified, Present, Holding
  <2>11. QED
    BY <2>5, <2>6, <2>7, <2>8, <2>9, <2>10 DEF FactorInv
<1>5. CASE RenameManifest(r)
  <2>1. /\ pc[r] = "rename_manifest" /\ pc' = [pc EXCEPT ![r] = "sync_manifest"]
        /\ Rename(At("manifest", Scratch), At("manifest", Final)) /\ Frame /\ UNCHANGED << writer, committed >>
    BY <1>5 DEF RenameManifest, Step, Goto, Keep, consumers
  <2>2. /\ \A q \in Runs : pc'[q] = IF q = r THEN "sync_manifest" ELSE pc[q]
        /\ writer = r /\ \A q \in Runs \ {r} : pc[q] \in Ended \cup {"start"}
    BY <1>2, <1>3, <2>1 DEF FactorInv, Progress
  <2>3. /\ live[At("manifest", Scratch)] = r /\ r \in synced
        /\ \A dir \in images : dir[At("manifest", Final)] = NoRun /\ dir[At("hdf5", Final)] = r
        /\ \A dir \in images, place \in Published : dir[At("manifest", place)] # r
    BY <1>2, <2>1 DEF FactorInv, Progress, Ordered, Unpublished
  <2>4. /\ Typed' /\ live'[At("manifest", Final)] = r
        /\ \A dir \in images' : /\ dir[At("hdf5", Final)] = r
                                /\ dir[At("manifest", Final)] \in {NoRun, r}
                                /\ \E old \in images : \A l \in Kinds, place \in Published :
                                     l # "manifest" \/ place # Final => dir[At(l, place)] = old[At(l, place)]
    BY <1>1, <2>1, <2>3, PublishShape, Naming DEF Kinds, Typed
  <2>5. TypeOK'
    <3>1. \A q \in Runs : pc'[q] \notin Ended \cup {"start"} <=> writer' = q
      BY <1>2, <2>1, <2>2 DEF Holding
    <3>2. QED
      BY <2>1, <2>4, <3>1 DEF FactorInv, TypeOK, Typed, Directories, consumers
  <2>6. Progress'
    <3>1. pc' \in [Runs -> Steps]
      BY <1>2, <2>1 DEF FactorInv, Progress, Holding
    <3>2. "sync_manifest" \notin Unsealed \cup Sealed /\ "start" \notin Sealed \cup Publishing
      BY <1>2, StepNames DEF Unsealed
    <3>3. QED
      BY <1>2, <2>1, <2>2, <2>3, <2>4, <3>1, <3>2, StepNames DEF FactorInv, Progress, Ended
  <2>7. Ordered' /\ Quarantining'
    BY <2>2, <2>4 DEF Ordered, Quarantining, Aside, AsideHdf5, SyncAside, Ended
  <2>8. Unpublished'
    <3>1. "sync_manifest" \notin Unsealed \cup Sealed
      BY <1>2, StepNames
    <3>2. ASSUME NEW q \in Runs \ {r}, NEW dir \in images', NEW place \in Published
          PROVE  /\ pc'[q] \in Unsealed \cup Sealed => dir[At("hdf5", place)] # q
                 /\ pc'[q] \in Unsealed \cup Sealed \cup (Publishing \ {"sync_manifest"})
                      => dir[At("manifest", place)] # q
      BY <2>2, <2>4, Naming DEF FactorInv, Unpublished, Kinds, Final
    <3>3. QED
      BY <2>2, <3>1, <3>2 DEF Unpublished
  <2>9. Disk'
    <3>1. CommittedKept' /\ ImagesLag' /\ OnePlace'
      BY <1>1, <2>1, <2>3, PublishDisk DEF FactorInv, Kinds
    <3>2. PairNeverMixed'
      BY <2>4 DEF PairNeverMixed
    <3>3. QED
      BY <3>1, <3>2 DEF Disk
  <2>10. Consuming'
    BY <1>2, <2>1, <2>2, <2>4 DEF Consuming, consumers, Owner, Holding
  <2>11. QED
    BY <2>5, <2>6, <2>7, <2>8, <2>9, <2>10 DEF FactorInv
<1>6. CASE SyncManifest(r)
  <2>1. /\ pc[r] = "sync_manifest" /\ pc' = [pc EXCEPT ![r] = "done"] /\ SyncDirectory
        /\ committed' = committed \cup {r} /\ writer' = NoRun /\ Frame
    BY <1>6 DEF SyncManifest, Step, Goto, consumers
  <2>2. /\ \A q \in Runs : pc'[q] = IF q = r THEN "done" ELSE pc[q]
        /\ writer = r /\ \A q \in Runs \ {r} : pc[q] \in Ended \cup {"start"}
    BY <1>2, <1>3, <2>1 DEF FactorInv, Progress
  <2>3. live' = live /\ images' = {live} /\ live \in images
    BY <1>1, <2>1, SyncQuiet DEF Typed
  <2>4. live[At("manifest", Final)] = r /\ live[At("hdf5", Final)] = r /\ r \in synced
    BY <1>2, <2>1, <2>3 DEF FactorInv, Ordered, Progress
  <2>5. TypeOK'
    <3>1. \A q \in Runs : pc'[q] \in Ended \cup {"start"}
      BY <1>2, <2>2
    <3>2. QED
      BY <2>1, <2>3, <2>4, <3>1 DEF FactorInv, TypeOK, consumers, Files
  <2>6. Progress'
    <3>1. pc' \in [Runs -> Steps]
      BY <1>2, <2>1 DEF FactorInv, Progress, Steps
    <3>2. QED
      BY <1>2, <2>1, <2>2, <2>3, <3>1, StepNames DEF FactorInv, Progress, Ended
  <2>7. Ordered' /\ Quarantining'
    BY <2>2 DEF Ordered, Quarantining, Aside, AsideHdf5, SyncAside, Ended
  <2>8. Unpublished'
    BY <1>2, <2>2, <2>3, StepNames DEF FactorInv, Unpublished
  <2>9. Disk'
    BY <2>1, <2>3, <2>4, Naming DEF FactorInv, Disk, PairNeverMixed, CommittedKept, ImagesLag, OnePlace,
          Published, Kinds
  <2>10. Consuming'
    BY <1>2, <2>1, <2>2, <2>3 DEF Consuming, consumers, Verified, Owner, Present, Holding
  <2>11. QED
    BY <2>5, <2>6, <2>7, <2>8, <2>9, <2>10 DEF FactorInv
<1>7. QED
  BY <1>4, <1>5, <1>6

(* A power loss leaves one of the images, and no run between its steps.           *)
LEMMA PowerLossStep ==
  ASSUME FactorInv, Consuming, PowerLoss
  PROVE  FactorInv' /\ Consuming'
<1>. USE FactorAssumption DEF FactorInv
<1>1. PICK dir \in images : live' = dir /\ images' = {dir}
  BY DEF PowerLoss, Lose
<1>2. PICK lost \in SUBSET {r \in Runs : pc[r] = "seal"} : torn' = torn \cup lost
  BY DEF PowerLoss
<1>3. /\ writer' = NoRun /\ crashes' = crashes + 1 /\ crashes < MaxCrashes
      /\ pc' = [r \in Runs |-> IF pc[r] \in Ended \cup {"start"} THEN pc[r] ELSE "lost"]
      /\ reader' = [c \in Consumers |-> IF reader[c] \in {"read", "revalidate"} THEN "failed" ELSE reader[c]]
      /\ UNCHANGED << synced, slot, sealedFor, committed, factor, used, evidence >>
  BY DEF PowerLoss
<1>4. /\ pc' \in [Runs -> Ended \cup {"start"}]
      /\ \A r \in Runs : pc'[r] = "start" <=> pc[r] = "start"
  BY <1>3 DEF Ended
<1>5. Ended \cap (Unsealed \cup Sealed \cup Publishing) = {} /\ "start" \notin Sealed \cup Publishing
      /\ "start" \in Unsealed
  BY StepNames DEF Unsealed
<1>6. lost \cap synced = {} /\ \A r \in lost : r \in Runs /\ pc[r] = "seal"
  BY <1>2 DEF Progress, Unsealed
<1>7. TypeOK'
  <2>1. crashes' \in 0 .. MaxCrashes
    BY <1>3 DEF TypeOK
  <2>2. reader' \in [Consumers -> {"start", "read", "revalidate", "done", "failed"}]
    BY <1>3 DEF TypeOK
  <2>3. torn' \subseteq Runs \ synced
    BY <1>2, <1>6 DEF TypeOK
  <2>4. \A r \in Runs : pc'[r] \notin Ended \cup {"start"} <=> writer' = r
    BY <1>3, <1>4
  <2>5. QED
    BY <1>1, <1>3, <2>1, <2>2, <2>3, <2>4 DEF TypeOK, Files
<1>8. Progress'
  <2>1. pc' \in [Runs -> Steps]
    BY <1>4, <1>5 DEF Steps
  <2>2. \A r \in Runs : pc'[r] = "start" => r \notin synced \cup torn'
    BY <1>2, <1>4, <1>5, <1>6 DEF Progress
  <2>3. \A r \in Runs : pc'[r] \notin Sealed \cup Publishing /\ (pc'[r] \in Unsealed => pc'[r] = "start")
    BY <1>4, <1>5
  <2>4. QED
    BY <1>3, <1>4, <2>1, <2>2, <2>3 DEF Progress, Ended
<1>9. Ordered' /\ Quarantining'
  BY <1>4 DEF Ordered, Quarantining, Aside, AsideHdf5, SyncAside, Ended
<1>10. Unpublished'
  BY <1>1, <1>4, <1>5 DEF Unpublished
<1>11. Disk'
  BY <1>1, <1>3 DEF Disk, PairNeverMixed, CommittedKept, ImagesLag, OnePlace
<1>12. Consuming'
  BY <1>3 DEF Consuming, TypeOK
<1>13. QED
  BY <1>7, <1>8, <1>9, <1>10, <1>11, <1>12

(* Evidence that changes makes no pair valid again.                             *)
LEMMA ChangeEvidenceStep ==
  ASSUME FactorInv, Consuming, ChangeEvidence
  PROVE  FactorInv' /\ Consuming' /\ ~ Verified'
<1>. USE FactorAssumption DEF FactorInv
<1>1. /\ evidence' = evidence + 1 /\ evidence < MaxEvidence
      /\ UNCHANGED << live, images, synced, torn, writer, pc, slot, sealedFor, committed, reader, factor, used, crashes >>
  BY DEF ChangeEvidence, directory, producers, consumers
<1>2. TypeOK'
  BY <1>1 DEF TypeOK
<1>3. Progress'
  BY <1>1 DEF Progress, TypeOK
<1>4. ~ Verified'
  <2>1. Owner \in Files
    BY Naming DEF TypeOK, Owner, Kinds
  <2>2. Owner \in Runs => sealedFor[Owner] < evidence'
    BY <1>1 DEF Progress, TypeOK
  <2>3. Owner' = Owner /\ Present("manifest")' = Present("manifest")
    BY <1>1 DEF Owner, Present
  <2>4. QED
    BY <1>1, <2>1, <2>2, <2>3 DEF Verified, Files, Owner, Present, TypeOK
<1>5. Ordered' /\ Unpublished' /\ Disk'
  BY <1>1 DEF Ordered, Unpublished, Disk, PairNeverMixed, CommittedKept, ImagesLag, OnePlace
<1>6. Quarantining'
  BY <1>1, <1>4 DEF Quarantining, Present
<1>7. Consuming'
  BY <1>1, <1>4 DEF Consuming
<1>8. QED
  BY <1>2, <1>3, <1>4, <1>5, <1>6, <1>7

(* A consumer that finds its promotion valid in the end has read nothing else.    *)
LEMMA ConsumeStep ==
  ASSUME FactorInv, Consuming, ProductOfOneFactor, NEW c \in Consumers, Consume(c)
  PROVE  FactorInv' /\ Consuming' /\ ProductOfOneFactor'
<1>. USE FactorAssumption DEF FactorInv
<1>1. UNCHANGED << live, images, synced, torn, writer, pc, slot, sealedFor, committed, evidence, crashes >>
  BY DEF Consume, Validate, ReadBlock, Revalidate, Refused, Keeping, directory, producers
<1>2. Progress' /\ Ordered' /\ Unpublished' /\ Disk' /\ Quarantining'
      /\ Owner' = Owner /\ Verified' = Verified
  BY <1>1 DEF Progress, Ordered, Unpublished, Disk, PairNeverMixed, CommittedKept, ImagesLag, OnePlace,
              Quarantining, Verified, Owner, Present
<1>3. /\ reader \in [Consumers -> {"start", "read", "revalidate", "done", "failed"}]
      /\ factor \in [Consumers -> Files] /\ used \in [Consumers -> SUBSET Files]
      /\ \A kind \in Kinds : live[At(kind, Final)] \in Files
  BY Naming DEF TypeOK
<1>4. CASE Refused(c)
  <2>1. reader' = [reader EXCEPT ![c] = "failed"] /\ UNCHANGED << factor, used >>
    BY <1>4 DEF Refused
  <2>2. TypeOK'
    BY <1>1, <1>3, <2>1 DEF TypeOK
  <2>3. Consuming' /\ ProductOfOneFactor'
    BY <1>1, <1>2, <1>3, <2>1 DEF Consuming, ProductOfOneFactor
  <2>4. QED
    BY <1>2, <2>2, <2>3
<1>5. CASE /\ reader[c] = "start" /\ Readable /\ reader' = [reader EXCEPT ![c] = "read"]
           /\ factor' = [factor EXCEPT ![c] = Owner] /\ UNCHANGED used
  <2>1. Owner \in Runs /\ pc[Owner] \in Ended
    <3>1. Owner \in Runs /\ Owner = live[At("manifest", Final)] /\ live \in images
      BY <1>3, <1>5 DEF Readable, Verified, Present, Owner, Files, Kinds, TypeOK
    <3>2. pc[Owner] \in Ended \cup {"start"}
      BY <1>5, <3>1 DEF Readable, TypeOK
    <3>3. "start" \in Unsealed
      BY DEF Unsealed
    <3>4. QED
      BY <3>1, <3>2, <3>3, Naming DEF Unpublished
  <2>2. used[c] = {}
    BY <1>5 DEF Consuming
  <2>3. TypeOK'
    BY <1>1, <1>3, <1>5, <2>1 DEF TypeOK, Files
  <2>4. Consuming' /\ ProductOfOneFactor'
    BY <1>1, <1>2, <1>3, <1>5, <2>1, <2>2 DEF Consuming, ProductOfOneFactor
  <2>5. QED
    BY <1>2, <2>3, <2>4
<1>6. CASE /\ reader[c] = "read" /\ Present("hdf5")
           /\ used' = [used EXCEPT ![c] = @ \cup {live[At("hdf5", Final)]}]
           /\ \E next \in {"read", "revalidate"} : reader' = [reader EXCEPT ![c] = next]
           /\ UNCHANGED factor
  <2>1. PICK next \in {"read", "revalidate"} : reader' = [reader EXCEPT ![c] = next]
    BY <1>6
  <2>2. Verified => live[At("hdf5", Final)] = Owner
    BY DEF Verified
  <2>3. TypeOK'
    BY <1>1, <1>3, <1>6, <2>1 DEF TypeOK, Kinds
  <2>4. Consuming' /\ ProductOfOneFactor'
    BY <1>1, <1>2, <1>3, <1>6, <2>1, <2>2 DEF Consuming, ProductOfOneFactor
  <2>5. QED
    BY <1>2, <2>3, <2>4
<1>7. CASE /\ reader[c] = "revalidate" /\ SamePromotion(c)
           /\ reader' = [reader EXCEPT ![c] = "done"] /\ UNCHANGED << factor, used >>
  <2>1. used[c] = {factor[c]}
    BY <1>7 DEF Consuming, SamePromotion, Readable
  <2>2. TypeOK'
    BY <1>1, <1>3, <1>7 DEF TypeOK
  <2>3. Consuming' /\ ProductOfOneFactor'
    BY <1>1, <1>2, <1>3, <1>7, <2>1 DEF Consuming, ProductOfOneFactor
  <2>4. QED
    BY <1>2, <2>2, <2>3
<1>8. QED
  BY <1>4, <1>5, <1>6, <1>7 DEF Consume, Validate, ReadBlock, Revalidate

LEMMA FactorInvStep ==
  ASSUME FactorInv, Consuming, ProductOfOneFactor, [Next]_vars
  PROVE  FactorInv' /\ Consuming' /\ ProductOfOneFactor'
<1>1. ASSUME NEW r \in Runs, Produce(r)
      PROVE  FactorInv' /\ Consuming' /\ UNCHANGED consumers
  <2>1. FactorInv' /\ Consuming'
    BY <1>1, PrepareSteps, SealSteps, QuarantineSteps, PublishSteps DEF Produce
  <2>2. UNCHANGED consumers
    BY <1>1 DEF Produce, Acquire, Recover, MoveAside, Quarantine, QuarantineManifest, QuarantineHdf5,
         SyncQuarantine, Clear, SyncCleared, Replay, Seal, StaleEvidence, Inspect, End,
         WriteManifest, RenameHdf5, SyncHdf5, RenameManifest, SyncManifest, Keep
  <2>3. QED
    BY <2>1, <2>2
<1>2. ASSUME NEW r \in Runs, Fail(r)
      PROVE  FactorInv' /\ Consuming' /\ UNCHANGED consumers
  <2>1. /\ pc[r] \notin Ended /\ pc' = [pc EXCEPT ![r] = "failed"]
        /\ writer' = IF writer = r THEN NoRun ELSE writer
        /\ UNCHANGED << directory, synced, torn, slot, sealedFor, committed, consumers, evidence, crashes >>
    BY <1>2 DEF Fail, Goto
  <2>2. QED
    BY <2>1, EndStep
<1>3. UNCHANGED consumers => ProductOfOneFactor'
  BY DEF ProductOfOneFactor, consumers
<1>4. CASE ChangeEvidence
  BY <1>3, <1>4, ChangeEvidenceStep DEF ChangeEvidence
<1>5. CASE PowerLoss
  <2>1. ProductOfOneFactor'
    BY <1>5 DEF PowerLoss, ProductOfOneFactor
  <2>2. QED
    BY <1>5, <2>1, PowerLossStep
<1>6. CASE UNCHANGED vars
  <2>1. UNCHANGED << live, images, synced, torn, writer, pc, slot, sealedFor, committed, evidence, reader,
                     factor, used, crashes >>
    BY <1>6 DEF vars, directory, producers, consumers
  <2>2. QED
    BY <2>1 DEF FactorInv, TypeOK, Progress, Ordered, Unpublished, Disk, PairNeverMixed, CommittedKept,
       ImagesLag, OnePlace, Quarantining, Consuming, ProductOfOneFactor, Verified, Owner, Present
<1>7. QED
  BY <1>1, <1>2, <1>3, <1>4, <1>5, <1>6, ConsumeStep DEF Next, Finished

THEOREM FactorInvariant ==
  Spec => [](FactorInv /\ Consuming /\ ProductOfOneFactor)
<1>1. Init => ProductOfOneFactor
  BY DEF Init, ProductOfOneFactor
<1>2. FactorInv /\ Consuming /\ ProductOfOneFactor /\ [Next]_vars
        => (FactorInv /\ Consuming /\ ProductOfOneFactor)'
  BY FactorInvStep
<1>3. QED
  BY <1>1, <1>2, InitFactorInv, PTL DEF Spec

(* Only the moves of a quarantine and of a publication touch a final name, and     *)
(* none of them while a valid pair stands there.                               *)
LEMMA ProducerKeepsValidPair ==
  ASSUME FactorInv, NEW r \in Runs, Produce(r), Verified
  PROVE  \A kind \in Kinds : live'[At(kind, Final)] = live[At(kind, Final)]
<1>. USE FactorAssumption
<1>1. Typed /\ live \in images
  BY DEF FactorInv, TypeOK, Typed, Directories
<1>2. Quiet => \A kind \in Kinds : live'[At(kind, Final)] = live[At(kind, Final)]
  BY Naming DEF Quiet, Same
<1>3. CASE Clear(r) \/ Replay(r) \/ WriteManifest(r)
  <2>1. PICK kind \in Kinds, entry \in Files : Change([n \in {At(kind, Scratch)} |-> entry])
    BY <1>3 DEF Clear, Remove, Replay, WriteManifest, Kinds, Files
  <2>2. QED
    BY <1>1, <1>2, <2>1, ScratchShape
<1>4. CASE QuarantineManifest(r, "aside_then_clear", "aside_hdf5_then_clear")
           \/ QuarantineManifest(r, "aside_then_write", "aside_hdf5_then_write")
  BY <1>4 DEF QuarantineManifest, Step, FactorInv, Quarantining, Aside
<1>5. CASE QuarantineHdf5(r, "aside_hdf5_then_clear", "sync_aside_then_clear")
           \/ QuarantineHdf5(r, "aside_hdf5_then_write", "sync_aside_then_write")
  BY <1>5 DEF QuarantineHdf5, Step, FactorInv, Quarantining, AsideHdf5, Verified
<1>6. CASE RenameHdf5(r) \/ RenameManifest(r)
  BY <1>1, <1>6 DEF RenameHdf5, RenameManifest, Step, FactorInv, Ordered, Verified, Present, Kinds
<1>7. CASE SyncQuarantine(r, "sync_aside_then_clear", "clear")
           \/ SyncQuarantine(r, "sync_aside_then_write", "write_manifest")
           \/ SyncCleared(r) \/ SyncHdf5(r) \/ SyncManifest(r)
  BY <1>1, <1>7, SyncQuiet DEF SyncQuarantine, SyncCleared, SyncHdf5, SyncManifest
<1>8. CASE Acquire(r) \/ Recover(r) \/ Seal(r) \/ StaleEvidence(r) \/ Inspect(r)
  BY <1>8 DEF Acquire, Recover, MoveAside, Keep, Seal, StaleEvidence, Inspect, End, directory
<1>9. QED
  BY <1>3, <1>4, <1>5, <1>6, <1>7, <1>8 DEF Produce, Quarantine

(* Where a committed factor is, it is in every image.                           *)
LEMMA PowerLossKeepsValidPair ==
  ASSUME FactorInv, PowerLoss, Verified, Owner \in committed
  PROVE  \A kind \in Kinds : live'[At(kind, Final)] = live[At(kind, Final)]
<1>. USE Naming
<1>1. PICK dir \in images : live' = dir
  BY DEF PowerLoss, Lose
<1>2. live \in images /\ Owner \in Runs
  BY DEF FactorInv, TypeOK
<1>3. \A kind \in Kinds : live[At(kind, Final)] = Owner
  BY DEF Verified, Owner, Kinds
<1>. SUFFICES ASSUME NEW kind \in Kinds PROVE dir[At(kind, Final)] = Owner
  BY <1>1, <1>3
<1>4. PICK place \in Published : dir[At(kind, place)] = Owner
  BY DEF FactorInv, Disk, CommittedKept, Kinds, Published
<1>5. CASE place = Final
  BY <1>4, <1>5
<1>6. CASE place # Final
  <2>1. Owner # NoRun
    BY <1>2, FactorAssumption
  <2>2. live[At(kind, place)] = Owner
    BY <1>4, <1>6, <2>1 DEF FactorInv, Disk, ImagesLag
  <2>3. QED
    BY <1>2, <1>3, <1>6, <2>1, <2>2 DEF FactorInv, Disk, OnePlace
<1>7. QED
  BY <1>5, <1>6

(***************************************************************************)
(* Theorems                                                                *)
(***************************************************************************)

(* Every reachable state is well-typed, and one run at most holds the lock.       *)
THEOREM TypeCorrect ==
  Spec => []TypeOK
BY FactorInvariant, PTL DEF FactorInv

(* However old pairs are set aside and new ones published, and whichever of these   *)
(* moves a power loss keeps, no manifest stands next to another run's bytes        *)
(* (quarantine_final_artifact, finalize_spatial_reference_covariance_artifact).    *)
THEOREM NoMixedPair ==
  Spec => []PairNeverMixed
BY FactorInvariant, PTL DEF FactorInv, Disk

(* A factor whose finalize returned Ok is never lost.                            *)
THEOREM CommittedFactorsKept ==
  Spec => []CommittedKept
BY FactorInvariant, PTL DEF FactorInv, Disk

(* A finished temporal product was computed from the factor its promotion names,    *)
(* although it reads the factor without its lock.                               *)
THEOREM OneFactorPerProduct ==
  Spec => []ProductOfOneFactor
BY FactorInvariant, PTL

(* No step moves, replaces or hides a committed pair that is valid.               *)
THEOREM ValidPairsImmutable ==
  Spec => ValidPairIsImmutable
<1>. DEFINE Kept == \A r \in committed :
                      Verified /\ Owner = r =>
                        live'[At("manifest", Final)] = r /\ live'[At("hdf5", Final)] = r
<1>1. ASSUME FactorInv, [Next]_vars PROVE Kept
  <2>. SUFFICES ASSUME Verified, Owner \in committed
       PROVE  \A kind \in Kinds : live'[At(kind, Final)] = live[At(kind, Final)]
    BY DEF Kinds, Verified, Owner
  <2>1. CASE \E r \in Runs : Produce(r)
    BY <1>1, <2>1, ProducerKeepsValidPair
  <2>2. CASE PowerLoss
    BY <1>1, <2>2, PowerLossKeepsValidPair
  <2>3. CASE (\E r \in Runs : Fail(r)) \/ (\E c \in Consumers : Consume(c)) \/ ChangeEvidence
             \/ Finished \/ UNCHANGED vars
    BY <2>3 DEF Fail, Consume, Validate, ReadBlock, Revalidate, Refused, Keeping, ChangeEvidence,
                Finished, vars, directory
  <2>4. QED
    BY <1>1, <2>1, <2>2, <2>3 DEF Next
<1>2. FactorInv /\ [Next]_vars => Kept
  BY <1>1
<1>. HIDE DEF Kept
<1>3. FactorInv /\ [Next]_vars => [Kept]_vars
  BY <1>2
<1>4. Spec => [][Kept]_vars
  BY <1>3, FactorInvariant, PTL DEF Spec
<1>5. QED
  BY <1>4 DEF Kept, ValidPairIsImmutable
===============================================================================
