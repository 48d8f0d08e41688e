------------------------- MODULE TemporalProductProofs -------------------------
(***************************************************************************)
(* Proofs about TemporalProduct, for any number of transactions, layers,         *)
(* faults and files others put among the products.                            *)
(***************************************************************************)
EXTENDS TemporalProduct, TLAPS

(***************************************************************************)
(* What stands in a directory                                              *)
(***************************************************************************)

Products == Published \cup {"receipt", "journal"}

(* Journals; a second rollback that is blocked leaves one of no owner.             *)
AnyJournal ==
  {j \in [owner : Transactions \cup {None}, installed : SUBSET Published,
          receipt : BOOLEAN, blocked : BOOLEAN] : j.owner = None => j.installed = {}}

(* A journal accounts for a directory if it names all that a rollback must remove. *)
Accounts(j, dir) ==
  /\ \A name \in Published :
       dir[name] \in Transactions => dir[name] = j.owner /\ name \in j.installed
  /\ dir["receipt"] \in Transactions => dir["receipt"] = j.owner /\ j.receipt

Accounted(j) == \A dir \in images : Accounts(j, dir)
Documented == \A dir \in images : Accounts(dir["journal"], dir)

Clean ==
  /\ \A name \in Published : live[name] \notin Transactions
  /\ live["receipt"] \notin Transactions

(* A bundle was found complete and its journal removed: for good, if its last file  *)
(* was on disk by then.                                                       *)
SealedIn(dir, t) ==
  /\ \A name \in LayerNames : dir[name] = t
  /\ dir["receipt"] = t
  /\ dir["provenance"] \in Transactions => dir["provenance"] = t
  /\ dir["journal"] = NoJournal \/ Accounts(dir["journal"], dir)
  /\ ~ hasty => dir["provenance"] = t

Sealed(t) == live["journal"] = NoJournal /\ \A dir \in images : SealedIn(dir, t)

(* The disk may differ from what processes see in nothing a transaction installed.  *)
Agrees(dir) ==
  /\ dir["journal"] = live["journal"] /\ dir["receipt"] = live["receipt"]
  /\ \A name \in Published :
       dir[name] \in Transactions \/ live[name] \in Transactions => dir[name] = live[name]

Synced == \A dir \in images : Agrees(dir)

(* The last file of a bundle comes when the rest is on disk.                       *)
RestOnDisk(t) ==
  \A dir \in images : dir["receipt"] = t /\ \A name \in LayerNames : dir[name] = t

LastIsLast == \A t \in Transactions : Bundle(live, t) => RestOnDisk(t)

(* A rollback that has met nothing foreign has removed what it has passed.           *)
Undone(k) == \A i \in k + 1 .. Len(Layers) + 1 : live[Artifact(i)] \notin Transactions

(***************************************************************************)
(* Where a call is                                                         *)
(***************************************************************************)

Rollbacks == {"acquire", "first", "last"}
Removal   == {"isolate", "move", "mark_quarantine", "empty", "unlink"}
Pending   == {"mark", "own", "replace"}
Writing   == Pending \cup {"unmark"}
Building  == {"publish", "link", "receipt_mark", "receipt_own", "journal_receipt", "promote",
              "complete", "validate"}

(* The step a call is at, or will be once the directory is synced.                 *)
Here == IF run.pc = "sync" THEN run.then ELSE run.pc
Toward(step) == Here = step \/ (Here \in Writing /\ run.back = step)
Unharmed == ~ run.failed /\ ~ run.unclean

Place ==
  \/ Here \in {"recover", "orphans", "check"} /\ run.phase = "acquire" /\ Unharmed
  \/ Here \in {"make_stage", "mark_stage", "produce"} /\ run.phase = "begin" /\ Unharmed
  \/ Here \in Building /\ run.phase = "write" /\ Unharmed
  \/ Here = "unmark_receipt" /\ run.phase = "write" /\ ~ run.unclean
  \/ Here = "cleanup" /\ run.phase = "write" /\ ~ run.unclean
  \/ Here = "cleanup" /\ run.phase = "begin" /\ run.failed /\ ~ run.unclean
  \/ Here = "decide" /\ run.phase = "cleanup"
  \/ Here = "commit" /\ run.phase = "cleanup" /\ Unharmed
  \/ Here = "done" /\ run.phase = "last"
  \/ Here \in {"unpublish", "discard", "settle", "blocked"} /\ run.phase \in Rollbacks
  \/ Here = "forget" /\ run.phase \in Rollbacks /\ Unharmed
  \/ Here = "fail" /\ run.phase \in {"begin", "first", "last"}
  \/ Here \in Removal /\ run.back = "orphans" /\ run.phase = "acquire" /\ Unharmed
  \/ Here \in Removal /\ run.back = "decide" /\ run.phase = "cleanup"
  \/ Here \in Removal /\ run.back = "fail" /\ run.phase = "begin"
  \/ Here \in Removal /\ run.back = "settle" /\ run.phase \in Rollbacks
  \/ /\ Here \in Writing /\ run.phase = "write" /\ Unharmed
     /\ run.slot = "scratch" /\ run.back \in {"publish", "link", "promote"}
  \/ /\ Here \in Writing /\ run.phase \in Rollbacks
     /\ run.slot = "receipt_scratch" /\ run.back = "discard"
  \/ /\ Here \in Writing /\ run.phase \in Rollbacks
     /\ run.slot = "scratch" /\ run.back = "blocked"

Control ==
  /\ DOMAIN run = DOMAIN Idle
  /\ run.removing \in BOOLEAN /\ run.failed \in BOOLEAN /\ run.unclean \in BOOLEAN
  /\ holder \in Transactions \cup {None}
  /\ IF holder = None THEN run = Idle ELSE Place
  /\ run.phase \in Rollbacks /\ run.collided = {} => Unharmed
  /\ run.removing =>
       \/ Here \in Removal
       \/ run.pc = "sync" /\ run.back = "idle" /\ run.then \in {"orphans", "decide", "settle", "fail"}

(***************************************************************************)
(* What a call knows of the directory, where it is                              *)
(***************************************************************************)

DirectoryInv ==
  /\ live \in images
  /\ \A dir \in images :
       /\ DOMAIN dir = Names
       /\ \A name \in Published : dir[name] \in Entries
       /\ dir["receipt"] \in Transactions \cup {None}
       /\ dir["journal"] \in AnyJournal

(* Steps at which a bundle may be found sealed.                                   *)
AtRest ==
  \/ Here \in {"idle", "recover", "orphans", "check", "done"}
  \/ Here \in Removal /\ run.back = "orphans"

SealInv == Documented \/ (AtRest /\ \E t \in Transactions : Sealed(t))

Forward == run.phase \in {"begin", "write", "cleanup"} /\ Unharmed

SyncedInv ==
  /\ run.pc # "sync" /\ (Here \in {"check", "forget"} \/ Forward) => Synced
  /\ run.phase = "begin" => Synced

JournalInv ==
  /\ Here \in {"orphans", "check"} \/ (Here \in Removal /\ run.back = "orphans")
       \/ run.phase = "begin" => live["journal"] = NoJournal
  /\ run.phase = "begin" => live["provenance"] \notin Transactions
  /\ run.phase = "cleanup" /\ ~ run.failed => live["journal"].owner = holder

(* While it builds the product, a call knows what is journaled, and has laid down     *)
(* all layers it has passed, but not yet the last file.                            *)
InWrite == run.phase = "write" /\ ~ run.failed

DraftInv ==
  InWrite =>
    /\ run.draft \in AnyJournal /\ run.draft.owner = holder
    /\ Here \in Building \cup {"unmark", "unmark_receipt", "cleanup"} => live["journal"] = run.draft
    /\ run.layer \in 1 .. Len(Layers) + 1
    /\ \A k \in 1 .. run.layer - 1 : live[Layers[k]] = holder
    /\ Here \notin {"validate", "cleanup"} => live["provenance"] \notin Transactions
    /\ Toward("publish") \/ Toward("link") => ~ run.draft.receipt
    /\ Toward("link") => run.layer <= Len(Layers) /\ Layers[run.layer] \in run.draft.installed
    /\ Toward("promote") => run.draft.receipt /\ "provenance" \in run.draft.installed
    /\ Toward("promote") \/ Here \in {"receipt_mark", "receipt_own", "journal_receipt",
                                     "unmark_receipt", "complete"} =>
         run.layer = Len(Layers) + 1
    /\ Here \in {"unmark_receipt", "complete"} =>
         live["receipt"] = holder /\ "provenance" \in run.draft.installed

PendingInv ==
  Here \in Pending =>
    \/ run.slot = "receipt_scratch" /\ run.change = Only("receipt", None)
    \/ /\ run.slot = "scratch"
       /\ \E j \in AnyJournal :
            /\ run.change = Only("journal", j) /\ Accounted(j)
            /\ run.phase = "write" => j = run.draft

AfterUndoing ==
  \/ Here \in {"discard", "settle"}
  \/ Here \in Removal /\ run.back = "settle"
  \/ Here = "unmark" /\ run.back = "discard"

RollbackInv ==
  /\ Here = "unpublish" =>
       run.layer \in 0 .. Len(Layers) + 1 /\ (run.collided = {} => Undone(run.layer))
  /\ Here \in Pending /\ run.back = "discard" /\ run.collided = {} => Undone(0)
  /\ AfterUndoing /\ run.collided = {} => Clean
  /\ Here = "forget" => Clean

(* A call that has removed the journal of its bundle has it in place.               *)
DoneInv ==
  Here = "done" =>
    /\ live["journal"] = NoJournal /\ \A dir \in images : Bundle(dir, holder)
    /\ run.pc = "done" => InPlace(holder)

ProductInv ==
  /\ DirectoryInv /\ Control /\ SealInv /\ LastIsLast /\ SyncedInv
  /\ JournalInv /\ DraftInv /\ PendingInv /\ RollbackInv /\ DoneInv
-------------------------------------------------------------------------------
(***************************************************************************)
(* Changes of the directory                                                *)
(***************************************************************************)

(* The reserved names are no products, and every product has a name of its own.    *)
LEMMA NamesApart ==
  /\ Products \subseteq Names /\ Reserved \subseteq Names /\ LayerNames \subseteq Published
  /\ \A name \in Reserved : name \notin Products
  /\ Published \subseteq Products /\ {"receipt", "journal"} \subseteq Products
  /\ "provenance" \in Published /\ "provenance" \notin LayerNames
  /\ "receipt" \notin Published /\ "journal" \notin Published
BY LayersAssumption DEF Products, Published, Reserved, Names

(* There is a layer, and each has its place.                                   *)
LEMMA LayersPlaced ==
  /\ Len(Layers) \in Nat /\ Len(Layers) >= 1 /\ Layers[1] \in LayerNames
  /\ \A k \in 1 .. Len(Layers) : Layers[k] \in LayerNames
  /\ \A name \in LayerNames : \E k \in 1 .. Len(Layers) : Layers[k] = name
BY LayersAssumption DEF LayerNames

(* Nobody's entry is a transaction's.                                          *)
LEMMA EntriesApart ==
  None \notin Transactions /\ Foreign \notin Transactions /\ None # Foreign
BY ProductAssumption

LEMMA NoJournalTyped ==
  /\ NoJournal \in AnyJournal
  /\ NoJournal.owner = None /\ NoJournal.installed = {} /\ ~ NoJournal.receipt
BY DEF NoJournal, Journal, AnyJournal

(* The products artifacts of a rollback are the published names.                  *)
LEMMA ArtifactsPublished ==
  /\ \A k \in 1 .. Len(Layers) + 1 : Artifact(k) \in Published
  /\ \A name \in Published : \E k \in 1 .. Len(Layers) + 1 : Artifact(k) = name
<1>1. \A k \in 1 .. Len(Layers) + 1 : Artifact(k) \in Published
  BY LayersPlaced DEF Artifact, Published
<1>2. ASSUME NEW name \in Published PROVE \E k \in 1 .. Len(Layers) + 1 : Artifact(k) = name
  <2>1. CASE name = "provenance"
    <3>1. Artifact(Len(Layers) + 1) = name /\ Len(Layers) + 1 \in 1 .. Len(Layers) + 1
      BY <2>1, LayersPlaced DEF Artifact
    <3> QED BY <3>1
  <2>2. CASE name \in LayerNames
    BY <2>2, LayersPlaced DEF Artifact
  <2> QED BY <2>1, <2>2 DEF Published
<1> QED BY <1>1, <1>2

(* A step that leaves the products alone, in every directory.                     *)
Same(dir, old) == \A name \in Products : dir[name] = old[name]
Quiet ==
  /\ Same(live', live) /\ live' \in images'
  /\ \A dir \in images' : DOMAIN dir = Names /\ \E old \in images : Same(dir, old)

LEMMA UnchangedIsQuiet ==
  ASSUME DirectoryInv, UNCHANGED directory PROVE Quiet
BY DEF DirectoryInv, directory, Quiet, Same

LEMMA SyncIsQuiet ==
  ASSUME DirectoryInv, SyncDirectory PROVE Quiet /\ images' = {live} /\ live' = live
BY DEF DirectoryInv, SyncDirectory, Quiet, Same

(* What an update makes of a directory.                                        *)
LEMMA UpdatedAt ==
  ASSUME NEW dir, DOMAIN dir = Names, NEW changes
  PROVE  /\ DOMAIN Updated(dir, changes) = Names
         /\ \A name \in Names : Updated(dir, changes)[name] =
              IF name \in DOMAIN changes THEN changes[name] ELSE dir[name]
BY DEF Updated

LEMMA ChangeAt ==
  ASSUME DirectoryInv, NEW changes, Change(changes)
  PROVE  /\ live' = Updated(live, changes) /\ live' \in images' /\ DOMAIN live = Names
         /\ \A dir \in images' : DOMAIN dir = Names
         /\ \A dir \in images' : dir \notin images => \E old \in images : dir = Updated(old, changes)
BY UpdatedAt DEF DirectoryInv, Change

LEMMA ReservedChangeIsQuiet ==
  ASSUME DirectoryInv, NEW changes, Change(changes), DOMAIN changes \subseteq Reserved
  PROVE  Quiet
<1>1. ASSUME NEW dir, DOMAIN dir = Names PROVE Same(Updated(dir, changes), dir)
  BY <1>1, UpdatedAt, NamesApart DEF Same
<1>2. Same(live', live) /\ live' \in images'
  BY <1>1, ChangeAt
<1>3. ASSUME NEW dir \in images' PROVE DOMAIN dir = Names /\ \E old \in images : Same(dir, old)
  <2>1. CASE dir \in images
    BY <2>1, ChangeAt DEF Same
  <2>2. CASE dir \notin images
    <3>1. PICK old \in images : dir = Updated(old, changes)
      BY <2>2, ChangeAt
    <3> QED BY <3>1, <1>1, ChangeAt DEF DirectoryInv
  <2> QED BY <2>1, <2>2
<1> QED BY <1>2, <1>3 DEF Quiet

(* What is said of a directory is said of its products.                          *)
LEMMA SameAccounts ==
  ASSUME NEW j, NEW dir, NEW old, Same(dir, old), Accounts(j, old) PROVE Accounts(j, dir)
BY NamesApart DEF Same, Accounts

LEMMA SameBundle ==
  ASSUME NEW t, NEW dir, NEW old, Same(dir, old) PROVE Bundle(dir, t) <=> Bundle(old, t)
BY NamesApart DEF Same, Bundle

LEMMA QuietDirectory ==
  ASSUME DirectoryInv, Quiet PROVE DirectoryInv'
<1>1. ASSUME NEW dir \in images'
      PROVE  /\ DOMAIN dir = Names
             /\ \A name \in Published : dir[name] \in Entries
             /\ dir["receipt"] \in Transactions \cup {None}
             /\ dir["journal"] \in AnyJournal
  <2>1. PICK old \in images : Same(dir, old)
    BY DEF Quiet
  <2> QED BY <2>1, NamesApart DEF DirectoryInv, Quiet, Same
<1> QED BY <1>1 DEF DirectoryInv, Quiet

LEMMA QuietAccounted ==
  ASSUME Quiet, NEW j, Accounted(j) PROVE Accounted(j)'
<1>1. ASSUME NEW dir \in images' PROVE Accounts(j, dir)
  BY SameAccounts DEF Quiet, Accounted
<1> QED BY <1>1 DEF Accounted

LEMMA QuietDocumented ==
  ASSUME Quiet, Documented PROVE Documented'
<1>1. ASSUME NEW dir \in images' PROVE Accounts(dir["journal"], dir)
  <2>1. PICK old \in images : Same(dir, old)
    BY DEF Quiet
  <2>2. dir["journal"] = old["journal"] /\ Accounts(old["journal"], old)
    BY <2>1, NamesApart DEF Same, Documented
  <2> QED BY <2>1, <2>2, SameAccounts
<1> QED BY <1>1 DEF Documented

LEMMA QuietSealed ==
  ASSUME Quiet, hasty' = hasty, NEW t, Sealed(t) PROVE Sealed(t)'
<1>1. live'["journal"] = NoJournal
  BY NamesApart DEF Quiet, Same, Sealed
<1>2. ASSUME NEW dir \in images' PROVE SealedIn(dir, t)'
  <2>1. PICK old \in images : Same(dir, old)
    BY DEF Quiet
  <2>2. SealedIn(old, t)
    BY DEF Sealed
  <2>3. \A name \in Published \cup {"receipt", "journal"} : dir[name] = old[name]
    BY <2>1 DEF Same, Products
  <2>4. dir["journal"] = NoJournal \/ Accounts(dir["journal"], dir)
    BY <2>1, <2>2, <2>3, SameAccounts DEF SealedIn
  <2> QED BY <2>2, <2>3, <2>4, NamesApart DEF SealedIn
<1> QED BY <1>1, <1>2 DEF Sealed

LEMMA QuietLastIsLast ==
  ASSUME Quiet, LastIsLast PROVE LastIsLast'
<1>1. ASSUME NEW t \in Transactions, Bundle(live', t), NEW dir \in images'
      PROVE  dir["receipt"] = t /\ \A name \in LayerNames : dir[name] = t
  <2>1. RestOnDisk(t)
    BY <1>1, SameBundle DEF Quiet, LastIsLast
  <2>2. PICK old \in images : Same(dir, old)
    BY DEF Quiet
  <2> QED BY <2>1, <2>2, NamesApart DEF RestOnDisk, Same
<1> QED BY <1>1 DEF LastIsLast, RestOnDisk

LEMMA QuietSynced ==
  ASSUME Quiet, Synced PROVE Synced'
<1>1. ASSUME NEW dir \in images' PROVE Agrees(dir)'
  <2>1. PICK old \in images : Same(dir, old)
    BY DEF Quiet
  <2> QED BY <2>1, NamesApart DEF Quiet, Same, Synced, Agrees
<1> QED BY <1>1 DEF Synced

LEMMA QuietClean ==
  ASSUME Quiet
  PROVE  /\ Clean => Clean'
         /\ \A k \in Nat : Undone(k) => Undone(k)'
         /\ \A name \in Products : live'[name] = live[name]
<1>1. \A name \in Products : live'[name] = live[name]
  BY DEF Quiet, Same
<1>2. Clean => Clean'
  BY <1>1, NamesApart DEF Clean
<1>3. ASSUME NEW k \in Nat, Undone(k) PROVE Undone(k)'
  <2>1. \A i \in k + 1 .. Len(Layers) + 1 : Artifact(i) \in Products
    BY ArtifactsPublished, LayersPlaced, NamesApart
  <2> QED BY <1>1, <1>3, <2>1 DEF Undone
<1> QED BY <1>1, <1>2, <1>3

LEMMA QuietInPlace ==
  ASSUME Quiet, NEW t
  PROVE  /\ (\A dir \in images : Bundle(dir, t)) => \A dir \in images' : Bundle(dir, t)
         /\ InPlace(t) => InPlace(t)'
<1>1. ASSUME \A dir \in images : Bundle(dir, t) PROVE \A dir \in images' : Bundle(dir, t)
  BY <1>1, SameBundle DEF Quiet
<1>2. ASSUME InPlace(t) PROVE InPlace(t)'
  BY <1>2, <1>1, NamesApart DEF InPlace, Quiet, Same
<1> QED BY <1>1, <1>2

-------------------------------------------------------------------------------
(***************************************************************************)
(* Steps that leave the products alone                                        *)
(***************************************************************************)

(* A call's locals but for these stay as they are.                            *)
KeptBut(names) == DOMAIN run' = DOMAIN run /\ \A name \in DOMAIN Idle \ names : run'[name] = run[name]

(* The artifact a rollback looks at is one the journal names.                   *)
Listed == Artifact(run.layer) \in live["journal"].installed /\ live[Artifact(run.layer)] # None

(* A quiet step keeps what was true of the directory; what is left to show is what  *)
(* the call may now rely on.                                                  *)
LEMMA QuietStep ==
  ASSUME ProductInv, Quiet, hasty' = hasty, Documented \/ AtRest',
         Control', SyncedInv', JournalInv', DraftInv', PendingInv', RollbackInv', DoneInv'
  PROVE  ProductInv'
<1>1. DirectoryInv' /\ LastIsLast'
  BY QuietDirectory, QuietLastIsLast DEF ProductInv
<1>2. SealInv'
  <2>1. CASE Documented
    BY <2>1, QuietDocumented DEF SealInv
  <2>2. CASE ~ Documented
    BY <2>2, QuietSealed DEF SealInv, ProductInv
  <2> QED BY <2>1, <2>2
<1> QED BY <1>1, <1>2 DEF ProductInv

(* A call that ends, or is killed, knows nothing.                                *)
LEMMA IdleFields ==
  /\ Idle.pc = "idle" /\ Idle.then = "idle" /\ Idle.back = "idle" /\ Idle.phase = "none"
  /\ Idle.layer = 1 /\ Idle.slot = "scratch" /\ Idle.collided = {}
  /\ Idle.removing = FALSE /\ Idle.failed = FALSE /\ Idle.unclean = FALSE
BY DEF Idle

LEMMA IdleKnowsNothing ==
  ASSUME holder' = None, run' = Idle
  PROVE  AtRest' /\ Control' /\ SyncedInv' /\ JournalInv' /\ DraftInv' /\ PendingInv'
         /\ RollbackInv' /\ DoneInv'
<1>1. Here' = "idle"
  BY IdleFields DEF Here
<1>2. AtRest' /\ Control'
  BY <1>1, IdleFields DEF AtRest, Control, Rollbacks
<1>3. SyncedInv' /\ JournalInv'
  BY <1>1, IdleFields DEF SyncedInv, JournalInv, Forward, Removal
<1>4. DraftInv' /\ PendingInv'
  BY <1>1, IdleFields DEF DraftInv, InWrite, PendingInv, Pending
<1>5. RollbackInv' /\ DoneInv'
  BY <1>1, IdleFields DEF RollbackInv, AfterUndoing, DoneInv, Removal, Pending
<1> QED BY <1>2, <1>3, <1>4, <1>5

LEMMA EndStep ==
  ASSUME ProductInv, UNCHANGED << directory, hasty >>, holder' = None, run' = Idle
  PROVE  ProductInv'
<1>1. Quiet
  BY UnchangedIsQuiet DEF ProductInv
<1> QED BY <1>1, IdleKnowsNothing, QuietStep

LEMMA WriteMarkStep ==
  ASSUME ProductInv, WriteMark PROVE ProductInv'
<1>1. /\ holder # None
      /\ run.pc = "mark"
      /\ run' = [run EXCEPT !.pc = "own"]
      /\ Change(Reserve(run.slot, Bare))
      /\ UNCHANGED beside
  BY DEF WriteMark, At, Mark, Go
<1>2. /\ run'.pc = "own"
      /\ KeptBut({"pc"})
  BY <1>1 DEF ProductInv, Control, KeptBut, Idle
<1>3. Place /\ Here = "mark" /\ Here' = "own"
  BY <1>1, <1>2 DEF ProductInv, Control, Here, KeptBut, Idle
<1>4. Quiet
  <2>1. run.slot \in Reserved
    BY <1>3 DEF Place, Reserved, Building, Removal
  <2> QED BY <1>1, <2>1, ReservedChangeIsQuiet DEF ProductInv, Reserve, Only
<1>5. Documented /\ hasty' = hasty /\ holder' = holder
  BY <1>1, <1>2, <1>3
     DEF ProductInv, SealInv, AtRest, Removal, Place, Writing, Pending, Building, beside, KeptBut,
         Idle
<1>6. Control'
  BY <1>1, <1>2, <1>3, <1>5
     DEF ProductInv, Control, Place, Unharmed, Removal, Writing, Pending, Building, Rollbacks,
         KeptBut, Idle
<1>7. SyncedInv' /\ JournalInv'
  BY <1>1, <1>2, <1>3, <1>4, <1>5, QuietSynced, QuietClean, NamesApart
     DEF ProductInv, SyncedInv, JournalInv, Forward, Unharmed, Removal, Place, Writing, Pending,
         Building, KeptBut, Idle
<1>8. DraftInv'
  BY <1>1, <1>2, <1>3, <1>4, <1>5, QuietClean, NamesApart, LayersPlaced
     DEF ProductInv, DraftInv, InWrite, Toward, Writing, Pending, Building, Place, Removal,
         Unharmed, KeptBut, Idle
<1>9. PendingInv'
  BY <1>1, <1>2, <1>3, <1>4, QuietAccounted
     DEF ProductInv, PendingInv, Pending, Place, Removal, Building, Writing, KeptBut, Idle
<1>10. RollbackInv' /\ DoneInv'
  BY <1>1, <1>2, <1>3, <1>4, QuietClean, QuietInPlace
     DEF ProductInv, RollbackInv, AfterUndoing, DoneInv, Removal, Pending, Place, Building,
         Writing, KeptBut, Idle
<1> QED BY <1>4, <1>5, <1>6, <1>7, <1>8, <1>9, <1>10, QuietStep

LEMMA WriteOwnStep ==
  ASSUME ProductInv, WriteOwn PROVE ProductInv'
<1>1. /\ holder # None
      /\ run.pc = "own"
      /\ run' = [run EXCEPT !.pc = "sync", !.then = "replace"]
      /\ Change(Reserve(run.slot, Owned))
      /\ UNCHANGED beside
  BY DEF WriteOwn, At, Own, ThenSync
<1>2. /\ run'.pc = "sync" /\ run'.then = "replace"
      /\ KeptBut({"pc", "then"})
  BY <1>1 DEF ProductInv, Control, KeptBut, Idle
<1>3. Place /\ Here = "own" /\ Here' = "replace"
  BY <1>1, <1>2 DEF ProductInv, Control, Here, KeptBut, Idle
<1>4. Quiet
  <2>1. run.slot \in Reserved
    BY <1>3 DEF Place, Reserved, Building, Removal
  <2> QED BY <1>1, <2>1, ReservedChangeIsQuiet DEF ProductInv, Reserve, Only
<1>5. Documented /\ hasty' = hasty /\ holder' = holder
  BY <1>1, <1>2, <1>3
     DEF ProductInv, SealInv, AtRest, Removal, Place, Writing, Pending, Building, beside, KeptBut,
         Idle
<1>6. Control'
  BY <1>1, <1>2, <1>3, <1>5
     DEF ProductInv, Control, Place, Unharmed, Removal, Writing, Pending, Building, Rollbacks,
         KeptBut, Idle
<1>7. SyncedInv' /\ JournalInv'
  BY <1>1, <1>2, <1>3, <1>4, <1>5, QuietSynced, QuietClean, NamesApart
     DEF ProductInv, SyncedInv, JournalInv, Forward, Unharmed, Removal, Place, Writing, Pending,
         Building, KeptBut, Idle
<1>8. DraftInv'
  BY <1>1, <1>2, <1>3, <1>4, <1>5, QuietClean, NamesApart, LayersPlaced
     DEF ProductInv, DraftInv, InWrite, Toward, Writing, Pending, Building, Place, Removal,
         Unharmed, KeptBut, Idle
<1>9. PendingInv'
  BY <1>1, <1>2, <1>3, <1>4, QuietAccounted
     DEF ProductInv, PendingInv, Pending, Place, Removal, Building, Writing, KeptBut, Idle
<1>10. RollbackInv' /\ DoneInv'
  BY <1>1, <1>2, <1>3, <1>4, QuietClean, QuietInPlace
     DEF ProductInv, RollbackInv, AfterUndoing, DoneInv, Removal, Pending, Place, Building,
         Writing, KeptBut, Idle
<1> QED BY <1>4, <1>5, <1>6, <1>7, <1>8, <1>9, <1>10, QuietStep

LEMMA MakeStageStep ==
  ASSUME ProductInv, MakeStage PROVE ProductInv'
<1>1. /\ holder # None
      /\ run.pc = "make_stage"
      /\ run' = [run EXCEPT !.pc = "mark_stage"]
      /\ Change(Reserve("stage", Bare))
      /\ UNCHANGED beside
  BY DEF MakeStage, At, Mark, Go
<1>2. /\ run'.pc = "mark_stage"
      /\ KeptBut({"pc"})
  BY <1>1 DEF ProductInv, Control, KeptBut, Idle
<1>3. Place /\ Here = "make_stage" /\ Here' = "mark_stage"
  BY <1>1, <1>2 DEF ProductInv, Control, Here, KeptBut, Idle
<1>4. Quiet
  BY <1>1, ReservedChangeIsQuiet DEF ProductInv, Reserve, Only, Reserved
<1>5. Documented /\ hasty' = hasty /\ holder' = holder
  BY <1>1, <1>2, <1>3
     DEF ProductInv, SealInv, AtRest, Removal, Place, Writing, Pending, Building, beside, KeptBut,
         Idle
<1>6. Control'
  BY <1>1, <1>2, <1>3, <1>5
     DEF ProductInv, Control, Place, Unharmed, Removal, Writing, Pending, Building, Rollbacks,
         KeptBut, Idle
<1>7. SyncedInv' /\ JournalInv'
  BY <1>1, <1>2, <1>3, <1>4, <1>5, QuietSynced, QuietClean, NamesApart
     DEF ProductInv, SyncedInv, JournalInv, Forward, Unharmed, Removal, Place, Writing, Pending,
         Building, KeptBut, Idle
<1>8. DraftInv'
  <2>1. run'.phase # "write"
    BY <1>2, <1>3 DEF Place, Building, Removal, Writing, Pending, Rollbacks, KeptBut, Idle
  <2> QED BY <2>1 DEF DraftInv, InWrite
<1>9. PendingInv'
  BY <1>1, <1>2, <1>3, <1>4, QuietAccounted
     DEF ProductInv, PendingInv, Pending, Place, Removal, Building, Writing, KeptBut, Idle
<1>10. RollbackInv' /\ DoneInv'
  BY <1>1, <1>2, <1>3, <1>4, QuietClean, QuietInPlace
     DEF ProductInv, RollbackInv, AfterUndoing, DoneInv, Removal, Pending, Place, Building,
         Writing, KeptBut, Idle
<1> QED BY <1>4, <1>5, <1>6, <1>7, <1>8, <1>9, <1>10, QuietStep

LEMMA MarkStageStep ==
  ASSUME ProductInv, MarkStage PROVE ProductInv'
<1>1. /\ holder # None
      /\ run.pc = "mark_stage"
      /\ run' = [run EXCEPT !.pc = "sync", !.then = "produce"]
      /\ Change(Reserve("stage", Owned))
      /\ UNCHANGED beside
  BY DEF MarkStage, At, Own, ThenSync
<1>2. /\ run'.pc = "sync" /\ run'.then = "produce"
      /\ KeptBut({"pc", "then"})
  BY <1>1 DEF ProductInv, Control, KeptBut, Idle
<1>3. Place /\ Here = "mark_stage" /\ Here' = "produce"
  BY <1>1, <1>2 DEF ProductInv, Control, Here, KeptBut, Idle
<1>4. Quiet
  BY <1>1, ReservedChangeIsQuiet DEF ProductInv, Reserve, Only, Reserved
<1>5. Documented /\ hasty' = hasty /\ holder' = holder
  BY <1>1, <1>2, <1>3
     DEF ProductInv, SealInv, AtRest, Removal, Place, Writing, Pending, Building, beside, KeptBut,
         Idle
<1>6. Control'
  BY <1>1, <1>2, <1>3, <1>5
     DEF ProductInv, Control, Place, Unharmed, Removal, Writing, Pending, Building, Rollbacks,
         KeptBut, Idle
<1>7. SyncedInv' /\ JournalInv'
  BY <1>1, <1>2, <1>3, <1>4, <1>5, QuietSynced, QuietClean, NamesApart
     DEF ProductInv, SyncedInv, JournalInv, Forward, Unharmed, Removal, Place, Writing, Pending,
         Building, KeptBut, Idle
<1>8. DraftInv'
  <2>1. run'.phase # "write"
    BY <1>2, <1>3 DEF Place, Building, Removal, Writing, Pending, Rollbacks, KeptBut, Idle
  <2> QED BY <2>1 DEF DraftInv, InWrite
<1>9. PendingInv'
  BY <1>1, <1>2, <1>3, <1>4, QuietAccounted
     DEF ProductInv, PendingInv, Pending, Place, Removal, Building, Writing, KeptBut, Idle
<1>10. RollbackInv' /\ DoneInv'
  BY <1>1, <1>2, <1>3, <1>4, QuietClean, QuietInPlace
     DEF ProductInv, RollbackInv, AfterUndoing, DoneInv, Removal, Pending, Place, Building,
         Writing, KeptBut, Idle
<1> QED BY <1>4, <1>5, <1>6, <1>7, <1>8, <1>9, <1>10, QuietStep

LEMMA ReceiptMarkStep ==
  ASSUME ProductInv, ReceiptMark PROVE ProductInv'
<1>1. /\ holder # None
      /\ run.pc = "receipt_mark"
      /\ run' = [run EXCEPT !.pc = "receipt_own"]
      /\ Change(Reserve("receipt_scratch", Bare))
      /\ UNCHANGED beside
  BY DEF ReceiptMark, At, Mark, Go
<1>2. /\ run'.pc = "receipt_own"
      /\ KeptBut({"pc"})
  BY <1>1 DEF ProductInv, Control, KeptBut, Idle
<1>3. Place /\ Here = "receipt_mark" /\ Here' = "receipt_own"
  BY <1>1, <1>2 DEF ProductInv, Control, Here, KeptBut, Idle
<1>4. Quiet
  BY <1>1, ReservedChangeIsQuiet DEF ProductInv, Reserve, Only, Reserved
<1>5. Documented /\ hasty' = hasty /\ holder' = holder
  BY <1>1, <1>2, <1>3
     DEF ProductInv, SealInv, AtRest, Removal, Place, Writing, Pending, Building, beside, KeptBut,
         Idle
<1>6. Control'
  BY <1>1, <1>2, <1>3, <1>5
     DEF ProductInv, Control, Place, Unharmed, Removal, Writing, Pending, Building, Rollbacks,
         KeptBut, Idle
<1>7. SyncedInv' /\ JournalInv'
  BY <1>1, <1>2, <1>3, <1>4, <1>5, QuietSynced, QuietClean, NamesApart
     DEF ProductInv, SyncedInv, JournalInv, Forward, Unharmed, Removal, Place, Writing, Pending,
         Building, KeptBut, Idle
<1>8. DraftInv'
  BY <1>1, <1>2, <1>3, <1>4, <1>5, QuietClean, NamesApart, LayersPlaced
     DEF ProductInv, DraftInv, InWrite, Toward, Writing, Pending, Building, Place, Removal,
         Unharmed, KeptBut, Idle
<1>9. PendingInv'
  BY <1>1, <1>2, <1>3, <1>4, QuietAccounted
     DEF ProductInv, PendingInv, Pending, Place, Removal, Building, Writing, KeptBut, Idle
<1>10. RollbackInv' /\ DoneInv'
  BY <1>1, <1>2, <1>3, <1>4, QuietClean, QuietInPlace
     DEF ProductInv, RollbackInv, AfterUndoing, DoneInv, Removal, Pending, Place, Building,
         Writing, KeptBut, Idle
<1> QED BY <1>4, <1>5, <1>6, <1>7, <1>8, <1>9, <1>10, QuietStep

LEMMA ReceiptOwnStep ==
  ASSUME ProductInv, ReceiptOwn PROVE ProductInv'
<1>1. /\ holder # None
      /\ run.pc = "receipt_own"
      /\ run' = [run EXCEPT !.pc = "sync", !.then = "journal_receipt"]
      /\ Change(Reserve("receipt_scratch", Owned))
      /\ UNCHANGED beside
  BY DEF ReceiptOwn, At, Own, ThenSync
<1>2. /\ run'.pc = "sync" /\ run'.then = "journal_receipt"
      /\ KeptBut({"pc", "then"})
  BY <1>1 DEF ProductInv, Control, KeptBut, Idle
<1>3. Place /\ Here = "receipt_own" /\ Here' = "journal_receipt"
  BY <1>1, <1>2 DEF ProductInv, Control, Here, KeptBut, Idle
<1>4. Quiet
  BY <1>1, ReservedChangeIsQuiet DEF ProductInv, Reserve, Only, Reserved
<1>5. Documented /\ hasty' = hasty /\ holder' = holder
  BY <1>1, <1>2, <1>3
     DEF ProductInv, SealInv, AtRest, Removal, Place, Writing, Pending, Building, beside, KeptBut,
         Idle
<1>6. Control'
  BY <1>1, <1>2, <1>3, <1>5
     DEF ProductInv, Control, Place, Unharmed, Removal, Writing, Pending, Building, Rollbacks,
         KeptBut, Idle
<1>7. SyncedInv' /\ JournalInv'
  BY <1>1, <1>2, <1>3, <1>4, <1>5, QuietSynced, QuietClean, NamesApart
     DEF ProductInv, SyncedInv, JournalInv, Forward, Unharmed, Removal, Place, Writing, Pending,
         Building, KeptBut, Idle
<1>8. DraftInv'
  BY <1>1, <1>2, <1>3, <1>4, <1>5, QuietClean, NamesApart, LayersPlaced
     DEF ProductInv, DraftInv, InWrite, Toward, Writing, Pending, Building, Place, Removal,
         Unharmed, KeptBut, Idle
<1>9. PendingInv'
  BY <1>1, <1>2, <1>3, <1>4, QuietAccounted
     DEF ProductInv, PendingInv, Pending, Place, Removal, Building, Writing, KeptBut, Idle
<1>10. RollbackInv' /\ DoneInv'
  BY <1>1, <1>2, <1>3, <1>4, QuietClean, QuietInPlace
     DEF ProductInv, RollbackInv, AfterUndoing, DoneInv, Removal, Pending, Place, Building,
         Writing, KeptBut, Idle
<1> QED BY <1>4, <1>5, <1>6, <1>7, <1>8, <1>9, <1>10, QuietStep

LEMMA MarkQuarantineStep ==
  ASSUME ProductInv, MarkQuarantine PROVE ProductInv'
<1>1. /\ holder # None
      /\ run.pc = "mark_quarantine"
      /\ run' = [run EXCEPT !.pc = "sync", !.then = "empty"]
      /\ Change(Reserve("quarantine", Owned))
      /\ UNCHANGED beside
  BY DEF MarkQuarantine, At, Own, ThenSync
<1>2. /\ run'.pc = "sync" /\ run'.then = "empty"
      /\ KeptBut({"pc", "then"})
  BY <1>1 DEF ProductInv, Control, KeptBut, Idle
<1>3. Place /\ Here = "mark_quarantine" /\ Here' = "empty"
  BY <1>1, <1>2 DEF ProductInv, Control, Here, KeptBut, Idle
<1>4. Quiet
  BY <1>1, ReservedChangeIsQuiet DEF ProductInv, Reserve, Only, Reserved
<1>5. (Documented \/ AtRest') /\ hasty' = hasty /\ holder' = holder
  BY <1>1, <1>2, <1>3 DEF ProductInv, SealInv, AtRest, Removal, beside, KeptBut, Idle
<1>6. Control'
  BY <1>1, <1>2, <1>3, <1>5
     DEF ProductInv, Control, Place, Unharmed, Removal, Writing, Pending, Building, Rollbacks,
         KeptBut, Idle
<1>7. SyncedInv' /\ JournalInv'
  BY <1>1, <1>2, <1>3, <1>4, <1>5, QuietSynced, QuietClean, NamesApart
     DEF ProductInv, SyncedInv, JournalInv, Forward, Unharmed, Removal, Place, Writing, Pending,
         Building, KeptBut, Idle
<1>8. DraftInv'
  <2>1. run'.phase # "write"
    BY <1>2, <1>3 DEF Place, Building, Removal, Writing, Pending, Rollbacks, KeptBut, Idle
  <2> QED BY <2>1 DEF DraftInv, InWrite
<1>9. PendingInv'
  BY <1>1, <1>2, <1>3, <1>4, QuietAccounted
     DEF ProductInv, PendingInv, Pending, Place, Removal, Building, Writing, KeptBut, Idle
<1>10. RollbackInv' /\ DoneInv'
  BY <1>1, <1>2, <1>3, <1>4, QuietClean, QuietInPlace
     DEF ProductInv, RollbackInv, AfterUndoing, DoneInv, Removal, Pending, Place, Building,
         Writing, KeptBut, Idle
<1> QED BY <1>4, <1>5, <1>6, <1>7, <1>8, <1>9, <1>10, QuietStep

LEMMA IsolateStep ==
  ASSUME ProductInv, Isolate PROVE ProductInv'
<1>1. /\ holder # None
      /\ run.pc = "isolate"
      /\ run' = [run EXCEPT !.pc = "move"]
      /\ Change(Only("quarantine", Bare))
      /\ UNCHANGED beside
  BY DEF Isolate, At, Go
<1>2. /\ run'.pc = "move"
      /\ KeptBut({"pc"})
  BY <1>1 DEF ProductInv, Control, KeptBut, Idle
<1>3. Place /\ Here = "isolate" /\ Here' = "move"
  BY <1>1, <1>2 DEF ProductInv, Control, Here, KeptBut, Idle
<1>4. Quiet
  BY <1>1, ReservedChangeIsQuiet DEF ProductInv, Reserve, Only, Reserved
<1>5. (Documented \/ AtRest') /\ hasty' = hasty /\ holder' = holder
  BY <1>1, <1>2, <1>3 DEF ProductInv, SealInv, AtRest, Removal, beside, KeptBut, Idle
<1>6. Control'
  BY <1>1, <1>2, <1>3, <1>5
     DEF ProductInv, Control, Place, Unharmed, Removal, Writing, Pending, Building, Rollbacks,
         KeptBut, Idle
<1>7. SyncedInv' /\ JournalInv'
  BY <1>1, <1>2, <1>3, <1>4, <1>5, QuietSynced, QuietClean, NamesApart
     DEF ProductInv, SyncedInv, JournalInv, Forward, Unharmed, Removal, Place, Writing, Pending,
         Building, KeptBut, Idle
<1>8. DraftInv'
  <2>1. run'.phase # "write"
    BY <1>2, <1>3 DEF Place, Building, Removal, Writing, Pending, Rollbacks, KeptBut, Idle
  <2> QED BY <2>1 DEF DraftInv, InWrite
<1>9. PendingInv'
  BY <1>1, <1>2, <1>3, <1>4, QuietAccounted
     DEF ProductInv, PendingInv, Pending, Place, Removal, Building, Writing, KeptBut, Idle
<1>10. RollbackInv' /\ DoneInv'
  BY <1>1, <1>2, <1>3, <1>4, QuietClean, QuietInPlace
     DEF ProductInv, RollbackInv, AfterUndoing, DoneInv, Removal, Pending, Place, Building,
         Writing, KeptBut, Idle
<1> QED BY <1>4, <1>5, <1>6, <1>7, <1>8, <1>9, <1>10, QuietStep

LEMMA MoveStep ==
  ASSUME ProductInv, Move PROVE ProductInv'
<1>1. /\ holder # None
      /\ run.pc = "move"
      /\ run' = [run EXCEPT !.pc = "mark_quarantine"]
      /\ Change(Only("stage", None))
      /\ UNCHANGED beside
  BY DEF Move, At, Go
<1>2. /\ run'.pc = "mark_quarantine"
      /\ KeptBut({"pc"})
  BY <1>1 DEF ProductInv, Control, KeptBut, Idle
<1>3. Place /\ Here = "move" /\ Here' = "mark_quarantine"
  BY <1>1, <1>2 DEF ProductInv, Control, Here, KeptBut, Idle
<1>4. Quiet
  BY <1>1, ReservedChangeIsQuiet DEF ProductInv, Reserve, Only, Reserved
<1>5. (Documented \/ AtRest') /\ hasty' = hasty /\ holder' = holder
  BY <1>1, <1>2, <1>3 DEF ProductInv, SealInv, AtRest, Removal, beside, KeptBut, Idle
<1>6. Control'
  BY <1>1, <1>2, <1>3, <1>5
     DEF ProductInv, Control, Place, Unharmed, Removal, Writing, Pending, Building, Rollbacks,
         KeptBut, Idle
<1>7. SyncedInv' /\ JournalInv'
  BY <1>1, <1>2, <1>3, <1>4, <1>5, QuietSynced, QuietClean, NamesApart
     DEF ProductInv, SyncedInv, JournalInv, Forward, Unharmed, Removal, Place, Writing, Pending,
         Building, KeptBut, Idle
<1>8. DraftInv'
  <2>1. run'.phase # "write"
    BY <1>2, <1>3 DEF Place, Building, Removal, Writing, Pending, Rollbacks, KeptBut, Idle
  <2> QED BY <2>1 DEF DraftInv, InWrite
<1>9. PendingInv'
  BY <1>1, <1>2, <1>3, <1>4, QuietAccounted
     DEF ProductInv, PendingInv, Pending, Place, Removal, Building, Writing, KeptBut, Idle
<1>10. RollbackInv' /\ DoneInv'
  BY <1>1, <1>2, <1>3, <1>4, QuietClean, QuietInPlace
     DEF ProductInv, RollbackInv, AfterUndoing, DoneInv, Removal, Pending, Place, Building,
         Writing, KeptBut, Idle
<1> QED BY <1>4, <1>5, <1>6, <1>7, <1>8, <1>9, <1>10, QuietStep

LEMMA EmptyQuarantineStep ==
  ASSUME ProductInv, EmptyQuarantine PROVE ProductInv'
<1>1. /\ holder # None
      /\ run.pc = "empty"
      /\ run' = [run EXCEPT !.pc = "unlink"]
      /\ Change(Only("quarantine", Bare))
      /\ UNCHANGED beside
  BY DEF EmptyQuarantine, At, Go
<1>2. /\ run'.pc = "unlink"
      /\ KeptBut({"pc"})
  BY <1>1 DEF ProductInv, Control, KeptBut, Idle
<1>3. Place /\ Here = "empty" /\ Here' = "unlink"
  BY <1>1, <1>2 DEF ProductInv, Control, Here, KeptBut, Idle
<1>4. Quiet
  BY <1>1, ReservedChangeIsQuiet DEF ProductInv, Reserve, Only, Reserved
<1>5. (Documented \/ AtRest') /\ hasty' = hasty /\ holder' = holder
  BY <1>1, <1>2, <1>3 DEF ProductInv, SealInv, AtRest, Removal, beside, KeptBut, Idle
<1>6. Control'
  BY <1>1, <1>2, <1>3, <1>5
     DEF ProductInv, Control, Place, Unharmed, Removal, Writing, Pending, Building, Rollbacks,
         KeptBut, Idle
<1>7. SyncedInv' /\ JournalInv'
  BY <1>1, <1>2, <1>3, <1>4, <1>5, QuietSynced, QuietClean, NamesApart
     DEF ProductInv, SyncedInv, JournalInv, Forward, Unharmed, Removal, Place, Writing, Pending,
         Building, KeptBut, Idle
<1>8. DraftInv'
  <2>1. run'.phase # "write"
    BY <1>2, <1>3 DEF Place, Building, Removal, Writing, Pending, Rollbacks, KeptBut, Idle
  <2> QED BY <2>1 DEF DraftInv, InWrite
<1>9. PendingInv'
  BY <1>1, <1>2, <1>3, <1>4, QuietAccounted
     DEF ProductInv, PendingInv, Pending, Place, Removal, Building, Writing, KeptBut, Idle
<1>10. RollbackInv' /\ DoneInv'
  BY <1>1, <1>2, <1>3, <1>4, QuietClean, QuietInPlace
     DEF ProductInv, RollbackInv, AfterUndoing, DoneInv, Removal, Pending, Place, Building,
         Writing, KeptBut, Idle
<1> QED BY <1>4, <1>5, <1>6, <1>7, <1>8, <1>9, <1>10, QuietStep

LEMMA ValidateStep ==
  ASSUME ProductInv, Validate PROVE ProductInv'
<1>1. /\ holder # None
      /\ run.pc = "validate"
      /\ run' = [run EXCEPT !.pc = "cleanup"]
      /\ UNCHANGED directory
      /\ UNCHANGED beside
  BY DEF Validate, At, Go
<1>2. /\ run'.pc = "cleanup"
      /\ KeptBut({"pc"})
  BY <1>1 DEF ProductInv, Control, KeptBut, Idle
<1>3. Place /\ Here = "validate" /\ Here' = "cleanup"
  BY <1>1, <1>2 DEF ProductInv, Control, Here, KeptBut, Idle
<1>4. Quiet
  BY <1>1, UnchangedIsQuiet DEF ProductInv
<1>5. Documented /\ hasty' = hasty /\ holder' = holder
  BY <1>1, <1>2, <1>3
     DEF ProductInv, SealInv, AtRest, Removal, Place, Writing, Pending, Building, beside, KeptBut,
         Idle
<1>6. Control'
  BY <1>1, <1>2, <1>3, <1>5
     DEF ProductInv, Control, Place, Unharmed, Removal, Writing, Pending, Building, Rollbacks,
         KeptBut, Idle
<1>7. SyncedInv' /\ JournalInv'
  BY <1>1, <1>2, <1>3, <1>4, <1>5, QuietSynced, QuietClean, NamesApart
     DEF ProductInv, SyncedInv, JournalInv, Forward, Unharmed, Removal, Place, Writing, Pending,
         Building, KeptBut, Idle
<1>8. DraftInv'
  BY <1>1, <1>2, <1>3, <1>4, <1>5, QuietClean, NamesApart, LayersPlaced
     DEF ProductInv, DraftInv, InWrite, Toward, Writing, Pending, Building, Place, Removal,
         Unharmed, KeptBut, Idle
<1>9. PendingInv'
  BY <1>1, <1>2, <1>3, <1>4, QuietAccounted
     DEF ProductInv, PendingInv, Pending, Place, Removal, Building, Writing, KeptBut, Idle
<1>10. RollbackInv' /\ DoneInv'
  BY <1>1, <1>2, <1>3, <1>4, QuietClean, QuietInPlace
     DEF ProductInv, RollbackInv, AfterUndoing, DoneInv, Removal, Pending, Place, Building,
         Writing, KeptBut, Idle
<1> QED BY <1>4, <1>5, <1>6, <1>7, <1>8, <1>9, <1>10, QuietStep

LEMMA UnlinkStep ==
  ASSUME ProductInv, Unlink PROVE ProductInv'
<1>1. /\ holder # None
      /\ run.pc = "unlink"
      /\ run' = [run EXCEPT !.pc = "sync", !.then = run.back, !.back = "idle"]
      /\ Change(Reserve("quarantine", None))
      /\ UNCHANGED beside
  BY DEF Unlink, At
<1>2. /\ run'.pc = "sync" /\ run'.then = run.back /\ run'.back = "idle"
      /\ KeptBut({"pc", "then", "back"})
  BY <1>1 DEF ProductInv, Control, KeptBut, Idle
<1>3. Place /\ Here = "unlink" /\ Here' = run.back
  BY <1>1, <1>2 DEF ProductInv, Control, Here, KeptBut, Idle
<1>4. Quiet
  BY <1>1, ReservedChangeIsQuiet DEF ProductInv, Reserve, Only, Reserved
<1>5. (Documented \/ AtRest') /\ hasty' = hasty /\ holder' = holder
  BY <1>1, <1>2, <1>3 DEF ProductInv, SealInv, AtRest, Removal, beside, KeptBut, Idle
<1>6. Control'
  BY <1>1, <1>2, <1>3, <1>5
     DEF ProductInv, Control, Place, Unharmed, Removal, Writing, Pending, Building, Rollbacks,
         KeptBut, Idle
<1>7. SyncedInv' /\ JournalInv'
  BY <1>1, <1>2, <1>3, <1>4, <1>5, QuietSynced, QuietClean, NamesApart
     DEF ProductInv, SyncedInv, JournalInv, Forward, Unharmed, Removal, Place, Writing, Pending,
         Building, KeptBut, Idle
<1>8. DraftInv'
  <2>1. run'.phase # "write"
    BY <1>2, <1>3 DEF Place, Building, Removal, Writing, Pending, Rollbacks, KeptBut, Idle
  <2> QED BY <2>1 DEF DraftInv, InWrite
<1>9. PendingInv'
  BY <1>1, <1>2, <1>3, <1>4, QuietAccounted
     DEF ProductInv, PendingInv, Pending, Place, Removal, Building, Writing, KeptBut, Idle
<1>10. RollbackInv' /\ DoneInv'
  BY <1>1, <1>2, <1>3, <1>4, QuietClean, QuietInPlace
     DEF ProductInv, RollbackInv, AfterUndoing, DoneInv, Removal, Pending, Place, Building,
         Writing, KeptBut, Idle
<1> QED BY <1>4, <1>5, <1>6, <1>7, <1>8, <1>9, <1>10, QuietStep

LEMMA WriteUnmarkStep ==
  ASSUME ProductInv, WriteUnmark PROVE ProductInv'
<1>1. /\ holder # None
      /\ run.pc = "unmark"
      /\ run' = [run EXCEPT !.pc = "sync", !.then = run.back, !.slot = Idle.slot,
                            !.change = << >>, !.back = "idle"]
      /\ Change(Reserve(run.slot, None))
      /\ UNCHANGED beside
  BY DEF WriteUnmark, At
<1>2. /\ run'.pc = "sync" /\ run'.then = run.back /\ run'.back = "idle" /\ run'.slot = "scratch"
      /\ run'.change = << >>
      /\ KeptBut({"pc", "then", "back", "slot", "change"})
  BY <1>1 DEF ProductInv, Control, KeptBut, Idle
<1>3. Place /\ Here = "unmark" /\ Here' = run.back
  BY <1>1, <1>2 DEF ProductInv, Control, Here, KeptBut, Idle
<1>4. Quiet
  <2>1. run.slot \in Reserved
    BY <1>3 DEF Place, Reserved, Building, Removal
  <2> QED BY <1>1, <2>1, ReservedChangeIsQuiet DEF ProductInv, Reserve, Only
<1>5. Documented /\ hasty' = hasty /\ holder' = holder
  BY <1>1, <1>2, <1>3
     DEF ProductInv, SealInv, AtRest, Removal, Place, Writing, Pending, Building, beside, KeptBut,
         Idle
<1>6. Control'
  BY <1>1, <1>2, <1>3, <1>5
     DEF ProductInv, Control, Place, Unharmed, Removal, Writing, Pending, Building, Rollbacks,
         KeptBut, Idle
<1>7. SyncedInv' /\ JournalInv'
  BY <1>1, <1>2, <1>3, <1>4, <1>5, QuietSynced, QuietClean, NamesApart
     DEF ProductInv, SyncedInv, JournalInv, Forward, Unharmed, Removal, Place, Writing, Pending,
         Building, KeptBut, Idle
<1>8. DraftInv'
  <2>1. CASE ~ InWrite
    BY <1>2, <2>1 DEF DraftInv, InWrite, KeptBut, Idle
  <2>2. CASE InWrite
    <3>1. run.back \in {"publish", "link", "promote"} /\ DraftInv
      BY <1>2, <1>3, <2>2 DEF ProductInv, InWrite, Place, Building, Removal, Rollbacks
    <3>2. /\ run.draft \in AnyJournal /\ run.draft.owner = holder /\ live["journal"] = run.draft
          /\ run.layer \in 1 .. Len(Layers) + 1
          /\ \A k \in 1 .. run.layer - 1 : live[Layers[k]] = holder
          /\ live["provenance"] \notin Transactions
      BY <1>3, <2>2, <3>1 DEF DraftInv, Building
    <3>3. \A name \in Products : live'[name] = live[name]
      BY <1>4, QuietClean
    <3>4. /\ Here' = run.back /\ Here' \notin Writing /\ Toward(run.back)
          /\ run'.draft = run.draft /\ run'.layer = run.layer
      BY <1>2, <1>3, <3>1 DEF Toward, Writing, Pending, KeptBut, Idle
    <3>5. \A k \in 1 .. run.layer - 1 : live'[Layers[k]] = holder
      BY <3>2, <3>3, LayersPlaced, NamesApart
    <3>6. /\ live'["journal"] = run.draft /\ live'["provenance"] \notin Transactions
      BY <3>2, <3>3, NamesApart
    <3>7. /\ Toward("publish") \/ Toward("link") => ~ run.draft.receipt
          /\ Toward("link") => run.layer <= Len(Layers) /\ Layers[run.layer] \in run.draft.installed
          /\ Toward("promote") => run.draft.receipt /\ "provenance" \in run.draft.installed
          /\ Toward("promote") => run.layer = Len(Layers) + 1
      BY <2>2, <3>1 DEF DraftInv
    <3> QED BY <1>5, <3>1, <3>2, <3>4, <3>5, <3>6, <3>7 DEF DraftInv, Toward
  <2> QED BY <2>1, <2>2
<1>9. PendingInv'
  BY <1>1, <1>2, <1>3, <1>4, QuietAccounted
     DEF ProductInv, PendingInv, Pending, Place, Removal, Building, Writing, KeptBut, Idle
<1>10. RollbackInv' /\ DoneInv'
  BY <1>1, <1>2, <1>3, <1>4, QuietClean, QuietInPlace
     DEF ProductInv, RollbackInv, AfterUndoing, DoneInv, Removal, Pending, Place, Building,
         Writing, KeptBut, Idle
<1> QED BY <1>4, <1>5, <1>6, <1>7, <1>8, <1>9, <1>10, QuietStep

LEMMA UnmarkReceiptStep ==
  ASSUME ProductInv, UnmarkReceipt PROVE ProductInv'
<1>1. /\ holder # None
      /\ run.pc = "unmark_receipt"
      /\ run' = [run EXCEPT !.pc = "sync", !.then = IF run.failed THEN "cleanup" ELSE "complete"]
      /\ Change(Reserve("receipt_scratch", None))
      /\ UNCHANGED beside
  BY DEF UnmarkReceipt, At, ThenSync
<1>2. /\ run'.pc = "sync" /\ run'.then = (IF run.failed THEN "cleanup" ELSE "complete")
      /\ KeptBut({"pc", "then"})
  BY <1>1 DEF ProductInv, Control, KeptBut, Idle
<1>3. Place /\ Here = "unmark_receipt" /\ Here' = run'.then
  BY <1>1, <1>2 DEF ProductInv, Control, Here, KeptBut, Idle
<1>4. Quiet
  BY <1>1, ReservedChangeIsQuiet DEF ProductInv, Reserve, Only, Reserved
<1>5. Documented /\ hasty' = hasty /\ holder' = holder
  BY <1>1, <1>2, <1>3
     DEF ProductInv, SealInv, AtRest, Removal, Place, Writing, Pending, Building, beside, KeptBut,
         Idle
<1>6. Control'
  BY <1>1, <1>2, <1>3, <1>5
     DEF ProductInv, Control, Place, Unharmed, Removal, Writing, Pending, Building, Rollbacks,
         KeptBut, Idle
<1>7. SyncedInv' /\ JournalInv'
  BY <1>1, <1>2, <1>3, <1>4, <1>5, QuietSynced, QuietClean, NamesApart
     DEF ProductInv, SyncedInv, JournalInv, Forward, Unharmed, Removal, Place, Writing, Pending,
         Building, KeptBut, Idle
<1>8. DraftInv'
  <2>1. CASE run.failed
    BY <1>2, <2>1 DEF DraftInv, InWrite, KeptBut, Idle
  <2>2. CASE ~ run.failed
    <3>1. run'.then = "complete" /\ Here' = "complete" /\ run.phase = "write"
      BY <1>2, <1>3, <2>2 DEF Place, Building, Removal, Writing, Pending
    <3>2. /\ run.draft \in AnyJournal /\ run.draft.owner = holder /\ live["journal"] = run.draft
          /\ \A k \in 1 .. run.layer - 1 : live[Layers[k]] = holder
          /\ live["provenance"] \notin Transactions /\ run.layer = Len(Layers) + 1
          /\ live["receipt"] = holder /\ "provenance" \in run.draft.installed
      BY <1>3, <2>2, <3>1 DEF ProductInv, DraftInv, InWrite, Building
    <3>3. \A name \in Products : live'[name] = live[name]
      BY <1>4, QuietClean
    <3>4. \A k \in 1 .. run.layer - 1 : live'[Layers[k]] = holder
      BY <3>2, <3>3, LayersPlaced, NamesApart
    <3>5. /\ live'["journal"] = run.draft /\ live'["provenance"] \notin Transactions
          /\ live'["receipt"] = holder
      BY <3>2, <3>3, NamesApart
    <3>6. run'.draft = run.draft /\ run'.layer = run.layer
      BY <1>2 DEF KeptBut, Idle
    <3> QED BY <1>5, <3>1, <3>2, <3>4, <3>5, <3>6, LayersPlaced
            DEF DraftInv, Toward, Writing, Pending
  <2> QED BY <2>1, <2>2
<1>9. PendingInv'
  BY <1>1, <1>2, <1>3, <1>4, QuietAccounted
     DEF ProductInv, PendingInv, Pending, Place, Removal, Building, Writing, KeptBut, Idle
<1>10. RollbackInv' /\ DoneInv'
  BY <1>1, <1>2, <1>3, <1>4, QuietClean, QuietInPlace
     DEF ProductInv, RollbackInv, AfterUndoing, DoneInv, Removal, Pending, Place, Building,
         Writing, KeptBut, Idle
<1> QED BY <1>4, <1>5, <1>6, <1>7, <1>8, <1>9, <1>10, QuietStep

LEMMA RestoreReceiptStep ==
  ASSUME ProductInv, Restore, live["receipt"] = live["journal"].owner /\ live["journal"].receipt
  PROVE  ProductInv'
<1>1. /\ holder # None
      /\ run.pc = "unpublish"
      /\ run.layer = 0
      /\ run' = [run EXCEPT !.pc = "mark", !.slot = "receipt_scratch",
                            !.change = Only("receipt", None), !.back = "discard"]
      /\ UNCHANGED directory
      /\ UNCHANGED beside
  BY DEF Restore, At, Write
<1>2. /\ run'.pc = "mark" /\ run'.slot = "receipt_scratch" /\ run'.change = Only("receipt", None)
      /\ run'.back = "discard"
      /\ KeptBut({"pc", "slot", "change", "back"})
  BY <1>1 DEF ProductInv, Control, KeptBut, Idle
<1>3. Place /\ Here = "unpublish" /\ Here' = "mark"
  BY <1>1, <1>2 DEF ProductInv, Control, Here, KeptBut, Idle
<1>4. Quiet
  BY <1>1, UnchangedIsQuiet DEF ProductInv
<1>5. Documented /\ hasty' = hasty /\ holder' = holder
  BY <1>1, <1>2, <1>3
     DEF ProductInv, SealInv, AtRest, Removal, Place, Writing, Pending, Building, beside, KeptBut,
         Idle
<1>6. Control'
  BY <1>1, <1>2, <1>3, <1>5
     DEF ProductInv, Control, Place, Unharmed, Removal, Writing, Pending, Building, Rollbacks,
         KeptBut, Idle
<1>7. SyncedInv' /\ JournalInv'
  BY <1>1, <1>2, <1>3, <1>4, <1>5, QuietSynced, QuietClean, NamesApart
     DEF ProductInv, SyncedInv, JournalInv, Forward, Unharmed, Removal, Place, Writing, Pending,
         Building, KeptBut, Idle
<1>8. DraftInv'
  <2>1. run'.phase # "write"
    BY <1>2, <1>3 DEF Place, Building, Removal, Writing, Pending, Rollbacks, KeptBut, Idle
  <2> QED BY <2>1 DEF DraftInv, InWrite
<1>9. PendingInv'
  BY <1>1, <1>2, <1>3, <1>4, QuietAccounted
     DEF ProductInv, PendingInv, Pending, Place, Removal, Building, Writing, KeptBut, Idle
<1>10. RollbackInv' /\ DoneInv'
  BY <1>1, <1>2, <1>3, <1>4, QuietClean, QuietInPlace
     DEF ProductInv, RollbackInv, AfterUndoing, DoneInv, Removal, Pending, Place, Building,
         Writing, KeptBut, Idle
<1> QED BY <1>4, <1>5, <1>6, <1>7, <1>8, <1>9, <1>10, QuietStep

(* A rollback starts over, with nothing collided.                                *)
LEMMA RollbackStarts ==
  ASSUME ProductInv, UNCHANGED << directory, beside >>, holder # None, Documented,
         NEW phase \in Rollbacks, StartRollback(phase)
  PROVE  ProductInv'
<1>1. /\ run'.pc = "unpublish" /\ run'.phase = phase /\ run'.layer = Len(Layers) + 1
      /\ run'.removing = FALSE /\ run'.failed = FALSE /\ run'.unclean = FALSE
      /\ run'.collided = {} /\ DOMAIN run' = DOMAIN Idle
  BY DEF StartRollback, Idle
<1>2. Here' = "unpublish" /\ holder' = holder /\ hasty' = hasty /\ phase \notin {"begin", "write", "cleanup"}
  BY <1>1 DEF Here, beside, Rollbacks
<1>3. Quiet
  BY UnchangedIsQuiet DEF ProductInv
<1>4. Control'
  BY <1>1, <1>2 DEF ProductInv, Control, Place, Unharmed
<1>5. SyncedInv' /\ JournalInv' /\ DraftInv'
  BY <1>1, <1>2 DEF SyncedInv, JournalInv, DraftInv, InWrite, Forward, Removal
<1>6. PendingInv' /\ DoneInv'
  BY <1>1, <1>2 DEF PendingInv, DoneInv, Pending
<1>7. Undone(Len(Layers) + 1)'
  BY LayersPlaced DEF Undone
<1>8. RollbackInv'
  BY <1>1, <1>2, <1>7, LayersPlaced DEF RollbackInv, AfterUndoing, Pending, Removal
<1> QED BY <1>2, <1>3, <1>4, <1>5, <1>6, <1>8, QuietStep

LEMMA AcquireStep ==
  ASSUME ProductInv, NEW t \in Transactions, Acquire(t) PROVE ProductInv'
<1>1. /\ run'.pc = "recover" /\ run'.phase = "acquire"
      /\ run'.removing = FALSE /\ run'.failed = FALSE /\ run'.unclean = FALSE
      /\ run'.collided = {} /\ DOMAIN run' = DOMAIN Idle
      /\ holder' = t /\ UNCHANGED << directory, hasty >>
  BY DEF Acquire, Idle
<1>2. Here' = "recover" /\ AtRest'
  BY <1>1 DEF Here, AtRest
<1>3. Quiet
  BY <1>1, UnchangedIsQuiet DEF ProductInv
<1>4. Control'
  BY <1>1, <1>2, EntriesApart DEF Control, Place, Unharmed
<1>5. SyncedInv' /\ JournalInv' /\ DraftInv'
  BY <1>1, <1>2 DEF SyncedInv, JournalInv, DraftInv, InWrite, Forward, Removal
<1>6. PendingInv' /\ DoneInv' /\ RollbackInv'
  BY <1>1, <1>2 DEF PendingInv, DoneInv, RollbackInv, AfterUndoing, Pending, Removal
<1> QED BY <1>1, <1>2, <1>3, <1>4, <1>5, <1>6, QuietStep

LEMMA RecoverNothingStep ==
  ASSUME ProductInv, Recover, run' = [run EXCEPT !.pc = "orphans"], UNCHANGED << directory,
         beside >>, live["journal"] = NoJournal
  PROVE  ProductInv'
<1>1. /\ holder # None
      /\ run.pc = "recover"
      /\ run' = [run EXCEPT !.pc = "orphans"]
      /\ UNCHANGED directory
      /\ live["journal"] = NoJournal
      /\ UNCHANGED beside
  BY DEF Recover, At, Go
<1>2. /\ run'.pc = "orphans"
      /\ KeptBut({"pc"})
  BY <1>1 DEF ProductInv, Control, KeptBut, Idle
<1>3. Place /\ Here = "recover" /\ Here' = "orphans"
  BY <1>1, <1>2 DEF ProductInv, Control, Here, KeptBut, Idle
<1>4. Quiet
  BY <1>1, UnchangedIsQuiet DEF ProductInv
<1>5. AtRest' /\ hasty' = hasty /\ holder' = holder
  BY <1>1, <1>2, <1>3 DEF AtRest, Removal, beside, KeptBut, Idle
<1>6. Control'
  BY <1>1, <1>2, <1>3, <1>5
     DEF ProductInv, Control, Place, Unharmed, Removal, Writing, Pending, Building, Rollbacks,
         KeptBut, Idle
<1>7. SyncedInv' /\ JournalInv'
  BY <1>1, <1>2, <1>3, <1>4, <1>5, QuietSynced, QuietClean, NamesApart
     DEF ProductInv, SyncedInv, JournalInv, Forward, Unharmed, Removal, Place, Writing, Pending,
         Building, KeptBut, Idle
<1>8. DraftInv'
  <2>1. run'.phase # "write"
    BY <1>2, <1>3 DEF Place, Building, Removal, Writing, Pending, Rollbacks, KeptBut, Idle
  <2> QED BY <2>1 DEF DraftInv, InWrite
<1>9. PendingInv'
  BY <1>1, <1>2, <1>3, <1>4, QuietAccounted
     DEF ProductInv, PendingInv, Pending, Place, Removal, Building, Writing, KeptBut, Idle
<1>10. RollbackInv' /\ DoneInv'
  BY <1>1, <1>2, <1>3, <1>4, QuietClean, QuietInPlace
     DEF ProductInv, RollbackInv, AfterUndoing, DoneInv, Removal, Pending, Place, Building,
         Writing, KeptBut, Idle
<1> QED BY <1>4, <1>5, <1>6, <1>7, <1>8, <1>9, <1>10, QuietStep

LEMMA OrphansEmptyStep ==
  ASSUME ProductInv, Orphans, Unowned(live) = {}, live["quarantine"] # None PROVE ProductInv'
<1>1. /\ holder # None
      /\ run.pc = "orphans"
      /\ run' = [run EXCEPT !.pc = "empty", !.back = "orphans", !.removing = TRUE]
      /\ UNCHANGED directory
      /\ UNCHANGED beside
  BY DEF Orphans, At
<1>2. /\ run'.pc = "empty" /\ run'.back = "orphans" /\ run'.removing = TRUE
      /\ KeptBut({"pc", "back", "removing"})
  BY <1>1 DEF ProductInv, Control, KeptBut, Idle
<1>3. Place /\ Here = "orphans" /\ Here' = "empty"
  BY <1>1, <1>2 DEF ProductInv, Control, Here, KeptBut, Idle
<1>4. Quiet
  BY <1>1, UnchangedIsQuiet DEF ProductInv
<1>5. AtRest' /\ hasty' = hasty /\ holder' = holder
  BY <1>1, <1>2, <1>3 DEF AtRest, Removal, beside, KeptBut, Idle
<1>6. Control'
  BY <1>1, <1>2, <1>3, <1>5
     DEF ProductInv, Control, Place, Unharmed, Removal, Writing, Pending, Building, Rollbacks,
         KeptBut, Idle
<1>7. SyncedInv' /\ JournalInv'
  BY <1>1, <1>2, <1>3, <1>4, <1>5, QuietSynced, QuietClean, NamesApart
     DEF ProductInv, SyncedInv, JournalInv, Forward, Unharmed, Removal, Place, Writing, Pending,
         Building, KeptBut, Idle
<1>8. DraftInv'
  <2>1. run'.phase # "write"
    BY <1>2, <1>3 DEF Place, Building, Removal, Writing, Pending, Rollbacks, KeptBut, Idle
  <2> QED BY <2>1 DEF DraftInv, InWrite
<1>9. PendingInv'
  BY <1>1, <1>2, <1>3, <1>4, QuietAccounted
     DEF ProductInv, PendingInv, Pending, Place, Removal, Building, Writing, KeptBut, Idle
<1>10. RollbackInv' /\ DoneInv'
  BY <1>1, <1>2, <1>3, <1>4, QuietClean, QuietInPlace
     DEF ProductInv, RollbackInv, AfterUndoing, DoneInv, Removal, Pending, Place, Building,
         Writing, KeptBut, Idle
<1> QED BY <1>4, <1>5, <1>6, <1>7, <1>8, <1>9, <1>10, QuietStep

LEMMA OrphansIsolateStep ==
  ASSUME ProductInv, Orphans, Unowned(live) = {}, live["quarantine"] = None, live["stage"] # None
  PROVE  ProductInv'
<1>1. /\ holder # None
      /\ run.pc = "orphans"
      /\ run' = [run EXCEPT !.pc = "isolate", !.back = "orphans", !.removing = TRUE]
      /\ UNCHANGED directory
      /\ UNCHANGED beside
  BY DEF Orphans, At, StartRemoval
<1>2. /\ run'.pc = "isolate" /\ run'.back = "orphans" /\ run'.removing = TRUE
      /\ KeptBut({"pc", "back", "removing"})
  BY <1>1 DEF ProductInv, Control, KeptBut, Idle
<1>3. Place /\ Here = "orphans" /\ Here' = "isolate"
  BY <1>1, <1>2 DEF ProductInv, Control, Here, KeptBut, Idle
<1>4. Quiet
  BY <1>1, UnchangedIsQuiet DEF ProductInv
<1>5. AtRest' /\ hasty' = hasty /\ holder' = holder
  BY <1>1, <1>2, <1>3 DEF AtRest, Removal, beside, KeptBut, Idle
<1>6. Control'
  BY <1>1, <1>2, <1>3, <1>5
     DEF ProductInv, Control, Place, Unharmed, Removal, Writing, Pending, Building, Rollbacks,
         KeptBut, Idle
<1>7. SyncedInv' /\ JournalInv'
  BY <1>1, <1>2, <1>3, <1>4, <1>5, QuietSynced, QuietClean, NamesApart
     DEF ProductInv, SyncedInv, JournalInv, Forward, Unharmed, Removal, Place, Writing, Pending,
         Building, KeptBut, Idle
<1>8. DraftInv'
  <2>1. run'.phase # "write"
    BY <1>2, <1>3 DEF Place, Building, Removal, Writing, Pending, Rollbacks, KeptBut, Idle
  <2> QED BY <2>1 DEF DraftInv, InWrite
<1>9. PendingInv'
  BY <1>1, <1>2, <1>3, <1>4, QuietAccounted
     DEF ProductInv, PendingInv, Pending, Place, Removal, Building, Writing, KeptBut, Idle
<1>10. RollbackInv' /\ DoneInv'
  BY <1>1, <1>2, <1>3, <1>4, QuietClean, QuietInPlace
     DEF ProductInv, RollbackInv, AfterUndoing, DoneInv, Removal, Pending, Place, Building,
         Writing, KeptBut, Idle
<1> QED BY <1>4, <1>5, <1>6, <1>7, <1>8, <1>9, <1>10, QuietStep

LEMMA OrphansClearStep ==
  ASSUME ProductInv, Orphans, Unowned(live) = {}, live["quarantine"] = None, live["stage"] = None
  PROVE  ProductInv'
<1>1. /\ holder # None
      /\ run.pc = "orphans"
      /\ run' = [run EXCEPT !.pc = "sync", !.then = "check"]
      /\ Change([name \in {"scratch", "receipt_scratch"} |-> None])
      /\ UNCHANGED beside
  BY DEF Orphans, At, ThenSync
<1>2. /\ run'.pc = "sync" /\ run'.then = "check"
      /\ KeptBut({"pc", "then"})
  BY <1>1 DEF ProductInv, Control, KeptBut, Idle
<1>3. Place /\ Here = "orphans" /\ Here' = "check"
  BY <1>1, <1>2 DEF ProductInv, Control, Here, KeptBut, Idle
<1>4. Quiet
  BY <1>1, ReservedChangeIsQuiet DEF ProductInv, Reserve, Only, Reserved
<1>5. AtRest' /\ hasty' = hasty /\ holder' = holder
  BY <1>1, <1>2, <1>3 DEF AtRest, Removal, beside, KeptBut, Idle
<1>6. Control'
  BY <1>1, <1>2, <1>3, <1>5
     DEF ProductInv, Control, Place, Unharmed, Removal, Writing, Pending, Building, Rollbacks,
         KeptBut, Idle
<1>7. SyncedInv' /\ JournalInv'
  BY <1>1, <1>2, <1>3, <1>4, <1>5, QuietSynced, QuietClean, NamesApart
     DEF ProductInv, SyncedInv, JournalInv, Forward, Unharmed, Removal, Place, Writing, Pending,
         Building, KeptBut, Idle
<1>8. DraftInv'
  <2>1. run'.phase # "write"
    BY <1>2, <1>3 DEF Place, Building, Removal, Writing, Pending, Rollbacks, KeptBut, Idle
  <2> QED BY <2>1 DEF DraftInv, InWrite
<1>9. PendingInv'
  BY <1>1, <1>2, <1>3, <1>4, QuietAccounted
     DEF ProductInv, PendingInv, Pending, Place, Removal, Building, Writing, KeptBut, Idle
<1>10. RollbackInv' /\ DoneInv'
  BY <1>1, <1>2, <1>3, <1>4, QuietClean, QuietInPlace
     DEF ProductInv, RollbackInv, AfterUndoing, DoneInv, Removal, Pending, Place, Building,
         Writing, KeptBut, Idle
<1> QED BY <1>4, <1>5, <1>6, <1>7, <1>8, <1>9, <1>10, QuietStep

LEMMA CleanupStep ==
  ASSUME ProductInv, Cleanup, live["stage"] = None PROVE ProductInv'
<1>1. /\ holder # None
      /\ run.pc = "cleanup"
      /\ run' = [run EXCEPT !.pc = "decide", !.phase = "cleanup"]
      /\ UNCHANGED directory
      /\ UNCHANGED beside
  BY DEF Cleanup, At
<1>2. /\ run'.pc = "decide" /\ run'.phase = "cleanup"
      /\ KeptBut({"pc", "phase"})
  BY <1>1 DEF ProductInv, Control, KeptBut, Idle
<1>3. Place /\ Here = "cleanup" /\ Here' = "decide"
  BY <1>1, <1>2 DEF ProductInv, Control, Here, KeptBut, Idle
<1>4. Quiet
  BY <1>1, UnchangedIsQuiet DEF ProductInv
<1>5. Documented /\ hasty' = hasty /\ holder' = holder
  BY <1>1, <1>2, <1>3
     DEF ProductInv, SealInv, AtRest, Removal, Place, Writing, Pending, Building, beside, KeptBut,
         Idle
<1>6. Control'
  BY <1>1, <1>2, <1>3, <1>5
     DEF ProductInv, Control, Place, Unharmed, Removal, Writing, Pending, Building, Rollbacks,
         KeptBut, Idle
<1>7. SyncedInv' /\ JournalInv'
  BY <1>1, <1>2, <1>3, <1>4, <1>5, QuietSynced, QuietClean, NamesApart
     DEF ProductInv, SyncedInv, JournalInv, Forward, Unharmed, Removal, Place, Writing, Pending,
         Building, KeptBut, Idle, DraftInv, InWrite
<1>8. DraftInv'
  <2>1. run'.phase # "write"
    BY <1>2, <1>3 DEF Place, Building, Removal, Writing, Pending, Rollbacks, KeptBut, Idle
  <2> QED BY <2>1 DEF DraftInv, InWrite
<1>9. PendingInv'
  BY <1>1, <1>2, <1>3, <1>4, QuietAccounted
     DEF ProductInv, PendingInv, Pending, Place, Removal, Building, Writing, KeptBut, Idle
<1>10. RollbackInv' /\ DoneInv'
  BY <1>1, <1>2, <1>3, <1>4, QuietClean, QuietInPlace
     DEF ProductInv, RollbackInv, AfterUndoing, DoneInv, Removal, Pending, Place, Building,
         Writing, KeptBut, Idle
<1> QED BY <1>4, <1>5, <1>6, <1>7, <1>8, <1>9, <1>10, QuietStep

LEMMA CleanupStageStep ==
  ASSUME ProductInv, Cleanup, live["stage"] # None PROVE ProductInv'
<1>1. /\ holder # None
      /\ run.pc = "cleanup"
      /\ run' = [run EXCEPT !.pc = "isolate", !.back = "decide", !.removing = TRUE,
                            !.phase = "cleanup"]
      /\ UNCHANGED directory
      /\ UNCHANGED beside
  BY DEF Cleanup, At
<1>2. /\ run'.pc = "isolate" /\ run'.back = "decide" /\ run'.removing = TRUE
      /\ run'.phase = "cleanup"
      /\ KeptBut({"pc", "back", "removing", "phase"})
  BY <1>1 DEF ProductInv, Control, KeptBut, Idle
<1>3. Place /\ Here = "cleanup" /\ Here' = "isolate"
  BY <1>1, <1>2 DEF ProductInv, Control, Here, KeptBut, Idle
<1>4. Quiet
  BY <1>1, UnchangedIsQuiet DEF ProductInv
<1>5. Documented /\ hasty' = hasty /\ holder' = holder
  BY <1>1, <1>2, <1>3
     DEF ProductInv, SealInv, AtRest, Removal, Place, Writing, Pending, Building, beside, KeptBut,
         Idle
<1>6. Control'
  BY <1>1, <1>2, <1>3, <1>5
     DEF ProductInv, Control, Place, Unharmed, Removal, Writing, Pending, Building, Rollbacks,
         KeptBut, Idle
<1>7. SyncedInv' /\ JournalInv'
  BY <1>1, <1>2, <1>3, <1>4, <1>5, QuietSynced, QuietClean, NamesApart
     DEF ProductInv, SyncedInv, JournalInv, Forward, Unharmed, Removal, Place, Writing, Pending,
         Building, KeptBut, Idle, DraftInv, InWrite
<1>8. DraftInv'
  <2>1. run'.phase # "write"
    BY <1>2, <1>3 DEF Place, Building, Removal, Writing, Pending, Rollbacks, KeptBut, Idle
  <2> QED BY <2>1 DEF DraftInv, InWrite
<1>9. PendingInv'
  BY <1>1, <1>2, <1>3, <1>4, QuietAccounted
     DEF ProductInv, PendingInv, Pending, Place, Removal, Building, Writing, KeptBut, Idle
<1>10. RollbackInv' /\ DoneInv'
  BY <1>1, <1>2, <1>3, <1>4, QuietClean, QuietInPlace
     DEF ProductInv, RollbackInv, AfterUndoing, DoneInv, Removal, Pending, Place, Building,
         Writing, KeptBut, Idle
<1> QED BY <1>4, <1>5, <1>6, <1>7, <1>8, <1>9, <1>10, QuietStep

LEMMA DecideCommitStep ==
  ASSUME ProductInv, Decide, ~ run.failed, ~ run.unclean PROVE ProductInv'
<1>1. /\ holder # None
      /\ run.pc = "decide"
      /\ run' = [run EXCEPT !.pc = "commit"]
      /\ UNCHANGED directory
      /\ ~ run.failed /\ ~ run.unclean
      /\ UNCHANGED beside
  BY DEF Decide, At, Go
<1>2. /\ run'.pc = "commit"
      /\ KeptBut({"pc"})
  BY <1>1 DEF ProductInv, Control, KeptBut, Idle
<1>3. Place /\ Here = "decide" /\ Here' = "commit"
  BY <1>1, <1>2 DEF ProductInv, Control, Here, KeptBut, Idle
<1>4. Quiet
  BY <1>1, UnchangedIsQuiet DEF ProductInv
<1>5. Documented /\ hasty' = hasty /\ holder' = holder
  BY <1>1, <1>2, <1>3
     DEF ProductInv, SealInv, AtRest, Removal, Place, Writing, Pending, Building, beside, KeptBut,
         Idle
<1>6. Control'
  BY <1>1, <1>2, <1>3, <1>5
     DEF ProductInv, Control, Place, Unharmed, Removal, Writing, Pending, Building, Rollbacks,
         KeptBut, Idle
<1>7. SyncedInv' /\ JournalInv'
  BY <1>1, <1>2, <1>3, <1>4, <1>5, QuietSynced, QuietClean, NamesApart
     DEF ProductInv, SyncedInv, JournalInv, Forward, Unharmed, Removal, Place, Writing, Pending,
         Building, KeptBut, Idle
<1>8. DraftInv'
  <2>1. run'.phase # "write"
    BY <1>2, <1>3 DEF Place, Building, Removal, Writing, Pending, Rollbacks, KeptBut, Idle
  <2> QED BY <2>1 DEF DraftInv, InWrite
<1>9. PendingInv'
  BY <1>1, <1>2, <1>3, <1>4, QuietAccounted
     DEF ProductInv, PendingInv, Pending, Place, Removal, Building, Writing, KeptBut, Idle
<1>10. RollbackInv' /\ DoneInv'
  BY <1>1, <1>2, <1>3, <1>4, QuietClean, QuietInPlace
     DEF ProductInv, RollbackInv, AfterUndoing, DoneInv, Removal, Pending, Place, Building,
         Writing, KeptBut, Idle
<1> QED BY <1>4, <1>5, <1>6, <1>7, <1>8, <1>9, <1>10, QuietStep

LEMMA DiscardNothingStep ==
  ASSUME ProductInv, Discard, live["stage"] = None PROVE ProductInv'
<1>1. /\ holder # None
      /\ run.pc = "discard"
      /\ run' = [run EXCEPT !.pc = "settle"]
      /\ UNCHANGED directory
      /\ UNCHANGED beside
  BY DEF Discard, At, Go
<1>2. /\ run'.pc = "settle"
      /\ KeptBut({"pc"})
  BY <1>1 DEF ProductInv, Control, KeptBut, Idle
<1>3. Place /\ Here = "discard" /\ Here' = "settle"
  BY <1>1, <1>2 DEF ProductInv, Control, Here, KeptBut, Idle
<1>4. Quiet
  BY <1>1, UnchangedIsQuiet DEF ProductInv
<1>5. Documented /\ hasty' = hasty /\ holder' = holder
  BY <1>1, <1>2, <1>3
     DEF ProductInv, SealInv, AtRest, Removal, Place, Writing, Pending, Building, beside, KeptBut,
         Idle
<1>6. Control'
  BY <1>1, <1>2, <1>3, <1>5
     DEF ProductInv, Control, Place, Unharmed, Removal, Writing, Pending, Building, Rollbacks,
         KeptBut, Idle
<1>7. SyncedInv' /\ JournalInv'
  BY <1>1, <1>2, <1>3, <1>4, <1>5, QuietSynced, QuietClean, NamesApart
     DEF ProductInv, SyncedInv, JournalInv, Forward, Unharmed, Removal, Place, Writing, Pending,
         Building, KeptBut, Idle
<1>8. DraftInv'
  <2>1. run'.phase # "write"
    BY <1>2, <1>3 DEF Place, Building, Removal, Writing, Pending, Rollbacks, KeptBut, Idle
  <2> QED BY <2>1 DEF DraftInv, InWrite
<1>9. PendingInv'
  BY <1>1, <1>2, <1>3, <1>4, QuietAccounted
     DEF ProductInv, PendingInv, Pending, Place, Removal, Building, Writing, KeptBut, Idle
<1>10. RollbackInv' /\ DoneInv'
  BY <1>1, <1>2, <1>3, <1>4, QuietClean, QuietInPlace
     DEF ProductInv, RollbackInv, AfterUndoing, DoneInv, Removal, Pending, Place, Building,
         Writing, KeptBut, Idle
<1> QED BY <1>4, <1>5, <1>6, <1>7, <1>8, <1>9, <1>10, QuietStep

LEMMA DiscardStageStep ==
  ASSUME ProductInv, Discard, live["stage"] # None PROVE ProductInv'
<1>1. /\ holder # None
      /\ run.pc = "discard"
      /\ run' = [run EXCEPT !.pc = "isolate", !.back = "settle", !.removing = TRUE]
      /\ UNCHANGED directory
      /\ UNCHANGED beside
  BY DEF Discard, At, StartRemoval
<1>2. /\ run'.pc = "isolate" /\ run'.back = "settle" /\ run'.removing = TRUE
      /\ KeptBut({"pc", "back", "removing"})
  BY <1>1 DEF ProductInv, Control, KeptBut, Idle
<1>3. Place /\ Here = "discard" /\ Here' = "isolate"
  BY <1>1, <1>2 DEF ProductInv, Control, Here, KeptBut, Idle
<1>4. Quiet
  BY <1>1, UnchangedIsQuiet DEF ProductInv
<1>5. Documented /\ hasty' = hasty /\ holder' = holder
  BY <1>1, <1>2, <1>3
     DEF ProductInv, SealInv, AtRest, Removal, Place, Writing, Pending, Building, beside, KeptBut,
         Idle
<1>6. Control'
  BY <1>1, <1>2, <1>3, <1>5
     DEF ProductInv, Control, Place, Unharmed, Removal, Writing, Pending, Building, Rollbacks,
         KeptBut, Idle
<1>7. SyncedInv' /\ JournalInv'
  BY <1>1, <1>2, <1>3, <1>4, <1>5, QuietSynced, QuietClean, NamesApart
     DEF ProductInv, SyncedInv, JournalInv, Forward, Unharmed, Removal, Place, Writing, Pending,
         Building, KeptBut, Idle
<1>8. DraftInv'
  <2>1. run'.phase # "write"
    BY <1>2, <1>3 DEF Place, Building, Removal, Writing, Pending, Rollbacks, KeptBut, Idle
  <2> QED BY <2>1 DEF DraftInv, InWrite
<1>9. PendingInv'
  BY <1>1, <1>2, <1>3, <1>4, QuietAccounted
     DEF ProductInv, PendingInv, Pending, Place, Removal, Building, Writing, KeptBut, Idle
<1>10. RollbackInv' /\ DoneInv'
  BY <1>1, <1>2, <1>3, <1>4, QuietClean, QuietInPlace
     DEF ProductInv, RollbackInv, AfterUndoing, DoneInv, Removal, Pending, Place, Building,
         Writing, KeptBut, Idle
<1> QED BY <1>4, <1>5, <1>6, <1>7, <1>8, <1>9, <1>10, QuietStep

LEMMA PublishLastStep ==
  ASSUME ProductInv, Publish, ~ (run.layer <= Len(Layers)) PROVE ProductInv'
<1>1. /\ holder # None
      /\ run.pc = "publish"
      /\ run' = [run EXCEPT !.pc = "receipt_mark"]
      /\ UNCHANGED directory
      /\ ~ (run.layer <= Len(Layers))
      /\ UNCHANGED beside
  BY DEF Publish, At, Go
<1>2. /\ run'.pc = "receipt_mark"
      /\ KeptBut({"pc"})
  BY <1>1 DEF ProductInv, Control, KeptBut, Idle
<1>3. Place /\ Here = "publish" /\ Here' = "receipt_mark"
  BY <1>1, <1>2 DEF ProductInv, Control, Here, KeptBut, Idle
<1>4. Quiet
  BY <1>1, UnchangedIsQuiet DEF ProductInv
<1>5. Documented /\ hasty' = hasty /\ holder' = holder
  BY <1>1, <1>2, <1>3
     DEF ProductInv, SealInv, AtRest, Removal, Place, Writing, Pending, Building, beside, KeptBut,
         Idle
<1>6. Control'
  BY <1>1, <1>2, <1>3, <1>5
     DEF ProductInv, Control, Place, Unharmed, Removal, Writing, Pending, Building, Rollbacks,
         KeptBut, Idle
<1>7. SyncedInv' /\ JournalInv'
  BY <1>1, <1>2, <1>3, <1>4, <1>5, QuietSynced, QuietClean, NamesApart
     DEF ProductInv, SyncedInv, JournalInv, Forward, Unharmed, Removal, Place, Writing, Pending,
         Building, KeptBut, Idle
<1>8. DraftInv'
  BY <1>1, <1>2, <1>3, <1>4, <1>5, QuietClean, NamesApart, LayersPlaced
     DEF ProductInv, DraftInv, InWrite, Toward, Writing, Pending, Building, Place, Removal,
         Unharmed, KeptBut, Idle
<1>9. PendingInv'
  BY <1>1, <1>2, <1>3, <1>4, QuietAccounted
     DEF ProductInv, PendingInv, Pending, Place, Removal, Building, Writing, KeptBut, Idle
<1>10. RollbackInv' /\ DoneInv'
  BY <1>1, <1>2, <1>3, <1>4, QuietClean, QuietInPlace
     DEF ProductInv, RollbackInv, AfterUndoing, DoneInv, Removal, Pending, Place, Building,
         Writing, KeptBut, Idle
<1> QED BY <1>4, <1>5, <1>6, <1>7, <1>8, <1>9, <1>10, QuietStep

(* A journal that says more than the one on disk accounts for as much.              *)
LEMMA AccountsMore ==
  ASSUME Synced, Documented, NEW j, j.owner = live["journal"].owner,
         live["journal"].installed \subseteq j.installed, live["journal"].receipt => j.receipt
  PROVE  Accounted(j)
<1>1. ASSUME NEW dir \in images PROVE Accounts(j, dir)
  <2>1. dir["journal"] = live["journal"] /\ Accounts(dir["journal"], dir)
    BY DEF Synced, Agrees, Documented
  <2> QED BY <2>1 DEF Accounts
<1> QED BY <1>1 DEF Accounted

LEMMA JournaledAt ==
  ASSUME run.draft \in AnyJournal, run.draft.owner \in Transactions,
         NEW names \in SUBSET Published, NEW receipt \in BOOLEAN
  PROVE  /\ Journaled(names, receipt) \in AnyJournal
         /\ Journaled(names, receipt).owner = run.draft.owner
         /\ Journaled(names, receipt).installed = run.draft.installed \cup names
         /\ Journaled(names, receipt).receipt = receipt
<1>1. ASSUME NEW d \in [owner : Transactions \cup {None}, installed : SUBSET Published,
                        receipt : BOOLEAN, blocked : BOOLEAN]
      PROVE  LET j == [d EXCEPT !.installed = @ \cup names, !.receipt = receipt]
             IN /\ j \in [owner : Transactions \cup {None}, installed : SUBSET Published,
                          receipt : BOOLEAN, blocked : BOOLEAN]
                /\ j.owner = d.owner /\ j.installed = d.installed \cup names /\ j.receipt = receipt
  OBVIOUS
<1> QED BY <1>1, EntriesApart DEF AnyJournal, Journaled

LEMMA BlockedAt ==
  ASSUME NEW old \in AnyJournal
  PROVE  LET j == [old EXCEPT !.blocked = TRUE]
         IN /\ j \in AnyJournal /\ j.owner = old.owner
            /\ j.receipt = old.receipt /\ j.installed = old.installed
BY DEF AnyJournal

(* What a call that builds its product knows before it journals more.                *)
LEMMA BuildingKnows ==
  ASSUME ProductInv, holder # None, run.pc \in Building
  PROVE  /\ InWrite /\ Unharmed /\ Synced /\ Documented
         /\ run.draft \in AnyJournal /\ run.draft.owner = holder /\ holder \in Transactions
         /\ live["journal"] = run.draft
<1>1. Here = run.pc /\ Place /\ run.pc # "sync" /\ holder \in Transactions
  BY DEF Here, Building, ProductInv, Control
<1>2. run.phase = "write" /\ Unharmed
  BY <1>1 DEF Place, Building, Removal, Writing, Pending
<1>3. Synced
  BY <1>1, <1>2 DEF ProductInv, SyncedInv, Forward
<1>4. Documented
  BY <1>1 DEF ProductInv, SealInv, AtRest, Removal, Building
<1> QED BY <1>1, <1>2, <1>3, <1>4 DEF ProductInv, DraftInv, InWrite, Unharmed

LEMMA PublishStep ==
  ASSUME ProductInv, Publish, run.layer <= Len(Layers) PROVE ProductInv'
<1>1. /\ holder # None
      /\ run.pc = "publish"
      /\ run' = [run EXCEPT !.pc = "mark", !.slot = "scratch", !.back = "link",
                            !.change = Only("journal", Journaled({Layers[run.layer]}, FALSE)),
                            !.draft = Journaled({Layers[run.layer]}, FALSE)]
      /\ UNCHANGED directory
      /\ run.layer <= Len(Layers)
      /\ UNCHANGED beside
  BY DEF Publish, At, SaveDraft
<1>2. /\ run'.pc = "mark" /\ run'.slot = "scratch" /\ run'.back = "link"
      /\ run'.change = Only("journal", Journaled({Layers[run.layer]}, FALSE))
      /\ run'.draft = Journaled({Layers[run.layer]}, FALSE)
      /\ KeptBut({"pc", "slot", "back", "change", "draft"})
  BY <1>1 DEF ProductInv, Control, KeptBut, Idle
<1>3. Place /\ Here = "publish" /\ Here' = "mark"
  BY <1>1, <1>2 DEF ProductInv, Control, Here, KeptBut, Idle
<1>4. Quiet
  BY <1>1, UnchangedIsQuiet DEF ProductInv
<1>5. Documented /\ hasty' = hasty /\ holder' = holder
  BY <1>1, <1>2, <1>3
     DEF ProductInv, SealInv, AtRest, Removal, Place, Writing, Pending, Building, beside, KeptBut,
         Idle
<1>6. Control'
  BY <1>1, <1>2, <1>3, <1>5
     DEF ProductInv, Control, Place, Unharmed, Removal, Writing, Pending, Building, Rollbacks,
         KeptBut, Idle
<1>7. SyncedInv' /\ JournalInv'
  BY <1>1, <1>2, <1>3, <1>4, <1>5, QuietSynced, QuietClean, NamesApart
     DEF ProductInv, SyncedInv, JournalInv, Forward, Unharmed, Removal, Place, Writing, Pending,
         Building, KeptBut, Idle
<1>8. DraftInv'
  <2>1. /\ live["journal"] = run.draft /\ run.draft.owner = holder
        /\ run.draft \in AnyJournal /\ holder \in Transactions /\ InWrite
    BY <1>1, BuildingKnows DEF Building
  <2>2. ~ run.draft.receipt /\ Layers[run.layer] \in Published /\ {Layers[run.layer]} \subseteq Published
    BY <1>1, <1>3, <2>1, LayersPlaced, NamesApart DEF ProductInv, DraftInv, Toward, Building
  <2>3. PICK j : j = Journaled({Layers[run.layer]}, FALSE)
    OBVIOUS
  <2>6. /\ j \in AnyJournal /\ j.owner = holder
        /\ j.installed = run.draft.installed \cup {Layers[run.layer]} /\ j.receipt = FALSE
    BY <2>1, <2>2, <2>3, JournaledAt
  <2>4. /\ run.layer \in 1 .. Len(Layers) + 1 /\ \A k \in 1 .. run.layer - 1 : live[Layers[k]] = holder
        /\ live["provenance"] \notin Transactions
    BY <1>3, <2>1 DEF ProductInv, DraftInv
  <2>5. /\ \A k \in 1 .. run.layer - 1 : live'[Layers[k]] = holder
        /\ live'["provenance"] \notin Transactions
    BY <1>1, <2>4 DEF directory
  <2>7. /\ run'.draft = j /\ run'.layer = run.layer /\ run'.back = "link" /\ Here' = "mark"
    BY <1>2, <1>3, <2>3 DEF KeptBut, Idle
  <2> QED BY <1>5, <2>2, <2>4, <2>5, <2>6, <2>7 DEF DraftInv, Toward, Writing, Pending, Building
<1>9. PendingInv'
  <2>1. /\ Synced /\ Documented /\ live["journal"] = run.draft /\ run.draft.owner = holder
        /\ run.draft \in AnyJournal /\ holder \in Transactions /\ InWrite
    BY <1>1, BuildingKnows DEF Building
  <2>2. ~ run.draft.receipt /\ Layers[run.layer] \in Published /\ {Layers[run.layer]} \subseteq Published
    BY <1>1, <1>3, <2>1, LayersPlaced, NamesApart DEF ProductInv, DraftInv, Toward, Building
  <2>3. PICK j : j = Journaled({Layers[run.layer]}, FALSE)
    OBVIOUS
  <2>4. /\ j \in AnyJournal /\ j.owner = run.draft.owner
        /\ j.installed = run.draft.installed \cup {Layers[run.layer]} /\ j.receipt = FALSE
    BY <2>1, <2>2, <2>3, JournaledAt
  <2>5. Accounted(j)
    BY <2>1, <2>2, <2>4, AccountsMore
  <2>6. Accounted(j)'
    BY <2>5, <1>4, QuietAccounted
  <2>7. run'.change = Only("journal", j) /\ run'.draft = j /\ run'.slot = "scratch"
    BY <1>2, <2>3
  <2> QED BY <1>3, <2>4, <2>6, <2>7 DEF PendingInv, Pending
<1>10. RollbackInv' /\ DoneInv'
  BY <1>1, <1>2, <1>3, <1>4, QuietClean, QuietInPlace
     DEF ProductInv, RollbackInv, AfterUndoing, DoneInv, Removal, Pending, Place, Building,
         Writing, KeptBut, Idle
<1> QED BY <1>4, <1>5, <1>6, <1>7, <1>8, <1>9, <1>10, QuietStep

LEMMA JournalReceiptStep ==
  ASSUME ProductInv, JournalReceipt PROVE ProductInv'
<1>1. /\ holder # None
      /\ run.pc = "journal_receipt"
      /\ run' = [run EXCEPT !.pc = "mark", !.slot = "scratch", !.back = "promote",
                            !.change = Only("journal", Journaled({"provenance"}, TRUE)),
                            !.draft = Journaled({"provenance"}, TRUE)]
      /\ UNCHANGED directory
      /\ UNCHANGED beside
  BY DEF JournalReceipt, At, SaveDraft
<1>2. /\ run'.pc = "mark" /\ run'.slot = "scratch" /\ run'.back = "promote"
      /\ run'.change = Only("journal", Journaled({"provenance"}, TRUE))
      /\ run'.draft = Journaled({"provenance"}, TRUE)
      /\ KeptBut({"pc", "slot", "back", "change", "draft"})
  BY <1>1 DEF ProductInv, Control, KeptBut, Idle
<1>3. Place /\ Here = "journal_receipt" /\ Here' = "mark"
  BY <1>1, <1>2 DEF ProductInv, Control, Here, KeptBut, Idle
<1>4. Quiet
  BY <1>1, UnchangedIsQuiet DEF ProductInv
<1>5. Documented /\ hasty' = hasty /\ holder' = holder
  BY <1>1, <1>2, <1>3
     DEF ProductInv, SealInv, AtRest, Removal, Place, Writing, Pending, Building, beside, KeptBut,
         Idle
<1>6. Control'
  BY <1>1, <1>2, <1>3, <1>5
     DEF ProductInv, Control, Place, Unharmed, Removal, Writing, Pending, Building, Rollbacks,
         KeptBut, Idle
<1>7. SyncedInv' /\ JournalInv'
  BY <1>1, <1>2, <1>3, <1>4, <1>5, QuietSynced, QuietClean, NamesApart
     DEF ProductInv, SyncedInv, JournalInv, Forward, Unharmed, Removal, Place, Writing, Pending,
         Building, KeptBut, Idle
<1>8. DraftInv'
  <2>1. /\ live["journal"] = run.draft /\ run.draft.owner = holder
        /\ run.draft \in AnyJournal /\ holder \in Transactions /\ InWrite
    BY <1>1, BuildingKnows DEF Building
  <2>2. run.layer = Len(Layers) + 1 /\ {"provenance"} \subseteq Published
    BY <1>1, <1>3, <2>1, LayersPlaced, NamesApart DEF ProductInv, DraftInv, Toward, Building
  <2>3. PICK j : j = Journaled({"provenance"}, TRUE)
    OBVIOUS
  <2>6. /\ j \in AnyJournal /\ j.owner = holder
        /\ j.installed = run.draft.installed \cup {"provenance"} /\ j.receipt = TRUE
    BY <2>1, <2>2, <2>3, JournaledAt
  <2>4. /\ run.layer \in 1 .. Len(Layers) + 1 /\ \A k \in 1 .. run.layer - 1 : live[Layers[k]] = holder
        /\ live["provenance"] \notin Transactions
    BY <1>3, <2>1 DEF ProductInv, DraftInv
  <2>5. /\ \A k \in 1 .. run.layer - 1 : live'[Layers[k]] = holder
        /\ live'["provenance"] \notin Transactions
    BY <1>1, <2>4 DEF directory
  <2>7. /\ run'.draft = j /\ run'.layer = run.layer /\ run'.back = "promote" /\ Here' = "mark"
    BY <1>2, <1>3, <2>3 DEF KeptBut, Idle
  <2> QED BY <1>5, <2>2, <2>4, <2>5, <2>6, <2>7 DEF DraftInv, Toward, Writing, Pending, Building
<1>9. PendingInv'
  <2>1. /\ Synced /\ Documented /\ live["journal"] = run.draft /\ run.draft.owner = holder
        /\ run.draft \in AnyJournal /\ holder \in Transactions /\ InWrite
    BY <1>1, BuildingKnows DEF Building
  <2>2. run.layer = Len(Layers) + 1 /\ {"provenance"} \subseteq Published
    BY <1>1, <1>3, <2>1, LayersPlaced, NamesApart DEF ProductInv, DraftInv, Toward, Building
  <2>3. PICK j : j = Journaled({"provenance"}, TRUE)
    OBVIOUS
  <2>4. /\ j \in AnyJournal /\ j.owner = run.draft.owner
        /\ j.installed = run.draft.installed \cup {"provenance"} /\ j.receipt = TRUE
    BY <2>1, <2>2, <2>3, JournaledAt
  <2>5. Accounted(j)
    BY <2>1, <2>2, <2>4, AccountsMore
  <2>6. Accounted(j)'
    BY <2>5, <1>4, QuietAccounted
  <2>7. run'.change = Only("journal", j) /\ run'.draft = j /\ run'.slot = "scratch"
    BY <1>2, <2>3
  <2> QED BY <1>3, <2>4, <2>6, <2>7 DEF PendingInv, Pending
<1>10. RollbackInv' /\ DoneInv'
  BY <1>1, <1>2, <1>3, <1>4, QuietClean, QuietInPlace
     DEF ProductInv, RollbackInv, AfterUndoing, DoneInv, Removal, Pending, Place, Building,
         Writing, KeptBut, Idle
<1> QED BY <1>4, <1>5, <1>6, <1>7, <1>8, <1>9, <1>10, QuietStep

LEMMA CheckStep ==
  ASSUME ProductInv, Check, NothingPublished PROVE ProductInv'
<1>1. /\ holder # None
      /\ run.pc = "check"
      /\ run' = [run EXCEPT !.pc = "make_stage", !.phase = "begin"]
      /\ UNCHANGED directory
      /\ NothingPublished
      /\ UNCHANGED beside
  BY DEF Check, At
<1>2. /\ run'.pc = "make_stage" /\ run'.phase = "begin"
      /\ KeptBut({"pc", "phase"})
  BY <1>1 DEF ProductInv, Control, KeptBut, Idle
<1>3. Place /\ Here = "check" /\ Here' = "make_stage"
  BY <1>1, <1>2 DEF ProductInv, Control, Here, KeptBut, Idle
<1>4. Quiet
  BY <1>1, UnchangedIsQuiet DEF ProductInv
<1>5. Documented /\ hasty' = hasty /\ holder' = holder
  <2>1. \A t \in Transactions : ~ Sealed(t)
    <3>1. live \in images /\ Layers[1] \in LayerNames /\ live[Layers[1]] = None
      BY <1>1, LayersPlaced DEF NothingPublished, Published, ProductInv, DirectoryInv
    <3> QED BY <3>1, EntriesApart DEF Sealed, SealedIn
  <2> QED BY <1>1, <2>1 DEF ProductInv, SealInv, beside
<1>6. Control'
  BY <1>1, <1>2, <1>3, <1>5
     DEF ProductInv, Control, Place, Unharmed, Removal, Writing, Pending, Building, Rollbacks,
         KeptBut, Idle
<1>7. SyncedInv' /\ JournalInv'
  BY <1>1, <1>2, <1>3, <1>4, <1>5, QuietSynced, QuietClean, NamesApart, EntriesApart
     DEF ProductInv, SyncedInv, JournalInv, Forward, Unharmed, Removal, Place, Writing, Pending,
         Building, KeptBut, Idle, NothingPublished, Published
<1>8. DraftInv'
  <2>1. run'.phase # "write"
    BY <1>2, <1>3 DEF Place, Building, Removal, Writing, Pending, Rollbacks, KeptBut, Idle
  <2> QED BY <2>1 DEF DraftInv, InWrite
<1>9. PendingInv'
  BY <1>1, <1>2, <1>3, <1>4, QuietAccounted
     DEF ProductInv, PendingInv, Pending, Place, Removal, Building, Writing, KeptBut, Idle
<1>10. RollbackInv' /\ DoneInv'
  BY <1>1, <1>2, <1>3, <1>4, QuietClean, QuietInPlace
     DEF ProductInv, RollbackInv, AfterUndoing, DoneInv, Removal, Pending, Place, Building,
         Writing, KeptBut, Idle
<1> QED BY <1>4, <1>5, <1>6, <1>7, <1>8, <1>9, <1>10, QuietStep

LEMMA ProduceStep ==
  ASSUME ProductInv, Produce PROVE ProductInv'
<1>1. /\ holder # None
      /\ run.pc = "produce"
      /\ run' = [run EXCEPT !.pc = "mark", !.slot = "scratch", !.back = "publish",
                            !.change = Only("journal", Journal(holder, {}, FALSE, FALSE)),
                            !.draft = Journal(holder, {}, FALSE, FALSE), !.phase = "write",
                            !.layer = 1]
      /\ UNCHANGED directory
      /\ UNCHANGED beside
  BY DEF Produce, At
<1>2. /\ run'.pc = "mark" /\ run'.slot = "scratch" /\ run'.back = "publish"
      /\ run'.change = Only("journal", Journal(holder, {}, FALSE, FALSE))
      /\ run'.draft = Journal(holder, {}, FALSE, FALSE) /\ run'.phase = "write" /\ run'.layer = 1
      /\ KeptBut({"pc", "slot", "back", "change", "draft", "phase", "layer"})
  BY <1>1 DEF ProductInv, Control, KeptBut, Idle
<1>3. Place /\ Here = "produce" /\ Here' = "mark"
  BY <1>1, <1>2 DEF ProductInv, Control, Here, KeptBut, Idle
<1>4. Quiet
  BY <1>1, UnchangedIsQuiet DEF ProductInv
<1>5. Documented /\ hasty' = hasty /\ holder' = holder
  BY <1>1, <1>2, <1>3
     DEF ProductInv, SealInv, AtRest, Removal, Place, Writing, Pending, Building, beside, KeptBut,
         Idle
<1>6. Control'
  BY <1>1, <1>2, <1>3, <1>5
     DEF ProductInv, Control, Place, Unharmed, Removal, Writing, Pending, Building, Rollbacks,
         KeptBut, Idle
<1>7. SyncedInv' /\ JournalInv'
  BY <1>1, <1>2, <1>3, <1>4, <1>5, QuietSynced, QuietClean, NamesApart
     DEF ProductInv, SyncedInv, JournalInv, Forward, Unharmed, Removal, Place, Writing, Pending,
         Building, KeptBut, Idle
<1>8. DraftInv'
  <2>1. live["provenance"] \notin Transactions /\ holder \in Transactions
    BY <1>1, <1>3 DEF ProductInv, JournalInv, Control, Place, Building, Removal, Writing, Pending
  <2>2. PICK j : j = Journal(holder, {}, FALSE, FALSE)
    OBVIOUS
  <2>3. j \in AnyJournal /\ j.owner = holder /\ ~ j.receipt
    BY <2>1, <2>2, EntriesApart DEF AnyJournal, Journal
  <2>4. run'.draft = j /\ run'.layer = 1 /\ Here' = "mark" /\ run'.back = "publish"
    BY <1>2, <1>3, <2>2
  <2>5. live'["provenance"] \notin Transactions
    BY <1>1, <2>1 DEF directory
  <2> QED BY <1>5, <2>3, <2>4, <2>5, LayersPlaced
          DEF DraftInv, Toward, Building, Writing, Pending
<1>9. PendingInv'
  <2>1. /\ Synced /\ Documented /\ live["journal"] = NoJournal /\ holder \in Transactions
    BY <1>1, <1>3, <1>5 DEF ProductInv, SyncedInv, JournalInv, Control, Place, Forward, Unharmed,
                           Building, Removal, Writing, Pending
  <2>2. PICK j : j = Journal(holder, {}, FALSE, FALSE)
    OBVIOUS
  <2>3. j \in AnyJournal
    BY <2>1, <2>2, EntriesApart DEF AnyJournal, Journal
  <2>4. Accounted(j)
    <3>1. ASSUME NEW dir \in images PROVE Accounts(j, dir)
      <4>1. Accounts(NoJournal, dir)
        BY <2>1 DEF Synced, Agrees, Documented
      <4> QED BY <4>1, NoJournalTyped, EntriesApart DEF Accounts
    <3> QED BY <3>1 DEF Accounted
  <2>5. Accounted(j)'
    BY <2>4, <1>4, QuietAccounted
  <2>6. run'.change = Only("journal", j) /\ run'.draft = j /\ run'.slot = "scratch"
    BY <1>2, <2>2
  <2> QED BY <1>3, <2>3, <2>5, <2>6 DEF PendingInv, Pending
<1>10. RollbackInv' /\ DoneInv'
  BY <1>1, <1>2, <1>3, <1>4, QuietClean, QuietInPlace
     DEF ProductInv, RollbackInv, AfterUndoing, DoneInv, Removal, Pending, Place, Building,
         Writing, KeptBut, Idle
<1> QED BY <1>4, <1>5, <1>6, <1>7, <1>8, <1>9, <1>10, QuietStep

LEMMA SyncStep ==
  ASSUME ProductInv, Sync PROVE ProductInv'
<1>1. /\ holder # None
      /\ run.pc = "sync"
      /\ run' = [run EXCEPT !.pc = run.then, !.then = "idle",
                            !.removing = run.removing /\ run.then = "empty"]
      /\ SyncDirectory
      /\ UNCHANGED beside
  BY DEF Sync, At
<1>2. /\ run'.pc = run.then /\ run'.then = "idle"
      /\ run'.removing = (run.removing /\ run.then = "empty")
      /\ KeptBut({"pc", "then", "removing"})
  BY <1>1 DEF ProductInv, Control, KeptBut, Idle
<1>3. Place /\ Here = run.then /\ run.then # "sync" /\ Here' = run.then
  BY <1>1, <1>2
     DEF ProductInv, Control, Here, KeptBut, Idle, Place, Removal, Writing, Pending, Building
<1>4. Quiet
  BY <1>1, SyncIsQuiet DEF ProductInv
<1>5. (Documented \/ AtRest') /\ hasty' = hasty /\ holder' = holder
  BY <1>1, <1>2, <1>3 DEF ProductInv, SealInv, AtRest, Removal, beside, KeptBut, Idle
<1>6. Control'
  BY <1>1, <1>2, <1>3, <1>5
     DEF ProductInv, Control, Place, Unharmed, Removal, Writing, Pending, Building, Rollbacks,
         KeptBut, Idle
<1>7. SyncedInv' /\ JournalInv'
  <2>1. Synced'
    BY <1>1, SyncIsQuiet DEF Synced, Agrees, ProductInv
  <2>2. JournalInv'
    BY <1>1, <1>2, <1>3, <1>4, <1>5, QuietClean, NamesApart
       DEF ProductInv, JournalInv, KeptBut, Idle
  <2> QED BY <2>1, <2>2 DEF SyncedInv
<1>8. DraftInv'
  BY <1>1, <1>2, <1>3, <1>4, <1>5, QuietClean, NamesApart, LayersPlaced
     DEF ProductInv, DraftInv, InWrite, Toward, Writing, Pending, Building, Place, Removal,
         Unharmed, KeptBut, Idle
<1>9. PendingInv'
  BY <1>1, <1>2, <1>3, <1>4, QuietAccounted
     DEF ProductInv, PendingInv, Pending, Place, Removal, Building, Writing, KeptBut, Idle
<1>10. RollbackInv' /\ DoneInv'
  <2>1. RollbackInv'
    BY <1>1, <1>2, <1>3, <1>4, QuietClean
       DEF ProductInv, RollbackInv, AfterUndoing, Removal, Pending, Place, Building, Writing, KeptBut, Idle
  <2>2. DoneInv'
    BY <1>1, <1>2, <1>3, <1>5, SyncIsQuiet DEF ProductInv, DirectoryInv, DoneInv, InPlace
  <2> QED BY <2>1, <2>2
<1> QED BY <1>4, <1>5, <1>6, <1>7, <1>8, <1>9, <1>10, QuietStep

LEMMA SettleBlockedStep ==
  ASSUME ProductInv, Settle, run.collided # {} PROVE ProductInv'
<1>1. /\ holder # None
      /\ run.pc = "settle"
      /\ run' = [run EXCEPT !.pc = "mark", !.slot = "scratch",
                            !.change = Only("journal", [live["journal"] EXCEPT !.blocked = TRUE]),
                            !.back = "blocked"]
      /\ SyncDirectory
      /\ UNCHANGED beside
  BY DEF Settle, At, Write
<1>2. /\ run'.pc = "mark" /\ run'.slot = "scratch"
      /\ run'.change = Only("journal", [live["journal"] EXCEPT !.blocked = TRUE])
      /\ run'.back = "blocked"
      /\ KeptBut({"pc", "slot", "change", "back"})
  BY <1>1 DEF ProductInv, Control, KeptBut, Idle
<1>3. Place /\ Here = "settle" /\ Here' = "mark"
  BY <1>1, <1>2 DEF ProductInv, Control, Here, KeptBut, Idle
<1>4. Quiet
  BY <1>1, SyncIsQuiet DEF ProductInv
<1>5. Documented /\ hasty' = hasty /\ holder' = holder
  BY <1>1, <1>2, <1>3
     DEF ProductInv, SealInv, AtRest, Removal, Place, Writing, Pending, Building, beside, KeptBut,
         Idle
<1>6. Control'
  BY <1>1, <1>2, <1>3, <1>5
     DEF ProductInv, Control, Place, Unharmed, Removal, Writing, Pending, Building, Rollbacks,
         KeptBut, Idle
<1>7. SyncedInv' /\ JournalInv'
  BY <1>1, <1>2, <1>3, <1>4, <1>5, QuietSynced, QuietClean, NamesApart
     DEF ProductInv, SyncedInv, JournalInv, Forward, Unharmed, Removal, Place, Writing, Pending,
         Building, KeptBut, Idle
<1>8. DraftInv'
  <2>1. run'.phase # "write"
    BY <1>2, <1>3 DEF Place, Building, Removal, Writing, Pending, Rollbacks, KeptBut, Idle
  <2> QED BY <2>1 DEF DraftInv, InWrite
<1>9. PendingInv'
  <2>1. live["journal"] \in AnyJournal /\ Accounts(live["journal"], live)
    BY <1>5 DEF ProductInv, DirectoryInv, Documented
  <2>2. PICK j : j = [live["journal"] EXCEPT !.blocked = TRUE]
    OBVIOUS
  <2>3. /\ j \in AnyJournal /\ j.owner = live["journal"].owner /\ j.receipt = live["journal"].receipt
        /\ j.installed = live["journal"].installed
    BY <2>1, <2>2, BlockedAt
  <2>4. Accounted(j)'
    BY <1>1, <2>1, <2>3, SyncIsQuiet DEF Accounted, Accounts, ProductInv
  <2>5. run'.change = Only("journal", j) /\ run'.slot = "scratch" /\ run'.phase # "write"
    BY <1>2, <1>3, <2>2 DEF Place, Building, Removal, Writing, Pending, Rollbacks, KeptBut, Idle
  <2> QED BY <1>3, <2>3, <2>4, <2>5 DEF PendingInv, Pending
<1>10. RollbackInv' /\ DoneInv'
  BY <1>1, <1>2, <1>3, <1>4, QuietClean, QuietInPlace
     DEF ProductInv, RollbackInv, AfterUndoing, DoneInv, Removal, Pending, Place, Building,
         Writing, KeptBut, Idle
<1> QED BY <1>4, <1>5, <1>6, <1>7, <1>8, <1>9, <1>10, QuietStep

LEMMA SettleForgetStep ==
  ASSUME ProductInv, Settle, run.collided = {} PROVE ProductInv'
<1>1. /\ holder # None
      /\ run.pc = "settle"
      /\ run' = [run EXCEPT !.pc = "forget"]
      /\ SyncDirectory
      /\ run.collided = {}
      /\ UNCHANGED beside
  BY DEF Settle, At, Go
<1>2. /\ run'.pc = "forget"
      /\ KeptBut({"pc"})
  BY <1>1 DEF ProductInv, Control, KeptBut, Idle
<1>3. Place /\ Here = "settle" /\ Here' = "forget"
  BY <1>1, <1>2 DEF ProductInv, Control, Here, KeptBut, Idle
<1>4. Quiet
  BY <1>1, SyncIsQuiet DEF ProductInv
<1>5. Documented /\ hasty' = hasty /\ holder' = holder
  BY <1>1, <1>2, <1>3
     DEF ProductInv, SealInv, AtRest, Removal, Place, Writing, Pending, Building, beside, KeptBut,
         Idle
<1>6. Control'
  BY <1>1, <1>2, <1>3, <1>5
     DEF ProductInv, Control, Place, Unharmed, Removal, Writing, Pending, Building, Rollbacks,
         KeptBut, Idle
<1>7. SyncedInv' /\ JournalInv'
  <2>1. Synced'
    BY <1>1, SyncIsQuiet DEF Synced, Agrees, ProductInv
  <2>2. JournalInv'
    BY <1>1, <1>2, <1>3, <1>4, <1>5, QuietClean, NamesApart
       DEF ProductInv, JournalInv, Removal, Place, Building, Writing, Pending, Rollbacks, KeptBut, Idle
  <2> QED BY <2>1, <2>2 DEF SyncedInv
<1>8. DraftInv'
  <2>1. run'.phase # "write"
    BY <1>2, <1>3 DEF Place, Building, Removal, Writing, Pending, Rollbacks, KeptBut, Idle
  <2> QED BY <2>1 DEF DraftInv, InWrite
<1>9. PendingInv'
  BY <1>1, <1>2, <1>3, <1>4, QuietAccounted
     DEF ProductInv, PendingInv, Pending, Place, Removal, Building, Writing, KeptBut, Idle
<1>10. RollbackInv' /\ DoneInv'
  BY <1>1, <1>2, <1>3, <1>4, QuietClean, QuietInPlace
     DEF ProductInv, RollbackInv, AfterUndoing, DoneInv, Removal, Pending, Place, Building,
         Writing, KeptBut, Idle
<1> QED BY <1>4, <1>5, <1>6, <1>7, <1>8, <1>9, <1>10, QuietStep

LEMMA RestoreDiscardStep ==
  ASSUME ProductInv, Restore,
         ~ (live["receipt"] = live["journal"].owner /\ live["journal"].receipt)
  PROVE  ProductInv'
<1>1. /\ holder # None
      /\ run.pc = "unpublish"
      /\ run' = [run EXCEPT !.pc = "discard",
                            !.collided = run.collided \cup (IF live["receipt"] = None THEN {} ELSE {"receipt"})]
      /\ UNCHANGED directory
      /\ run.layer = 0
      /\ UNCHANGED beside
  BY DEF Restore, At
<1>2. /\ run'.pc = "discard"
      /\ run'.collided = run.collided \cup (IF live["receipt"] = None THEN {} ELSE {"receipt"})
      /\ KeptBut({"pc", "collided"})
  BY <1>1 DEF ProductInv, Control, KeptBut, Idle
<1>3. Place /\ Here = "unpublish" /\ Here' = "discard"
  BY <1>1, <1>2 DEF ProductInv, Control, Here, KeptBut, Idle
<1>4. Quiet
  BY <1>1, UnchangedIsQuiet DEF ProductInv
<1>5. Documented /\ hasty' = hasty /\ holder' = holder
  BY <1>1, <1>2, <1>3
     DEF ProductInv, SealInv, AtRest, Removal, Place, Writing, Pending, Building, beside, KeptBut,
         Idle
<1>6. Control'
  BY <1>1, <1>2, <1>3, <1>5
     DEF ProductInv, Control, Place, Unharmed, Removal, Writing, Pending, Building, Rollbacks,
         KeptBut, Idle
<1>7. SyncedInv' /\ JournalInv'
  BY <1>1, <1>2, <1>3, <1>4, <1>5, QuietSynced, QuietClean, NamesApart
     DEF ProductInv, SyncedInv, JournalInv, Forward, Unharmed, Removal, Place, Writing, Pending,
         Building, KeptBut, Idle
<1>8. DraftInv'
  <2>1. run'.phase # "write"
    BY <1>2, <1>3 DEF Place, Building, Removal, Writing, Pending, Rollbacks, KeptBut, Idle
  <2> QED BY <2>1 DEF DraftInv, InWrite
<1>9. PendingInv'
  BY <1>1, <1>2, <1>3, <1>4, QuietAccounted
     DEF ProductInv, PendingInv, Pending, Place, Removal, Building, Writing, KeptBut, Idle
<1>10. RollbackInv' /\ DoneInv'
  <2>1. Undone(0) /\ live["receipt"] = None => Clean
    <3>1. \A name \in Published : \E i \in 0 + 1 .. Len(Layers) + 1 : Artifact(i) = name
      BY ArtifactsPublished
    <3> QED BY <3>1, EntriesApart DEF Undone, Clean
  <2>2. run'.collided = {} => run.collided = {} /\ live["receipt"] = None
    BY <1>2
  <2>3. run.collided = {} => Undone(0)
    BY <1>1, <1>3 DEF ProductInv, RollbackInv
  <2>4. run'.collided = {} => Clean'
    BY <1>4, <2>1, <2>2, <2>3, QuietClean
  <2> QED BY <1>3, <2>4 DEF RollbackInv, AfterUndoing, DoneInv, Pending, Removal
<1> QED BY <1>4, <1>5, <1>6, <1>7, <1>8, <1>9, <1>10, QuietStep

LEMMA UnpublishKeepsStep ==
  ASSUME ProductInv, Unpublish, ~ (Listed /\ Removable(Artifact(run.layer))) PROVE ProductInv'
<1>1. /\ holder # None
      /\ run.pc = "unpublish"
      /\ run' = [run EXCEPT !.layer = run.layer - 1,
                            !.collided = run.collided \cup (IF Listed THEN {Artifact(run.layer)} ELSE {})]
      /\ UNCHANGED directory
      /\ run.layer > 0
      /\ UNCHANGED beside
  <2>1. CASE Listed
    BY <2>1 DEF Unpublish, At, Listed
  <2>2. CASE ~ Listed
    BY <2>2 DEF Unpublish, At, Listed
  <2> QED BY <2>1, <2>2
<1>2. /\ run'.layer = run.layer - 1
      /\ run'.collided = run.collided \cup (IF Listed THEN {Artifact(run.layer)} ELSE {})
      /\ KeptBut({"layer", "collided"})
  BY <1>1 DEF ProductInv, Control, KeptBut, Idle
<1>3. Place /\ Here = "unpublish" /\ Here' = "unpublish"
  BY <1>1, <1>2 DEF ProductInv, Control, Here, KeptBut, Idle
<1>4. Quiet
  BY <1>1, UnchangedIsQuiet DEF ProductInv
<1>5. Documented /\ hasty' = hasty /\ holder' = holder
  BY <1>1, <1>2, <1>3
     DEF ProductInv, SealInv, AtRest, Removal, Place, Writing, Pending, Building, beside, KeptBut,
         Idle
<1>6. Control'
  BY <1>1, <1>2, <1>3, <1>5
     DEF ProductInv, Control, Place, Unharmed, Removal, Writing, Pending, Building, Rollbacks,
         KeptBut, Idle
<1>7. SyncedInv' /\ JournalInv'
  BY <1>1, <1>2, <1>3, <1>4, <1>5, QuietSynced, QuietClean, NamesApart
     DEF ProductInv, SyncedInv, JournalInv, Forward, Unharmed, Removal, Place, Writing, Pending,
         Building, KeptBut, Idle
<1>8. DraftInv'
  <2>1. run'.phase # "write"
    BY <1>2, <1>3 DEF Place, Building, Removal, Writing, Pending, Rollbacks, KeptBut, Idle
  <2> QED BY <2>1 DEF DraftInv, InWrite
<1>9. PendingInv'
  BY <1>1, <1>2, <1>3, <1>4, QuietAccounted
     DEF ProductInv, PendingInv, Pending, Place, Removal, Building, Writing, KeptBut, Idle
<1>10. RollbackInv' /\ DoneInv'
  <2>1. run.layer \in 1 .. Len(Layers) + 1 /\ (run.collided = {} => Undone(run.layer))
    BY <1>1, <1>3, LayersPlaced DEF ProductInv, RollbackInv
  <2>2. PICK k \in Nat : k = run.layer - 1 /\ k + 1 = run.layer
    <3>1. run.layer - 1 \in Nat /\ (run.layer - 1) + 1 = run.layer
      BY <2>1, LayersPlaced
    <3> QED BY <3>1
  <2>3. run'.collided = {} => Undone(k)
    <3>1. ~ Listed => live[Artifact(run.layer)] \notin Transactions
      BY <1>5, <2>1, EntriesApart, ArtifactsPublished
         DEF Listed, Documented, Accounts, ProductInv, DirectoryInv
    <3>2. run'.collided = {} => run.collided = {} /\ ~ Listed
      BY <1>2
    <3> QED BY <2>1, <2>2, <3>1, <3>2, LayersPlaced DEF Undone
  <2>4. run'.collided = {} => Undone(k)'
    BY <1>4, <2>3, QuietClean
  <2>5. run'.layer = k /\ k \in 0 .. Len(Layers) + 1
    BY <1>2, <2>1, <2>2, LayersPlaced
  <2> QED BY <1>3, <2>4, <2>5 DEF RollbackInv, AfterUndoing, DoneInv, Pending, Removal
<1> QED BY <1>4, <1>5, <1>6, <1>7, <1>8, <1>9, <1>10, QuietStep

(* A removal that fails leaves its directory where it is, and that is remembered.    *)
LEMMA RemovalFailsStep ==
  ASSUME ProductInv, holder # None, run.removing, run.back # "orphans", run.then # "orphans",
         run' = RemovalFails, UNCHANGED << directory, beside >>
  PROVE  ProductInv'
<1>1. /\ run'.pc = (IF run.back = "idle" THEN run.then ELSE run.back)
      /\ run'.removing = FALSE /\ run'.unclean = TRUE /\ run'.collided = run.collided \cup {"stage"}
      /\ KeptBut({"pc", "removing", "unclean", "collided", "stuck"})
  BY DEF RemovalFails, ProductInv, Control, KeptBut, Idle
<1>2. Place /\ (Here \in Removal \/ (run.pc = "sync" /\ run.back = "idle" /\ run.then \in {"orphans", "decide", "settle", "fail"}))
  BY DEF ProductInv, Control
<1>3. /\ Here' = run'.pc
      /\ \/ Here' = "decide" /\ run.phase = "cleanup"
         \/ Here' = "settle" /\ run.phase \in Rollbacks
         \/ Here' = "fail" /\ run.phase \in {"begin", "first", "last"}
      /\ run'.phase = run.phase /\ run'.failed = run.failed /\ DOMAIN run' = DOMAIN Idle
  <2>1. CASE Here \in Removal
    BY <1>1, <1>2, <2>1
       DEF Place, Here, Removal, Building, Writing, Pending, KeptBut, Idle, ProductInv, Control
  <2>2. CASE Here \notin Removal
    BY <1>1, <1>2, <2>2
       DEF Place, Here, Removal, Building, Writing, Pending, KeptBut, Idle, ProductInv, Control
  <2> QED BY <2>1, <2>2
<1>4. Quiet /\ hasty' = hasty /\ holder' = holder
  BY UnchangedIsQuiet DEF ProductInv, beside
<1>5. Documented
  BY <1>2 DEF ProductInv, SealInv, AtRest, Here, Removal
<1>6. Control'
  BY <1>1, <1>3, <1>4 DEF ProductInv, Control, Place
<1>7. SyncedInv' /\ JournalInv' /\ DraftInv'
  BY <1>1, <1>3, <1>4, QuietSynced, QuietClean, NamesApart
     DEF ProductInv, SyncedInv, JournalInv, DraftInv, InWrite, Forward, Unharmed, Removal, Rollbacks
<1>8. PendingInv' /\ RollbackInv' /\ DoneInv'
  BY <1>1, <1>3 DEF PendingInv, RollbackInv, AfterUndoing, DoneInv, Pending, Removal
<1> QED BY <1>4, <1>5, <1>6, <1>7, <1>8, QuietStep

LEMMA BeginRemovalStep ==
  ASSUME ProductInv, holder # None, run.phase = "begin", StartRemoval("fail"),
         UNCHANGED << directory, beside >>
  PROVE  ProductInv'
<1>1. /\ run'.pc = "isolate" /\ run'.back = "fail" /\ run'.removing = TRUE
      /\ KeptBut({"pc", "back", "removing"})
  BY DEF StartRemoval, ProductInv, Control, KeptBut, Idle
<1>2. Place /\ Here' = "isolate" /\ run'.phase = "begin" /\ DOMAIN run' = DOMAIN Idle
      /\ run'.failed = run.failed /\ run'.unclean = run.unclean
  BY <1>1 DEF ProductInv, Control, Here, KeptBut, Idle
<1>3. Quiet /\ hasty' = hasty /\ holder' = holder
  BY UnchangedIsQuiet DEF ProductInv, beside
<1>4. Documented
  BY <1>2 DEF ProductInv, SealInv, AtRest, Place, Removal, Building, Writing, Pending, Rollbacks
<1>5. Control'
  BY <1>1, <1>2, <1>3 DEF ProductInv, Control, Place, Removal, Rollbacks
<1>6. SyncedInv' /\ JournalInv' /\ DraftInv'
  BY <1>1, <1>2, <1>3, QuietSynced, QuietClean, NamesApart
     DEF ProductInv, SyncedInv, JournalInv, DraftInv, InWrite
<1>7. PendingInv' /\ RollbackInv' /\ DoneInv'
  BY <1>1, <1>2 DEF PendingInv, RollbackInv, AfterUndoing, DoneInv, Pending, Removal
<1> QED BY <1>3, <1>4, <1>5, <1>6, <1>7, QuietStep

LEMMA AbortStep ==
  ASSUME ProductInv, holder # None, UNCHANGED << directory, beside >>, NEW step,
         run' = Abort(step),
         \/ step = "unmark_receipt" /\ run.phase = "write"
         \/ step = "cleanup" /\ (run.phase = "write" \/ run.pc = "produce")
  PROVE  ProductInv'
<1>1. /\ run'.pc = step /\ run'.failed = TRUE /\ KeptBut({"pc", "failed", "stuck"})
  BY DEF Abort, ProductInv, Control, KeptBut, Idle
<1>2. Place /\ Here' = step /\ run'.phase = run.phase /\ DOMAIN run' = DOMAIN Idle
      /\ run'.unclean = run.unclean /\ run'.removing = run.removing
  BY <1>1 DEF ProductInv, Control, Here, KeptBut, Idle
<1>3. run.phase = "write" \/ (Here = "produce" /\ run.phase = "begin")
  BY <1>2 DEF Place, Here, Building, Removal, Writing, Pending
<1>4. ~ run.unclean /\ Here \notin Removal
      /\ Here \notin {"idle", "recover", "orphans", "check", "done", "decide", "settle", "fail"}
  BY <1>2, <1>3 DEF Place, Unharmed, Building, Removal, Writing, Pending, Rollbacks
<1>5. ~ run.removing
  BY <1>4 DEF ProductInv, Control, Here
<1>6. Quiet /\ hasty' = hasty /\ holder' = holder
  BY UnchangedIsQuiet DEF ProductInv, beside
<1>7. Documented
  BY <1>4 DEF ProductInv, SealInv, AtRest
<1>8. Control'
  BY <1>1, <1>2, <1>3, <1>4, <1>5, <1>6 DEF ProductInv, Control, Place, Rollbacks
<1>9. SyncedInv' /\ JournalInv' /\ DraftInv'
  BY <1>1, <1>2, <1>3, <1>6, QuietSynced, QuietClean, NamesApart
     DEF ProductInv, SyncedInv, JournalInv, DraftInv, InWrite, Forward, Unharmed, Removal
<1>10. PendingInv' /\ RollbackInv' /\ DoneInv'
  BY <1>1, <1>2 DEF PendingInv, RollbackInv, AfterUndoing, DoneInv, Pending, Removal
<1> QED BY <1>6, <1>7, <1>8, <1>9, <1>10, QuietStep

(* The ways a call fails, and the ways it is told that its rollback is blocked.       *)
LEMMA FailCases ==
  ASSUME ProductInv, Fail
  PROVE  /\ holder # None
         /\ \/ \E result \in {"error", "failed"} : End(result)
            \/ /\ UNCHANGED << directory, beside >>
               /\ \/ /\ run.removing /\ run.back # "orphans" /\ run.then # "orphans"
                     /\ run' = RemovalFails
                  \/ run.phase = "begin" /\ StartRemoval("fail")
                  \/ run.phase = "write" /\ run' = Abort("unmark_receipt")
                  \/ (run.phase = "write" \/ run.pc = "produce") /\ run' = Abort("cleanup")
                  \/ run.phase = "first" /\ StartRollback("last")
<1> USE DEF Fail
<1>1. Place /\ holder # None
  BY DEF ProductInv, Control
<1>2. CASE run.removing /\ "orphans" \notin {run.back, run.then}
  BY <1>1, <1>2
<1>3. CASE ~ (run.removing /\ "orphans" \notin {run.back, run.then})
  <2>1. run.phase \in {"acquire", "begin", "write", "cleanup", "first", "last"}
    BY <1>1 DEF Place, Rollbacks
  <2>2. run.pc = "produce" => run.phase = "begin"
    BY <1>1 DEF Place, Here, Building, Removal, Writing, Pending
  <2>3. CASE run.phase = "acquire"
    BY <1>1, <1>3, <2>2, <2>3 DEF InClosure
  <2>4. CASE run.phase = "begin" /\ ~ InClosure
    BY <1>1, <1>3, <2>4 DEF InClosure
  <2>5. CASE InClosure /\ InPromotion
    <3>1. run.phase = "write"
      BY <2>5 DEF InClosure, InPromotion
    <3> QED BY <1>1, <1>3, <2>5, <3>1
  <2>6. CASE InClosure /\ ~ InPromotion
    <3>1. run.phase = "write" \/ run.pc = "produce"
      BY <2>6 DEF InClosure
    <3> QED BY <1>1, <1>3, <2>2, <2>6, <3>1
  <2>7. CASE run.phase = "first"
    BY <1>1, <1>3, <2>2, <2>7 DEF InClosure, RetryRollback
  <2>8. CASE run.phase \in {"cleanup", "last"}
    BY <1>1, <1>3, <2>2, <2>8 DEF InClosure
  <2> QED BY <2>1, <2>3, <2>4, <2>5, <2>6, <2>7, <2>8 DEF InClosure
<1> QED BY <1>2, <1>3

LEMMA BlockedCases ==
  ASSUME ProductInv, Blocked
  PROVE  /\ holder # None /\ Here = "blocked"
         /\ \/ \E result \in {"refused", "failed"} : End(result)
            \/ UNCHANGED << directory, beside >> /\ StartRollback("last")
<1>1. Here = "blocked" /\ Place /\ holder # None
  BY DEF Blocked, At, ProductInv, Control, Here
<1>2. run.phase \in Rollbacks
  BY <1>1 DEF Place, Building, Removal, Writing, Pending
<1>3. CASE run.phase = "first"
  BY <1>1, <1>3 DEF Blocked, RetryRollback
<1>4. CASE run.phase = "acquire"
  BY <1>1, <1>4 DEF Blocked
<1>5. CASE run.phase = "last"
  BY <1>1, <1>5 DEF Blocked
<1> QED BY <1>2, <1>3, <1>4, <1>5 DEF Rollbacks

LEMMA FailStep ==
  ASSUME ProductInv, Fail PROVE ProductInv'
<1>1. CASE \E result : End(result)
  BY <1>1, EndStep DEF End
<1>2. CASE run.phase = "first" /\ StartRollback("last") /\ UNCHANGED << directory, beside >>
  <2>1. Documented
    BY <1>2, FailCases
       DEF ProductInv, Control, SealInv, AtRest, Place, Building, Removal, Writing, Pending, Here
  <2> QED BY <1>2, <2>1, FailCases, RollbackStarts DEF Rollbacks
<1> QED BY <1>1, <1>2, FailCases, RemovalFailsStep, BeginRemovalStep, AbortStep

LEMMA BlockedStep ==
  ASSUME ProductInv, Blocked PROVE ProductInv'
<1>1. CASE \E result : End(result)
  BY <1>1, EndStep DEF End
<1>2. CASE UNCHANGED << directory, beside >> /\ StartRollback("last")
  <2>1. Documented /\ holder # None
    BY BlockedCases DEF ProductInv, SealInv, AtRest, Removal
  <2> QED BY <1>2, <2>1, RollbackStarts DEF Rollbacks
<1> QED BY <1>1, <1>2, BlockedCases

-------------------------------------------------------------------------------
(***************************************************************************)
(* Steps that change a product                                              *)
(***************************************************************************)

(* A directory with one more change.                                           *)
PutIn(dir, old, name, entry) ==
  /\ dir[name] = entry /\ DOMAIN dir = Names
  /\ \A other \in Names : other # name => dir[other] = old[other]

LEMMA OnlyAt ==
  ASSUME DirectoryInv, NEW name \in Names, NEW entry, Change(Only(name, entry))
  PROVE  /\ PutIn(live', live, name, entry) /\ live' \in images'
         /\ \A dir \in images' : dir \in images \/ \E old \in images : PutIn(dir, old, name, entry)
<1>1. DOMAIN Only(name, entry) = {name} /\ Only(name, entry)[name] = entry
  BY DEF Only
<1>2. ASSUME NEW dir, DOMAIN dir = Names PROVE PutIn(Updated(dir, Only(name, entry)), dir, name, entry)
  BY <1>1, <1>2, UpdatedAt DEF PutIn
<1>3. /\ live' = Updated(live, Only(name, entry)) /\ live' \in images' /\ DOMAIN live = Names
      /\ \A dir \in images' : dir \notin images =>
           \E old \in images : dir = Updated(old, Only(name, entry))
  BY ChangeAt
<1>4. \A dir \in images : DOMAIN dir = Names
  BY DEF DirectoryInv
<1> QED BY <1>2, <1>3, <1>4

Fits(name, entry) ==
  /\ name \in Published => entry \in Entries
  /\ name = "receipt" => entry \in Transactions \cup {None}
  /\ name = "journal" => entry \in AnyJournal

LEMMA OnlyDirectory ==
  ASSUME DirectoryInv, NEW name \in Names, NEW entry, Change(Only(name, entry)), Fits(name, entry)
  PROVE  DirectoryInv'
<1>1. ASSUME NEW dir \in images'
      PROVE  /\ DOMAIN dir = Names
             /\ \A other \in Published : dir[other] \in Entries
             /\ dir["receipt"] \in Transactions \cup {None}
             /\ dir["journal"] \in AnyJournal
  <2>1. CASE dir \in images
    BY <2>1 DEF DirectoryInv
  <2>2. CASE dir \notin images
    <3>1. PICK old \in images : PutIn(dir, old, name, entry)
      BY <2>2, OnlyAt
    <3> QED BY <3>1, NamesApart DEF DirectoryInv, PutIn, Fits, Products
  <2> QED BY <2>1, <2>2
<1> QED BY <1>1, OnlyAt DEF DirectoryInv

(* A product the journal names may be installed, and any may be removed.             *)
LEMMA InstallDocumented ==
  ASSUME DirectoryInv, Documented, NEW name \in Published \cup {"receipt"}, NEW entry,
         Change(Only(name, entry)),
         entry \in Transactions =>
           \A dir \in images :
             /\ dir["journal"].owner = entry
             /\ name \in dir["journal"].installed \/ (name = "receipt" /\ dir["journal"].receipt)
  PROVE  Documented'
<1>1. ASSUME NEW dir \in images' PROVE Accounts(dir["journal"], dir)
  <2>1. CASE dir \in images
    BY <2>1 DEF Documented
  <2>2. CASE dir \notin images
    <3>1. PICK old \in images : PutIn(dir, old, name, entry)
      BY <2>2, OnlyAt, NamesApart DEF Products
    <3>2. Accounts(old["journal"], old) /\ dir["journal"] = old["journal"]
      BY <3>1, NamesApart DEF PutIn, Documented, Products
    <3>3. \A other \in Published \cup {"receipt"} : other # name => dir[other] = old[other]
      BY <3>1, NamesApart DEF PutIn, Products
    <3>4. dir[name] = entry
      BY <3>1 DEF PutIn
    <3>5. old["journal"].installed \subseteq Published
      BY <3>1 DEF DirectoryInv, AnyJournal
    <3> QED BY <3>1, <3>2, <3>3, <3>4, <3>5, NamesApart DEF Accounts
  <2> QED BY <2>1, <2>2
<1> QED BY <1>1 DEF Documented

LEMMA JournalDocumented ==
  ASSUME DirectoryInv, Documented, NEW j \in AnyJournal, Accounted(j), Change(Only("journal", j))
  PROVE  Documented'
<1>1. ASSUME NEW dir \in images' PROVE Accounts(dir["journal"], dir)
  <2>1. CASE dir \in images
    BY <2>1 DEF Documented
  <2>2. CASE dir \notin images
    <3>1. PICK old \in images : PutIn(dir, old, "journal", j)
      BY <2>2, OnlyAt, NamesApart DEF Products
    <3>2. Accounts(j, old) /\ dir["journal"] = j
      BY <3>1 DEF Accounted, PutIn
    <3>3. \A other \in Published \cup {"receipt"} : dir[other] = old[other]
      BY <3>1, NamesApart DEF PutIn, Products
    <3> QED BY <3>2, <3>3 DEF Accounts
  <2> QED BY <2>1, <2>2
<1> QED BY <1>1 DEF Documented

LEMMA JournalLast ==
  ASSUME DirectoryInv, LastIsLast, NEW j, Change(Only("journal", j))
  PROVE  LastIsLast'
<1>1. ASSUME NEW t \in Transactions, Bundle(live', t), NEW dir \in images'
      PROVE  dir["receipt"] = t /\ \A name \in LayerNames : dir[name] = t
  <2>1. PutIn(live', live, "journal", j)
    BY OnlyAt, NamesApart DEF Products
  <2>2. RestOnDisk(t)
    BY <1>1, <2>1, NamesApart DEF Bundle, PutIn, LastIsLast, Products
  <2>3. CASE dir \in images
    BY <2>2, <2>3 DEF RestOnDisk
  <2>4. CASE dir \notin images
    <3>1. PICK old \in images : PutIn(dir, old, "journal", j)
      BY <2>4, OnlyAt, NamesApart DEF Products
    <3> QED BY <2>2, <3>1, NamesApart DEF RestOnDisk, PutIn, Products
  <2> QED BY <2>3, <2>4
<1> QED BY <1>1 DEF LastIsLast, RestOnDisk

(* Without its last file the product is no bundle yet.                             *)
LEMMA NoBundleYet ==
  ASSUME \E name \in Published \cup {"receipt"} : live'[name] \notin Transactions
  PROVE  LastIsLast'
BY DEF LastIsLast, Bundle

LEMMA LinkStep ==
  ASSUME ProductInv, Link PROVE ProductInv'
<1>1. /\ holder # None /\ run.pc = "link" /\ live[Layers[run.layer]] = None
      /\ Change(Only(Layers[run.layer], holder))
      /\ run' = [run EXCEPT !.pc = "sync", !.then = "publish", !.layer = run.layer + 1]
      /\ UNCHANGED beside
  BY DEF Link, At
<1>2. /\ run'.pc = "sync" /\ run'.then = "publish" /\ run'.layer = run.layer + 1
      /\ KeptBut({"pc", "then", "layer"})
  BY <1>1 DEF ProductInv, Control, KeptBut, Idle
<1>3. Place /\ Here = "link" /\ Here' = "publish" /\ hasty' = hasty /\ holder' = holder
  BY <1>1, <1>2 DEF ProductInv, Control, Here, beside
<1>4. /\ InWrite /\ Unharmed /\ Synced /\ Documented
      /\ run.draft \in AnyJournal /\ run.draft.owner = holder /\ holder \in Transactions
      /\ live["journal"] = run.draft
  BY <1>1, BuildingKnows DEF Building
<1>5. /\ run.layer \in 1 .. Len(Layers) /\ Layers[run.layer] \in run.draft.installed
      /\ \A k \in 1 .. run.layer - 1 : live[Layers[k]] = holder
      /\ live["provenance"] \notin Transactions /\ ~ run.draft.receipt
  BY <1>3, <1>4, LayersPlaced DEF ProductInv, DraftInv, Toward
<1>6. PICK name \in LayerNames : name = Layers[run.layer]
  BY <1>5, LayersPlaced
<1>7. PutIn(live', live, name, holder) /\ name \in Names /\ name \in Published
  BY <1>1, <1>6, OnlyAt, NamesApart DEF ProductInv
<1>8. DirectoryInv'
  BY <1>1, <1>4, <1>6, <1>7, OnlyDirectory, NamesApart DEF ProductInv, Fits, Entries
<1>9. Documented'
  <2>1. \A dir \in images : dir["journal"].owner = holder /\ name \in dir["journal"].installed
    BY <1>4, <1>5, <1>6 DEF Synced, Agrees
  <2> QED BY <1>1, <1>4, <1>6, <1>7, <2>1, InstallDocumented DEF ProductInv
<1>10. live'["provenance"] \notin Transactions /\ live'["journal"] = run.draft
  BY <1>4, <1>5, <1>6, <1>7, NamesApart DEF PutIn
<1>11. LastIsLast'
  BY <1>10, NoBundleYet, NamesApart
<1>12. Control'
  BY <1>1, <1>2, <1>3, <1>4
     DEF ProductInv, Control, Place, Unharmed, Removal, Writing, Pending, Building, Rollbacks, InWrite, KeptBut, Idle
<1>13. SyncedInv' /\ JournalInv'
  BY <1>2, <1>3, <1>4 DEF SyncedInv, JournalInv, InWrite, Removal, KeptBut, Idle
<1>14. DraftInv'
  <2>1. \A k \in 1 .. (run.layer + 1) - 1 : live'[Layers[k]] = holder
    <3>1. ASSUME NEW k \in 1 .. run.layer PROVE live'[Layers[k]] = holder
      <4>1. Layers[k] \in Names
        BY <1>5, LayersPlaced, NamesApart
      <4>2. CASE k = run.layer
        BY <1>6, <1>7, <4>2 DEF PutIn
      <4>3. CASE k # run.layer
        <5>1. k \in 1 .. run.layer - 1
          BY <1>5, <4>3
        <5> QED BY <1>5, <1>6, <1>7, <4>1, <5>1 DEF PutIn
      <4> QED BY <4>2, <4>3
    <3> QED BY <1>5, <3>1
  <2>2. run'.draft = run.draft /\ run.layer + 1 \in 1 .. Len(Layers) + 1
    BY <1>2, <1>5, LayersPlaced DEF KeptBut, Idle
  <2> QED BY <1>2, <1>3, <1>4, <1>5, <1>10, <2>1, <2>2
          DEF DraftInv, Toward, Building, Writing, Pending
<1>15. PendingInv' /\ RollbackInv' /\ DoneInv'
  BY <1>3 DEF PendingInv, RollbackInv, AfterUndoing, DoneInv, Pending, Removal
<1> QED BY <1>8, <1>9, <1>11, <1>12, <1>13, <1>14, <1>15 DEF ProductInv, SealInv

LEMMA PromoteStep ==
  ASSUME ProductInv, Promote PROVE ProductInv'
<1>1. /\ holder # None /\ run.pc = "promote" /\ live["receipt"] = None
      /\ Change(Only("receipt", holder))
      /\ run' = [run EXCEPT !.pc = "sync", !.then = "unmark_receipt"]
      /\ UNCHANGED beside
  BY DEF Promote, At, ThenSync
<1>2. /\ run'.pc = "sync" /\ run'.then = "unmark_receipt" /\ KeptBut({"pc", "then"})
  BY <1>1 DEF ProductInv, Control, KeptBut, Idle
<1>3. Place /\ Here = "promote" /\ Here' = "unmark_receipt" /\ hasty' = hasty /\ holder' = holder
  BY <1>1, <1>2 DEF ProductInv, Control, Here, beside
<1>4. /\ InWrite /\ Unharmed /\ Synced /\ Documented
      /\ run.draft \in AnyJournal /\ run.draft.owner = holder /\ holder \in Transactions
      /\ live["journal"] = run.draft
  BY <1>1, BuildingKnows DEF Building
<1>5. /\ run.layer = Len(Layers) + 1
      /\ \A k \in 1 .. run.layer - 1 : live[Layers[k]] = holder
      /\ live["provenance"] \notin Transactions
      /\ run.draft.receipt /\ "provenance" \in run.draft.installed
  BY <1>3, <1>4 DEF ProductInv, DraftInv, Toward
<1>6. PutIn(live', live, "receipt", holder)
  BY <1>1, OnlyAt, NamesApart DEF ProductInv
<1>7. DirectoryInv'
  BY <1>1, <1>4, OnlyDirectory, NamesApart DEF ProductInv, Fits
<1>8. Documented'
  <2>1. \A dir \in images : dir["journal"].owner = holder /\ dir["journal"].receipt
    BY <1>4, <1>5 DEF Synced, Agrees
  <2> QED BY <1>1, <1>4, <2>1, InstallDocumented DEF ProductInv
<1>9. /\ live'["provenance"] \notin Transactions /\ live'["journal"] = run.draft
      /\ live'["receipt"] = holder
  BY <1>4, <1>5, <1>6, NamesApart DEF PutIn
<1>10. LastIsLast'
  BY <1>9, NoBundleYet, NamesApart
<1>11. Control'
  BY <1>1, <1>2, <1>3, <1>4
     DEF ProductInv, Control, Place, Unharmed, Removal, Writing, Pending, Building, Rollbacks, InWrite, KeptBut, Idle
<1>12. SyncedInv' /\ JournalInv'
  BY <1>2, <1>3, <1>4 DEF SyncedInv, JournalInv, InWrite, Removal, KeptBut, Idle
<1>13. DraftInv'
  <2>1. \A k \in 1 .. run.layer - 1 : live'[Layers[k]] = holder
    BY <1>5, <1>6, LayersPlaced, NamesApart DEF PutIn
  <2>2. run'.draft = run.draft /\ run'.layer = run.layer /\ run.layer \in 1 .. Len(Layers) + 1
    BY <1>2, <1>5, LayersPlaced DEF KeptBut, Idle
  <2> QED BY <1>3, <1>4, <1>5, <1>9, <2>1, <2>2 DEF DraftInv, Toward, Building, Writing, Pending
<1>14. PendingInv' /\ RollbackInv' /\ DoneInv'
  BY <1>3 DEF PendingInv, RollbackInv, AfterUndoing, DoneInv, Pending, Removal
<1> QED BY <1>7, <1>8, <1>10, <1>11, <1>12, <1>13, <1>14 DEF ProductInv, SealInv

LEMMA InstallProvenanceStep ==
  ASSUME ProductInv, InstallProvenance PROVE ProductInv'
<1>1. /\ holder # None /\ run.pc = "complete" /\ live["provenance"] = None
      /\ Change(Only("provenance", holder))
      /\ run' = [run EXCEPT !.pc = "sync", !.then = "validate"]
      /\ UNCHANGED beside
  BY DEF InstallProvenance, At, ThenSync
<1>2. /\ run'.pc = "sync" /\ run'.then = "validate" /\ KeptBut({"pc", "then"})
  BY <1>1 DEF ProductInv, Control, KeptBut, Idle
<1>3. Place /\ Here = "complete" /\ Here' = "validate" /\ hasty' = hasty /\ holder' = holder
  BY <1>1, <1>2 DEF ProductInv, Control, Here, beside
<1>4. /\ InWrite /\ Unharmed /\ Synced /\ Documented
      /\ run.draft \in AnyJournal /\ run.draft.owner = holder /\ holder \in Transactions
      /\ live["journal"] = run.draft
  BY <1>1, BuildingKnows DEF Building
<1>5. /\ run.layer = Len(Layers) + 1
      /\ \A k \in 1 .. run.layer - 1 : live[Layers[k]] = holder
      /\ live["receipt"] = holder /\ "provenance" \in run.draft.installed
  BY <1>3, <1>4 DEF ProductInv, DraftInv, Toward
<1>6. PutIn(live', live, "provenance", holder)
  BY <1>1, OnlyAt, NamesApart DEF ProductInv
<1>7. DirectoryInv'
  BY <1>1, <1>4, OnlyDirectory, NamesApart DEF ProductInv, Fits, Entries
<1>8. Documented'
  <2>1. \A dir \in images : dir["journal"].owner = holder /\ "provenance" \in dir["journal"].installed
    BY <1>4, <1>5 DEF Synced, Agrees
  <2> QED BY <1>1, <1>4, <2>1, InstallDocumented, NamesApart DEF ProductInv
<1>9. live'["journal"] = run.draft /\ live'["provenance"] = holder
  BY <1>4, <1>6, NamesApart DEF PutIn
<1>10. \A name \in LayerNames : live[name] = holder
  BY <1>5, LayersPlaced
<1>11. LastIsLast'
  <2>1. RestOnDisk(holder)
    <3>1. \A dir \in images : dir["receipt"] = holder /\ \A name \in LayerNames : dir[name] = holder
      BY <1>4, <1>5, <1>10, NamesApart DEF Synced, Agrees
    <3> QED BY <3>1 DEF RestOnDisk
  <2>2. ASSUME NEW t \in Transactions, Bundle(live', t), NEW dir \in images'
        PROVE  dir["receipt"] = t /\ \A name \in LayerNames : dir[name] = t
    <3>1. t = holder
      BY <1>9, <2>2, NamesApart DEF Bundle
    <3>2. dir \in images \/ \E old \in images : PutIn(dir, old, "provenance", holder)
      BY <1>1, OnlyAt, NamesApart DEF ProductInv
    <3> QED BY <2>1, <3>1, <3>2, NamesApart DEF RestOnDisk, PutIn
  <2> QED BY <2>2 DEF LastIsLast, RestOnDisk
<1>12. Control'
  BY <1>1, <1>2, <1>3, <1>4
     DEF ProductInv, Control, Place, Unharmed, Removal, Writing, Pending, Building, Rollbacks, InWrite, KeptBut, Idle
<1>13. SyncedInv' /\ JournalInv'
  BY <1>2, <1>3, <1>4 DEF SyncedInv, JournalInv, InWrite, Removal, KeptBut, Idle
<1>14. DraftInv'
  <2>1. \A k \in 1 .. run.layer - 1 : live'[Layers[k]] = holder
    BY <1>5, <1>6, LayersPlaced, NamesApart DEF PutIn
  <2>2. run'.draft = run.draft /\ run'.layer = run.layer /\ run.layer \in 1 .. Len(Layers) + 1
    BY <1>2, <1>5, LayersPlaced DEF KeptBut, Idle
  <2> QED BY <1>3, <1>4, <1>5, <1>9, <2>1, <2>2 DEF DraftInv, Toward, Building, Writing, Pending
<1>15. PendingInv' /\ RollbackInv' /\ DoneInv'
  BY <1>3 DEF PendingInv, RollbackInv, AfterUndoing, DoneInv, Pending, Removal
<1> QED BY <1>7, <1>8, <1>11, <1>12, <1>13, <1>14, <1>15 DEF ProductInv, SealInv

(* The journal of a complete bundle goes, and the bundle is sealed.                  *)
LEMMA CompleteIsBundle ==
  ASSUME ProductInv, Complete(live, live["journal"])
  PROVE  /\ live["journal"] # NoJournal /\ live["journal"].owner \in Transactions
         /\ Documented /\ Bundle(live, live["journal"].owner)
<1>1. live["journal"] \in AnyJournal /\ live["journal"].installed # {}
  BY NamesApart DEF ProductInv, DirectoryInv, Complete
<1>2. live["journal"] # NoJournal /\ live["journal"].owner \in Transactions
  BY <1>1, NoJournalTyped DEF AnyJournal
<1>3. Documented
  BY <1>2 DEF ProductInv, SealInv, Sealed
<1>4. Bundle(live, live["journal"].owner)
  BY DEF Complete, Intact, Bundle, Published
<1> QED BY <1>2, <1>3, <1>4

LEMMA Seals ==
  ASSUME ProductInv, Complete(live, live["journal"]), Change(Only("journal", NoJournal)),
         ~ hasty' => \A dir \in images : dir["provenance"] = live["provenance"]
  PROVE  \E t \in Transactions : Sealed(t)'
<1>1. PICK t \in Transactions : t = live["journal"].owner /\ Bundle(live, t) /\ Documented
  BY CompleteIsBundle
<1>2. RestOnDisk(t)
  BY <1>1 DEF ProductInv, LastIsLast
<1>3. ASSUME NEW dir \in images PROVE SealedIn(dir, t)'
  <2>1. Accounts(dir["journal"], dir) /\ dir["receipt"] = t /\ \A name \in LayerNames : dir[name] = t
    BY <1>1, <1>2 DEF Documented, RestOnDisk
  <2>2. dir["journal"].owner = t
    BY <2>1 DEF Accounts
  <2>3. dir["provenance"] \in Transactions => dir["provenance"] = t
    BY <2>1, <2>2, NamesApart DEF Accounts
  <2>4. ~ hasty' => dir["provenance"] = t
    BY <1>1, NamesApart DEF Bundle
  <2> QED BY <2>1, <2>3, <2>4 DEF SealedIn
<1>4. ASSUME NEW dir \in images' PROVE SealedIn(dir, t)'
  <2>1. CASE dir \in images
    BY <1>3, <2>1
  <2>2. CASE dir \notin images
    <3>1. PICK old \in images : PutIn(dir, old, "journal", NoJournal)
      BY <2>2, OnlyAt, NamesApart DEF ProductInv, Products
    <3>2. /\ dir["journal"] = NoJournal
          /\ \A name \in Published \cup {"receipt"} : dir[name] = old[name]
      BY <3>1, NamesApart DEF PutIn, Products
    <3> QED BY <1>3, <3>1, <3>2, NamesApart DEF SealedIn
  <2> QED BY <2>1, <2>2
<1>5. live'["journal"] = NoJournal
  BY OnlyAt, NamesApart DEF PutIn, ProductInv, Products
<1> QED BY <1>4, <1>5 DEF Sealed

LEMMA RecoverCompleteStep ==
  ASSUME ProductInv, At("recover"), live["journal"] # NoJournal, Complete(live, live["journal"]),
         Change(Only("journal", NoJournal)), run' = [run EXCEPT !.pc = "sync", !.then = "orphans"],
         hasty' = (hasty \/ images # {live}), UNCHANGED holder
  PROVE  ProductInv'
<1>1. /\ run'.pc = "sync" /\ run'.then = "orphans" /\ KeptBut({"pc", "then"})
      /\ run.pc = "recover" /\ holder # None
  BY DEF ProductInv, Control, KeptBut, Idle, At
<1>2. Place /\ Here = "recover" /\ Here' = "orphans"
  BY <1>1 DEF ProductInv, Control, Here
<1>3. DirectoryInv'
  BY OnlyDirectory, NoJournalTyped, NamesApart DEF ProductInv, Fits
<1>4. SealInv'
  <2>1. ~ hasty' => \A dir \in images : dir["provenance"] = live["provenance"]
    OBVIOUS
  <2> QED BY <1>2, <2>1, Seals DEF SealInv, AtRest
<1>5. LastIsLast'
  BY JournalLast DEF ProductInv
<1>6. live'["journal"] = NoJournal
  BY OnlyAt, NamesApart DEF PutIn, ProductInv, Products
<1>7. Control'
  BY <1>1, <1>2
     DEF ProductInv, Control, Place, Unharmed, Removal, Writing, Pending, Building, Rollbacks, KeptBut, Idle
<1>8. run'.phase = "acquire"
  BY <1>1, <1>2 DEF Place, Removal, Writing, Pending, Building, KeptBut, Idle
<1>9. SyncedInv' /\ JournalInv' /\ DraftInv'
  BY <1>1, <1>6, <1>8 DEF SyncedInv, JournalInv, DraftInv, InWrite
<1>10. PendingInv' /\ RollbackInv' /\ DoneInv'
  BY <1>2 DEF PendingInv, RollbackInv, AfterUndoing, DoneInv, Pending, Removal
<1> QED BY <1>3, <1>4, <1>5, <1>7, <1>9, <1>10 DEF ProductInv

LEMMA CommitCompleteStep ==
  ASSUME ProductInv, At("commit"), Complete(live, live["journal"]),
         Change(Only("journal", NoJournal)), UNCHANGED beside,
         run' = [run EXCEPT !.pc = "sync", !.then = "done", !.phase = "last"]
  PROVE  ProductInv'
<1>1. /\ run'.pc = "sync" /\ run'.then = "done" /\ run'.phase = "last"
      /\ KeptBut({"pc", "then", "phase"})
      /\ run.pc = "commit" /\ holder # None /\ hasty' = hasty /\ holder' = holder
  BY DEF ProductInv, Control, KeptBut, Idle, At, beside
<1>2. Place /\ Here = "commit" /\ Here' = "done"
  BY <1>1 DEF ProductInv, Control, Here
<1>3. run.phase = "cleanup" /\ Unharmed
  BY <1>2 DEF Place, Removal, Writing, Pending, Building
<1>4. Synced /\ live["journal"].owner = holder
  BY <1>1, <1>3 DEF ProductInv, SyncedInv, Forward, JournalInv, Unharmed
<1>5. Bundle(live, holder) /\ holder \in Transactions
  BY <1>4, CompleteIsBundle
<1>6. DirectoryInv'
  BY OnlyDirectory, NoJournalTyped, NamesApart DEF ProductInv, Fits
<1>7. \A dir \in images : Bundle(dir, holder)
  BY <1>4, <1>5 DEF Bundle, Synced, Agrees
<1>8. SealInv'
  <2>1. \A dir \in images : dir["provenance"] = live["provenance"]
    BY <1>5, <1>7, NamesApart DEF Bundle
  <2> QED BY <1>2, <2>1, Seals DEF SealInv, AtRest
<1>9. LastIsLast'
  BY JournalLast DEF ProductInv
<1>10. live'["journal"] = NoJournal
  BY OnlyAt, NamesApart DEF PutIn, ProductInv, Products
<1>11. Control'
  BY <1>1, <1>2, <1>3
     DEF ProductInv, Control, Place, Unharmed, Removal, Writing, Pending, Building, Rollbacks, KeptBut, Idle
<1>12. SyncedInv' /\ JournalInv' /\ DraftInv'
  BY <1>1, <1>2 DEF SyncedInv, JournalInv, DraftInv, InWrite, Removal
<1>13. DoneInv'
  <2>1. ASSUME NEW dir \in images' PROVE Bundle(dir, holder)
    <3>1. CASE dir \in images
      BY <1>7, <3>1
    <3>2. CASE dir \notin images
      <4>1. PICK old \in images : PutIn(dir, old, "journal", NoJournal)
        BY <3>2, OnlyAt, NamesApart DEF ProductInv, Products
      <4> QED BY <1>7, <4>1, NamesApart DEF Bundle, PutIn, Products
    <3> QED BY <3>1, <3>2
  <2> QED BY <1>1, <1>10, <2>1 DEF DoneInv
<1>14. PendingInv' /\ RollbackInv'
  BY <1>2 DEF PendingInv, RollbackInv, AfterUndoing, Pending, Removal
<1> QED BY <1>6, <1>8, <1>9, <1>11, <1>12, <1>13, <1>14 DEF ProductInv

LEMMA PutReceiptBackStep ==
  ASSUME ProductInv, WriteReplace, run.slot = "receipt_scratch"
  PROVE  ProductInv'
<1>1. /\ holder # None /\ run.pc = "replace"
      /\ run' = [run EXCEPT !.pc = "sync", !.then = "unmark"]
      /\ Change(run.change) /\ UNCHANGED beside
  BY DEF WriteReplace, At, ThenSync
<1>2. /\ run'.pc = "sync" /\ run'.then = "unmark" /\ KeptBut({"pc", "then"})
  BY <1>1 DEF ProductInv, Control, KeptBut, Idle
<1>3. Place /\ Here = "replace" /\ Here' = "unmark" /\ hasty' = hasty /\ holder' = holder
  BY <1>1, <1>2 DEF ProductInv, Control, Here, beside
<1>4. run.change = Only("receipt", None) /\ run.phase \in Rollbacks /\ run.back = "discard"
  BY <1>3 DEF ProductInv, PendingInv, Pending, Place, Building, Removal
<1>5. Documented
  BY <1>3 DEF ProductInv, SealInv, AtRest, Removal
<1>6. PutIn(live', live, "receipt", None)
  BY <1>1, <1>4, OnlyAt, NamesApart DEF ProductInv
<1>7. DirectoryInv'
  BY <1>1, <1>4, OnlyDirectory, NamesApart DEF ProductInv, Fits
<1>8. Documented'
  BY <1>1, <1>4, <1>5, InstallDocumented, EntriesApart DEF ProductInv
<1>9. LastIsLast'
  BY <1>6, NoBundleYet, EntriesApart DEF PutIn
<1>10. Control'
  BY <1>1, <1>2, <1>3, <1>4
     DEF ProductInv, Control, Place, Unharmed, Removal, Writing, Pending, Building, Rollbacks, KeptBut, Idle
<1>11. SyncedInv' /\ JournalInv' /\ DraftInv'
  BY <1>2, <1>3, <1>4
     DEF SyncedInv, JournalInv, DraftInv, InWrite, Removal, Rollbacks, KeptBut, Idle
<1>12. RollbackInv'
  <2>1. run.collided = {} => Undone(0)
    BY <1>3, <1>4 DEF ProductInv, RollbackInv, Pending
  <2>2. Undone(0) => Clean'
    <3>1. \A name \in Published : \E i \in 0 + 1 .. Len(Layers) + 1 : Artifact(i) = name
      BY ArtifactsPublished
    <3> QED BY <1>6, <3>1, EntriesApart, NamesApart DEF Undone, Clean, PutIn
  <2> QED BY <1>2, <1>3, <2>1, <2>2 DEF RollbackInv, AfterUndoing, Pending, Removal, KeptBut, Idle
<1>13. PendingInv' /\ DoneInv'
  BY <1>3 DEF PendingInv, DoneInv, Pending
<1> QED BY <1>7, <1>8, <1>9, <1>10, <1>11, <1>12, <1>13 DEF ProductInv, SealInv

LEMMA PersistJournalStep ==
  ASSUME ProductInv, WriteReplace, run.slot # "receipt_scratch"
  PROVE  ProductInv'
<1>1. /\ holder # None /\ run.pc = "replace"
      /\ run' = [run EXCEPT !.pc = "sync", !.then = "unmark"]
      /\ Change(run.change) /\ UNCHANGED beside
  BY DEF WriteReplace, At, ThenSync
<1>2. /\ run'.pc = "sync" /\ run'.then = "unmark" /\ KeptBut({"pc", "then"})
  BY <1>1 DEF ProductInv, Control, KeptBut, Idle
<1>3. Place /\ Here = "replace" /\ Here' = "unmark" /\ hasty' = hasty /\ holder' = holder
  BY <1>1, <1>2 DEF ProductInv, Control, Here, beside
<1>4. PICK j \in AnyJournal :
        run.change = Only("journal", j) /\ Accounted(j) /\ (run.phase = "write" => j = run.draft)
  BY <1>3 DEF ProductInv, PendingInv, Pending
<1>5. /\ run.back \in {"publish", "link", "promote", "blocked"}
      /\ run.phase \in Rollbacks \cup {"write"}
  BY <1>3 DEF Place, Building, Removal
<1>6. Documented
  BY <1>3 DEF ProductInv, SealInv, AtRest, Removal
<1>7. PutIn(live', live, "journal", j)
  BY <1>1, <1>4, OnlyAt, NamesApart DEF ProductInv, Products
<1>8. DirectoryInv'
  BY <1>1, <1>4, OnlyDirectory, NamesApart DEF ProductInv, Fits
<1>9. Documented' /\ LastIsLast'
  BY <1>1, <1>4, <1>6, JournalDocumented, JournalLast DEF ProductInv
<1>10. Control'
  BY <1>1, <1>2, <1>3, <1>5
     DEF ProductInv, Control, Place, Unharmed, Removal, Writing, Pending, Building, Rollbacks, KeptBut, Idle
<1>11. SyncedInv' /\ JournalInv'
  BY <1>2, <1>3, <1>5 DEF SyncedInv, JournalInv, Removal, Rollbacks, KeptBut, Idle
<1>12. DraftInv'
  <2>1. CASE ~ InWrite
    BY <1>2, <2>1 DEF DraftInv, InWrite, KeptBut, Idle
  <2>2. CASE InWrite
    <3>1. /\ run.draft \in AnyJournal /\ run.draft.owner = holder /\ j = run.draft
          /\ run.layer \in 1 .. Len(Layers) + 1
          /\ \A k \in 1 .. run.layer - 1 : live[Layers[k]] = holder
          /\ live["provenance"] \notin Transactions
      BY <1>3, <1>4, <2>2 DEF ProductInv, DraftInv, InWrite
    <3>2. /\ Toward("publish") \/ Toward("link") => ~ run.draft.receipt
          /\ Toward("link") => run.layer <= Len(Layers) /\ Layers[run.layer] \in run.draft.installed
          /\ Toward("promote") => run.draft.receipt /\ "provenance" \in run.draft.installed
          /\ Toward("promote") => run.layer = Len(Layers) + 1
      BY <2>2 DEF ProductInv, DraftInv
    <3>3. /\ run'.draft = run.draft /\ run'.layer = run.layer /\ run'.back = run.back
          /\ \A s \in {"publish", "link", "promote"} : Toward(s)' => Toward(s)
      BY <1>2, <1>3 DEF Toward, Writing, Pending, KeptBut, Idle
    <3>4. \A k \in 1 .. run.layer - 1 : live'[Layers[k]] = holder
      <4>1. \A k \in 1 .. run.layer - 1 : Layers[k] \in Names /\ Layers[k] # "journal"
        BY <3>1, LayersPlaced, NamesApart
      <4> QED BY <1>7, <3>1, <4>1 DEF PutIn
    <3>5. live'["journal"] = j /\ live'["provenance"] \notin Transactions
      BY <1>7, <3>1, NamesApart DEF PutIn
    <3> QED BY <1>3, <3>1, <3>2, <3>3, <3>4, <3>5 DEF DraftInv
  <2> QED BY <2>1, <2>2
<1>13. PendingInv' /\ RollbackInv' /\ DoneInv'
  BY <1>2, <1>3, <1>5
     DEF PendingInv, RollbackInv, AfterUndoing, DoneInv, Pending, Removal, KeptBut, Idle
<1> QED BY <1>8, <1>9, <1>10, <1>11, <1>12, <1>13 DEF ProductInv, SealInv

LEMMA UnpublishRemovesStep ==
  ASSUME ProductInv, Unpublish, Listed, Removable(Artifact(run.layer))
  PROVE  ProductInv'
<1>1. /\ holder # None /\ run.pc = "unpublish" /\ run.layer > 0
      /\ Change(Only(Artifact(run.layer), None)) /\ UNCHANGED beside
      /\ run'= [run EXCEPT !.layer = run.layer - 1, !.collided = run.collided \cup {}]
  BY DEF Unpublish, At, Listed
<1>2. run'.layer = run.layer - 1 /\ run'.collided = run.collided /\ KeptBut({"layer", "collided"})
  BY <1>1 DEF ProductInv, Control, KeptBut, Idle
<1>3. Place /\ Here = "unpublish" /\ Here' = "unpublish" /\ hasty' = hasty /\ holder' = holder
  BY <1>1, <1>2 DEF ProductInv, Control, Here, beside, KeptBut, Idle
<1>4. run.layer \in 1 .. Len(Layers) + 1 /\ (run.collided = {} => Undone(run.layer))
  BY <1>1, <1>3, LayersPlaced DEF ProductInv, RollbackInv
<1>5. PICK name \in Published : name = Artifact(run.layer)
  BY <1>4, ArtifactsPublished
<1>6. PutIn(live', live, name, None) /\ name \in Names
  BY <1>1, <1>5, OnlyAt, NamesApart DEF ProductInv
<1>7. Documented
  BY <1>3 DEF ProductInv, SealInv, AtRest, Removal
<1>8. DirectoryInv'
  BY <1>1, <1>5, <1>6, OnlyDirectory, NamesApart DEF ProductInv, Fits, Entries
<1>9. Documented'
  BY <1>1, <1>5, <1>7, InstallDocumented, EntriesApart DEF ProductInv
<1>10. LastIsLast'
  BY <1>6, NoBundleYet, EntriesApart DEF PutIn
<1>11. run.phase \in Rollbacks
  BY <1>3 DEF Place, Building, Removal, Writing, Pending
<1>12. Control'
  BY <1>1, <1>2, <1>3, <1>11
     DEF ProductInv, Control, Place, Unharmed, Removal, Writing, Pending, Building, Rollbacks, KeptBut, Idle
<1>13. SyncedInv' /\ JournalInv' /\ DraftInv'
  BY <1>2, <1>3, <1>11
     DEF SyncedInv, JournalInv, DraftInv, InWrite, Removal, Rollbacks, Forward, KeptBut, Idle
<1>14. RollbackInv'
  <2>1. PICK k \in 0 .. Len(Layers) : k = run.layer - 1 /\ k + 1 = run.layer
    <3>1. run.layer - 1 \in 0 .. Len(Layers) /\ (run.layer - 1) + 1 = run.layer
      BY <1>4, LayersPlaced
    <3> QED BY <3>1
  <2>2. Undone(run.layer) => Undone(k)'
    <3>1. ASSUME Undone(run.layer), NEW i \in k + 1 .. Len(Layers) + 1
          PROVE  live'[Artifact(i)] \notin Transactions
      <4>1. PICK other \in Published : other = Artifact(i)
        BY <2>1, ArtifactsPublished
      <4>2. CASE other = name
        BY <1>6, <4>1, <4>2, EntriesApart DEF PutIn
      <4>3. CASE other # name
        <5>1. i \in run.layer + 1 .. Len(Layers) + 1
          BY <1>4, <1>5, <2>1, <4>1, <4>3, LayersPlaced
        <5>2. live[other] \notin Transactions
          BY <3>1, <4>1, <5>1 DEF Undone
        <5> QED BY <1>6, <4>1, <4>3, <5>2, NamesApart DEF PutIn
      <4> QED BY <4>2, <4>3
    <3> QED BY <3>1 DEF Undone
  <2>3. run'.layer = k /\ k \in 0 .. Len(Layers) + 1
    BY <1>2, <2>1, LayersPlaced
  <2> QED BY <1>2, <1>3, <1>4, <2>2, <2>3 DEF RollbackInv, AfterUndoing, Pending, Removal
<1>15. PendingInv' /\ DoneInv'
  BY <1>3 DEF PendingInv, DoneInv, Pending
<1> QED BY <1>8, <1>9, <1>10, <1>12, <1>13, <1>14, <1>15 DEF ProductInv, SealInv

LEMMA ForgetStep ==
  ASSUME ProductInv, Forget PROVE ProductInv'
<1>1. /\ holder # None /\ run.pc = "forget" /\ Change(Only("journal", NoJournal))
      /\ run' = [run EXCEPT !.pc = "sync", !.then = AfterRollback] /\ UNCHANGED beside
  BY DEF Forget, At, ThenSync
<1>2. /\ run'.pc = "sync" /\ run'.then = AfterRollback /\ KeptBut({"pc", "then"})
  BY <1>1 DEF ProductInv, Control, KeptBut, Idle
<1>3. Place /\ Here = "forget" /\ Here' = AfterRollback /\ hasty' = hasty /\ holder' = holder
  BY <1>1, <1>2 DEF ProductInv, Control, Here, beside
<1>4. run.phase \in Rollbacks /\ Unharmed
  BY <1>3 DEF Place, Building, Removal, Writing, Pending
<1>5. Synced /\ Clean /\ Documented
  BY <1>1, <1>3 DEF ProductInv, SyncedInv, RollbackInv, SealInv, AtRest, Removal
<1>6. Accounted(NoJournal)
  BY <1>5 DEF Accounted, Accounts, Synced, Agrees, Clean
<1>7. DirectoryInv'
  BY <1>1, OnlyDirectory, NoJournalTyped, NamesApart DEF ProductInv, Fits
<1>8. Documented' /\ LastIsLast'
  BY <1>1, <1>5, <1>6, JournalDocumented, JournalLast, NoJournalTyped DEF ProductInv
<1>9. live'["journal"] = NoJournal
  BY <1>1, OnlyAt, NamesApart DEF PutIn, ProductInv, Products
<1>10. \/ AfterRollback = "orphans" /\ run.phase = "acquire"
       \/ AfterRollback = "fail" /\ run.phase \in {"first", "last"}
  BY <1>4 DEF AfterRollback, Rollbacks
<1>11. Control'
  BY <1>1, <1>2, <1>3, <1>4, <1>10
     DEF ProductInv, Control, Place, Unharmed, Removal, Rollbacks, KeptBut, Idle
<1>12. SyncedInv' /\ JournalInv' /\ DraftInv'
  BY <1>2, <1>4, <1>9, <1>10
     DEF SyncedInv, JournalInv, DraftInv, InWrite, Rollbacks, KeptBut, Idle
<1>13. PendingInv' /\ RollbackInv' /\ DoneInv'
  BY <1>3, <1>10 DEF PendingInv, RollbackInv, AfterUndoing, DoneInv, Pending, Removal
<1> QED BY <1>7, <1>8, <1>11, <1>12, <1>13 DEF ProductInv, SealInv
-------------------------------------------------------------------------------
(***************************************************************************)
(* What others do                                                          *)
(***************************************************************************)

(* A file of somebody else's comes or goes where no transaction's stands.            *)
ForeignChange(name, entry) ==
  /\ name \in Published /\ entry \in {None, Foreign} /\ live[name] \in {None, Foreign}
  /\ Change(Only(name, entry))

LEMMA ForeignKeepsAccounts ==
  ASSUME DirectoryInv, NEW name, NEW entry, ForeignChange(name, entry), NEW j
  PROVE  Accounted(j) => Accounted(j)'
<1>1. name \in Names /\ name \in Published /\ entry \notin Transactions
  BY EntriesApart, NamesApart DEF ForeignChange
<1>2. ASSUME Accounted(j), NEW dir \in images' PROVE Accounts(j, dir)
  <2>1. CASE dir \in images
    BY <1>2, <2>1 DEF Accounted
  <2>2. CASE dir \notin images
    <3>1. PICK old \in images : PutIn(dir, old, name, entry)
      BY <1>1, <2>2, OnlyAt DEF ForeignChange
    <3>2. Accounts(j, old)
      BY <1>2 DEF Accounted
    <3> QED BY <1>1, <3>1, <3>2, NamesApart DEF Accounts, PutIn
  <2> QED BY <2>1, <2>2
<1> QED BY <1>2 DEF Accounted

LEMMA ForeignSealed ==
  ASSUME DirectoryInv, NEW name, NEW entry, ForeignChange(name, entry), hasty' = hasty,
         NEW t \in Transactions, Sealed(t)
  PROVE  Sealed(t)'
<1>1. /\ name \in Names /\ name \in Published /\ entry \notin Transactions
      /\ live[name] \notin Transactions /\ live \in images
  BY EntriesApart, NamesApart DEF ForeignChange, DirectoryInv
<1>2. name = "provenance" /\ hasty
  BY <1>1 DEF Sealed, SealedIn, Published
<1>3. ASSUME NEW dir \in images' PROVE SealedIn(dir, t)'
  <2>1. CASE dir \in images
    BY <1>2, <2>1 DEF Sealed, SealedIn
  <2>2. CASE dir \notin images
    <3>1. PICK old \in images : PutIn(dir, old, name, entry)
      BY <1>1, <2>2, OnlyAt DEF ForeignChange
    <3>2. SealedIn(old, t)
      BY DEF Sealed
    <3>3. /\ dir["journal"] = old["journal"] /\ dir["receipt"] = old["receipt"]
          /\ \A layer \in LayerNames : dir[layer] = old[layer]
          /\ dir["provenance"] = entry
      BY <1>2, <3>1, NamesApart DEF PutIn
    <3>4. Accounts(dir["journal"], old) => Accounts(dir["journal"], dir)
      BY <1>1, <3>1, NamesApart DEF Accounts, PutIn
    <3> QED BY <1>1, <1>2, <3>2, <3>3, <3>4 DEF SealedIn
  <2> QED BY <2>1, <2>2
<1>4. live'["journal"] = NoJournal
  BY <1>1, OnlyAt, NamesApart DEF ForeignChange, PutIn, Sealed
<1> QED BY <1>3, <1>4 DEF Sealed

LEMMA ForeignSynced ==
  ASSUME DirectoryInv, NEW name, NEW entry, ForeignChange(name, entry), Synced
  PROVE  Synced'
<1>1. /\ name \in Names /\ name \in Published /\ entry \notin Transactions
      /\ live[name] \notin Transactions
  BY EntriesApart, NamesApart DEF ForeignChange
<1>2. PutIn(live', live, name, entry)
  BY <1>1, OnlyAt DEF ForeignChange
<1>3. ASSUME NEW dir \in images' PROVE Agrees(dir)'
  <2>1. CASE dir \in images
    BY <1>1, <1>2, <2>1, NamesApart DEF Synced, Agrees, PutIn
  <2>2. CASE dir \notin images
    <3>1. PICK old \in images : PutIn(dir, old, name, entry)
      BY <1>1, <2>2, OnlyAt DEF ForeignChange
    <3>2. Agrees(old)
      BY DEF Synced
    <3> QED BY <1>1, <1>2, <3>1, <3>2, NamesApart DEF Agrees, PutIn
  <2> QED BY <2>1, <2>2
<1> QED BY <1>3 DEF Synced

LEMMA ForeignStep ==
  ASSUME ProductInv, NEW name, NEW entry, ForeignChange(name, entry),
         UNCHANGED << holder, run, hasty >>
  PROVE  ProductInv'
<1>1. /\ name \in Names /\ name \in Published /\ entry \notin Transactions
      /\ live[name] \notin Transactions
  BY EntriesApart, NamesApart DEF ForeignChange
<1>2. PutIn(live', live, name, entry)
  BY <1>1, OnlyAt DEF ForeignChange, ProductInv
<1>3. \A other \in Names : live[other] \in Transactions => live'[other] = live[other]
  BY <1>1, <1>2 DEF PutIn
<1>4. \A other \in Published : live[other] \notin Transactions => live'[other] \notin Transactions
  BY <1>1, <1>2, NamesApart DEF PutIn
<1>5. live'["journal"] = live["journal"] /\ live'["receipt"] = live["receipt"]
  BY <1>1, <1>2, NamesApart DEF PutIn
<1>6. DirectoryInv'
  BY <1>1, OnlyDirectory, NamesApart DEF ForeignChange, Fits, Entries, ProductInv
<1>7. SealInv'
  <2>1. CASE Documented
    BY <1>1, <2>1, InstallDocumented DEF ForeignChange, SealInv, ProductInv
  <2>2. CASE AtRest /\ \E t \in Transactions : Sealed(t)
    <3>1. AtRest'
      BY <2>2 DEF AtRest, Here
    <3> QED BY <2>2, <3>1, ForeignSealed DEF SealInv, ProductInv
  <2> QED BY <2>1, <2>2 DEF ProductInv, SealInv
<1>8. LastIsLast'
  BY <1>1, <1>2, NoBundleYet DEF PutIn
<1>9. Control'
  BY DEF ProductInv, Control, Place, Here, Unharmed
<1>10. SyncedInv' /\ JournalInv'
  <2>1. Synced => Synced'
    BY ForeignSynced DEF ProductInv
  <2> QED BY <1>4, <1>5, <2>1, NamesApart
             DEF ProductInv, SyncedInv, JournalInv, Forward, Here, Unharmed
<1>11. DraftInv'
  <2>1. CASE ~ InWrite
    BY <2>1 DEF DraftInv, InWrite
  <2>2. CASE InWrite
    <3>1. holder \in Transactions
      BY <2>2, IdleFields DEF ProductInv, Control, InWrite
    <3>2. run.layer \in 1 .. Len(Layers) + 1 /\ \A k \in 1 .. run.layer - 1 : live[Layers[k]] = holder
      BY <2>2 DEF ProductInv, DraftInv
    <3>3. \A k \in 1 .. run.layer - 1 : live'[Layers[k]] = holder
      BY <1>3, <3>1, <3>2, LayersPlaced, NamesApart
    <3>4. live["provenance"] \notin Transactions => live'["provenance"] \notin Transactions
      BY <1>4, NamesApart
    <3>5. /\ run' = run /\ holder' = holder /\ Here' = Here
          /\ \A s : Toward(s)' <=> Toward(s)
      BY DEF Here, Toward
    <3> QED BY <1>5, <2>2, <3>3, <3>4, <3>5 DEF ProductInv, DraftInv
  <2> QED BY <2>1, <2>2
<1>12. PendingInv'
  <2>1. \A j : Accounted(j) => Accounted(j)'
    BY ForeignKeepsAccounts DEF ProductInv
  <2> QED BY <2>1 DEF ProductInv, PendingInv, Here
<1>13. RollbackInv'
  <2>1. Clean => Clean'
    BY <1>4, <1>5 DEF Clean
  <2>2. \A k \in Nat : Undone(k) => Undone(k)'
    <3>1. ASSUME NEW k \in Nat, Undone(k) PROVE Undone(k)'
      <4>1. \A i \in k + 1 .. Len(Layers) + 1 : Artifact(i) \in Published
        BY ArtifactsPublished, LayersPlaced
      <4> QED BY <1>4, <3>1, <4>1 DEF Undone
    <3> QED BY <3>1
  <2>3. run' = run /\ Here' = Here /\ (AfterUndoing' <=> AfterUndoing)
    BY DEF Here, AfterUndoing
  <2> QED BY <2>1, <2>2, <2>3, LayersPlaced DEF ProductInv, RollbackInv
<1>14. DoneInv'
  <2>1. Here # "done"
    <3>1. SUFFICES ASSUME Here = "done" PROVE FALSE
      OBVIOUS
    <3>2. holder \in Transactions
      BY <3>1, IdleFields DEF ProductInv, Control, Here
    <3> QED BY <1>1, <3>1, <3>2 DEF ProductInv, DoneInv, DirectoryInv, Bundle
  <2> QED BY <2>1 DEF DoneInv, Here
<1> QED BY <1>6, <1>7, <1>8, <1>9, <1>10, <1>11, <1>12, <1>13, <1>14 DEF ProductInv

LEMMA OutsideStep ==
  ASSUME ProductInv, Outside PROVE ProductInv'
<1>1. PICK name \in Exposed : PutForeign(name) \/ TakeForeign(name)
  BY DEF Outside
<1>2. name \in Published
  BY ProductAssumption DEF Published
<1>3. CASE PutForeign(name)
  BY <1>2, <1>3, ForeignStep DEF PutForeign, ForeignChange
<1>4. CASE TakeForeign(name)
  BY <1>2, <1>4, ForeignStep DEF TakeForeign, ForeignChange, beside
<1> QED BY <1>1, <1>3, <1>4

LEMMA PowerLossStep ==
  ASSUME ProductInv, PowerLoss PROVE ProductInv'
<1>1. PICK dir \in images : live' = dir /\ images' = {dir}
  BY DEF PowerLoss, Lose
<1>2. holder' = None /\ run' = Idle /\ hasty' = hasty
  BY DEF PowerLoss, Stop
<1>3. DirectoryInv' /\ LastIsLast'
  BY <1>1 DEF ProductInv, DirectoryInv, LastIsLast, RestOnDisk, Bundle, Published
<1>4. Accounts(dir["journal"], dir) => Documented'
  BY <1>1 DEF Documented
<1>5. SealInv'
  <2>1. CASE Documented
    BY <1>4, <2>1 DEF SealInv, Documented
  <2>2. CASE \E t \in Transactions : Sealed(t)
    <3>1. PICK t \in Transactions : SealedIn(dir, t)
      BY <2>2 DEF Sealed
    <3>2. CASE dir["journal"] = NoJournal
      BY <1>1, <1>2, <3>1, <3>2, IdleKnowsNothing DEF SealInv, Sealed, SealedIn
    <3> QED BY <1>4, <3>1, <3>2 DEF SealedIn, SealInv
  <2> QED BY <2>1, <2>2 DEF ProductInv, SealInv
<1> QED BY <1>2, <1>3, <1>5, IdleKnowsNothing DEF ProductInv
-------------------------------------------------------------------------------
(***************************************************************************)
(* The invariant                                                           *)
(***************************************************************************)

LEMMA InitHolds == Init => ProductInv
<1> SUFFICES ASSUME Init PROVE ProductInv
  OBVIOUS
<1>1. live = Empty /\ images = {Empty} /\ holder = None /\ run = Idle
  BY DEF Init, DirectoryInit
<1>2. /\ DOMAIN Empty = Names /\ Empty["journal"] = NoJournal /\ Empty["receipt"] = None
      /\ \A name \in Published : Empty[name] = None
  BY NamesApart DEF Empty, Products
<1>3. DirectoryInv /\ LastIsLast
  BY <1>1, <1>2, NoJournalTyped, EntriesApart, NamesApart
     DEF DirectoryInv, Entries, LastIsLast, Bundle
<1>4. SealInv
  BY <1>1, <1>2, EntriesApart DEF SealInv, Documented, Accounts
<1>5. Here = "idle"
  BY <1>1, IdleFields DEF Here
<1>6. Control
  BY <1>1, IdleFields DEF Control, Rollbacks
<1>7. SyncedInv /\ JournalInv /\ DraftInv
  BY <1>1, <1>5, IdleFields DEF SyncedInv, JournalInv, DraftInv, Forward, InWrite, Removal
<1>8. PendingInv /\ RollbackInv /\ DoneInv
  BY <1>5 DEF PendingInv, RollbackInv, AfterUndoing, DoneInv, Pending, Removal
<1> QED BY <1>3, <1>4, <1>6, <1>7, <1>8 DEF ProductInv

LEMMA RecoverStep ==
  ASSUME ProductInv, Recover PROVE ProductInv'
<1>1. CASE live["journal"] = NoJournal
  BY <1>1, RecoverNothingStep DEF Recover, Go
<1>2. CASE live["journal"] # NoJournal /\ StartRollback("acquire") /\ UNCHANGED << directory, beside >>
  <2>1. Documented /\ holder # None
    BY <1>2 DEF ProductInv, SealInv, Sealed, Recover, At
  <2> QED BY <1>2, <2>1, RollbackStarts DEF Rollbacks
<1>3. CASE /\ live["journal"] # NoJournal /\ Complete(live, live["journal"])
           /\ Change(Only("journal", NoJournal))
           /\ run' = [run EXCEPT !.pc = "sync", !.then = "orphans"]
           /\ hasty' = (hasty \/ images # {live}) /\ UNCHANGED holder
  BY <1>3, RecoverCompleteStep DEF Recover
<1> QED BY <1>1, <1>2, <1>3 DEF Recover

LEMMA OrphansStep ==
  ASSUME ProductInv, Orphans PROVE ProductInv'
<1>1. CASE Unowned(live) # {}
  BY <1>1, EndStep DEF Orphans, End
<1>2. CASE Unowned(live) = {} /\ live["quarantine"] # None
  BY <1>2, OrphansEmptyStep
<1>3. CASE Unowned(live) = {} /\ live["quarantine"] = None /\ live["stage"] # None
  BY <1>3, OrphansIsolateStep
<1>4. CASE Unowned(live) = {} /\ live["quarantine"] = None /\ live["stage"] = None
  BY <1>4, OrphansClearStep
<1> QED BY <1>1, <1>2, <1>3, <1>4

LEMMA DecideStep ==
  ASSUME ProductInv, Decide PROVE ProductInv'
<1>1. Here = "decide" /\ holder # None
  BY DEF Decide, At, Here
<1>2. Documented
  BY <1>1 DEF ProductInv, SealInv, AtRest, Removal
<1>3. CASE Standing /\ run.failed
  BY <1>1, <1>2, <1>3, RollbackStarts DEF Decide, Rollbacks
<1>4. CASE Standing /\ ~ run.failed /\ run.unclean
  BY <1>1, <1>2, <1>4, RollbackStarts DEF Decide, Rollbacks
<1>5. CASE ~ Standing /\ (run.failed \/ run.unclean)
  BY <1>5, EndStep DEF Decide, End
<1>6. CASE ~ run.failed /\ ~ run.unclean
  BY <1>6, DecideCommitStep
<1> QED BY <1>3, <1>4, <1>5, <1>6

LEMMA CommitStep ==
  ASSUME ProductInv, Commit PROVE ProductInv'
<1>1. Here = "commit" /\ holder # None
  BY DEF Commit, At, Here
<1>2. Documented
  BY <1>1 DEF ProductInv, SealInv, AtRest, Removal
<1>3. CASE StartRollback("last") /\ UNCHANGED << directory, beside >>
  BY <1>1, <1>2, <1>3, RollbackStarts DEF Rollbacks
<1> QED BY <1>3, CommitCompleteStep DEF Commit

LEMMA OneStep ==
  ASSUME ProductInv, Steps PROVE ProductInv'
<1>1. CASE Recover \/ Orphans \/ Decide \/ Commit \/ Blocked
  BY <1>1, RecoverStep, OrphansStep, DecideStep, CommitStep, BlockedStep
<1>2. CASE Check
  BY <1>2, CheckStep, EndStep DEF Check, End
<1>3. CASE Done \/ RolledBack
  BY <1>3, EndStep DEF Done, RolledBack, End
<1>4. CASE MakeStage \/ MarkStage \/ Produce \/ ReceiptMark \/ ReceiptOwn \/ JournalReceipt
  BY <1>4, MakeStageStep, MarkStageStep, ProduceStep, ReceiptMarkStep, ReceiptOwnStep,
     JournalReceiptStep
<1>5. CASE Publish
  BY <1>5, PublishStep, PublishLastStep
<1>6. CASE Link \/ Promote \/ UnmarkReceipt \/ InstallProvenance \/ Validate
  BY <1>6, LinkStep, PromoteStep, UnmarkReceiptStep, InstallProvenanceStep, ValidateStep
<1>7. CASE Cleanup
  BY <1>7, CleanupStep, CleanupStageStep
<1>8. CASE WriteMark \/ WriteOwn \/ WriteUnmark \/ Sync
  BY <1>8, WriteMarkStep, WriteOwnStep, WriteUnmarkStep, SyncStep
<1>9. CASE WriteReplace
  BY <1>9, PutReceiptBackStep, PersistJournalStep
<1>10. CASE Isolate \/ Move \/ MarkQuarantine \/ EmptyQuarantine \/ Unlink
  BY <1>10, IsolateStep, MoveStep, MarkQuarantineStep, EmptyQuarantineStep, UnlinkStep
<1>11. CASE Unpublish
  BY <1>11, UnpublishKeepsStep, UnpublishRemovesStep
<1>12. CASE Restore
  BY <1>12, RestoreReceiptStep, RestoreDiscardStep
<1>13. CASE Discard
  BY <1>13, DiscardNothingStep, DiscardStageStep
<1>14. CASE Settle
  BY <1>14, SettleBlockedStep, SettleForgetStep
<1>15. CASE Forget
  BY <1>15, ForgetStep
<1> QED BY <1>1, <1>2, <1>3, <1>4, <1>5, <1>6, <1>7, <1>8, <1>9, <1>10, <1>11, <1>12, <1>13,
           <1>14, <1>15 DEF Steps

LEMMA KillStep ==
  ASSUME ProductInv, Kill PROVE ProductInv'
BY EndStep DEF Kill, Stop

LEMMA StutterStep ==
  ASSUME ProductInv, UNCHANGED vars PROVE ProductInv'
BY DEF vars, directory, ProductInv, DirectoryInv, Control, Place, Unharmed, Here, SealInv,
       Documented,
       AtRest, Sealed, SealedIn, LastIsLast, Bundle, RestOnDisk, SyncedInv, Forward, Synced, Agrees,
       JournalInv, DraftInv, InWrite, Toward, PendingInv, Accounted, RollbackInv, AfterUndoing,
       Undone, Clean, DoneInv, InPlace

LEMMA NextHolds ==
  ASSUME ProductInv, [Next]_vars PROVE ProductInv'
<1>1. CASE \E t \in Transactions : Acquire(t)
  BY <1>1, AcquireStep
<1>2. CASE Steps \/ Fail
  BY <1>2, OneStep, FailStep
<1>3. CASE Kill \/ PowerLoss \/ Outside
  BY <1>3, KillStep, PowerLossStep, OutsideStep
<1>4. CASE Finished \/ UNCHANGED vars
  BY <1>4, StutterStep DEF Finished
<1> QED BY <1>1, <1>2, <1>3, <1>4 DEF Next

(* What a call may rely on wherever it is holds in every behaviour.                *)
THEOREM ProductInvariant == Spec => []ProductInv
<1>1. ProductInv /\ [Next]_vars => ProductInv'
  BY NextHolds
<1> QED BY InitHolds, <1>1, PTL DEF Spec
-------------------------------------------------------------------------------
(***************************************************************************)
(* The theorems                                                            *)
(***************************************************************************)

(* A process or a power loss leaves a whole bundle, none, or a journal that says how   *)
(* to undo what there is of it.                                                *)
THEOREM AllOrNothingAlways == Spec => []AllOrNothing
<1>1. ASSUME ProductInv PROVE AllOrNothing
  <2>1. SUFFICES ASSUME ~ hasty, NEW dir \in images, dir["journal"] = NoJournal
                 PROVE  NoBundle(dir) \/ \E t \in Transactions : Bundle(dir, t)
    BY DEF AllOrNothing
  <2>2. CASE Documented
    <3>1. Accounts(NoJournal, dir) /\ dir["receipt"] \in Transactions \cup {None}
      BY <1>1, <2>1, <2>2 DEF Documented, ProductInv, DirectoryInv
    <3> QED BY <3>1, NoJournalTyped, EntriesApart DEF Accounts, NoBundle
  <2>3. CASE \E t \in Transactions : Sealed(t)
    BY <2>1, <2>3 DEF Sealed, SealedIn, Bundle, Published
  <2> QED BY <1>1, <2>2, <2>3 DEF ProductInv, SealInv
<1> QED BY ProductInvariant, <1>1, PTL

(* What a call's step does to the products: nothing, or one change of what no other     *)
(* put there, while the directory is documented.                                 *)
ChangesOne ==
  /\ Documented
  /\ \E name \in Products :
       /\ name \in Published => live[name] # Foreign
       /\ \E entry : Change(Only(name, entry))

LEMMA SlotsReserved ==
  ASSUME ProductInv, holder # None, Here \in Writing PROVE run.slot \in Reserved
BY DEF ProductInv, Control, Place, Reserved, Building, Removal, Writing, Pending

LEMMA OneSlotIsQuiet ==
  ASSUME ProductInv, NEW slot \in Reserved, NEW entry,
         Change(Reserve(slot, entry)) \/ Change(Only(slot, entry))
  PROVE  Quiet
<1>1. \A e : DOMAIN Only(slot, e) \subseteq Reserved
  BY DEF Only
<1> QED BY <1>1, ReservedChangeIsQuiet DEF Reserve, ProductInv

LEMMA WriteReplaceChanges ==
  ASSUME ProductInv, WriteReplace PROVE ChangesOne
<1>1. Here = "replace" /\ Change(run.change)
  BY DEF WriteReplace, At, ThenSync, Here
<1>2. Documented
  BY <1>1 DEF ProductInv, SealInv, AtRest, Removal
<1>3. PICK name \in {"receipt", "journal"} : \E entry : run.change = Only(name, entry)
  BY <1>1 DEF ProductInv, PendingInv, Pending
<1> QED BY <1>1, <1>2, <1>3, NamesApart DEF ChangesOne, Products

LEMMA UnpublishChanges ==
  ASSUME ProductInv, Unpublish PROVE Quiet \/ ChangesOne
<1>1. Here = "unpublish"
  BY DEF Unpublish, At, Here
<1>2. CASE UNCHANGED directory
  BY <1>2, UnchangedIsQuiet DEF ProductInv
<1>3. CASE Listed /\ Removable(Artifact(run.layer)) /\ Change(Only(Artifact(run.layer), None))
  <2>1. run.layer \in 1 .. Len(Layers) + 1
    BY <1>1, LayersPlaced DEF Unpublish, ProductInv, RollbackInv
  <2>2. Artifact(run.layer) \in Published
    BY <2>1, ArtifactsPublished
  <2>3. live["journal"].owner # Foreign
    BY EntriesApart DEF ProductInv, DirectoryInv, AnyJournal
  <2>4. Documented
    BY <1>1 DEF ProductInv, SealInv, AtRest, Removal
  <2> QED BY <1>3, <2>2, <2>3, <2>4, NamesApart DEF Removable, Intact, ChangesOne
<1> QED BY <1>2, <1>3 DEF Unpublish, Listed

LEMMA StepChanges ==
  ASSUME ProductInv, Steps \/ Fail PROVE Quiet \/ ChangesOne
<1>1. CASE UNCHANGED directory
  BY <1>1, UnchangedIsQuiet DEF ProductInv
<1>2. CASE SyncDirectory
  BY <1>2, SyncIsQuiet DEF ProductInv
<1>3. {"stage", "quarantine", "receipt_scratch"} \subseteq Reserved
  BY DEF Reserved
<1>4. CASE Fail
  BY <1>1, <1>4, FailCases DEF End
<1>5. CASE Check \/ Produce \/ Publish \/ JournalReceipt \/ Validate \/ Cleanup \/ Decide \/ Done
            \/ Restore \/ Discard \/ RolledBack \/ Blocked
  BY <1>1, <1>5, BlockedCases
     DEF Check, Produce, Publish, JournalReceipt, Validate, Cleanup, Decide, Done, Restore, Discard,
         RolledBack, End
<1>6. CASE Sync \/ Settle
  BY <1>2, <1>6 DEF Sync, Settle
<1>7. CASE MakeStage \/ MarkStage \/ ReceiptMark \/ ReceiptOwn
  BY <1>3, <1>7, OneSlotIsQuiet
     DEF MakeStage, MarkStage, ReceiptMark, ReceiptOwn, Mark, Own, ThenSync
<1>8. CASE UnmarkReceipt \/ MarkQuarantine \/ Unlink
  BY <1>3, <1>8, OneSlotIsQuiet DEF UnmarkReceipt, MarkQuarantine, Unlink, Own, ThenSync
<1>9. CASE Isolate \/ Move \/ EmptyQuarantine
  BY <1>3, <1>9, OneSlotIsQuiet DEF Isolate, Move, EmptyQuarantine
<1>10. CASE WriteMark \/ WriteOwn \/ WriteUnmark
  <2>1. holder # None /\ Here \in Writing
    BY <1>10 DEF WriteMark, WriteOwn, WriteUnmark, At, Here, Writing, Pending
  <2>2. run.slot \in Reserved
    BY <2>1, SlotsReserved
  <2> QED BY <1>10, <2>2, OneSlotIsQuiet DEF WriteMark, WriteOwn, WriteUnmark, Mark, Own, ThenSync
<1>11. CASE Orphans
  <2>1. CASE Change([name \in {"scratch", "receipt_scratch"} |-> None])
    BY <2>1, ReservedChangeIsQuiet DEF ProductInv, Reserved
  <2> QED BY <1>1, <1>11, <2>1 DEF Orphans, End, ThenSync
<1>12. CASE Recover
  <2>1. CASE live["journal"] # NoJournal /\ Change(Only("journal", NoJournal))
    BY <2>1, NamesApart DEF ChangesOne, ProductInv, SealInv, Sealed, Products
  <2> QED BY <1>1, <1>12, <2>1 DEF Recover
<1>13. CASE Commit
  <2>1. CASE Change(Only("journal", NoJournal))
    <3>1. Here = "commit"
      BY <1>13 DEF Commit, At, Here
    <3> QED BY <2>1, <3>1, NamesApart
               DEF ChangesOne, ProductInv, SealInv, AtRest, Removal, Products
  <2> QED BY <1>1, <1>13, <2>1 DEF Commit
<1>14. CASE Forget
  <2>1. Here = "forget" /\ Change(Only("journal", NoJournal))
    BY <1>14 DEF Forget, At, Here, ThenSync
  <2> QED BY <2>1, NamesApart DEF ChangesOne, ProductInv, SealInv, AtRest, Removal, Products
<1>15. CASE Link \/ Promote \/ InstallProvenance
  <2>1. Here \in {"link", "promote", "complete"} /\ holder # None /\ run.pc \in Building
    BY <1>15 DEF Link, Promote, InstallProvenance, At, Here, Building
  <2>2. Documented
    BY <2>1, BuildingKnows
  <2>3. CASE Link
    <3>1. run.layer \in 1 .. Len(Layers)
      BY <2>1, <2>3, BuildingKnows, LayersPlaced DEF ProductInv, DraftInv, Toward, Link, At, Here
    <3>2. Layers[run.layer] \in Products
      BY <3>1, LayersPlaced, NamesApart
    <3> QED BY <2>2, <2>3, <3>2, EntriesApart DEF ChangesOne, Link
  <2>4. CASE Promote \/ InstallProvenance
    BY <2>2, <2>4, EntriesApart, NamesApart
       DEF ChangesOne, Promote, InstallProvenance, ThenSync, Products
  <2> QED BY <1>15, <2>3, <2>4
<1> QED BY <1>4, <1>5, <1>6, <1>7, <1>8, <1>9, <1>10, <1>11, <1>12, <1>13, <1>14, <1>15,
           UnpublishChanges, WriteReplaceChanges DEF Steps

(* No call removes or replaces a file somebody else put among the products.          *)
THEOREM ForeignAlwaysKept == Spec => ForeignKept
<1>1. ASSUME ProductInv, [Next]_vars
      PROVE  [\A name \in Published :
                live[name] = Foreign /\ live'[name] # Foreign => Outside \/ PowerLoss]_vars
  <2>1. SUFFICES ASSUME Next, ~ Outside, ~ PowerLoss, NEW name \in Published, live[name] = Foreign
                 PROVE  live'[name] = Foreign
    BY <1>1
  <2>2. CASE UNCHANGED directory
    BY <2>1, <2>2 DEF directory
  <2>3. CASE Steps \/ Fail
    <3>1. CASE Quiet
      BY <2>1, <3>1, NamesApart DEF Quiet, Same
    <3>2. CASE ChangesOne
      <4>1. PICK other \in Products : /\ other \in Published => live[other] # Foreign
                                      /\ \E entry : Change(Only(other, entry))
        BY <3>2 DEF ChangesOne
      <4>2. PICK entry : Change(Only(other, entry))
        BY <4>1
      <4>3. PutIn(live', live, other, entry)
        BY <1>1, <4>2, OnlyAt, NamesApart DEF ProductInv
      <4> QED BY <2>1, <4>1, <4>3, NamesApart DEF PutIn
    <3> QED BY <1>1, <2>3, <3>1, <3>2, StepChanges
  <2> QED BY <2>1, <2>2, <2>3 DEF Next, Acquire, Kill, Finished, vars
<1> QED BY ProductInvariant, <1>1, PTL DEF Spec, ForeignKept

(* What a step adds to what a rollback has collided with.                           *)
Collides(name) ==
  \/ name = "stage"
  \/ live[name] = Foreign
  \/ << live[name], name >> \in torn

LEMMA RunFields == ProductInv => DOMAIN run = DOMAIN Idle
BY DEF ProductInv, Control

LEMMA UnpublishCollides ==
  ASSUME ProductInv, Unpublish, NEW name \in run'.collided \ run.collided PROVE Collides(name)
<1>1. Here = "unpublish" /\ run.layer > 0
  BY DEF Unpublish, At, Here
<1>2. run'.collided = run.collided \cup
        (IF Listed /\ ~ Removable(Artifact(run.layer)) THEN {Artifact(run.layer)} ELSE {})
  BY RunFields DEF Unpublish, Listed, Idle
<1>3. name = Artifact(run.layer) /\ Listed /\ ~ Removable(name)
  BY <1>2
<1>4. name \in Published
  <2>1. run.layer \in 1 .. Len(Layers) + 1
    BY <1>1, LayersPlaced DEF ProductInv, RollbackInv
  <2> QED BY <1>3, <2>1, ArtifactsPublished
<1>5. Accounts(live["journal"], live)
  BY <1>1 DEF ProductInv, SealInv, AtRest, Removal, Documented, DirectoryInv
<1>6. live[name] \in Entries /\ live[name] # None
  BY <1>3, <1>4 DEF Listed, ProductInv, DirectoryInv
<1>7. CASE live[name] \in Transactions
  <2>1. live[name] = live["journal"].owner
    BY <1>4, <1>5, <1>7 DEF Accounts
  <2> QED BY <1>3, <2>1 DEF Removable, Intact, Collides
<1> QED BY <1>6, <1>7 DEF Entries, Collides

LEMMA RestoreCollides ==
  ASSUME ProductInv, Restore PROVE run'.collided = run.collided
<1>1. Here = "unpublish"
  BY DEF Restore, At, Here
<1>2. /\ live["receipt"] \in Transactions \cup {None}
      /\ live["receipt"] \in Transactions =>
           live["receipt"] = live["journal"].owner /\ live["journal"].receipt
  BY <1>1 DEF ProductInv, SealInv, AtRest, Removal, Documented, DirectoryInv, Accounts
<1>3. CASE live["receipt"] \in Transactions
  BY <1>2, <1>3, RunFields DEF Restore, Write, Idle
<1>4. CASE live["receipt"] = None
  <2>1. CASE live["receipt"] = live["journal"].owner /\ live["journal"].receipt
    BY <2>1, RunFields DEF Restore, Write, Idle
  <2>2. CASE ~ (live["receipt"] = live["journal"].owner /\ live["journal"].receipt)
    <3>1. run'.collided = run.collided \cup {}
      BY <1>4, <2>2, RunFields DEF Restore, Idle
    <3> QED BY <3>1
  <2> QED BY <2>1, <2>2
<1> QED BY <1>2, <1>3, <1>4

LEMMA RestartCollides ==
  ASSUME \/ run' = Idle \/ \E result : End(result)
         \/ \E phase : StartRollback(phase) \/ \E t : Acquire(t)
  PROVE  run'.collided = {}
<1>1. CASE run' = Idle \/ \E result : End(result)
  BY <1>1, IdleFields DEF End
<1>2. CASE \E phase : StartRollback(phase)
  BY <1>2 DEF StartRollback, Idle
<1>3. CASE \E t : Acquire(t)
  BY <1>3 DEF Acquire, Idle
<1> QED BY <1>1, <1>2, <1>3

LEMMA StepCollides ==
  ASSUME ProductInv, Steps \/ Fail, NEW name \in run'.collided \ run.collided PROVE Collides(name)
<1> USE RunFields DEF Idle
<1>1. CASE Fail
  <2>1. CASE run' = RemovalFails
    BY <2>1 DEF RemovalFails, Collides
  <2>2. CASE \/ \E result : End(result)
             \/ StartRollback("last")
    BY <2>2, RestartCollides
  <2>3. CASE StartRemoval("fail") \/ \E step : run' = Abort(step)
    BY <2>3 DEF StartRemoval, Abort
  <2> QED BY <1>1, <2>1, <2>2, <2>3, FailCases
<1>2. CASE Blocked
  BY <1>2, BlockedCases, RestartCollides
<1>3. CASE Check \/ MakeStage \/ MarkStage \/ Produce
  BY <1>3, RestartCollides DEF Check, MakeStage, MarkStage, Produce, Mark, Own, ThenSync, Go
<1>4. CASE Publish \/ Link \/ ReceiptMark \/ ReceiptOwn \/ JournalReceipt
  BY <1>4
     DEF Publish, Link, ReceiptMark, ReceiptOwn, JournalReceipt, SaveDraft, Mark, Own, ThenSync,
         Go
<1>5. CASE Promote \/ UnmarkReceipt \/ InstallProvenance \/ Validate \/ Cleanup
  BY <1>5 DEF Promote, UnmarkReceipt, InstallProvenance, Validate, Cleanup, ThenSync, Go
<1>6. CASE Decide \/ Commit \/ Done \/ RolledBack
  BY <1>6, RestartCollides DEF Decide, Commit, Done, RolledBack, Go
<1>7. CASE Recover \/ Orphans
  BY <1>7, RestartCollides DEF Recover, Orphans, StartRemoval, ThenSync, Go
<1>8. CASE WriteMark \/ WriteOwn \/ WriteReplace \/ WriteUnmark \/ Sync
  BY <1>8 DEF WriteMark, WriteOwn, WriteReplace, WriteUnmark, Sync, Mark, Own, ThenSync, Go
<1>9. CASE Isolate \/ Move \/ MarkQuarantine \/ EmptyQuarantine \/ Unlink
  BY <1>9 DEF Isolate, Move, MarkQuarantine, EmptyQuarantine, Unlink, Own, ThenSync, Go
<1>10. CASE Discard \/ Settle \/ Forget
  BY <1>10 DEF Discard, Settle, Forget, StartRemoval, Write, ThenSync, Go
<1>11. CASE Restore
  BY <1>11, RestoreCollides
<1> QED BY <1>1, <1>2, <1>3, <1>4, <1>5, <1>6, <1>7, <1>8, <1>9, <1>10, <1>11,
           UnpublishCollides DEF Steps

(* A rollback takes for somebody else's what is somebody else's, bytes a power loss    *)
(* has torn, or a stage it could not remove, and nothing a transaction installed.       *)
THEOREM OnlyUnownedEverCollides == Spec => OnlyUnownedCollides
<1>1. ASSUME ProductInv, [Next]_vars
      PROVE  [\A name \in run'.collided \ run.collided :
                \/ name = "stage"
                \/ live[name] = Foreign
                \/ << live[name], name >> \in torn]_vars
  <2>1. SUFFICES ASSUME Next, NEW name \in run'.collided \ run.collided PROVE Collides(name)
    BY <1>1 DEF Collides
  <2>2. CASE Steps \/ Fail
    BY <1>1, <2>1, <2>2, StepCollides
  <2>3. CASE run' = run
    BY <2>1, <2>3
  <2>4. CASE Kill \/ PowerLoss \/ \E t \in Transactions : Acquire(t)
    BY <2>1, <2>4, RestartCollides DEF Kill, PowerLoss, Stop
  <2> QED BY <2>1, <2>2, <2>3, <2>4
          DEF Next, Outside, PutForeign, TakeForeign, Finished, vars
<1> QED BY ProductInvariant, <1>1, PTL DEF Spec, OnlyUnownedCollides
-------------------------------------------------------------------------------
(***************************************************************************)
(* The transaction implements Publication                                   *)
(***************************************************************************)

(* The call that holds the lock is the one that is running.                        *)
OutcomeInv ==
  /\ DOMAIN outcome = Transactions /\ holder \in Transactions \cup {None}
  /\ \A t \in Transactions : outcome[t] = "running" <=> holder = t

Results == {"refused", "exists", "failed", "error"}

(* A step of a call goes on, or ends it: well only from the step that says so.       *)
LEMMA StepEnds ==
  ASSUME ProductInv, Steps \/ Fail
  PROVE  \/ UNCHANGED << outcome, holder >>
         \/ Done \/ \E result \in Results : End(result)
<1>1. CASE Fail
  BY <1>1, FailCases DEF Results, beside
<1>2. CASE Blocked
  BY <1>2, BlockedCases DEF Results, beside
<1>3. CASE Check \/ MakeStage \/ MarkStage \/ Produce \/ Publish \/ Link
  BY <1>3
     DEF Check, MakeStage, MarkStage, Produce, Publish, Link, Mark, Own, ThenSync, Results, beside
<1>4. CASE ReceiptMark \/ ReceiptOwn \/ JournalReceipt \/ Promote \/ UnmarkReceipt
  BY <1>4
     DEF ReceiptMark, ReceiptOwn, JournalReceipt, Promote, UnmarkReceipt, Mark, Own, ThenSync,
              beside
<1>5. CASE InstallProvenance \/ Validate \/ Cleanup \/ Decide \/ Commit \/ RolledBack
  BY <1>5 DEF InstallProvenance, Validate, Cleanup, Decide, Commit, RolledBack, ThenSync, Results,
              beside
<1>6. CASE Recover \/ Orphans
  BY <1>6 DEF Recover, Orphans, ThenSync, Results, beside
<1>7. CASE WriteMark \/ WriteOwn \/ WriteReplace \/ WriteUnmark \/ Sync
  BY <1>7 DEF WriteMark, WriteOwn, WriteReplace, WriteUnmark, Sync, Mark, Own, ThenSync, beside
<1>8. CASE Isolate \/ Move \/ MarkQuarantine \/ EmptyQuarantine \/ Unlink
  BY <1>8 DEF Isolate, Move, MarkQuarantine, EmptyQuarantine, Unlink, Own, ThenSync, beside
<1>9. CASE Unpublish \/ Restore \/ Discard \/ Settle \/ Forget
  BY <1>9 DEF Unpublish, Restore, Discard, Settle, Forget, ThenSync, beside
<1> QED BY <1>1, <1>2, <1>3, <1>4, <1>5, <1>6, <1>7, <1>8, <1>9 DEF Steps

LEMMA OutcomeInit == Init => OutcomeInv
BY EntriesApart DEF Init, OutcomeInv

LEMMA OutcomeNext ==
  ASSUME ProductInv, OutcomeInv, [Next]_vars PROVE OutcomeInv'
<1>1. CASE UNCHANGED << outcome, holder >>
  BY <1>1 DEF OutcomeInv
<1>2. CASE \E result \in Results \cup {"ok"} : End(result)
  BY <1>2, EntriesApart DEF End, OutcomeInv, Results
<1>3. CASE Steps \/ Fail
  BY <1>1, <1>2, <1>3, StepEnds DEF Done
<1>4. CASE \E t \in Transactions : Acquire(t)
  BY <1>4, EntriesApart DEF Acquire, OutcomeInv
<1>5. CASE Stop
  BY <1>5, EntriesApart DEF Stop, OutcomeInv
<1> QED BY <1>1, <1>3, <1>4, <1>5
        DEF Next, Kill, PowerLoss, Outside, PutForeign, TakeForeign, beside, Finished, vars

(* A bundle in place is the only one, and stays.                                   *)
LEMMA OneInPlace ==
  ASSUME ProductInv, NEW t \in Transactions, InPlace(t) PROVE WhosePublished = t
<1>1. \A u \in Transactions : InPlace(u) => u = t
  BY NamesApart DEF ProductInv, DirectoryInv, InPlace, Bundle
<1> QED BY <1>1 DEF WhosePublished

LEMMA InPlaceUndocumented ==
  ASSUME ProductInv, NEW t \in Transactions, InPlace(t) PROVE ~ Documented
BY NoJournalTyped, EntriesApart, NamesApart
   DEF ProductInv, DirectoryInv, InPlace, Bundle, Documented, Accounts

LEMMA InPlaceStays ==
  ASSUME ProductInv, [Next]_vars, NEW t \in Transactions, InPlace(t) PROVE InPlace(t)'
<1>1. CASE UNCHANGED directory
  BY <1>1, UnchangedIsQuiet, QuietInPlace DEF ProductInv
<1>2. CASE Steps \/ Fail
  BY <1>2, StepChanges, InPlaceUndocumented, QuietInPlace DEF ChangesOne
<1>3. CASE PowerLoss
  BY <1>3 DEF PowerLoss, Lose, InPlace, Bundle
<1>4. ~ Outside
  <2>1. \A name \in Published : live[name] \in Transactions
    BY DEF ProductInv, DirectoryInv, InPlace, Bundle
  <2> QED BY <2>1, ProductAssumption DEF Outside, PutForeign, TakeForeign, Published
<1> QED BY <1>1, <1>2, <1>3, <1>4 DEF Next, Acquire, Kill, Finished, vars, directory

LEMMA PublishedStays ==
  ASSUME ProductInv, ProductInv', [Next]_vars
  PROVE  \/ WhosePublished' = WhosePublished
         \/ WhosePublished = None /\ WhosePublished' \in Transactions
<1>1. CASE \E t \in Transactions : InPlace(t)
  <2>1. PICK t \in Transactions : InPlace(t)
    BY <1>1
  <2>2. WhosePublished = t
    BY <2>1, OneInPlace
  <2>3. InPlace(t)'
    BY <2>1, InPlaceStays
  <2>4. \A u \in Transactions : InPlace(u)' => u = t
    BY <2>3, NamesApart DEF ProductInv, DirectoryInv, InPlace, Bundle
  <2>5. WhosePublished' = t
    BY <2>3, <2>4 DEF WhosePublished
  <2> QED BY <2>2, <2>5
<1>2. CASE ~ \E t \in Transactions : InPlace(t)
  <2>1. WhosePublished = None
    BY <1>2 DEF WhosePublished
  <2>2. WhosePublished' \in Transactions \cup {None}
    BY DEF WhosePublished
  <2> QED BY <2>1, <2>2
<1> QED BY <1>1, <1>2

LEMMA AnswersAt ==
  /\ DOMAIN Answers = Transactions
  /\ \A t \in Transactions :
       /\ outcome[t] \in {"new", "running", "lost"} => Answers[t] = "none"
       /\ outcome[t] = "ok" => Answers[t] = "ok"
       /\ outcome[t] \in Results => Answers[t] = "error"
BY DEF Answers, Results

(* A call that ends answers once; any other step leaves the answers alone.            *)
LEMMA EndAnswers ==
  ASSUME OutcomeInv, holder # None, NEW result \in Results \cup {"ok"}, End(result)
  PROVE  /\ Answers[holder] = "none" /\ holder \in Transactions
         /\ Answers' = [Answers EXCEPT ![holder] = IF result = "ok" THEN "ok" ELSE "error"]
<1>1. holder \in Transactions /\ outcome[holder] = "running"
  BY DEF OutcomeInv
<1>2. Answers[holder] = "none"
  BY <1>1, AnswersAt
<1>3. outcome' = [outcome EXCEPT ![holder] = result] /\ DOMAIN outcome = Transactions
  BY DEF End, OutcomeInv
<1>4. ASSUME NEW t \in Transactions, t # holder PROVE Answers'[t] = Answers[t]
  <2>1. outcome'[t] = outcome[t]
    BY <1>3, <1>4
  <2> QED BY <2>1 DEF Answers
<1>5. Answers'[holder] = IF result = "ok" THEN "ok" ELSE "error"
  <2>1. outcome'[holder] = result
    BY <1>1, <1>3
  <2> QED BY <1>1, <2>1 DEF Answers, Results
<1>6. DOMAIN Answers' = Transactions /\ Answers = [t \in Transactions |-> Answers[t]]
      /\ Answers' = [t \in Transactions |-> Answers'[t]]
  BY DEF Answers
<1> QED BY <1>1, <1>2, <1>4, <1>5, <1>6

LEMMA OthersAnswer ==
  ASSUME OutcomeInv, OutcomeInv',
         \A t \in Transactions :
           outcome'[t] = outcome[t] \/ {outcome[t], outcome'[t]} \subseteq {"new", "running", "lost"}
  PROVE  Answers' = Answers
<1>1. ASSUME NEW t \in Transactions PROVE Answers'[t] = Answers[t]
  <2>1. CASE outcome'[t] = outcome[t]
    BY <2>1 DEF Answers
  <2>2. CASE {outcome[t], outcome'[t]} \subseteq {"new", "running", "lost"}
    BY <2>2 DEF Answers
  <2> QED BY <2>1, <2>2
<1>2. Answers = [t \in Transactions |-> Answers[t]] /\ Answers' = [t \in Transactions |-> Answers'[t]]
  BY DEF Answers
<1> QED BY <1>1, <1>2

LEMMA NextPublishes ==
  ASSUME ProductInv, ProductInv', OutcomeInv, OutcomeInv', [Next]_vars
  PROVE  [Promise!Next]_<< WhosePublished, Answers >>
<1>1. CASE Answers' = Answers
  BY <1>1, PublishedStays DEF Promise!Next, Promise!Publish
<1>2. CASE \E result \in Results \cup {"ok"} : End(result) /\ holder # None /\ (result = "ok" => Done)
  <2>1. PICK result \in Results \cup {"ok"} : End(result) /\ holder # None /\ (result = "ok" => Done)
    BY <1>2
  <2>2. WhosePublished' = WhosePublished
    BY <2>1 DEF End, directory, WhosePublished, InPlace, Bundle
  <2>3. /\ Answers[holder] = "none" /\ holder \in Transactions
        /\ Answers' = [Answers EXCEPT ![holder] = IF result = "ok" THEN "ok" ELSE "error"]
    BY <2>1, EndAnswers
  <2>4. CASE result = "ok"
    <3>1. InPlace(holder)
      BY <2>1, <2>4 DEF Done, At, ProductInv, DoneInv, Here
    <3>2. WhosePublished = holder
      BY <2>3, <3>1, OneInPlace
    <3> QED BY <2>2, <2>3, <2>4, <3>2 DEF Promise!Next, Promise!Ok
  <2>5. CASE result # "ok"
    BY <2>2, <2>3, <2>5 DEF Promise!Next, Promise!Error
  <2> QED BY <2>4, <2>5
<1>3. CASE UNCHANGED outcome
  BY <1>1, <1>3 DEF Answers
<1>4. CASE Steps \/ Fail
  <2>1. holder # None
    BY <1>4, FailCases, BlockedCases
       DEF Steps, At, Recover, Orphans, Check, MakeStage, MarkStage, Produce, Publish, Link, ReceiptMark,
           ReceiptOwn, JournalReceipt, Promote, UnmarkReceipt, InstallProvenance, Validate, Cleanup,
           Decide, Commit, Done, WriteMark, WriteOwn, WriteReplace, WriteUnmark, Sync, Isolate, Move,
           MarkQuarantine, EmptyQuarantine, Unlink, Unpublish, Restore, Discard, Settle, Forget,
           RolledBack
  <2>2. CASE Done
    BY <1>2, <2>1, <2>2 DEF Done
  <2>3. CASE \E result \in Results : End(result)
    BY <1>2, <2>1, <2>3 DEF Results
  <2> QED BY <1>3, <1>4, <2>2, <2>3, StepEnds
<1>5. CASE \E t \in Transactions : Acquire(t)
  BY <1>1, <1>5, OthersAnswer DEF Acquire, OutcomeInv
<1>6. CASE Stop
  BY <1>1, <1>6, OthersAnswer DEF Stop, OutcomeInv
<1> QED BY <1>3, <1>4, <1>5, <1>6
        DEF Next, Kill, PowerLoss, Outside, PutForeign, TakeForeign, beside, Finished, vars

LEMMA InitPublishes == Init => Promise!Init
<1> SUFFICES ASSUME Init PROVE Promise!Init
  OBVIOUS
<1>1. \A t \in Transactions : ~ InPlace(t)
  BY EntriesApart, NamesApart DEF Init, DirectoryInit, InPlace, Bundle, Empty
<1>2. Answers = [t \in Transactions |-> "none"]
  BY DEF Init, Answers
<1> QED BY <1>1, <1>2 DEF WhosePublished, Promise!Init

(* At most one bundle is published, whole and for good, and Ok is said only by the call *)
(* that published it: the transaction implements Publication.                      *)
THEOREM PublishesOnceAlways == Spec => PublishesOnce
<1>1. ProductInv /\ OutcomeInv /\ [Next]_vars => OutcomeInv'
  BY OutcomeNext
<1>2. Spec => []OutcomeInv
  BY ProductInvariant, OutcomeInit, <1>1, PTL DEF Spec
<1>3. ProductInv /\ ProductInv' /\ OutcomeInv /\ OutcomeInv' /\ [Next]_vars
        => [Promise!Next]_<< WhosePublished, Answers >>
  BY NextPublishes
<1> QED BY ProductInvariant, InitPublishes, <1>2, <1>3, PTL DEF Spec, PublishesOnce, Promise!Spec
===============================================================================
