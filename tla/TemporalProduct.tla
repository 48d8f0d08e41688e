---------------------------- MODULE TemporalProduct ----------------------------
(***************************************************************************)
(* The transaction that publishes the corrected temporal product              *)
(* (temporal_covariance_product.rs): a set of layers, the promoted fixed-cube  *)
(* receipt and, last, the provenance file that marks the bundle complete.      *)
(* A rollback journal names what has been installed, a stage directory holds    *)
(* what has not.  Calls exclude each other by a lock; any call may fail at     *)
(* any step, be killed, or lose power, and the next one recovers.              *)
(*                                                                         *)
(* A product's entry is the transaction that wrote it, or Foreign for a file    *)
(* somebody else put there; None stands for no file and, for the receipt, its   *)
(* original bytes.  A reserved name is Owned while a valid marker says whose it  *)
(* is, Bare while none does.  The one slot of a reserved prefix stands for all   *)
(* the names with that prefix, Bare if one of them is left Bare.               *)
(***************************************************************************)
EXTENDS DurableDirectory, Sequences, Integers

CONSTANTS
  Transactions,  \* calls of write_temporal_covariance_products
  Layers,        \* PRODUCT_LAYERS, in order
  None, Bare, Owned, Foreign,
  Exposed,       \* products others may put a file in the place of
  MaxFaults      \* bound on kills, power losses and files others put there

LayerNames == {Layers[k] : k \in DOMAIN Layers}

ASSUME ProductAssumption ==
  /\ {None, Bare, Owned, Foreign} \cap Transactions = {}
  /\ None # Foreign /\ None # Bare /\ None # Owned /\ Bare # Owned
  /\ Exposed \subseteq LayerNames \cup {"provenance"}
  /\ MaxFaults \in Nat

(* The layers have names of their own.                                       *)
ASSUME LayersAssumption ==
  /\ Layers \in Seq(LayerNames) /\ Layers # << >>
  /\ LayerNames \cap {"provenance", "receipt", "journal",
                      "stage", "quarantine", "scratch", "receipt_scratch"} = {}

VARIABLES
  torn,     \* layers whose bytes a power loss has torn, with their owner
  holder,   \* the transaction that holds the lock
  run,      \* the holder's locals
  outcome,  \* what became of each transaction
  hasty,    \* a bundle was taken for complete before its last file was on disk
  faults

vars == << directory, torn, holder, run, outcome, hasty, faults >>
beside == << torn, holder, outcome, hasty, faults >>

Reserved == {"stage", "quarantine", "scratch", "receipt_scratch"}
Published == LayerNames \cup {"provenance"}
Names == Published \cup Reserved \cup {"receipt", "journal"}

(* ProductRollbackJournal: whose it is, what it has installed, whether it       *)
(* knows the digest of the promoted receipt, and rollback_state.               *)
Journal(owner, installed, receipt, blocked) ==
  [owner |-> owner, installed |-> installed, receipt |-> receipt, blocked |-> blocked]
NoJournal == Journal(None, {}, FALSE, FALSE)

Empty == [name \in Names |-> IF name = "journal" THEN NoJournal ELSE None]

Idle ==
  [pc |-> "idle", then |-> "idle", back |-> "idle", phase |-> "none", layer |-> 1,
   draft |-> NoJournal, slot |-> "scratch", change |-> << >>, stuck |-> {},
   removing |-> FALSE, failed |-> FALSE, unclean |-> FALSE, collided |-> {}]

Init ==
  /\ DirectoryInit(Empty)
  /\ torn = {} /\ holder = None /\ run = Idle
  /\ outcome = [t \in Transactions |-> "new"]
  /\ hasty = FALSE /\ faults = 0

At(step) == holder # None /\ run.pc = step
Go(step) == run' = [run EXCEPT !.pc = step]
Only(name, entry) == [changed \in {name} |-> entry]

(* A change the code follows with a sync of the directory. *)
ThenSync(changes, step) ==
  /\ Change(changes)
  /\ run' = [run EXCEPT !.pc = "sync", !.then = step]
  /\ UNCHANGED beside

Sync ==
  /\ At("sync")
  /\ SyncDirectory
  /\ run' = [run EXCEPT !.pc = run.then, !.then = "idle", !.removing = @ /\ run.then = "empty"]
  /\ UNCHANGED beside

(* A reserved slot that holds an entry nobody can own stays so.              *)
Reserve(name, entry) == Only(name, IF name \in run.stuck THEN Bare ELSE entry)
Unowned(dir) == {name \in Reserved : dir[name] = Bare}

End(result) ==
  /\ outcome' = [outcome EXCEPT ![holder] = result]
  /\ holder' = None
  /\ run' = Idle
  /\ UNCHANGED << directory, torn, hasty, faults >>

Intact(dir, name, owner) == dir[name] = owner /\ << owner, name >> \notin torn

(* validate_completed_bundle. *)
Complete(dir, journal) ==
  /\ journal.installed = Published /\ journal.receipt
  /\ \A name \in LayerNames : Intact(dir, name, journal.owner)
  /\ dir["provenance"] = journal.owner
  /\ dir["receipt"] = journal.owner
-------------------------------------------------------------------------------
(* TemporalProductTransaction::acquire.  A call that finds the lock taken       *)
(* returns an error and leaves no trace.                                     *)
Acquire(t) ==
  /\ outcome[t] = "new" /\ holder = None
  /\ holder' = t
  /\ outcome' = [outcome EXCEPT ![t] = "running"]
  /\ run' = [Idle EXCEPT !.pc = "recover", !.phase = "acquire", !.stuck = Unowned(live)]
  /\ UNCHANGED << directory, torn, hasty, faults >>

StartRollback(phase) ==
  run' = [Idle EXCEPT !.pc = "unpublish", !.phase = phase, !.layer = Len(Layers) + 1,
                      !.stuck = Unowned(live)]

(* recover_incomplete_product.  A complete bundle is rolled back too if         *)
(* velocity.tif or velocity_sigma.tif has changed since.                     *)
Recover ==
  /\ At("recover")
  /\ \/ /\ live["journal"] = NoJournal
        /\ Go("orphans")
        /\ UNCHANGED << directory, beside >>
     \/ /\ live["journal"] # NoJournal /\ Complete(live, live["journal"])
        /\ Change(Only("journal", NoJournal))
        /\ run' = [run EXCEPT !.pc = "sync", !.then = "orphans"]
        /\ hasty' = (hasty \/ images # {live})
        /\ UNCHANGED << torn, holder, outcome, faults >>
     \/ /\ live["journal"] # NoJournal
        /\ StartRollback("acquire")
        /\ UNCHANGED << directory, beside >>

StartRemoval(back) ==
  run' = [run EXCEPT !.pc = "isolate", !.back = back, !.removing = TRUE]

(* cleanup_orphan_transaction_files. *)
Orphans ==
  /\ At("orphans")
  /\ IF Unowned(live) # {} THEN End("refused")
     ELSE IF live["quarantine"] # None
     THEN /\ run' = [run EXCEPT !.pc = "empty", !.back = "orphans", !.removing = TRUE]
          /\ UNCHANGED << directory, beside >>
     ELSE IF live["stage"] # None
     THEN StartRemoval("orphans") /\ UNCHANGED << directory, beside >>
     ELSE ThenSync([name \in {"scratch", "receipt_scratch"} |-> None], "check")

(* A reserved slot's owner marker is created, then written and synced.         *)
Mark(slot, step) ==
  /\ Change(Reserve(slot, Bare))
  /\ Go(step)
  /\ UNCHANGED beside

Own(slot, step) == ThenSync(Reserve(slot, Owned), step)

(* validate_no_existing_products. *)
NothingPublished == \A name \in Published : live[name] = None

Check ==
  /\ At("check")
  /\ IF NothingPublished
     THEN /\ run' = [run EXCEPT !.pc = "make_stage", !.phase = "begin"]
          /\ UNCHANGED << directory, beside >>
     ELSE End("exists")

(* create_stage_directory. *)
MakeStage == At("make_stage") /\ Mark("stage", "mark_stage")
MarkStage == At("mark_stage") /\ Own("stage", "produce")

(* persist_rollback_journal and restore_fixed_cube_receipt: a marked scratch     *)
(* is renamed over the file, then the marker goes.                           *)
Write(slot, change, back) ==
  run' = [run EXCEPT !.pc = "mark", !.slot = slot, !.change = change, !.back = back]

WriteMark == At("mark") /\ Mark(run.slot, "own")
WriteOwn == At("own") /\ Own(run.slot, "replace")
WriteReplace == At("replace") /\ ThenSync(run.change, "unmark")
WriteUnmark ==
  /\ At("unmark")
  /\ Change(Reserve(run.slot, None))
  /\ run' = [run EXCEPT !.pc = "sync", !.then = run.back, !.slot = Idle.slot, !.change = << >>,
                        !.back = "idle"]
  /\ UNCHANGED beside

(* The layers are computed and finalized in the stage, the journal created.    *)
Produce ==
  /\ At("produce")
  /\ LET journal == Journal(holder, {}, FALSE, FALSE)
     IN run' = [run EXCEPT !.pc = "mark", !.slot = "scratch", !.back = "publish",
                           !.change = Only("journal", journal), !.draft = journal,
                           !.phase = "write", !.layer = 1]
  /\ UNCHANGED << directory, beside >>

Journaled(names, receipt) ==
  [run.draft EXCEPT !.installed = @ \cup names, !.receipt = receipt]

SaveDraft(journal, back) ==
  run' = [run EXCEPT !.pc = "mark", !.slot = "scratch", !.back = back,
                     !.change = Only("journal", journal), !.draft = journal]

Publish_Unjournaled ==  \* mutant: a layer is installed before the journal names it
  /\ At("publish")
  /\ IF run.layer <= Len(Layers)
     THEN run' = [run EXCEPT !.pc = "link", !.draft = Journaled({Layers[run.layer]}, FALSE)]
     ELSE Go("receipt_mark")
  /\ UNCHANGED << directory, beside >>

(* publish_layers_no_replace. *)
Publish ==
  /\ At("publish")
  /\ IF run.layer <= Len(Layers)
     THEN SaveDraft(Journaled({Layers[run.layer]}, FALSE), "link")
     ELSE Go("receipt_mark")
  /\ UNCHANGED << directory, beside >>

(* install_no_replace *)
Link ==
  /\ At("link")
  /\ live[Layers[run.layer]] = None
  /\ Change(Only(Layers[run.layer], holder))
  /\ run' = [run EXCEPT !.pc = "sync", !.then = "publish", !.layer = @ + 1]
  /\ UNCHANGED beside

ReceiptMark == At("receipt_mark") /\ Mark("receipt_scratch", "receipt_own")
ReceiptOwn == At("receipt_own") /\ Own("receipt_scratch", "journal_receipt")

JournalReceipt_Unknown ==  \* mutant: the promoted receipt's digest is not journaled
  /\ At("journal_receipt")
  /\ SaveDraft(Journaled({"provenance"}, FALSE), "promote")
  /\ UNCHANGED << directory, beside >>

(* journal_expected_fixed_receipt_before_replace. *)
JournalReceipt ==
  /\ At("journal_receipt")
  /\ SaveDraft(Journaled({"provenance"}, TRUE), "promote")
  /\ UNCHANGED << directory, beside >>

(* promote_fixed_cube_receipt *)
Promote ==
  /\ At("promote")
  /\ live["receipt"] = None
  /\ ThenSync(Only("receipt", holder), "unmark_receipt")

UnmarkReceipt ==
  /\ At("unmark_receipt")
  /\ ThenSync(Reserve("receipt_scratch", None), IF run.failed THEN "cleanup" ELSE "complete")

InstallProvenance ==
  /\ At("complete")
  /\ live["provenance"] = None
  /\ ThenSync(Only("provenance", holder), "validate")

Validate ==
  /\ At("validate")
  /\ Complete(live, run.draft)
  /\ Go("cleanup")
  /\ UNCHANGED << directory, beside >>
-------------------------------------------------------------------------------
(* remove_owned_stage_directory: into a private directory, whose marker is        *)
(* written after the rename, then away.                                       *)
Isolate ==
  /\ At("isolate")
  /\ live["stage"] = Owned
  /\ Change(Only("quarantine", Bare))
  /\ Go("move")
  /\ UNCHANGED beside

Move ==
  /\ At("move")
  /\ Change(Only("stage", None))
  /\ Go("mark_quarantine")
  /\ UNCHANGED beside

MarkQuarantine == At("mark_quarantine") /\ Own("quarantine", "empty")

(* remove_verified_cleanup_quarantine: no longer verifiable once it starts.     *)
EmptyQuarantine ==
  /\ At("empty")
  /\ Change(Only("quarantine", Bare))
  /\ Go("unlink")
  /\ UNCHANGED beside

Unlink ==
  /\ At("unlink")
  /\ Change(Reserve("quarantine", None))
  /\ run' = [run EXCEPT !.pc = "sync", !.then = run.back, !.back = "idle"]
  /\ UNCHANGED beside

(* write_product_transaction_with_validator, after its closure. *)
Cleanup ==
  /\ At("cleanup")
  /\ IF live["stage"] = None
     THEN run' = [run EXCEPT !.pc = "decide", !.phase = "cleanup"]
     ELSE run' = [run EXCEPT !.pc = "isolate", !.back = "decide", !.removing = TRUE,
                             !.phase = "cleanup"]
  /\ UNCHANGED << directory, beside >>

Standing == live["journal"] # NoJournal

Decide ==
  /\ At("decide")
  /\ IF Standing /\ run.failed
     THEN StartRollback("first") /\ UNCHANGED << directory, beside >>
     ELSE IF Standing /\ run.unclean
     THEN StartRollback("last") /\ UNCHANGED << directory, beside >>
     ELSE IF run.failed \/ run.unclean
     THEN End("failed")
     ELSE Go("commit") /\ UNCHANGED << directory, beside >>

Commit_Unsynced ==  \* mutant: the journal's removal is not synced
  /\ At("commit")
  /\ Change(Only("journal", NoJournal))
  /\ run' = [run EXCEPT !.pc = "done", !.phase = "last"]
  /\ UNCHANGED beside

(* complete_publication_after_legacy_check. *)
Commit ==
  /\ At("commit")
  /\ \/ /\ Complete(live, live["journal"])
        /\ Change(Only("journal", NoJournal))
        /\ run' = [run EXCEPT !.pc = "sync", !.then = "done", !.phase = "last"]
        /\ UNCHANGED beside
     \/ /\ StartRollback("last")
        /\ UNCHANGED << directory, beside >>

Done == At("done") /\ End("ok")
-------------------------------------------------------------------------------
(* rollback_incomplete_product_with_journal, in reverse order of installation.  *)
Artifact(k) == IF k <= Len(Layers) THEN Layers[k] ELSE "provenance"

(* installed_artifact_is_owned. *)
Removable_ByName(name) == live[name] # None  \* mutant: the journal's word is enough
Removable(name) == Intact(live, name, live["journal"].owner)

Unpublish ==
  /\ At("unpublish") /\ run.layer > 0
  /\ LET name == Artifact(run.layer)
         listed == name \in live["journal"].installed /\ live[name] # None
     IN /\ IF listed /\ Removable(name)
           THEN Change(Only(name, None))
           ELSE UNCHANGED directory
        /\ run' = [run EXCEPT !.layer = @ - 1,
                              !.collided = @ \cup (IF listed /\ ~ Removable(name) THEN {name} ELSE {})]
  /\ UNCHANGED beside

Restore ==
  /\ At("unpublish") /\ run.layer = 0
  /\ IF live["receipt"] = live["journal"].owner /\ live["journal"].receipt
     THEN Write("receipt_scratch", Only("receipt", None), "discard")
     ELSE run' = [run EXCEPT !.pc = "discard", !.collided = @ \cup (IF live["receipt"] = None THEN {} ELSE {"receipt"})]
  /\ UNCHANGED << directory, beside >>

Discard ==
  /\ At("discard")
  /\ IF live["stage"] = None THEN Go("settle") ELSE StartRemoval("settle")
  /\ UNCHANGED << directory, beside >>

Settle ==
  /\ At("settle")
  /\ SyncDirectory
  /\ IF run.collided # {}
     THEN Write("scratch", Only("journal", [live["journal"] EXCEPT !.blocked = TRUE]), "blocked")
     ELSE Go("forget")
  /\ UNCHANGED beside

AfterRollback == IF run.phase = "acquire" THEN "orphans" ELSE "fail"

Forget == At("forget") /\ ThenSync(Only("journal", NoJournal), AfterRollback)

RolledBack == At("fail") /\ End("failed")

-------------------------------------------------------------------------------
RemovalFails == [run EXCEPT !.pc = IF run.back = "idle" THEN run.then ELSE run.back, !.removing = FALSE, !.stuck = Unowned(live),
                            !.unclean = TRUE, !.collided = @ \cup {"stage"}]

Abort(step) == [run EXCEPT !.pc = step, !.failed = TRUE, !.stuck = Unowned(live)]

(* The caller of the first rollback makes a second.                          *)
RetryRollback == StartRollback("last")

(* The rollback returns an error. *)
Blocked ==
  /\ At("blocked")
  /\ CASE run.phase = "first"   -> RetryRollback /\ UNCHANGED << directory, beside >>
       [] run.phase = "acquire" -> End("refused")
       [] run.phase = "last"    -> End("failed")

InPromotion == run.pc = "promote" \/ (run.pc = "sync" /\ run.then = "unmark_receipt")
InClosure == run.phase = "write" \/ run.pc = "produce"

(* The call the holder is about to make returns an error: a file stands where   *)
(* one is to be installed, an input has changed, or the disk fails.            *)
Fail ==
  /\ holder # None /\ run.pc \notin {"cleanup", "decide", "fail", "blocked", "done"}
  /\ IF run.removing /\ "orphans" \notin {run.back, run.then}
     THEN run' = RemovalFails /\ UNCHANGED << directory, beside >>
     ELSE CASE run.phase = "acquire" -> End("error")
            [] run.phase = "begin" /\ ~ InClosure ->
                 IF live["stage"] = Owned
                 THEN StartRemoval("fail") /\ UNCHANGED << directory, beside >>
                 ELSE End("failed")
            [] InClosure /\ InPromotion ->
                 run' = Abort("unmark_receipt") /\ UNCHANGED << directory, beside >>
            [] InClosure /\ ~ InPromotion ->
                 run' = Abort("cleanup") /\ UNCHANGED << directory, beside >>
            [] run.phase = "first" -> RetryRollback /\ UNCHANGED << directory, beside >>
            [] run.phase \in {"cleanup", "last"} -> End("failed")

Steps ==
  \/ Recover \/ Orphans \/ Check \/ MakeStage \/ MarkStage \/ Produce \/ Publish \/ Link
  \/ ReceiptMark \/ ReceiptOwn \/ JournalReceipt \/ Promote \/ UnmarkReceipt
  \/ InstallProvenance \/ Validate \/ Cleanup \/ Decide \/ Commit \/ Done
  \/ WriteMark \/ WriteOwn \/ WriteReplace \/ WriteUnmark \/ Sync
  \/ Isolate \/ Move \/ MarkQuarantine \/ EmptyQuarantine \/ Unlink
  \/ Unpublish \/ Restore \/ Discard \/ Settle \/ Forget \/ RolledBack \/ Blocked

(* A kill releases the lock.  A power loss leaves one of the directory's        *)
(* images, and tears layers: BoundedCogWriter never syncs their bytes.         *)
Stop ==
  /\ faults < MaxFaults
  /\ faults' = faults + 1
  /\ holder' = None /\ run' = Idle
  /\ outcome' = [t \in Transactions |-> IF outcome[t] = "running" THEN "lost" ELSE outcome[t]]
  /\ UNCHANGED hasty

Kill ==
  /\ holder # None
  /\ Stop
  /\ UNCHANGED << directory, torn >>

Unsynced == {<< live'[name], name >> : name \in {n \in LayerNames : live'[n] \in Transactions}}

PowerLoss ==
  /\ Stop
  /\ Lose
  /\ \E lost \in SUBSET Unsynced : torn' = torn \cup lost

(* Somebody else puts a file where none stands, and takes it away again.       *)
PutForeign(name) ==
  /\ faults < MaxFaults
  /\ live[name] = None
  /\ Change(Only(name, Foreign))
  /\ faults' = faults + 1
  /\ UNCHANGED << torn, holder, run, outcome, hasty >>

TakeForeign(name) ==
  /\ live[name] = Foreign
  /\ Change(Only(name, None))
  /\ UNCHANGED beside /\ UNCHANGED run

Outside == \E name \in Exposed : PutForeign(name) \/ TakeForeign(name)

Finished ==
  /\ holder = None /\ \A t \in Transactions : outcome[t] # "new"
  /\ UNCHANGED vars

Next ==
  \/ \E t \in Transactions : Acquire(t)
  \/ Steps \/ Fail
  \/ Kill \/ PowerLoss \/ Outside \/ Finished

Spec == Init /\ [][Next]_vars
-------------------------------------------------------------------------------
(***************************************************************************)
(* Properties                                                              *)
(***************************************************************************)

Entries == Transactions \cup {None, Foreign}
Journals ==
  {NoJournal} \cup
  [owner : Transactions, installed : SUBSET Published, receipt : BOOLEAN, blocked : BOOLEAN]

WellTyped(dir) ==
  /\ DOMAIN dir = Names
  /\ \A name \in Published : dir[name] \in Entries
  /\ \A name \in Reserved : dir[name] \in {None, Bare, Owned}
  /\ dir["receipt"] \in Transactions \cup {None}
  /\ dir["journal"] \in Journals

TypeOK ==
  /\ live \in images /\ \A dir \in images : WellTyped(dir)
  /\ torn \subseteq Transactions \X LayerNames
  /\ holder \in Transactions \cup {None}
  /\ outcome \in [Transactions ->
       {"new", "running", "refused", "error", "exists", "failed", "lost", "ok"}]
  /\ \A t \in Transactions : outcome[t] = "running" <=> holder = t
  /\ run.draft \in Journals /\ hasty \in BOOLEAN
  /\ faults \in 0 .. MaxFaults

Bundle(dir, t) ==
  /\ \A name \in Published : dir[name] = t
  /\ dir["receipt"] = t

NoBundle(dir) ==
  /\ \A name \in Published : dir[name] \notin Transactions
  /\ dir["receipt"] = None

(* In every directory a process or a power loss can leave, the product is all    *)
(* there or not there at all, unless a journal stands to say how to undo it      *)
(* (publish_product_receipt, rollback_incomplete_product_with_journal), or a     *)
(* recovery was hasty.                                                      *)
AllOrNothing ==
  ~ hasty =>
    \A dir \in images :
      dir["journal"] = NoJournal => NoBundle(dir) \/ \E t \in Transactions : Bundle(dir, t)

(* No call removes or replaces a file somebody else put among the products        *)
(* (install_no_replace, installed_artifact_is_owned).                          *)
ForeignKept ==
  [][\A name \in Published :
       live[name] = Foreign /\ live'[name] # Foreign => Outside \/ PowerLoss]_vars

(* A rollback takes for somebody else's only what is somebody else's, or bytes a  *)
(* power loss has torn, or a stage it could not remove; never what an interrupted *)
(* transaction installed itself, so a crash alone does not block the directory    *)
(* (journal_expected_fixed_receipt_before_replace, persist_rollback_journal).  *)
OnlyUnownedCollides ==
  [][\A name \in run'.collided \ run.collided :
       \/ name = "stage"
       \/ live[name] = Foreign
       \/ << live[name], name >> \in torn]_vars

(* The bundle every reader finds, now and after any power loss.              *)
InPlace(t) == \A dir \in images : dir["journal"] = NoJournal /\ Bundle(dir, t)
WhosePublished ==
  IF \E t \in Transactions : InPlace(t) THEN CHOOSE t \in Transactions : InPlace(t) ELSE None

Answers ==
  [t \in Transactions |->
     CASE outcome[t] \in {"new", "running", "lost"} -> "none"
       [] outcome[t] = "ok" -> "ok"
       [] OTHER -> "error"]

(* The transaction implements Publication: one bundle at most, for good, and Ok   *)
(* only from the call that published it.                                      *)
Promise == INSTANCE Publication WITH published <- WhosePublished, answer <- Answers
PublishesOnce == Promise!Spec
===============================================================================
