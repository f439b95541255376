------------------------------ MODULE Importer ------------------------------
(***************************************************************************)
(* The import of the ranges of a snapshot source into the index (crate     *)
(* ztreamer-import): epochs in flight under a byte budget and verify       *)
(* permits, checked against the node, installed in order, with a stop      *)
(* signal, failures, crashes and later imports from a longer manifest.     *)
(*                                                                         *)
(* The source is any prefix of ranges of any branch.  The checks on the    *)
(* bytes of a range are in EpochProof and the transfers in RangeFetch;     *)
(* here an epoch fetches, verifies and attests, or fails.  Between two     *)
(* imports the daemon indexes the blocks of the node.                      *)
(***************************************************************************)
EXTENDS Index, Epochs

CONSTANTS
  Size,            \* Size[b]: the note commitments after block b
  SEAL_DEPTH,      \* a range this far below the visible tip is sealed
  Workers,         \* import_workers
  MAX_BLOB_BYTES,  \* MAX_BLOB_BYTES_BEFORE_INSTALL, one byte for each range here
  ModeSwitch,      \* the index may come from the embedded mode, with no sealed range
  Tips,            \* bound: the tips that the node can have
  MaxFaults,       \* bound: the failures and crashes of a behaviour
  MaxImports       \* bound: the imports of a behaviour

ImporterAssumption ==
  /\ Size \in [Block -> Nat] /\ SEAL_DEPTH \in Nat
  /\ Tips \subseteq Block
  /\ Workers \in Nat \ {0} /\ MAX_BLOB_BYTES \in Nat \ {0}

VARIABLES
  node_tip,   \* the tip of the node's best chain
  shown,      \* the tips that the node had (history)
  imp,        \* the locals of Importer::run
  stop,       \* the shutdown signal
  imports,    \* the imports so far
  faults      \* the failures and crashes so far

importer_vars == <<node_tip, shown, imp, stop, imports, faults>>

Chain(b) ==
  LET at[h \in 0..Height[b]] == IF h = Height[b] THEN b ELSE Prev[at[h + 1]]
  IN  at
On(b, top) == Height[b] <= Height[top] /\ Chain(top)[Height[b]] = b
OnNodeChain(b) == On(b, node_tip)

\* The manifest of the ranges through block b.
RangesThrough(b) == (Height[b] + 1) \div RANGE_SIZE
Described(b) ==
  [i \in 1..RangesThrough(b) |->
    LET last == Chain(b)[i * RANGE_SIZE - 1] IN
    [start_height |-> (i - 1) * RANGE_SIZE, end_height |-> Height[last],
     end_hash |-> last, end_tree_sizes |-> Size[last],
     frontiers |-> {}, epoch_end |-> FALSE]]
ManifestOf(b) ==
  LET entries == Described(b)   epochs == EpochsOf(entries)
      ends == {epochs[k].last : k \in DOMAIN epochs}
  IN  [i \in DOMAIN entries |-> [entries[i] EXCEPT !.epoch_end = i \in ends]]
Blob(entry) ==
  [i \in 1..RANGE_SIZE |-> Chain(entry.end_hash)[entry.start_height + i - 1]]

-----------------------------------------------------------------------------
(* EpochImport *)

NoImport ==
  [pc |-> "idle", manifest |-> <<>>, epochs |-> <<>>, sealed |-> None, first |-> 0, next |-> 0,
   work |-> EmptyTable, at |-> 0, range |-> 0, budget |-> 0, outcome |-> "none",
   report |-> None]

LastEpoch == Len(imp.epochs)

\* manifest_epoch: the first epoch has only its part after the sealed tip.
ManifestEpoch(k) ==
  IF k = imp.first /\ imp.sealed # None
  THEN PartAfter(imp.epochs[k], imp.sealed, imp.manifest)
  ELSE imp.epochs[k]

\* blob_bytes_in_budget and epochs_in_work.
BlobBytes(k) ==
  LET bytes == ManifestEpoch(k).last - ManifestEpoch(k).first + 1
  IN  IF bytes < MAX_BLOB_BYTES THEN bytes ELSE MAX_BLOB_BYTES
EpochsInWork == 2 * Workers

Ends(outcome) == [imp EXCEPT !.pc = "ended", !.outcome = outcome, !.work = EmptyTable,
                             !.budget = 0]
Stays == UNCHANGED <<vars, node_tip, shown, stop, imports, faults>>

-----------------------------------------------------------------------------
(* Importer::run *)

\* The manifest and the state of the index; Ahead ends the import, and so does
\* RangeBoundary, which a manifest from genesis never gives.
StartImport(b) ==
  LET manifest == ManifestOf(b)
      epochs == EpochsOf(manifest)
      with_part == {k \in DOMAIN epochs : PartAfter(epochs[k], sealed, manifest) # NoEpoch}
      first == IF sealed = None THEN 1
               ELSE CHOOSE k \in with_part : \A other \in with_part : k <= other
  IN  /\ imp.pc = "idle" /\ imports < MaxImports
      /\ imports' = imports + 1
      /\ imp' = IF sealed >= Height[b]
                THEN [NoImport EXCEPT !.pc = "ended", !.outcome = "error"]
                ELSE [NoImport EXCEPT !.pc = IF sealed = None THEN "run" ELSE "tip",
                        !.manifest = manifest, !.epochs = epochs, !.sealed = sealed,
                        !.first = first, !.next = first, !.at = first, !.report = sealed]
      /\ UNCHANGED <<vars, node_tip, shown, stop, faults>>

\* continue_at_sealed_tip: the entry that ends at the sealed tip must be of the
\* tip block.  If it is not, SealedTip or ReorgedTip ends the import.  Then the
\* mutable rows go.
\* (KeepMutableRows: a mutant that leaves them.)
TipEntry == imp.manifest[ManifestEpoch(imp.first).first - 1]
KeepMutableRows ==
  /\ imp.pc = "tip"
  /\ imp' = IF TipEntry.end_hash = Read(sealed) THEN [imp EXCEPT !.pc = "run"] ELSE Ends("error")
  /\ UNCHANGED <<vars, node_tip, shown, stop, imports, faults>>
ContinueAtSealedTip ==
  /\ imp.pc = "tip"
  /\ IF TipEntry.end_hash = Read(sealed) /\ TipEntry.end_tree_sizes = Size[Read(sealed)]
     THEN /\ imp' = [imp EXCEPT !.pc = "run"]
          /\ IF tip.height > sealed
             THEN ReplaceMutableSuffix(state.generation, Read(sealed), <<>>, None)
             ELSE UNCHANGED vars
     ELSE imp' = Ends("error") /\ UNCHANGED vars
  /\ UNCHANGED <<node_tip, shown, stop, imports, faults>>

\* The stream of epochs: `then` takes the budget of one epoch at a time, in
\* order, and `buffered` has a place for it.  The epochs move only while the
\* loop waits for the next one.
Polled == imp.pc = "run" /\ ~stop

\* acquire_many_owned of the budget.
HasBudget(k) == imp.budget + BlobBytes(k) <= MAX_BLOB_BYTES

AdmitEpoch ==
  /\ Polled /\ imp.next <= LastEpoch
  /\ Cardinality(DOMAIN imp.work) < EpochsInWork
  /\ HasBudget(imp.next)
  /\ imp' = [imp EXCEPT !.next = @ + 1, !.budget = @ + BlobBytes(imp.next),
                        !.work = Put(@, [k \in {imp.next} |-> "fetch"])]
  /\ Stays

Move(k, from, to) ==
  /\ Polled /\ k \in DOMAIN imp.work /\ imp.work[k] = from
  /\ imp' = [imp EXCEPT !.work[k] = to]

\* fetch_and_verify: the blobs, a verify permit, EpochProof::rebuild_ranges on the
\* blocking pool, then the node.
Fetched(k) == Move(k, "fetch", "permit") /\ Stays
TakePermit(k) ==
  /\ Move(k, "permit", "verify")
  /\ Cardinality({j \in DOMAIN imp.work : imp.work[j] = "verify"}) < Workers
  /\ Stays
Verified(k) == Move(k, "verify", "attest") /\ Stays

\* EpochProof::attest compares the end hash of each entry with the node.
Attested(k) ==
  \A i \in ManifestEpoch(k).first..ManifestEpoch(k).last : OnNodeChain(imp.manifest[i].end_hash)
AttestAndSample(k) ==
  /\ Move(k, "attest", IF Attested(k) THEN "ready" ELSE "failed")
  /\ Stays

\* A fetch, a check, the node or the blocking pool fails.
EpochFails(k) ==
  /\ faults < MaxFaults
  /\ \E from \in {"fetch", "verify", "attest"} : Move(k, from, "failed")
  /\ faults' = faults + 1
  /\ UNCHANGED <<vars, node_tip, shown, stop, imports>>

\* The loop takes the lowest epoch.  An error ends the import and drops the rest.
Takes(k) == k = imp.at /\ k \in DOMAIN imp.work /\ imp.work[k] = "ready"
TakeEpoch ==
  /\ Polled
  /\ \E k \in DOMAIN imp.work :
       /\ Takes(k)
       /\ imp' = [imp EXCEPT !.pc = "install", !.at = k, !.work = Delete(@, {k}),
                             !.range = ManifestEpoch(k).first]
  /\ Stays
EpochError ==
  /\ Polled /\ imp.at \in DOMAIN imp.work /\ imp.work[imp.at] = "failed"
  /\ imp' = Ends("error")
  /\ Stays

\* install_rows: one transaction for each range, on one blocking thread that the
\* stop does not reach.  After the last one the epoch gives its bytes back.
\* (KeepsBudget: a mutant that gives nothing back.)
Row(i) ==
  LET e == ImportedRows(imp.manifest, ManifestEpoch(imp.at))[i - ManifestEpoch(imp.at).first + 1]
  IN  [start_height |-> e.start_height, end_height |-> e.end_height, end_hash |-> e.end_hash,
       end_tree_sizes |-> e.end_tree_sizes, frontiers |-> e.frontiers,
       epoch_end |-> e.epoch_end, state |-> "Verified"]
KeepsBudget ==
  [imp EXCEPT !.pc = "run", !.at = @ + 1, !.report = imp.manifest[imp.range].end_height]
EpochInstalled ==
  [imp EXCEPT !.pc = "run", !.at = @ + 1, !.budget = @ - BlobBytes(imp.at),
              !.report = imp.manifest[imp.range].end_height]
InstallRange ==
  /\ imp.pc = "install"
  /\ Install(imp.manifest[imp.range].start_height, Blob(imp.manifest[imp.range]), Row(imp.range))
  /\ imp' = IF imp.range = ManifestEpoch(imp.at).last THEN EpochInstalled
            ELSE [imp EXCEPT !.range = @ + 1]
  /\ UNCHANGED <<node_tip, shown, stop, imports, faults>>

\* The end of the stream: after the last epoch, or at the stop signal.
EndImport ==
  /\ imp.pc = "run" /\ (stop \/ imp.at > LastEpoch)
  /\ imp' = Ends(IF imp.at > LastEpoch THEN "done" ELSE "stopped")
  /\ Stays

-----------------------------------------------------------------------------
(* The daemon and the node *)

SetStop ==
  /\ imp.pc \in {"tip", "run", "install"} /\ ~stop
  /\ stop' = TRUE
  /\ UNCHANGED <<vars, node_tip, shown, imp, imports, faults>>

\* The next start of the daemon.
Restart ==
  /\ imp.pc = "ended"
  /\ imp' = NoImport /\ stop' = FALSE
  /\ UNCHANGED <<vars, node_tip, shown, imports, faults>>
Crash ==
  /\ imp.pc \notin {"idle", "ended"} /\ faults < MaxFaults
  /\ faults' = faults + 1
  /\ imp' = NoImport /\ stop' = FALSE
  /\ UNCHANGED <<vars, node_tip, shown, imports>>

NodeMoves(b) ==
  /\ Height[b] >= Height[node_tip] /\ b # node_tip
  /\ node_tip' = b /\ shown' = shown \cup {b}
  /\ UNCHANGED <<vars, imp, stop, imports, faults>>

\* The tail after an import, or the index of the embedded mode before it: the next
\* block of the node.
IndexTail ==
  /\ imp.pc = "idle" /\ (sealed # None \/ ModeSwitch)
  /\ tip.height < Height[node_tip]
  /\ tip # NoTip => OnNodeChain(tip.hash)
  /\ AppendBatch(state.generation, <<Chain(node_tip)[tip.height + 1]>>,
                 IF Height[node_tip] >= SEAL_DEPTH THEN Height[node_tip] - SEAL_DEPTH ELSE None)
  /\ UNCHANGED importer_vars

-----------------------------------------------------------------------------

ImporterInit ==
  /\ Init
  /\ node_tip \in Tips /\ shown = {node_tip}
  /\ imp = NoImport /\ stop = FALSE
  /\ imports = 0 /\ faults = 0

EpochStep(k) == Fetched(k) \/ TakePermit(k) \/ Verified(k) \/ AttestAndSample(k)
RunStep ==
  \/ ContinueAtSealedTip \/ AdmitEpoch \/ TakeEpoch \/ EpochError
  \/ InstallRange \/ EndImport \/ \E k \in DOMAIN imp.work : EpochStep(k)

ImporterNext ==
  \/ \E b \in {b \in Block : (Height[b] + 1) % RANGE_SIZE = 0} : StartImport(b)
  \/ RunStep
  \/ \E k \in DOMAIN imp.work : EpochFails(k)
  \/ SetStop \/ Restart \/ Crash \/ IndexTail
  \/ \E b \in Tips : NodeMoves(b)

ImporterSpec == ImporterInit /\ [][ImporterNext]_<<vars, importer_vars>>

\* The tasks of the import run, and each call to the source and the node ends with
\* an answer or an error (their timeouts).
ImporterLiveSpec == ImporterSpec /\ WF_<<vars, importer_vars>>(RunStep)

-----------------------------------------------------------------------------
(* Properties *)

\* The byte budget: the epochs from their fetch to their install hold at most
\* MAX_BLOB_BYTES_BEFORE_INSTALL bytes, or one epoch that is larger is alone.
InFlight == DOMAIN imp.work \cup (IF imp.pc = "install" THEN {imp.at} ELSE {})
BlobBytesAreBounded ==
  LET length(k) == ManifestEpoch(k).last - ManifestEpoch(k).first + 1
      total[S \in SUBSET InFlight] ==
        IF S = {} THEN 0 ELSE LET k == CHOOSE k \in S : TRUE IN length(k) + total[S \ {k}]
  IN  total[InFlight] <= MAX_BLOB_BYTES \/ Cardinality(InFlight) = 1

\* The index takes each range that the import installs: the epochs come in height
\* order, at the sealed tip, with no mutable row above it, also in an import that
\* continues after a crash or above ranges that the tail sealed.
InstallIsNeverRefused ==
  imp.pc = "install" =>
    LET blob == Blob(imp.manifest[imp.range]) IN
    /\ Height[blob[1]] = sealed + 1
    /\ tip.height = sealed
    /\ Prev[blob[1]] = tip.hash
    /\ \A i \in DOMAIN blob : blob[i] \notin DOMAIN hash_to_height

\* "the importer completes the epoch that it installs" (Importer::run), and an error
\* of an epoch leaves the epochs below it: without a crash, an import ends with the
\* index at the end of an epoch of the manifest, at the report, or where it started.
ImportEndsAtAnEpoch ==
  imp.outcome # "none" /\ imp.manifest # <<>> =>
    /\ sealed = imp.report
    /\ sealed # imp.sealed => \E k \in DOMAIN imp.epochs :
         imp.manifest[imp.epochs[k].last].end_height = sealed
    /\ (imp.outcome = "done" <=> sealed = imp.manifest[Len(imp.manifest)].end_height)

\* A Verified row was attested: its end block was on a best chain of the node.
VerifiedRangesWereAttested ==
  \A s \in DOMAIN range_meta : range_meta[s].state = "Verified" =>
    \E b \in shown : On(range_meta[s].end_hash, b)

\* The rows of several imports from manifests of different lengths, also with a crash
\* inside an epoch between them, have the flags of the epoch rule from genesis: the
\* end of a manifest leaves no epoch end behind that the rule does not set.
RowsKeepTheEpochRule ==
  LET entries == Described(Read(sealed))
      epochs == EpochsOf(entries)
  IN  \A s \in DOMAIN range_meta :
        range_meta[s].epoch_end <=>
          \E k \in DOMAIN epochs :
            /\ entries[epochs[k].last].start_height = s
            /\ epochs[k].closed_by_rule

NoImportRuns == imp.pc # "run"

\* Each import ends: no epoch waits for bytes or permits that a later epoch holds.
ImportsEnd == []<>NoImportRuns

\* What imports leave in the index, over crashes, faults and stops: Verified rows were attested,
\* the rows keep the epoch rule from genesis, an import without a crash ends at the end of an
\* epoch, and the blobs in flight keep to the byte budget.
ImportIsSound ==
  /\ VerifiedRangesWereAttested /\ RowsKeepTheEpochRule
  /\ ImportEndsAtAnEpoch /\ BlobBytesAreBounded
=============================================================================
