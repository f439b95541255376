-------------------------- MODULE RangeMetaFiller --------------------------
(***************************************************************************)
(* The background task that writes a range_meta row for each sealed range  *)
(* that has none (crate ztreamer-replicator), beside the writer of the     *)
(* index and the node.                                                     *)
(*                                                                         *)
(* Each read and each write of the index is one transaction, and each call *)
(* to the node is one step; the writer and the node move between any two   *)
(* of them.  A row carries, beside the fields of Index!RangeMeta, the      *)
(* fields of the manifest entry that the epoch rule and an export read.    *)
(***************************************************************************)
EXTENDS Index, Epochs

CONSTANTS
  Size,           \* Size[b]: the note commitments after block b
  SubtreeSize,    \* commitments in a subtree (2^16 in the code)
  Activation,     \* the height at which a second pool becomes active
  SEAL_DEPTH,     \* a range this far below the visible tip is sealed
  DeepReorgs,     \* when the writer replaces sealed ranges:
                  \* "never", "between passes" or "always"
  MaxFaults       \* bound: the failed passes and restarts of a behaviour

FillerAssumption ==
  /\ Size \in [Block -> Nat]
  /\ SubtreeSize \in Nat \ {0}
  /\ SEAL_DEPTH \in Nat

VARIABLES
  node_tip,   \* the tip of the node's best chain
  notified,   \* a snapshot that the filler has not seen was published
  pc,         \* where the filler is
  covered,    \* the sealed_through of the last complete pass, or NotYet
  pass,       \* the locals of the pass
  faults      \* the failures so far

filler_vars == <<node_tip, notified, pc, covered, pass, faults>>

NotYet == -2
NoPass == [sealed_through |-> None, slots |-> <<>>, epoch |-> NoRanges,
           last |-> GenesisPrev, before |-> 0, subtrees |-> {}]

-----------------------------------------------------------------------------
(* The node: a best chain, and the subtrees that it completed *)

\* The ancestors of a block by height, itself included.
Chain(b) ==
  LET at[h \in 0..Height[b]] == IF h = Height[b] THEN b ELSE Prev[at[h + 1]]
  IN  at

\* A subtree root is known by its index and the block that completed it.
Completed(before, after) == (before \div SubtreeSize)..((after \div SubtreeSize) - 1)
SizeBelow(chain, h) == IF h = 0 THEN 0 ELSE Size[chain[h - 1]]
Subtrees(chain, indices, heights) ==
  {<<i, chain[h]>> : <<i, h>> \in
     {t \in indices \X (heights \cap DOMAIN chain) :
        t[1] \in Completed(SizeBelow(chain, t[2]), Size[chain[t[2]]])}}

Frontiers(h) == IF h < Activation THEN {"sapling"} ELSE {"sapling", "orchard"}

-----------------------------------------------------------------------------
(* The head follower: it writes the node's chain and publishes a snapshot. *)

SealThrough == IF Height[node_tip] >= SEAL_DEPTH THEN Height[node_tip] - SEAL_DEPTH ELSE None
OnNodeChain(b) == Height[b] <= Height[node_tip] /\ Chain(node_tip)[Height[b]] = b
Above(h) == [i \in 1..(Height[node_tip] - h) |-> Chain(node_tip)[h + i]]

WriterAppends ==
  /\ tip # NoTip => OnNodeChain(tip.hash)
  /\ tip.height < Height[node_tip]
  /\ AppendBatch(state.generation, <<Above(tip.height)[1]>>, SealThrough)
  /\ notified' = TRUE
  /\ UNCHANGED <<node_tip, pc, covered, pass, faults>>

\* The highest block that the index and the node have in common.
Common == CHOOSE h \in 0..tip.height :
            /\ OnNodeChain(Read(h))
            /\ h < tip.height => ~OnNodeChain(Read(h + 1))

WriterReplaces ==
  /\ tip # NoTip /\ ~OnNodeChain(tip.hash)
  /\ OnNodeChain(Read(0))
  /\ IF Common >= sealed
     THEN ReplaceMutableSuffix(state.generation, Read(Common), Above(Common), SealThrough)
     ELSE /\ \/ DeepReorgs = "always"
             \/ DeepReorgs = "between passes" /\ pc = "wait"
          /\ ReplaceDeepSuffix(state.generation, Read(Common), Above(Common), SealThrough)
  /\ notified' = TRUE
  /\ UNCHANGED <<node_tip, pc, covered, pass, faults>>

NodeMoves(b) ==
  /\ Height[b] >= Height[node_tip] /\ b # node_tip
  /\ node_tip' = b
  /\ UNCHANGED <<vars, notified, pc, covered, pass, faults>>

\* Each poll publishes a snapshot, also one that changes nothing.
PollPublishes ==
  /\ notified' = TRUE
  /\ UNCHANGED <<vars, node_tip, pc, covered, pass, faults>>

-----------------------------------------------------------------------------
(* The filler *)

\* fill_on_each_snapshot: the end of a pass, and the wait for a new snapshot.
PassEnds(result) ==
  /\ pc' = "wait"
  /\ covered' = result
  /\ pass' = NoPass

\* An error ends the pass; the next snapshot starts it again.
\* (FailedPassCovers: a mutant that takes a failed pass for a complete one.)
FailedPassCovers == sealed
FailedPassResult == covered
PassFails ==
  /\ pc # "wait" /\ faults < MaxFaults
  /\ faults' = faults + 1
  /\ PassEnds(FailedPassResult)
  /\ UNCHANGED <<vars, node_tip, notified>>

NewSnapshot ==
  /\ pc = "wait" /\ notified
  /\ notified' = FALSE
  /\ pc' = "start"
  /\ UNCHANGED <<vars, node_tip, covered, pass, faults>>

\* pass: nothing to do, or a scan.
Skips == covered = sealed
StartPass ==
  /\ pc = "start"
  /\ \/ /\ Skips
        /\ PassEnds(sealed)
     \/ /\ ~Skips
        /\ pc' = "scan"
        /\ pass' = [NoPass EXCEPT !.sealed_through = sealed]
        /\ UNCHANGED covered
  /\ UNCHANGED <<vars, node_tip, notified, faults>>

\* Slot::scan in one transaction, and the start of fill_missing.
NoRow == [epoch_end |-> FALSE, end_tree_sizes |-> None]
Slot(start) ==
  [start |-> start,
   row |-> IF start \in DOMAIN range_meta
           THEN [epoch_end |-> range_meta[start].epoch_end,
                 end_tree_sizes |-> range_meta[start].end_tree_sizes]
           ELSE NoRow]
Scan ==
  /\ pc = "scan"
  /\ pc' = "fill"
  /\ pass' = [pass EXCEPT !.slots =
                [i \in 1..((pass.sealed_through + 1) \div RANGE_SIZE) |->
                   Slot((i - 1) * RANGE_SIZE)]]
  /\ UNCHANGED <<vars, node_tip, notified, covered, faults>>

slot == Head(pass.slots)

\* fill_missing: a range that had a row in the scan only counts in the epoch.
\* (SkipRowUncounted: a mutant that forgets to count it.)
SkipRowUncounted ==
  /\ pc = "fill" /\ pass.slots # <<>> /\ slot.row # NoRow
  /\ pass' = [pass EXCEPT !.slots = Tail(@)]
  /\ UNCHANGED <<vars, node_tip, notified, pc, covered, faults>>
SkipRow ==
  /\ pc = "fill" /\ pass.slots # <<>> /\ slot.row # NoRow
  /\ pass' = [pass EXCEPT !.slots = Tail(@),
                !.epoch = Advance(@, slot.row.epoch_end, slot.row.end_tree_sizes)]
  /\ UNCHANGED <<vars, node_tip, notified, pc, covered, faults>>

Complete ==
  /\ pc = "fill" /\ pass.slots = <<>>
  /\ PassEnds(pass.sealed_through)
  /\ UNCHANGED <<vars, node_tip, notified, faults>>

\* RangeRead::read: the blob in one transaction ...
ReadBlob ==
  /\ pc = "fill" /\ pass.slots # <<>> /\ slot.row = NoRow
  /\ IF slot.start \in DOMAIN sealed_ranges
     THEN /\ pc' = "below"
          /\ pass' = [pass EXCEPT !.last = sealed_ranges[slot.start][RangeEnd(slot.start)]]
          /\ UNCHANGED covered
     ELSE PassEnds(FailedPassResult)
  /\ UNCHANGED <<vars, node_tip, notified, faults>>

\* ... and the record below it in another one.
ReadBelow ==
  /\ pc = "below"
  /\ IF slot.start = 0 \/ Covers(slot.start - 1)
     THEN /\ pc' = "tree"
          /\ pass' = [pass EXCEPT !.before =
                        IF slot.start = 0 THEN 0 ELSE Size[Read(slot.start - 1)]]
          /\ UNCHANGED covered
     ELSE PassEnds(FailedPassResult)
  /\ UNCHANGED <<vars, node_tip, notified, faults>>

\* tree_state by the end hash: an error if the block is not on the best chain.
\* The cache of the backend can answer instead, with the trees of the same hash.
AskTreeState ==
  /\ pc = "tree"
  /\ IF OnNodeChain(pass.last)
     THEN pc' = "subtrees" /\ UNCHANGED <<covered, pass>>
     ELSE PassEnds(FailedPassResult)
  /\ UNCHANGED <<vars, node_tip, notified, faults>>

\* subtree_roots by index: the node answers for its best chain of this moment,
\* and the filler keeps the subtrees that end inside the heights of the range.
AskSubtrees ==
  /\ pc = "subtrees"
  /\ pc' = "put"
  /\ pass' = [pass EXCEPT !.subtrees =
                Subtrees(Chain(node_tip), Completed(pass.before, Size[pass.last]),
                         slot.start..RangeEnd(slot.start))]
  /\ UNCHANGED <<vars, node_tip, notified, covered, faults>>

\* The row, and put_range_meta.
Row ==
  [start_height |-> slot.start, end_height |-> Height[pass.last],
   end_hash |-> pass.last, state |-> "Verified",
   end_tree_sizes |-> Size[pass.last],
   frontiers |-> Frontiers(Height[pass.last]),
   subtree_roots |-> pass.subtrees,
   epoch_end |-> ClosesAt(pass.epoch, Size[pass.last])]

PutRow ==
  /\ pc = "put"
  /\ PutRangeMeta(slot.start, Row)
  /\ pc' = "fill"
  /\ pass' = [pass EXCEPT !.slots = Tail(@),
                !.epoch = Advance(@, Row.epoch_end, Row.end_tree_sizes)]
  /\ UNCHANGED <<node_tip, notified, covered, faults>>

\* The index refuses a row for blocks that it does not hold at the end of the
\* range (Replaced), or a range that is not sealed any more.
HasRange ==
  /\ RangeEnd(slot.start) <= sealed
  /\ pass.last \in DOMAIN hash_to_height
  /\ hash_to_height[pass.last] = RangeEnd(slot.start)
Replaced ==
  /\ pc = "put" /\ ~HasRange
  /\ PassEnds(FailedPassResult)
  /\ UNCHANGED <<vars, node_tip, notified, faults>>

\* The daemon stops or crashes, and starts again: the rows stay, the locals go.
\* A stop waits for the transaction that runs.
Restart ==
  /\ faults < MaxFaults
  /\ faults' = faults + 1
  /\ pc' = "start"
  /\ covered' = NotYet
  /\ pass' = NoPass
  /\ UNCHANGED <<vars, node_tip, notified>>

-----------------------------------------------------------------------------

FillerInit ==
  /\ Init
  /\ node_tip \in {b \in Block : Height[b] = 0}
  /\ notified = FALSE
  /\ pc = "start"
  /\ covered = NotYet
  /\ pass = NoPass
  /\ faults = 0

FillerStep ==
  \/ NewSnapshot \/ StartPass \/ Scan \/ SkipRow \/ Complete
  \/ ReadBlob \/ ReadBelow \/ AskTreeState \/ AskSubtrees \/ PutRow \/ Replaced

FillerNext ==
  \/ WriterAppends
  \/ WriterReplaces
  \/ PollPublishes
  \/ \E b \in Block : NodeMoves(b)
  \/ FillerStep
  \/ PassFails
  \/ Restart

FillerSpec == FillerInit /\ [][FillerNext]_<<vars, filler_vars>>

-----------------------------------------------------------------------------

\* The rows in height order, as list_ranges and export-snapshot read them.
ListedRows ==
  LET starts == {s \in DOMAIN range_meta : range_meta[s].state # "Rejected"}
      nth[i \in 1..Cardinality(starts)] ==
        CHOOSE s \in starts : Cardinality({t \in starts : t < s}) = i - 1
  IN  [i \in 1..Cardinality(starts) |-> range_meta[nth[i]]]

\* A row describes the range that is sealed at its key now, and carries the
\* sizes of that range: what the filler read before a deep reorg is never
\* written over what the reorg sealed.
RowsDescribeTheirRanges ==
  \A s \in DOMAIN range_meta :
    /\ s \in DOMAIN sealed_ranges
    /\ range_meta[s].end_hash = sealed_ranges[s][RangeEnd(s)]
    /\ range_meta[s].end_tree_sizes = Size[sealed_ranges[s][RangeEnd(s)]]

\* The rows from genesis are a manifest that an export and a peer accept: the
\* epoch_end flags agree with the epoch rule, also for rows of several passes
\* with restarts, failures and new ranges between them.
RowsMakeAManifest ==
  0 \in DOMAIN range_meta => IsManifest(FromEntriesToGap(ListedRows), RANGE_SIZE)

\* When the filler waits and has seen every snapshot, and its last pass covered
\* what is sealed now, each sealed range has a row.
EverySealedRangeHasARow ==
  pc = "wait" /\ ~notified /\ covered = sealed =>
    DOMAIN sealed_ranges \subseteq DOMAIN range_meta

\* A row for a range of the node's chain lists the subtrees that the blocks of
\* the range completed, whatever the node and the index were at between the
\* two reads of the index and the call to the node.  It does not hold: the node
\* answers from another branch, and the write compares only the last hash.
SubtreesAreOfTheRange ==
  \A s \in DOMAIN range_meta :
    LET last == sealed_ranges[s][RangeEnd(s)]
    IN  OnNodeChain(last) =>
          range_meta[s].subtree_roots =
            Subtrees(Chain(last), 0..Size[last], s..RangeEnd(s))

\* The tasks of the daemon run, and the follower polls at each tick.
FillerFairness ==
  /\ WF_<<vars, filler_vars>>(FillerStep)
  /\ WF_<<vars, filler_vars>>(PollPublishes)
FillerLiveSpec == FillerSpec /\ FillerFairness

AllRowsAreThere == DOMAIN sealed_ranges \subseteq DOMAIN range_meta

\* After the last failure, restart and write, each sealed range gets its row.
RowsComeEventually == <>[]AllRowsAreThere
=============================================================================
