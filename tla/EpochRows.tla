------------------------------ MODULE EpochRows -----------------------------
(***************************************************************************)
(* The rows of an index that grows range by range, for every sequence of   *)
(* range sizes within the bounds: the filler counts the open epoch row by  *)
(* row, a manifest groups all of them at once, and an import takes the     *)
(* manifest up in the middle of an epoch.                                  *)
(***************************************************************************)
EXTENDS Epochs, TLC

CONSTANTS
  MaxRows,        \* bound: the ranges of a behaviour
  MaxAdded,       \* bound: the commitments that one range adds
  RANGE_SIZE,
  Activation      \* the range at which a second pool becomes active

VARIABLES
  rows,    \* the rows, in height order
  epoch    \* the filler's open epoch

Init == rows = <<>> /\ epoch = NoRanges

\* RangeMetaFiller::fill and the advance of fill_missing.
FillNext(added) ==
  LET at == Len(rows) + 1
      size == added + IF rows = <<>> THEN 0 ELSE Last(rows).end_tree_sizes
      row == [start_height |-> (at - 1) * RANGE_SIZE,
              end_height |-> at * RANGE_SIZE - 1,
              end_tree_sizes |-> size,
              frontiers |-> IF at < Activation THEN {"sapling"} ELSE {"sapling", "orchard"},
              epoch_end |-> ClosesAt(epoch, size)]
  IN  /\ Len(rows) < MaxRows
      /\ rows' = Append(rows, row)
      /\ epoch' = Advance(epoch, row.epoch_end, size)

Next == \E added \in 0..MaxAdded : FillNext(added)
Spec == Init /\ [][Next]_<<rows, epoch>>

-----------------------------------------------------------------------------
Manifest == FromEntriesToGap(rows)

\* The rows that the filler wrote one at a time are always a manifest that
\* Manifest::new accepts: its incremental count and the grouping of Epochs
\* never disagree, at any length of the index.
CountedRowsMakeAManifest == rows # <<>> => IsManifest(Manifest, RANGE_SIZE)

\* The epochs cover the entries once and in order, each has at most
\* MAX_RANGES ranges, every epoch but the last is closed by the rule, and no
\* epoch could have closed earlier.
GroupingIsTheRule ==
  LET epochs == EpochsOf(Manifest)
  IN  rows # <<>> =>
        /\ epochs[1].first = 1 /\ Last(epochs).last = Len(rows)
        /\ \A k \in DOMAIN epochs :
             LET e == epochs[k]
                 before == IF e.first = 1 THEN 0 ELSE rows[e.first - 1].end_tree_sizes
             IN  /\ e.first <= e.last
                 /\ e.last - e.first < MAX_RANGES
                 /\ k > 1 => e.first = epochs[k - 1].last + 1
                 /\ k < Len(epochs) => e.closed_by_rule
                 /\ \A at \in e.first..(e.last - 1) :
                      /\ at - e.first + 1 < MAX_RANGES
                      /\ rows[at].end_tree_sizes - before < MAX_COMMITMENTS

\* An import that starts at any sealed tip, also inside an epoch, writes the
\* rows of the source byte for byte: the flag that the manifest sets on its
\* last entry does not get into the index, so the ranges that the replica
\* seals later continue the epoch of the source.
ImportKeepsTheRows ==
  \A sealed \in {-1} \cup {rows[at].end_height : at \in DOMAIN rows} :
    LET epochs == EpochsOf(Manifest)
        Part(k) == IF sealed = -1 THEN epochs[k] ELSE PartAfter(epochs[k], sealed, Manifest)
        firsts == {k \in DOMAIN epochs : Part(k) # NoEpoch}
        first == CHOOSE k \in firsts : \A other \in firsts : k <= other
        Taken(k) == IF k = first THEN Part(k) ELSE epochs[k]
    IN  /\ firsts # {} <=> sealed < Len(rows) * RANGE_SIZE - 1
        /\ firsts # {} =>
             /\ Part(first).first = (sealed + 1) \div RANGE_SIZE + 1
             /\ \A k \in first..Len(epochs) :
                  ImportedRows(Manifest, Taken(k)) =
                    SubSeq(rows, Taken(k).first, Taken(k).last)

\* A row that is missing below others cuts the manifest at the gap and never
\* makes a manifest of other ranges.
AGapCutsTheManifest ==
  \A gap \in 2..Len(rows) :
    LET listed == SubSeq(rows, 1, gap - 1) \o SubSeq(rows, gap + 1, Len(rows))
    IN  /\ Len(FromEntriesToGap(listed)) = gap - 1
        /\ IsManifest(FromEntriesToGap(listed), RANGE_SIZE)

\* The three places that close an epoch agree: the rows that the filler counts one by one, the
\* grouping of a manifest, and the import that starts anywhere; a missing row cuts the manifest.
EpochsAgree ==
  CountedRowsMakeAManifest /\ GroupingIsTheRule /\ ImportKeepsTheRows /\ AGapCutsTheManifest
=============================================================================
