------------------------------- MODULE Epochs -------------------------------
(***************************************************************************)
(* Verification epochs and the rules of a manifest (crate                  *)
(* ztreamer-snapshot), and the epoch count of the range metadata filler.   *)
(*                                                                         *)
(* An entry describes one sealed range: start_height, end_height, the note *)
(* commitments of all pools at its end (end_tree_sizes), the pools that    *)
(* are active at its end (frontiers), and epoch_end.                       *)
(***************************************************************************)
EXTENDS Integers, Sequences

CONSTANTS
  MAX_RANGES,       \* the ranges that close an epoch (10 in the code)
  MAX_COMMITMENTS   \* the added commitments that close one (1,000,000)

EpochAssumption == MAX_RANGES \in Nat \ {0} /\ MAX_COMMITMENTS \in Nat \ {0}

Last(s) == s[Len(s)]
Monus(a, b) == IF a > b THEN a - b ELSE 0

\* Epoch::rule_closes.
RuleCloses(ranges, commitments) ==
  ranges >= MAX_RANGES \/ commitments >= MAX_COMMITMENTS

-----------------------------------------------------------------------------
(* Epochs: the grouping of the entries of a manifest *)

\* The commitments before entry `start`, and what the entries from there
\* through entry `at` add.
Base(entries, start) == IF start = 1 THEN 0 ELSE entries[start - 1].end_tree_sizes
Added(entries, start, at) == Monus(entries[at].end_tree_sizes, Base(entries, start))
Closes(entries, start, at) == RuleCloses(at - start + 1, Added(entries, start, at))

\* Epochs::next: the epoch that starts at entry `start`.
NextEpoch(entries, start) ==
  LET closing == {at \in start..Len(entries) : Closes(entries, start, at)}
      last == IF closing = {} THEN Len(entries)
              ELSE CHOOSE at \in closing : \A other \in closing : at <= other
  IN  [first |-> start, last |-> last,
       closed_by_rule |-> Closes(entries, start, last)]

\* Epochs::new: the epochs from the first entry on.
EpochsOf(entries) ==
  LET from[start \in 1..(Len(entries) + 1)] ==
        IF start > Len(entries) THEN <<>>
        ELSE LET epoch == NextEpoch(entries, start)
             IN  <<epoch>> \o from[epoch.last + 1]
  IN  from[1]

\* Epoch::part_after: the part of the epoch after the entry that ends at
\* `height`.  NoEpoch when no entry of the epoch is after it, or the height is
\* not the end of an entry.
NoEpoch == [first |-> 0, last |-> 0, closed_by_rule |-> FALSE]
PartFrom(epoch, height, entries) ==
  {at \in epoch.first..epoch.last :
     /\ at > 1 /\ entries[at - 1].end_height = height}
PartAfter(epoch, height, entries) ==
  IF PartFrom(epoch, height, entries) = {} THEN NoEpoch
  ELSE [epoch EXCEPT !.first = CHOOSE at \in PartFrom(epoch, height, entries) : TRUE]

-----------------------------------------------------------------------------
(* Manifest: the rules of Manifest::new *)

\* check_entry: aligned, adjacent from genesis, no tree shrinks, no pool
\* becomes inactive.
EntryFollows(entries, at, range_size) ==
  /\ entries[at].start_height = IF at = 1 THEN 0 ELSE entries[at - 1].end_height + 1
  /\ entries[at].end_height = entries[at].start_height + range_size - 1
  /\ at > 1 => /\ entries[at].end_tree_sizes >= entries[at - 1].end_tree_sizes
               /\ entries[at - 1].frontiers \subseteq entries[at].frontiers

\* check_epoch_ends: epoch_end is set exactly on the last entry of each epoch.
EpochEndsAgree(entries) ==
  LET epochs == EpochsOf(entries)
      ends == {epochs[k].last : k \in DOMAIN epochs}
  IN  \A at \in DOMAIN entries : entries[at].epoch_end <=> at \in ends

\* check_entries.
IsManifest(entries, range_size) ==
  /\ entries # <<>>
  /\ \A at \in DOMAIN entries : EntryFollows(entries, at, range_size)
  /\ EpochEndsAgree(entries)

\* Manifest::from_entries_to_gap: the rows up to the first gap, with epoch_end
\* set on the last one.
GapFree(rows, n) ==
  \A at \in 2..n : rows[at].start_height = rows[at - 1].end_height + 1
GapFreeLen(rows) ==
  CHOOSE n \in 0..Len(rows) :
    /\ GapFree(rows, n)
    /\ n < Len(rows) => ~GapFree(rows, n + 1)
FromEntriesToGap(rows) ==
  [at \in 1..GapFreeLen(rows) |->
     IF at = GapFreeLen(rows) THEN [rows[at] EXCEPT !.epoch_end = TRUE]
                              ELSE rows[at]]

-----------------------------------------------------------------------------
(* The filler's Epoch: the open epoch of the rows below the next range *)

NoRanges == [ranges |-> 0, start_commitments |-> 0]

\* Epoch::closes_at.
ClosesAt(epoch, size) ==
  RuleCloses(epoch.ranges + 1, Monus(size, epoch.start_commitments))

\* Epoch::advance.
Advance(epoch, epoch_end, size) ==
  IF epoch_end THEN [ranges |-> 0, start_commitments |-> size]
               ELSE [epoch EXCEPT !.ranges = @ + 1]

\* The rows that an import of the entries first..last writes for an epoch (or a part
\* of one): the manifest entry, with the flag of the epoch rule.
\* (RowsAsListed: a mutant that keeps the flag of the manifest.)
RowsAsListed(entries, epoch) == SubSeq(entries, epoch.first, epoch.last)
ImportedRows(entries, epoch) ==
  [at \in 1..(epoch.last - epoch.first + 1) |->
     [entries[epoch.first + at - 1] EXCEPT !.epoch_end = @ /\ epoch.closed_by_rule]]
=============================================================================
