----------------------------- MODULE EpochProof -----------------------------
(***************************************************************************)
(* The verification of one epoch of an import (crate ztreamer-import):     *)
(* RangeBlob::check_with and EpochProof::rebuild_ranges on the blobs, then *)
(* EpochProof::attest and SamplePlan::sample against the node, which can   *)
(* move between any two calls.                                             *)
(*                                                                         *)
(* A note commitment tree is the sequence of its leaves, and so are its    *)
(* frontier, its root and the root of a subtree: two trees have the same   *)
(* root exactly if they have the same leaves.  A record has the fields     *)
(* that the checks read, and `rest` for the fields that no root commits    *)
(* to.  A source gives any leaves, with entries that agree with them, and  *)
(* up to one more field that is wrong.                                     *)
(***************************************************************************)
EXTENDS Integers, Sequences, FiniteSets

CONSTANTS
  Pool,           \* the shielded pools
  Ranges,         \* ranges of the epoch
  RANGE_SIZE,     \* records in a range
  SubtreeSize,    \* leaves in a subtree (2^16 in the code)
  PER_RANGE,      \* heights that a sample compares in each range
  Branch,         \* the branches that the node can be on
  Truth,          \* Truth[x][j][pool]: the leaves of the jth block of the epoch on x
  Active,         \* Active[pool]: the first block of the epoch with the pool active
  Before,         \* Before[pool]: the leaves before an epoch that is not the first
  Contents,       \* bound: the leaves that a source gives, as in Truth
  Damages         \* bound: the wrong fields, <<kind, position>>

N == Ranges * RANGE_SIZE

ProofAssumption ==
  /\ Ranges \in Nat \ {0} /\ RANGE_SIZE \in Nat \ {0} /\ SubtreeSize \in Nat \ {0}
  /\ Active \in [Pool -> Nat] /\ PER_RANGE \in Nat

VARIABLES
  src,      \* the source: its branch, content, damage and form of an empty frontier
  first,    \* the epoch starts at genesis
  node,     \* the branch of the node
  moves,    \* the node moved
  pc,       \* "rebuild", "attest", "joined", "accepted" or "rejected"
  range,    \* the next range of the rebuild
  asked,    \* the node calls of attest that are done
  sampled   \* the heights that are compared

vars == <<src, first, node, moves, pc, range, asked, sampled>>

-----------------------------------------------------------------------------
(* Chains and trees *)

Start == [pool \in Pool |-> IF first THEN <<>> ELSE Before[pool]]

\* Trees::append for the records 1..j.
Leaves(content, start, j) ==
  [pool \in Pool |->
     LET upto[i \in 0..N] == IF i = 0 THEN start[pool] ELSE upto[i - 1] \o content[i][pool]
     IN  upto[j]]
Sizes(trees) == [pool \in Pool |-> Len(trees[pool])]

\* The subtrees that a tree completed with the leaves after the first `before`.
Completed(trees, before) ==
  {<<pool, i, SubSeq(trees[pool], i * SubtreeSize + 1, (i + 1) * SubtreeSize)>> :
     <<pool, i>> \in {p \in Pool \X (0..N) :
       /\ (p[2] + 1) * SubtreeSize <= Len(trees[p[1]])
       /\ (p[2] + 1) * SubtreeSize > before[p[1]]}}

Hash(x, j) == IF j = 0 THEN <<"before", 0>> ELSE <<x, j>>
Record(x, content, start, j) ==
  [height |-> j, hash |-> Hash(x, j), previous_hash |-> Hash(x, j - 1),
   leaves |-> content[j], end_tree_sizes |-> Sizes(Leaves(content, start, j)), rest |-> "full"]

\* A frontier of a pool that is not active is empty, or has the form of an
\* empty tree.
Frontier(content, start, j) ==
  [pool \in Pool |->
     [active |-> src.empty_form \/ j >= Active[pool] \/ Leaves(content, start, j)[pool] # <<>>,
      leaves |-> Leaves(content, start, j)[pool]]]

-----------------------------------------------------------------------------
(* The source: records, entries and the entry before the epoch *)

Damaged(kind, at) == src.damage = <<kind, at>>
Other == "other"

\* A wrong start frontier has other leaves and the same sizes.
SourceStart ==
  IF Damaged("start", 0) THEN [pool \in Pool |-> [i \in DOMAIN Start[pool] |-> Other]] ELSE Start

\* The sizes of the link: RangeLink::from the entry before, or RangeLink::GENESIS.
LinkSizes == [pool \in Pool |-> Len(SourceStart[pool]) + IF Damaged("start_sizes", 0) THEN 1 ELSE 0]

SourceRecord(j) ==
  LET r == Record(src.branch, src.content, Start, j) IN
  [r EXCEPT !.height = IF Damaged("height", j) THEN @ + 1 ELSE @,
            !.previous_hash = IF Damaged("link", j) THEN Hash(Other, j) ELSE @,
            !.end_tree_sizes = IF Damaged("sizes", j) THEN [p \in Pool |-> @[p] + 1] ELSE @,
            !.rest = IF Damaged("rest", j) THEN Other ELSE @]
Last(i) == i * RANGE_SIZE

Entry(i) ==
  LET trees == Leaves(src.content, SourceStart, Last(i))
      before == Sizes(Leaves(src.content, SourceStart, Last(i - 1)))
      frontier == Frontier(src.content, SourceStart, Last(i))
  IN  [end_hash |-> IF Damaged("end_hash", i) THEN Hash(Other, 1) ELSE Hash(src.branch, Last(i)),
       end_tree_sizes |-> IF Damaged("end_sizes", i) THEN [p \in Pool |-> Len(trees[p]) + 1]
                          ELSE Sizes(trees),
       frontiers |-> IF Damaged("frontier", i)
                     THEN [p \in Pool |-> [active |-> FALSE, leaves |-> <<>>]] ELSE frontier,
       subtree_roots |-> IF Damaged("subtrees", i) THEN {} ELSE Completed(trees, before)]

Reject == pc' = "rejected" /\ UNCHANGED <<src, first, node, moves, range, asked, sampled>>

-----------------------------------------------------------------------------
(* EpochProof::rebuild_ranges *)

\* CheckedRange::check_with and RangeBlob::check_with: the digest, the version, the
\* height, link and additions of each record, and the end of the range.
AddsItsLeaves(r, before) ==
  \A pool \in Pool : r.end_tree_sizes[pool] = before[pool] + Len(r.leaves[pool])
RangeChecks(i) ==
  /\ ~Damaged("bytes", i) /\ ~Damaged("version", i)
  /\ \A j \in (Last(i - 1) + 1)..Last(i) :
       LET r == SourceRecord(j)
           below == IF j = 1 THEN [hash |-> Hash(src.branch, 0), end_tree_sizes |-> LinkSizes]
                    ELSE SourceRecord(j - 1)
       IN  /\ r.height = j
           /\ r.previous_hash = below.hash
           /\ AddsItsLeaves(r, below.end_tree_sizes)
  /\ SourceRecord(Last(i)).hash = Entry(i).end_hash
  /\ SourceRecord(Last(i)).end_tree_sizes = Entry(i).end_tree_sizes

\* Frontiers::follows.
Follows(frontiers, before) ==
  \A pool \in Pool : before[pool].active => frontiers[pool].active
\* Trees::matches.
\* (MatchesActive: a mutant that has no rule for an empty frontier.)
MatchesActive(trees, frontiers) ==
  \A pool \in Pool : frontiers[pool].active /\ frontiers[pool].leaves = trees[pool]
Matches(trees, frontiers) ==
  \A pool \in Pool : IF frontiers[pool].active THEN frontiers[pool].leaves = trees[pool]
                                               ELSE trees[pool] = <<>>

Trees(i) == Leaves(src.content, SourceStart, Last(i))

\* The start frontier (Trees::have_sizes), and one range of the loop.
RebuildRange(i) ==
  /\ i = 1 => Sizes(SourceStart) = LinkSizes
  /\ RangeChecks(i)
  /\ Follows(Entry(i).frontiers, IF i = 1 THEN Frontier(src.content, SourceStart, 0)
                                 ELSE Entry(i - 1).frontiers)
  /\ Matches(Trees(i), Entry(i).frontiers)
  /\ Completed(Trees(i), Sizes(Trees(i - 1))) = Entry(i).subtree_roots

Rebuild ==
  /\ pc = "rebuild"
  /\ IF RebuildRange(range)
     THEN /\ range' = range + 1
          /\ pc' = IF range = Ranges THEN "attest" ELSE pc
          /\ UNCHANGED <<src, first, node, moves, asked, sampled>>
     ELSE Reject

-----------------------------------------------------------------------------
(* EpochProof::attest and SamplePlan::sample, at the same time *)

NodeTrees(x, j) == Leaves(Truth[x], Start, j)
\* The node gives no root for a pool that is not active.
NodeGivesRoot(pool, j) == j >= Active[pool]

\* The end hash of each entry, in order.
AttestHash ==
  /\ pc = "attest" /\ asked < Ranges
  /\ IF Hash(node, Last(asked + 1)) = Entry(asked + 1).end_hash
     THEN asked' = asked + 1 /\ UNCHANGED <<src, first, node, moves, pc, range, sampled>>
     ELSE Reject

\* The roots at the end of the epoch: EpochProof::matches_roots.
\* (AnyRoots: a mutant that accepts each answer.)
AnyRoots == TRUE
MatchesRoots ==
  \A pool \in Pool :
    IF NodeGivesRoot(pool, N) THEN NodeTrees(node, N)[pool] = Trees(Ranges)[pool]
                              ELSE Trees(Ranges)[pool] = <<>>
AttestRoots ==
  /\ pc = "attest" /\ asked = Ranges
  /\ IF MatchesRoots
     THEN asked' = asked + 1 /\ UNCHANGED <<src, first, node, moves, pc, range, sampled>>
     ELSE Reject

\* attest_subtrees: the subtrees that the epoch completed, by their index.
AttestSubtrees ==
  /\ pc = "attest" /\ asked = Ranges + 1
  /\ IF Completed(Trees(Ranges), Sizes(SourceStart)) \subseteq
          Completed(NodeTrees(node, N), [pool \in Pool |-> 0])
     THEN asked' = asked + 1 /\ UNCHANGED <<src, first, node, moves, pc, range, sampled>>
     ELSE Reject

\* SamplePlan::offsets picks PER_RANGE heights of each range, in ascending order; the
\* seed is secret, so each choice is possible.  One height: the record against the full
\* block of the node, with the sizes before it from the record.
PerRange == IF PER_RANGE < RANGE_SIZE THEN PER_RANGE ELSE RANGE_SIZE
RangeOf(j) == (j - 1) \div RANGE_SIZE + 1
Picks(j) ==
  LET picked(i) == Cardinality({k \in sampled : RangeOf(k) = i}) IN
  /\ \A k \in sampled : k < j
  /\ \A i \in 1..(RangeOf(j) - 1) : picked(i) = PerRange
  /\ PerRange - picked(RangeOf(j)) \in 1..(Last(RangeOf(j)) - j + 1)
Sample(j) ==
  /\ pc = "attest" /\ Picks(j)
  /\ IF SourceRecord(j) = [Record(node, Truth[node], Start, j) EXCEPT
                             !.end_tree_sizes = SourceRecord(j).end_tree_sizes]
     THEN sampled' = sampled \cup {j} /\ UNCHANGED <<src, first, node, moves, pc, range, asked>>
     ELSE Reject

\* Both are complete: the rows are Verified.
Join ==
  /\ pc = "attest" /\ asked = Ranges + 2
  /\ Cardinality(sampled) = Ranges * PerRange
  /\ pc' = "accepted"
  /\ UNCHANGED <<src, first, node, moves, range, asked, sampled>>

NodeMoves ==
  /\ pc = "attest" /\ ~moves
  /\ node' \in Branch \ {node} /\ moves' = TRUE
  /\ UNCHANGED <<src, first, pc, range, asked, sampled>>

-----------------------------------------------------------------------------

Init ==
  /\ src \in [branch : Branch, content : Contents, damage : Damages, empty_form : BOOLEAN]
  /\ first \in BOOLEAN
  /\ node \in Branch /\ moves = FALSE
  /\ pc = "rebuild" /\ range = 1 /\ asked = 0 /\ sampled = {}

Verify ==
  \/ Rebuild \/ AttestHash \/ AttestRoots \/ AttestSubtrees \/ Join
  \/ \E j \in 1..N : Sample(j)
Next == Verify \/ NodeMoves

\* The node answers each call.
Spec == Init /\ [][Next]_vars /\ WF_vars(Verify)

-----------------------------------------------------------------------------
(* Properties *)

SeenBranches == IF moves THEN Branch ELSE {node}

\* What an accepted epoch proves (module docs of proof and sample): on a branch that
\* the node was on, the trees after the epoch are the node's, each range ends at a
\* block of the node, and a sampled record is the node's in each field.  This holds
\* whatever the source gives, also for a wrong start frontier, which only the
\* manifest gives for the first epoch of an import.
AcceptedEpochIsTheNodes ==
  pc = "accepted" =>
    /\ \E x \in SeenBranches : NodeTrees(x, N) = Trees(Ranges)
    /\ \A i \in 1..Ranges : \E x \in SeenBranches : Entry(i).end_hash = Hash(x, Last(i))
    /\ \A j \in sampled : SourceRecord(j).rest = "full"

\* What the index takes from an accepted epoch beside the records: each row has the
\* sizes, the frontiers and the subtrees of the trees that its own records build, so a
\* wrong field of one entry is found although the node is asked only at the end of the
\* epoch.
AcceptedRowsAgreeWithTheirRecords ==
  pc = "accepted" =>
    \A i \in 1..Ranges :
      LET trees == Leaves(src.content, Start, Last(i)) IN
      /\ Entry(i).end_tree_sizes = Sizes(trees)
      /\ \A pool \in Pool : Entry(i).frontiers[pool].active \/ trees[pool] = <<>>
      /\ Entry(i).subtree_roots =
           Completed(trees, Sizes(Leaves(src.content, Start, Last(i - 1))))

Settled ==
  src.content = Truth[node] /\ src.branch = node /\ src.damage = <<"none", 0>> /\ ~moves
    => pc = "accepted"

\* The epoch of a source that gives the blocks of the node is accepted, also where a
\* pool becomes active inside the epoch, and in both forms of an empty frontier.
HonestEpochIsAccepted == <>[]Settled

\* An epoch that the verification accepts, from any source and while the node changes its chain:
\* its trees, ends and samples are the node's, and each row agrees with its own records.
AcceptedEpochIsSound == AcceptedEpochIsTheNodes /\ AcceptedRowsAgreeWithTheirRecords
=============================================================================
