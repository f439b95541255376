---------------------------- MODULE MCPublish -----------------------------
(***************************************************************************)
(* What the daemon publishes, on small instances: the rows of range        *)
(* metadata, the manifests of them and the files of a snapshot. Each       *)
(* behaviour is one of one part, which the initial state chooses, and the  *)
(* variables of the other parts stay.                                      *)
(***************************************************************************)
EXTENDS SnapshotExport

VARIABLES
  part,
  \* of RangeMetaFiller and its Index
  sealed_ranges, mutable_blocks, hash_to_height, range_meta, state, node_tip, notified, pc,
  covered, pass, faults,
  \* of EpochRows
  rows, epoch

fillerVars == <<sealed_ranges, mutable_blocks, hash_to_height, range_meta, state, node_tip,
                notified, pc, covered, pass, faults>>
rowsVars == <<rows, epoch>>

-----------------------------------------------------------------------------
(* RangeMetaFiller: two branches, "a" from genesis and "b" from height     *)
(* fork on.  A block of branch "a" adds one commitment, the first block of *)
(* branch "b" adds jump and the others none, so the two branches have      *)
(* other epochs and other subtrees.                                        *)

Tree(top, fork) == {<<h, "a">> : h \in 0..top} \cup {<<h, "b">> : h \in (fork + 1)..top}
TreeHeight(top, fork) == [b \in Tree(top, fork) |-> b[1]]
TreePrev(top, fork) ==
  [b \in Tree(top, fork) |->
     IF b[1] = 0 THEN "none"
     ELSE IF b[2] = "b" /\ b[1] - 1 > fork THEN <<b[1] - 1, "b">>
     ELSE <<b[1] - 1, "a">>]
TreeSize(top, fork, jump) ==
  [b \in Tree(top, fork) |-> IF b[2] = "a" THEN b[1] ELSE fork + jump]

LowFork == Tree(6, 1)
LowForkHeight == TreeHeight(6, 1)
LowForkPrev == TreePrev(6, 1)
LowForkSize == TreeSize(6, 1, 4)

\* A deep reorganization may come at any step of a pass.
Filler == INSTANCE RangeMetaFiller
  WITH Block <- LowFork, Height <- LowForkHeight, Prev <- LowForkPrev, Size <- LowForkSize,
       GenesisPrev <- "none", Segments <- {}, Metas <- {},
       RANGE_SIZE <- 2, MAX_RANGES <- 3, MAX_COMMITMENTS <- 5, SubtreeSize <- 2,
       Activation <- 2, SEAL_DEPTH <- 1, DeepReorgs <- "always", MaxGeneration <- 8,
       MaxFaults <- 1

ZeroFork == Tree(4, 0)
ZeroForkHeight == TreeHeight(4, 0)
ZeroForkPrev == TreePrev(4, 0)
ZeroForkSize == TreeSize(4, 0, 5)

\* Ranges of one block, so that there are several epochs.
Epoch == INSTANCE RangeMetaFiller
  WITH Block <- ZeroFork, Height <- ZeroForkHeight, Prev <- ZeroForkPrev, Size <- ZeroForkSize,
       GenesisPrev <- "none", Segments <- {}, Metas <- {},
       RANGE_SIZE <- 1, MAX_RANGES <- 3, MAX_COMMITMENTS <- 5, SubtreeSize <- 2,
       Activation <- 2, SEAL_DEPTH <- 1, DeepReorgs <- "between passes", MaxGeneration <- 8,
       MaxFaults <- 1

-----------------------------------------------------------------------------
(* EpochRows: up to six rows, with a second pool from the third on.        *)

Counted == INSTANCE EpochRows
  WITH MAX_RANGES <- 3, MAX_COMMITMENTS <- 3, MaxRows <- 6, MaxAdded <- 3, RANGE_SIZE <- 2,
       Activation <- 3


ASSUME PartAssumptions ==
  /\ Filler!FillerAssumption /\ Epoch!FillerAssumption /\ Counted!EpochAssumption

-----------------------------------------------------------------------------

NoFiller ==
  /\ sealed_ranges = 0 /\ mutable_blocks = 0 /\ hash_to_height = 0 /\ range_meta = 0
  /\ state = 0 /\ node_tip = 0 /\ notified = 0 /\ pc = 0 /\ covered = 0 /\ pass = 0
  /\ faults = 0
NoRows ==
  /\ rows = 0 /\ epoch = 0

PublishInit ==
  /\ Init
  /\ \/ part = "export" /\ NoFiller /\ NoRows
     \/ part = "filler" /\ Filler!FillerInit /\ NoRows
     \/ part = "epochs" /\ Epoch!FillerInit /\ NoRows
     \/ part = "rows" /\ Counted!Init /\ NoFiller

PublishNext ==
  \/ part = "export" /\ Next /\ UNCHANGED <<part, fillerVars, rowsVars>>
  \/ part = "filler" /\ Filler!FillerNext
     /\ UNCHANGED <<part, vars, rowsVars>>
  \/ part = "epochs" /\ Epoch!FillerNext
     /\ UNCHANGED <<part, vars, rowsVars>>
  \/ part = "rows" /\ Counted!Next
     /\ UNCHANGED <<part, vars, fillerVars>>

PublishSpec ==
  /\ PublishInit /\ [][PublishNext]_<<part, vars, fillerVars, rowsVars>>

-----------------------------------------------------------------------------
(* The properties of the parts *)

\* RangeMetaFiller: a row describes the range that is sealed at its key now, also after a
\* deep reorganization between any two steps of the filler.
RowsDescribeTheirRanges == part = "filler" => Filler!RowsDescribeTheirRanges
\* RangeMetaFiller and EpochRows: the rows of several passes, and rows that are counted one
\* at a time, are a manifest that an export, a peer and an import group alike.
RowsMakeAManifest ==
  /\ part = "epochs" => Epoch!RowsMakeAManifest
  /\ part = "rows" => Counted!EpochsAgree
=============================================================================
