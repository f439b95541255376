---------------------------- MODULE MCProgress ----------------------------
(***************************************************************************)
(* What must happen in the long run in the parts of the daemon that follow *)
(* the node, on small instances: the head follower, the two catch-ups, the *)
(* metadata filler and the import. Each behaviour is one of one part,      *)
(* which the initial state chooses, and the variables of the other parts   *)
(* stay.                                                                   *)
(***************************************************************************)
EXTENDS Integers, Sequences

CONSTANT NoBlock

VARIABLES
  part,
  \* of Index, in HeadFollower, RangeMetaFiller and Importer
  sealed_ranges, mutable_blocks, hash_to_height, range_meta, state,
  \* of HeadFollower
  node, snapshot, attempt, reader, answered, budget,
  \* of Pipeline
  next, worker, bytes, pending, next_height, coordinator, queue, writer, stop, result,
  \* of RemoteTail
  tail_node, tail_moves, tail_faults, tail_stop, chain, tail_pass, tail_next, tail_worker,
  parsed, seen,
  \* of RangeMetaFiller
  notified, pc, covered, pass,
  \* of Importer
  shown, imp, import_stop, imports,
  \* of RangeMetaFiller and Importer
  node_tip,
  \* of Pipeline, RangeMetaFiller and Importer
  faults

indexVars == <<sealed_ranges, mutable_blocks, hash_to_height, range_meta, state>>
headVars == <<node, snapshot, attempt, reader, answered, budget>>
pipeVars == <<next, worker, bytes, pending, next_height, coordinator, queue, writer, stop,
              result>>
tailVars == <<tail_node, tail_moves, tail_faults, tail_stop, chain, tail_pass, tail_next,
              tail_worker, parsed, seen>>
fillVars == <<notified, pc, covered, pass>>
importVars == <<shown, imp, import_stop, imports>>
tipVars == <<node_tip>>
faultVars == <<faults>>

-----------------------------------------------------------------------------
(* HeadFollower: branch "a" is the chain from genesis, branch "b" forks    *)
(* off deep and branch "c" near the head.  The node extends its chain, or  *)
(* leaves branch "a" for a chain at least as long as its own.              *)

Fork == [a |-> -1, b |-> 0, c |-> 3]
HeadBlock == UNION {{<<h, x>> : h \in (Fork[x] + 1)..5} : x \in DOMAIN Fork}
HeadHeight == [b \in HeadBlock |-> b[1]]
HeadPrev == [b \in HeadBlock |->
               IF b[1] = 0 THEN "none"
               ELSE IF b[1] - 1 > Fork[b[2]] THEN <<b[1] - 1, b[2]>>
               ELSE <<b[1] - 1, "a">>]
ForwardMove ==
  {m \in HeadBlock \X HeadBlock : m[2][1] >= m[1][1] /\ m[1] # m[2]
                                  /\ (m[1][2] = "a" \/ m[1][2] = m[2][2])}

Follower == INSTANCE HeadFollower
  WITH Block <- HeadBlock, Height <- HeadHeight, Prev <- HeadPrev, GenesisPrev <- "none",
       Segments <- {}, Metas <- {}, NoBlock <- NoBlock, InitNodes <- {<<4, "a">>},
       Moves <- ForwardMove, RANGE_SIZE <- 2, MaxGeneration <- 20, PERSIST_DEPTH <- 2,
       SEAL_DEPTH <- 3, MAX_BLOCK_REORG_HEIGHT <- 6, MaxBatch <- 1, MaxMoves <- 2,
       MaxFailures <- 1, MaxRestarts <- 1, MaxRequests <- 0

-----------------------------------------------------------------------------
(* Pipeline: two workers that wait for the budget.                         *)

PipeSize == [h \in 1..6 |-> IF h % 3 = 1 THEN 2 ELSE 1]
Bulk == INSTANCE Pipeline
  WITH Worker <- {"w1", "w2"}, Start <- 1, Target <- 6, source_segment_blocks <- 2,
       max_batch_bytes <- 2, max_pending_bytes <- 5, MAX_RECORD_BYTES <- 2, RANGE_SIZE <- 3,
       Faults <- {"Source", "Panic", "Parent", "Write"}, CanStop <- TRUE, Size <- PipeSize,
       budget <- bytes

-----------------------------------------------------------------------------
(* RemoteTail: two branches that part above block 1; the node moves twice. *)

OneBranch == <<"g", "a1", "a2", "a3", "a4">>
OtherBranch == <<"g", "a1", "b2", "b3", "b4", "b5">>
Remote == INSTANCE RemoteTail
  WITH Nodes <- {SubSeq(OneBranch, 1, 4), OneBranch, SubSeq(OtherBranch, 1, 5), OtherBranch},
       Old <- <<"g">>, TooLarge <- {"b4"}, Worker <- {"w1", "w2"}, source_segment_blocks <- 2,
       requests_in_flight <- 2, SEAL_DEPTH <- 1, MaxMoves <- 2, MaxFaults <- 0,
       CanStop <- FALSE, node <- tail_node, moves <- tail_moves, faults <- tail_faults,
       stop <- tail_stop, pass <- tail_pass, next <- tail_next, worker <- tail_worker

-----------------------------------------------------------------------------
(* RangeMetaFiller and Importer: branch "a" from genesis and branch "b"    *)
(* from height fork on.  The filler gets no deep reorganization; the epoch *)
(* of the import is larger than the byte budget.                           *)

Tree(fork) == {<<h, "a">> : h \in 0..5} \cup {<<h, "b">> : h \in (fork + 1)..5}
TreeHeight(fork) == [b \in Tree(fork) |-> b[1]]
TreePrev(fork) ==
  [b \in Tree(fork) |->
     IF b[1] = 0 THEN "none"
     ELSE IF b[2] = "b" /\ b[1] - 1 > fork THEN <<b[1] - 1, "b">>
     ELSE <<b[1] - 1, "a">>]
TreeSize(fork, jump) == [b \in Tree(fork) |-> IF b[2] = "a" THEN b[1] ELSE fork + jump]

FillBlock == Tree(3)
FillHeight == TreeHeight(3)
FillPrev == TreePrev(3)
FillSize == TreeSize(3, 4)
Filler == INSTANCE RangeMetaFiller
  WITH Block <- FillBlock, Height <- FillHeight, Prev <- FillPrev, Size <- FillSize,
       GenesisPrev <- "none", Segments <- {}, Metas <- {}, RANGE_SIZE <- 2, MAX_RANGES <- 3,
       MAX_COMMITMENTS <- 5, SubtreeSize <- 2, Activation <- 2, SEAL_DEPTH <- 1,
       DeepReorgs <- "never", MaxGeneration <- 7, MaxFaults <- 2

ImportBlock == Tree(1)
ImportHeight == TreeHeight(1)
ImportPrev == TreePrev(1)
ImportSize == TreeSize(1, 0)
Import == INSTANCE Importer
  WITH Block <- ImportBlock, Height <- ImportHeight, Prev <- ImportPrev, Size <- ImportSize,
       Tips <- {<<2, "a">>, <<5, "a">>, <<5, "b">>}, GenesisPrev <- "none", Segments <- {},
       Metas <- {}, RANGE_SIZE <- 1, MaxGeneration <- 12, MAX_RANGES <- 2,
       MAX_COMMITMENTS <- 4, SEAL_DEPTH <- 1, Workers <- 1, MAX_BLOB_BYTES <- 1,
       ModeSwitch <- FALSE, MaxFaults <- 1, MaxImports <- 1, stop <- import_stop

ASSUME PartAssumptions ==
  /\ Remote!TailBounds /\ Filler!FillerAssumption /\ Import!ImporterAssumption

-----------------------------------------------------------------------------

NoIndex ==
  /\ sealed_ranges = 0 /\ mutable_blocks = 0 /\ hash_to_height = 0 /\ range_meta = 0
  /\ state = 0
NoHead ==
  /\ node = 0 /\ snapshot = 0 /\ attempt = 0 /\ reader = 0 /\ answered = 0 /\ budget = 0
NoPipe ==
  /\ next = 0 /\ worker = 0 /\ bytes = 0 /\ pending = 0 /\ next_height = 0
  /\ coordinator = 0 /\ queue = 0 /\ writer = 0 /\ stop = 0 /\ result = 0
NoTail ==
  /\ tail_node = 0 /\ tail_moves = 0 /\ tail_faults = 0 /\ tail_stop = 0 /\ chain = 0
  /\ tail_pass = 0 /\ tail_next = 0 /\ tail_worker = 0 /\ parsed = 0 /\ seen = 0
NoFill ==
  /\ notified = 0 /\ pc = 0 /\ covered = 0 /\ pass = 0
NoImport ==
  /\ shown = 0 /\ imp = 0 /\ import_stop = 0 /\ imports = 0
NoTip ==
  /\ node_tip = 0
NoFault ==
  /\ faults = 0

ProgressInit ==
  \/ part = "follower" /\ Follower!HeadInit
        /\ NoPipe /\ NoTail /\ NoFill /\ NoImport /\ NoTip /\ NoFault
  \/ part = "pipeline" /\ Bulk!PipeInit
        /\ NoIndex /\ NoHead /\ NoTail /\ NoFill /\ NoImport /\ NoTip
  \/ part = "tail" /\ Remote!Init
        /\ NoIndex /\ NoHead /\ NoPipe /\ NoFill /\ NoImport /\ NoTip /\ NoFault
  \/ part = "filler" /\ Filler!FillerInit /\ NoHead /\ NoPipe /\ NoTail /\ NoImport
  \/ part = "import" /\ Import!ImporterInit /\ NoHead /\ NoPipe /\ NoTail /\ NoFill

ProgressNext ==
  \/ part = "follower" /\ Follower!HeadNext
     /\ UNCHANGED <<part, pipeVars, tailVars, fillVars, importVars, tipVars, faultVars>>
  \/ part = "pipeline" /\ Bulk!PipeNext
     /\ UNCHANGED <<part, indexVars, headVars, tailVars, fillVars, importVars, tipVars>>
  \/ part = "tail" /\ Remote!Next
     /\ UNCHANGED <<part, indexVars, headVars, pipeVars, fillVars, importVars, tipVars, faultVars>>
  \/ part = "filler" /\ Filler!FillerNext
     /\ UNCHANGED <<part, headVars, pipeVars, tailVars, importVars>>
  \/ part = "import" /\ Import!ImporterNext
     /\ UNCHANGED <<part, headVars, pipeVars, tailVars, fillVars>>

\* The fairness of each part is the one that its module states.
ProgressSpec ==
  /\ ProgressInit /\ [][ProgressNext]_<<part, indexVars, headVars, pipeVars, tailVars,
                                        fillVars, importVars, tipVars, faultVars>>
  /\ WF_<<indexVars, headVars>>(part = "follower" /\ Follower!FollowerStep)
  /\ \A w \in {"w1", "w2"} :
       /\ WF_<<pipeVars, faultVars>>(part = "pipeline" /\ Bulk!WorkerStep(w))
       /\ WF_tailVars(part = "tail" /\ Remote!WorkerStep(w))
       /\ WF_tailVars(part = "tail" /\ Remote!Answers(w))
  /\ WF_<<pipeVars, faultVars>>(part = "pipeline" /\ Bulk!CoordinatorStep)
  /\ WF_<<pipeVars, faultVars>>(part = "pipeline" /\ Bulk!WriterStep)
  /\ WF_<<pipeVars, faultVars>>(part = "pipeline" /\ Bulk!Return)
  /\ WF_tailVars(part = "tail" /\ Remote!Plan)
  /\ WF_tailVars(part = "tail" /\ Remote!Write)
  /\ WF_tailVars(part = "tail" /\ Remote!EndPass)
  /\ WF_<<indexVars, fillVars, tipVars, faultVars>>(part = "filler" /\ Filler!FillerStep)
  /\ WF_<<indexVars, fillVars, tipVars, faultVars>>(part = "filler" /\ Filler!PollPublishes)
  /\ WF_<<indexVars, importVars, tipVars, faultVars>>(part = "import" /\ Import!RunStep)

-----------------------------------------------------------------------------
(* The properties of the parts *)

\* HeadFollower: after the last move of the node the snapshot is ready and ends at its tip.
FollowsHead == <>[](part = "follower" => Follower!ServesTheHead)
\* Pipeline and RemoteTail: no pass waits for ever, whatever fails and whenever it is
\* stopped, and the catch-up from a remote node ends once the node keeps its best chain.
CatchUpEnds ==
  /\ <>[](part = "pipeline" => Bulk!PassIsOver)
  /\ <>[](part = "tail" => Remote!SyncIsOver)
\* RangeMetaFiller: after the last failure, restart and write, each sealed range gets its
\* row; and whenever the filler waits with nothing to see, each sealed range has one.
RowsComeEventually ==
  /\ <>[](part = "filler" => Filler!AllRowsAreThere)
  /\ [](part = "filler" => Filler!EverySealedRangeHasARow)
\* Importer: an import ends, also when an epoch is larger than the byte budget.
ImportsEnd == []<>(part = "import" => Import!NoImportRuns)
=============================================================================
