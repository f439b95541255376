---------------------------- MODULE HeadFollower ----------------------------
(***************************************************************************)
(* The head follower (crate ztreamer-sync, module head): it polls a node   *)
(* whose best chain changes under it, writes the blocks at PERSIST_DEPTH   *)
(* into the index, keeps the newer ones in memory as the volatile head and *)
(* publishes a serving snapshot.                                           *)
(*                                                                         *)
(* Every call to the node is a step of its own, and the node may switch to *)
(* another chain between any two of them.  A call may fail, and the        *)
(* attempt timeout may end an attempt while it waits for a call.  From the *)
(* last call to the publication there is no await, so no timeout falls     *)
(* there; a reader or a crash still can.                                   *)
(***************************************************************************)
EXTENDS Index

CONSTANTS
  PERSIST_DEPTH,           \* a block this far below the visible tip is durable
  SEAL_DEPTH,              \* a range this far below the visible tip is sealed
  MAX_BLOCK_REORG_HEIGHT,  \* the most blocks that one poll reads
  MaxBatch,                \* max_batch_bytes, in blocks
  NoBlock,                 \* the answer None of the node
  InitNodes,               \* the tips that the node can have at the start
  Moves,                   \* <<b, c>>: the node can go from tip b to tip c
  MaxMoves, MaxFailures, MaxRestarts, MaxRequests   \* bounds of the environment

ASSUME DepthAssumption ==
  /\ PERSIST_DEPTH \in Nat /\ SEAL_DEPTH \in Nat
  /\ PERSIST_DEPTH <= SEAL_DEPTH
  /\ MAX_BLOCK_REORG_HEIGHT \in Nat \ {0} /\ MaxBatch \in Nat \ {0}
  /\ NoBlock \notin Block
ASSUME NodeAssumption ==
  InitNodes \subseteq Block /\ Moves \subseteq Block \X Block

VARIABLES
  node,      \* the tip of the best chain of the node
  snapshot,  \* the ServingSnapshot in the watch channel
  attempt,   \* the attempt of follow_head that runs, and its locals
  reader,    \* a snapshot that a request holds while the follower goes on, or NoBlock
  answered,  \* the tip of the node at its last answer in the attempt, or NoBlock
  budget     \* what is left of the bounds of the environment

indexVars == <<sealed_ranges, mutable_blocks, hash_to_height, range_meta, state>>
headVars == <<indexVars, node, snapshot, attempt, reader, answered, budget>>

-----------------------------------------------------------------------------
(* The node *)

\* The chain that ends at a block.
Chain[b \in Block] ==
  IF Prev[b] = GenesisPrev THEN <<b>> ELSE Append(Chain[Prev[b]], b)
OnChain(b, n) == Height[b] <= Height[n] /\ Chain[n][Height[b] + 1] = b

\* CanonicalBlockSource::block and block_hash: the best-chain block at h.
NodeBlock(h) == IF h \in 0..Height[node] THEN Chain[node][h + 1] ELSE NoBlock

\* h - depth, or None (checked_sub).
Below(h, depth) == IF h >= depth THEN h - depth ELSE None
Maximum(i, j) == IF i > j THEN i ELSE j
Minimum(i, j) == IF i < j THEN i ELSE j

-----------------------------------------------------------------------------
(* The serving snapshot *)

\* From<IndexState>.
FromState(s) ==
  [generation |-> s.generation, durable_tip |-> s.durable_tip, volatile_head |-> <<>>,
   ready |-> TRUE, tip_fresh |-> FALSE, succeeded |-> FALSE]

\* with_head: it refuses a head that does not connect to the durable tip.
HeadConnects(durable_tip, head) ==
  \A i \in 1..Len(head) :
    /\ Height[head[i]] = durable_tip.height + i
    /\ Prev[head[i]] = IF i = 1 THEN durable_tip.hash ELSE head[i - 1]
WithHead(s, head) ==
  [FromState(s) EXCEPT !.volatile_head = head, !.tip_fresh = TRUE, !.succeeded = TRUE]

\* visible_tip: the last block of the head, or the durable tip.
VisibleTip(durable_tip, head) ==
  IF head = <<>> THEN durable_tip.hash ELSE head[Len(head)]

\* begin_recovery and mark_source_failure.  The last success is younger than
\* the freshness timeout or not.
Recovering == [snapshot EXCEPT !.ready = FALSE, !.tip_fresh = FALSE]
FailureMarked ==
  {[snapshot EXCEPT !.tip_fresh = fresh] :
     fresh \in IF snapshot.succeeded THEN BOOLEAN ELSE {FALSE}}

\* current_record: what the follower has at height h.
CurrentRecord(h) ==
  LET head == snapshot.volatile_head
      at == {i \in 1..Len(head) : Height[head[i]] = h}
  IN  IF h <= tip.height THEN Read(h)
      ELSE IF at = {} THEN NoBlock ELSE head[CHOOSE i \in at : TRUE]
Records(from, to) == [i \in 1..(to - from + 1) |-> CurrentRecord(from + i - 1)]
OldVisible ==
  LET head == snapshot.volatile_head
  IN  IF head = <<>> THEN tip.height ELSE Height[head[Len(head)]]

-----------------------------------------------------------------------------
(* Attempts *)

\* pc: the call of the attempt that is next.  start and previous_hash are the
\* arguments of poll_canonical_head, lo and hi the borders of a bisection,
\* retained the number of known blocks that are canonical, raw the blocks
\* read, head the volatile head to publish.
Idle == [pc |-> "idle", mode |-> "none", start |-> 0, previous_hash |-> NoBlock,
         lo |-> 0, hi |-> 0, retained |-> 0, raw |-> <<>>, head |-> <<>>]
At(pc) == attempt.pc = pc
Goto(pc) == attempt' = [attempt EXCEPT !.pc = pc]

\* poll_canonical_head from `start`: with a block below start, its anchor
\* check is first.
Poll(mode, start, previous_hash) ==
  [Idle EXCEPT !.pc = IF start > 0 THEN "anchor" ELSE "last",
               !.mode = mode, !.start = start, !.previous_hash = previous_hash]

\* `known`: replace_suffix passes the records it has, as far as they link.
Known ==
  LET records == Records(attempt.start, OldVisible)
      linked == {n \in 0..Len(records) :
                   \A i \in 1..n : Prev[records[i]] = IF i = 1 THEN attempt.previous_hash
                                                               ELSE records[i - 1]}
      count == CHOOSE n \in linked : \A m \in linked : m <= n
  IN  IF attempt.mode = "replace" THEN SubSeq(records, 1, count) ELSE <<>>

UnchangedIndex == UNCHANGED indexVars
\* The node answers a call, and only the attempt goes on.
Call == answered' = node /\ UnchangedIndex /\ UNCHANGED <<node, snapshot, reader, budget>>

\* The attempt returns an error: follow_head marks the failure and waits for
\* the next tick.
Fail ==
  /\ attempt' = Idle
  /\ snapshot' \in FailureMarked
  /\ answered' = NoBlock
  /\ UNCHANGED <<node, reader, budget>>

\* A tick of the interval: sync_head_once with a volatile head asks for the
\* tip, without one it extends the durable tip.
BeginSync ==
  /\ At("idle") /\ snapshot.ready
  /\ attempt' = IF snapshot.volatile_head # <<>> THEN [Idle EXCEPT !.pc = "tip"]
                ELSE Poll("extend", tip.height + 1, tip.hash)
  /\ UnchangedIndex /\ UNCHANGED <<node, snapshot, reader, answered, budget>>

\* A tick while a deep reorg is not recovered yet.
BeginRecovery ==
  /\ At("idle") /\ ~snapshot.ready
  /\ snapshot' = Recovering
  /\ attempt' = [Idle EXCEPT !.pc = "genesis", !.mode = "recover"]
  /\ UnchangedIndex /\ UNCHANGED <<node, reader, answered, budget>>

\* source.tip(): the tip did not change, or replace_suffix starts at the
\* anchor SEAL_DEPTH below the visible tip.
ReadTip ==
  /\ At("tip")
  /\ IF node = snapshot.volatile_head[Len(snapshot.volatile_head)]
     THEN attempt' = [attempt EXCEPT !.pc = "publish", !.head = snapshot.volatile_head]
     ELSE LET anchor == Below(OldVisible, SEAL_DEPTH)
          IN  attempt' = Poll("replace", anchor + 1,
                              IF anchor = None THEN GenesisPrev ELSE CurrentRecord(anchor))
  /\ Call

ReadAnchor ==
  /\ At("anchor")
  /\ NodeBlock(attempt.start - 1) = attempt.previous_hash
  /\ Goto("last")
  /\ Call

\* A changed anchor is a deep reorg: the follower stops new requests and the
\* same attempt recovers.
\* (ServingDeepReorg and FailedDeepReorg: mutants that go on to serve, and that
\* take the error for one of the source.)
AnchorChanged ==
  /\ At("anchor") /\ attempt.mode # "recover"
  /\ NodeBlock(attempt.start - 1) # attempt.previous_hash
ServingDeepReorg ==
  /\ AnchorChanged
  /\ attempt' = [Idle EXCEPT !.pc = "genesis", !.mode = "recover"]
  /\ Call
FailedDeepReorg == AnchorChanged /\ Fail /\ UnchangedIndex
DeepReorg ==
  /\ AnchorChanged
  /\ snapshot' = Recovering
  /\ attempt' = [Idle EXCEPT !.pc = "genesis", !.mode = "recover"]
  /\ answered' = node
  /\ UnchangedIndex /\ UNCHANGED <<node, reader, budget>>

\* The last known hash; with no known block there is nothing to read.
ReadLast ==
  /\ At("last")
  /\ LET known == Known
         n == Len(known)
     IN  IF n = 0 \/ NodeBlock(Height[known[n]]) = known[n]
         THEN attempt' = [attempt EXCEPT !.pc = "blocks", !.retained = n]
         ELSE attempt' = [attempt EXCEPT !.pc = IF n > 1 THEN "bisect" ELSE "blocks",
                                         !.hi = n - 1]
  /\ Call

Bisect ==
  /\ At("bisect")
  /\ LET middle == attempt.lo + ((attempt.hi - attempt.lo) \div 2)
         block == Known[middle + 1]
         same == NodeBlock(Height[block]) = block
         lo == IF same THEN middle + 1 ELSE attempt.lo
         hi == IF same THEN attempt.hi ELSE middle
     IN  attempt' = [attempt EXCEPT !.lo = lo, !.hi = hi, !.retained = lo,
                                    !.pc = IF lo < hi THEN "bisect" ELSE "blocks"]
  /\ Call

\* The block that the poll holds last: read, or retained.  With neither it
\* checks the anchor only.
LastPolled ==
  IF attempt.raw # <<>> THEN attempt.raw[Len(attempt.raw)]
  ELSE IF attempt.retained > 0 THEN Known[attempt.retained] ELSE attempt.previous_hash
NothingPolled == attempt.raw = <<>> /\ attempt.retained = 0
NextBlock == attempt.start + attempt.retained + Len(attempt.raw)

ReadBlock ==
  /\ At("blocks")
  /\ LET block == NodeBlock(NextBlock)
     IN  \/ /\ block = NoBlock
            /\ Goto(IF NothingPolled THEN "write" ELSE "recheck")
         \/ /\ block # NoBlock
            /\ NextBlock - attempt.start # MAX_BLOCK_REORG_HEIGHT
            /\ Prev[block] = LastPolled
            /\ attempt' = [attempt EXCEPT !.raw = Append(@, block)]
  /\ Call

\* The last height must have the same hash after the reads.
\* (UncheckedRecheck: a mutant without the check.)
UncheckedRecheck ==
  /\ At("recheck")
  /\ Goto("write")
  /\ Call
Recheck ==
  /\ At("recheck")
  /\ NodeBlock(Height[LastPolled]) = LastPolled
  /\ Goto("write")
  /\ Call

\* Window, Parent, Changed, and in a recovery Anchor: the attempt fails.
PollFails ==
  /\ \/ /\ At("blocks") /\ NodeBlock(NextBlock) # NoBlock
        /\ \/ NextBlock - attempt.start = MAX_BLOCK_REORG_HEIGHT
           \/ Prev[NodeBlock(NextBlock)] # LastPolled
     \/ At("recheck") /\ NodeBlock(Height[LastPolled]) # LastPolled
     \/ /\ At("anchor") /\ attempt.mode = "recover"
        /\ NodeBlock(attempt.start - 1) # attempt.previous_hash
  /\ Fail /\ UnchangedIndex

-----------------------------------------------------------------------------
(* The search of recover_deep_reorg *)

\* All chains of a network share the genesis block.
ReadGenesis ==
  /\ At("genesis")
  /\ NodeBlock(0) = CurrentRecord(0)
  /\ attempt' = IF OldVisible > 0
                THEN [attempt EXCEPT !.pc = "search", !.lo = 0, !.hi = OldVisible + 1]
                ELSE Poll("recover", 1, CurrentRecord(0))
  /\ Call

\* One read of the bisection over all the heights the follower has; lo
\* matches, hi differs.
Search ==
  /\ At("search")
  /\ LET h == attempt.lo + ((attempt.hi - attempt.lo) \div 2)
         same == NodeBlock(h) # NoBlock /\ NodeBlock(h) = CurrentRecord(h)
         lo == IF same THEN h ELSE attempt.lo
         hi == IF same THEN attempt.hi ELSE h
     IN  attempt' = IF lo + 1 < hi THEN [attempt EXCEPT !.lo = lo, !.hi = hi]
                    ELSE Poll("recover", lo + 1, CurrentRecord(lo))
  /\ Call

-----------------------------------------------------------------------------
(* The writes, with no call to the node after them *)

\* What stays above the durable tip of the write, to publish.
Publishing(blocks, durable) ==
  attempt' = [attempt EXCEPT !.pc = "publish",
                             !.head = SelectSeq(blocks, LAMBDA b : Height[b] > durable)]
Rest == UNCHANGED <<node, snapshot, reader, answered, budget>>

\* build_batch in sync_extension_once: a batch is full after MaxBatch blocks,
\* and goes on to the end of a range that this write seals.
FullBefore(h, from, seal_through) ==
  /\ h - from >= MaxBatch
  /\ h % RANGE_SIZE = 0 \/ RangeEnd(RangeStart(h)) > seal_through
BatchEnd(from, durable_through, seal_through) ==
  CHOOSE e \in from..durable_through :
    /\ e = durable_through \/ FullBefore(e + 1, from, seal_through)
    /\ \A h \in (from + 1)..e : ~FullBefore(h, from, seal_through)

\* sync_extension_once: it writes the batches one by one ...
ExtendTip == IF attempt.raw = <<>> THEN None ELSE Height[attempt.raw[Len(attempt.raw)]]
PersistThrough(visible) == Below(visible, PERSIST_DEPTH)
SealThrough(visible) == Below(visible, SEAL_DEPTH)
Extend ==
  /\ At("write") /\ attempt.mode = "extend"
  /\ tip.height < PersistThrough(ExtendTip)
  /\ LET from == tip.height + 1
         seal_through == SealThrough(ExtendTip)
         to == BatchEnd(from, PersistThrough(ExtendTip), seal_through)
     IN  AppendBatch(state.generation,
                     SubSeq(attempt.raw, from - attempt.start + 1, to - attempt.start + 1),
                     seal_through)
  /\ Rest /\ UNCHANGED attempt
\* ... and keeps the blocks above them as the volatile head.
Extended ==
  /\ At("write") /\ attempt.mode = "extend"
  /\ tip.height >= PersistThrough(ExtendTip)
  /\ Publishing(attempt.raw, tip.height)
  /\ UnchangedIndex /\ Rest

\* replace_suffix: the last block that did not change, and the canonical
\* blocks above the ancestor that stays durable.
CommonBlock ==
  LET raw == attempt.raw
      same == {n \in 0..Len(raw) : \A i \in 1..n : CurrentRecord(Height[raw[i]]) = raw[i]}
      n == CHOOSE m \in same : \A k \in same : k <= m
  IN  IF n > 0 THEN raw[n]
      ELSE IF attempt.retained > 0 THEN Known[attempt.retained] ELSE attempt.previous_hash
Visible == IF attempt.raw # <<>> THEN Height[attempt.raw[Len(attempt.raw)]]
                                 ELSE Height[CommonBlock]
AncestorHeight == Minimum(Height[CommonBlock], tip.height)
Canonical ==
  Records(AncestorHeight + 1, Height[CommonBlock])
    \o SelectSeq(attempt.raw, LAMBDA b : Height[b] > Height[CommonBlock])
Durable(ancestor) == Maximum(PersistThrough(Visible), ancestor)
Replacement ==
  SelectSeq(Canonical, LAMBDA b : Height[b] <= Durable(AncestorHeight))
MustWrite == AncestorHeight # tip.height \/ Replacement # <<>>

Replace ==
  /\ At("write") /\ attempt.mode = "replace" /\ MustWrite
  /\ ReplaceMutableSuffix(state.generation, CurrentRecord(AncestorHeight), Replacement,
                          SealThrough(Visible))
  /\ Publishing(Canonical, tip'.height)
  /\ Rest
KeepDurable ==
  /\ At("write") /\ attempt.mode = "replace" /\ ~MustWrite
  /\ Publishing(Canonical, tip.height)
  /\ UnchangedIndex /\ Rest

\* recover_deep_reorg: the canonical blocks after the common ancestor.
Recover ==
  /\ At("write") /\ attempt.mode = "recover"
  /\ LET matching == attempt.start - 1
         visible == matching + Len(attempt.raw)
         durable == Maximum(PersistThrough(visible), matching)
     IN  ReplaceDeepSuffix(state.generation, attempt.previous_hash,
                           SelectSeq(attempt.raw, LAMBDA b : Height[b] <= durable),
                           SealThrough(visible))
  /\ Publishing(attempt.raw, tip'.height)
  /\ Rest

\* The index refuses a replacement below its sealed ranges (Sealed), and a
\* common ancestor above its durable tip (Coverage).
WriteFails ==
  /\ At("write")
  /\ \/ /\ attempt.mode = "replace" /\ MustWrite
        /\ sealed # None /\ AncestorHeight < sealed
     \/ attempt.mode = "recover" /\ ~Covers(attempt.start - 1)
  /\ Fail /\ UnchangedIndex

\* publish_head.  The follower panics on a head that does not connect.
Publish ==
  /\ At("publish") /\ HeadConnects(tip, attempt.head)
  /\ snapshot' = WithHead(state, attempt.head)
  /\ attempt' = Idle
  /\ answered' = NoBlock
  /\ UnchangedIndex /\ UNCHANGED <<node, reader, budget>>

-----------------------------------------------------------------------------
(* The environment *)

\* The node extends its chain or switches to another one.
NodeMoves ==
  /\ budget.moves > 0
  /\ \E b \in Block : <<node, b>> \in Moves /\ node' = b
  /\ budget' = [budget EXCEPT !.moves = @ - 1]
  /\ UnchangedIndex /\ UNCHANGED <<snapshot, attempt, reader, answered>>

\* A call to the node fails, or the attempt timeout ends the attempt.
CallFails ==
  /\ budget.failures > 0
  /\ attempt.pc \notin {"idle", "write", "publish"}
  /\ attempt' = Idle
  /\ snapshot' \in FailureMarked
  /\ answered' = NoBlock
  /\ budget' = [budget EXCEPT !.failures = @ - 1]
  /\ UnchangedIndex /\ UNCHANGED <<node, reader>>

\* The process stops at any point and starts again: the catch-up pass of the
\* launcher appends through SEAL_DEPTH below the tip of the node, and the
\* follower starts from the state.  A durable tip that the node does not
\* have there makes the launcher refuse to start.
CatchUp ==
  LET target == Maximum(Height[node] - SEAL_DEPTH, 0)
  IN  \/ tip.height > target /\ UnchangedIndex
      \/ tip.height = target /\ NodeBlock(target) = tip.hash /\ UnchangedIndex
      \/ /\ tip.height < target /\ NodeBlock(tip.height) = tip.hash
         /\ AppendBatch(state.generation, SubSeq(Chain[node], tip.height + 2, target + 1),
                        target)
Restart ==
  /\ budget.restarts > 0
  /\ CatchUp
  /\ snapshot' = FromState(state')
  /\ attempt' = Idle
  /\ reader' = NoBlock
  /\ answered' = NoBlock
  /\ budget' = [budget EXCEPT !.restarts = @ - 1]
  /\ UNCHANGED node

\* A request takes the snapshot if it is ready, and uses it at some later
\* time (CompactService::snapshot, ensure_ready).
TakeSnapshot ==
  /\ budget.requests > 0
  /\ snapshot.ready
  /\ reader' = snapshot
  /\ budget' = [budget EXCEPT !.requests = @ - 1]
  /\ UnchangedIndex /\ UNCHANGED <<node, snapshot, attempt, answered>>
-----------------------------------------------------------------------------

\* The launcher caught up with the node and made the follower (HeadFollower::new).
HeadInit ==
  /\ node \in InitNodes
  /\ LET top == Maximum(Height[node] - SEAL_DEPTH, 0)
         rows == [h \in 0..top |-> NodeBlock(h)]
         to == SealTarget(None, top, top)
     IN  /\ sealed_ranges = Pack(EmptyTable, rows, None, to)
         /\ mutable_blocks = Unpacked(rows, None, to)
         /\ hash_to_height = Entries(rows)
         /\ range_meta = EmptyTable
         /\ state = [durable_tip |-> [height |-> top, hash |-> rows[top]],
                     sealed_through |-> to, verified_through |-> None, generation |-> 1]
  /\ snapshot = FromState(state)
  /\ attempt = Idle
  /\ reader = NoBlock
  /\ answered = NoBlock
  /\ budget = [moves |-> MaxMoves, failures |-> MaxFailures, restarts |-> MaxRestarts,
               requests |-> MaxRequests]

FollowerStep ==
  \/ BeginSync \/ BeginRecovery
  \/ ReadTip \/ ReadAnchor \/ DeepReorg \/ ReadLast \/ Bisect \/ ReadBlock \/ Recheck
  \/ PollFails
  \/ ReadGenesis \/ Search
  \/ Extend \/ Extended \/ Replace \/ KeepDurable \/ Recover \/ WriteFails
  \/ Publish

HeadNext == FollowerStep \/ NodeMoves \/ CallFails \/ Restart \/ TakeSnapshot

\* The interval ticks again and again, and a call that does not fail returns.
HeadSpec == HeadInit /\ [][HeadNext]_headVars /\ WF_headVars(FollowerStep)

-----------------------------------------------------------------------------
(* Properties *)

Snapshots ==
  [generation : 0..MaxGeneration, durable_tip : [height : Nat, hash : Block],
   volatile_head : Seq(Block), ready : BOOLEAN, tip_fresh : BOOLEAN, succeeded : BOOLEAN]

\* The types of the follower and of the index under it.
HeadTypeOK ==
  /\ TypeOK
  /\ node \in Block /\ answered \in Block \cup {NoBlock}
  /\ snapshot \in Snapshots /\ reader \in Snapshots \cup {NoBlock}
  /\ attempt \in [pc : {"idle", "tip", "anchor", "last", "bisect", "blocks", "recheck",
                        "genesis", "search", "write", "publish"},
                  mode : {"none", "extend", "replace", "recover"},
                  start : Nat, previous_hash : Block \cup {NoBlock, GenesisPrev},
                  lo : Nat, hi : Nat, retained : Nat, raw : Seq(Block), head : Seq(Block)]
  /\ attempt.pc \in {"anchor", "last", "bisect", "blocks", "recheck", "write"}
       => attempt.previous_hash # NoBlock

\* publish_head expects that "head reconciliation must produce a connected
\* snapshot": whatever the node does during the reads, the head that an
\* attempt publishes links to the durable tip that the same attempt wrote.
HeadAlwaysConnects == At("publish") => HeadConnects(tip, attempt.head)

\* A request that holds a snapshot reads one chain: if the index still has the
\* generation of the snapshot, its volatile head continues the durable chain.
\* This also holds between a write and its publication, and after a restart.
ReaderSeesOneChain ==
  reader # NoBlock /\ reader.generation = state.generation
    => reader.durable_tip = tip /\ HeadConnects(tip, reader.volatile_head)

\* "The last height must have the same hash after the reads, thus the result is
\* one canonical chain": the visible tip to publish is on the best chain that
\* the node had at its last answer, although no call reads more than one block
\* and the node may change its chain between any two.  An attempt that found
\* no block above its anchor has no last height to check.
PublishedHeadIsCanonical ==
  At("publish") /\ (attempt.head # <<>> \/ ~NothingPolled)
    => OnChain(VisibleTip(tip, attempt.head), answered)

\* Outside of an attempt the snapshot has the generation of the index: a
\* request is refused for its generation only while a write is published.
SnapshotIsCurrent ==
  At("idle") => snapshot.generation = state.generation /\ snapshot.durable_tip = tip

\* A sealed block changes only while the snapshot refuses new requests.
SealedBlocksChangeInRecovery ==
  [][(\E h \in 0..sealed : ~(h <= sealed' /\ Read(h)' = Read(h)))
       => ~snapshot.ready]_headVars

\* A block becomes durable, and a range sealed, only at its depth below a tip
\* that the node had during the attempt.
DepthRule ==
  [][LET seen == {answered, node} \ {NoBlock}
     IN  /\ tip'.height > tip.height =>
              \E n \in seen : tip'.height + PERSIST_DEPTH <= Height[n]
         /\ sealed' > sealed => \E n \in seen : sealed' + SEAL_DEPTH <= Height[n]]_headVars

ServesTheHead ==
  snapshot.ready /\ VisibleTip(snapshot.durable_tip, snapshot.volatile_head) = node

\* "Keeps the index at the canonical head of a node": the node moves only
\* finitely often here, and then the snapshot is ready and ends at its tip.
FollowsHead == <>[]ServesTheHead

\* The same while the snapshot is ready: the follower does not serve another
\* head than the one of the node for all time.
ReadyFollowsHead ==
  []<>(snapshot.ready => VisibleTip(snapshot.durable_tip, snapshot.volatile_head) = node)

\* A deep reorg that stops requests is recovered.
RecoveryEnds == ~snapshot.ready ~> snapshot.ready

\* What a request gets as the head of the chain: the volatile head connects to the durable tip,
\* was canonical when it was published, and outside of an attempt the snapshot is of the index
\* as it is (publish_head and the recheck of poll).
SnapshotIsSound ==
  HeadTypeOK /\ HeadAlwaysConnects /\ PublishedHeadIsCanonical /\ SnapshotIsCurrent

\* What wallets take as final: a block becomes durable and sealed only at its depth, and a
\* sealed block changes only while requests are stopped.
FinalityRule == SealedBlocksChangeInRecovery /\ DepthRule
=============================================================================
