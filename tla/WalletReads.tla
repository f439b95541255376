---------------------------- MODULE WalletReads ----------------------------
(***************************************************************************)
(* The wallet calls that read the node and the index in one answer         *)
(* (ztreamer-service: GetTreeState, GetLatestTreeState, GetSubtreeRoots,   *)
(* GetTaddressTransactions; ztreamer-remote: RemoteBackend), beside the    *)
(* head follower.                                                          *)
(*                                                                         *)
(* Each read of the node, of the snapshot and of the index is a step, and  *)
(* the node and the follower go on between any two of them.  A tree state  *)
(* and a subtree root are the block that they are of: they depend on all   *)
(* the blocks below it.                                                    *)
(***************************************************************************)
EXTENDS HeadFollower

CONSTANTS
  Calls,          \* the calls that clients make
  Keys,           \* what GetTreeState asks for: <<"height", h>> or <<"hash", b>>
  Completes,      \* the blocks that complete a subtree
  TxOf,           \* the transaction of the address in a block, or NoBlock
  Ranges,         \* <<start, end>> of GetTaddressTransactions
  BackendRanges   \* <<start, end>> of address_transaction_ids

ASSUME CallAssumption ==
  /\ \A key \in Keys : key \in {"height"} \X Nat \/ key \in {"hash"} \X Block
  /\ Completes \subseteq Block
  /\ Ranges \subseteq Nat \X Nat /\ BackendRanges \subseteq Nat \X Nat

VARIABLES
  call,    \* the call and its locals
  trees,   \* tree_states: the cache of the remote backend
  tips     \* the visible tips that were published since the call began

callVars == <<headVars, call, trees, tips>>

NoCall == [pc |-> "none", kind |-> "none", key |-> <<"height", 0>>, snapshot |-> NoBlock,
           record |-> NoBlock, tree |-> NoBlock, asked |-> <<0, 0>>, heights |-> <<0, 0>>, left |-> <<>>,
           list |-> <<>>, sent |-> <<>>]
InCall(pc) == call.pc = pc
Tip == VisibleTip(snapshot.durable_tip, snapshot.volatile_head)
TipReady == snapshot.ready /\ snapshot.tip_fresh   \* ensure_tip_ready

\* A step of the call: the follower, the node and the cache stay.
Step == UNCHANGED <<headVars, trees, tips>>
Failed == [call EXCEPT !.pc = "failed"]

Begin(kind, fields) ==
  /\ InCall("none") /\ kind \in Calls
  /\ call' = [f \in DOMAIN NoCall |->
                IF f \in DOMAIN fields THEN fields[f] ELSE IF f = "kind" THEN kind ELSE NoCall[f]]
  /\ tips' = {Tip}
  /\ UNCHANGED <<headVars, trees>>

-----------------------------------------------------------------------------
(* GetTreeState and GetLatestTreeState *)

AskTree == \E key \in Keys : Begin("tree", [pc |-> "record", key |-> key])

\* latest_tree_state asks for the block of latest_block by its hash.
AskLatest == TipReady /\ Begin("latest", [pc |-> "record", key |-> <<"hash", Tip>>])

\* BlockKey.
IsHeight(key) == key[1] = "height"
\* record_as: the volatile head of the snapshot has the block, and must be fresh.
VolatileRecords(s, key) ==
  {s.volatile_head[i] : i \in {j \in 1..Len(s.volatile_head) :
     IF IsHeight(key) THEN Height[s.volatile_head[j]] = key[2] ELSE s.volatile_head[j] = key[2]}}
RecordAs ==
  /\ InCall("record")
  /\ LET found == VolatileRecords(snapshot, call.key)
     IN  call' = IF ~snapshot.ready THEN Failed
                 ELSE IF found = {} THEN [call EXCEPT !.pc = "index", !.snapshot = snapshot]
                 ELSE IF ~snapshot.tip_fresh THEN Failed
                 ELSE [call EXCEPT !.pc = "tree", !.record = CHOOSE b \in found : TRUE]
  /\ Step

\* Index::snapshot at the generation of the serving snapshot.
\* (AnyGeneration: a mutant that reads the index as it is.)
AnyGeneration == TRUE
AtGeneration == state.generation = call.snapshot.generation
IndexRecord(key) ==
  IF IsHeight(key) THEN IF Covers(key[2]) THEN Read(key[2]) ELSE NoBlock
  ELSE IF key[2] \in DOMAIN hash_to_height THEN Read(hash_to_height[key[2]]) ELSE NoBlock
ReadRecord ==
  /\ InCall("index")
  /\ call' = IF AtGeneration /\ IndexRecord(call.key) # NoBlock
             THEN [call EXCEPT !.pc = "tree", !.record = IndexRecord(call.key)]
             ELSE Failed
  /\ Step

\* RemoteBackend::tree_state: the cache, or z_gettreestate for the hash, whose answer must be
\* of that block.  The node fails for a block that is not in its best chain.
CachedTree ==
  /\ InCall("tree") /\ call.record \in trees
  /\ call' = [call EXCEPT !.pc = "done", !.tree = call.record]
  /\ Step
NodeTree == IF OnChain(call.record, node) THEN call.record ELSE NoBlock
AskTreeState ==
  /\ InCall("tree") /\ call.record \notin trees
  /\ IF NodeTree = NoBlock THEN call' = Failed /\ UNCHANGED trees
     ELSE /\ call' = [call EXCEPT !.pc = "done", !.tree = NodeTree]
          /\ trees' = trees \cup {call.record}
  /\ UNCHANGED <<headVars, tips>>

-----------------------------------------------------------------------------
(* GetSubtreeRoots *)

\* The backend gives the completed subtrees of the node, then the service takes its snapshot.
AskSubtrees ==
  Begin("subtrees", [pc |-> "subtrees",
                     left |-> SelectSeq(Chain[node], LAMBDA b : b \in Completes)])
SubtreeSnapshot ==
  /\ InCall("subtrees")
  /\ call' = [call EXCEPT !.pc = "roots", !.snapshot = snapshot]
  /\ Step

\* subtree_stream: the completing block of each root is the block of the snapshot at its height.
SendRoot ==
  /\ InCall("roots") /\ call.left # <<>>
  /\ LET root == Head(call.left)
         at == <<"height", Height[root]>>
         found == VolatileRecords(call.snapshot, at)
         block == IF found # {} THEN CHOOSE b \in found : TRUE
                  ELSE IF AtGeneration THEN IndexRecord(at) ELSE NoBlock
     IN  call' = IF block = NoBlock THEN Failed
                 ELSE [call EXCEPT !.left = Tail(@),
                                   !.sent = Append(@, [root |-> root, block |-> block])]
  /\ Step

-----------------------------------------------------------------------------
(* GetTaddressTransactions, and the address index of the backend *)

AskAddress ==
  \E r \in Ranges : Begin("address", [pc |-> "tip", asked |-> r])
AskIds ==
  \E r \in BackendRanges :
     r[1] <= r[2] /\ Begin("ids", [pc |-> "check", asked |-> r, heights |-> r])

\* taddress_transactions: both ends are at most the tip, an end of 0 is the tip, and the ends
\* are put in order.
ReadTipHeight ==
  /\ InCall("tip")
  /\ LET best == Height[node]
         start == Minimum(call.asked[1], best)
         end == IF Minimum(call.asked[2], best) = 0 THEN best ELSE Minimum(call.asked[2], best)
     IN  call' = [call EXCEPT !.pc = "check",
                              !.heights = <<Minimum(start, end), Maximum(start, end)>>]
  /\ Step

\* RemoteBackend::address_transaction_ids: the ranges that the node would read differently have
\* no transactions.
CheckIds ==
  /\ InCall("check")
  /\ call' = [call EXCEPT !.pc = IF \/ call.heights[2] = 0
                                    \/ call.heights[1] > 0 /\ call.heights[1] > Height[node]
                                 THEN "done" ELSE "ids"]
  /\ Step

\* getaddresstxids: the node reads an end of 0, and a border above its tip, as its tip.
NodeIds(start, end) ==
  LET best == Height[node]
      to == IF end = 0 THEN best ELSE Minimum(end, best)
  IN  SelectSeq(SubSeq(Chain[node], Minimum(start, best) + 1, to + 1),
                LAMBDA b : TxOf[b] # NoBlock)
ListIds ==
  /\ InCall("ids")
  /\ LET blocks == NodeIds(call.heights[1], call.heights[2])
     IN  call' = [call EXCEPT !.pc = IF call.kind = "ids" THEN "done" ELSE "stream",
                              !.list = blocks,
                              !.left = [i \in 1..Len(blocks) |-> TxOf[blocks[i]]]]
  /\ Step

\* mined_transaction: the block of the best chain that has the transaction.
Mined(tx) == SelectSeq(Chain[node], LAMBDA b : TxOf[b] = tx)
\* (SkipMissing: a mutant that goes on after a transaction that left the best chain.)
SkipMissing ==
  /\ InCall("stream") /\ call.left # <<>>
  /\ LET mined == Mined(Head(call.left))
     IN  call' = [call EXCEPT !.left = Tail(@),
                              !.sent = IF mined = <<>> THEN @
                                       ELSE Append(@, [tx |-> Head(call.left), block |-> mined[1]])]
  /\ Step
SendTransaction ==
  /\ InCall("stream") /\ call.left # <<>>
  /\ LET mined == Mined(Head(call.left))
     IN  call' = IF mined = <<>> THEN Failed
                 ELSE [call EXCEPT !.left = Tail(@),
                                   !.sent = Append(@, [tx |-> Head(call.left),
                                                       block |-> mined[1]])]
  /\ Step

EndStream ==
  /\ call.pc \in {"roots", "stream"} /\ call.left = <<>>
  /\ call' = [call EXCEPT !.pc = "done"]
  /\ Step

-----------------------------------------------------------------------------

Ask == AskTree \/ AskLatest \/ AskSubtrees \/ AskAddress \/ AskIds
Answer ==
  \/ RecordAs \/ ReadRecord \/ CachedTree \/ AskTreeState
  \/ SubtreeSnapshot \/ SendRoot
  \/ ReadTipHeight \/ CheckIds \/ ListIds \/ SendTransaction
  \/ EndStream

\* A second call starts with the cache of the first one.
NextCall ==
  /\ call.pc \in {"done", "failed"}
  /\ call.kind \in {"tree", "latest"} /\ Cardinality(trees) = 1
  /\ call' = NoCall /\ tips' = {}
  /\ UNCHANGED <<headVars, trees>>

WalletInit == HeadInit /\ call = NoCall /\ trees = {} /\ tips = {}
WalletNext ==
  \/ (FollowerStep \/ NodeMoves) /\ UNCHANGED <<call, trees>> /\ tips' = tips \cup {Tip'}
  \/ Ask
  \/ Answer
  \/ NextCall
WalletSpec == WalletInit /\ [][WalletNext]_callVars

-----------------------------------------------------------------------------
(* Properties *)

Is(kind) == call.kind = kind /\ InCall("done")

\* GetTreeState gives the trees of the block that it names, also from the cache, and the block
\* that the client asked for.
TreeStateIsOfItsBlock ==
  Is("tree") => /\ call.tree = call.record
                /\ call.key[2] = IF IsHeight(call.key) THEN Height[call.record] ELSE call.record

\* GetLatestTreeState gives the trees of a block that was the visible tip during the call,
\* though the tip is read once and the block is looked up in a later snapshot.
LatestTreeIsOfATip == Is("latest") => call.record \in tips /\ call.tree = call.record

\* The completing blocks of one GetSubtreeRoots answer are blocks of one chain, though the
\* follower writes the index between two of them.
CompletingBlocksAreOneChain ==
  \A i, j \in 1..Len(call.sent) :
    call.kind = "subtrees" /\ i < j => OnChain(call.sent[i].block, call.sent[j].block)

\* A subtree root is sent with the hash of the block that completed this subtree.  It does not
\* hold: the root is of the node's chain, the block of the snapshot's.
SubtreeRootIsOfItsBlock ==
  call.kind = "subtrees" => \A i \in 1..Len(call.sent) : call.sent[i].root = call.sent[i].block

\* An address answer that ends cleanly has each transaction that the node listed, in its order.
CleanAddressAnswerIsWhole ==
  Is("address") => [i \in 1..Len(call.sent) |-> call.sent[i].tx]
                   = [i \in 1..Len(call.list) |-> TxOf[call.list[i]]]

\* GetTaddressTransactions gives transactions of blocks within the range of the request.  It does
\* not hold for a range above the tip, which becomes the range of the tip.
AddressAnswerIsInRange ==
  call.kind = "address" /\ call.asked[1] <= call.asked[2] /\ call.asked[2] > 0 =>
    \A i \in 1..Len(call.sent) : Height[call.sent[i].block] \in call.asked[1]..call.asked[2]

\* The ids of the backend are of blocks within the height range, also for a range that the node
\* reads differently: one above its tip, or one that ends at genesis.
BackendIdsAreInRange ==
  call.kind = "ids" =>
    \A i \in 1..Len(call.list) : Height[call.list[i]] \in call.asked[1]..call.asked[2]

\* The answers about trees keep to one chain while the node and the follower move between their
\* reads: a tree state is of the block that it names, the latest one is of a tip that was shown
\* during the call, and the completing blocks of subtree roots are on one chain.
TreeAnswersAreOfOneChain ==
  TreeStateIsOfItsBlock /\ LatestTreeIsOfATip /\ CompletingBlocksAreOneChain

\* The answers about addresses: without an error each listed transaction is there in its order,
\* and the backend gives no id outside of the range.
AddressAnswersAreWhole == CleanAddressAnswerIsWhole /\ BackendIdsAreInRange
=============================================================================
