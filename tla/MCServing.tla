----------------------------- MODULE MCServing -----------------------------
(***************************************************************************)
(* A client beside the head follower, over a small tree of blocks: it      *)
(* takes a snapshot for a unary answer, reads a range as a stream, or      *)
(* makes a wallet call.                                                    *)
(***************************************************************************)
EXTENDS MCRangeStream, WalletReads

VARIABLE client   \* what the client of this behaviour does

MCKeys == {<<"height", 0>>, <<"height", MaxHeight - 1>>,
           <<"hash", <<MaxHeight - 1, "a">>>>, <<"hash", <<1, "a">>>>}
\* A subtree is complete low in the chain and again near the head, on each branch.
MCCompletes == {b \in MCBlock : b[1] \in {1, MaxHeight - 1}}
\* The address has a transaction in the tip of the start, which is mined again on branch "c" at
\* the next height, and one below it.
MCTxOf == [b \in MCBlock |->
             IF b = <<1, "a">> THEN "t1"
             ELSE IF b \in {<<MaxHeight - 1, "a">>, <<MaxHeight, "c">>} THEN "t2" ELSE NoBlock]
MCRanges == {<<0, 0>>, <<1, MaxHeight - 1>>, <<MaxHeight - 1, 1>>, <<2, MaxHeight>>}
MCBackendRanges == {<<0, 0>>, <<0, 1>>, <<2, MaxHeight - 1>>, <<MaxHeight, MaxHeight + 1>>}
\* The node goes to any other tip: it extends its chain, switches to another
\* branch and back, or falls back to a lower block.
AnyMove == {m \in MCBlock \X MCBlock : m[1] # m[2]}

ServingInit ==
  /\ StreamInit /\ call = NoCall /\ trees = {} /\ tips = {}
  /\ client \in {"unary", "stream", "wallet"}
\* For a wallet call the tip of the node does not fall: RemoteBackend reads the tip and then
\* the ids below it, and takes it that the tip is still there.  A second
\* call is one of those that read the cache of tree states.
ServingNext ==
  \/ client = "unary" /\ HeadNext /\ UNCHANGED <<stream, call, trees, tips>>
  \/ client = "stream" /\ StreamNext /\ UNCHANGED <<call, trees, tips>>
  \/ /\ client = "wallet" /\ WalletNext /\ UNCHANGED stream
     /\ Height[node'] >= Height[node]
     /\ trees' = {} \/ call'.kind \in {"none", "tree", "latest"}
ServingSpec ==
  ServingInit /\ [][ServingNext /\ UNCHANGED client]_<<streamVars, call, trees, tips, client>>
=============================================================================
