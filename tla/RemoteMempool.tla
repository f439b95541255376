--------------------------- MODULE RemoteMempool ---------------------------
(***************************************************************************)
(* The mempool reads of the remote backend (RemoteBackend, with its cache  *)
(* of transactions) and GetTransaction, which asks the chain of the node   *)
(* first and its mempool after that.                                       *)
(*                                                                         *)
(* Several reads run at the same time.  Each call to the node is a step:   *)
(* the node takes, mines and drops transactions between any two of them.   *)
(***************************************************************************)
EXTENDS Naturals, FiniteSets

CONSTANTS
    Txs,
    Reads,          \* calls of mempool_transactions
    Gets,           \* calls of GetTransaction, each with a mempool read of its own
    Wanted,         \* the transaction that they ask for
    MEMPOOL_FETCHES,
    MaxMoves,       \* bound: changes of the node
    MaxFailures     \* bound: calls to the node that fail

MempoolBounds ==
    /\ Reads \cap Gets = {} /\ Wanted \in Txs
    /\ MEMPOOL_FETCHES \in Nat \ {0} /\ MaxMoves \in Nat /\ MaxFailures \in Nat

VARIABLES
    at,         \* where each transaction is: "none", "mempool", "mined", "side" (a side chain)
    moves, failures,
    mempool,    \* the cache of the backend
    answer,     \* the latest answer of getrawmempool that a read applied to the cache
    call        \* the calls

vars == <<at, moves, failures, mempool, answer, call>>

\* ids: of getrawmempool. left: not looked up yet. asked: requested from the node. fetched: answers
\* that are not in the cache yet. failed: a transaction was skipped.
\* stayed: the transactions that the node had in its mempool since the call began. had: the same
\* for those that the node had at all. alone: no other call ran during the call.
New == [pc |-> "none", ids |-> {}, left |-> {}, asked |-> {}, fetched |-> {},
        result |-> {}, failed |-> FALSE,
        stayed |-> {}, had |-> {}, alone |-> TRUE]
AllCalls == Reads \cup Gets
Running(c) == call[c].pc \notin {"none", "done", "found", "mined", "error"}
InMempool == {t \in Txs : at[t] = "mempool"}
InNode == {t \in Txs : at[t] \in {"mempool", "mined"}}

Init ==
    /\ at \in [Txs -> {"none", "mempool"}]
    /\ moves = 0 /\ failures = 0 /\ mempool = {} /\ answer = {}
    /\ call = [c \in AllCalls |-> New]

Set(c, fields) ==
    call' = [call EXCEPT ![c] = [f \in DOMAIN @ |-> IF f \in DOMAIN fields THEN fields[f] ELSE @[f]]]
NodeRests == UNCHANGED <<at, moves>>

-----------------------------------------------------------------------------
(* The node: a transaction arrives, is mined, leaves the mempool, and a     *)
(* reorg puts it back or leaves it on a side chain.                         *)
NodeMoves ==
    /\ moves < MaxMoves
    /\ moves' = moves + 1
    /\ \E t \in Txs : \E to \in {"none", "mempool", "mined", "side"} :
          /\ <<at[t], to>> \in {<<"none", "mempool">>, <<"mempool", "mined">>, <<"mempool", "none">>,
                                <<"mined", "mempool">>, <<"mined", "side">>, <<"side", "mempool">>}
          /\ at' = [at EXCEPT ![t] = to]
    /\ call' = [c \in AllCalls |-> [call[c] EXCEPT
                    !.stayed = {t \in @ : at'[t] = "mempool"},
                    !.had = {t \in @ : at'[t] \in {"mempool", "mined"}}]]
    /\ UNCHANGED <<failures, mempool, answer>>

-----------------------------------------------------------------------------
(* A call begins. Two calls that run at the same time are not alone.        *)
Begin(c) ==
    /\ call[c].pc = "none"
    /\ LET others == {d \in AllCalls : Running(d)} IN
       call' = [d \in AllCalls |->
                  IF d = c THEN [New EXCEPT !.pc = IF c \in Gets THEN "chain" ELSE "list",
                                            !.stayed = InMempool, !.had = InNode,
                                            !.alone = others = {}]
                  ELSE IF d \in others THEN [call[d] EXCEPT !.alone = FALSE] ELSE call[d]]
    /\ NodeRests /\ UNCHANGED <<failures, mempool, answer>>

(* mined_transaction of GetTransaction: a transaction of the mempool or of  *)
(* a side chain has no height.                                              *)
AskChain(c) ==
    /\ call[c].pc = "chain"
    /\ Set(c, [pc |-> IF at[Wanted] = "mined" THEN "mined" ELSE "list"])
    /\ NodeRests /\ UNCHANGED <<failures, mempool, answer>>

(* mempool_transactions: getrawmempool, then the cache keeps what it lists. *)
List(c) ==
    /\ call[c].pc = "list"
    /\ Set(c, [pc |-> "retain", ids |-> InMempool, left |-> InMempool])
    /\ NodeRests /\ UNCHANGED <<failures, mempool, answer>>

\* A mutant: the cache keeps each transaction.
RetainAll(c) ==
    /\ call[c].pc = "retain"
    /\ answer' = call[c].ids
    /\ Set(c, [pc |-> "fetch"])
    /\ NodeRests /\ UNCHANGED <<failures, mempool>>

Retain(c) ==
    /\ call[c].pc = "retain"
    /\ mempool' = mempool \cap call[c].ids
    /\ answer' = call[c].ids
    /\ Set(c, [pc |-> "fetch"])
    /\ NodeRests /\ UNCHANGED failures

(* mempool_transaction: from the cache, or from the node, at most           *)
(* MEMPOOL_FETCHES at the same time.                                        *)
LookUp(c, t) ==
    /\ call[c].pc = "fetch" /\ t \in call[c].left
    /\ Cardinality(call[c].asked \cup call[c].fetched) < MEMPOOL_FETCHES
    /\ LET left == call[c].left \ {t} IN
       IF t \in mempool THEN Set(c, [left |-> left, result |-> call[c].result \cup {t}])
       ELSE Set(c, [left |-> left, asked |-> call[c].asked \cup {t}])
    /\ NodeRests /\ UNCHANGED <<failures, mempool, answer>>

(* fetch_transaction: a transaction with a best-chain height, or that the   *)
(* node does not have, left the mempool. One of a side chain has no height. *)
FetchTransaction(c, t) ==
    /\ t \in call[c].asked
    /\ Set(c, [asked |-> call[c].asked \ {t},
               fetched |-> IF at[t] \in {"mempool", "side"} THEN call[c].fetched \cup {t}
                           ELSE call[c].fetched])
    /\ NodeRests /\ UNCHANGED <<failures, mempool, answer>>

\* An unavailable node skips the transaction only.
SkipTransaction(c, t) ==
    /\ t \in call[c].asked
    /\ failures < MaxFailures /\ failures' = failures + 1
    /\ Set(c, [asked |-> call[c].asked \ {t}, failed |-> TRUE])
    /\ NodeRests /\ UNCHANGED <<mempool, answer>>

(* A failed first call, an answer that does not parse, or a client that     *)
(* leaves: the call ends, and the requests in work are dropped.             *)
Fail(c) ==
    /\ Running(c)
    /\ failures < MaxFailures /\ failures' = failures + 1
    /\ Set(c, [pc |-> "error", left |-> {}, asked |-> {}, fetched |-> {}])
    /\ NodeRests /\ UNCHANGED <<mempool, answer>>

Insert(c, t) ==
    /\ t \in call[c].fetched
    /\ mempool' = mempool \cup {t}
    /\ Set(c, [fetched |-> call[c].fetched \ {t}, result |-> call[c].result \cup {t}])
    /\ NodeRests /\ UNCHANGED <<failures, answer>>

End(c) ==
    /\ call[c].pc = "fetch" /\ call[c].left = {} /\ call[c].asked = {} /\ call[c].fetched = {}
    /\ Set(c, [pc |-> IF c \in Gets /\ Wanted \in call[c].result THEN "found" ELSE "done"])
    /\ NodeRests /\ UNCHANGED <<failures, mempool, answer>>

Next ==
    \/ NodeMoves
    \/ \E c \in AllCalls :
          \/ Begin(c) \/ AskChain(c) \/ List(c) \/ Retain(c) \/ Fail(c) \/ End(c)
          \/ \E t \in Txs :
                LookUp(c, t) \/ FetchTransaction(c, t) \/ SkipTransaction(c, t) \/ Insert(c, t)

Spec == Init /\ [][Next]_vars

-----------------------------------------------------------------------------
(* A read that skips nothing gives each transaction that was in the         *)
(* mempool of the node from the start of the read to its end, whatever the  *)
(* reads beside it do to the cache.                                         *)
ReadIsWhole ==
    \A c \in AllCalls : call[c].pc \in {"done", "found"} /\ ~call[c].failed
                       => call[c].stayed \subseteq call[c].result

(* A read that no other read overlaps leaves in the cache only transactions *)
(* of its getrawmempool answer: what left the mempool does not stay.        *)
ReadAloneCleansTheCache ==
    [][\A c \in AllCalls :
          call[c].pc = "fetch" /\ call'[c].pc \in {"done", "found"} /\ call[c].alone
             => mempool \subseteq call[c].ids]_vars

(* The cache holds transactions of the latest getrawmempool answer only.    *)
(* It does not hold: the read of an older answer can insert after it.       *)
CacheIsOfTheLatestAnswer == mempool \subseteq answer

(* GetTransaction finds a transaction that the node has, in its mempool or  *)
(* in its best chain, during the whole call.  It does not hold: a block can *)
(* take the transaction between the two questions of the call.              *)
GetTransactionFindsIt ==
    \A c \in Gets : call[c].pc = "done" /\ ~call[c].failed => Wanted \notin call[c].had
=============================================================================
