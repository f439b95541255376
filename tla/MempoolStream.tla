---------------------------- MODULE MempoolStream ----------------------------
(***************************************************************************)
(* `GetMempoolStream`: a producer task sends each transaction of the       *)
(* mempool once, over a channel of one place, until the head follower      *)
(* publishes a new visible tip.  The follower, the mempool of the node and *)
(* the client go on beside it.                                             *)
(***************************************************************************)
EXTENDS Naturals, Sequences, SequencesExt, FiniteSets

CONSTANTS
    Txs,        \* the transactions
    MaxTip,     \* bound: the visible tips are 0 .. MaxTip, and no tip comes back
    MaxReads    \* bound: the reads of the mempool of one stream

StreamBounds == MaxTip \in Nat /\ MaxReads \in Nat \ {0}

VARIABLES
    snapshot,   \* the serving snapshot: visible_tip, ready, tip_fresh
    stopped,    \* the follower ended, and its sender is closed
    mempool,    \* the transactions of the mempool of the node
    pc,         \* the producer: "idle", "first", "sending", "offering", ...
    tip,        \* the tip of the stream
    transactions, \* the transactions that the producer still has to look at
    seen,       \* the ids of the transactions that it looked at
    channel,    \* the items that the client has not read
    got,        \* the items that the client has read
    closed,     \* the client closed the stream
    reads       \* reads of the mempool

vars == <<snapshot, stopped, mempool, pc, tip, transactions, seen, channel, got, closed, reads>>

Init ==
    /\ snapshot = [visible_tip |-> 0, ready |-> TRUE, tip_fresh |-> TRUE] /\ stopped = FALSE
    /\ mempool \in SUBSET Txs
    /\ pc = "idle" /\ tip = 0 /\ transactions = <<>> /\ seen = {}
    /\ channel = <<>> /\ got = <<>> /\ closed = FALSE /\ reads = 0

TipReady(s) == s.ready /\ s.tip_fresh       \* ensure_tip_ready

-----------------------------------------------------------------------------
(* The follower and the node.                                               *)

\* The follower publishes a new tip, or a head that is stale or in deep reorg recovery.
Publish ==
    /\ ~stopped
    /\ \E t \in {snapshot.visible_tip} \cup {n \in 0 .. MaxTip : n = snapshot.visible_tip + 1},
          ready \in BOOLEAN, fresh \in BOOLEAN :
          snapshot' = [visible_tip |-> t, ready |-> ready, tip_fresh |-> fresh]
    /\ snapshot' # snapshot
    /\ UNCHANGED <<stopped, mempool, pc, tip, transactions, seen, channel, got, closed, reads>>

FollowerEnds ==
    /\ ~stopped /\ stopped' = TRUE
    /\ UNCHANGED <<snapshot, mempool, pc, tip, transactions, seen, channel, got, closed, reads>>

\* A transaction comes into the mempool, or leaves it for a block.
MempoolMoves ==
    /\ \E t \in Txs :
          mempool' = IF t \in mempool THEN mempool \ {t} ELSE mempool \cup {t}
    /\ UNCHANGED <<snapshot, stopped, pc, tip, transactions, seen, channel, got, closed, reads>>

-----------------------------------------------------------------------------
(* The producer.                                                            *)

Env == UNCHANGED <<snapshot, stopped, mempool, got, closed>>

\* The call: the tip of the stream comes before the first read of the mempool.
Call ==
    /\ pc = "idle" /\ TipReady(snapshot)
    /\ tip' = snapshot.visible_tip /\ pc' = "first"
    /\ Env /\ UNCHANGED <<transactions, seen, channel, reads>>

\* backend.mempool_transactions(), in the order that the node gives. It can fail.
Read(from, failed) ==
    /\ pc = from /\ reads < MaxReads
    /\ reads' = reads + 1
    /\ \/ /\ pc' = "sending"
          /\ transactions' \in SetToSeqs(mempool)
       \/ pc' = failed /\ UNCHANGED transactions
    /\ Env /\ UNCHANGED <<tip, seen, channel>>

\* wait_for looks at the newest snapshot, and a closed sender fails it.
TipChanged == snapshot.visible_tip # tip \/ ~TipReady(snapshot)

\* The stream ends at a new tip that is ready. A head with no ready tip, or a follower that
\* ended, fails it.
OnTipChanged ==
    /\ pc \in {"offering", "waiting"}
    /\ TipChanged \/ stopped
    /\ pc' = IF TipChanged /\ TipReady(snapshot) THEN "done" ELSE "failing"
    /\ Env /\ UNCHANGED <<tip, transactions, seen, channel, reads>>

\* The transaction was seen before: it is skipped, with no look at the tip.
Skip ==
    /\ pc = "sending" /\ transactions # <<>> /\ Head(transactions) \in seen
    /\ transactions' = Tail(transactions)
    /\ Env /\ UNCHANGED <<pc, tip, seen, channel, reads>>

\* A transaction that is new for the stream. Its serialization can fail.
Take ==
    /\ pc = "sending" /\ transactions # <<>> /\ Head(transactions) \notin seen
    /\ pc' \in {"offering", "failing"}
    /\ seen' = seen \cup {Head(transactions)}
    /\ Env /\ UNCHANGED <<tip, transactions, channel, reads>>

\* A mutant: the send does not race the tip.
SendToTheEnd ==
    /\ pc = "offering" /\ (closed \/ channel = <<>>)
    /\ pc' = IF closed THEN "done" ELSE "sending"
    /\ channel' = IF closed THEN channel ELSE <<Head(transactions)>>
    /\ transactions' = Tail(transactions)
    /\ Env /\ UNCHANGED <<tip, seen, reads>>

\* The biased select of a send: the tip comes first. A send needs the place of the channel,
\* and fails when the client closed the stream.
Send ==
    /\ pc = "offering" /\ ~TipChanged /\ ~stopped
    /\ closed \/ channel = <<>>
    /\ pc' = IF closed THEN "done" ELSE "sending"
    /\ channel' = IF closed THEN channel ELSE <<Head(transactions)>>
    /\ transactions' = Tail(transactions)
    /\ Env /\ UNCHANGED <<tip, seen, reads>>

AllSent ==
    /\ pc = "sending" /\ transactions = <<>>
    /\ pc' = "waiting"
    /\ Env /\ UNCHANGED <<tip, transactions, seen, channel, reads>>

\* An idle producer sees that the client closed the stream.
OnClosed ==
    /\ pc = "waiting" /\ ~TipChanged /\ ~stopped /\ closed
    /\ pc' = "done"
    /\ Env /\ UNCHANGED <<tip, transactions, seen, channel, reads>>

\* The sleep of one second ends. The read after it does not race the tip.
Wake ==
    /\ pc = "waiting" /\ ~TipChanged /\ ~stopped /\ ~closed
    /\ reads < MaxReads
    /\ pc' = "reading"
    /\ Env /\ UNCHANGED <<tip, transactions, seen, channel, reads>>

\* The status of the failure waits for the place of the channel.
SendFailure ==
    /\ pc = "failing" /\ (closed \/ channel = <<>>)
    /\ pc' = "done"
    /\ channel' = IF closed THEN channel ELSE <<"status">>
    /\ Env /\ UNCHANGED <<tip, transactions, seen, reads>>

-----------------------------------------------------------------------------
(* The client reads when it wants to, and may close the stream.             *)

Receive ==
    /\ channel # <<>> /\ ~closed
    /\ got' = got \o channel /\ channel' = <<>>
    /\ UNCHANGED <<snapshot, stopped, mempool, pc, tip, transactions, seen, closed, reads>>

Close ==
    /\ pc \notin {"idle", "first"} /\ ~closed
    /\ closed' = TRUE
    /\ UNCHANGED <<snapshot, stopped, mempool, pc, tip, transactions, seen, channel, got, reads>>

Producer ==
    \/ Read("first", "refused") \/ Read("reading", "failing")
    \/ OnTipChanged \/ Skip \/ Take \/ Send \/ AllSent \/ OnClosed \/ SendFailure

Next == Publish \/ FollowerEnds \/ MempoolMoves \/ Call \/ Producer \/ Wake \/ Receive \/ Close

(* Fairness: the runtime polls the producer, and each call of the node      *)
(* returns.  Nothing is asked of the client, the follower or the mempool.   *)
Spec == Init /\ [][Next]_vars /\ WF_vars(Producer)

-----------------------------------------------------------------------------
Ended == pc \in {"done", "refused"}
Items == got \o channel

(* Type invariant: the channel holds one item, and the producer is at one   *)
(* of its awaits.                                                           *)
MempoolTypeOK ==
    /\ Len(channel) <= 1 /\ seen \subseteq Txs /\ Range(Items) \subseteq Txs \cup {"status"}
    /\ pc \in {"idle", "first", "sending", "offering", "waiting", "reading", "failing",
               "done", "refused"}

(* The client gets each transaction once, however often the mempool is read *)
(* and whatever leaves and comes back, and nothing after the failure.       *)
EachTransactionOnce ==
    /\ IsInjective(Items)
    /\ \A i \in 1 .. Len(Items) - 1 : Items[i] # "status"

(* A transaction is sent only under the tip of the stream, while that tip   *)
(* is served: the wallet never takes a transaction for one of the mempool   *)
(* above a tip that the server has left.                                    *)
SentUnderTheTip ==
    [][channel' # channel /\ channel' # <<>> /\ channel'[1] # "status" =>
           snapshot.visible_tip = tip /\ TipReady(snapshot) /\ ~stopped]_vars

(* A stream that ends with no failure while the client still listens ended  *)
(* at a new tip: a stale head, a deep reorg recovery, a failed read and the *)
(* end of the follower reach the client as a failure.                       *)
CleanEndIsANewTip ==
    [][pc' = "done" /\ pc # "done" /\ ~closed =>
           \/ snapshot.visible_tip # tip /\ TipReady(snapshot)
           \/ channel' = <<"status">>]_vars

LeftBehindIsOver ==
    snapshot.visible_tip # tip /\ TipReady(snapshot) /\ pc # "idle" => Ended \/ pc = "failing"
ClosedIsOver == closed => Ended

(* After a new ready tip the producer ends, also when the client reads      *)
(* nothing; after the client closed the stream it ends in each case. So an  *)
(* idle stream holds no task.                                               *)
StreamEnds == []<>LeftBehindIsOver /\ []<>ClosedIsOver
=============================================================================
