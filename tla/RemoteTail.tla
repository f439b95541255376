----------------------------- MODULE RemoteTail -----------------------------
(***************************************************************************)
(* The catch-up from a remote node: the passes of sync_until_stable        *)
(* (ztreamer-sync) over RemoteTailSource (ztreamer-remote).                *)
(*                                                                         *)
(* Each call to the node is a step, and the node changes its best chain    *)
(* between any two of them.  Each worker keeps several requests in flight  *)
(* ahead of the block that it sends.  Module Pipeline has the flow control *)
(* and the batches of a pass; here a batch is any run of the blocks that   *)
(* are next.                                                               *)
(***************************************************************************)
EXTENDS Naturals, Sequences, SequencesExt, FiniteSets

CONSTANTS
    Nodes,                  \* the best chains of the node: sequences of blocks from genesis
    Old,                    \* what the index has at the start: a sequence of blocks
    TooLarge,               \* the blocks above max_source_bytes
    Worker,
    source_segment_blocks, requests_in_flight,
    SEAL_DEPTH,
    MaxMoves,               \* bound: changes of the best chain
    MaxFaults,              \* bound: failed calls
    CanStop                 \* whether the stop flag can be set

Blocks == UNION {Range(c) : c \in Nodes \cup {Old}}
Pos(b) == CHOOSE i \in 1..20 : \E c \in Nodes \cup {Old} : i \in DOMAIN c /\ c[i] = b
Height(b) == Pos(b) - 1
\* The header of b names p as the block before it.
Links(p, b) == \E c \in Nodes \cup {Old} : \E i \in 2..Len(c) : c[i - 1] = p /\ c[i] = b

TailBounds ==
    /\ \A c, d \in Nodes \cup {Old} : \A i \in DOMAIN c : \A j \in DOMAIN d :
          c[i] = d[j] => i = j /\ SubSeq(c, 1, i) = SubSeq(d, 1, j)
    /\ \A c \in Nodes : Len(c) > 0
    /\ source_segment_blocks \in Nat \ {0} /\ requests_in_flight \in Nat \ {0}
    /\ SEAL_DEPTH \in Nat /\ MaxMoves \in Nat /\ MaxFaults \in Nat /\ CanStop \in BOOLEAN

VARIABLES
    node, moves, faults, stop,
    chain,      \* the durable blocks of the index
    pass,       \* sync_until_stable: [pc, previous, best, target, tip]
    next,       \* the first height that no worker claimed
    worker,     \* worker -> [pc, heights, end, pending]
    parsed,     \* the blocks that the workers sent and that are not written
    seen        \* the best chains of the node since the pass began

vars == <<node, moves, faults, stop, chain, pass, next, worker, parsed, seen>>

None == "none"
NodeAt(h) == IF h < Len(node) THEN node[h + 1] ELSE None
DurableTip == IF chain = <<>> THEN None ELSE Last(chain)
NextHeight == Len(chain)   \* next_height

Idle == [pc |-> "claim", heights |-> {}, end |-> 0, pending |-> <<>>]

Init ==
    /\ node \in Nodes /\ moves = 0 /\ faults = 0 /\ stop = FALSE
    /\ chain = Old
    /\ pass = [pc |-> "best", previous |-> "start", best |-> 0, target |-> 0, tip |-> None]
    /\ next = 0 /\ worker = [w \in Worker |-> Idle] /\ parsed = {} /\ seen = {node}

NodeMoves ==
    /\ moves < MaxMoves /\ moves' = moves + 1
    /\ node' \in Nodes \ {node}
    /\ seen' = seen \cup {node'}
    /\ UNCHANGED <<faults, stop, chain, pass, next, worker, parsed>>

SetStop ==
    /\ CanStop /\ ~stop /\ stop' = TRUE
    /\ UNCHANGED <<node, moves, faults, chain, pass, next, worker, parsed, seen>>

-----------------------------------------------------------------------------
(* sync: the plan of a pass *)

Rests == UNCHANGED <<node, moves, stop, chain>>
PlanRests == Rests /\ UNCHANGED <<faults, parsed>>

\* A pass that ended gives the state of the index; two with the same durable tip are stable.
Ended(p) == IF stop \/ p.previous = DurableTip THEN [p EXCEPT !.pc = "ok"]
            ELSE [p EXCEPT !.pc = "best", !.previous = DurableTip]

\* tail_tip: getblockchaininfo ...
ReadBest ==
    /\ pass.pc = "best"
    /\ LET best == Len(node) - 1
           tail == IF best > SEAL_DEPTH THEN best - SEAL_DEPTH ELSE 0 IN
       pass' = [pass EXCEPT !.pc = IF tail = best THEN "check" ELSE "tail",
                            !.best = best, !.target = tail, !.tip = Last(node)]
    /\ seen' = {node}
    /\ PlanRests /\ UNCHANGED <<next, worker>>

\* ... and getblockhash: the block at that height now, of which the node may have none.
ReadTail ==
    /\ pass.pc = "tail"
    /\ pass' = [pass EXCEPT !.pc = IF NodeAt(pass.target) = None THEN "error" ELSE "check",
                            !.tip = NodeAt(pass.target)]
    /\ PlanRests /\ UNCHANGED <<next, worker, seen>>

\* (CheckNothing: a mutant that trusts the durable tip.)
CheckNothing ==
    /\ pass.pc = "check"
    /\ pass' = IF NextHeight > pass.target THEN Ended(pass) ELSE [pass EXCEPT !.pc = "run"]
    /\ next' = NextHeight /\ worker' = [w \in Worker |-> Idle]
    /\ PlanRests /\ UNCHANGED seen
CheckDurableTip ==
    /\ pass.pc = "check"
    /\ pass' = IF DurableTip # None /\ Height(DurableTip) > pass.target THEN Ended(pass)
               ELSE IF DurableTip # None /\ NodeAt(Height(DurableTip)) # DurableTip
                    THEN [pass EXCEPT !.pc = "mismatch"]
               ELSE IF NextHeight > pass.target THEN Ended(pass)
               ELSE [pass EXCEPT !.pc = "run"]
    /\ next' = NextHeight /\ worker' = [w \in Worker |-> Idle]
    /\ PlanRests /\ UNCHANGED seen

CallFails ==
    /\ pass.pc \in {"best", "tail", "check"}
    /\ faults < MaxFaults /\ faults' = faults + 1
    /\ pass' = [pass EXCEPT !.pc = "error"]
    /\ Rests /\ UNCHANGED <<next, worker, parsed, seen>>

-----------------------------------------------------------------------------
(* The workers: process_segments and RemoteTailSource::process_segment *)

Running == pass.pc = "run"
\* A failed worker or builder cancels the channel, and a stop does.
Cancelled == stop \/ pass.pc = "broken" \/ \E w \in Worker : worker[w].pc = "failed"
WorkerRests == Rests /\ UNCHANGED <<pass, seen>>
NewRequest(h) == [height |-> h, answer |-> "running"]

\* BlockRequests::fill.
Fill(s) ==
    LET n == Cardinality(s.heights)
        room == requests_in_flight - Len(s.pending)
        k == IF n < room THEN n ELSE room
        first == s.end + 1 - n IN
    [s EXCEPT !.heights = {h \in @ : h >= first + k},
              !.pending = @ \o [i \in 1..k |-> NewRequest(first + i - 1)]]

Claim(w) ==
    /\ pass.pc \in {"run", "broken"} /\ worker[w].pc = "claim"
    /\ LET end == IF next + source_segment_blocks - 1 < pass.target
                  THEN next + source_segment_blocks - 1 ELSE pass.target IN
       worker' = [worker EXCEPT ![w] =
                    IF stop \/ next > pass.target THEN [@ EXCEPT !.pc = "done"]
                    ELSE Fill([pc |-> "read", heights |-> next..end, end |-> end,
                               pending |-> <<>>])]
    /\ next' = IF stop THEN next ELSE next + source_segment_blocks
    /\ WorkerRests /\ UNCHANGED <<faults, parsed>>

\* The node answers getblock for a height with its block there now, or the call fails.
Answer(w, i) ==
    /\ i \in DOMAIN worker[w].pending /\ worker[w].pending[i].answer = "running"
    /\ \/ /\ worker' = [worker EXCEPT ![w].pending[i].answer =
                                      NodeAt(worker[w].pending[i].height)]
          /\ UNCHANGED faults
       \/ /\ faults < MaxFaults /\ faults' = faults + 1
          /\ worker' = [worker EXCEPT ![w].pending[i].answer = None]
    /\ WorkerRests /\ UNCHANGED <<next, parsed>>

\* The checks of process_segment: the node has the block, it is not too large, and the block at
\* the end of the pass is the tip of the plan.
Accepts(block) ==
    /\ block # None /\ block \notin TooLarge
    /\ Height(block) = pass.target => block = pass.tip

\* BlockRequests::next and SegmentSender::send; a worker drops its requests when it ends.
NextBlock(w) ==
    /\ worker[w].pc = "read" /\ worker[w].pending # <<>>
    /\ LET block == Head(worker[w].pending).answer
           left == Fill([worker[w] EXCEPT !.pending = Tail(@)]) IN
       /\ block # "running"
       /\ IF ~Accepts(block)
          THEN worker' = [worker EXCEPT ![w] = [Idle EXCEPT !.pc = "failed"]] /\ UNCHANGED parsed
          ELSE IF Cancelled
          THEN worker' = [worker EXCEPT ![w] = [Idle EXCEPT !.pc = "stopped"]] /\ UNCHANGED parsed
          ELSE /\ parsed' = parsed \cup {block}
               /\ worker' = [worker EXCEPT ![w] = IF left.pending = <<>> THEN Idle ELSE left]
    /\ WorkerRests /\ UNCHANGED <<next, faults>>

-----------------------------------------------------------------------------
(* The builder and the writer, and the end of the pass *)

\* The parsed blocks that follow the durable tip without a gap in their heights.
ReadyCount ==
    CHOOSE n \in 0..Cardinality(parsed) :
       /\ \A i \in 1..n : \E b \in parsed : Height(b) = NextHeight + i - 1
       /\ ~\E b \in parsed : Height(b) = NextHeight + n
Ready == [i \in 1..ReadyCount |-> CHOOSE b \in parsed : Height(b) = NextHeight + i - 1]
LinksUp(blocks) ==
    LET all == (IF chain = <<>> THEN <<>> ELSE <<DurableTip>>) \o blocks IN
    \A i \in 2..Len(all) : Links(all[i - 1], all[i])

\* build_batch checks the links of a batch; the writer commits it.
Write ==
    /\ Running
    /\ \E n \in 1..ReadyCount :
          LET batch == SubSeq(Ready, 1, n) IN
          IF LinksUp(batch)
          THEN chain' = chain \o batch /\ parsed' = parsed \ Range(batch) /\ UNCHANGED pass
          ELSE pass' = [pass EXCEPT !.pc = "broken"] /\ UNCHANGED <<chain, parsed>>
    /\ UNCHANGED <<node, moves, faults, stop, next, worker, seen>>

\* run_pass joins its threads and gives the first error. A stop may leave the tip low.
EndPass ==
    /\ pass.pc \in {"run", "broken"} /\ \A w \in Worker : worker[w].pc \in {"done", "failed", "stopped"}
    /\ Running => ReadyCount = 0
    /\ pass' = IF pass.pc = "broken" \/ \E w \in Worker : worker[w].pc = "failed"
                  \/ (~stop /\ (DurableTip = None \/ Height(DurableTip) # pass.target))
               THEN [pass EXCEPT !.pc = "error"]
               ELSE Ended(pass)
    /\ parsed' = {}
    /\ UNCHANGED <<node, moves, faults, stop, chain, next, worker, seen>>

Plan == ReadBest \/ ReadTail \/ CheckDurableTip
WorkerStep(w) == Claim(w) \/ NextBlock(w)
Answers(w) == \E i \in 1..requests_in_flight : Answer(w, i)
Next ==
    \/ NodeMoves \/ SetStop \/ CallFails \/ Plan
    \/ \E w \in Worker : WorkerStep(w) \/ Answers(w)
    \/ Write \/ EndPass

\* The threads run, and each call to the node returns (the client has a time limit).
Spec ==
    /\ Init /\ [][Next]_vars
    /\ WF_vars(Plan) /\ WF_vars(Write) /\ WF_vars(EndPass)
    /\ \A w \in Worker : WF_vars(WorkerStep(w)) /\ WF_vars(Answers(w))

-----------------------------------------------------------------------------
(* Properties *)

\* The durable blocks are one chain, although the workers read the heights from different best
\* chains of the node.
IndexIsOneChain == \A i \in 2..Len(chain) : Links(chain[i - 1], chain[i])

\* "The pass is planned from one `tip` call and ends with an error if the source changes under
\* it": a pass that wrote blocks and ends without an error and without a stop ends at the block
\* that the plan named.
PassEndsAtItsTip ==
    [][pass.pc = "run" /\ pass'.pc \in {"best", "ok"} /\ ~stop => DurableTip = pass.tip]_vars

\* The durable tip that sync_until_stable gives was a block of the node's best chain during the
\* last pass, or is above the tail of the node (then the head follower compares it).
StableTipIsTheNodes ==
    pass.pc = "ok" /\ ~stop /\ NextHeight <= pass.target + 1 =>
       \E c \in seen : NextHeight <= Len(c) /\ SubSeq(c, 1, NextHeight) = chain

SyncIsOver == pass.pc \in {"ok", "error", "mismatch"}

\* The catch-up ends once the node keeps its best chain.
SyncEnds == <>[]SyncIsOver
=============================================================================
