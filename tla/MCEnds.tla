------------------------------ MODULE MCEnds ------------------------------
(***************************************************************************)
(* What must come to an end, on small instances: the daemon after a stop,  *)
(* and the calls, streams and tasks that it waits for. Each behaviour is   *)
(* one of one part, which the initial state chooses, and the variables of  *)
(* the other parts stay.                                                   *)
(***************************************************************************)
EXTENDS Naturals, Sequences

VARIABLES
  part,
  \* of Daemon
  remote, indexOnly, signal, shutdown, sup, queue, started, task, cause, outcome, main,
  work, indexed, passStopped, tip, unseen, health, streams, faulted,
  \* of EpochProof
  src, first, node, moves, pc, range, asked, sampled,
  \* of RangeFetch
  blobs, rows, serving, permits, busy, orphans, entries, epoch, places, fetch, error, calls,
  \* of AttestorCache
  map, filled, next, root_call,
  \* of RpcClient
  up, cookie, auth_header, call, wire, runs, restarts, readFailed,
  \* of MempoolStream
  snapshot, stopped, mempool, stream_pc, stream_tip, transactions, seen, channel, got,
  closed, reads,
  \* of P2pService
  compact, active, open, cancelled, conn

daemonVars == <<remote, indexOnly, signal, shutdown, sup, queue, started, task, cause,
                outcome, main, work, indexed, passStopped, tip, unseen, health, streams,
                faulted>>
proofVars == <<src, first, node, moves, pc, range, asked, sampled>>
fetchVars == <<blobs, rows, serving, permits, busy, orphans, entries, epoch, places, fetch,
               error, calls>>
rootsVars == <<map, filled, next, root_call>>
rpcVars == <<up, cookie, auth_header, call, wire, runs, restarts, readFailed>>
streamVars == <<snapshot, stopped, mempool, stream_pc, stream_tip, transactions, seen,
                channel, got, closed, reads>>
peersVars == <<compact, active, open, cancelled, conn>>

-----------------------------------------------------------------------------
(* The daemon in its four modes: embedded or remote, with or without       *)
(* `--index-only`.                                                         *)

Process == INSTANCE Daemon WITH EarlyWatch <- FALSE

-----------------------------------------------------------------------------
(* EpochProof: two ranges of two blocks.  Sapling is active from the       *)
(* start; Orchard becomes active at block 3, inside the second range.  A   *)
(* source gives the blocks of a branch of the node or others, and at most  *)
(* one wrong field.  (MCImport has many more sources.)                     *)

MCPool == {"sapling", "orchard"}
MCActive == [pool \in MCPool |-> IF pool = "sapling" THEN 0 ELSE 3]
MCBefore == [pool \in MCPool |-> IF pool = "sapling" THEN <<"s0">> ELSE <<>>]
Blocks(s1, s2, s4, o3, o4) ==
  <<[sapling |-> s1, orchard |-> <<>>], [sapling |-> s2, orchard |-> <<>>],
    [sapling |-> <<>>, orchard |-> o3], [sapling |-> s4, orchard |-> o4]>>
MCTruth == [x \in {"a", "b"} |->
  IF x = "a" THEN Blocks(<<"s1">>, <<"s2">>, <<"s3">>, <<>>, <<"o1">>)
             ELSE Blocks(<<"s1">>, <<>>, <<"s2">>, <<"o1">>, <<"o2">>)]
MCContents == {MCTruth["a"], MCTruth["b"], Blocks(<<"s1">>, <<>>, <<"s3">>, <<>>, <<"o1">>)}
MCDamages == {<<"none", 0>>, <<"link", 3>>, <<"frontier", 1>>}

Proof == INSTANCE EpochProof
  WITH Pool <- MCPool, Ranges <- 2, RANGE_SIZE <- 2, SubtreeSize <- 2, PER_RANGE <- 1,
       Branch <- {"a", "b"}, Truth <- MCTruth, Active <- MCActive, Before <- MCBefore,
       Contents <- MCContents, Damages <- MCDamages

-----------------------------------------------------------------------------
(* RangeFetch: blobs of one byte, and of two after a reorganization of the *)
(* peer, in chunks of one byte; one place and one permit.                  *)

Fetch == INSTANCE RangeFetch
  WITH Ranges <- 2, BlobLen <- <<1, 2>>, PEER_RANGE_STREAMS <- 1, MAX_RANGE_STREAMS <- 1,
       CHUNK_BYTES <- 1, RESUME_PROGRESS_BYTES <- 1, MAX_RESUMES_WITHOUT_PROGRESS <- 1,
       MaxRefusals <- 1, MaxOrphans <- 1

-----------------------------------------------------------------------------
(* AttestorCache: three calls for two heights, and a map with one place.   *)
(* RpcClient: a call that must not run twice beside one that may.          *)

RootCalls == {"c1", "c2", "c3"}
Roots == INSTANCE AttestorCache
  WITH Calls <- RootCalls, RootHeights <- {1, 2}, CACHE_CAPACITY <- 1, call <- root_call

RpcCalls == {"send", "read"}
Rpc == INSTANCE RpcClient
  WITH Calls <- RpcCalls, UnsentCalls <- {"send"}, IsCookie <- FALSE, max_retries <- 1,
       MaxRestarts <- 1

-----------------------------------------------------------------------------
(* MempoolStream: two transactions and one new tip.  P2pService: one       *)
(* connection, with responses of one and of two frames.                    *)

Stream == INSTANCE MempoolStream
  WITH Txs <- {"t1", "t2"}, MaxTip <- 1, MaxReads <- 3, pc <- stream_pc, tip <- stream_tip

PeerConns == {"c1"}
Peers == INSTANCE P2pService
  WITH Conns <- PeerConns, FRAME_PAYLOAD_BYTES <- 2, MAX_MESSAGE_BYTES <- 4,
       ItemLens <- {1, 3}, MaxItems <- 1, MaxFrames <- 2

ASSUME PartAssumptions ==
  /\ Proof!ProofAssumption /\ Fetch!FetchAssumption /\ Stream!StreamBounds
  /\ Peers!P2pBounds

-----------------------------------------------------------------------------

NoDaemon ==
  /\ remote = 0 /\ indexOnly = 0 /\ signal = 0 /\ shutdown = 0 /\ sup = 0 /\ queue = 0
  /\ started = 0 /\ task = 0 /\ cause = 0 /\ outcome = 0 /\ main = 0 /\ work = 0
  /\ indexed = 0 /\ passStopped = 0 /\ tip = 0 /\ unseen = 0 /\ health = 0 /\ streams = 0
  /\ faulted = 0
NoProof ==
  /\ src = 0 /\ first = 0 /\ node = 0 /\ moves = 0 /\ pc = 0 /\ range = 0 /\ asked = 0
  /\ sampled = 0
NoFetch ==
  /\ blobs = 0 /\ rows = 0 /\ serving = 0 /\ permits = 0 /\ busy = 0 /\ orphans = 0
  /\ entries = 0 /\ epoch = 0 /\ places = 0 /\ fetch = 0 /\ error = 0 /\ calls = 0
NoRoots ==
  /\ map = 0 /\ filled = 0 /\ next = 0 /\ root_call = 0
NoRpc ==
  /\ up = 0 /\ cookie = 0 /\ auth_header = 0 /\ call = 0 /\ wire = 0 /\ runs = 0
  /\ restarts = 0 /\ readFailed = 0
NoStream ==
  /\ snapshot = 0 /\ stopped = 0 /\ mempool = 0 /\ stream_pc = 0 /\ stream_tip = 0
  /\ transactions = 0 /\ seen = 0 /\ channel = 0 /\ got = 0 /\ closed = 0 /\ reads = 0
NoPeers ==
  /\ compact = 0 /\ active = 0 /\ open = 0 /\ cancelled = 0 /\ conn = 0

EndsInit ==
  \/ part = "daemon" /\ Process!Init
        /\ NoProof /\ NoFetch /\ NoRoots /\ NoRpc /\ NoStream /\ NoPeers
  \/ part = "proof" /\ Proof!Init
        /\ NoDaemon /\ NoFetch /\ NoRoots /\ NoRpc /\ NoStream /\ NoPeers
  \/ part = "fetch" /\ Fetch!Init
        /\ NoDaemon /\ NoProof /\ NoRoots /\ NoRpc /\ NoStream /\ NoPeers
  \/ part = "roots" /\ Roots!Init
        /\ NoDaemon /\ NoProof /\ NoFetch /\ NoRpc /\ NoStream /\ NoPeers
  \/ part = "rpc" /\ Rpc!Init
        /\ NoDaemon /\ NoProof /\ NoFetch /\ NoRoots /\ NoStream /\ NoPeers
  \/ part = "stream" /\ Stream!Init
        /\ NoDaemon /\ NoProof /\ NoFetch /\ NoRoots /\ NoRpc /\ NoPeers
  \/ part = "peers" /\ Peers!Init
        /\ NoDaemon /\ NoProof /\ NoFetch /\ NoRoots /\ NoRpc /\ NoStream

EndsNext ==
  \/ part = "daemon" /\ Process!Next
     /\ UNCHANGED <<part, proofVars, fetchVars, rootsVars, rpcVars, streamVars, peersVars>>
  \/ part = "proof" /\ Proof!Next
     /\ UNCHANGED <<part, daemonVars, fetchVars, rootsVars, rpcVars, streamVars, peersVars>>
  \/ part = "fetch" /\ Fetch!Next
     /\ UNCHANGED <<part, daemonVars, proofVars, rootsVars, rpcVars, streamVars, peersVars>>
  \/ part = "roots" /\ Roots!Next
     /\ UNCHANGED <<part, daemonVars, proofVars, fetchVars, rpcVars, streamVars, peersVars>>
  \/ part = "rpc" /\ Rpc!Next
     /\ UNCHANGED <<part, daemonVars, proofVars, fetchVars, rootsVars, streamVars, peersVars>>
  \/ part = "stream" /\ Stream!Next
     /\ UNCHANGED <<part, daemonVars, proofVars, fetchVars, rootsVars, rpcVars, peersVars>>
  \/ part = "peers" /\ Peers!Next
     /\ UNCHANGED <<part, daemonVars, proofVars, fetchVars, rootsVars, rpcVars, streamVars>>

\* The fairness of each part is the one that its module states.
EndsSpec ==
  /\ EndsInit /\ [][EndsNext]_<<part, daemonVars, proofVars, fetchVars, rootsVars, rpcVars,
                                streamVars, peersVars>>
  /\ WF_daemonVars(part = "daemon" /\ Process!Supervise)
  /\ WF_daemonVars(part = "daemon" /\ Process!Main)
  /\ WF_daemonVars(part = "daemon" /\ Process!EndWork)
  /\ WF_daemonVars(part = "daemon" /\ Process!UpdateHealth)
  /\ WF_daemonVars(part = "daemon" /\ Process!StopGrpc)
  /\ WF_daemonVars(part = "daemon" /\ Process!StopFiller)
  /\ WF_daemonVars(part = "daemon" /\ Process!StopHealth)
  /\ WF_daemonVars(part = "daemon" /\ Process!LoseSource)
  /\ \A t \in {"Zakura", "head follower"} : WF_daemonVars(part = "daemon" /\ Process!Stop(t))
  /\ \A s \in Process!Streams : WF_daemonVars(part = "daemon" /\ Process!EndStream(s))
  /\ WF_proofVars(part = "proof" /\ Proof!Verify)
  /\ \A r \in 1..2 : WF_fetchVars(part = "fetch" /\ Fetch!Work(r))
  /\ WF_fetchVars(part = "fetch" /\ Fetch!Collect)
  /\ WF_fetchVars(part = "fetch" /\ Fetch!OrphanEnds)
  /\ \A c \in RootCalls : WF_rootsVars(part = "roots" /\ Roots!Step(c))
  /\ \A c \in RpcCalls : WF_rpcVars(part = "rpc" /\ Rpc!Timeout(c))
  /\ \A c \in RpcCalls :
       WF_rpcVars(/\ part = "rpc"
                  /\ \/ Rpc!Send(c) \/ Rpc!ReadCookie(c)
                     \/ Rpc!ReloadCookie(c) \/ Rpc!Decide(c))
  /\ WF_streamVars(part = "stream" /\ Stream!Producer)
  /\ \A c \in PeerConns : WF_peersVars(part = "peers" /\ Peers!Task(c))

-----------------------------------------------------------------------------
(* The properties of the parts *)

\* Daemon: it ends without an error only after a signal or after `--index-only` is
\* complete, a stop by a signal alone is no error, and nothing holds the index any more.
DaemonEndsRight == part = "daemon" => Process!DaemonEndsRight
\* Daemon: a signal, a failed stage or the stop of one task ends the whole daemon, and no
\* client sees Serving for ever while the tip is not ready.
DaemonEnds ==
  /\ []<>(part = "daemon" => Process!StoppedIsDone)
  /\ []<>(part = "daemon" => (health = "Serving" => tip))
\* EpochProof: the epoch of a source that gives the blocks of the node is accepted.
HonestEpochIsAccepted == <>[](part = "proof" => Proof!Settled)
\* What the daemon waits for ends: the fetch of an epoch, with its blobs or with an error;
\* a call for roots, also when the call that it waits for failed; an RPC call, also when
\* the node stops, hangs or refuses it; a mempool stream after a new tip and after its
\* client left; and the task of a connection that went away.
CallsAndTasksEnd ==
  /\ []<>(part = "fetch" => Fetch!NoEpochInWork)
  /\ \A c \in RootCalls : []<>(part = "roots" => root_call[c].pc # "wait")
  /\ \A c \in RpcCalls : <>[](part = "rpc" => Rpc!Done(c))
  /\ []<>(part = "stream" => Stream!LeftBehindIsOver)
  /\ []<>(part = "stream" => Stream!ClosedIsOver)
  /\ \A c \in PeerConns : []<>(part = "peers" => Peers!GoneIsEnded(c))
=============================================================================
