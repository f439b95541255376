----------------------------- MODULE MCAccess -----------------------------
(***************************************************************************)
(* The calls to the node and the connections of clients, on small          *)
(* instances: the RPC client, the mempool cache of the remote backend, the *)
(* mempool stream and the peer-to-peer service. Each behaviour is one of   *)
(* one part, which the initial state chooses, and the variables of the     *)
(* other parts stay.                                                       *)
(***************************************************************************)
EXTENDS RpcClient

VARIABLES
  part,
  \* of RpcClient with the cookie file
  cookie_up, cookie_file, cookie_header, cookie_call, cookie_wire, cookie_runs,
  cookie_restarts, cookie_failed,
  \* of RemoteMempool
  at, moves, failures, cache, answer, cache_call,
  \* of MempoolStream
  snapshot, stopped, mempool, pc, tip, transactions, seen, channel, got, closed, reads,
  \* of P2pService
  compact, active, open, cancelled, conn

cookieVars == <<cookie_up, cookie_file, cookie_header, cookie_call, cookie_wire,
                cookie_runs, cookie_restarts, cookie_failed>>
cacheVars == <<at, moves, failures, cache, answer, cache_call>>
streamVars == <<snapshot, stopped, mempool, pc, tip, transactions, seen, channel, got,
                closed, reads>>
peerVars == <<compact, active, open, cancelled, conn>>

-----------------------------------------------------------------------------
(* RpcClient with the cookie file: one call, two retries and two restarts  *)
(* of the node.  The extended module has a fixed password: one call that   *)
(* must not run twice beside one that may.                                 *)

WithCookie == INSTANCE RpcClient
  WITH Calls <- {"read"}, UnsentCalls <- {}, IsCookie <- TRUE, max_retries <- 2,
       MaxRestarts <- 2, up <- cookie_up, cookie <- cookie_file, auth_header <- cookie_header,
       call <- cookie_call, wire <- cookie_wire, runs <- cookie_runs,
       restarts <- cookie_restarts, readFailed <- cookie_failed

-----------------------------------------------------------------------------
(* RemoteMempool: a read and a GetTransaction that overlap in each way.    *)

Cache == INSTANCE RemoteMempool
  WITH Txs <- {"t1", "t2"}, Reads <- {"r1"}, Gets <- {"g1"}, Wanted <- "t1",
       MEMPOOL_FETCHES <- 2, MaxMoves <- 2, MaxFailures <- 1, mempool <- cache,
       call <- cache_call

-----------------------------------------------------------------------------
(* MempoolStream: one stream over two transactions and one new tip.        *)

Stream == INSTANCE MempoolStream WITH Txs <- {"t1", "t2"}, MaxTip <- 1, MaxReads <- 3

-----------------------------------------------------------------------------
(* P2pService: responses of length zero, of one and two whole frames and   *)
(* at the limit of a message; and two connections of one peer.             *)

Frames == INSTANCE P2pService
  WITH Conns <- {"c1"}, FRAME_PAYLOAD_BYTES <- 2, MAX_MESSAGE_BYTES <- 4,
       ItemLens <- {0, 3, 4}, MaxItems <- 1, MaxFrames <- 3
Peers == INSTANCE P2pService
  WITH Conns <- {"c1", "c2"}, FRAME_PAYLOAD_BYTES <- 2, MAX_MESSAGE_BYTES <- 4,
       ItemLens <- {1}, MaxItems <- 1, MaxFrames <- 1

ASSUME PartAssumptions ==
  /\ Cache!MempoolBounds /\ Stream!StreamBounds /\ Frames!P2pBounds /\ Peers!P2pBounds

-----------------------------------------------------------------------------

NoCookie ==
  /\ cookie_up = 0 /\ cookie_file = 0 /\ cookie_header = 0 /\ cookie_call = 0
  /\ cookie_wire = 0 /\ cookie_runs = 0 /\ cookie_restarts = 0 /\ cookie_failed = 0
NoCache ==
  /\ at = 0 /\ moves = 0 /\ failures = 0 /\ cache = 0 /\ answer = 0
  /\ cache_call = [c \in {"r1", "g1"} |-> [pc |-> "off"]]
NoStream ==
  /\ snapshot = 0 /\ stopped = 0 /\ mempool = 0 /\ pc = "off" /\ tip = 0 /\ transactions = 0
  /\ seen = 0 /\ channel = <<>> /\ got = 0 /\ closed = 0 /\ reads = 0
NoPeer ==
  /\ compact = 0 /\ active = 0 /\ open = 0 /\ cancelled = 0 /\ conn = 0

AccessInit ==
  /\ Init
  /\ \/ part = "rpc" /\ NoCookie /\ NoCache /\ NoStream /\ NoPeer
     \/ part = "cookie" /\ WithCookie!Init /\ NoCache /\ NoStream /\ NoPeer
     \/ part = "cache" /\ Cache!Init /\ NoCookie /\ NoStream /\ NoPeer
     \/ part = "stream" /\ Stream!Init /\ NoCookie /\ NoCache /\ NoPeer
     \/ part = "frames" /\ Frames!Init /\ NoCookie /\ NoCache /\ NoStream
     \/ part = "peers" /\ Peers!Init /\ NoCookie /\ NoCache /\ NoStream

AccessNext ==
  \/ part = "rpc" /\ Next /\ UNCHANGED <<part, cookieVars, cacheVars, streamVars, peerVars>>
  \/ part = "cookie" /\ WithCookie!Next
     /\ UNCHANGED <<part, vars, cacheVars, streamVars, peerVars>>
  \/ part = "cache" /\ Cache!Next
     /\ UNCHANGED <<part, vars, cookieVars, streamVars, peerVars>>
  \/ part = "stream" /\ Stream!Next
     /\ UNCHANGED <<part, vars, cookieVars, cacheVars, peerVars>>
  \/ part = "frames" /\ Frames!Next
     /\ UNCHANGED <<part, vars, cookieVars, cacheVars, streamVars>>
  \/ part = "peers" /\ Peers!Next
     /\ UNCHANGED <<part, vars, cookieVars, cacheVars, streamVars>>

AccessSpec ==
  /\ AccessInit /\ [][AccessNext]_<<part, vars, cookieVars, cacheVars, streamVars, peerVars>>

-----------------------------------------------------------------------------
(* The properties of the parts *)

\* RpcClient: a call that begins after the last restart of the node does not fail for its
\* cookie, and restarts and rejected cookies give it one more attempt at most.
CookieCallHasTheCookie ==
  part = "cookie" => WithCookie!CallAfterRestartHasTheCookie /\ WithCookie!AttemptsAreBounded
\* RemoteMempool: a read that skips nothing gives each transaction that stayed in the
\* mempool, and a read without an overlap leaves only transactions of its answer in the
\* cache.
MempoolReadIsWhole ==
  [](part = "cache" => Cache!ReadIsWhole) /\ Cache!ReadAloneCleansTheCache
\* MempoolStream: a stream sends each transaction once and only under its tip, and it ends
\* without an error only when the tip is another one.
StreamIsOfOneTip ==
  /\ [](part = "stream" => Stream!MempoolTypeOK /\ Stream!EachTransactionOnce)
  /\ Stream!SentUnderTheTip /\ Stream!CleanEndIsANewTip
\* P2pService: the peer joins the messages that were sent, each answer ends once and before
\* the next, an incomplete request takes at most one message, and the service owns the
\* connections that its tasks serve.
PeerAnswersAreWhole ==
  /\ part = "frames" => Frames!PeerAnswersAreWhole
  /\ part = "peers" => Peers!OwnsTheServedConnections
=============================================================================
