---------------------------- MODULE RangeStream ----------------------------
(***************************************************************************)
(* A GetBlockRange stream (ztreamer-service, CompactService::range_as)     *)
(* beside the head follower.                                               *)
(*                                                                         *)
(* The stream keeps the serving snapshot of its request.  It reads chunks  *)
(* as the client takes them: the blocks above the durable tip of the       *)
(* snapshot from the snapshot, the others from the index as it is then.    *)
(* Between two chunks the follower may write any number of generations.    *)
(***************************************************************************)
EXTENDS HeadFollower

CONSTANTS
  CHUNK,    \* the blocks in a chunk (64 in the code)
  Requests, \* <<start, end>>: the ranges that clients ask for
  OverflowChecks  \* of the builds: TRUE in dev and test builds, FALSE in release

ASSUME RequestAssumption ==
  /\ CHUNK \in Nat \ {0} /\ Requests \subseteq Nat \X Nat
  /\ OverflowChecks \subseteq BOOLEAN

VARIABLE stream   \* the stream and what it has sent

streamVars == <<headVars, stream>>

NoStream == [pc |-> "none", start |-> 0, end |-> 0, cursor |-> 0,
             snapshot |-> NoBlock, sent |-> <<>>]
Reading == stream.pc = "reading"
ascending == stream.start <= stream.end
\* The height up to which the stream reads from the index.
DurableHeight == stream.snapshot.durable_tip.height
durable == stream.cursor <= DurableHeight

\* ensure_ready, the bound of the visible tip, and a fresh tip unless the range
\* is durable.
OpenStream(start, end) ==
  LET visible == Height[VisibleTip(snapshot.durable_tip, snapshot.volatile_head)]
      Within(limit) == start <= limit /\ end <= limit
  IN  /\ stream.pc = "none"
      /\ snapshot.ready
      /\ Within(visible)
      /\ snapshot.tip_fresh \/ Within(snapshot.durable_tip.height)
      /\ stream' = [NoStream EXCEPT !.pc = "reading", !.start = start, !.end = end,
                                    !.cursor = start, !.snapshot = snapshot]
      /\ UNCHANGED headVars

\* A chunk ends at the border of the durable blocks.
\* (UncutChunkEnd: a mutant that does not stop there.)
UncutChunkEnd ==
  IF ascending THEN Minimum(stream.cursor + CHUNK - 1, stream.end)
               ELSE Maximum(stream.cursor - CHUNK + 1, stream.end)
ChunkEnd ==
  LET full == IF ascending THEN Minimum(stream.cursor + CHUNK - 1, stream.end)
                           ELSE Maximum(stream.cursor - CHUNK + 1, stream.end)
  IN  IF ascending /\ durable THEN Minimum(full, DurableHeight)
      ELSE IF ~ascending /\ ~durable THEN Maximum(full, DurableHeight + 1)
      ELSE full

\* The heights of the chunk in the order of the stream.
ChunkHeights ==
  [i \in 1..(IF ascending THEN ChunkEnd - stream.cursor ELSE stream.cursor - ChunkEnd) + 1 |->
     IF ascending THEN stream.cursor + i - 1 ELSE stream.cursor - i + 1]

\* read_blocks at the latest generation, or the volatile head of the snapshot.
Volatile(h) == {b \in {stream.snapshot.volatile_head[i] :
                         i \in 1..Len(stream.snapshot.volatile_head)} : Height[b] = h}
Readable(h) == IF durable THEN Covers(h) ELSE Volatile(h) # {}
Record(h) == IF durable THEN Read(h) ELSE CHOOSE b \in Volatile(h) : TRUE
CanReadChunk == \A i \in 1..Len(ChunkHeights) : Readable(ChunkHeights[i])
Chunk == [i \in 1..Len(ChunkHeights) |-> Record(ChunkHeights[i])]

\* The chunk must link to the block that was sent last.
\* (AnyChunk: a mutant without the check.)
Follows(b, last) == IF ascending THEN Prev[b] = last ELSE Prev[last] = b
AnyChunk == TRUE
Continuous ==
  stream.sent # <<>> => Follows(Chunk[1], stream.sent[Len(stream.sent)])

\* The cursor goes on unless the chunk was the last one.  The argument of
\* then_some is computed for the last chunk too: below height 0 the u32 wraps
\* and is dropped, or a build with overflow checks panics.
AtEnd == ChunkEnd = stream.end
NextCursor ==
  IF AtEnd THEN stream.cursor ELSE IF ascending THEN ChunkEnd + 1 ELSE ChunkEnd - 1

BelowZero == ~ascending /\ ChunkEnd = 0
SendChunk ==
  /\ Reading /\ CanReadChunk /\ Continuous
  /\ BelowZero => FALSE \in OverflowChecks
  /\ stream' = [stream EXCEPT !.sent = @ \o Chunk,
                              !.pc = IF AtEnd THEN "done" ELSE "reading",
                              !.cursor = NextCursor]
  /\ UNCHANGED headVars

\* The panic drops the chunk and the connection of the client.
PanicStream ==
  /\ Reading /\ CanReadChunk /\ Continuous
  /\ BelowZero /\ TRUE \in OverflowChecks
  /\ stream' = [stream EXCEPT !.pc = "panicked"]
  /\ UNCHANGED headVars

\* The stream ends with an error: the index no longer has a height
\* (Coverage), or the chunk does not link (reorganized).
FailStream ==
  /\ Reading /\ (CanReadChunk => ~Continuous)
  /\ stream' = [stream EXCEPT !.pc = "failed"]
  /\ UNCHANGED headVars

-----------------------------------------------------------------------------

StreamInit == HeadInit /\ stream = NoStream
StreamNext ==
  \/ (FollowerStep \/ NodeMoves) /\ UNCHANGED stream
  \/ \E r \in Requests : OpenStream(r[1], r[2])
  \/ SendChunk
  \/ PanicStream
  \/ FailStream
StreamSpec == StreamInit /\ [][StreamNext]_streamVars

-----------------------------------------------------------------------------
(* Properties *)

\* The types of the stream; the cursor does not wrap below height 0.
StreamTypeOK ==
  stream \in [pc : {"none", "reading", "done", "failed", "panicked"}, start : Nat, end : Nat,
              cursor : Nat, snapshot : Snapshots \cup {NoBlock}, sent : Seq(Block)]

\* The client gets one hash chain without a gap, in the order it asked for,
\* although the chunks come from different generations of the index and from
\* an older snapshot.
StreamIsOneChain ==
  \A i \in 1..Len(stream.sent) :
    /\ Height[stream.sent[i]] = IF ascending THEN stream.start + i - 1
                                             ELSE stream.start - i + 1
    /\ i > 1 => Follows(stream.sent[i], stream.sent[i - 1])

\* A stream that ends without an error sent the whole range.
DoneStreamIsComplete ==
  stream.pc = "done" =>
    /\ stream.sent # <<>>
    /\ Height[stream.sent[Len(stream.sent)]] = stream.end

\* The list of blocks "is inclusive of `range.end`" in both orders, unless the
\* stream ends with an error.
RangeIsInclusive ==
  stream.pc \in {"done", "panicked"} =>
    stream.sent # <<>> /\ Height[stream.sent[Len(stream.sent)]] = stream.end

\* "reorganized" is true: a stream fails only when the index has lost or
\* replaced a durable block of the chain that the request saw, now or when an
\* earlier chunk was read.  Growth of the chain, and blocks that become
\* durable or sealed, never end a stream.
StreamFailsOnlyOnReorg ==
  [][Reading /\ stream'.pc = "failed" =>
       LET seen == Chain[VisibleTip(stream.snapshot.durable_tip,
                                    stream.snapshot.volatile_head)]
       IN  \/ \E h \in 0..DurableHeight : ~Covers(h) \/ Read(h) # seen[h + 1]
           \/ \E i \in 1..Len(stream.sent) :
                stream.sent[i] # seen[Height[stream.sent[i]] + 1]]_streamVars

\* What a stream has sent is one hash chain in the order of the request, whatever the follower
\* wrote between two chunks, and all of the range when it ends without an error.
StreamIsOneWholeChain == StreamTypeOK /\ StreamIsOneChain /\ DoneStreamIsComplete
=============================================================================
