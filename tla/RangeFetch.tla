----------------------------- MODULE RangeFetch -----------------------------
(***************************************************************************)
(* A replica fetches the blobs of one epoch from a peer: Fetcher and       *)
(* PeerSource of ztreamer-import against ReplicatorService of              *)
(* ztreamer-replicator, over connections that break, while the index of    *)
(* the peer moves.                                                         *)
(*                                                                         *)
(* A blob is a sequence of bytes; a byte is the version of its blob and    *)
(* its place.  The digest of a blob is the blob.  A deep reorganization of *)
(* the peer replaces the blobs of a suffix of the ranges with version 2,   *)
(* of another length, and deletes their rows.  The source over HTTP has    *)
(* the same fetcher with answers that are a subset of these.               *)
(***************************************************************************)
EXTENDS Integers, Sequences, FiniteSets

CONSTANTS
  Ranges,                        \* the ranges of the epoch, 1..Ranges
  BlobLen,                       \* BlobLen[v]: the bytes of a blob of version v
  PEER_RANGE_STREAMS,            \* requests of the replica at a time
  MAX_RANGE_STREAMS,             \* GetRange streams of the peer at a time
  CHUNK_BYTES,                   \* the longest chunk
  RESUME_PROGRESS_BYTES,
  MAX_RESUMES_WITHOUT_PROGRESS,
  MaxRefusals,                   \* refusals of one open before MAX_WAIT_WITHOUT_BYTES
  MaxOrphans                     \* bound on the reads of dropped requests

FetchAssumption ==
  /\ \A c \in {Ranges, PEER_RANGE_STREAMS, MAX_RANGE_STREAMS, CHUNK_BYTES,
                RESUME_PROGRESS_BYTES} : c \in Nat \ {0}
  /\ BlobLen \in [1..2 -> Nat \ {0}]
  /\ MAX_RESUMES_WITHOUT_PROGRESS \in Nat /\ MaxRefusals \in Nat /\ MaxOrphans \in Nat

Range == 1..Ranges

VARIABLES
  \* the peer
  blobs,       \* blobs[r]: the version of the sealed range
  rows,        \* rows[r]: "none", "listed" or "rejected"
  serving,     \* the serving snapshot is ready, at the generation of the index
  permits,     \* free places of range_streams
  calls,       \* calls[r]: the GetRange call of the fetch: pc, current, version, offset
  busy,        \* streams of other replicas and of dropped requests
  orphans,     \* blocking reads whose request was dropped
  \* the replica
  entries,     \* the versions in the manifest, in height order
  epoch,       \* "list", "fetch", "ok" or "failed"
  places,      \* free places of the RequestLimit
  fetch,       \* fetch[r]: pc, buf, start, count, refusals, progress
  error        \* error[r]: why the fetch of r failed

peer == <<blobs, rows, serving>>
vars == <<blobs, rows, serving, permits, calls, busy, orphans, entries, epoch, places, fetch, error>>

Bytes(v) == [i \in 1..BlobLen[v] |-> <<v, i>>]
NoCall == [pc |-> "none", current |-> FALSE, version |-> 0, offset |-> 0]
NoFetch == [pc |-> "idle", buf |-> <<>>, start |-> 0, count |-> 0, refusals |-> 0, progress |-> 0]

-----------------------------------------------------------------------------
(* The index of the peer *)

\* Index::replace_deep_suffix: the generation moves, the snapshot follows later.  A read
\* at the old generation fails.
DeepReorg(r) ==
  /\ blobs[r] = 1
  /\ blobs' = [s \in Range |-> IF s >= r THEN 2 ELSE blobs[s]]
  /\ rows' = [s \in Range |-> IF s >= r THEN "none" ELSE rows[s]]
  /\ serving' = FALSE
  /\ calls' = [s \in Range |-> [calls[s] EXCEPT !.current = FALSE]]
  /\ UNCHANGED <<permits, busy, orphans, entries, epoch, places, fetch, error>>

Publish ==
  /\ ~serving /\ serving' = TRUE
  /\ UNCHANGED <<blobs, rows, permits, calls, busy, orphans, entries, epoch, places, fetch, error>>

PutRow(r, state) ==
  /\ rows[r] = "none" /\ rows' = [rows EXCEPT ![r] = state]
  /\ UNCHANGED <<blobs, serving, permits, calls, busy, orphans, entries, epoch, places, fetch, error>>

\* Another replica, and the end of a stream that no fetch reads.
OtherCall ==
  /\ permits > 0 /\ permits' = permits - 1 /\ busy' = busy + 1
  /\ UNCHANGED <<peer, calls, orphans, entries, epoch, places, fetch, error>>
BusyEnds ==
  /\ busy > 0 /\ permits' = permits + 1 /\ busy' = busy - 1
  /\ UNCHANGED <<peer, calls, orphans, entries, epoch, places, fetch, error>>
OrphanEnds ==
  /\ orphans > 0 /\ orphans' = orphans - 1
  /\ UNCHANGED <<peer, permits, calls, busy, entries, epoch, places, fetch, error>>

-----------------------------------------------------------------------------
(* PeerSource::manifest: the listed ranges up to the first gap *)

Listed == {r \in Range : \A s \in 1..r : rows[s] = "listed"}
Manifest ==
  /\ epoch = "list" /\ serving /\ Listed # {}
  /\ entries' = [r \in 1..Cardinality(Listed) |-> blobs[r]]
  /\ epoch' = "fetch"
  /\ fetch' = [r \in Range |-> IF r \in Listed THEN [NoFetch EXCEPT !.pc = "want"] ELSE NoFetch]
  /\ UNCHANGED <<peer, permits, calls, busy, orphans, places, error>>

-----------------------------------------------------------------------------
(* One transfer of a blob: RequestLimit::open_blob_stream, open_range_stream, GetRange *)

TakePlace(r) ==
  /\ epoch = "fetch" /\ fetch[r].pc = "want" /\ places > 0
  /\ places' = places - 1
  /\ fetch' = [fetch EXCEPT ![r] = [@ EXCEPT !.pc = "open", !.start = Len(fetch[r].buf), !.refusals = 0]]
  /\ UNCHANGED <<peer, permits, calls, busy, orphans, entries, epoch, error>>

\* StalledResumes::after, and the decision of Fetcher::blob after a transfer that failed.
Progressed(received, total) == received >= RESUME_PROGRESS_BYTES
\* ManifestEntry::check_blob.
CheckBlob(r, buf) == buf = Bytes(entries[r])

\* The transfer read to its end, or the blob has all its bytes: entry.check_blob.
Ends(r) ==
  LET ok == CheckBlob(r, fetch[r].buf) IN
  /\ fetch' = [fetch EXCEPT ![r].pc = IF ok THEN "done" ELSE "failed"]
  /\ error' = [error EXCEPT ![r] = IF ok THEN "none" ELSE "digest"]

Resumes(r) ==
  LET f == fetch[r]
      received == Len(f.buf) - f.start
  IN  IF Progressed(received, Len(f.buf))
      THEN /\ fetch' = [fetch EXCEPT ![r] = [f EXCEPT !.pc = "want", !.count = 0, !.progress = @ + 1]]
           /\ UNCHANGED error
      ELSE IF f.count = MAX_RESUMES_WITHOUT_PROGRESS
      THEN fetch' = [fetch EXCEPT ![r].pc = "failed"] /\ error' = [error EXCEPT ![r] = "transfer"]
      ELSE /\ fetch' = [fetch EXCEPT ![r] = [f EXCEPT !.pc = "wait", !.count = @ + 1]]
           /\ UNCHANGED error

\* A failed transfer drops its stream before the resume: the place is free.
\* FetchError::is_transfer decides if the fetch resumes.
\* (KeepsPlace: a mutant where a failed open keeps its place.)
Fails(r, is_transfer) ==
  /\ places' = places + 1
  /\ IF Len(fetch[r].buf) >= BlobLen[entries[r]] THEN Ends(r)
     ELSE IF is_transfer THEN Resumes(r)
     ELSE fetch' = [fetch EXCEPT ![r].pc = "failed"] /\ error' = [error EXCEPT ![r] = "refused"]
KeepsPlace(r, is_transfer) ==
  /\ UNCHANGED places
  /\ IF is_transfer THEN Resumes(r)
     ELSE fetch' = [fetch EXCEPT ![r].pc = "failed"] /\ error' = [error EXCEPT ![r] = "refused"]
FailedOpen(r, is_transfer) == Fails(r, is_transfer)

Resume(r) ==
  /\ epoch = "fetch" /\ fetch[r].pc = "wait"
  /\ fetch' = [fetch EXCEPT ![r].pc = "want"]
  /\ UNCHANGED <<peer, permits, calls, busy, orphans, entries, epoch, places, error>>

\* The offset of the request.  (FromTheStart: a mutant that asks for the whole blob again.)
FromTheStart(r) == 0
Offset(r) == Len(fetch[r].buf)

\* get_range to its read: the generation, then the permit.  RESOURCE_EXHAUSTED waits and
\* asks again, until MAX_WAIT_WITHOUT_BYTES gives FetchError::Stalled.
Ask(r) ==
  /\ epoch = "fetch" /\ fetch[r].pc = "open" /\ calls[r].pc = "none"
  /\ IF ~serving
     THEN FailedOpen(r, TRUE) /\ UNCHANGED <<permits, calls>>
     ELSE IF permits > 0
     THEN /\ permits' = permits - 1
          /\ calls' = [calls EXCEPT ![r] = [pc |-> "read", current |-> TRUE, version |-> 0,
                                            offset |-> Offset(r)]]
          /\ UNCHANGED <<places, fetch, error>>
     ELSE IF fetch[r].refusals < MaxRefusals
     THEN /\ fetch' = [fetch EXCEPT ![r].refusals = @ + 1]
          /\ UNCHANGED <<permits, calls, places, error>>
     ELSE FailedOpen(r, FALSE) /\ UNCHANGED <<permits, calls>>
  /\ UNCHANGED <<peer, busy, orphans, entries, epoch>>

\* The row and the blob, in one LMDB snapshot at the generation of the call.
Sends(r) == rows[r] = "listed" /\ calls[r].offset <= BlobLen[blobs[r]]
ReadRange(r) ==
  /\ epoch = "fetch" /\ calls[r].pc = "read"
  /\ IF calls[r].current /\ Sends(r)
     THEN /\ calls' = [calls EXCEPT ![r] = [@ EXCEPT !.pc = "stream", !.version = blobs[r]]]
          /\ fetch' = [fetch EXCEPT ![r].pc = "read"]
          /\ UNCHANGED <<permits, places, error>>
     ELSE /\ permits' = permits + 1
          /\ calls' = [calls EXCEPT ![r] = NoCall]
          /\ FailedOpen(r, ~calls[r].current)      \* UNAVAILABLE; NOT_FOUND, OUT_OF_RANGE
  /\ UNCHANGED <<peer, busy, orphans, entries, epoch>>

\* The next chunk.  More bytes than the entry gives stop the transfer.
Left(r) == BlobLen[calls[r].version] - calls[r].offset
Chunk(r, n) ==
  /\ epoch = "fetch" /\ fetch[r].pc = "read"
  /\ Len(fetch[r].buf) <= BlobLen[entries[r]]
  /\ n \in 1..CHUNK_BYTES /\ n <= Left(r)
  /\ fetch' = [fetch EXCEPT ![r].buf =
                 @ \o SubSeq(Bytes(calls[r].version), calls[r].offset + 1, calls[r].offset + n)]
  /\ calls' = [calls EXCEPT ![r].offset = @ + n]
  /\ UNCHANGED <<peer, permits, busy, orphans, entries, epoch, places, error>>

\* The end of the stream; the drop of the stream releases the place and, later, the permit.
TransferEnds(r) ==
  /\ epoch = "fetch" /\ fetch[r].pc = "read"
  /\ Left(r) = 0 \/ Len(fetch[r].buf) > BlobLen[entries[r]]
  /\ places' = places + 1 /\ busy' = busy + 1
  /\ calls' = [calls EXCEPT ![r] = NoCall]
  /\ Ends(r)
  /\ UNCHANGED <<peer, permits, orphans, entries, epoch>>

\* The connection breaks (is_transfer), or no byte comes for MAX_WAIT_WITHOUT_BYTES.  The
\* peer drops the stream or the call; the blocking read of a dropped call continues.
Broken(r, is_transfer) ==
  /\ epoch = "fetch" /\ fetch[r].pc \in {"open", "read"}
  /\ calls[r].pc = "read" => orphans < MaxOrphans
  /\ orphans' = IF calls[r].pc = "read" THEN orphans + 1 ELSE orphans
  /\ permits' = IF calls[r].pc = "read" THEN permits + 1 ELSE permits
  /\ busy' = IF calls[r].pc = "stream" THEN busy + 1 ELSE busy
  /\ calls' = [calls EXCEPT ![r] = NoCall]
  /\ Fails(r, is_transfer)
  /\ UNCHANGED <<peer, entries, epoch>>

-----------------------------------------------------------------------------
(* Fetcher::epoch_blobs *)

EpochDone ==
  /\ epoch = "fetch" /\ \A r \in DOMAIN entries : fetch[r].pc = "done"
  /\ epoch' = "ok"
  /\ UNCHANGED <<peer, permits, calls, busy, orphans, entries, places, fetch, error>>

\* The first failed blob in height order; the drop of the other fetches releases their
\* places and drops their streams and calls.
Holds(r) == fetch[r].pc \in {"open", "read"}
EpochFails(r) ==
  LET reads == {s \in Range : calls[s].pc = "read"}
      streams == {s \in Range : calls[s].pc = "stream"}
  IN  /\ epoch = "fetch" /\ fetch[r].pc = "failed"
      /\ \A s \in 1..(r - 1) : fetch[s].pc = "done"
      /\ orphans + Cardinality(reads) <= MaxOrphans
      /\ epoch' = "failed"
      /\ places' = places + Cardinality({s \in Range : Holds(s)})
      /\ fetch' = [s \in Range |-> IF fetch[s].pc \in {"done", "failed"} THEN fetch[s] ELSE NoFetch]
      /\ permits' = permits + Cardinality(reads)
      /\ orphans' = orphans + Cardinality(reads)
      /\ busy' = busy + Cardinality(streams)
      /\ calls' = [s \in Range |-> NoCall]
      /\ UNCHANGED <<peer, entries, error>>

-----------------------------------------------------------------------------

Init ==
  /\ blobs = [r \in Range |-> 1]
  /\ rows \in [Range -> {"none", "listed", "rejected"}]
  /\ serving = TRUE
  /\ permits = MAX_RANGE_STREAMS /\ busy = 0 /\ orphans = 0
  /\ calls = [r \in Range |-> NoCall]
  /\ entries = <<>> /\ epoch = "list"
  /\ places = PEER_RANGE_STREAMS
  /\ fetch = [r \in Range |-> NoFetch]
  /\ error = [r \in Range |-> "none"]

Peer ==
  \/ \E r \in Range : DeepReorg(r) \/ PutRow(r, "listed") \/ PutRow(r, "rejected")
  \/ OtherCall \/ BusyEnds \/ OrphanEnds \/ Publish
\* A step that the fetcher or the peer takes without a fault.
Work(r) ==
  TakePlace(r) \/ Resume(r) \/ Ask(r) \/ ReadRange(r) \/ TransferEnds(r)
    \/ \E n \in 1..CHUNK_BYTES : Chunk(r, n)
Collect == EpochDone \/ \E r \in Range : EpochFails(r)
Next ==
  \/ Peer \/ Manifest \/ Collect
  \/ \E r \in Range : Work(r) \/ Broken(r, TRUE) \/ Broken(r, FALSE)

\* The runtime polls each fetch, the peer answers or a timeout breaks the request, and
\* a blocking read ends.  Nothing is assumed of the connection or of the other replicas.
Fairness ==
  /\ \A r \in Range : WF_vars(Work(r))
  /\ WF_vars(Collect) /\ WF_vars(OrphanEnds)
Spec == Init /\ [][Next]_vars /\ Fairness

-----------------------------------------------------------------------------
(* Properties *)

\* A blob that Fetcher::blob returns is the blob of its entry in each byte, although its
\* parts come from several transfers, between which the peer can replace the range.
FetchedBlobIsTheEntrys ==
  \A r \in DOMAIN entries : fetch[r].pc = "done" => fetch[r].buf = Bytes(entries[r])

\* A resume continues after the last byte received: the buffer has each place of the blob
\* once, in order, whatever the number of broken transfers.
NoByteIsRepeatedOrSkipped ==
  \A r \in Range : \A i \in DOMAIN fetch[r].buf : fetch[r].buf[i][2] = i

\* The docs of RESUME_PROGRESS_BYTES: "a blob of `n` bytes needs at most
\* `n / RESUME_PROGRESS_BYTES` resumes with progress".
ProgressResumesAreBounded ==
  \A r \in DOMAIN entries :
    fetch[r].progress * RESUME_PROGRESS_BYTES <= BlobLen[entries[r]]

\* No place of the RequestLimit and no permit of the peer is lost or made, on no path of
\* a failed open, a broken stream, a timeout or a dropped epoch.
NoPlaceIsLost ==
  /\ places + Cardinality({r \in Range : Holds(r)}) = PEER_RANGE_STREAMS
  /\ permits + busy + Cardinality({r \in Range : calls[r].pc # "none"}) = MAX_RANGE_STREAMS

\* The peer sends no range without a row and no Rejected range: a stream that opens is
\* of a listed row.
SentRangesAreListed ==
  [][\A r \in Range : (calls[r].pc # "stream" /\ calls'[r].pc = "stream") => rows[r] = "listed"]_vars

\* The comment in get_range: "Take the permit before the read: it bounds the blobs in
\* memory".  It does not hold: a dropped call gives its permit back while its read goes on.
BlobsInMemoryAreBounded ==
  busy + orphans + Cardinality({r \in Range : calls[r].pc # "none"}) <= MAX_RANGE_STREAMS

NoEpochInWork == epoch # "fetch"

\* The fetch of an epoch ends, with its blobs or with an error, whatever the number of
\* broken connections and however long other replicas hold the peer's permits.
EpochFetchEnds == []<>NoEpochInWork
=============================================================================
