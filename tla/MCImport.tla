----------------------------- MODULE MCImport -----------------------------
(***************************************************************************)
(* The import of a snapshot (crate ztreamer-import) on small instances.    *)
(* Its parts meet only in results: a fetched blob, a verified epoch, the   *)
(* roots of a height. So each behaviour is one of one part, which the      *)
(* initial state chooses, and the variables of the other parts stay.       *)
(***************************************************************************)
EXTENDS AttestorCache

VARIABLES
  part,
  \* of Importer
  sealed_ranges, mutable_blocks, hash_to_height, range_meta, state, node_tip, shown, imp,
  stop, imports, faults,
  \* of EpochProof
  src, first, node, moves, pc, range, asked, sampled,
  \* of RangeFetch
  blobs, rows, serving, permits, busy, orphans, entries, epoch, places, fetch, error, calls

importVars == <<sealed_ranges, mutable_blocks, hash_to_height, range_meta, state, node_tip,
                shown, imp, stop, imports, faults>>
proofVars == <<src, first, node, moves, pc, range, asked, sampled>>
fetchVars == <<blobs, rows, serving, permits, busy, orphans, entries, epoch, places, fetch,
               error, calls>>

-----------------------------------------------------------------------------
(* Importer: two branches, "a" from genesis and "b" from height 1 on.  A   *)
(* block adds one commitment on branch "a" and none on branch "b".         *)

MaxHeight == 5
Fork == 1
MCBlock == {<<h, "a">> : h \in 0..MaxHeight} \cup {<<h, "b">> : h \in (Fork + 1)..MaxHeight}
MCHeight == [b \in MCBlock |-> b[1]]
MCPrev == [b \in MCBlock |->
             IF b[1] = 0 THEN "none"
             ELSE IF b[2] = "b" /\ b[1] - 1 > Fork THEN <<b[1] - 1, "b">>
             ELSE <<b[1] - 1, "a">>]
MCSize == [b \in MCBlock |-> IF b[2] = "a" THEN b[1] ELSE Fork]
MCTips == {<<2, "a">>, <<MaxHeight, "a">>, <<MaxHeight, "b">>}

\* Two imports, with epochs of up to two ranges and three ranges in flight.
Import == INSTANCE Importer
  WITH Block <- MCBlock, Height <- MCHeight, Prev <- MCPrev, Size <- MCSize, Tips <- MCTips,
       GenesisPrev <- "none", Segments <- {}, Metas <- {}, RANGE_SIZE <- 1, MaxGeneration <- 12,
       MAX_RANGES <- 2, MAX_COMMITMENTS <- 10, SEAL_DEPTH <- 1, Workers <- 1,
       MAX_BLOB_BYTES <- 3, ModeSwitch <- FALSE, MaxFaults <- 1, MaxImports <- 2

-----------------------------------------------------------------------------
(* EpochProof: two ranges of two blocks.  Sapling is active from the       *)
(* start; Orchard becomes active at block 3, inside the second range.  A   *)
(* source gives zero or one leaf for each block and pool, so a subtree of  *)
(* two leaves ends at any block.                                           *)

MCPool == {"sapling", "orchard"}
MCActive == [pool \in MCPool |-> IF pool = "sapling" THEN 0 ELSE 3]
MCBefore == [pool \in MCPool |-> IF pool = "sapling" THEN <<"s0">> ELSE <<>>]
Blocks(s1, s2, s4, o3, o4) ==
  <<[sapling |-> s1, orchard |-> <<>>], [sapling |-> s2, orchard |-> <<>>],
    [sapling |-> <<>>, orchard |-> o3], [sapling |-> s4, orchard |-> o4]>>
MCTruth == [x \in {"a", "b"} |->
  IF x = "a" THEN Blocks(<<"s1">>, <<"s2">>, <<"s3">>, <<>>, <<"o1">>)
             ELSE Blocks(<<"s1">>, <<>>, <<"s2">>, <<"o1">>, <<"o2">>)]
MCContents ==
  {Blocks(s1, s2, s4, o3, o4) : s1 \in {<<"s1">>, <<"other">>}, s2 \in {<<>>, <<"s2">>},
     s4 \in {<<>>, <<"s2">>, <<"s3">>}, o3 \in {<<>>, <<"o1">>}, o4 \in {<<"o1">>, <<"o2">>}}
MCDamages ==
  {<<"none", 0>>, <<"start", 0>>, <<"start_sizes", 0>>} \cup
  ({"bytes", "version", "end_hash", "end_sizes", "frontier", "subtrees"} \X (1..2)) \cup
  ({"height", "link", "sizes", "rest"} \X {1, 3, 4})

Proof == INSTANCE EpochProof
  WITH Pool <- MCPool, Ranges <- 2, RANGE_SIZE <- 2, SubtreeSize <- 2, PER_RANGE <- 1,
       Branch <- {"a", "b"}, Truth <- MCTruth, Active <- MCActive, Before <- MCBefore,
       Contents <- MCContents, Damages <- MCDamages

-----------------------------------------------------------------------------
(* RangeFetch: blobs of two bytes, and of three after a reorganization of  *)
(* the peer, in chunks of up to two bytes.                                 *)

Fetch == INSTANCE RangeFetch
  WITH Ranges <- 2, BlobLen <- <<2, 3>>, PEER_RANGE_STREAMS <- 2, MAX_RANGE_STREAMS <- 1,
       CHUNK_BYTES <- 2, RESUME_PROGRESS_BYTES <- 2, MAX_RESUMES_WITHOUT_PROGRESS <- 1,
       MaxRefusals <- 1, MaxOrphans <- 1

ASSUME PartAssumptions ==
  /\ Import!ImporterAssumption /\ Import!EpochAssumption /\ Proof!ProofAssumption
  /\ Fetch!FetchAssumption

-----------------------------------------------------------------------------

NoImport ==
  /\ sealed_ranges = 0 /\ mutable_blocks = 0 /\ hash_to_height = 0 /\ range_meta = 0
  /\ state = 0 /\ node_tip = 0 /\ shown = 0 /\ imp = 0 /\ stop = 0 /\ imports = 0
  /\ faults = 0
NoProof ==
  /\ src = 0 /\ first = 0 /\ node = 0 /\ moves = 0 /\ pc = 0 /\ range = 0 /\ asked = 0
  /\ sampled = 0
NoFetch ==
  /\ blobs = 0 /\ rows = 0 /\ serving = 0 /\ permits = 0 /\ busy = 0 /\ orphans = 0
  /\ entries = 0 /\ epoch = 0 /\ places = 0 /\ fetch = 0 /\ error = 0
  /\ calls = [r \in 1..2 |-> Fetch!NoCall]

ImportInit ==
  /\ Init
  /\ \/ part = "cache" /\ NoImport /\ NoProof /\ NoFetch
     \/ part = "import" /\ Import!ImporterInit /\ NoProof /\ NoFetch
     \/ part = "proof" /\ Proof!Init /\ NoImport /\ NoFetch
     \/ part = "fetch" /\ Fetch!Init /\ NoImport /\ NoProof

ImportNext ==
  \/ part = "cache" /\ Next /\ UNCHANGED <<part, importVars, proofVars, fetchVars>>
  \/ part = "import" /\ Import!ImporterNext
     /\ UNCHANGED <<part, vars, proofVars, fetchVars>>
  \/ part = "proof" /\ Proof!Next
     /\ UNCHANGED <<part, vars, importVars, fetchVars>>
  \/ part = "fetch" /\ Fetch!Next
     /\ UNCHANGED <<part, vars, importVars, proofVars>>

ImportSpec ==
  /\ ImportInit /\ [][ImportNext]_<<part, vars, importVars, proofVars, fetchVars>>

-----------------------------------------------------------------------------
(* The properties of the parts *)

\* Importer: the index takes each range that an import installs, also after a crash and
\* beside the tail.
InstallIsNeverRefused == part = "import" => Import!InstallIsNeverRefused
\* Importer: Verified rows were attested, the rows keep the epoch rule, an import ends at
\* an epoch and the blobs in flight keep to the byte budget.
ImportIsSound == part = "import" => Import!ImportIsSound
\* EpochProof: an accepted epoch has the trees, the ends and the samples of the node, and
\* each row agrees with its own records.
AcceptedEpochIsSound == part = "proof" => Proof!AcceptedEpochIsSound
\* RangeFetch: a fetch over broken connections gives exactly the blob of its entry. A
\* resume repeats and skips no byte, the resumes are bounded, no place or permit is lost,
\* and the peer sends only what it lists.
FetchIsExact ==
  /\ [](part = "fetch" => /\ Fetch!FetchedBlobIsTheEntrys /\ Fetch!NoByteIsRepeatedOrSkipped
                          /\ Fetch!ProgressResumesAreBounded /\ Fetch!NoPlaceIsLost)
  /\ Fetch!SentRangesAreListed
=============================================================================
