------------------------------- MODULE Index -------------------------------
(***************************************************************************)
(* The LMDB index of ztreamer (crate ztreamer-index): five tables and the  *)
(* five writes that change them.                                           *)
(*                                                                         *)
(* A write is one LMDB transaction: it commits all of its changes or, on   *)
(* an error or a crash, none.  So each write is one action here, a refused *)
(* write is a step that is not enabled, and a crash loses nothing.         *)
(*                                                                         *)
(* A block stands for its hash.  Height and Prev give the two fields of a  *)
(* record that the writes compare; the rest of a record travels with it.   *)
(* An absent height (None) is -1: the code orders None below every height  *)
(* and computes the height after None as 0.                                *)
(***************************************************************************)
EXTENDS Integers, Sequences, FiniteSets

CONSTANTS
  Block,          \* the block hashes
  Height,         \* Height[b]: the height of block b
  Prev,           \* Prev[b]: the previous hash in the header of block b
  GenesisPrev,    \* GENESIS_PREVIOUS_BLOCK_HASH, the hash of no block
  RANGE_SIZE,     \* blocks in a sealed range (1,000 in the code)
  MaxGeneration,  \* the largest generation (2^64 - 1 in the code)
  Segments,       \* the record sequences that callers pass to a write
  Metas           \* the range metadata that callers pass to a write

VerifyState == {"Unverified", "Verified", "Rejected"}
RangeMeta == [start_height : Nat, end_height : Nat, end_hash : Block,
              state : VerifyState]

ASSUME BlockAssumption ==
  /\ Height \in [Block -> Nat]
  /\ Prev \in [Block -> Block \cup {GenesisPrev}]
  /\ GenesisPrev \notin Block
ASSUME RangeSizeAssumption == RANGE_SIZE \in Nat \ {0}
ASSUME MaxGenerationAssumption == MaxGeneration \in Nat
ASSUME InputAssumption ==
  /\ Segments \subseteq Seq(Block)
  /\ Metas \subseteq RangeMeta

VARIABLES
  sealed_ranges,   \* first height of a range -> its blocks by height
  mutable_blocks,  \* height -> block
  hash_to_height,  \* block hash -> height
  range_meta,      \* first height of a range -> RangeMeta
  state            \* the IndexState of the metadata table

vars == <<sealed_ranges, mutable_blocks, hash_to_height, range_meta, state>>

None == -1
NoTip == [height |-> None, hash |-> GenesisPrev]
tip == state.durable_tip
sealed == state.sealed_through
Heights == {Height[b] : b \in Block}

-----------------------------------------------------------------------------
(* Ranges and reads *)

RangeStart(h) == h - (h % RANGE_SIZE)
RangeEnd(start) == start + RANGE_SIZE - 1
Starts(from, to) == {s \in from..to : s % RANGE_SIZE = 0}

\* Tables::read.  It fails (Coverage) above the tip.
Covers(h) == h \in 0..tip.height
Read(h) == IF h <= sealed THEN sealed_ranges[RangeStart(h)][h]
                          ELSE mutable_blocks[h]

\* The table f with the rows of g put over it, and without the keys of S.
Put(f, g) == [k \in DOMAIN f \cup DOMAIN g |->
                IF k \in DOMAIN g THEN g[k] ELSE f[k]]
Delete(f, S) == [k \in DOMAIN f \ S |-> f[k]]

\* The rows of a record sequence by height, and its hash entries.
Rows(first, records) ==
  [h \in first..(first + Len(records) - 1) |-> records[h - first + 1]]
Entries(rows) ==
  [b \in {rows[h] : h \in DOMAIN rows} |-> CHOOSE h \in DOMAIN rows : rows[h] = b]

\* Each record is one height above the record before it and links to it.
\* (LinkedHeights: a mutant that does not compare the hashes.)
LinkedHeights(records) ==
  \A i \in 1..Len(records) : Height[records[i]] = Height[records[1]] + i - 1
Linked(records) ==
  \A i \in 1..Len(records) :
    /\ Height[records[i]] = Height[records[1]] + i - 1
    /\ i > 1 => Prev[records[i]] = records[i - 1]

-----------------------------------------------------------------------------
(* The steps that the writes share *)

\* seal_ranges: the last height that is sealed after a write that leaves the
\* tip at height top and the ranges sealed through `from`.
SealTarget(from, seal_through, top) ==
  LET limit == IF seal_through < top THEN seal_through ELSE top
      end == RangeStart(limit + 1) - 1
  IN  IF end > from THEN end ELSE from

\* seal_range for each new range: the range takes its rows ...
Pack(ranges, rows, from, to) ==
  Put(ranges, [s \in Starts(from + 1, to) |->
                 [h \in s..RangeEnd(s) |-> rows[h]]])
\* ... and the rows leave the mutable rows.
\* (UnpackedShort: a mutant that leaves the last one.)
UnpackedShort(rows, from, to) == Delete(rows, (from + 1)..(to - 1))
Unpacked(rows, from, to) == Delete(rows, (from + 1)..to)

\* join_sealed_range_to_verified_prefix for each new range.
JoinVerified(verified, from, to) ==
  IF verified # None /\ verified = from THEN to ELSE verified

\* commit: the generation that the write takes, or an overflow.
\* (SameGeneration: a mutant without the increment.)
CanCommit == state.generation < MaxGeneration
SameGeneration == state.generation
NextGeneration == state.generation + 1

\* Seals the complete ranges of `rows`, the blocks above `from` through the
\* new tip `last`, and commits.
SealAndCommit(ranges, from, verified, rows, last, seal_through) ==
  LET to == SealTarget(from, seal_through, Height[last])
  IN  /\ (from + 1)..to \subseteq DOMAIN rows
      /\ CanCommit
      /\ sealed_ranges' = Pack(ranges, rows, from, to)
      /\ mutable_blocks' = Unpacked(rows, from, to)
      /\ state' = [durable_tip |-> [height |-> Height[last], hash |-> last],
                   sealed_through |-> to,
                   verified_through |-> JoinVerified(verified, from, to),
                   generation |-> NextGeneration]

\* The hash index after a replacement: all deletes, then all puts.
\* (PutsThenDeletes: a mutant in the other order.)
PutsThenDeletes(old, rows) == Delete(Put(hash_to_height, Entries(rows)), old)
ReplaceHashes(old, rows) == Put(Delete(hash_to_height, old), Entries(rows))

\* The blocks that a replacement from height `first` deletes.
OldBlocks(first) == {Read(h) : h \in first..tip.height}

\* delete_ranges_from: what stays of the sealed ranges, their metadata, and
\* the sealed and verified prefixes when the ranges from `start` go.  With no
\* range from `start`, nothing changes.
\* (AllMetas and AllVerified: mutants that forget the metadata.)
RangesBelow(start) == Delete(sealed_ranges, {s \in DOMAIN sealed_ranges : s >= start})
AllMetas(start) == range_meta
MetasBelow(start) == Delete(range_meta, {s \in DOMAIN range_meta : s >= start})
SealedBelow(start) == IF start <= sealed THEN start - 1 ELSE sealed
AllVerified(start) == state.verified_through
VerifiedBelow(start) ==
  IF start <= state.verified_through THEN start - 1 ELSE state.verified_through

-----------------------------------------------------------------------------
(* The writes *)

\* Index::write_encoded: appends a batch of an OrderedBuilder, which links its
\* records.
AppendBatch(base_generation, batch, seal_through) ==
  /\ base_generation = state.generation
  /\ batch # <<>>
  /\ Linked(batch)
  /\ Height[batch[1]] = tip.height + 1
  /\ tip # NoTip => Prev[batch[1]] = tip.hash
  /\ LET new == Rows(tip.height + 1, batch)
     IN  /\ hash_to_height' = Put(hash_to_height, Entries(new))
         /\ SealAndCommit(sealed_ranges, sealed, state.verified_through,
                          Put(mutable_blocks, new), batch[Len(batch)],
                          seal_through)
  /\ UNCHANGED range_meta

\* Index::replace_mutable_suffix: replaces the mutable rows above ancestor.
ReplaceMutableSuffix(base_generation, ancestor, records, seal_through) ==
  LET first == Height[ancestor] + 1
      canonical == <<ancestor>> \o records
      new == Rows(first, records)
  IN  /\ base_generation = state.generation
      /\ ~(sealed # None /\ Height[ancestor] < sealed)
      /\ Covers(Height[ancestor])
      /\ Read(Height[ancestor]) = ancestor
      /\ Linked(canonical)
      /\ first..tip.height \subseteq DOMAIN mutable_blocks
      /\ hash_to_height' = ReplaceHashes(OldBlocks(first), new)
      /\ SealAndCommit(sealed_ranges, sealed, state.verified_through,
                       Put(Delete(mutable_blocks, first..tip.height), new),
                       canonical[Len(canonical)], seal_through)
      /\ UNCHANGED range_meta

\* Index::replace_deep_suffix: rewrites every range from the one that holds
\* the common ancestor.
ReplaceDeepSuffix(base_generation, common, replacement, seal_through) ==
  LET start == RangeStart(Height[common])
      prefix == [i \in 1..(Height[common] - start + 1) |-> Read(start + i - 1)]
      canonical == prefix \o replacement
      new == Rows(start, canonical)
  IN  /\ base_generation = state.generation
      /\ Covers(Height[common])
      /\ Read(Height[common]) = common
      /\ Linked(canonical)
      /\ hash_to_height' = ReplaceHashes(OldBlocks(start), new)
      /\ range_meta' = MetasBelow(start)
      /\ SealAndCommit(RangesBelow(start), SealedBelow(start), VerifiedBelow(start),
                       Put(Delete(mutable_blocks, start..tip.height), new),
                       canonical[Len(canonical)], seal_through)

\* Index::install_sealed_range and Index::install_checked_range: install one
\* packed range of a snapshot above the sealed ranges.
Install(start, blob, meta) ==
  /\ start = sealed + 1
  /\ tip.height = sealed
  /\ Len(blob) = RANGE_SIZE
  /\ Linked(blob)
  /\ Height[blob[1]] = start
  /\ Prev[blob[1]] = tip.hash
  /\ meta.start_height = start
  /\ meta.end_height = Height[blob[Len(blob)]]
  /\ meta.end_hash = blob[Len(blob)]
  /\ meta.state # "Rejected"
  /\ CanCommit
  /\ LET new == Rows(start, blob)
     IN  /\ \A h \in DOMAIN new : new[h] \notin DOMAIN hash_to_height
         /\ hash_to_height' = Put(hash_to_height, Entries(new))
         /\ sealed_ranges' = Put(sealed_ranges, [s \in {start} |-> new])
         /\ range_meta' = Put(range_meta, [s \in {start} |-> meta])
  /\ state' = [durable_tip |-> [height |-> meta.end_height, hash |-> meta.end_hash],
               sealed_through |-> meta.end_height,
               verified_through |->
                 IF meta.state = "Verified" /\ state.verified_through + 1 = start
                   THEN meta.end_height ELSE state.verified_through,
               generation |-> NextGeneration]
  /\ UNCHANGED mutable_blocks

\* Index::put_range_meta: describes a sealed range.  It keeps the generation.
\* (PutAnyMeta: a mutant that does not look the end block up.)
PutAnyMeta(start, meta) ==
  /\ start = RangeStart(start)
  /\ meta.start_height = start
  /\ meta.end_height = RangeEnd(start)
  /\ sealed # None /\ RangeEnd(start) <= sealed
  /\ range_meta' = Put(range_meta, [s \in {start} |-> meta])
  /\ UNCHANGED <<sealed_ranges, mutable_blocks, hash_to_height, state>>
PutRangeMeta(start, meta) ==
  /\ start = RangeStart(start)
  /\ meta.start_height = start
  /\ meta.end_height = RangeEnd(start)
  /\ sealed # None /\ RangeEnd(start) <= sealed
  /\ meta.end_hash \in DOMAIN hash_to_height
  /\ hash_to_height[meta.end_hash] = RangeEnd(start)
  /\ range_meta' = Put(range_meta, [s \in {start} |-> meta])
  /\ UNCHANGED <<sealed_ranges, mutable_blocks, hash_to_height, state>>

-----------------------------------------------------------------------------

EmptyTable == [k \in {} |-> k]

\* Index::open of a new environment: no state row, no rows.
Init ==
  /\ sealed_ranges = EmptyTable
  /\ mutable_blocks = EmptyTable
  /\ hash_to_height = EmptyTable
  /\ range_meta = EmptyTable
  /\ state = [durable_tip |-> NoTip, sealed_through |-> None,
              verified_through |-> None, generation |-> 0]

\* The callers: the pipeline and the head follower append and replace, the
\* importer installs, the filler describes ranges.
AppendStep ==
  \E g \in 0..state.generation, s \in Segments, t \in Heights \cup {None} :
    AppendBatch(g, s, t)
ReplaceMutableStep ==
  \E g \in 0..state.generation, b \in Block, s \in Segments, t \in Heights \cup {None} :
    ReplaceMutableSuffix(g, b, s, t)
ReplaceDeepStep ==
  \E g \in 0..state.generation, b \in Block, s \in Segments, t \in Heights \cup {None} :
    ReplaceDeepSuffix(g, b, s, t)
InstallStep == \E s \in Segments, m \in Metas : Install(m.start_height, s, m)
PutRangeMetaStep == \E h \in Heights, m \in Metas : PutRangeMeta(h, m)

Next ==
  \/ AppendStep
  \/ ReplaceMutableStep
  \/ ReplaceDeepStep
  \/ InstallStep
  \/ PutRangeMetaStep

Spec == Init /\ [][Next]_vars
-----------------------------------------------------------------------------
(* The rules of the index after each commit *)

IndexState ==
  [durable_tip : {NoTip} \cup [height : Nat, hash : Block],
   sealed_through : Nat \cup {None},
   verified_through : Nat \cup {None},
   generation : 0..MaxGeneration]

\* The tables hold rows of their types.
TypeOK ==
  /\ DOMAIN sealed_ranges \subseteq Nat
  /\ \A s \in DOMAIN sealed_ranges : sealed_ranges[s] \in [s..RangeEnd(s) -> Block]
  /\ DOMAIN mutable_blocks \subseteq Nat
  /\ \A h \in DOMAIN mutable_blocks : mutable_blocks[h] \in Block
  /\ DOMAIN hash_to_height \subseteq Block
  /\ \A b \in DOMAIN hash_to_height : hash_to_height[b] \in Nat
  /\ DOMAIN range_meta \subseteq Nat
  /\ \A s \in DOMAIN range_meta : range_meta[s] \in RangeMeta
  /\ state \in IndexState

\* Each height through the tip is in exactly one of the two block tables: the
\* sealed ranges cover 0..sealed_through without a gap, the mutable rows the
\* heights above it.
CoverageRule ==
  /\ sealed <= tip.height
  /\ (sealed + 1) % RANGE_SIZE = 0
  /\ DOMAIN sealed_ranges = Starts(0, sealed)
  /\ DOMAIN mutable_blocks = (sealed + 1)..tip.height

\* What a reader gets from height 0 to the tip is one hash chain that ends at
\* the tip of the state, across the borders of ranges and mutable rows.
ChainRule ==
  /\ \A h \in 0..tip.height : Height[Read(h)] = h
  /\ \A h \in 1..tip.height : Prev[Read(h)] = Read(h - 1)
  /\ tip # NoTip => Read(tip.height) = tip.hash

\* hash_to_height has the hash of each readable block at its height, and no
\* other entry: a reorg leaves no hash of the old branch behind.
HashIndexRule ==
  /\ \A h \in 0..tip.height :
       Read(h) \in DOMAIN hash_to_height /\ hash_to_height[Read(h)] = h
  /\ \A b \in DOMAIN hash_to_height :
       \E h \in 0..tip.height : hash_to_height[b] = h /\ Read(h) = b

\* verified_through is the last height of a sealed range.
VerifiedRule ==
  /\ state.verified_through <= sealed
  /\ (state.verified_through + 1) % RANGE_SIZE = 0

\* A range_meta row describes the range that is sealed at its key now: a row
\* for blocks that a deep reorg replaced does not survive it.
RangeMetaRule ==
  \A s \in DOMAIN range_meta :
    /\ s \in DOMAIN sealed_ranges
    /\ range_meta[s].start_height = s
    /\ range_meta[s].end_height = RangeEnd(s)
    /\ range_meta[s].end_hash = sealed_ranges[s][RangeEnd(s)]

\* IndexSnapshot::verify_continuity: the checks of Index::open.
VerifyContinuity ==
  LET blocks == sealed + 1
      Checked(b, h) == b \in DOMAIN hash_to_height /\ hash_to_height[b] = h
  IN  IF tip = NoTip
      THEN /\ DOMAIN sealed_ranges = {} /\ DOMAIN mutable_blocks = {}
           /\ DOMAIN hash_to_height = {} /\ DOMAIN range_meta = {}
      ELSE /\ \A s \in DOMAIN range_meta :
                s = RangeStart(s) /\ s \in DOMAIN sealed_ranges
           /\ Cardinality(DOMAIN sealed_ranges) = blocks \div RANGE_SIZE
           /\ Cardinality(DOMAIN mutable_blocks) = tip.height + 1 - blocks
           /\ Cardinality(DOMAIN hash_to_height) = tip.height + 1
           /\ DOMAIN sealed_ranges = Starts(0, blocks - 1)
           /\ \A s \in DOMAIN sealed_ranges :
                /\ s > 0 => Prev[sealed_ranges[s][s]] = sealed_ranges[s - RANGE_SIZE][s - 1]
                /\ Checked(sealed_ranges[s][s], s)
                /\ Checked(sealed_ranges[s][RangeEnd(s)], RangeEnd(s))
           /\ DOMAIN mutable_blocks = blocks..tip.height
           /\ \A h \in DOMAIN mutable_blocks :
                /\ Height[mutable_blocks[h]] = h
                /\ h > 0 => Prev[mutable_blocks[h]] = Read(h - 1)
                /\ Checked(mutable_blocks[h], h)
           /\ Read(tip.height) = tip.hash

\* Every commit leaves an index that the next Index::open accepts, so a crash
\* between any two writes never makes the process refuse its own data.
StartupChecksPass == VerifyContinuity

\* Two snapshots at one generation read the same blocks and resolve the same
\* hashes: only put_range_meta commits without a new generation, and no commit
\* goes back to an old one.
ReadersOfAGenerationAgree ==
  [][/\ state'.generation >= state.generation
     /\ state'.generation = state.generation =>
          UNCHANGED <<sealed_ranges, mutable_blocks, hash_to_height, state>>]_vars

-----------------------------------------------------------------------------
(* The promise of the index *)

\* The chain that a reader gets.
ReaderChain == [h \in 0..tip.height |-> Read(h)]

AsStore == INSTANCE ChainStore WITH
           chain <- ReaderChain, height <- tip.height, sealed_through <- sealed,
           generation <- state.generation

\* The five tables implement ChainStore: each write extends the chain that
\* readers see or replaces the blocks above an ancestor in one step and with a
\* new generation, block 0 never changes, and only replace_deep_suffix opens a
\* sealed range.
ImplementsChainStore == AsStore!Spec
=============================================================================
