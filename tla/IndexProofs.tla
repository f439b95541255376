---------------------------- MODULE IndexProofs ----------------------------
(***************************************************************************)
(* Proofs that the rules of the index hold after every commit, for every   *)
(* tree of blocks, range size and input.                                   *)
(***************************************************************************)
EXTENDS Index, SequenceTheorems, TLAPS

-----------------------------------------------------------------------------
(* Range arithmetic *)

\* Division with remainder by the range size.
LEMMA DivMod ==
  \A h \in Nat : /\ h \div RANGE_SIZE \in Nat
                 /\ h % RANGE_SIZE \in 0..(RANGE_SIZE - 1)
                 /\ h = RANGE_SIZE * (h \div RANGE_SIZE) + (h % RANGE_SIZE)
  BY RangeSizeAssumption

\* Multiples of the range size stay multiples under one range more or less.
LEMMA Multiples ==
  /\ \A q \in Nat : RANGE_SIZE * q \in Nat /\ (RANGE_SIZE * q) % RANGE_SIZE = 0
  /\ \A p, q \in Nat : RANGE_SIZE * p < RANGE_SIZE * q => p < q
  /\ \A p, q \in Nat : p < q => RANGE_SIZE * p + RANGE_SIZE <= RANGE_SIZE * q
<1>1. \A q \in Nat, r \in 0..(RANGE_SIZE - 1) : (RANGE_SIZE * q + r) % RANGE_SIZE = r
  BY RangeSizeAssumption
<1>2. \A q \in Nat : RANGE_SIZE * q \in Nat /\ (RANGE_SIZE * q) % RANGE_SIZE = 0
  BY <1>1, RangeSizeAssumption
<1>3. \A p, q \in Nat : RANGE_SIZE * p < RANGE_SIZE * q => p < q
  BY RangeSizeAssumption
<1>4. \A p, q \in Nat : p < q => RANGE_SIZE * p + RANGE_SIZE <= RANGE_SIZE * q
  BY RangeSizeAssumption
<1> QED  BY <1>2, <1>3, <1>4

\* range_start rounds down to the range that holds the height.
LEMMA RangeStartFacts ==
  \A h \in Nat : /\ RangeStart(h) \in Nat
                 /\ RangeStart(h) <= h
                 /\ h <= RangeEnd(RangeStart(h))
                 /\ RangeStart(h) % RANGE_SIZE = 0
<1> TAKE h \in Nat
<1>1. RangeStart(h) = RANGE_SIZE * (h \div RANGE_SIZE)
  BY DivMod, RangeSizeAssumption DEF RangeStart
<1>2. RangeStart(h) \in Nat /\ RangeStart(h) % RANGE_SIZE = 0
  BY <1>1, DivMod, Multiples
<1>3. RangeStart(h) <= h /\ h <= RangeEnd(RangeStart(h))
  BY DivMod, RangeSizeAssumption DEF RangeStart, RangeEnd
<1> QED  BY <1>2, <1>3

\* A multiple of the range size below another is at least one range below it.
LEMMA StartsApart ==
  \A s, t \in Nat : s % RANGE_SIZE = 0 /\ t % RANGE_SIZE = 0 /\ s < t
                      => s + RANGE_SIZE <= t
<1> SUFFICES ASSUME NEW s \in Nat, NEW t \in Nat,
                    s % RANGE_SIZE = 0, t % RANGE_SIZE = 0, s < t
             PROVE  s + RANGE_SIZE <= t
  OBVIOUS
<1>1. s = RANGE_SIZE * (s \div RANGE_SIZE) /\ t = RANGE_SIZE * (t \div RANGE_SIZE)
      /\ s \div RANGE_SIZE \in Nat /\ t \div RANGE_SIZE \in Nat
  BY DivMod, RangeSizeAssumption
<1>2. s \div RANGE_SIZE < t \div RANGE_SIZE
  BY <1>1, Multiples
<1> QED  BY <1>1, <1>2, Multiples

\* The range after an aligned height is aligned, and range_start finds the
\* start of a range from each of its heights.
LEMMA NextStart ==
  \A s \in Nat : s % RANGE_SIZE = 0 =>
     /\ (s + RANGE_SIZE) % RANGE_SIZE = 0
     /\ \A h \in s..RangeEnd(s) : RangeStart(h) = s
<1> SUFFICES ASSUME NEW s \in Nat, s % RANGE_SIZE = 0
             PROVE  /\ (s + RANGE_SIZE) % RANGE_SIZE = 0
                    /\ \A h \in s..RangeEnd(s) : RangeStart(h) = s
  OBVIOUS
<1>1. s = RANGE_SIZE * (s \div RANGE_SIZE) /\ s \div RANGE_SIZE \in Nat
  BY DivMod, RangeSizeAssumption
<1>2. s + RANGE_SIZE = RANGE_SIZE * ((s \div RANGE_SIZE) + 1)
  BY <1>1, RangeSizeAssumption
<1>3. (s + RANGE_SIZE) % RANGE_SIZE = 0
  BY <1>1, <1>2, Multiples
<1>4. ASSUME NEW h \in s..RangeEnd(s)
      PROVE  RangeStart(h) = s
  <2>1. h \in Nat /\ h < s + RANGE_SIZE /\ s <= h
    BY RangeSizeAssumption DEF RangeEnd
  <2>2. RangeStart(h) \in Nat /\ RangeStart(h) % RANGE_SIZE = 0
        /\ RangeStart(h) <= h /\ h < RangeStart(h) + RANGE_SIZE
    BY <2>1, RangeStartFacts, RangeSizeAssumption DEF RangeEnd
  <2> QED  BY <2>1, <2>2, StartsApart, RangeSizeAssumption
<1> QED  BY <1>3, <1>4

\* A height above an aligned prefix is in a range that starts above it, and
\* the range ends at or below the next aligned end.
LEMMA RangeBetween ==
  ASSUME NEW from \in Nat \cup {None}, NEW to \in Nat \cup {None},
         (from + 1) % RANGE_SIZE = 0, (to + 1) % RANGE_SIZE = 0,
         NEW h \in (from + 1)..to
  PROVE  /\ RangeStart(h) \in Starts(from + 1, to)
         /\ RangeEnd(RangeStart(h)) <= to
         /\ h \in RangeStart(h)..RangeEnd(RangeStart(h))
<1>1. from + 1 \in Nat /\ to + 1 \in Nat /\ h \in Nat /\ from + 1 <= h /\ h <= to
  BY DEF None
<1>2. RangeStart(h) \in Nat /\ RangeStart(h) % RANGE_SIZE = 0
      /\ RangeStart(h) <= h /\ h <= RangeStart(h) + RANGE_SIZE - 1
  BY <1>1, RangeStartFacts DEF RangeEnd
<1>3. from + 1 <= RangeStart(h)
  BY <1>1, <1>2, StartsApart, RangeSizeAssumption
<1>4. RangeStart(h) + RANGE_SIZE <= to + 1
  BY <1>1, <1>2, StartsApart, RangeSizeAssumption
<1> QED  BY <1>1, <1>2, <1>3, <1>4, RangeSizeAssumption DEF Starts, RangeEnd

\* The range of a sealed height is sealed.
LEMMA StartInside ==
  ASSUME NEW from \in Nat \cup {None}, NEW h \in Nat, h <= from
  PROVE  RangeStart(h) \in Starts(0, from)
  BY RangeStartFacts DEF Starts, None

-----------------------------------------------------------------------------
(* Sealing *)

\* seal_ranges never seals above the tip, never unseals, and stops at the end
\* of a range.
LEMMA SealTargetFacts ==
  ASSUME NEW from \in Nat \cup {None}, NEW seal_through \in Nat \cup {None},
         NEW top \in Nat, (from + 1) % RANGE_SIZE = 0, from <= top
  PROVE  LET to == SealTarget(from, seal_through, top)
         IN  /\ to \in Nat \cup {None}
             /\ from <= to /\ to <= top
             /\ (to + 1) % RANGE_SIZE = 0
<1> DEFINE limit == IF seal_through < top THEN seal_through ELSE top
           end == RangeStart(limit + 1) - 1
<1>1. limit + 1 \in Nat /\ limit <= top
  BY DEF None
<1>2. RangeStart(limit + 1) \in Nat /\ RangeStart(limit + 1) <= limit + 1
      /\ RangeStart(limit + 1) % RANGE_SIZE = 0
  BY <1>1, RangeStartFacts
<1>3. end \in Nat \cup {None} /\ end <= top /\ (end + 1) % RANGE_SIZE = 0
  <2>1. end + 1 = RangeStart(limit + 1)
    BY <1>2
  <2> QED  BY <1>1, <1>2, <2>1 DEF None
<1>4. SealTarget(from, seal_through, top) = IF end > from THEN end ELSE from
  BY DEF SealTarget
<1> HIDE DEF end
<1> QED  BY <1>3, <1>4 DEF None

\* What a reader finds at height h when `ranges` are sealed through `from` and
\* `rows` are above them.
View(ranges, rows, from, h) ==
  IF h <= from THEN ranges[RangeStart(h)][h] ELSE rows[h]

\* seal_ranges and commit: the sealed prefix grows to an aligned height and
\* the tables cover the same blocks as before the seal.
LEMMA SealLemma ==
  ASSUME NEW ranges, NEW from \in Nat \cup {None}, NEW verified, NEW rows,
         NEW last \in Block, NEW seal_through \in Nat \cup {None},
         (from + 1) % RANGE_SIZE = 0, from <= Height[last],
         DOMAIN ranges = Starts(0, from),
         \A s \in DOMAIN ranges : ranges[s] \in [s..RangeEnd(s) -> Block],
         DOMAIN rows = (from + 1)..Height[last],
         \A h \in DOMAIN rows : rows[h] \in Block,
         SealAndCommit(ranges, from, verified, rows, last, seal_through)
  PROVE  /\ tip' = [height |-> Height[last], hash |-> last]
         /\ sealed' \in Nat \cup {None} /\ from <= sealed'
         /\ state'.verified_through = JoinVerified(verified, from, sealed')
         /\ state'.generation = state.generation + 1
         /\ state.generation < MaxGeneration
         /\ CoverageRule'
         /\ \A s \in DOMAIN sealed_ranges' : sealed_ranges'[s] \in [s..RangeEnd(s) -> Block]
         /\ \A h \in DOMAIN mutable_blocks' : mutable_blocks'[h] \in Block
         /\ \A s \in DOMAIN ranges : s \in DOMAIN sealed_ranges' /\ sealed_ranges'[s] = ranges[s]
         /\ \A h \in 0..Height[last] : Read(h)' = View(ranges, rows, from, h)
         /\ state' \in [durable_tip : {tip'}, sealed_through : {sealed'},
                        verified_through : {state'.verified_through},
                        generation : {state'.generation}]
<1> DEFINE to == SealTarget(from, seal_through, Height[last])
<1>0. Height[last] \in Nat
  BY BlockAssumption
<1>1. /\ to \in Nat \cup {None} /\ from <= to /\ to <= Height[last]
      /\ (to + 1) % RANGE_SIZE = 0
  BY <1>0, SealTargetFacts
<1>2. /\ state.generation < MaxGeneration
      /\ sealed_ranges' = Pack(ranges, rows, from, to)
      /\ mutable_blocks' = Unpacked(rows, from, to)
      /\ state' = [durable_tip |-> [height |-> Height[last], hash |-> last],
                   sealed_through |-> to,
                   verified_through |-> JoinVerified(verified, from, to),
                   generation |-> state.generation + 1]
  BY DEF SealAndCommit, CanCommit, NextGeneration
<1> HIDE DEF to
<1>3. tip' = [height |-> Height[last], hash |-> last] /\ sealed' = to
  BY <1>2 DEF tip, sealed
<1>4. DOMAIN sealed_ranges' = Starts(0, to)
  <2>1. DOMAIN sealed_ranges' = Starts(0, from) \cup Starts(from + 1, to)
    BY <1>2 DEF Pack, Put
  <2> QED  BY <1>1, <2>1 DEF Starts, None
<1>5. DOMAIN mutable_blocks' = (to + 1)..Height[last]
  BY <1>0, <1>1, <1>2 DEF Unpacked, Delete, None
<1>6. ASSUME NEW s \in Starts(from + 1, to)
      PROVE  /\ sealed_ranges'[s] = [h \in s..RangeEnd(s) |-> rows[h]]
             /\ sealed_ranges'[s] \in [s..RangeEnd(s) -> Block]
  <2>1. s \in Nat /\ s % RANGE_SIZE = 0 /\ from + 1 <= s /\ s <= to
    BY <1>1 DEF Starts, None
  <2>2. RangeStart(s) = s
    BY <2>1, NextStart, RangeSizeAssumption DEF RangeEnd
  <2>3. RangeEnd(s) <= to
    <3>1. s \in (from + 1)..to
      BY <1>1, <2>1 DEF None
    <3> QED  BY <1>1, <2>2, <3>1, RangeBetween
  <2>4. sealed_ranges'[s] = [h \in s..RangeEnd(s) |-> rows[h]]
    BY <1>2 DEF Pack, Put
  <2>5. \A h \in s..RangeEnd(s) : rows[h] \in Block
    <3> TAKE h \in s..RangeEnd(s)
    <3>1. from + 1 \in Int /\ to \in Int /\ RangeEnd(s) \in Int
      BY <2>1, <1>1, RangeSizeAssumption DEF RangeEnd, None
    <3>2. h \in (from + 1)..Height[last]
      BY <1>0, <1>1, <2>1, <2>3, <3>1
    <3> QED  BY <3>2
  <2> QED  BY <2>4, <2>5
<1>7. ASSUME NEW s \in DOMAIN ranges
      PROVE  s \in DOMAIN sealed_ranges' /\ sealed_ranges'[s] = ranges[s]
  <2>1. s \notin Starts(from + 1, to)
    BY DEF Starts, None
  <2> QED  BY <1>2, <2>1 DEF Pack, Put
<1>8. ASSUME NEW h \in 0..Height[last]
      PROVE  Read(h)' = View(ranges, rows, from, h)
  <2>0. h \in Nat
    BY <1>0
  <2>1. CASE h <= from
    <3>1. RangeStart(h) \in DOMAIN ranges
      BY <2>0, <2>1, RangeStartFacts DEF Starts, None
    <3>2. Read(h)' = sealed_ranges'[RangeStart(h)][h]
      BY <1>1, <1>3, <2>1, <2>0 DEF Read, None
    <3> QED  BY <1>7, <2>1, <3>1, <3>2 DEF View
  <2>2. CASE h > from /\ h <= to
    <3>1. RangeStart(h) \in Starts(from + 1, to)
          /\ h \in RangeStart(h)..RangeEnd(RangeStart(h))
      BY <1>1, <2>0, <2>2, RangeBetween DEF None
    <3>2. sealed_ranges'[RangeStart(h)][h] = rows[h]
      BY <1>6, <3>1
    <3>3. Read(h)' = sealed_ranges'[RangeStart(h)][h]
      BY <1>3, <2>2 DEF Read
    <3> QED  BY <2>0, <2>2, <3>2, <3>3 DEF View, None
  <2>3. CASE h > to
    <3>1. Read(h)' = mutable_blocks'[h]
      BY <1>1, <1>3, <2>0, <2>3 DEF Read, None
    <3>2. h \in DOMAIN rows \ ((from + 1)..to)
      BY <1>0, <1>1, <2>0, <2>3 DEF None
    <3>3. mutable_blocks'[h] = rows[h]
      BY <1>2, <3>2 DEF Unpacked, Delete
    <3> QED  BY <1>1, <2>0, <2>3, <3>1, <3>3 DEF View, None
  <2> QED  BY <1>1, <2>0, <2>1, <2>2, <2>3 DEF None
<1>9. CoverageRule'
  BY <1>1, <1>3, <1>4, <1>5 DEF CoverageRule
<1>10. \A s \in DOMAIN sealed_ranges' : sealed_ranges'[s] \in [s..RangeEnd(s) -> Block]
  <2> TAKE s \in DOMAIN sealed_ranges'
  <2>1. s \in DOMAIN ranges \/ s \in Starts(from + 1, to)
    BY <1>4, <1>1 DEF Starts, None
  <2> QED  BY <1>6, <1>7, <2>1
<1>11. \A h \in DOMAIN mutable_blocks' : mutable_blocks'[h] \in Block
  BY <1>2 DEF Unpacked, Delete
<1>12. /\ state'.verified_through = JoinVerified(verified, from, sealed')
       /\ state'.generation = state.generation + 1
       /\ state' \in [durable_tip : {tip'}, sealed_through : {sealed'},
                      verified_through : {state'.verified_through},
                      generation : {state'.generation}]
  BY <1>2, <1>3 DEF tip, sealed
<1> QED  BY <1>1, <1>2, <1>3, <1>7, <1>8, <1>9, <1>10, <1>11, <1>12

-----------------------------------------------------------------------------
(* The invariant *)

\* The rules of the index, which the writes preserve only together.
IndexInv ==
  /\ TypeOK
  /\ CoverageRule
  /\ ChainRule
  /\ HashIndexRule
  /\ VerifiedRule
  /\ RangeMetaRule

\* The tip of the state in terms of what a reader gets.
LEMMA TipFacts ==
  ASSUME TypeOK, CoverageRule
  PROVE  /\ tip.height \in Nat \cup {None}
         /\ sealed \in Nat \cup {None}
         /\ state.verified_through \in Nat \cup {None}
         /\ state.generation \in 0..MaxGeneration
         /\ tip # NoTip <=> tip.height \in Nat
         /\ tip # NoTip => tip \in [height : Nat, hash : Block]
         /\ \A h \in 0..tip.height : Read(h) \in Block
<1>1. state \in IndexState
  BY DEF TypeOK
<1>2. tip \in {NoTip} \cup [height : Nat, hash : Block]
  BY <1>1 DEF IndexState, tip
<1>3. /\ tip.height \in Nat \cup {None}
      /\ tip # NoTip <=> tip.height \in Nat
      /\ tip # NoTip => tip \in [height : Nat, hash : Block]
  BY <1>2 DEF NoTip, None
<1>4. /\ sealed \in Nat \cup {None}
      /\ state.verified_through \in Nat \cup {None}
      /\ state.generation \in 0..MaxGeneration
  BY <1>1 DEF IndexState, sealed
<1>5. ASSUME NEW h \in 0..tip.height
      PROVE  Read(h) \in Block
  <2>1. h \in Nat
    BY <1>3 DEF None
  <2>2. CASE h <= sealed
    <3>1. RangeStart(h) \in DOMAIN sealed_ranges
          /\ h \in RangeStart(h)..RangeEnd(RangeStart(h))
      <4>1. /\ RangeStart(h) \in Nat /\ RangeStart(h) <= h
            /\ RangeStart(h) % RANGE_SIZE = 0 /\ h <= RangeEnd(RangeStart(h))
        BY <2>1, RangeStartFacts
      <4>2. RangeStart(h) \in 0..sealed
        BY <1>4, <2>1, <2>2, <4>1 DEF None
      <4>3. RangeEnd(RangeStart(h)) \in Int
        BY <4>1, RangeSizeAssumption DEF RangeEnd
      <4> QED  BY <2>1, <4>1, <4>2, <4>3 DEF CoverageRule, Starts
    <3> QED  BY <2>2, <3>1 DEF Read, TypeOK
  <2>3. CASE ~(h <= sealed)
    <3>1. h \in DOMAIN mutable_blocks
      BY <1>3, <1>4, <2>1, <2>3 DEF CoverageRule, None
    <3> QED  BY <2>3, <3>1 DEF Read, TypeOK
  <2> QED  BY <2>2, <2>3
<1> QED  BY <1>3, <1>4, <1>5

RowsAtHeights(k, new, top) ==
  /\ DOMAIN new = k..top
  /\ \A h \in k..top : new[h] \in Block /\ Height[new[h]] = h

HashesExact(k, new, top) ==
  /\ \A h \in 0..(k - 1) : Read(h) \in DOMAIN hash_to_height'
                           /\ hash_to_height'[Read(h)] = h
  /\ \A h \in k..top : new[h] \in DOMAIN hash_to_height'
                       /\ hash_to_height'[new[h]] = h
  /\ \A b \in DOMAIN hash_to_height' :
       \/ \E h \in 0..(k - 1) : b = Read(h) /\ hash_to_height'[b] = h
       \/ \E h \in k..top : b = new[h] /\ hash_to_height'[b] = h

\* The hash index after a rewrite of the heights from k: it holds the kept
\* blocks below k and the new rows, each at its height, and no other hash.
LEMMA HashLemma ==
  ASSUME TypeOK, CoverageRule, ChainRule, HashIndexRule,
         NEW k \in Nat, k <= tip.height + 1, NEW top \in Int, NEW new,
         RowsAtHeights(k, new, top),
         hash_to_height' = ReplaceHashes(OldBlocks(k), new)
  PROVE  HashesExact(k, new, top)
<1> DEFINE old == OldBlocks(k)
           kept == Delete(hash_to_height, old)
           E == Entries(new)
<1>new. /\ DOMAIN new = k..top
        /\ \A h \in k..top : new[h] \in Block /\ Height[new[h]] = h
  BY DEF RowsAtHeights
<1>0. tip.height \in Nat \cup {None}
  BY TipFacts
<1>1. DOMAIN E = {new[h] : h \in k..top}
  BY <1>new DEF Entries
<1>2. \A h \in k..top : E[new[h]] = h
  <2> TAKE h \in k..top
  <2>1. E[new[h]] = CHOOSE g \in k..top : new[g] = new[h]
    BY <1>new DEF Entries
  <2>2. \A g \in k..top : new[g] = new[h] => g = h
    BY <1>new
  <2> QED  BY <2>1, <2>2
<1>3. hash_to_height' = [b \in DOMAIN kept \cup DOMAIN E |-> IF b \in DOMAIN E THEN E[b] ELSE kept[b]]
  BY DEF ReplaceHashes, Put
<1>4. \A b \in DOMAIN kept : b \in DOMAIN hash_to_height /\ b \notin old /\ kept[b] = hash_to_height[b]
  BY DEF Delete
<1>5. \A b \in DOMAIN hash_to_height : b \notin old => b \in DOMAIN kept
  BY DEF Delete
<1> HIDE DEF kept, E
<1>6. ASSUME NEW h \in 0..(k - 1)
      PROVE  Read(h) \in DOMAIN hash_to_height' /\ hash_to_height'[Read(h)] = h
  <2>1. h \in 0..tip.height /\ h < k
    BY <1>0 DEF None
  <2>2. Height[Read(h)] = h /\ Read(h) \in DOMAIN hash_to_height /\ hash_to_height[Read(h)] = h
    BY <2>1 DEF ChainRule, HashIndexRule
  <2>3. Read(h) \notin old
    <3> SUFFICES ASSUME NEW g \in k..tip.height, Read(g) = Read(h)
                 PROVE  FALSE
      BY DEF OldBlocks
    <3>1. g \in 0..tip.height
      BY <1>0 DEF None
    <3>2. Height[Read(g)] = g
      BY <3>1 DEF ChainRule
    <3> QED  BY <2>1, <2>2, <3>2
  <2>4. Read(h) \notin DOMAIN E
    BY <1>1, <1>new, <2>1, <2>2
  <2> QED  BY <1>3, <1>4, <1>5, <2>2, <2>3, <2>4
<1>7. ASSUME NEW h \in k..top
      PROVE  new[h] \in DOMAIN hash_to_height' /\ hash_to_height'[new[h]] = h
  BY <1>1, <1>2, <1>3
<1>8. ASSUME NEW b \in DOMAIN hash_to_height'
      PROVE  \/ \E h \in 0..(k - 1) : b = Read(h) /\ hash_to_height'[b] = h
             \/ \E h \in k..top : b = new[h] /\ hash_to_height'[b] = h
  <2>1. CASE b \in DOMAIN E
    BY <1>1, <1>7, <2>1
  <2>2. CASE b \notin DOMAIN E
    <3>1. b \in DOMAIN kept /\ hash_to_height'[b] = kept[b]
      BY <1>3, <2>2
    <3>2. b \in DOMAIN hash_to_height /\ b \notin old /\ hash_to_height'[b] = hash_to_height[b]
      BY <1>4, <3>1
    <3>3. PICK h \in 0..tip.height : hash_to_height[b] = h /\ Read(h) = b
      BY <3>2 DEF HashIndexRule
    <3>4. ~(h \in k..tip.height)
      BY <3>2, <3>3 DEF OldBlocks
    <3>5. h \in 0..(k - 1)
      BY <1>0, <3>3, <3>4 DEF None
    <3> QED  BY <3>2, <3>3, <3>5
  <2> QED  BY <2>1, <2>2
<1> QED  BY <1>6, <1>7, <1>8 DEF HashesExact

-----------------------------------------------------------------------------
(* Each write preserves the invariant *)

\* The rows `new` start at height k, link to each other and to the block below
\* k, and end at `last`; with no new row, `last` is the block below k.
NewRows(k, new, last) ==
  /\ k <= tip.height + 1
  /\ k - 1 <= Height[last]
  /\ DOMAIN new = k..Height[last]
  /\ \A h \in k..Height[last] : new[h] \in Block /\ Height[new[h]] = h
  /\ \A h \in (k + 1)..Height[last] : Prev[new[h]] = new[h - 1]
  /\ k > 0 /\ k <= Height[last] => Prev[new[k]] = Read(k - 1)
  /\ last = IF k <= Height[last] THEN new[Height[last]] ELSE Read(k - 1)

\* The ranges sealed through `from` stay, and `rows` holds the kept blocks
\* above them and the new rows.
KeptRows(k, new, last, from, ranges, rows) ==
  /\ (from + 1) % RANGE_SIZE = 0
  /\ from <= sealed /\ from < k
  /\ DOMAIN ranges = Starts(0, from)
  /\ \A s \in Starts(0, from) : ranges[s] = sealed_ranges[s]
  /\ DOMAIN rows = (from + 1)..Height[last]
  /\ \A h \in (from + 1)..(k - 1) : rows[h] = Read(h)
  /\ \A h \in k..Height[last] : rows[h] = new[h]

KeptMetas(from) ==
  /\ DOMAIN range_meta' \subseteq DOMAIN range_meta \cap Starts(0, from)
  /\ \A s \in DOMAIN range_meta' : range_meta'[s] = range_meta[s]

\* The write keeps what readers get below height k and the seals through
\* `from`, and takes the next generation.
KeepsBelow(k, from) ==
  /\ k <= tip'.height + 1
  /\ \A h \in 0..(k - 1) : Read(h)' = Read(h)
  /\ from <= sealed'
  /\ state'.generation = state.generation + 1

VerifiedPrefix(verified, from) ==
  verified <= from /\ (verified + 1) % RANGE_SIZE = 0

\* The part that an append and the two replacements share: a write that keeps
\* the blocks below k, puts the linked rows `new` from k on, and seals.
LEMMA RewriteLemma ==
  ASSUME IndexInv,
         NEW k \in Nat, NEW new, NEW last \in Block,
         NewRows(k, new, last),
         NEW from \in Nat \cup {None}, NEW ranges, NEW rows,
         KeptRows(k, new, last, from, ranges, rows),
         NEW verified \in Nat \cup {None}, VerifiedPrefix(verified, from),
         NEW seal_through \in Nat \cup {None},
         hash_to_height' = ReplaceHashes(OldBlocks(k), new),
         SealAndCommit(ranges, from, verified, rows, last, seal_through),
         KeptMetas(from)
  PROVE  /\ IndexInv'
         /\ KeepsBelow(k, from)
         /\ tip'.height = Height[last]
         /\ \A h \in k..Height[last] : Read(h)' = new[h]
<1> DEFINE top == Height[last]
<1>inv. TypeOK /\ CoverageRule /\ ChainRule /\ HashIndexRule /\ VerifiedRule /\ RangeMetaRule
  BY DEF IndexInv
<1>0. /\ top \in Nat /\ tip.height \in Nat \cup {None} /\ sealed \in Nat \cup {None}
      /\ sealed <= tip.height /\ state.generation \in 0..MaxGeneration
      /\ k <= tip.height + 1 /\ k - 1 <= top
      /\ from <= sealed /\ from < k
  BY <1>inv, BlockAssumption, TipFacts DEF CoverageRule, NewRows, KeptRows
<1>read. \A h \in 0..tip.height : Read(h) \in Block
  BY <1>inv, TipFacts
<1>new. /\ DOMAIN new = k..top
        /\ \A h \in k..top : new[h] \in Block /\ Height[new[h]] = h
        /\ \A h \in (k + 1)..top : Prev[new[h]] = new[h - 1]
        /\ k > 0 /\ k <= top => Prev[new[k]] = Read(k - 1)
        /\ last = IF k <= top THEN new[top] ELSE Read(k - 1)
  BY DEF NewRows
<1>rows. /\ DOMAIN ranges = Starts(0, from)
         /\ \A s \in Starts(0, from) : ranges[s] = sealed_ranges[s]
         /\ DOMAIN rows = (from + 1)..top
         /\ \A h \in (from + 1)..(k - 1) : rows[h] = Read(h)
         /\ \A h \in k..top : rows[h] = new[h]
         /\ (from + 1) % RANGE_SIZE = 0
  BY DEF KeptRows
<1> HIDE DEF top
<1>1. \A s \in DOMAIN ranges : s \in DOMAIN sealed_ranges
                               /\ ranges[s] \in [s..RangeEnd(s) -> Block]
  <2>1. Starts(0, from) \subseteq DOMAIN sealed_ranges
    BY <1>0, <1>inv DEF CoverageRule, Starts, None
  <2> QED  BY <1>inv, <1>rows, <2>1 DEF TypeOK
<1>2. \A h \in DOMAIN rows : rows[h] \in Block
  <2> TAKE h \in DOMAIN rows
  <2>1. CASE h < k
    <3>1. h \in (from + 1)..(k - 1) /\ h \in 0..tip.height
      BY <1>0, <1>rows, <2>1 DEF None
    <3> QED  BY <1>read, <1>rows, <3>1
  <2>2. CASE h >= k
    BY <1>0, <1>new, <1>rows, <2>2
  <2> QED  BY <1>0, <1>rows, <2>1, <2>2 DEF None
<1>3. /\ tip' = [height |-> top, hash |-> last]
      /\ sealed' \in Nat \cup {None} /\ from <= sealed'
      /\ state'.verified_through = JoinVerified(verified, from, sealed')
      /\ state'.generation = state.generation + 1
      /\ state.generation < MaxGeneration
      /\ CoverageRule'
      /\ \A s \in DOMAIN sealed_ranges' : sealed_ranges'[s] \in [s..RangeEnd(s) -> Block]
      /\ \A h \in DOMAIN mutable_blocks' : mutable_blocks'[h] \in Block
      /\ \A s \in DOMAIN ranges : s \in DOMAIN sealed_ranges' /\ sealed_ranges'[s] = ranges[s]
      /\ \A h \in 0..top : Read(h)' = View(ranges, rows, from, h)
      /\ state' \in [durable_tip : {tip'}, sealed_through : {sealed'},
                     verified_through : {state'.verified_through},
                     generation : {state'.generation}]
  <2>1. from <= top
    BY <1>0 DEF None
  <2> QED  BY <1>1, <1>2, <1>rows, <2>1, SealLemma DEF top
<1>4. \A h \in 0..(k - 1) : h <= top => Read(h)' = Read(h)
  <2> SUFFICES ASSUME NEW h \in 0..(k - 1), h <= top
               PROVE  Read(h)' = Read(h)
    OBVIOUS
  <2>0. h \in Nat /\ h \in 0..top /\ h \in 0..tip.height
    BY <1>0 DEF None
  <2>1. CASE h <= from
    <3>1. RangeStart(h) \in Starts(0, from)
      BY <2>0, <2>1, StartInside
    <3>2. h <= sealed
      BY <1>0, <2>0, <2>1 DEF None
    <3> QED  BY <1>3, <1>rows, <2>0, <2>1, <3>1, <3>2 DEF View, Read
  <2>2. CASE h > from
    <3>1. ~(h <= from) /\ h \in (from + 1)..(k - 1)
      BY <2>0, <2>2 DEF None
    <3> QED  BY <1>3, <1>rows, <2>0, <3>1 DEF View
  <2> QED  BY <2>0, <2>1, <2>2 DEF None
<1>5. \A h \in k..top : Read(h)' = new[h]
  <2> TAKE h \in k..top
  <2>1. h \in 0..top /\ ~(h <= from)
    BY <1>0 DEF None
  <2> QED  BY <1>3, <1>rows, <2>1 DEF View
<1>6. ChainRule'
  <2>1. \A h \in 0..top : Height[Read(h)'] = h
    <3> TAKE h \in 0..top
    <3>1. CASE h < k
      <4>1. h \in 0..(k - 1) /\ h <= top /\ h \in 0..tip.height
        BY <1>0, <3>1 DEF None
      <4> QED  BY <1>4, <1>inv, <4>1 DEF ChainRule
    <3>2. CASE h >= k
      BY <1>0, <1>5, <1>new, <3>2
    <3> QED  BY <1>0, <3>1, <3>2
  <2>2. \A h \in 1..top : Prev[Read(h)'] = Read(h - 1)'
    <3> TAKE h \in 1..top
    <3>1. CASE h < k
      <4>1. /\ h \in 1..tip.height /\ h \in 0..(k - 1) /\ h <= top
            /\ h - 1 \in 0..(k - 1) /\ h - 1 <= top
        BY <1>0, <3>1 DEF None
      <4>2. Prev[Read(h)] = Read(h - 1)
        BY <1>inv, <4>1 DEF ChainRule
      <4> QED  BY <1>4, <4>1, <4>2
    <3>2. CASE h = k
      <4>1. k > 0 /\ k <= top /\ k \in k..top /\ k - 1 \in 0..(k - 1) /\ k - 1 <= top
        BY <1>0, <3>2
      <4> QED  BY <1>4, <1>5, <1>new, <3>2, <4>1
    <3>3. CASE h > k
      <4>1. h \in (k + 1)..top /\ h \in k..top /\ h - 1 \in k..top
        BY <1>0, <3>3
      <4> QED  BY <1>5, <1>new, <4>1
    <3> QED  BY <1>0, <3>1, <3>2, <3>3
  <2>3. Read(top)' = last
    <3>1. CASE k <= top
      BY <1>0, <1>5, <1>new, <3>1
    <3>2. CASE ~(k <= top)
      <4>1. top = k - 1 /\ top \in 0..(k - 1)
        BY <1>0, <3>2
      <4> QED  BY <1>4, <1>new, <3>2, <4>1
    <3> QED  BY <3>1, <3>2
  <2> QED  BY <1>3, <2>1, <2>2, <2>3 DEF ChainRule
<1>7. /\ HashIndexRule'
      /\ DOMAIN hash_to_height' \subseteq Block
      /\ \A b \in DOMAIN hash_to_height' : hash_to_height'[b] \in Nat
  <2>0. HashesExact(k, new, top)
    <3>1. RowsAtHeights(k, new, top)
      BY <1>new DEF RowsAtHeights
    <3> QED  BY <1>0, <1>inv, <3>1, HashLemma
  <2>1. /\ \A h \in 0..(k - 1) : Read(h) \in DOMAIN hash_to_height'
                                 /\ hash_to_height'[Read(h)] = h
        /\ \A h \in k..top : new[h] \in DOMAIN hash_to_height'
                             /\ hash_to_height'[new[h]] = h
        /\ \A b \in DOMAIN hash_to_height' :
             \/ \E h \in 0..(k - 1) : b = Read(h) /\ hash_to_height'[b] = h
             \/ \E h \in k..top : b = new[h] /\ hash_to_height'[b] = h
    BY <2>0 DEF HashesExact
  <2>2. \A h \in 0..top : Read(h)' \in DOMAIN hash_to_height'
                          /\ hash_to_height'[Read(h)'] = h
    <3> TAKE h \in 0..top
    <3>1. CASE h < k
      <4>1. h \in 0..(k - 1) /\ h <= top
        BY <1>0, <3>1
      <4> QED  BY <1>4, <2>1, <4>1
    <3>2. CASE h >= k
      <4>1. h \in k..top
        BY <1>0, <3>2
      <4> QED  BY <1>5, <2>1, <4>1
    <3> QED  BY <1>0, <3>1, <3>2
  <2>3. ASSUME NEW b \in DOMAIN hash_to_height'
        PROVE  /\ \E h \in 0..top : hash_to_height'[b] = h /\ Read(h)' = b
               /\ b \in Block
    <3>1. CASE \E h \in 0..(k - 1) : b = Read(h) /\ hash_to_height'[b] = h
      <4> PICK h \in 0..(k - 1) : b = Read(h) /\ hash_to_height'[b] = h
        BY <3>1
      <4>1. h \in 0..top /\ h <= top /\ h \in 0..tip.height
        BY <1>0 DEF None
      <4>2. Read(h)' = Read(h) /\ Read(h) \in Block
        BY <1>4, <1>read, <4>1
      <4> QED  BY <4>1, <4>2
    <3>2. CASE \E h \in k..top : b = new[h] /\ hash_to_height'[b] = h
      <4> PICK h \in k..top : b = new[h] /\ hash_to_height'[b] = h
        BY <3>2
      <4>1. h \in 0..top /\ Read(h)' = new[h] /\ new[h] \in Block
        BY <1>0, <1>5, <1>new
      <4> QED  BY <4>1
    <3> QED  BY <2>1, <3>1, <3>2
  <2>4. tip'.height = top
    BY <1>3
  <2>5. HashIndexRule'
    BY <2>2, <2>3, <2>4 DEF HashIndexRule
  <2> QED  BY <1>0, <2>3, <2>5
<1>8. /\ VerifiedRule'
      /\ state'.verified_through \in Nat \cup {None}
  BY <1>3 DEF VerifiedRule, VerifiedPrefix, JoinVerified, CoverageRule, None
<1>9. RangeMetaRule' /\ DOMAIN range_meta' \subseteq Nat
      /\ \A s \in DOMAIN range_meta' : range_meta'[s] \in RangeMeta
  BY <1>3, <1>inv, <1>rows DEF RangeMetaRule, TypeOK, KeptMetas
<1>10. TypeOK'
  <2>1. state' \in IndexState
    BY <1>0, <1>3, <1>8, MaxGenerationAssumption DEF IndexState
  <2>2. DOMAIN sealed_ranges' \subseteq Nat /\ DOMAIN mutable_blocks' \subseteq Nat
    BY <1>0, <1>3 DEF CoverageRule, Starts, None
  <2> QED  BY <1>3, <1>7, <1>9, <2>1, <2>2 DEF TypeOK
<1>11. KeepsBelow(k, from) /\ tip'.height = top
  <2>1. tip'.height = top /\ from <= sealed' /\ state'.generation = state.generation + 1
    BY <1>3
  <2>2. \A h \in 0..(k - 1) : h <= top
    BY <1>0
  <2>3. \A h \in 0..(k - 1) : Read(h)' = Read(h)
    BY <1>4, <2>2
  <2>4. k <= top + 1
    BY <1>0
  <2> QED  BY <2>1, <2>3, <2>4 DEF KeepsBelow
<1>12. IndexInv'
  BY <1>3, <1>6, <1>7, <1>8, <1>9, <1>10 DEF IndexInv
<1> QED  BY <1>5, <1>11, <1>12 DEF top

\* The rows of a linked record sequence, by height.
LEMMA LinkedRows ==
  ASSUME NEW records \in Seq(Block), records # <<>>, Linked(records)
  PROVE  LET first == Height[records[1]]
             last == records[Len(records)]
             rows == Rows(first, records)
         IN  /\ first \in Nat /\ last \in Block
             /\ Height[last] = first + Len(records) - 1
             /\ DOMAIN rows = first..Height[last]
             /\ \A h \in first..Height[last] : rows[h] \in Block /\ Height[rows[h]] = h
             /\ \A h \in (first + 1)..Height[last] : Prev[rows[h]] = rows[h - 1]
             /\ rows[first] = records[1]
             /\ rows[Height[last]] = last
<1> DEFINE first == Height[records[1]]
           last == records[Len(records)]
           rows == Rows(first, records)
<1>1. Len(records) \in Nat /\ Len(records) > 0
  BY LenProperties, EmptySeq
<1>2. \A i \in 1..Len(records) : records[i] \in Block
  BY <1>1, ElementOfSeq
<1>3. /\ \A i \in 1..Len(records) : Height[records[i]] = first + i - 1
      /\ \A i \in 2..Len(records) : Prev[records[i]] = records[i - 1]
  BY <1>1 DEF Linked
<1>4. 1 \in 1..Len(records) /\ Len(records) \in 1..Len(records)
  BY <1>1
<1>5. first \in Nat /\ last \in Block
  BY <1>2, <1>4, BlockAssumption
<1>6. Height[last] = first + Len(records) - 1
  BY <1>3, <1>4
<1>7. /\ DOMAIN rows = first..Height[last]
      /\ \A h \in first..Height[last] : rows[h] = records[h - first + 1]
  BY <1>6 DEF Rows
<1> HIDE DEF first, last, rows
<1>8. \A h \in first..Height[last] : h - first + 1 \in 1..Len(records)
  BY <1>1, <1>5, <1>6
<1>9. \A h \in first..Height[last] : rows[h] \in Block /\ Height[rows[h]] = h
  <2> TAKE h \in first..Height[last]
  <2>1. Height[records[h - first + 1]] = first + (h - first + 1) - 1
    BY <1>3, <1>8
  <2> QED  BY <1>2, <1>5, <1>7, <1>8, <2>1
<1>10. \A h \in (first + 1)..Height[last] : Prev[rows[h]] = rows[h - 1]
  <2> TAKE h \in (first + 1)..Height[last]
  <2>1. h \in first..Height[last] /\ h - 1 \in first..Height[last]
    BY <1>1, <1>5, <1>6
  <2>2. h - first + 1 \in 2..Len(records) /\ (h - 1) - first + 1 = (h - first + 1) - 1
    BY <1>1, <1>5, <1>6
  <2> QED  BY <1>3, <1>7, <2>1, <2>2
<1>11. rows[first] = records[1]
  <2>1. first \in first..Height[last] /\ first - first + 1 = 1
    BY <1>1, <1>5, <1>6
  <2> QED  BY <1>7, <2>1
<1>12. rows[Height[last]] = last
  <2>1. Height[last] \in first..Height[last] /\ Height[last] - first + 1 = Len(records)
    BY <1>1, <1>5, <1>6
  <2> QED  BY <1>7, <2>1 DEF last
<1> QED  BY <1>5, <1>6, <1>7, <1>9, <1>10, <1>11, <1>12 DEF first, last, rows

\* Index::write_encoded keeps the rules of the index.
LEMMA AppendLemma ==
  ASSUME IndexInv, NEW g, NEW batch \in Seq(Block), NEW t \in Nat \cup {None},
         AppendBatch(g, batch, t)
  PROVE  IndexInv' /\ KeepsBelow(tip.height + 1, sealed) /\ tip'.height > tip.height
<1> DEFINE k == tip.height + 1
           new == Rows(k, batch)
           last == batch[Len(batch)]
           rows == Put(mutable_blocks, new)
<1>inv. TypeOK /\ CoverageRule /\ ChainRule /\ HashIndexRule /\ VerifiedRule /\ RangeMetaRule
  BY DEF IndexInv
<1>0. /\ tip.height \in Nat \cup {None} /\ sealed \in Nat \cup {None}
      /\ state.verified_through \in Nat \cup {None}
      /\ sealed <= tip.height
      /\ tip # NoTip <=> tip.height \in Nat
  BY <1>inv, TipFacts DEF CoverageRule
<1>1. k \in Nat
  BY <1>0 DEF None
<1>2. /\ batch # <<>> /\ Linked(batch) /\ Height[batch[1]] = k
      /\ tip # NoTip => Prev[batch[1]] = tip.hash
      /\ hash_to_height' = Put(hash_to_height, Entries(new))
      /\ SealAndCommit(sealed_ranges, sealed, state.verified_through, rows, last, t)
      /\ range_meta' = range_meta
  BY DEF AppendBatch
<1>3. /\ last \in Block
      /\ Height[last] \in Nat /\ k <= Height[last]
      /\ DOMAIN new = k..Height[last]
      /\ \A h \in k..Height[last] : new[h] \in Block /\ Height[new[h]] = h
      /\ \A h \in (k + 1)..Height[last] : Prev[new[h]] = new[h - 1]
      /\ new[k] = batch[1]
      /\ new[Height[last]] = last
  <2>0. batch # <<>>
    BY <1>2
  <2>1. Len(batch) \in Nat /\ Len(batch) > 0
    BY ONLY <2>0, batch \in Seq(Block), LenProperties, EmptySeq
  <2>2. /\ last \in Block
        /\ Height[last] = k + Len(batch) - 1
        /\ DOMAIN new = k..Height[last]
        /\ \A h \in k..Height[last] : new[h] \in Block /\ Height[new[h]] = h
        /\ \A h \in (k + 1)..Height[last] : Prev[new[h]] = new[h - 1]
        /\ new[k] = batch[1]
        /\ new[Height[last]] = last
    BY ONLY <1>2, batch \in Seq(Block), LinkedRows
  <2> HIDE DEF new, last, k
  <2> QED  BY <1>1, <2>1, <2>2, BlockAssumption
<1>4. NewRows(k, new, last)
  <2>1. k > 0 => Prev[new[k]] = Read(k - 1)
    <3>1. new[k] = batch[1] /\ (tip # NoTip => Prev[batch[1]] = tip.hash)
      BY <1>2, <1>3
    <3>2. k > 0 => tip # NoTip
      BY <1>0 DEF None
    <3>3. tip # NoTip => Read(tip.height) = tip.hash
      BY <1>inv DEF ChainRule
    <3>4. k - 1 = tip.height
      BY <1>0 DEF None
    <3> HIDE DEF k, new
    <3> QED  BY <3>1, <3>2, <3>3, <3>4
  <2> HIDE DEF new, last
  <2>2. k <= tip.height + 1 /\ k - 1 <= Height[last]
    BY <1>0, <1>1, <1>3
  <2> QED  BY <1>1, <1>3, <2>1, <2>2 DEF NewRows
<1>5. KeptRows(k, new, last, sealed, sealed_ranges, rows)
  <2> HIDE DEF new, last
  <2>1. DOMAIN mutable_blocks = (sealed + 1)..tip.height
    BY <1>inv DEF CoverageRule
  <2>2. /\ DOMAIN rows = ((sealed + 1)..tip.height) \cup (k..Height[last])
        /\ \A h \in k..Height[last] : rows[h] = new[h]
        /\ \A h \in (sealed + 1)..tip.height : h \notin k..Height[last]
                                               => rows[h] = mutable_blocks[h]
    BY <1>3, <2>1 DEF Put
  <2> HIDE DEF rows
  <2>3. DOMAIN rows = (sealed + 1)..Height[last]
    BY <1>0, <1>3, <2>2 DEF None
  <2>4. \A h \in (sealed + 1)..(k - 1) : rows[h] = Read(h)
    BY <1>0, <2>2 DEF Read, None
  <2>5. sealed < k
    BY <1>0 DEF None
  <2> HIDE DEF k
  <2> QED  BY <1>0, <1>inv, <2>2, <2>3, <2>4, <2>5 DEF KeptRows, CoverageRule, None
<1>6. hash_to_height' = ReplaceHashes(OldBlocks(k), new)
  <2>1. OldBlocks(k) = {}
    BY <1>0 DEF OldBlocks, None
  <2> QED  BY <1>2, <2>1 DEF ReplaceHashes, Put, Delete
<1>7. VerifiedPrefix(state.verified_through, sealed)
  BY <1>inv DEF VerifiedPrefix, VerifiedRule
<1>8. KeptMetas(sealed)
  BY <1>2, <1>inv DEF KeptMetas, RangeMetaRule, CoverageRule
<1> HIDE DEF new, last, rows
<1>9. IndexInv' /\ KeepsBelow(k, sealed) /\ tip'.height = Height[last]
  <2> HIDE DEF k
  <2>1. /\ IndexInv /\ k \in Nat /\ last \in Block /\ t \in Nat \cup {None}
        /\ sealed \in Nat \cup {None} /\ state.verified_through \in Nat \cup {None}
        /\ SealAndCommit(sealed_ranges, sealed, state.verified_through, rows, last, t)
    BY <1>0, <1>1, <1>2, <1>3
  <2> QED  BY ONLY <1>4, <1>5, <1>6, <1>7, <1>8, <2>1, RewriteLemma
<1>10. Height[last] > tip.height
  BY <1>0, <1>3 DEF None
<1> QED  BY <1>9, <1>10

\* Index::replace_mutable_suffix keeps the rules of the index.
LEMMA ReplaceMutableLemma ==
  ASSUME IndexInv, NEW g, NEW ancestor \in Block, NEW records \in Seq(Block),
         NEW t \in Nat \cup {None},
         ReplaceMutableSuffix(g, ancestor, records, t)
  PROVE  IndexInv' /\ KeepsBelow(Height[ancestor] + 1, sealed)
<1> DEFINE k == Height[ancestor] + 1
           canonical == <<ancestor>> \o records
           new == Rows(k, records)
           last == canonical[Len(canonical)]
           rows == Put(Delete(mutable_blocks, k..tip.height), new)
<1>inv. TypeOK /\ CoverageRule /\ ChainRule /\ HashIndexRule /\ VerifiedRule /\ RangeMetaRule
  BY DEF IndexInv
<1>0. /\ tip.height \in Nat \cup {None} /\ sealed \in Nat \cup {None}
      /\ state.verified_through \in Nat \cup {None}
      /\ sealed <= tip.height
  BY <1>inv, TipFacts DEF CoverageRule
<1>1. /\ ~(sealed # None /\ Height[ancestor] < sealed)
      /\ Height[ancestor] \in 0..tip.height
      /\ Read(Height[ancestor]) = ancestor
      /\ Linked(canonical)
      /\ hash_to_height' = ReplaceHashes(OldBlocks(k), new)
      /\ SealAndCommit(sealed_ranges, sealed, state.verified_through, rows, last, t)
      /\ range_meta' = range_meta
  BY DEF ReplaceMutableSuffix, Covers
<1>2. /\ Height[ancestor] \in Nat /\ k \in Nat /\ sealed < k /\ k <= tip.height + 1
      /\ k - 1 = Height[ancestor]
  BY <1>0, <1>1, BlockAssumption DEF None
<1>3. /\ canonical \in Seq(Block) /\ canonical # <<>>
      /\ canonical[1] = ancestor
      /\ Len(records) \in Nat
      /\ Len(canonical) = Len(records) + 1
      /\ \A i \in 1..Len(records) : canonical[i + 1] = records[i]
  <2>1. <<ancestor>> \in Seq(Block) /\ Len(<<ancestor>>) = 1 /\ <<ancestor>>[1] = ancestor
    OBVIOUS
  <2>2. Len(records) \in Nat
    BY LenProperties
  <2>3. /\ canonical \in Seq(Block) /\ Len(canonical) = 1 + Len(records)
        /\ \A i \in 1..(1 + Len(records)) :
             canonical[i] = IF i <= 1 THEN <<ancestor>>[i] ELSE records[i - 1]
    BY <2>1, <2>2, ConcatProperties
  <2> HIDE DEF canonical
  <2>4. canonical[1] = ancestor
    BY <2>1, <2>2, <2>3
  <2>5. ASSUME NEW i \in 1..Len(records)
        PROVE  canonical[i + 1] = records[i]
    <3>1. i + 1 \in 1..(1 + Len(records)) /\ ~(i + 1 <= 1) /\ (i + 1) - 1 = i
      BY <2>2
    <3> QED  BY <2>3, <3>1
  <2>6. canonical # <<>>
    BY <2>2, <2>3
  <2> QED  BY <2>2, <2>3, <2>4, <2>5, <2>6
<1> HIDE DEF canonical
<1>4. /\ last \in Block
      /\ Height[last] \in Nat
      /\ k - 1 <= Height[last]
      /\ DOMAIN new = k..Height[last]
      /\ \A h \in k..Height[last] : new[h] \in Block /\ Height[new[h]] = h
      /\ \A h \in (k + 1)..Height[last] : Prev[new[h]] = new[h - 1]
      /\ k <= Height[last] => Prev[new[k]] = ancestor
      /\ last = IF k <= Height[last] THEN new[Height[last]] ELSE ancestor
  <2> DEFINE all == Rows(Height[ancestor], canonical)
  <2>1. /\ last \in Block
        /\ Height[last] = Height[ancestor] + Len(canonical) - 1
        /\ DOMAIN all = Height[ancestor]..Height[last]
        /\ \A h \in Height[ancestor]..Height[last] : all[h] \in Block /\ Height[all[h]] = h
        /\ \A h \in (Height[ancestor] + 1)..Height[last] : Prev[all[h]] = all[h - 1]
        /\ all[Height[ancestor]] = ancestor
        /\ all[Height[last]] = last
    BY ONLY <1>1, <1>3, LinkedRows
  <2>2. DOMAIN new = k..(k + Len(records) - 1)
        /\ \A h \in DOMAIN new : new[h] = records[h - k + 1]
    BY DEF Rows
  <2>3. Height[last] = k + Len(records) - 1
    BY <1>2, <1>3, <2>1
  <2>4. \A h \in k..Height[last] : new[h] = all[h]
    <3> TAKE h \in k..Height[last]
    <3>1. h - k + 1 \in 1..Len(records)
          /\ (h - k + 1) + 1 = h - Height[ancestor] + 1
      <4> HIDE DEF last, k
      <4>1. h \in Int /\ h >= k /\ h <= k + Len(records) - 1
        BY <1>2, <1>3, <2>3
      <4> QED  BY <1>2, <1>3, <4>1
    <3>2. h \in Height[ancestor]..(Height[ancestor] + Len(canonical) - 1)
      BY <1>2, <1>3, <2>3
    <3>3. all[h] = canonical[h - Height[ancestor] + 1]
      BY <3>2 DEF Rows
    <3>4. new[h] = records[h - k + 1]
      BY <2>2, <2>3
    <3>5. canonical[(h - k + 1) + 1] = records[h - k + 1]
      BY <1>3, <3>1
    <3> HIDE DEF new, all, k
    <3> QED  BY <3>1, <3>3, <3>4, <3>5
  <2> HIDE DEF new, last, all
  <2>5. Height[last] \in Nat /\ k - 1 <= Height[last]
    BY <1>2, <1>3, <2>3
  <2>6. \A h \in k..Height[last] : h \in Height[ancestor]..Height[last]
    BY <1>2, <2>5
  <2>7. \A h \in (k + 1)..Height[last] :
          /\ h \in k..Height[last] /\ h - 1 \in k..Height[last]
          /\ h \in (Height[ancestor] + 1)..Height[last]
    BY <1>2, <2>5
  <2>8. ASSUME k <= Height[last]
        PROVE  Prev[new[k]] = ancestor /\ last = new[Height[last]]
    <3>1. k \in k..Height[last] /\ Height[last] \in k..Height[last]
          /\ k \in (Height[ancestor] + 1)..Height[last] /\ k - 1 = Height[ancestor]
      BY <1>2, <2>5, <2>8
    <3> QED  BY <2>1, <2>4, <3>1
  <2>9. ~(k <= Height[last]) => last = ancestor
    <3> SUFFICES ASSUME ~(k <= Height[last])
                 PROVE  Height[last] = Height[ancestor]
      BY <2>1
    <3> QED  BY <1>2, <2>5
  <2> QED  BY <2>1, <2>2, <2>3, <2>4, <2>5, <2>6, <2>7, <2>8, <2>9
<1>5. NewRows(k, new, last)
  BY <1>1, <1>2, <1>4 DEF NewRows
<1>6. KeptRows(k, new, last, sealed, sealed_ranges, rows)
  <2> HIDE DEF new, last
  <2>1. DOMAIN mutable_blocks = (sealed + 1)..tip.height
    BY <1>inv DEF CoverageRule
  <2>2. /\ DOMAIN rows = (((sealed + 1)..tip.height) \ (k..tip.height)) \cup (k..Height[last])
        /\ \A h \in k..Height[last] : rows[h] = new[h]
        /\ \A h \in ((sealed + 1)..tip.height) \ (k..tip.height) :
             h \notin k..Height[last] => rows[h] = mutable_blocks[h]
    BY <1>4, <2>1 DEF Put, Delete
  <2> HIDE DEF rows, k
  <2>3. DOMAIN rows = (sealed + 1)..Height[last]
    <3>1. /\ sealed \in Int /\ tip.height \in Int /\ k \in Int /\ Height[last] \in Int
          /\ sealed < k /\ k <= tip.height + 1 /\ k - 1 <= Height[last]
      BY <1>0, <1>2, <1>4 DEF None
    <3>2. (((sealed + 1)..tip.height) \ (k..tip.height)) \cup (k..Height[last])
            = (sealed + 1)..Height[last]
      BY ONLY <3>1
    <3> QED  BY ONLY <2>2, <3>2
  <2>4. \A h \in (sealed + 1)..(k - 1) : rows[h] = Read(h)
    <3> TAKE h \in (sealed + 1)..(k - 1)
    <3>1. /\ h \in ((sealed + 1)..tip.height) \ (k..tip.height)
          /\ h \notin k..Height[last] /\ ~(h <= sealed)
      BY <1>0, <1>2, <1>4 DEF None
    <3> QED  BY <2>2, <3>1 DEF Read
  <2>5. (sealed + 1) % RANGE_SIZE = 0 /\ DOMAIN sealed_ranges = Starts(0, sealed)
    BY <1>inv DEF CoverageRule
  <2>6. sealed <= sealed /\ sealed < k
    BY <1>0, <1>2 DEF None
  <2> QED  BY <2>2, <2>3, <2>4, <2>5, <2>6 DEF KeptRows
<1>7. VerifiedPrefix(state.verified_through, sealed)
  BY <1>inv DEF VerifiedPrefix, VerifiedRule
<1>8. KeptMetas(sealed)
  BY <1>1, <1>inv DEF KeptMetas, RangeMetaRule, CoverageRule
<1> HIDE DEF new, last, rows
<1>9. IndexInv' /\ KeepsBelow(k, sealed)
  <2> HIDE DEF k
  <2> QED  BY <1>0, <1>1, <1>2, <1>4, <1>5, <1>6, <1>7, <1>8, RewriteLemma
<1> QED  BY <1>9

\* Index::replace_deep_suffix keeps the rules of the index.
LEMMA ReplaceDeepLemma ==
  ASSUME IndexInv, NEW g, NEW common \in Block, NEW replacement \in Seq(Block),
         NEW t \in Nat \cup {None},
         ReplaceDeepSuffix(g, common, replacement, t)
  PROVE  /\ IndexInv'
         /\ KeepsBelow(Height[common] + 1, SealedBelow(RangeStart(Height[common])))
<1> DEFINE k == RangeStart(Height[common])
           size == Height[common] - k + 1
           prefix == [i \in 1..size |-> Read(k + i - 1)]
           canonical == prefix \o replacement
           new == Rows(k, canonical)
           last == canonical[Len(canonical)]
           from == SealedBelow(k)
           verified == VerifiedBelow(k)
           ranges == RangesBelow(k)
           rows == Put(Delete(mutable_blocks, k..tip.height), new)
<1>inv. TypeOK /\ CoverageRule /\ ChainRule /\ HashIndexRule /\ VerifiedRule /\ RangeMetaRule
  BY DEF IndexInv
<1>0. /\ tip.height \in Nat \cup {None} /\ sealed \in Nat \cup {None}
      /\ state.verified_through \in Nat \cup {None}
      /\ sealed <= tip.height
      /\ \A h \in 0..tip.height : Read(h) \in Block
  BY <1>inv, TipFacts DEF CoverageRule
<1>1. /\ Height[common] \in 0..tip.height
      /\ Linked(canonical)
      /\ hash_to_height' = ReplaceHashes(OldBlocks(k), new)
      /\ range_meta' = MetasBelow(k)
      /\ SealAndCommit(ranges, from, verified, rows, last, t)
  BY DEF ReplaceDeepSuffix, Covers
<1>2. /\ Height[common] \in Nat /\ k \in Nat /\ k <= Height[common] /\ k % RANGE_SIZE = 0
  BY RangeStartFacts, BlockAssumption
<1> HIDE DEF k
<1>3. /\ size \in Nat /\ size > 0 /\ k + size - 1 <= tip.height
      /\ tip.height \in Nat /\ k <= tip.height
  <2> HIDE DEF canonical, new, last, from, verified, ranges, rows
  <2>1. Height[common] <= tip.height /\ tip.height \in Nat
    BY <1>0, <1>1, <1>2 DEF None
  <2> QED  BY <1>2, <2>1
<1>4. /\ canonical \in Seq(Block) /\ canonical # <<>>
      /\ canonical[1] = Read(k)
      /\ Len(replacement) \in Nat
      /\ Len(canonical) = size + Len(replacement)
      /\ \A i \in 1..size : canonical[i] = Read(k + i - 1)
  <2> HIDE DEF size
  <2>1. \A i \in 1..size : k + i - 1 \in 0..tip.height
    BY <1>0, <1>2, <1>3 DEF None
  <2>2. prefix \in [1..size -> Block]
    BY <1>0, <2>1
  <2>3. prefix \in Seq(Block) /\ Len(prefix) = size
    BY <1>3, <2>2
  <2>4. prefix[1] = Read(k)
    <3>1. 1 \in 1..size /\ k + 1 - 1 = k
      BY <1>2, <1>3
    <3> QED  BY <3>1
  <2> HIDE DEF prefix
  <2>5. Len(replacement) \in Nat
    BY LenProperties
  <2>6. /\ canonical \in Seq(Block) /\ Len(canonical) = size + Len(replacement)
        /\ \A i \in 1..(size + Len(replacement)) :
             canonical[i] = IF i <= size THEN prefix[i] ELSE replacement[i - size]
    BY <2>3, <2>5, ConcatProperties
  <2> HIDE DEF canonical
  <2>7. 1 \in 1..(size + Len(replacement)) /\ 1 <= size /\ size + Len(replacement) > 0
    BY <1>3, <2>5
  <2>8. canonical # <<>>
    BY <2>6, <2>7
  <2>9. \A i \in 1..size : canonical[i] = Read(k + i - 1)
    <3> TAKE i \in 1..size
    <3>1. i \in 1..(size + Len(replacement)) /\ i <= size
      BY <1>3, <2>5
    <3>2. prefix[i] = Read(k + i - 1)
      BY DEF prefix
    <3> QED  BY <2>6, <3>1, <3>2
  <2> QED  BY <2>4, <2>5, <2>6, <2>7, <2>8, <2>9
<1>5. k \in 0..tip.height /\ Height[Read(k)] = k /\ (k > 0 => Prev[Read(k)] = Read(k - 1))
  <2>1. k \in 0..tip.height /\ (k > 0 => k \in 1..tip.height)
    BY <1>2, <1>3
  <2> QED  BY <1>inv, <2>1 DEF ChainRule
<1> HIDE DEF canonical
<1>6. /\ last \in Block
      /\ Height[last] \in Nat /\ k <= Height[last]
      /\ DOMAIN new = k..Height[last]
      /\ \A h \in k..Height[last] : new[h] \in Block /\ Height[new[h]] = h
      /\ \A h \in (k + 1)..Height[last] : Prev[new[h]] = new[h - 1]
      /\ new[k] = Read(k)
      /\ new[Height[last]] = last
      /\ Height[common] <= Height[last]
      /\ \A h \in k..Height[common] : new[h] = Read(h)
  <2>1. Height[canonical[1]] = k
    BY <1>4, <1>5
  <2>2. /\ last \in Block
        /\ Height[last] = k + Len(canonical) - 1
        /\ DOMAIN new = k..Height[last]
        /\ \A h \in k..Height[last] : new[h] \in Block /\ Height[new[h]] = h
        /\ \A h \in (k + 1)..Height[last] : Prev[new[h]] = new[h - 1]
        /\ new[k] = Read(k)
        /\ new[Height[last]] = last
    BY ONLY <1>1, <1>4, <2>1, LinkedRows
  <2>3. Len(canonical) \in Nat /\ Len(canonical) > 0
    BY <1>3, <1>4
  <2>4. Height[common] <= Height[last]
    BY <1>2, <1>4, <2>2
  <2>5. ASSUME NEW h \in k..Height[common]
        PROVE  new[h] = Read(h)
    <3>0. /\ k \in Nat /\ Height[common] \in Nat /\ Len(replacement) \in Nat
          /\ Len(canonical) = Height[common] - k + 1 + Len(replacement)
      BY <1>2, <1>4
    <3>1. h \in k..(k + Len(canonical) - 1)
      BY ONLY <3>0, h \in k..Height[common]
    <3>2. new[h] = canonical[h - k + 1]
      BY <3>1 DEF Rows
    <3>3. h - k + 1 \in 1..size /\ k + (h - k + 1) - 1 = h
      BY <1>2
    <3>4. canonical[h - k + 1] = Read(k + (h - k + 1) - 1)
      BY <1>4, <3>3
    <3> HIDE DEF new, size
    <3> QED  BY <3>2, <3>3, <3>4
  <2> HIDE DEF new, last
  <2> QED  BY <1>2, <2>2, <2>3, <2>4, <2>5, BlockAssumption
<1> HIDE DEF new, last
<1>7. NewRows(k, new, last)
  <2>0. k <= Height[last] /\ Height[last] \in Nat
    BY <1>6
  <2>1. k <= tip.height + 1 /\ k - 1 <= Height[last]
    BY <1>2, <1>3, <2>0
  <2> QED  BY <1>5, <1>6, <2>1 DEF NewRows
<1>8. /\ from \in Nat \cup {None} /\ from <= sealed /\ from < k
      /\ (from + 1) % RANGE_SIZE = 0
      /\ (k <= sealed => from = k - 1) /\ (~(k <= sealed) => from = sealed)
  <2>1. CASE k <= sealed
    <3>1. from = k - 1 /\ from + 1 = k
      BY <1>2, <2>1 DEF SealedBelow
    <3> QED  BY <1>0, <1>2, <2>1, <3>1 DEF None
  <2>2. CASE ~(k <= sealed)
    <3>1. from = sealed
      BY <2>2 DEF SealedBelow
    <3> QED  BY <1>0, <1>2, <1>inv, <2>2, <3>1 DEF None, CoverageRule
  <2> QED  BY <2>1, <2>2
<1> HIDE DEF from
<1>ints. /\ k \in Int /\ sealed \in Int /\ tip.height \in Int /\ from \in Int
         /\ Height[last] \in Int /\ k <= Height[last] /\ k <= tip.height /\ sealed <= tip.height
         /\ (k <= sealed => from = k - 1) /\ (~(k <= sealed) => from = sealed)
  <2> HIDE DEF size, prefix, verified, ranges, rows
  <2>1. sealed \in Int /\ tip.height \in Int /\ sealed <= tip.height
    BY <1>0 DEF None
  <2>2. Height[last] \in Int /\ k <= Height[last]
    BY <1>6
  <2>3. from \in Int
    BY <1>8 DEF None
  <2> QED  BY <1>2, <1>3, <1>8, <2>1, <2>2, <2>3
<1>starts. \A s \in Nat : s \in Starts(0, sealed) /\ ~(s >= k) <=> s \in Starts(0, from)
  <2> TAKE s \in Nat
  <2>1. s \in 0..sealed /\ ~(s >= k) <=> s \in 0..from
    BY <1>0, <1>2, <1>8 DEF None
  <2> QED  BY <2>1 DEF Starts
<1>9. KeptRows(k, new, last, from, ranges, rows)
  <2>1. /\ DOMAIN mutable_blocks = (sealed + 1)..tip.height
        /\ DOMAIN sealed_ranges = Starts(0, sealed)
    BY <1>inv DEF CoverageRule
  <2>2. /\ DOMAIN rows = (((sealed + 1)..tip.height) \ (k..tip.height)) \cup (k..Height[last])
        /\ \A h \in k..Height[last] : rows[h] = new[h]
        /\ \A h \in ((sealed + 1)..tip.height) \ (k..tip.height) :
             h \notin k..Height[last] => rows[h] = mutable_blocks[h]
    BY <1>6, <2>1 DEF Put, Delete
  <2>3. /\ DOMAIN ranges = {s \in Starts(0, sealed) : ~(s >= k)}
        /\ \A s \in DOMAIN ranges : ranges[s] = sealed_ranges[s]
    BY <2>1 DEF RangesBelow, Delete
  <2> HIDE DEF rows, ranges
  <2>4. DOMAIN ranges = Starts(0, from)
    BY <1>starts, <2>3 DEF Starts
  <2>5. DOMAIN rows = (from + 1)..Height[last]
    <3>1. (((sealed + 1)..tip.height) \ (k..tip.height)) \cup (k..Height[last])
            = (from + 1)..Height[last]
      <4>1. CASE k <= sealed
        BY ONLY <1>ints, <4>1
      <4>2. CASE ~(k <= sealed)
        BY ONLY <1>ints, <4>2
      <4> QED  BY <4>1, <4>2
    <3> QED  BY ONLY <2>2, <3>1
  <2>6. \A h \in (from + 1)..(k - 1) : rows[h] = Read(h)
    <3> TAKE h \in (from + 1)..(k - 1)
    <3>1. /\ h \in ((sealed + 1)..tip.height) \ (k..tip.height)
          /\ h \notin k..Height[last] /\ ~(h <= sealed)
      <4>1. CASE k <= sealed
        BY <1>ints, <4>1
      <4>2. CASE ~(k <= sealed)
        BY <1>ints, <4>2
      <4> QED  BY <4>1, <4>2
    <3> QED  BY <2>2, <3>1 DEF Read
  <2> QED  BY <1>8, <2>2, <2>3, <2>4, <2>5, <2>6 DEF KeptRows
<1>10. verified \in Nat \cup {None} /\ VerifiedPrefix(verified, from)
  <2>1. CASE k <= state.verified_through
    <3>1. verified = k - 1 /\ verified + 1 = k
      BY <1>2, <2>1 DEF VerifiedBelow
    <3>2. k <= sealed
      BY <1>0, <1>2, <1>inv, <2>1 DEF VerifiedRule, None
    <3> QED  BY <1>2, <1>8, <3>1, <3>2 DEF VerifiedPrefix, None
  <2>2. CASE ~(k <= state.verified_through)
    <3>1. verified = state.verified_through
      BY <2>2 DEF VerifiedBelow
    <3> QED  BY <1>0, <1>2, <1>8, <1>inv, <2>2, <3>1 DEF VerifiedPrefix, VerifiedRule, None
  <2> QED  BY <2>1, <2>2
<1>11. KeptMetas(from)
  <2>1. /\ DOMAIN range_meta' = {s \in DOMAIN range_meta : ~(s >= k)}
        /\ \A s \in DOMAIN range_meta' : range_meta'[s] = range_meta[s]
    BY <1>1 DEF MetasBelow, Delete
  <2>2. \A s \in DOMAIN range_meta : s \in Nat /\ s \in Starts(0, sealed)
    BY <1>inv DEF RangeMetaRule, CoverageRule, TypeOK
  <2> QED  BY <1>starts, <2>1, <2>2 DEF KeptMetas
<1> HIDE DEF ranges, rows, verified
<1>12. /\ IndexInv' /\ KeepsBelow(k, from) /\ tip'.height = Height[last]
       /\ \A h \in k..Height[last] : Read(h)' = new[h]
  BY <1>1, <1>2, <1>6, <1>7, <1>8, <1>9, <1>10, <1>11, RewriteLemma
<1>13. KeepsBelow(Height[common] + 1, from)
  <2>1. ASSUME NEW h \in 0..Height[common]
        PROVE  Read(h)' = Read(h)
    <3>1. CASE h < k
      BY <1>2, <1>12, <3>1 DEF KeepsBelow
    <3>2. CASE h >= k
      <4>1. h \in k..Height[common] /\ h \in k..Height[last]
        BY <1>2, <1>6, <3>2
      <4> QED  BY <1>6, <1>12, <4>1
    <3> QED  BY <1>2, <3>1, <3>2
  <2>2. Height[common] + 1 <= tip'.height + 1 /\ (Height[common] + 1) - 1 = Height[common]
    BY <1>2, <1>6, <1>12
  <2> QED  BY <1>12, <2>1, <2>2 DEF KeepsBelow
<1> QED  BY <1>12, <1>13 DEF from, k

\* Index::install_sealed_range keeps the rules of the index.
LEMMA InstallLemma ==
  ASSUME IndexInv, NEW k, NEW blob \in Seq(Block), NEW meta \in RangeMeta,
         Install(k, blob, meta)
  PROVE  IndexInv' /\ KeepsBelow(tip.height + 1, sealed) /\ tip'.height > tip.height
<1> DEFINE new == Rows(k, blob)
           last == blob[Len(blob)]
           top == RangeEnd(k)
<1>inv. TypeOK /\ CoverageRule /\ ChainRule /\ HashIndexRule /\ VerifiedRule /\ RangeMetaRule
  BY DEF IndexInv
<1>0. /\ tip.height \in Nat \cup {None} /\ sealed \in Nat \cup {None}
      /\ state.verified_through \in Nat \cup {None}
      /\ state.generation \in 0..MaxGeneration
      /\ tip # NoTip <=> tip.height \in Nat
      /\ \A h \in 0..tip.height : Read(h) \in Block
  BY <1>inv, TipFacts
<1>1. /\ k = sealed + 1 /\ tip.height = sealed
      /\ Len(blob) = RANGE_SIZE /\ Linked(blob) /\ Height[blob[1]] = k
      /\ Prev[blob[1]] = tip.hash
      /\ meta.start_height = k /\ meta.end_height = Height[last] /\ meta.end_hash = last
      /\ state.generation < MaxGeneration
      /\ hash_to_height' = Put(hash_to_height, Entries(new))
      /\ sealed_ranges' = Put(sealed_ranges, [s \in {k} |-> new])
      /\ range_meta' = Put(range_meta, [s \in {k} |-> meta])
      /\ state' = [durable_tip |-> [height |-> meta.end_height, hash |-> meta.end_hash],
                   sealed_through |-> meta.end_height,
                   verified_through |->
                     IF meta.state = "Verified" /\ state.verified_through + 1 = k
                       THEN meta.end_height ELSE state.verified_through,
                   generation |-> state.generation + 1]
      /\ mutable_blocks' = mutable_blocks
  BY DEF Install, CanCommit, NextGeneration
<1>k. k = sealed + 1 /\ tip.height = sealed /\ sealed \in Nat \cup {None}
  BY <1>0, <1>1
<1>tables. /\ sealed_ranges' = Put(sealed_ranges, [s \in {k} |-> new])
           /\ range_meta' = Put(range_meta, [s \in {k} |-> meta])
           /\ hash_to_height' = Put(hash_to_height, Entries(new))
           /\ mutable_blocks' = mutable_blocks
  BY <1>1
<1>blob. Prev[blob[1]] = tip.hash
  BY <1>1
<1>2. /\ k \in Nat /\ k % RANGE_SIZE = 0 /\ top \in Nat /\ k <= top
      /\ top + 1 = k + RANGE_SIZE /\ (top + 1) % RANGE_SIZE = 0
      /\ \A h \in k..top : RangeStart(h) = k
      /\ k > 0 <=> tip.height \in Nat
  <2>0. (sealed + 1) % RANGE_SIZE = 0
    BY <1>inv DEF CoverageRule
  <2>1. k \in Nat /\ k % RANGE_SIZE = 0 /\ (k > 0 <=> tip.height \in Nat)
    BY <1>k, <2>0 DEF None
  <2>2. top \in Nat /\ k <= top /\ top + 1 = k + RANGE_SIZE
    BY <2>1, RangeSizeAssumption DEF RangeEnd
  <2> QED  BY <2>1, <2>2, NextStart
<1>3. /\ last \in Block /\ Height[last] = top
      /\ DOMAIN new = k..top
      /\ \A h \in k..top : new[h] \in Block /\ Height[new[h]] = h
      /\ \A h \in (k + 1)..top : Prev[new[h]] = new[h - 1]
      /\ new[k] = blob[1]
      /\ new[top] = last
      /\ new \in [k..top -> Block]
  <2>1. blob # <<>>
    BY <1>1, RangeSizeAssumption
  <2>2. /\ last \in Block
        /\ Height[last] = k + Len(blob) - 1
        /\ DOMAIN new = k..Height[last]
        /\ \A h \in k..Height[last] : new[h] \in Block /\ Height[new[h]] = h
        /\ \A h \in (k + 1)..Height[last] : Prev[new[h]] = new[h - 1]
        /\ new[k] = blob[1]
        /\ new[Height[last]] = last
    BY ONLY <1>1, <2>1, blob \in Seq(Block), LinkedRows
  <2>3. Height[last] = top
    BY <1>1, <2>2 DEF RangeEnd
  <2>4. new = [h \in DOMAIN new |-> new[h]]
    BY DEF Rows
  <2> HIDE DEF new, last, top
  <2> QED  BY <2>2, <2>3, <2>4
<1> HIDE DEF new, last, top
<1>4. /\ tip' = [height |-> top, hash |-> last] /\ sealed' = top
      /\ state'.generation = state.generation + 1
      /\ state'.verified_through \in {top, state.verified_through}
      /\ state' \in [durable_tip : {tip'}, sealed_through : {sealed'},
                     verified_through : {state'.verified_through},
                     generation : {state'.generation}]
  BY <1>1, <1>3 DEF tip, sealed
<1>5. /\ DOMAIN sealed_ranges = Starts(0, sealed)
      /\ DOMAIN mutable_blocks = {}
      /\ DOMAIN sealed_ranges' = DOMAIN sealed_ranges \cup {k}
      /\ k \notin DOMAIN sealed_ranges
      /\ sealed_ranges'[k] = new
      /\ \A s \in DOMAIN sealed_ranges : sealed_ranges'[s] = sealed_ranges[s]
  <2>0. /\ DOMAIN sealed_ranges = Starts(0, sealed)
        /\ DOMAIN mutable_blocks = (sealed + 1)..tip.height
    BY <1>inv DEF CoverageRule
  <2>1. DOMAIN sealed_ranges = Starts(0, sealed) /\ DOMAIN mutable_blocks = {}
    BY <1>k, <2>0 DEF None
  <2>2. k \notin DOMAIN sealed_ranges
    BY <1>k, <2>1 DEF Starts, None
  <2> QED  BY <1>tables, <2>1, <2>2 DEF Put
<1>6. CoverageRule'
  <2>1. \A s \in Nat : s \in Starts(0, top) <=> s \in Starts(0, sealed) \/ s = k
    <3> TAKE s \in Nat
    <3>1. ASSUME s % RANGE_SIZE = 0, s <= top
          PROVE  s <= sealed \/ s = k
      <4>1. ~(k < s)
        <5>1. k < s => k + RANGE_SIZE <= s
          BY <1>2, <3>1, StartsApart
        <5>2. k + RANGE_SIZE = top + 1 /\ k \in Nat /\ top \in Nat
          BY <1>2
        <5> QED  BY <3>1, <5>1, <5>2
      <4>2. sealed = k - 1
        BY <1>k DEF None
      <4> QED  BY <1>2, <4>1, <4>2
    <3>2. s <= sealed => s <= top
      BY <1>k, <1>2 DEF None
    <3>3. k <= top /\ k \in Nat /\ k % RANGE_SIZE = 0
      BY <1>2
    <3>4. s \in 0..top <=> s <= top
      BY <1>2
    <3>5. s \in 0..sealed <=> s <= sealed
      BY <1>k DEF None
    <3> QED  BY <3>1, <3>2, <3>3, <3>4, <3>5 DEF Starts
  <2>2. DOMAIN sealed_ranges' = Starts(0, top)
    BY <1>2, <1>5, <2>1 DEF Starts
  <2>3. DOMAIN mutable_blocks' = (top + 1)..top
    BY <1>tables, <1>2, <1>5
  <2> QED  BY <1>2, <1>4, <2>2, <2>3 DEF CoverageRule
<1>7. \A h \in k..top : Read(h)' = new[h]
  BY <1>2, <1>4, <1>5 DEF Read
<1>8. \A h \in 0..(k - 1) : Read(h)' = Read(h)
  <2> SUFFICES ASSUME NEW h \in 0..(k - 1)
               PROVE  Read(h)' = Read(h)
    OBVIOUS
  <2>1. h \in Nat /\ h <= sealed /\ h <= top
    BY <1>k, <1>2 DEF None
  <2>2. RangeStart(h) \in DOMAIN sealed_ranges
    BY <1>k, <1>5, <2>1, StartInside
  <2> QED  BY <1>4, <1>5, <2>1, <2>2 DEF Read
<1>9. ChainRule'
  <2>1. \A h \in 0..top : Height[Read(h)'] = h
    <3> TAKE h \in 0..top
    <3>1. CASE h < k
      <4>1. h \in 0..(k - 1) /\ h \in 0..tip.height
        BY <1>k, <1>2, <3>1 DEF None
      <4> QED  BY <1>8, <1>inv, <4>1 DEF ChainRule
    <3>2. CASE h >= k
      BY <1>2, <1>3, <1>7, <3>2
    <3> QED  BY <1>2, <3>1, <3>2
  <2>2. \A h \in 1..top : Prev[Read(h)'] = Read(h - 1)'
    <3> TAKE h \in 1..top
    <3>1. CASE h < k
      <4>1. h \in 1..tip.height /\ h \in 0..(k - 1) /\ h - 1 \in 0..(k - 1)
        BY <1>k, <1>2, <3>1 DEF None
      <4>2. Prev[Read(h)] = Read(h - 1)
        BY <1>inv, <4>1 DEF ChainRule
      <4> QED  BY <1>8, <4>1, <4>2
    <3>2. CASE h = k
      <4>1. k > 0 /\ k \in k..top /\ k - 1 \in 0..(k - 1) /\ k - 1 = tip.height
        BY <1>k, <1>2, <3>2 DEF None
      <4>2. Read(k - 1) = tip.hash
        <5>1. tip # NoTip
          BY <1>0, <1>2, <4>1
        <5>2. Read(tip.height) = tip.hash
          BY <1>inv, <5>1 DEF ChainRule
        <5> QED  BY <4>1, <5>2
      <4>3. Read(k)' = new[k] /\ Read(k - 1)' = Read(k - 1)
        BY <1>7, <1>8, <4>1
      <4> QED  BY <1>3, <1>blob, <3>2, <4>2, <4>3
    <3>3. CASE h > k
      <4>1. h \in (k + 1)..top /\ h \in k..top /\ h - 1 \in k..top
        BY <1>2, <3>3
      <4> QED  BY <1>3, <1>7, <4>1
    <3> QED  BY <1>2, <3>1, <3>2, <3>3
  <2>3. Read(top)' = last
    BY <1>2, <1>3, <1>7
  <2> QED  BY <1>4, <2>1, <2>2, <2>3 DEF ChainRule
<1>10. HashesExact(k, new, top)
  <2>1. RowsAtHeights(k, new, top)
    BY <1>3 DEF RowsAtHeights
  <2>2. OldBlocks(k) = {}
    BY <1>k DEF OldBlocks, None
  <2>3. hash_to_height' = ReplaceHashes(OldBlocks(k), new)
    BY <1>tables, <2>2 DEF ReplaceHashes, Put, Delete
  <2>4. k <= tip.height + 1
    BY <1>k, <1>2
  <2> QED  BY <1>2, <1>inv, <2>1, <2>3, <2>4, HashLemma
<1>11. /\ HashIndexRule'
       /\ DOMAIN hash_to_height' \subseteq Block
       /\ \A b \in DOMAIN hash_to_height' : hash_to_height'[b] \in Nat
  <2>1. \A h \in 0..top : h \in 0..(k - 1) \/ h \in k..top
    BY <1>2
  <2>2. \A h \in 0..top : Read(h)' \in DOMAIN hash_to_height'
                          /\ hash_to_height'[Read(h)'] = h
    BY <1>7, <1>8, <1>10, <2>1 DEF HashesExact
  <2>3. ASSUME NEW b \in DOMAIN hash_to_height'
        PROVE  /\ \E h \in 0..top : hash_to_height'[b] = h /\ Read(h)' = b
               /\ b \in Block
    <3>1. CASE \E h \in 0..(k - 1) : b = Read(h) /\ hash_to_height'[b] = h
      <4> PICK h \in 0..(k - 1) : b = Read(h) /\ hash_to_height'[b] = h
        BY <3>1
      <4>1. h \in 0..top /\ h \in 0..tip.height
        BY <1>k, <1>2 DEF None
      <4> QED  BY <1>0, <1>8, <4>1
    <3>2. CASE \E h \in k..top : b = new[h] /\ hash_to_height'[b] = h
      <4> PICK h \in k..top : b = new[h] /\ hash_to_height'[b] = h
        BY <3>2
      <4>1. h \in 0..top
        BY <1>2
      <4> QED  BY <1>3, <1>7, <4>1
    <3> QED  BY <1>10, <3>1, <3>2 DEF HashesExact
  <2>4. tip'.height = top
    BY <1>4
  <2>5. HashIndexRule'
    BY <2>2, <2>3, <2>4 DEF HashIndexRule
  <2> QED  BY <1>2, <2>3, <2>5
<1>12. VerifiedRule' /\ state'.verified_through \in Nat \cup {None}
  <2>1. CASE state'.verified_through = top
    BY <1>2, <1>4, <2>1 DEF VerifiedRule
  <2>2. CASE state'.verified_through = state.verified_through
    <3>0. state.verified_through <= sealed /\ (state.verified_through + 1) % RANGE_SIZE = 0
          /\ state.verified_through \in Nat \cup {None}
      BY <1>0, <1>inv DEF VerifiedRule
    <3>1. state.verified_through <= top
      BY <1>k, <1>2, <3>0 DEF None
    <3> QED  BY <1>4, <2>2, <3>0, <3>1 DEF VerifiedRule
  <2> QED  BY <1>4, <2>1, <2>2
<1>13. RangeMetaRule' /\ DOMAIN range_meta' \subseteq Nat
       /\ \A s \in DOMAIN range_meta' : range_meta'[s] \in RangeMeta
  <2>1. /\ DOMAIN range_meta' = DOMAIN range_meta \cup {k}
        /\ range_meta'[k] = meta
        /\ \A s \in DOMAIN range_meta : s # k => range_meta'[s] = range_meta[s]
    BY <1>tables DEF Put
  <2>2. meta.end_height = top /\ meta.end_hash = sealed_ranges'[k][top] /\ top = RangeEnd(k)
    BY <1>1, <1>3, <1>5 DEF top
  <2>m. meta.start_height = k
    BY <1>1
  <2>3. RangeMetaRule'
    BY <1>5, <1>inv, <2>1, <2>2, <2>m DEF RangeMetaRule
  <2> QED  BY <1>2, <1>inv, <2>1, <2>3 DEF TypeOK
<1>14. TypeOK'
  <2>1. state' \in IndexState
    <3>1. tip' \in [height : Nat, hash : Block]
      BY <1>2, <1>3, <1>4
    <3>2. state'.generation \in 0..MaxGeneration
      <4>1. state.generation < MaxGeneration
        BY <1>1
      <4> QED  BY <1>0, <1>4, <4>1, MaxGenerationAssumption
    <3> QED  BY <1>2, <1>4, <1>12, <3>1, <3>2 DEF IndexState
  <2>2. /\ DOMAIN sealed_ranges' \subseteq Nat
        /\ \A s \in DOMAIN sealed_ranges' : sealed_ranges'[s] \in [s..RangeEnd(s) -> Block]
    BY <1>2, <1>3, <1>5, <1>inv DEF TypeOK, top
  <2> QED  BY <1>tables, <1>5, <1>11, <1>13, <2>1, <2>2 DEF TypeOK
<1>15. KeepsBelow(tip.height + 1, sealed) /\ tip'.height > tip.height
  <2>1. tip'.height = top /\ sealed' = top /\ tip.height + 1 = k /\ tip.height = sealed
    BY <1>k, <1>4
  <2>2. sealed <= top /\ k <= top + 1 /\ top > tip.height
    BY <1>k, <1>2 DEF None
  <2> QED  BY <1>4, <1>8, <2>1, <2>2 DEF KeepsBelow
<1>16. IndexInv'
  BY <1>6, <1>9, <1>11, <1>12, <1>13, <1>14 DEF IndexInv
<1> QED  BY <1>15, <1>16

\* Index::put_range_meta keeps the rules of the index.
LEMMA PutRangeMetaLemma ==
  ASSUME IndexInv, NEW start \in Nat, NEW meta \in RangeMeta, PutRangeMeta(start, meta)
  PROVE  IndexInv'
<1>inv. TypeOK /\ CoverageRule /\ ChainRule /\ HashIndexRule /\ VerifiedRule /\ RangeMetaRule
  BY DEF IndexInv
<1>0. tip.height \in Nat \cup {None} /\ sealed \in Nat \cup {None} /\ sealed <= tip.height
  BY <1>inv, TipFacts DEF CoverageRule
<1>1. /\ start = RangeStart(start)
      /\ meta.start_height = start /\ meta.end_height = RangeEnd(start)
      /\ sealed # None /\ RangeEnd(start) <= sealed
      /\ meta.end_hash \in DOMAIN hash_to_height
      /\ hash_to_height[meta.end_hash] = RangeEnd(start)
      /\ range_meta' = Put(range_meta, [s \in {start} |-> meta])
      /\ UNCHANGED <<sealed_ranges, mutable_blocks, hash_to_height, state>>
  BY DEF PutRangeMeta
<1>2. /\ start % RANGE_SIZE = 0 /\ start <= RangeEnd(start) /\ RangeEnd(start) \in Nat
      /\ RangeStart(RangeEnd(start)) = start
  <2>1. start % RANGE_SIZE = 0 /\ start <= RangeEnd(start)
    BY <1>1, RangeStartFacts
  <2>2. RangeEnd(start) \in start..RangeEnd(start)
    BY <2>1, RangeSizeAssumption DEF RangeEnd
  <2> QED  BY <2>1, <2>2, NextStart
<1>3. start \in DOMAIN sealed_ranges
  <2>1. DOMAIN sealed_ranges = Starts(0, sealed)
    BY <1>inv DEF CoverageRule
  <2>2. RangeEnd(start) <= sealed /\ sealed \in Int
    BY <1>0, <1>1 DEF None
  <2>3. start \in 0..sealed
    BY <1>2, <2>2
  <2> QED  BY <1>2, <2>1, <2>3 DEF Starts
<1>4. meta.end_hash = sealed_ranges[start][RangeEnd(start)]
  <2>1. Read(RangeEnd(start)) = meta.end_hash
    BY <1>1, <1>inv DEF HashIndexRule
  <2> QED  BY <1>1, <1>2, <2>1 DEF Read
<1>5. /\ DOMAIN range_meta' = DOMAIN range_meta \cup {start}
      /\ range_meta'[start] = meta
      /\ \A s \in DOMAIN range_meta : s # start => range_meta'[s] = range_meta[s]
  BY <1>1 DEF Put
<1>6. RangeMetaRule'
  BY <1>1, <1>3, <1>4, <1>5, <1>inv DEF RangeMetaRule
<1>7. TypeOK'
  BY <1>1, <1>5, <1>inv DEF TypeOK
<1>8. CoverageRule' /\ ChainRule' /\ HashIndexRule' /\ VerifiedRule'
  BY <1>1, <1>inv
     DEF CoverageRule, ChainRule, HashIndexRule, VerifiedRule, Read, tip, sealed
<1> QED  BY <1>6, <1>7, <1>8 DEF IndexInv

-----------------------------------------------------------------------------
(* The theorems *)

\* A new environment satisfies the rules of the index.
LEMMA InitLemma == Init => IndexInv
<1> SUFFICES ASSUME Init PROVE IndexInv
  OBVIOUS
<1>1. /\ DOMAIN sealed_ranges = {} /\ DOMAIN mutable_blocks = {}
      /\ DOMAIN hash_to_height = {} /\ DOMAIN range_meta = {}
      /\ tip = NoTip /\ tip.height = -1 /\ sealed = -1
      /\ state.verified_through = -1 /\ state.generation = 0
  BY DEF Init, EmptyTable, tip, sealed, NoTip, None
<1>2. (-1 + 1) % RANGE_SIZE = 0
  BY RangeSizeAssumption
<1>3. state \in IndexState
  BY MaxGenerationAssumption DEF Init, IndexState, None
<1>4. TypeOK
  BY <1>1, <1>3 DEF TypeOK
<1>5. CoverageRule /\ VerifiedRule
  BY <1>1, <1>2 DEF CoverageRule, VerifiedRule, Starts
<1>6. ChainRule /\ HashIndexRule /\ RangeMetaRule
  BY <1>1 DEF ChainRule, HashIndexRule, RangeMetaRule
<1> QED  BY <1>4, <1>5, <1>6 DEF IndexInv

\* Every write, and a step without a write, keeps the rules of the index.
LEMMA StepLemma ==
  ASSUME IndexInv, [Next]_vars
  PROVE  IndexInv'
<1>heights. Heights \subseteq Nat
  BY BlockAssumption DEF Heights
<1>1. CASE AppendStep
  <2> PICK g \in 0..state.generation, s \in Segments, t \in Heights \cup {None} :
         AppendBatch(g, s, t)
    BY <1>1 DEF AppendStep
  <2>1. s \in Seq(Block) /\ t \in Nat \cup {None}
    BY <1>heights, InputAssumption
  <2> QED  BY <2>1, AppendLemma
<1>2. CASE ReplaceMutableStep
  <2> PICK g \in 0..state.generation, b \in Block, s \in Segments, t \in Heights \cup {None} :
         ReplaceMutableSuffix(g, b, s, t)
    BY <1>2 DEF ReplaceMutableStep
  <2>1. s \in Seq(Block) /\ t \in Nat \cup {None}
    BY <1>heights, InputAssumption
  <2> QED  BY <2>1, ReplaceMutableLemma
<1>3. CASE ReplaceDeepStep
  <2> PICK g \in 0..state.generation, b \in Block, s \in Segments, t \in Heights \cup {None} :
         ReplaceDeepSuffix(g, b, s, t)
    BY <1>3 DEF ReplaceDeepStep
  <2>1. s \in Seq(Block) /\ t \in Nat \cup {None}
    BY <1>heights, InputAssumption
  <2> QED  BY <2>1, ReplaceDeepLemma
<1>4. CASE InstallStep
  BY <1>4, InputAssumption, InstallLemma DEF InstallStep
<1>5. CASE PutRangeMetaStep
  BY <1>5, <1>heights, InputAssumption, PutRangeMetaLemma DEF PutRangeMetaStep
<1>6. CASE UNCHANGED vars
  BY <1>6
     DEF vars, IndexInv, TypeOK, CoverageRule, ChainRule, HashIndexRule, VerifiedRule,
         RangeMetaRule, Read, tip, sealed
<1> QED  BY <1>1, <1>2, <1>3, <1>4, <1>5, <1>6 DEF Next

\* The rules of Index hold after every write of the index, in any order: an
\* append, a shallow or deep replacement, an install or a metadata row.
THEOREM IndexCorrect == Spec => []IndexInv
  BY InitLemma, StepLemma, PTL DEF Spec

\* Every row that a write commits has the type of its table.
THEOREM TypeCorrect == Spec => []TypeOK
<1>1. IndexInv => TypeOK
  BY DEF IndexInv
<1> QED  BY <1>1, IndexCorrect, PTL

\* After every commit, each height through the durable tip has one owner, a
\* sealed range or a mutable row, at each border of a range where write seals.
THEOREM CoverageCorrect == Spec => []CoverageRule
<1>1. IndexInv => CoverageRule
  BY DEF IndexInv
<1> QED  BY <1>1, IndexCorrect, PTL

\* After every commit, a reader finds one hash chain from height 0 to the
\* durable tip: no reorg, seal or install leaves a gap or a broken link.
THEOREM ChainCorrect == Spec => []ChainRule
<1>1. IndexInv => ChainRule
  BY DEF IndexInv
<1> QED  BY <1>1, IndexCorrect, PTL

\* After every commit, block_by_hash resolves the blocks of that chain at
\* their heights and no block that a reorg took out of it.
THEOREM HashIndexCorrect == Spec => []HashIndexRule
<1>1. IndexInv => HashIndexRule
  BY DEF IndexInv
<1> QED  BY <1>1, IndexCorrect, PTL

\* A metadata row always describes the range that is sealed at its key, also
\* when a deep reorg runs between the read of a range and put_range_meta.
THEOREM RangeMetaCorrect == Spec => []RangeMetaRule
<1>1. IndexInv => RangeMetaRule
  BY DEF IndexInv
<1> QED  BY <1>1, IndexCorrect, PTL

\* verified_through always ends at the end of a range that is still sealed: a
\* deep reorg takes it back with the ranges that it deletes.
THEOREM VerifiedCorrect == Spec => []VerifiedRule
<1>1. IndexInv => VerifiedRule
  BY DEF IndexInv
<1> QED  BY <1>1, IndexCorrect, PTL

\* Two readers at one generation read the same blocks: each write that changes
\* a block or a hash entry takes a new generation (commit), and
\* put_range_meta changes neither.
THEOREM GenerationCorrect == Spec => ReadersOfAGenerationAgree
<1>1. ASSUME IndexInv, [Next]_vars
      PROVE  [/\ state'.generation >= state.generation
              /\ state'.generation = state.generation =>
                   UNCHANGED <<sealed_ranges, mutable_blocks, hash_to_height, state>>]_vars
  <2>0. state.generation \in Nat
    <3>1. TypeOK /\ CoverageRule
      BY <1>1 DEF IndexInv
    <3>2. state.generation \in 0..MaxGeneration
      BY <3>1, TipFacts
    <3> QED  BY <3>2, MaxGenerationAssumption
  <2> DEFINE Advance == state'.generation = state.generation + 1
             Same == UNCHANGED <<sealed_ranges, mutable_blocks, hash_to_height, state>>
  <2>1. \A ranges, from, verified, rows, last, t :
          SealAndCommit(ranges, from, verified, rows, last, t) => Advance
    BY DEF SealAndCommit, NextGeneration
  <2> HIDE DEF Advance, Same
  <2>2. AppendStep => Advance
    BY <2>1 DEF AppendStep, AppendBatch
  <2>3. ReplaceMutableStep \/ ReplaceDeepStep => Advance
    <3>1. \A g, b, s, t : ReplaceMutableSuffix(g, b, s, t) => Advance
      BY <2>1 DEF ReplaceMutableSuffix
    <3>2. \A g, b, s, t : ReplaceDeepSuffix(g, b, s, t) => Advance
      BY <2>1 DEF ReplaceDeepSuffix
    <3> QED  BY <3>1, <3>2 DEF ReplaceMutableStep, ReplaceDeepStep
  <2>4. InstallStep => Advance
    <3>1. \A start, s, m : Install(start, s, m) => Advance
      <4> TAKE start, s, m
      <4> SUFFICES ASSUME Install(start, s, m)
                   PROVE  Advance
        OBVIOUS
      <4> DEFINE through == IF m.state = "Verified" /\ state.verified_through + 1 = start
                            THEN m.end_height ELSE state.verified_through
      <4>1. state' = [durable_tip |-> [height |-> m.end_height, hash |-> m.end_hash],
                      sealed_through |-> m.end_height, verified_through |-> through,
                      generation |-> NextGeneration]
        BY DEF Install
      <4> HIDE DEF through
      <4> QED  BY ONLY <4>1 DEF NextGeneration, Advance
    <3> QED  BY <3>1 DEF InstallStep
  <2>5. PutRangeMetaStep => Same
    BY DEF PutRangeMetaStep, PutRangeMeta, Same
  <2>6. Advance \/ Same \/ UNCHANGED vars
    <3>1. Next => Advance \/ Same
      BY <2>2, <2>3, <2>4, <2>5 DEF Next
    <3> QED  BY <1>1, <3>1
  <2> QED  BY <2>0, <2>6 DEF Advance, Same
<1> QED  BY <1>1, IndexCorrect, PTL DEF Spec, ReadersOfAGenerationAgree

-----------------------------------------------------------------------------
(* The index implements ChainStore *)

\* The types of what a write leaves.
TipTyped ==
  /\ tip.height \in Nat \cup {None} /\ sealed \in Nat \cup {None}
  /\ \A h \in 0..tip.height : Read(h) \in Block
LEMMA TipNext == (TypeOK /\ CoverageRule => TipTyped)'
<1>1. TypeOK /\ CoverageRule => TipTyped
  BY TipFacts DEF TipTyped
<1> QED  BY <1>1, PTL

\* What a commit must leave, in terms of ChainStore.
LEMMA CommitLemma ==
  ASSUME IndexInv', state'.generation = state.generation + 1
  PROVE  AsStore!Commit
<1>inv. (TypeOK /\ CoverageRule /\ ChainRule)'
  BY DEF IndexInv
<1>1. /\ tip'.height \in Nat \cup {None} /\ sealed' \in Nat \cup {None}
      /\ \A h \in 0..tip'.height : Read(h)' \in Block
  BY <1>inv, TipNext DEF TipTyped
<1>2. ReaderChain' = [h \in 0..tip'.height |-> Read(h)']
  BY DEF ReaderChain
<1>3. AsStore!IsChain(ReaderChain', tip'.height)
  <2>1. ReaderChain' \in [0..tip'.height -> Block]
    BY <1>1, <1>2
  <2>2. ASSUME NEW h \in 0..tip'.height
        PROVE  /\ Height[ReaderChain'[h]] = h
               /\ h > 0 => Prev[ReaderChain'[h]] = ReaderChain'[h - 1]
    <3>1. Height[Read(h)'] = h /\ (h > 0 => Prev[Read(h)'] = Read(h - 1)')
      BY <1>1, <1>inv DEF ChainRule, None
    <3>2. h > 0 => h - 1 \in 0..tip'.height
      BY <1>1 DEF None
    <3> QED  BY <1>2, <3>1, <3>2
  <2> QED  BY <2>1, <2>2 DEF AsStore!IsChain
<1>4. sealed' \in -1..tip'.height /\ (sealed' + 1) % RANGE_SIZE = 0
  BY <1>1, <1>inv DEF CoverageRule, None
<1> QED  BY <1>3, <1>4 DEF AsStore!Commit

\* The blocks that a write keeps, in terms of ChainStore.
LEMMA KeepsLemma ==
  ASSUME IndexInv, NEW h \in Nat \cup {None}, NEW from,
         h <= tip.height, KeepsBelow(h + 1, from), tip'.height \in Nat
  PROVE  AsStore!Keeps(h)
<1>1. tip.height \in Nat \cup {None}
  BY TipFacts DEF IndexInv
<1>2. h <= tip'.height /\ \A i \in 0..h : Read(i)' = Read(i)
  BY DEF KeepsBelow, None
<1>3. \A i \in 0..h : i \in 0..tip.height /\ i \in 0..tip'.height
  BY <1>1, <1>2 DEF None
<1>4. \A i \in 0..h : ReaderChain'[i] = ReaderChain[i]
  BY <1>2, <1>3 DEF ReaderChain
<1> QED  BY <1>2, <1>4 DEF AsStore!Keeps

\* Each write is a step of ChainStore; put_range_meta is not visible in it.
LEMMA StoreStep ==
  ASSUME IndexInv, [Next]_vars
  PROVE  [AsStore!Next]_(AsStore!vars)
<1>inv. IndexInv' /\ TypeOK /\ CoverageRule
  BY StepLemma DEF IndexInv
<1>0. /\ tip.height \in Nat \cup {None} /\ sealed \in Nat \cup {None}
      /\ sealed <= tip.height
  BY <1>inv, TipFacts DEF CoverageRule
<1>0p. tip'.height \in Nat \cup {None} /\ sealed' \in Nat \cup {None}
  <2>1. (TypeOK /\ CoverageRule)'
    BY <1>inv DEF IndexInv
  <2> QED  BY <2>1, TipNext DEF TipTyped
<1>heights. Heights \subseteq Nat
  BY BlockAssumption DEF Heights
<1>ext. ASSUME KeepsBelow(tip.height + 1, sealed), tip'.height > tip.height
        PROVE  AsStore!Extend
  <2>1. tip'.height \in Nat
    BY <1>0, <1>0p, <1>ext DEF None
  <2>2. AsStore!Keeps(tip.height)
    <3>1. tip.height <= tip.height
      BY <1>0 DEF None
    <3> QED  BY <1>0, <1>ext, <2>1, <3>1, KeepsLemma
  <2>3. AsStore!Commit /\ sealed' >= sealed
    BY <1>0, <1>0p, <1>ext, <1>inv, CommitLemma DEF KeepsBelow, None
  <2> QED  BY <1>ext, <2>2, <2>3 DEF AsStore!Extend
<1>1. CASE AppendStep
  <2> PICK g \in 0..state.generation, s \in Segments, t \in Heights \cup {None} :
         AppendBatch(g, s, t)
    BY <1>1 DEF AppendStep
  <2>1. s \in Seq(Block) /\ t \in Nat \cup {None}
    BY <1>heights, InputAssumption
  <2>2. KeepsBelow(tip.height + 1, sealed) /\ tip'.height > tip.height
    BY <2>1, AppendLemma
  <2> QED  BY <1>ext, <2>2 DEF AsStore!Next
<1>2. CASE ReplaceMutableStep
  <2> PICK g \in 0..state.generation, b \in Block, s \in Segments, t \in Heights \cup {None} :
         ReplaceMutableSuffix(g, b, s, t)
    BY <1>2 DEF ReplaceMutableStep
  <2>1. s \in Seq(Block) /\ t \in Nat \cup {None}
    BY <1>heights, InputAssumption
  <2>2. KeepsBelow(Height[b] + 1, sealed)
    BY <2>1, ReplaceMutableLemma
  <2>3. Height[b] \in 0..tip.height /\ ~(sealed # None /\ Height[b] < sealed)
    BY DEF ReplaceMutableSuffix, Covers
  <2>4. Height[b] \in Nat /\ Height[b] <= tip.height /\ Height[b] >= sealed
    BY <1>0, <2>3, BlockAssumption DEF None
  <2>5. tip'.height \in Nat
    BY <1>0p, <2>2, <2>4 DEF KeepsBelow, None
  <2>6. AsStore!Keeps(Height[b])
    BY <2>2, <2>4, <2>5, KeepsLemma
  <2>7. AsStore!Commit /\ sealed' >= sealed
    BY <1>0, <1>0p, <1>inv, <2>2, CommitLemma DEF KeepsBelow, None
  <2> QED  BY <2>3, <2>4, <2>6, <2>7 DEF AsStore!Next, AsStore!Replace
<1>3. CASE ReplaceDeepStep
  <2> PICK g \in 0..state.generation, b \in Block, s \in Segments, t \in Heights \cup {None} :
         ReplaceDeepSuffix(g, b, s, t)
    BY <1>3 DEF ReplaceDeepStep
  <2> DEFINE k == RangeStart(Height[b])
  <2>1. s \in Seq(Block) /\ t \in Nat \cup {None}
    BY <1>heights, InputAssumption
  <2>2. KeepsBelow(Height[b] + 1, SealedBelow(k))
    BY <2>1, ReplaceDeepLemma
  <2>3. Height[b] \in 0..tip.height
    BY DEF ReplaceDeepSuffix, Covers
  <2>4. Height[b] \in Nat /\ Height[b] <= tip.height /\ k \in Nat
    BY <1>0, <2>3, BlockAssumption, RangeStartFacts DEF None
  <2>5. tip'.height \in Nat
    BY <1>0p, <2>2, <2>4 DEF KeepsBelow, None
  <2>6. AsStore!Keeps(Height[b])
    BY <2>2, <2>4, <2>5, KeepsLemma
  <2>7. AsStore!Commit
    BY <1>inv, <2>2, CommitLemma DEF KeepsBelow
  <2>8. SealedBelow(k) <= sealed'
    BY <2>2 DEF KeepsBelow
  <2>9. AsStore!RangeStart(Height[b]) = k
    BY DEF RangeStart, AsStore!RangeStart
  <2> HIDE DEF k
  <2>10. sealed' >= sealed \/ sealed' >= k - 1
    BY <1>0, <1>0p, <2>4, <2>8 DEF SealedBelow, None
  <2> QED  BY <2>3, <2>6, <2>7, <2>9, <2>10 DEF AsStore!Next, AsStore!ReplaceSealed
<1>4. CASE InstallStep
  <2> PICK s \in Segments, m \in Metas : Install(m.start_height, s, m)
    BY <1>4 DEF InstallStep
  <2>1. s \in Seq(Block) /\ m \in RangeMeta
    BY InputAssumption
  <2>2. KeepsBelow(tip.height + 1, sealed) /\ tip'.height > tip.height
    BY <2>1, InstallLemma
  <2> QED  BY <1>ext, <2>2 DEF AsStore!Next
<1>5. CASE PutRangeMetaStep \/ UNCHANGED vars
  <2>1. UNCHANGED <<sealed_ranges, mutable_blocks, state>>
    BY <1>5 DEF PutRangeMetaStep, PutRangeMeta, vars
  <2> QED  BY <2>1 DEF AsStore!vars, ReaderChain, Read, tip, sealed
<1> QED  BY <1>1, <1>2, <1>3, <1>4, <1>5 DEF Next

\* For every tree of blocks, range size and input, the five tables implement
\* the chain of ChainStore: no write replaces block 0, changes a sealed block
\* outside a deep reorg, or changes the chain without a new generation.
THEOREM StoreCorrect == Spec => ImplementsChainStore
<1>1. Init => AsStore!Init
  <2> SUFFICES ASSUME Init PROVE AsStore!Init
    OBVIOUS
  <2>1. tip.height = -1 /\ sealed = -1 /\ state.generation = 0
    BY DEF Init, tip, sealed, NoTip, None
  <2>2. 0..tip.height = {}
    BY <2>1
  <2>3. ReaderChain = [h \in {} |-> h]
    BY <2>2 DEF ReaderChain
  <2> QED  BY <2>1, <2>3 DEF AsStore!Init
<1>2. IndexInv /\ [Next]_vars => [AsStore!Next]_(AsStore!vars)
  BY StoreStep
<1> QED  BY <1>1, <1>2, IndexCorrect, PTL DEF Spec, ImplementsChainStore, AsStore!Spec
=============================================================================
