---------------------------- MODULE IndexStartup ----------------------------
(***************************************************************************)
(* Proof that Index::open accepts the index after every commit: its checks *)
(* count the rows of each table and walk the chain.                        *)
(***************************************************************************)
EXTENDS IndexProofs, FiniteSetTheorems, FunctionTheorems

\* A set that a function enumerates without repetition has as many elements
\* as the interval it is a function of.
LEMMA CountOf ==
  ASSUME NEW n \in Nat, NEW S, NEW f \in [0..(n - 1) -> S],
         \A i, j \in 0..(n - 1) : f[i] = f[j] => i = j,
         \A x \in S : \E i \in 0..(n - 1) : f[i] = x
  PROVE  Cardinality(S) = n
<1>1. IsFiniteSet(0..(n - 1)) /\ Cardinality(0..(n - 1)) = n
  <2>1. IsFiniteSet(0..(n - 1))
        /\ Cardinality(0..(n - 1)) = IF 0 > n - 1 THEN 0 ELSE (n - 1) - 0 + 1
    BY FS_Interval
  <2> QED  BY <2>1
<1>2. f \in Bijection(0..(n - 1), S)
  BY Fun_IsBij
<1>3. ExistsBijection(0..(n - 1), S)
  BY <1>2, Fun_ExistsBij
<1> QED  BY <1>1, <1>3, FS_Bijection

\* The number of ranges that are sealed.
LEMMA CountRanges ==
  ASSUME NEW s \in Nat \cup {None}, (s + 1) % RANGE_SIZE = 0
  PROVE  Cardinality(Starts(0, s)) = (s + 1) \div RANGE_SIZE
<1> DEFINE n == (s + 1) \div RANGE_SIZE
           f == [i \in 0..(n - 1) |-> RANGE_SIZE * i]
<1>1. s + 1 \in Nat
  BY DEF None
<1>2. n \in Nat /\ s + 1 = RANGE_SIZE * n
  BY <1>1, DivMod, RangeSizeAssumption
<1> HIDE DEF n
<1>3. ASSUME NEW i \in 0..(n - 1)
      PROVE  RANGE_SIZE * i \in Starts(0, s)
  <2>1. i \in Nat /\ i < n
    BY <1>2
  <2>2. RANGE_SIZE * i \in Nat /\ (RANGE_SIZE * i) % RANGE_SIZE = 0
        /\ RANGE_SIZE * i + RANGE_SIZE <= RANGE_SIZE * n
    BY <1>2, <2>1, Multiples
  <2>3. RANGE_SIZE * i <= s
    BY <1>1, <1>2, <2>2, RangeSizeAssumption
  <2> QED  BY <1>1, <2>2, <2>3 DEF Starts
<1>4. f \in [0..(n - 1) -> Starts(0, s)]
  BY <1>3
<1>5. \A i, j \in 0..(n - 1) : f[i] = f[j] => i = j
  <2> TAKE i, j \in 0..(n - 1)
  <2>1. i \in Nat /\ j \in Nat
    BY <1>2
  <2>2. (i < j => RANGE_SIZE * i + RANGE_SIZE <= RANGE_SIZE * j)
        /\ (j < i => RANGE_SIZE * j + RANGE_SIZE <= RANGE_SIZE * i)
        /\ RANGE_SIZE * i \in Nat /\ RANGE_SIZE * j \in Nat
    BY <2>1, Multiples
  <2> QED  BY <2>1, <2>2, RangeSizeAssumption
<1>6. ASSUME NEW x \in Starts(0, s)
      PROVE  \E i \in 0..(n - 1) : f[i] = x
  <2>1. x \in Nat /\ x <= s /\ x % RANGE_SIZE = 0
    BY <1>1 DEF Starts
  <2>2. x \div RANGE_SIZE \in Nat /\ x = RANGE_SIZE * (x \div RANGE_SIZE)
    BY <2>1, DivMod, RangeSizeAssumption
  <2>3. x \div RANGE_SIZE < n
    <3>1. RANGE_SIZE * (x \div RANGE_SIZE) < RANGE_SIZE * n
      BY <1>1, <1>2, <2>1, <2>2
    <3> QED  BY <1>2, <2>2, <3>1, Multiples
  <2>4. x \div RANGE_SIZE \in 0..(n - 1)
    BY <1>2, <2>2, <2>3
  <2> QED  BY <2>2, <2>4
<1> HIDE DEF f
<1> QED  BY <1>2, <1>4, <1>5, <1>6, CountOf DEF n

\* One hash entry for each height.
LEMMA CountHashes ==
  ASSUME IndexInv
  PROVE  Cardinality(DOMAIN hash_to_height) = tip.height + 1
<1> DEFINE n == tip.height + 1
           f == [h \in 0..(n - 1) |-> Read(h)]
<1>1. tip.height \in Nat \cup {None}
  BY TipFacts DEF IndexInv
<1>2. n \in Nat /\ n - 1 = tip.height
  BY <1>1 DEF None
<1>3. /\ \A h \in 0..(n - 1) : Read(h) \in DOMAIN hash_to_height
                               /\ hash_to_height[Read(h)] = h
      /\ \A b \in DOMAIN hash_to_height : \E h \in 0..(n - 1) : Read(h) = b
  BY <1>2 DEF IndexInv, HashIndexRule
<1> HIDE DEF n
<1>4. f \in [0..(n - 1) -> DOMAIN hash_to_height]
  BY <1>3
<1>5. \A i, j \in 0..(n - 1) : f[i] = f[j] => i = j
  <2> TAKE i, j \in 0..(n - 1)
  <2>1. hash_to_height[Read(i)] = i /\ hash_to_height[Read(j)] = j
    BY <1>3
  <2>2. f[i] = Read(i) /\ f[j] = Read(j)
    OBVIOUS
  <2> QED  BY <2>1, <2>2
<1>6. \A b \in DOMAIN hash_to_height : \E h \in 0..(n - 1) : f[h] = b
  BY <1>3
<1> HIDE DEF f
<1> QED  BY <1>2, <1>4, <1>5, <1>6, CountOf DEF n

\* The rows of a sealed range, in terms of what a reader gets.
LEMMA SealedRows ==
  ASSUME IndexInv, NEW s \in DOMAIN sealed_ranges
  PROVE  /\ s \in Nat /\ s % RANGE_SIZE = 0 /\ RangeEnd(s) <= tip.height
         /\ s \in 0..tip.height /\ RangeEnd(s) \in 0..tip.height
         /\ sealed_ranges[s][s] = Read(s)
         /\ sealed_ranges[s][RangeEnd(s)] = Read(RangeEnd(s))
         /\ s > 0 => s - 1 \in 0..tip.height
                     /\ sealed_ranges[s - RANGE_SIZE][s - 1] = Read(s - 1)
<1>0. /\ sealed \in Nat \cup {None} /\ tip.height \in Nat \cup {None}
      /\ sealed <= tip.height /\ (sealed + 1) % RANGE_SIZE = 0
      /\ s \in Starts(0, sealed)
  BY TipFacts DEF IndexInv, CoverageRule
<1>1. s \in Nat /\ s <= sealed /\ s % RANGE_SIZE = 0 /\ sealed \in Nat /\ tip.height \in Nat
  BY <1>0 DEF Starts, None
<1>2. s + RANGE_SIZE <= sealed + 1
  BY <1>0, <1>1, StartsApart
<1>3. RangeEnd(s) \in Nat /\ s <= RangeEnd(s) /\ RangeEnd(s) <= sealed
  BY <1>1, <1>2, RangeSizeAssumption DEF RangeEnd
<1>4. RangeStart(s) = s /\ RangeStart(RangeEnd(s)) = s
  <2>1. s \in s..RangeEnd(s) /\ RangeEnd(s) \in s..RangeEnd(s)
    BY <1>1, <1>3
  <2> QED  BY <1>1, <2>1, NextStart
<1>5. Read(s) = sealed_ranges[s][s] /\ Read(RangeEnd(s)) = sealed_ranges[s][RangeEnd(s)]
  BY <1>1, <1>3, <1>4 DEF Read
<1>6. ASSUME s > 0
      PROVE  s - 1 \in 0..tip.height /\ sealed_ranges[s - RANGE_SIZE][s - 1] = Read(s - 1)
  <2>1. RANGE_SIZE <= s
    <3>1. 0 % RANGE_SIZE = 0
      BY RangeSizeAssumption
    <3>2. 0 + RANGE_SIZE <= s
      BY <1>1, <1>6, <3>1, StartsApart
    <3> QED  BY <3>2, RangeSizeAssumption
  <2>2. s - RANGE_SIZE \in Nat /\ (s - RANGE_SIZE) % RANGE_SIZE = 0
    <3>1. s = RANGE_SIZE * (s \div RANGE_SIZE) /\ s \div RANGE_SIZE \in Nat
      BY <1>1, DivMod, RangeSizeAssumption
    <3>2. s \div RANGE_SIZE > 0
      BY <1>6, <3>1, RangeSizeAssumption
    <3>3. (s \div RANGE_SIZE) - 1 \in Nat
          /\ s - RANGE_SIZE = RANGE_SIZE * ((s \div RANGE_SIZE) - 1)
      BY <3>1, <3>2, RangeSizeAssumption
    <3> QED  BY <3>3, Multiples
  <2>3. s - 1 \in (s - RANGE_SIZE)..RangeEnd(s - RANGE_SIZE)
    BY <1>1, <2>1, <2>2, RangeSizeAssumption DEF RangeEnd
  <2>4. RangeStart(s - 1) = s - RANGE_SIZE
    BY <2>2, <2>3, NextStart
  <2>5. s - 1 <= sealed /\ s - 1 \in 0..tip.height
    BY <1>0, <1>1, <1>6
  <2> QED  BY <2>4, <2>5 DEF Read
<1> QED  BY <1>0, <1>1, <1>3, <1>5, <1>6

\* The rules of the index imply the checks of Index::open.
LEMMA StartupLemma == IndexInv => VerifyContinuity
<1> SUFFICES ASSUME IndexInv PROVE VerifyContinuity
  OBVIOUS
<1>inv. TypeOK /\ CoverageRule /\ ChainRule /\ HashIndexRule /\ RangeMetaRule
  BY DEF IndexInv
<1>0. /\ tip.height \in Nat \cup {None} /\ sealed \in Nat \cup {None}
      /\ sealed <= tip.height /\ (sealed + 1) % RANGE_SIZE = 0
      /\ DOMAIN sealed_ranges = Starts(0, sealed)
      /\ DOMAIN mutable_blocks = (sealed + 1)..tip.height
      /\ tip # NoTip <=> tip.height \in Nat
      /\ tip # NoTip => tip \in [height : Nat, hash : Block]
  BY <1>inv, TipFacts DEF CoverageRule
<1>1. CASE tip = NoTip
  <2>1. tip.height = -1 /\ sealed = -1
    BY <1>0, <1>1 DEF NoTip, None
  <2>2. DOMAIN sealed_ranges = {} /\ DOMAIN mutable_blocks = {}
    BY <1>0, <2>1 DEF Starts
  <2>3. DOMAIN hash_to_height = {}
    BY <1>inv, <2>1 DEF HashIndexRule
  <2>4. DOMAIN range_meta = {}
    BY <1>inv, <2>2 DEF RangeMetaRule
  <2> QED  BY <1>1, <2>2, <2>3, <2>4 DEF VerifyContinuity
<1>2. CASE tip # NoTip
  <2> DEFINE Checked(b, h) == b \in DOMAIN hash_to_height /\ hash_to_height[b] = h
  <2>0. tip.height \in Nat /\ sealed + 1 \in Nat /\ (sealed + 1) - 1 = sealed
    BY <1>0, <1>2 DEF None
  <2>h. \A h \in 0..tip.height : Checked(Read(h), h)
    BY <1>inv DEF HashIndexRule
  <2>1. ASSUME NEW s \in DOMAIN range_meta
        PROVE  s = RangeStart(s) /\ s \in DOMAIN sealed_ranges
    <3>1. s \in DOMAIN sealed_ranges
      BY <1>inv DEF RangeMetaRule
    <3>2. s \in Nat /\ s % RANGE_SIZE = 0
      BY <3>1, SealedRows
    <3> QED  BY <3>1, <3>2 DEF RangeStart
  <2>2. Cardinality(DOMAIN sealed_ranges) = (sealed + 1) \div RANGE_SIZE
    BY <1>0, CountRanges
  <2>3. Cardinality(DOMAIN mutable_blocks) = tip.height + 1 - (sealed + 1)
    <3>0. sealed + 1 \in Int /\ tip.height \in Int
      BY <2>0
    <3>1. Cardinality((sealed + 1)..tip.height)
            = IF sealed + 1 > tip.height THEN 0 ELSE tip.height - (sealed + 1) + 1
      BY ONLY <3>0, FS_Interval
    <3>2. sealed <= tip.height /\ sealed \in Int
      BY <1>0 DEF None
    <3> QED  BY <1>0, <2>0, <3>1, <3>2
  <2>4. Cardinality(DOMAIN hash_to_height) = tip.height + 1
    BY CountHashes
  <2>5. ASSUME NEW s \in DOMAIN sealed_ranges
        PROVE  /\ s > 0 => Prev[sealed_ranges[s][s]] = sealed_ranges[s - RANGE_SIZE][s - 1]
               /\ Checked(sealed_ranges[s][s], s)
               /\ Checked(sealed_ranges[s][RangeEnd(s)], RangeEnd(s))
    <3>1. /\ s \in Nat /\ s \in 0..tip.height /\ RangeEnd(s) \in 0..tip.height
          /\ sealed_ranges[s][s] = Read(s)
          /\ sealed_ranges[s][RangeEnd(s)] = Read(RangeEnd(s))
          /\ s > 0 => sealed_ranges[s - RANGE_SIZE][s - 1] = Read(s - 1)
      BY SealedRows
    <3>2. s > 0 => Prev[Read(s)] = Read(s - 1)
      BY <1>inv, <2>0, <3>1 DEF ChainRule
    <3> HIDE DEF Checked
    <3> QED  BY <2>h, <3>1, <3>2
  <2>6. ASSUME NEW h \in DOMAIN mutable_blocks
        PROVE  /\ Height[mutable_blocks[h]] = h
               /\ h > 0 => Prev[mutable_blocks[h]] = Read(h - 1)
               /\ Checked(mutable_blocks[h], h)
    <3>1. h \in 0..tip.height /\ ~(h <= sealed) /\ (h > 0 => h \in 1..tip.height)
      BY <1>0, <2>0 DEF None
    <3>2. Read(h) = mutable_blocks[h]
      BY <3>1 DEF Read
    <3>3. Height[Read(h)] = h /\ (h > 0 => Prev[Read(h)] = Read(h - 1))
      BY <1>inv, <3>1 DEF ChainRule
    <3> HIDE DEF Checked
    <3> QED  BY <2>h, <3>1, <3>2, <3>3
  <2>7. Read(tip.height) = tip.hash
    BY <1>2, <1>inv DEF ChainRule
  <2>8. /\ DOMAIN sealed_ranges = Starts(0, (sealed + 1) - 1)
        /\ DOMAIN mutable_blocks = (sealed + 1)..tip.height
    BY <1>0, <2>0
  <2> QED  BY <1>2, <2>1, <2>2, <2>3, <2>4, <2>5, <2>6, <2>7, <2>8 DEF VerifyContinuity
<1> QED  BY <1>1, <1>2

\* After every commit, for every tree of blocks, range size and input, the
\* next Index::open accepts the index: a crash between two writes never makes
\* the process refuse its own data.
THEOREM StartupCorrect == Spec => []StartupChecksPass
<1>1. IndexInv => StartupChecksPass
  BY StartupLemma DEF StartupChecksPass
<1> QED  BY <1>1, IndexCorrect, PTL
=============================================================================
