------------------------ MODULE AttestorCacheProofs ------------------------
(***************************************************************************)
(* OneNodeCallPerHeight for all calls, heights and capacities.  The        *)
(* argument: a call that fills a cell, or waits for an empty one, has its  *)
(* Arc of the cell that the map has at its height (Shared), as the map     *)
(* drops a cell only when it is full (Dropped) or when the one call that   *)
(* holds it failed (Unused); and one call at a time fills a cell (OneAsk). *)
(***************************************************************************)
EXTENDS AttestorCache, FiniteSetTheorems, TLAPS

Holding == {"wait", "ask", "failed", "done"}
CallType == [pc : Holding \cup {"idle", "returned"}, height : Nat, cell : Nat]

\* The types, and that the cells are numbered below next.
Typed ==
  /\ next \in Nat \ {0}
  /\ map \in [RootHeights -> Nat] /\ filled \subseteq Nat
  /\ call \in [Calls -> CallType]
  /\ \A h \in RootHeights : map[h] < next
  /\ \A cell \in filled : cell < next
  /\ \A c \in Calls : call[c].cell < next

\* A cell is the cell of one height.
OneHeight ==
  /\ \A c \in Calls : call[c].pc \in Holding => call[c].cell # 0 /\ call[c].height \in RootHeights
  /\ \A c \in Calls : call[c].pc \notin Holding => call[c].cell = 0
  /\ \A h, k \in RootHeights : map[h] = map[k] /\ map[h] # 0 => h = k
  /\ \A c \in Calls : \A h \in RootHeights :
       map[h] = call[c].cell /\ map[h] # 0 => call[c].height = h

\* The map has the empty cell that a call fills or waits for.
Shared ==
  \A c \in Calls : call[c].pc \in {"wait", "ask"} /\ call[c].cell \notin filled
                     => map[call[c].height] = call[c].cell

\* One call fills a cell, and the cell is empty.
OneAsk ==
  /\ \A c, d \in Calls : call[c].pc = "ask" /\ call[d].pc = "ask" /\ call[c].cell = call[d].cell
                           => c = d
  /\ \A c \in Calls : call[c].pc = "ask" => call[c].cell \notin filled

\* The inductive invariant.
CacheInv == Typed /\ OneHeight /\ Shared /\ OneAsk

\* A failed call that may take its cell from the map is the only one that holds it.
LEMMA UnusedLemma ==
  ASSUME CacheInv, NEW c \in Calls, call[c].pc = "failed", Unused(c)
  PROVE  Holders(call[c].cell) = {c}
<1> DEFINE cell == call[c].cell
           mine == Holders(cell)
           places == {h \in RootHeights : map[h] = cell}
<1>1. cell # 0 /\ call[c].height \in RootHeights /\ map[call[c].height] = cell
      /\ cell \in Nat
  BY DEF CacheInv, Typed, OneHeight, Holding, Unused, CallType
<1>2. places = {call[c].height}
  BY <1>1 DEF CacheInv, OneHeight
<1>3. Cardinality(places) = 1
  BY <1>2, FS_Singleton
<1>4. IsFiniteSet(mine)
  BY CacheAssumption, FS_Subset DEF Holders
<1>5. Cardinality(mine) \in Nat
  BY <1>4, FS_CardinalityType
<1>6. Cardinality(mine) + Cardinality(places) = 2
  BY DEF Unused, StrongCount
<1>7. Cardinality(mine) = 1
  BY <1>3, <1>5, <1>6
<1>8. \E x : mine = {x}
  BY <1>4, <1>7, FS_Singleton
<1>9. c \in mine
  BY DEF Holders
<1> QED
  BY <1>8, <1>9

LEMMA CacheInit == Init => CacheInv
  BY CacheAssumption DEF Init, CacheInv, Typed, OneHeight, Shared, OneAsk, Idle, CallType, Holding

LEMMA CellLemma ==
  ASSUME CacheInv, NEW c \in Calls, NEW h \in RootHeights, TreeRootsCell(c, h)
  PROVE  CacheInv'
<1> USE DEF CacheInv
<1>1. CASE map[h] # 0
  <2>1. /\ call' = [call EXCEPT ![c] = [pc |-> "wait", height |-> h, cell |-> map[h]]]
        /\ map' = map /\ next' = next /\ filled' = filled
    BY <1>1 DEF TreeRootsCell
  <2>2. Typed'
    BY <2>1, CacheAssumption DEF Typed, CallType, Holding
  <2>3. OneHeight'
    BY <1>1, <2>1 DEF Typed, OneHeight, CallType, Holding
  <2>4. Shared' /\ OneAsk'
    BY <2>1 DEF Typed, Shared, OneAsk, CallType
  <2> QED
    BY <2>2, <2>3, <2>4
<1>2. CASE map[h] = 0
  <2>1. \A k \in RootHeights : k \in Dropped => map[k] \in filled
    BY DEF Dropped, InMap
  <2>2. /\ call' = [call EXCEPT ![c] = [pc |-> "wait", height |-> h, cell |-> next]]
        /\ map' = [k \in RootHeights |-> IF k = h THEN next ELSE IF k \in Dropped THEN 0 ELSE map[k]]
        /\ next' = next + 1 /\ filled' = filled /\ call[c].pc = "idle"
    BY <1>2 DEF TreeRootsCell
  <2>3. Typed'
    BY <2>2, CacheAssumption DEF Typed, CallType, Holding
  <2>4. OneHeight'
    BY <2>2 DEF Typed, OneHeight, CallType, Holding
  <2>5. Shared'
    BY <1>2, <2>1, <2>2 DEF Typed, OneHeight, Shared, CallType, Holding
  <2>6. OneAsk'
    BY <2>2 DEF Typed, OneHeight, OneAsk, CallType, Holding
  <2> QED
    BY <2>3, <2>4, <2>5, <2>6
<1> QED
  BY <1>1, <1>2

LEMMA ForgetLemma ==
  ASSUME CacheInv, NEW c \in Calls, ForgetFailedCell(c)
  PROVE  CacheInv'
<1>1. CASE ~Unused(c)
  BY <1>1 DEF CacheInv, ForgetFailedCell, Typed, OneHeight, Shared, OneAsk, CallType, Holding
<1>2. CASE Unused(c)
  <2>1. \A d \in Calls : call[d].cell = call[c].cell => d = c
    BY <1>2, UnusedLemma DEF ForgetFailedCell, Holders
  <2>2. /\ map' = [map EXCEPT ![call[c].height] = 0] /\ call[c].pc = "failed"
        /\ call' = [call EXCEPT ![c].pc = "done"] /\ filled' = filled /\ next' = next
    BY <1>2 DEF ForgetFailedCell
  <2>3. call[c].height \in RootHeights /\ map[call[c].height] = call[c].cell
    BY <1>2, <2>2 DEF CacheInv, OneHeight, Holding, Unused
  <2>4. Typed'
    BY <2>2, <2>3 DEF CacheInv, Typed, CallType, Holding
  <2>5. OneHeight'
    BY <2>2, <2>3 DEF CacheInv, Typed, OneHeight, CallType, Holding
  <2>6. Shared'
    BY <2>1, <2>2, <2>3 DEF CacheInv, Typed, OneHeight, Shared, CallType, Holding
  <2>7. OneAsk'
    BY <2>2 DEF CacheInv, Typed, OneAsk, CallType, Holding
  <2> QED
    BY <2>4, <2>5, <2>6, <2>7 DEF CacheInv
<1> QED
  BY <1>1, <1>2

LEMMA CacheStep == CacheInv /\ [Next]_vars => CacheInv'
<1> SUFFICES ASSUME CacheInv, [Next]_vars PROVE CacheInv'
  OBVIOUS
<1> USE DEF CacheInv, Typed, OneHeight, Shared, OneAsk, CallType, Holding
<1>1. CASE UNCHANGED vars
  BY <1>1 DEF vars
<1>2. ASSUME NEW c \in Calls, NEW h \in RootHeights, TreeRootsCell(c, h) PROVE CacheInv'
  BY <1>2, CellLemma
<1>3. ASSUME NEW c \in Calls, GetOrTryInit(c) PROVE CacheInv'
  <2>1. CASE call[c].cell \in filled
    <3>1. /\ call' = [call EXCEPT ![c].pc = "done"] /\ call[c].pc = "wait"
          /\ map' = map /\ filled' = filled /\ next' = next
      BY <1>3, <2>1 DEF GetOrTryInit
    <3>2. Typed' /\ OneHeight'
      BY <3>1
    <3>3. Shared' /\ OneAsk'
      BY <3>1
    <3> QED
      BY <3>2, <3>3
  <2>2. CASE call[c].cell \notin filled
    <3>1. /\ call' = [call EXCEPT ![c].pc = "ask"] /\ call[c].pc = "wait"
          /\ map' = map /\ filled' = filled /\ next' = next
          /\ \A d \in Calls : call[d].cell = call[c].cell => call[d].pc # "ask"
      BY <1>3, <2>2 DEF GetOrTryInit, HasPlace, Holders
    <3>2. Typed' /\ OneHeight' /\ Shared'
      BY <3>1
    <3>3. OneAsk'
      BY <2>2, <3>1
    <3> QED
      BY <3>2, <3>3
  <2> QED
    BY <2>1, <2>2
<1>4. ASSUME NEW c \in Calls, Answer(c) PROVE CacheInv'
  BY <1>4 DEF Answer
<1>5. ASSUME NEW c \in Calls, NodeError(c) PROVE CacheInv'
  BY <1>5 DEF NodeError
<1>6. ASSUME NEW c \in Calls, ForgetFailedCell(c) PROVE CacheInv'
  BY <1>6, ForgetLemma
<1>7. ASSUME NEW c \in Calls, Return(c) PROVE CacheInv'
  BY <1>7 DEF Return, Idle
<1>8. ASSUME NEW c \in Calls, Cancel(c) PROVE CacheInv'
  BY <1>8 DEF Cancel, Idle
<1> QED
  BY <1>1, <1>2, <1>3, <1>4, <1>5, <1>6, <1>7, <1>8 DEF Next, Step

\* Calls for one height at the same time make one call to the node, for all
\* calls, heights and capacities: whichever calls fail, are dropped or wait,
\* and whatever a full map drops (JsonRpcAttestor::tree_roots).
THEOREM OneCallCorrect == Spec => []OneNodeCallPerHeight
<1>1. CacheInv => OneNodeCallPerHeight
  BY DEF CacheInv, Shared, OneAsk, OneNodeCallPerHeight
<1> QED
  BY <1>1, CacheInit, CacheStep, PTL DEF Spec
=============================================================================
