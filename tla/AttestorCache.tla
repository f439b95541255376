--------------------------- MODULE AttestorCache ---------------------------
(***************************************************************************)
(* The tree root cache of JsonRpcAttestor (crate ztreamer-import): the map *)
(* from a height to a shared OnceCell, with calls that fail, wait for each *)
(* other and are dropped, on several threads.                              *)
(*                                                                         *)
(* A cell is filled or empty: the answer of the node at a height is one    *)
(* value.  A call holds its Arc of the cell from the lookup to its return. *)
(***************************************************************************)
EXTENDS Integers, FiniteSets

CONSTANTS
  Calls,            \* calls of tree_roots
  RootHeights,      \* the heights they ask for
  CACHE_CAPACITY

ASSUME CacheAssumption ==
  CACHE_CAPACITY \in Nat \ {0} /\ RootHeights \subseteq Nat /\ IsFiniteSet(Calls)

VARIABLES
  map,      \* map[h]: the cell of the height, 0 for none
  filled,   \* the cells that have an answer
  next,     \* the next new cell
  call      \* call[c]: pc, height and cell

vars == <<map, filled, next, call>>

Idle == [pc |-> "idle", height |-> 0, cell |-> 0]
InMap == {h \in RootHeights : map[h] # 0}
\* Arc::strong_count: the map and the calls.
Holders(cell) == {c \in Calls : call[c].cell = cell}
StrongCount(cell) == Cardinality(Holders(cell)) + Cardinality({h \in RootHeights : map[h] = cell})

\* The heights that tree_roots_cell drops from a full map: the lowest filled ones, until
\* there is a place or no filled cell.
Dropped ==
  LET full == {h \in InMap : map[h] \in filled}
      over == Cardinality(InMap) - CACHE_CAPACITY + 1
  IN  {h \in full : Cardinality({l \in full : l < h}) < over}

\* tree_roots_cell, under the lock.
TreeRootsCell(c, h) ==
  /\ call[c].pc = "idle"
  /\ IF map[h] # 0
     THEN /\ call' = [call EXCEPT ![c] = [pc |-> "wait", height |-> h, cell |-> map[h]]]
          /\ UNCHANGED <<map, next>>
     ELSE /\ call' = [call EXCEPT ![c] = [pc |-> "wait", height |-> h, cell |-> next]]
          /\ map' = [k \in RootHeights |-> IF k = h THEN next ELSE IF k \in Dropped THEN 0 ELSE map[k]]
          /\ next' = next + 1
  /\ UNCHANGED filled

\* get_or_try_init: the answer of the cell, or the one place to fill it.
HasPlace(c) == \A d \in Holders(call[c].cell) : call[d].pc # "ask"
GetOrTryInit(c) ==
  /\ call[c].pc = "wait"
  /\ IF call[c].cell \in filled THEN call' = [call EXCEPT ![c].pc = "done"]
     ELSE /\ HasPlace(c)
          /\ call' = [call EXCEPT ![c].pc = "ask"]
  /\ UNCHANGED <<map, filled, next>>

\* ask_tree_roots gives an answer, or an error: of the call, of a root that does not
\* parse, or of an answer for another height.
Answer(c) ==
  /\ call[c].pc = "ask"
  /\ filled' = filled \cup {call[c].cell}
  /\ call' = [call EXCEPT ![c].pc = "done"]
  /\ UNCHANGED <<map, next>>
NodeError(c) ==
  /\ call[c].pc = "ask"
  /\ call' = [call EXCEPT ![c].pc = "failed"]
  /\ UNCHANGED <<map, filled, next>>

\* forget_failed_cell, under the lock.
\* (ForgetAlways: a mutant that does not count the holders.)
ForgetAlways(c) == map[call[c].height] = call[c].cell /\ call[c].cell \notin filled
Unused(c) ==
  LET cell == call[c].cell IN
  map[call[c].height] = cell /\ cell \notin filled /\ StrongCount(cell) = 2
ForgetFailedCell(c) ==
  /\ call[c].pc = "failed"
  /\ map' = IF Unused(c) THEN [map EXCEPT ![call[c].height] = 0] ELSE map
  /\ call' = [call EXCEPT ![c].pc = "done"]
  /\ UNCHANGED <<filled, next>>

\* The return drops the Arc.  The caller can drop the future before it.
Return(c) ==
  /\ call[c].pc = "done" /\ call' = [call EXCEPT ![c] = [Idle EXCEPT !.pc = "returned"]]
  /\ UNCHANGED <<map, filled, next>>
Cancel(c) ==
  /\ call[c].pc \in {"wait", "ask"}
  /\ call' = [call EXCEPT ![c] = [Idle EXCEPT !.pc = "returned"]]
  /\ UNCHANGED <<map, filled, next>>

Init ==
  /\ map = [h \in RootHeights |-> 0] /\ filled = {} /\ next = 1
  /\ call = [c \in Calls |-> Idle]

Step(c) == GetOrTryInit(c) \/ Answer(c) \/ NodeError(c) \/ ForgetFailedCell(c) \/ Return(c)
Next == \E c \in Calls : (\E h \in RootHeights : TreeRootsCell(c, h)) \/ Step(c) \/ Cancel(c)
\* The runtime polls each call, and the node answers or its timeout fires.
Spec == Init /\ [][Next]_vars /\ \A c \in Calls : WF_vars(Step(c))

-----------------------------------------------------------------------------
(* Properties *)

\* The docs of JsonRpcAttestor: "Calls for one height at the same time make one
\* `z_gettreestate` call".  It needs that no cell leaves the map while a call fills it or
\* waits for it.
OneNodeCallPerHeight ==
  \A c, d \in Calls :
    (call[c].pc = "ask" /\ call[d].pc = "ask" /\ call[c].height = call[d].height) => c = d

\* Each call returns: a failed call passes the place to fill the cell to the next.
EveryCallReturns == \A c \in Calls : []<>(call[c].pc # "wait")

\* The docs of forget_failed_cell: "Thus a failed call keeps no place in the map".  It does not
\* hold: of two calls that fail together each sees the holder of the other.
FailedCallKeepsNoPlace ==
  (\A c \in Calls : call[c].pc \in {"idle", "returned"}) =>
    \A h \in InMap : map[h] \in filled
=============================================================================
