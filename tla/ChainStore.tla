----------------------------- MODULE ChainStore -----------------------------
(***************************************************************************)
(* What the index promises to its readers and its writers, without tables: *)
(* one chain of blocks from height 0, the heights that are sealed, and a   *)
(* generation that tells two chains apart.  Index implements it.           *)
(***************************************************************************)
EXTENDS Integers

CONSTANTS Block, Height, Prev, RANGE_SIZE

VARIABLES
  chain,           \* height -> block
  height,          \* the highest one, -1 if there is no block
  sealed_through,  \* the last sealed height, -1 if there is none
  generation

vars == <<chain, height, sealed_through, generation>>

RangeStart(h) == h - (h % RANGE_SIZE)

IsChain(c, top) ==
  /\ c \in [0..top -> Block]
  /\ \A h \in 0..top : Height[c[h]] = h /\ (h > 0 => Prev[c[h]] = c[h - 1])

\* The blocks through height h stay.
Keeps(h) == h <= height' /\ \A i \in 0..h : chain'[i] = chain[i]

Init == chain = [h \in {} |-> h] /\ height = -1 /\ sealed_through = -1 /\ generation = 0

\* Each commit leaves one chain, whole sealed ranges below its tip, and a new generation.
Commit ==
  /\ IsChain(chain', height')
  /\ sealed_through' \in -1..height' /\ (sealed_through' + 1) % RANGE_SIZE = 0
  /\ generation' = generation + 1

\* An append or an install: no block goes.
Extend ==
  /\ Commit
  /\ height' > height /\ Keeps(height)
  /\ sealed_through' >= sealed_through

\* A shallow reorg: no sealed block goes, and no range is opened again.
Replace ==
  /\ Commit
  /\ \E h \in 0..height : h >= sealed_through /\ Keeps(h)
  /\ sealed_through' >= sealed_through

\* A deep reorg: the blocks through the common ancestor stay, and so do the seals of the ranges
\* below the range that holds it.
ReplaceSealed ==
  /\ Commit
  /\ \E h \in 0..height :
       /\ Keeps(h)
       /\ sealed_through' >= sealed_through \/ sealed_through' >= RangeStart(h) - 1

Next == Extend \/ Replace \/ ReplaceSealed
Spec == Init /\ [][Next]_vars
=============================================================================
