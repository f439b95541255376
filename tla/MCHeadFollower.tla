--------------------------- MODULE MCHeadFollower ---------------------------
(***************************************************************************)
(* The follower on a small tree of blocks: branch "a" is the chain from    *)
(* genesis, branch "b" forks off deep and branch "c" near the head.        *)
(***************************************************************************)
EXTENDS HeadFollower

CONSTANTS MaxHeight, ForkB, ForkC

Fork == [a |-> -1, b |-> ForkB, c |-> ForkC]
MCBlock == UNION {{<<h, x>> : h \in (Fork[x] + 1)..MaxHeight} : x \in DOMAIN Fork}
MCHeight == [b \in MCBlock |-> b[1]]
MCPrev == [b \in MCBlock |->
             IF b[1] = 0 THEN GenesisPrev
             ELSE IF b[1] - 1 > Fork[b[2]] THEN <<b[1] - 1, b[2]>>
             ELSE <<b[1] - 1, "a">>]
MCEmpty == {}

\* The node has a tip on branch "a" at the start.
MCInitNodes == {b \in MCBlock : b[2] = "a" /\ b[1] = MaxHeight - 1}

\* A node that is SEAL_DEPTH blocks or less above genesis.
LowNodes == {b \in MCBlock : b[2] = "a" /\ b[1] = 1}

\* The node goes to any other tip: it extends its chain, switches to another
\* branch and back, or falls back to a lower block.
AnyMove == {m \in MCBlock \X MCBlock : m[1] # m[2]}
\* The node extends its chain, or leaves branch "a" for a chain at least as
\* long as its own.
ForwardMove ==
  {m \in MCBlock \X MCBlock : m[2][1] >= m[1][1] /\ m[1] # m[2]
                              /\ (m[1][2] = "a" \/ m[1][2] = m[2][2])}
\* A branch gets shorter, as when the node drops a block, or the node leaves
\* branch "a".
ShrinkMove ==
  {m \in MCBlock \X MCBlock :
     \/ m[1][2] = "a" /\ m[2][2] = "a" /\ m[2][1] < m[1][1]
     \/ m[1][2] = "a" /\ m[2][2] # "a" /\ m[2][1] >= m[1][1]}
\* The node switches to a longer branch and back.
FlipMove == {m \in MCBlock \X MCBlock : m[1][2] # m[2][2] /\ m[2][1] >= m[1][1]}
=============================================================================
