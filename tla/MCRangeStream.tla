--------------------------- MODULE MCRangeStream ---------------------------
(***************************************************************************)
(* One stream, up or down, over the small block tree of the follower.      *)
(***************************************************************************)
EXTENDS RangeStream

CONSTANTS MaxHeight, ForkB, ForkC

Fork == [a |-> -1, b |-> ForkB, c |-> ForkC]
MCBlock == UNION {{<<h, x>> : h \in (Fork[x] + 1)..MaxHeight} : x \in DOMAIN Fork}
MCHeight == [b \in MCBlock |-> b[1]]
MCPrev == [b \in MCBlock |->
             IF b[1] = 0 THEN GenesisPrev
             ELSE IF b[1] - 1 > Fork[b[2]] THEN <<b[1] - 1, b[2]>>
             ELSE <<b[1] - 1, "a">>]
MCEmpty == {}
MCInitNodes == {b \in MCBlock : b[2] = "a" /\ b[1] = MaxHeight - 1}
\* The node goes to a tip that is not far below its own.
MCMoves == {m \in MCBlock \X MCBlock : m[1] # m[2] /\ m[2][1] >= m[1][1] - 3}
AllBuilds == BOOLEAN
CheckedBuilds == {TRUE}
\* Ranges over the durable border in both directions, and one block.
MCRequests == {<<0, MaxHeight - 1>>, <<MaxHeight - 1, 0>>, <<1, MaxHeight>>,
               <<MaxHeight, 1>>, <<2, 2>>}
=============================================================================
