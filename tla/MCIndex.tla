------------------------------ MODULE MCIndex ------------------------------
(***************************************************************************)
(* A small tree of blocks for model checking: branch "a" is the chain from *)
(* genesis, every other branch leaves it after the height Fork gives.      *)
(***************************************************************************)
EXTENDS Index

CONSTANTS
  MaxHeight,   \* the highest block of every branch
  ForkB,       \* branch "b" leaves branch "a" after this height
  ForkC        \* branch "c" leaves branch "a" after this height

Fork == [b |-> ForkB, c |-> ForkC, a |-> -1]
MCBlock == UNION {{<<h, x>> : h \in (Fork[x] + 1)..MaxHeight} : x \in DOMAIN Fork}
MCHeight == [b \in MCBlock |-> b[1]]
MCPrev == [b \in MCBlock |->
             IF b[1] = 0 THEN GenesisPrev
             ELSE IF b[1] - 1 > Fork[b[2]] THEN <<b[1] - 1, b[2]>>
             ELSE <<b[1] - 1, "a">>]

\* The chain of a branch, and the segments of it that a caller can pass.
OnBranch(x, h) == IF h > Fork[x] THEN <<h, x>> ELSE <<h, "a">>
LinkedSegments ==
  {[i \in 1..n |-> OnBranch(x, from + i - 1)] :
     <<x, from, n>> \in {t \in (DOMAIN Fork) \X (0..MaxHeight) \X (1..(MaxHeight + 1)) :
                           t[2] + t[3] - 1 <= MaxHeight}}
\* Records of two branches, which no chain holds together.
UnlinkedSegments ==
  {<<OnBranch("a", h), OnBranch("b", h + 1)>> : h \in 0..(MaxHeight - 1)}
MCSegments == LinkedSegments \cup UnlinkedSegments \cup {<<>>}

MCMetas ==
  {[start_height |-> s, end_height |-> e, end_hash |-> b, state |-> v] :
     s \in {h \in 0..MaxHeight : h % RANGE_SIZE = 0},
     e \in {h \in 0..MaxHeight : h % RANGE_SIZE = RANGE_SIZE - 1},
     b \in {x \in MCBlock : x[1] % RANGE_SIZE = RANGE_SIZE - 1},
     v \in {"Unverified", "Verified"}}
=============================================================================
