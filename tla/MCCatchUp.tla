---------------------------- MODULE MCCatchUp -----------------------------
(***************************************************************************)
(* The catch-up on small instances: the bulk pipeline of the embedded      *)
(* node, the tail of the remote one, and the ranges that the index writes  *)
(* for both. Each behaviour is one of one part, which the initial state    *)
(* chooses, and the variables of the other parts stay.                     *)
(***************************************************************************)
EXTENDS Pipeline, TLC

VARIABLES
  part,
  \* of RemoteTail
  node, moves, chain, pass, parsed, seen, tail_faults, tail_stop, tail_next, tail_worker,
  \* of RangeCodec
  rows, state, bytes, damage, fresh

tailVars == <<node, moves, chain, pass, parsed, seen, tail_faults, tail_stop, tail_next,
              tail_worker>>
codecVars == <<rows, state, bytes, damage, fresh>>

-----------------------------------------------------------------------------
(* Pipeline: a pass over a few blocks of one or two bytes.  The limit of   *)
(* the budget is so small that workers wait for it.                        *)

MCSize == [h \in Start..Target |-> IF h % 3 = 1 THEN 2 ELSE 1]
WorkerSymmetry == Permutations(Worker)

-----------------------------------------------------------------------------
(* RemoteTail: two branches that part above block 1, each with a shorter   *)
(* and a longer best chain; the index has genesis.                         *)

OneBranch == <<"g", "a1", "a2", "a3", "a4">>
OtherBranch == <<"g", "a1", "b2", "b3", "b4", "b5">>

Remote == INSTANCE RemoteTail
  WITH Nodes <- {SubSeq(OneBranch, 1, 4), OneBranch, SubSeq(OtherBranch, 1, 5), OtherBranch},
       Old <- <<"g">>, TooLarge <- {"b4"}, Worker <- {"w1", "w2"}, source_segment_blocks <- 2,
       requests_in_flight <- 2, SEAL_DEPTH <- 1, MaxMoves <- 3, MaxFaults <- 1, CanStop <- TRUE,
       faults <- tail_faults, stop <- tail_stop, next <- tail_next, worker <- tail_worker

-----------------------------------------------------------------------------
(* RangeCodec: ranges of two records with at most two changes, and the     *)
(* states that the rules of the index allow (Index: CoverageRule and       *)
(* VerifiedRule).                                                          *)

MCStates ==
  {s \in [tip : 0..4, hash : {9}, sealed : {-1, 1, 3}, verified : {-1, 1, 3},
          generation : {1}, size : {0, 2}] : s.sealed <= s.tip /\ s.verified <= s.sealed}

Codec == INSTANCE RangeCodec
  WITH RANGE_SIZE <- 2, MAX_RECORD_BYTES <- 11, Words <- 0..12, Start <- 2, States <- MCStates,
       MaxDamage <- 2

ASSUME PartAssumptions ==
  /\ Remote!TailBounds /\ Codec!CodecBounds

-----------------------------------------------------------------------------

NoTail ==
  /\ node = 0 /\ moves = 0 /\ chain = 0 /\ pass = [pc |-> "off"] /\ parsed = 0 /\ seen = 0
  /\ tail_faults = 0 /\ tail_stop = 0 /\ tail_next = 0 /\ tail_worker = 0
NoCodec ==
  /\ rows = 0 /\ state = 0 /\ bytes = 0 /\ damage = 0 /\ fresh = 0

CatchUpInit ==
  /\ PipeInit
  /\ \/ part = "pipeline" /\ NoTail /\ NoCodec
     \/ part = "tail" /\ Remote!Init /\ NoCodec
     \/ part = "codec" /\ Codec!Init /\ NoTail

CatchUpNext ==
  \/ part = "pipeline" /\ PipeNext /\ UNCHANGED <<part, tailVars, codecVars>>
  \/ part = "tail" /\ Remote!Next
     /\ UNCHANGED <<part, pipeVars, codecVars>>
  \/ part = "codec" /\ Codec!Next
     /\ UNCHANGED <<part, pipeVars, tailVars>>

CatchUpSpec ==
  /\ CatchUpInit /\ [][CatchUpNext]_<<part, pipeVars, tailVars, codecVars>>

-----------------------------------------------------------------------------
(* The properties of the parts *)

\* RemoteTail: the index follows the node through the passes of the tail, although its
\* requests see several best chains. The durable blocks are one chain, a pass ends at the
\* block that it planned, and the tip of a stable catch-up was on a best chain of the node
\* during the last pass.
TailIsTheNodes ==
  /\ [](part = "tail" => Remote!IndexIsOneChain /\ Remote!StableTipIsTheNodes)
  /\ Remote!PassEndsAtItsTip
\* RangeCodec: what is written reads back, and of all damaged ranges the check accepts only
\* the canonical form, whose served blocks are the checked ones.
RangeIsCanonical == part = "codec" => Codec!RangeIsCanonical
=============================================================================
