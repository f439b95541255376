------------------------------ MODULE Pipeline ------------------------------
(***************************************************************************)
(* One pass of the historical pipeline (crate ztreamer-sync, module        *)
(* pipeline): worker threads read segments of the source and send blocks,  *)
(* the coordinator puts the blocks in order and builds batches, the writer *)
(* commits them to the index.                                              *)
(*                                                                         *)
(* The workers share a read-ahead budget.  The channel to the coordinator  *)
(* is a rendezvous, the channel to the writer holds one batch.  A block is *)
(* its height; Size gives its estimated encoded bytes.                     *)
(***************************************************************************)
EXTENDS Integers, Sequences, FiniteSetsExt

CONSTANTS
  Worker,                 \* the worker threads
  Start, Target,          \* the heights of the pass
  Size,                   \* Size[h]: encoded_size_bound of the block at h
  source_segment_blocks, max_batch_bytes, max_pending_bytes,  \* PipelineConfig
  MAX_RECORD_BYTES,       \* the largest record
  RANGE_SIZE,             \* blocks in a sealed range
  Faults,                 \* what can go wrong: of "Source", "Panic", "Parent", "Write"
  CanStop                 \* whether the stop flag can be set

ASSUME PassAssumption ==
  /\ Start \in Nat /\ Target \in Nat /\ Start <= Target
  /\ RANGE_SIZE \in Nat \ {0} /\ source_segment_blocks \in Nat \ {0}
ASSUME ConfigAssumption ==   \* validate_config, and no record above a batch
  /\ MAX_RECORD_BYTES \in Nat /\ max_batch_bytes \in Nat /\ max_pending_bytes \in Nat
  /\ Size \in [Start..Target -> 1..MAX_RECORD_BYTES]
  /\ MAX_RECORD_BYTES <= max_batch_bytes
  /\ max_batch_bytes <= max_pending_bytes
ASSUME FaultAssumption ==
  Faults \subseteq {"Source", "Panic", "Parent", "Write"} /\ CanStop \in BOOLEAN

VARIABLES
  next,         \* the first height that no worker took (AtomicU64)
  worker,       \* worker -> [pc, height, end]
  budget,       \* BudgetState: [reserved_bytes, first_missing_height, cancelled]
  pending,      \* OrderedBuilder: the heights of the pending blocks
  next_height,  \* OrderedBuilder: the lowest height of the next batch
  coordinator,  \* [pc, batch, through, saw_stop, result]
  queue,        \* the batches in the channel to the writer
  writer,       \* [pc, batch, tip]
  stop,         \* the stop flag
  faults,       \* the faults that occurred
  result        \* what run_pass returned, or "none"

pipeVars == <<next, worker, budget, pending, next_height, coordinator, queue, writer,
              stop, faults, result>>

Min2(i, j) == IF i < j THEN i ELSE j
Bytes(S) == MapThenSumSet(LAMBDA h : Size[h], S)
RangeEndOf(h) == h + RANGE_SIZE - 1 - (h % RANGE_SIZE)

-----------------------------------------------------------------------------
(* The read-ahead budget *)

\* partial_range_flush_threshold.
read_ahead_limit ==
  LET room == IF max_batch_bytes > MAX_RECORD_BYTES THEN max_batch_bytes ELSE MAX_RECORD_BYTES
  IN  IF max_pending_bytes > room THEN max_pending_bytes - room ELSE 0

\* reserve waits until this holds: the first missing block never waits.
\* (FitsInLimit: a mutant without that exemption.)
FitsInLimit(h) == budget.reserved_bytes + Size[h] <= read_ahead_limit
CanReserve(h) ==
  h = budget.first_missing_height \/ budget.reserved_bytes + Size[h] <= read_ahead_limit

Cancelled(b) == [b EXCEPT !.cancelled = TRUE]

-----------------------------------------------------------------------------
(* The workers: process_segments *)

Ended(w) == worker[w].pc \in {"ok", "stopped", "failed", "panicked"}
UnchangedByWorker == UNCHANGED <<pending, next_height, coordinator, queue, writer, stop, result>>

\* The last height of the segment.
SegmentEnd(first) == Min2(first + source_segment_blocks - 1, Target)

\* A worker ends after a stop or above the target, or takes a segment.
Claim(w) ==
  /\ worker[w].pc = "claim"
  /\ IF stop \/ next > Target
     THEN worker' = [worker EXCEPT ![w].pc = "ok"]
     ELSE worker' = [worker EXCEPT ![w] =
            [pc |-> "read", height |-> next, end |-> SegmentEnd(next)]]
  /\ next' = IF stop THEN next ELSE next + source_segment_blocks
  /\ UnchangedByWorker /\ UNCHANGED <<budget, faults>>

\* process_segment reads and parses a block ...
ReadSource(w) ==
  /\ worker[w].pc = "read"
  /\ worker' = [worker EXCEPT ![w].pc = "reserve"]
  /\ UnchangedByWorker /\ UNCHANGED <<next, budget, faults>>

\* ... or fails, or panics: both cancel the budget.
WorkerFault(w) ==
  /\ worker[w].pc = "read"
  /\ \/ /\ "Source" \in Faults
        /\ worker' = [worker EXCEPT ![w].pc = "failed"]
        /\ faults' = faults \cup {"Source"}
     \/ /\ "Panic" \in Faults
        /\ worker' = [worker EXCEPT ![w].pc = "panicked"]
        /\ faults' = faults \cup {"Panic"}
  /\ budget' = Cancelled(budget)
  /\ UnchangedByWorker /\ UNCHANGED next

Reserve(w) ==
  /\ worker[w].pc = "reserve"
  /\ ~budget.cancelled /\ CanReserve(worker[w].height)
  /\ budget' = [budget EXCEPT !.reserved_bytes = @ + Size[worker[w].height]]
  /\ worker' = [worker EXCEPT ![w].pc = "send"]
  /\ UnchangedByWorker /\ UNCHANGED <<next, faults>>

\* The budget is cancelled, or the receiver is dropped: the worker gets
\* PipelineError::Worker and cancels in turn.
WorkerStops(w) ==
  /\ \/ worker[w].pc = "reserve" /\ budget.cancelled
     \/ worker[w].pc = "send" /\ coordinator.pc = "done"
  /\ worker' = [worker EXCEPT ![w].pc = "stopped"]
  /\ budget' = Cancelled(budget)
  /\ UnchangedByWorker /\ UNCHANGED <<next, faults>>

\* After a send: the next block of the segment, or finish.
Sent(w) ==
  worker' = [worker EXCEPT ![w] = IF @.height = @.end THEN [@ EXCEPT !.pc = "claim"]
                                  ELSE [@ EXCEPT !.pc = "read", !.height = @ + 1]]

-----------------------------------------------------------------------------
(* The ordered builder *)

\* first_missing_height: the end of the pending blocks without a gap.
ReadyEnd(blocks) ==
  CHOOSE h \in next_height..(Target + 1) :
    h \notin blocks /\ next_height..(h - 1) \subseteq blocks

\* build_batch waits for a complete range unless much is pending.
WaitsForRange(through) ==
  /\ RangeEndOf(next_height) <= through
  /\ ReadyEnd(pending) <= RangeEndOf(next_height)
  /\ Bytes(pending) <= read_ahead_limit

\* The batch ends before a block that is not there or above `through`, or
\* that is too much, unless it completes a range to seal.
EndsBefore(h, through) ==
  \/ h \notin pending \/ h > through
  \/ /\ h # next_height /\ Bytes(next_height..h) > max_batch_bytes
     /\ h % RANGE_SIZE = 0 \/ RangeEndOf(h) > through
Batch(through) ==
  [from |-> next_height,
   to |-> (CHOOSE h \in next_height..(Target + 1) :
             EndsBefore(h, through)
             /\ \A k \in next_height..(h - 1) : ~EndsBefore(k, through)) - 1]
HasBatch(through) == ~WaitsForRange(through) /\ Batch(through).to >= next_height
NoBatch == [from |-> 0, to |-> -1]
\* The next_height after a batch.
HeightAfter(batch) == batch.to + 1

-----------------------------------------------------------------------------
(* The coordinator: build_batches *)

UnchangedByCoordinator == UNCHANGED <<next, writer, stop, result>>

\* OrderedBuilder::push.
PushResult(h) ==
  IF h < next_height \/ h \in pending THEN "DuplicateHeight"
  ELSE IF Bytes(pending \cup {h}) > max_pending_bytes THEN "PendingBytes" ELSE "none"

MustFlush(blocks) ==
  \/ Bytes(next_height..(ReadyEnd(blocks) - 1)) >= max_batch_bytes
  \/ Bytes(blocks) > read_ahead_limit

\* Takes a block from a worker that sends, and tells the first missing height.
Receive(w) ==
  LET h == worker[w].height
      blocks == pending \cup {h}
      error == PushResult(h)
  IN  /\ coordinator.pc = "recv" /\ worker[w].pc = "send"
      /\ Sent(w)
      /\ pending' = IF error = "none" THEN blocks ELSE pending
      /\ coordinator' = [coordinator EXCEPT
                           !.pc = IF error # "none" THEN "done"
                                  ELSE IF MustFlush(blocks) THEN "flush" ELSE "recv",
                           !.result = error]
      /\ budget' = IF error = "none"
                   THEN [budget EXCEPT !.first_missing_height = ReadyEnd(blocks)]
                   ELSE Cancelled(budget)
      /\ UnchangedByCoordinator /\ UNCHANGED <<next_height, queue, faults>>

\* After a stop the coordinator cancels the budget, once.
SeeStop ==
  /\ coordinator.pc = "recv" /\ stop /\ ~coordinator.saw_stop
  /\ budget' = Cancelled(budget)
  /\ coordinator' = [coordinator EXCEPT !.saw_stop = TRUE]
  /\ UnchangedByCoordinator
  /\ UNCHANGED <<worker, pending, next_height, queue, faults>>

\* All senders are gone: the coordinator drains what it has.
\* (DrainTarget: a mutant that does not look at the stop flag.)
DrainTarget == Target
DrainThrough == IF stop THEN Min2(ReadyEnd(pending) - 1, Target) ELSE Target
Disconnected ==
  /\ coordinator.pc = "recv" /\ \A w \in Worker : Ended(w)
  /\ coordinator' = [coordinator EXCEPT !.pc = "drain", !.through = DrainThrough]
  /\ UnchangedByCoordinator
  /\ UNCHANGED <<worker, budget, pending, next_height, queue, faults>>

\* release_bytes: while blocks are received, the bytes of a batch go back.
ReleasedBytes(batch) ==
  IF coordinator.pc = "flush" THEN budget.reserved_bytes - Bytes(batch.from..batch.to)
                              ELSE budget.reserved_bytes

\* build_batch, in the loop and after it.
Build ==
  LET batch == Batch(coordinator.through)
  IN  /\ coordinator.pc \in {"flush", "drain"} /\ HasBatch(coordinator.through)
      /\ pending' = pending \ (batch.from..batch.to)
      /\ next_height' = HeightAfter(batch)
      /\ budget' = [budget EXCEPT !.reserved_bytes = ReleasedBytes(batch)]
      /\ coordinator' = [coordinator EXCEPT !.batch = batch,
                           !.pc = IF @ = "flush" THEN "send" ELSE "sendlast"]
      /\ UnchangedByCoordinator /\ UNCHANGED <<worker, queue, faults>>
NothingToBuild ==
  /\ coordinator.pc \in {"flush", "drain"} /\ ~HasBatch(coordinator.through)
  /\ coordinator' = IF coordinator.pc = "flush" THEN [coordinator EXCEPT !.pc = "recv"]
                    ELSE [coordinator EXCEPT !.pc = "done", !.result = "ok"]
  /\ budget' = IF coordinator.pc = "flush" THEN budget ELSE Cancelled(budget)
  /\ UnchangedByCoordinator /\ UNCHANGED <<worker, pending, next_height, queue, faults>>

\* A block does not link to the block before it.
ParentFault ==
  /\ "Parent" \in Faults
  /\ coordinator.pc \in {"flush", "drain"} /\ HasBatch(coordinator.through)
  /\ coordinator' = [coordinator EXCEPT !.pc = "done", !.result = "Parent"]
  /\ budget' = Cancelled(budget)
  /\ faults' = faults \cup {"Parent"}
  /\ UnchangedByCoordinator /\ UNCHANGED <<worker, pending, next_height, queue>>

\* send_batch waits for room, and fails when the writer is gone.
SendBatch ==
  /\ coordinator.pc \in {"send", "sendlast"} /\ writer.pc # "failed" /\ queue = <<>>
  /\ queue' = <<coordinator.batch>>
  /\ coordinator' = [coordinator EXCEPT !.batch = NoBatch,
                       !.pc = IF @ = "sendlast" THEN "drain"
                              ELSE IF Bytes(pending) > read_ahead_limit THEN "flush" ELSE "recv"]
  /\ UnchangedByCoordinator /\ UNCHANGED <<worker, budget, pending, next_height, faults>>
WriterGone ==
  /\ coordinator.pc \in {"send", "sendlast"} /\ writer.pc = "failed"
  /\ coordinator' = [coordinator EXCEPT !.pc = "done", !.result = "Worker"]
  /\ budget' = Cancelled(budget)
  /\ UnchangedByCoordinator /\ UNCHANGED <<worker, pending, next_height, queue, faults>>

-----------------------------------------------------------------------------
(* The writer: write_batches *)

UnchangedByWriter ==
  UNCHANGED <<next, worker, budget, pending, next_height, coordinator, stop, result>>

TakeBatch ==
  /\ writer.pc = "recv" /\ queue # <<>>
  /\ writer' = [writer EXCEPT !.pc = "write", !.batch = Head(queue)]
  /\ queue' = Tail(queue)
  /\ UnchangedByWriter /\ UNCHANGED faults
\* Index::write_encoded commits the batch ...
Commit ==
  /\ writer.pc = "write"
  /\ writer' = [pc |-> "recv", batch |-> NoBatch, tip |-> writer.batch.to]
  /\ UnchangedByWriter /\ UNCHANGED <<queue, faults>>
\* ... or fails: the writer ends at the first error.
WriteFault ==
  /\ writer.pc = "write" /\ "Write" \in Faults
  /\ writer' = [writer EXCEPT !.pc = "failed"]
  /\ faults' = faults \cup {"Write"}
  /\ UnchangedByWriter /\ UNCHANGED queue
WriterEnds ==
  /\ writer.pc = "recv" /\ queue = <<>> /\ coordinator.pc = "done"
  /\ writer' = [writer EXCEPT !.pc = "ok"]
  /\ UnchangedByWriter /\ UNCHANGED <<queue, faults>>

-----------------------------------------------------------------------------
(* The end of run_pass, after all threads are joined *)

Some(pc) == \E w \in Worker : worker[w].pc = pc
\* (StoppedFirst: a mutant that swaps two checks.)
StoppedFirst ==
  IF Some("panicked") THEN "Panic"
  ELSE IF coordinator.result = "Worker" /\ writer.pc = "failed" THEN "Write"
  ELSE IF coordinator.result \notin {"ok", "Worker"} THEN coordinator.result
  ELSE IF coordinator.result = "Worker" \/ (Some("stopped") /\ ~stop) THEN "Worker"
  ELSE IF Some("failed") THEN "Source"
  ELSE IF writer.pc = "failed" THEN "Write"
  ELSE IF writer.tip # Target /\ ~stop THEN "SourceGap"
  ELSE "ok"
PassResult ==
  IF Some("panicked") THEN "Panic"
  ELSE IF coordinator.result = "Worker" /\ writer.pc = "failed" THEN "Write"
  ELSE IF coordinator.result \notin {"ok", "Worker"} THEN coordinator.result
  ELSE IF Some("failed") THEN "Source"
  ELSE IF coordinator.result = "Worker" \/ (Some("stopped") /\ ~stop) THEN "Worker"
  ELSE IF writer.pc = "failed" THEN "Write"
  ELSE IF writer.tip # Target /\ ~stop THEN "SourceGap"
  ELSE "ok"

Return ==
  /\ result = "none" /\ coordinator.pc = "done"
  /\ \A w \in Worker : Ended(w)
  /\ writer.pc \in {"ok", "failed"}
  /\ result' = PassResult
  /\ UNCHANGED <<next, worker, budget, pending, next_height, coordinator, queue, writer,
                 stop, faults>>

\* The shutdown of the daemon sets the flag at any time.
SetStop ==
  /\ CanStop /\ ~stop /\ result = "none"
  /\ stop' = TRUE
  /\ UNCHANGED <<next, worker, budget, pending, next_height, coordinator, queue, writer,
                 faults, result>>

Returned == result # "none" /\ UNCHANGED pipeVars

-----------------------------------------------------------------------------

PipeInit ==
  /\ next = Start
  /\ worker = [w \in Worker |-> [pc |-> "claim", height |-> Start, end |-> Start]]
  /\ budget = [reserved_bytes |-> 0, first_missing_height |-> Start, cancelled |-> FALSE]
  /\ pending = {} /\ next_height = Start
  /\ coordinator = [pc |-> "recv", batch |-> NoBatch, through |-> Target,
                    saw_stop |-> FALSE, result |-> "none"]
  /\ queue = <<>>
  /\ writer = [pc |-> "recv", batch |-> NoBatch, tip |-> Start - 1]
  /\ stop = FALSE /\ faults = {} /\ result = "none"

WorkerStep(w) == Claim(w) \/ ReadSource(w) \/ Reserve(w) \/ WorkerStops(w)
CoordinatorStep ==
  \/ \E w \in Worker : Receive(w)
  \/ SeeStop \/ Disconnected \/ Build \/ NothingToBuild \/ SendBatch \/ WriterGone
WriterStep == TakeBatch \/ Commit \/ WriterEnds
Fault == (\E w \in Worker : WorkerFault(w)) \/ ParentFault \/ WriteFault

PipeNext ==
  \/ \E w \in Worker : WorkerStep(w)
  \/ CoordinatorStep \/ WriterStep \/ Return
  \/ Fault \/ SetStop \/ Returned

\* Each thread runs; process_segment returns or sends a block.
PipeSpec ==
  /\ PipeInit /\ [][PipeNext]_pipeVars
  /\ \A w \in Worker : WF_pipeVars(WorkerStep(w))
  /\ WF_pipeVars(CoordinatorStep) /\ WF_pipeVars(WriterStep) /\ WF_pipeVars(Return)

-----------------------------------------------------------------------------
(* Properties *)

Batches == [from : Nat, to : {-1} \cup (Start..Target)]

\* The types of the threads; a worker stays inside the pass.
PipeTypeOK ==
  /\ next \in Nat /\ stop \in BOOLEAN /\ faults \subseteq Faults
  /\ worker \in [Worker -> [pc : {"claim", "read", "reserve", "send", "ok", "stopped",
                                  "failed", "panicked"},
                            height : Start..Target, end : Start..Target]]
  /\ budget \in [reserved_bytes : Nat, first_missing_height : Start..(Target + 1),
                 cancelled : BOOLEAN]
  /\ pending \subseteq Start..Target /\ next_height \in Start..(Target + 1)
  /\ coordinator.pc \in {"recv", "flush", "send", "drain", "sendlast", "done"}
  /\ coordinator.batch \in Batches /\ coordinator.through \in (Start - 1)..Target
  /\ queue \in Seq(Batches) /\ Len(queue) <= 1
  /\ writer \in [pc : {"recv", "write", "ok", "failed"}, batch : Batches,
                 tip : (Start - 1)..Target]

\* Until the senders are gone, the reserved bytes are the bytes of the pending
\* blocks and of the blocks that workers hold: release_bytes never takes
\* "more bytes than were reserved", and no byte stays reserved for ever.
ReservedBytesExact ==
  coordinator.pc \in {"recv", "flush", "send"} =>
    budget.reserved_bytes =
      Bytes(pending) + Bytes({worker[w].height : w \in {v \in Worker : worker[v].pc = "send"}})

\* "That block cannot make `pending` more than `max_pending_bytes`": the
\* builder refuses no block of the workers, although the first missing block
\* goes above the limit and the next one may already wait behind it.
PushNeverFails == coordinator.result \notin {"PendingBytes", "DuplicateHeight"}

\* The batches between the tip of the index and the builder follow on each
\* other without a gap, so that the index refuses none of them.
BatchesAreConsecutive ==
  LET inFlight == <<writer.batch>> \o queue \o <<coordinator.batch>>
      batches == SelectSeq(inFlight, LAMBDA b : b # NoBatch)
      ends == <<[from |-> Start, to |-> writer.tip]>> \o batches
               \o <<[from |-> next_height, to |-> Target]>>
  IN  \A i \in 2..Len(ends) : ends[i].from = ends[i - 1].to + 1

\* "The pass gives the error that caused the failure": it fails if and only
\* if something failed, with an error that occurred, and never with the
\* PipelineError::Worker that one failure causes in the other threads.
FailureIsReported ==
  result # "none" =>
    /\ faults = {} => result = "ok"
    /\ faults # {} => result \in faults

\* "Write every contiguous block that arrived": a pass without an error, also
\* after a stop, leaves no block in the builder that follows the tip.
NoReadyBlockIsLost ==
  result = "ok" => /\ writer.tip = next_height - 1
                   /\ next_height \notin pending
                   /\ ~stop => writer.tip = Target

PassIsOver == result # "none"

\* "If this block waits, a deadlock occurs": no pass waits for ever, whatever
\* fails and whenever it is stopped.
PassEnds == <>[]PassIsOver

\* The accounts of a pass, with an error in any thread and a stop at any time: each byte is
\* released once, the builder refuses no block, the batches are consecutive, and what can be
\* written at the end of the pass is written.
PassIsExact ==
  /\ PipeTypeOK /\ ReservedBytesExact /\ PushNeverFails
  /\ BatchesAreConsecutive /\ NoReadyBlockIsLost
=============================================================================
