-------------------------------- MODULE Daemon --------------------------------
(***************************************************************************)
(* The daemon: the supervisor of `lifecycle`, the stages of the `Launcher` *)
(* on an embedded or a remote node, the tasks of the serve stage, and the  *)
(* gRPC health of the server.                                              *)
(*                                                                         *)
(* The main work and the supervisor share one runtime task: a break of the *)
(* supervisor loop, the cancel of the token and the drop of the tasks that *)
(* did not start are one step.  The tasks run beside it.                   *)
(***************************************************************************)
EXTENDS Naturals, Sequences, SequencesExt

CONSTANT EarlyWatch     \* a client may open a Watch before the health task runs

VARIABLES
    remote, indexOnly,  \* the mode, and `--index-only`
    signal,             \* the process signal: "none", "ok", or "err" for a failed handler
    shutdown,           \* the cancellation token
    sup,                \* the supervisor: "running", "draining", "done"
    queue,              \* the tasks that main added and the supervisor did not start
    started,            \* the started tasks, in the order that they started
    task,               \* what each task does
    cause,              \* what broke the loop: "signal", "main", a task, or "none" yet
    outcome,            \* the result of the daemon: "none", "ok", or who failed
    main,               \* the stage of the main work
    work,               \* the pass or the import of the stage, on its own thread
    indexed,            \* the catch-up pass is complete
    passStopped,        \* shutdown stopped a pass
    tip,                \* the published readiness of the tip
    unseen,             \* the health task has not seen the last snapshot
    health,             \* the status of the service "": "unset", "Serving", ...
    streams,            \* the open streams of the gRPC server
    faulted             \* the environment made something fail

supVars == <<signal, shutdown, sup, queue, started, cause, outcome>>
mainVars == <<main, work, indexed, passStopped>>
serveVars == <<tip, unseen, health, streams>>
vars == <<remote, indexOnly, supVars, task, mainVars, serveVars, faulted>>

Tasks == {"Zakura", "gRPC", "gRPC health", "head follower", "range_meta filler"}
Ended == {"ok", "err"}
MainEnds == {"ended", "failed"}
Idle == "none"

Init ==
    /\ remote \in BOOLEAN /\ indexOnly \in BOOLEAN
    /\ signal = "none" /\ shutdown = FALSE /\ sup = "running"
    /\ queue = <<>> /\ started = <<>> /\ cause = "none" /\ outcome = "none"
    /\ task = [t \in Tasks |-> "idle"]
    /\ main = "network" /\ work = Idle /\ indexed = FALSE /\ passStopped = FALSE
    /\ tip = FALSE /\ unseen = FALSE /\ health = "unset" /\ streams = {}
    /\ faulted = FALSE

-----------------------------------------------------------------------------
(* TaskSet and Supervisor (lifecycle/mod.rs).                               *)

\* TaskSet::add. The send fails after the supervisor stopped: the task is dropped.
AddTasks(names) ==
    /\ queue' = IF sup = "running" THEN queue \o names ELSE queue
    /\ task' = [t \in Tasks |->
                    IF t \notin Range(names) THEN task[t]
                    ELSE IF sup = "running" THEN "queued" ELSE "dropped"]

\* Running::start, of the task that `added` gives first.
Start ==
    /\ sup = "running" /\ signal = "none" /\ queue # <<>>
    /\ queue' = Tail(queue)
    /\ started' = Append(started, Head(queue))
    /\ task' = [task EXCEPT ![Head(queue)] = "running"]
    /\ UNCHANGED <<remote, indexOnly, signal, shutdown, sup, cause, outcome,
                   mainVars, serveVars, faulted>>

\* The break of the loop of Supervisor::run: cancel the token, then drop `added`.
Break(event) ==
    /\ sup = "running"
    /\ sup' = "draining" /\ shutdown' = TRUE /\ cause' = event /\ queue' = <<>>
    /\ task' = [t \in Tasks |-> IF task[t] = "queued" THEN "dropped" ELSE task[t]]
    /\ UNCHANGED <<remote, indexOnly, signal, started, outcome, mainVars, serveVars, faulted>>

OnSignal == signal # "none" /\ Break("signal")

\* The select is biased: a signal comes first, then the tasks that wait for their start.
OnStopped ==
    /\ signal = "none" /\ queue = <<>>
    /\ \E t \in Tasks : task[t] \in Ended /\ Break(t)

OnMainDone == main \in MainEnds /\ Break("main")

\* The errors of the daemon in the order of the result: the signal, the tasks, main.
Errors ==
    (IF cause = "signal" /\ signal = "err" THEN <<"signal">> ELSE <<>>)
    \o SelectSeq(started, LAMBDA t : task[t] = "err")
    \o (IF main = "failed" THEN <<"main">> ELSE <<>>)

Result ==
    IF Errors # <<>> THEN Head(Errors) ELSE IF cause \in Tasks THEN cause ELSE "ok"

\* The join of `main` and of Running::drain, and the result.
Drained ==
    /\ sup = "draining" /\ main \in MainEnds
    /\ \A t \in Tasks : task[t] # "running"
    /\ sup' = "done" /\ outcome' = Result
    /\ UNCHANGED <<remote, indexOnly, signal, shutdown, queue, started, cause, task,
                   mainVars, serveVars, faulted>>

\* shutdown_signal: SIGTERM or Ctrl-C, or a handler that fails.
Signal ==
    /\ signal = "none" /\ sup = "running"
    /\ \E s \in {"ok", "err"} : signal' = s /\ faulted' = (faulted \/ s = "err")
    /\ UNCHANGED <<remote, indexOnly, shutdown, sup, queue, started, cause, outcome, task,
                   mainVars, serveVars>>

-----------------------------------------------------------------------------
(* The stages (launcher.rs, embedded.rs, remote/mod.rs, replicate/mod.rs).  *)

Goto(from, to) == main = from /\ main' = to

\* A stage that gives an error ends the main work with it.
Fails(from) == Goto(from, "failed") /\ faulted' = TRUE

\* A stage that breaks on shutdown ends the main work.
BreaksIn == {"network", "booting", "wait_ready", "tail", "reconcile", "serving"}

MainStep ==
    UNCHANGED <<remote, indexOnly, signal, shutdown, sup, started, cause, outcome, serveVars>>
NoTasks == UNCHANGED <<queue, task>>
NoWork == UNCHANGED <<work, indexed, passStopped>>

\* Node::network, Index::open, wait_ready, wallet and IndexTip::read, tail, node_version and
\* reconcile: the next stage, or an error.  The network of the embedded node does not fail.
NextStage ==
    /\ \/ Goto("network", "open")
       \/ Goto("open", IF remote THEN "connect" ELSE "boot")
       \/ Goto("wait_ready", "fill")
       \/ Goto("connect", "fill")
       \/ Goto("wallet", "tail")
       \/ Goto("tail", "catch_up")
       \/ Goto("version", "reconcile")
       \/ Goto("reconcile", "serve")
    /\ UNCHANGED faulted /\ MainStep /\ NoTasks /\ NoWork

StageFails ==
    /\ \/ remote /\ \E s \in {"network", "connect", "wallet", "tail", "version"} : Fails(s)
       \/ ~remote /\ Fails("wait_ready")
       \/ \E s \in {"open", "reconcile", "serve"} : Fails(s)
    /\ MainStep /\ NoTasks /\ NoWork

StageBreaks ==
    /\ shutdown /\ main \in BreaksIn
    /\ main' = "ended"
    /\ UNCHANGED faulted /\ MainStep /\ NoTasks /\ NoWork

\* EmbeddedNode::boot: spawn Zakura, then wait for its services.  The select is biased: after
\* the shutdown, the stage breaks and does not look at `ready_rx`.
Boot ==
    /\ Goto("boot", "booting")
    /\ AddTasks(<<"Zakura">>)
    /\ UNCHANGED faulted /\ MainStep /\ NoWork

ZakuraIsReady ==
    /\ ~shutdown /\ task["Zakura"] = "running"
    /\ Goto("booting", "wait_ready")
    /\ UNCHANGED faulted /\ MainStep /\ NoTasks /\ NoWork

\* `ready_tx` was dropped: "Zakura stopped before readiness".
LosesZakura ==
    /\ ~shutdown /\ task["Zakura"] \in Ended \cup {"dropped"}
    /\ Goto("booting", "failed")
    /\ UNCHANGED faulted /\ MainStep /\ NoTasks /\ NoWork

\* The historical pass, the import or the catch-up pass starts on its own thread.
StartWork ==
    /\ main \in {"fill", "catch_up"} /\ work = Idle
    /\ work' = "running"
    /\ UNCHANGED <<main, indexed, passStopped, faulted>> /\ MainStep /\ NoTasks

\* A mutant: shutdown drops the pass, which still runs.
StopWorkDetached ==
    /\ shutdown /\ work = "running"
    /\ main' = "ended"
    /\ UNCHANGED <<work, indexed, passStopped, faulted>> /\ MainStep /\ NoTasks

\* The work ends: complete, with an error, or at the stop that IndexPass::run or
\* Replica::import asks for. A stop can also come too late: then the work is complete.
EndWork ==
    /\ work \in {"running", "stopping"}
    /\ \E end \in {"complete", "err"} \cup {w \in {"stopped"} : work = "stopping"} :
          work' = IF work = "stopping" /\ end = "complete" THEN "late" ELSE end
    /\ faulted' = (faulted \/ work' = "err")
    /\ UNCHANGED <<main, indexed, passStopped>> /\ MainStep /\ NoTasks

StopWork ==
    /\ shutdown /\ work = "running"
    /\ work' = "stopping"
    /\ UNCHANGED <<main, indexed, passStopped, faulted>> /\ MainStep /\ NoTasks

IsImport == remote /\ main = "fill"

\* The result of IndexPass::run: a pass that shutdown stopped breaks, also when the stop came
\* too late, and is an error with `--index-only`.
AfterPass ==
    IF work = "err" \/ (work \in {"stopped", "late"} /\ indexOnly) THEN "failed"
    ELSE IF work # "complete" THEN "ended"
    ELSE IF main = "fill" THEN "wallet" ELSE "check"

\* The result of Replica::import: it breaks only when the import stopped before its end.
AfterImport ==
    IF work = "err" THEN "failed" ELSE IF work = "stopped" THEN "ended" ELSE "wallet"

AfterWork ==
    /\ main \in {"fill", "catch_up"} /\ work \in {"complete", "stopped", "late", "err"}
    /\ main' = IF IsImport THEN AfterImport ELSE AfterPass
    /\ indexed' = (main = "catch_up" /\ work \in {"complete", "late"})
    /\ passStopped' = (passStopped \/ (~IsImport /\ work \in {"stopped", "late"}))
    /\ work' = Idle
    /\ UNCHANGED faulted /\ MainStep /\ NoTasks

\* The end of the catch-up: with `--index-only` the work is done.
Check ==
    /\ Goto("check", IF indexOnly \/ shutdown THEN "ended" ELSE "version")
    /\ UNCHANGED faulted /\ MainStep /\ NoTasks /\ NoWork

\* Launcher::serve. HealthTask::new sets the first status, then the four tasks join the set.
Serve ==
    /\ Goto("serve", "serving")
    /\ AddTasks(<<"gRPC", "gRPC health", "head follower", "range_meta filler">>)
    /\ tip' = TRUE /\ health' = "Serving"
    /\ UNCHANGED <<remote, indexOnly, signal, shutdown, sup, started, cause, outcome,
                   unseen, streams, faulted>> /\ NoWork

-----------------------------------------------------------------------------
(* The tasks (tasks.rs, health.rs).  The snapshot sender is in the follower:*)
(* it closes when the follower ends or is dropped.                          *)

Runs(t) == task[t] = "running"
Closed == task["head follower"] \in Ended \cup {"dropped"}
End(t, result) == Runs(t) /\ task' = [task EXCEPT ![t] = result]
TaskStep ==
    UNCHANGED <<remote, indexOnly, supVars, mainVars>>

\* Zakura, the gRPC server, the follower: a stop or a failure that nobody asked for. Each one
\* can also fail in its stop. The open streams end with the server.
Crash(t) ==
    /\ \E result \in Ended : End(t, result) /\ (shutdown => result = "err")
    /\ faulted' = TRUE
    /\ streams' = IF t = "gRPC" THEN {} ELSE streams
    /\ TaskStep /\ UNCHANGED <<tip, unseen, health>>

\* Zakura and the head follower stop on shutdown.
Stop(t) ==
    /\ shutdown /\ End(t, "ok")
    /\ TaskStep /\ UNCHANGED <<serveVars, faulted>>

\* GrpcTask::run: the graceful shutdown waits for the open streams.
StopGrpc ==
    /\ shutdown /\ streams = {} /\ End("gRPC", "ok")
    /\ TaskStep /\ UNCHANGED <<serveVars, faulted>>

\* FillerTask::run: until shutdown, or until the sender closes.
StopFiller ==
    /\ shutdown \/ Closed
    /\ End("range_meta filler", "ok")
    /\ TaskStep /\ UNCHANGED <<serveVars, faulted>>

\* The follower publishes a snapshot.
Publish ==
    /\ Runs("head follower")
    /\ tip' \in BOOLEAN /\ unseen' = TRUE
    /\ TaskStep /\ UNCHANGED <<task, health, streams, faulted>>

Status(ready) == IF ready THEN "Serving" ELSE "NotServing"

\* HealthTask::update, after a change.
UpdateHealth ==
    /\ Runs("gRPC health") /\ ~shutdown /\ unseen
    /\ health' = Status(tip) /\ unseen' = FALSE
    /\ TaskStep /\ UNCHANGED <<task, tip, streams, faulted>>

\* A mutant: the health task sets NotServing and does not clear the service.
StopHealthKept ==
    /\ shutdown /\ End("gRPC health", "ok")
    /\ health' = "NotServing"
    /\ TaskStep /\ UNCHANGED <<tip, unseen, streams, faulted>>

\* HealthTask::stop: NotServing, then clear the service. The Watch streams then finish.
StopHealth ==
    /\ shutdown /\ End("gRPC health", "ok")
    /\ health' = "cleared"
    /\ TaskStep /\ UNCHANGED <<tip, unseen, streams, faulted>>

\* "health snapshot source closed". The select is biased: shutdown comes first.
LoseSource ==
    /\ ~shutdown /\ Closed /\ ~unseen /\ End("gRPC health", "err")
    /\ health' = "cleared"
    /\ TaskStep /\ UNCHANGED <<tip, unseen, streams, faulted>>

-----------------------------------------------------------------------------
(* The clients of the gRPC server, and their streams.                       *)

Open(s) ==
    /\ Runs("gRPC") /\ ~shutdown
    /\ s = "watch" => health # "cleared" /\ (Runs("gRPC health") \/ EarlyWatch)
    /\ streams' = streams \cup {s}
    /\ TaskStep /\ UNCHANGED <<task, tip, unseen, health, faulted>>

\* The server ends a stream: a Watch when the service is cleared, a mempool stream when the
\* sender closes.
EndStream(s) ==
    /\ s \in streams
    /\ IF s = "watch" THEN health = "cleared" ELSE Closed
    /\ streams' = streams \ {s}
    /\ TaskStep /\ UNCHANGED <<task, tip, unseen, health, faulted>>

\* The client closes a stream. Nothing makes it do so.
CloseStream(s) ==
    /\ s \in streams
    /\ streams' = streams \ {s}
    /\ TaskStep /\ UNCHANGED <<task, tip, unseen, health, faulted>>

Streams == {"watch", "mempool"}

Supervise == Start \/ OnSignal \/ OnStopped \/ OnMainDone \/ Drained

\* The select of Supervisor::run is biased: it polls main when no other event is ready.
PollsMain ==
    sup = "running" => signal = "none" /\ queue = <<>> /\ \A t \in Tasks : task[t] \notin Ended

Main ==
    /\ PollsMain
    /\ \/ NextStage \/ StageBreaks \/ Boot \/ ZakuraIsReady \/ LosesZakura
       \/ StartWork \/ StopWork \/ AfterWork \/ Check \/ Serve

\* What the tasks and the work do on shutdown, with no help of a client or the node.
Shut ==
    \/ \E t \in {"Zakura", "head follower"} : Stop(t)
    \/ StopGrpc \/ StopFiller \/ StopHealth \/ LoseSource
    \/ \E s \in Streams : EndStream(s)

Environment ==
    \/ Signal \/ Publish
    \/ PollsMain /\ StageFails
    \/ \E t \in {"Zakura", "gRPC", "head follower"} : Crash(t)
    \/ \E s \in Streams : Open(s) \/ CloseStream(s)

Done == sup = "done" /\ UNCHANGED vars

Next == Supervise \/ Main \/ EndWork \/ Shut \/ UpdateHealth \/ Environment \/ Done

(* Fairness: the runtime polls a task that can run, a pass and an import end *)
(* (the stop flag, and the time limits of the calls of the node), and a call *)
(* of a stage returns.  Nothing is asked of a client, of the signal or of a  *)
(* fault.                                                                    *)
Fairness ==
    /\ WF_vars(Supervise) /\ WF_vars(Main) /\ WF_vars(EndWork) /\ WF_vars(UpdateHealth)
    /\ \A t \in {"Zakura", "head follower"} : WF_vars(Stop(t))
    /\ WF_vars(StopGrpc) /\ WF_vars(StopFiller) /\ WF_vars(StopHealth) /\ WF_vars(LoseSource)
    /\ \A s \in Streams : WF_vars(EndStream(s))

Spec == Init /\ [][Next]_vars
FairSpec == Spec /\ Fairness

-----------------------------------------------------------------------------
(* Type invariant: each stage, task and status has one of its values.       *)
DaemonTypeOK ==
    /\ signal \in {"none", "ok", "err"} /\ sup \in {"running", "draining", "done"}
    /\ task \in [Tasks -> {"idle", "queued", "dropped", "running"} \cup Ended]
    /\ Range(queue) = {t \in Tasks : task[t] = "queued"}
    /\ Range(started) = {t \in Tasks : Runs(t) \/ task[t] \in Ended}
    /\ health \in {"unset", "Serving", "NotServing", "cleared"} /\ streams \subseteq Streams

(* The daemon ends with no error only if a signal asked for the stop or the *)
(* work of `--index-only` is complete, and never after shutdown stopped a   *)
(* pass of `--index-only`: no stop or failure of a task, of a stage or of   *)
(* the signal handler is lost on the way to the result of Supervisor::run.  *)
OkMeansAskedOrComplete ==
    outcome = "ok" =>
        /\ (cause = "signal" /\ signal = "ok") \/ (indexOnly /\ indexed)
        /\ main = "ended" /\ ~(indexOnly /\ passStopped)
        /\ \A t \in Tasks : task[t] # "err"

(* When nothing failed, a signal ends the daemon with no error in each      *)
(* stage: neither the tasks that never start, nor the sender that closes    *)
(* while the health task still runs, make an error of a clean stop.  The    *)
(* one exception is a pass of `--index-only`.                               *)
CleanStopIsClean ==
    sup = "done" /\ ~faulted => outcome = "ok" \/ (indexOnly /\ passStopped)

(* The result comes after the last use of the index: the caller can then    *)
(* close it.                                                                *)
IndexIsReleased ==
    sup = "done" => work = Idle /\ \A t \in Tasks : ~Runs(t)

StoppedIsDone ==
    signal # "none" \/ main \in MainEnds \/ (\E t \in Tasks : task[t] \in Ended) => sup = "done"

(* A signal, a failed stage, or the stop of one task ends the whole daemon: *)
(* no stage, task or open stream holds up the shutdown.                     *)
DaemonEnds == []<>StoppedIsDone

(* A tip that is not ready takes the health of the server down: no client   *)
(* sees Serving for ever while the tip reads fail.                          *)
HealthFollowsTheTip == []<>(health = "Serving" => tip)

\* How the daemon ends: without an error only when it was asked to or is complete, a stop by a
\* signal alone is no error, and nothing holds the index any more.
DaemonEndsRight == DaemonTypeOK /\ OkMeansAskedOrComplete /\ CleanStopIsClean /\ IndexIsReleased
=============================================================================
