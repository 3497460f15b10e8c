# A verification development of Patchdock

Patchdock (`src/`) runs coding agents: the `dock` command submits a task to a local
daemon over a unix socket, the daemon queues it, drives a planner, an executor and a
reviewer stage in Docker containers, pushes an accepted branch, and streams the state
of all runs to watching terminals. These modules model the daemon's own logic, TLC
checks it on small instances, and TLAPS proves the main invariants for every instance.

## Inventory

| Component (source under `src/`) | State | Operations | What is hard | What makes it correct |
| --- | --- | --- | --- | --- |
| Run queue (`internal/daemon/queue`) | run table, cancel functions, tickets, `dirty`, inbox | Add, Cancel, stage / activity / summary / done events, tick (evict, schedule, publish) | callers, one goroutine per run and the loop interleave; bounded inbox; cancel against completion; daemon stop | at most MaxContainers goroutines, outcomes final and true, every run ends, every change published |
| Pipeline (`internal/pipeline`, `internal/workspace`, `daemon/runner.go`) | attempt, history, audit record, workspace | planner, clone, executor/reviewer rounds, publish | error, cancellation and timeout at every step | order of stages, retry bound, branch pushed if and only if success, a record for every run |
| Snapshot feed (`daemon/broker`, `utils/selects.go`, `service.go`, `router.go`) | last snapshot, subscribers, one-place channels | publish, fan out, follow, unfollow, stream, close | slow readers, late subscribers, close races, two-step replacement in a channel | never an older state after a newer one, the latest state arrives, the producer never blocks |
| Daemon lifecycle (`daemon.go`, `lock`, `connect.go`, `cli/daemon.go`) | lock file and PID, socket file, processes | acquire, listen, serve, shut down, probe, spawn, stop | several processes; the order of socket and lock; waits that time out | one daemon at a time, its socket is never removed by another |
| Stage containers (`internal/stage`, `internal/docker`) | container, log and result channels | run, build, drain, remove | cancellation, a log write that fails, unbuffered channels | a stage over when it returns, container removed, no failed agent believed |
| Audit log (`internal/auditlog`) | per-run directory, `run.json`, event stream | append, write, render | partial failures | one consistent record for a run |
| HTTP client and commands (`daemon/client`, `cli`) | none | submit, cancel, stream | a request that is given up is carried out | an error is reported as what it is |
| Dashboard (`internal/tui`) | last snapshot, cursor, prompt, notes | keys, snapshots, answers, quit | a snapshot arrives while a run is selected; the stream ends while the program quits | the key acts on the run the user sees, every request is answered, the terminal is given back |
| Contracts (`internal/types`, `sdk/src/types.ts`) | none | decode, validate, encode, parse | two implementations of one contract in two languages | each reads what the other accepted |
| Configuration and credentials | none | load, default, validate | ranges | every later use is in range |
| Agent SDK (`src/sdk`) | codex process | read input, run agent, answer | `error` and `close` of a process come in any order | one answer, and none of a process that failed |
| Scaffolding, entry points | none | create files, parse flags | none | not modelled |

How they interact: the router calls the service, the service calls the queue
(a request and a reply through the inbox) and the broker (Follow); the queue starts one
goroutine for a run, which calls the pipeline, which calls back through the reporter into
the inbox; the queue publishes snapshots to the broker through a channel of one place and
the broker to each subscriber likewise; RunServer's context is the parent of the queue's,
the broker's and of every run's.

The hazards are listed, each at its line, in `PROJECT.json`.

## Plan

1. `RunQueue` (core), with `RunLifecycle`, what a watcher is promised, which it implements.
2. `RunQueue_proofs`: type correctness, the slot bound, finality of outcomes.
   `RunLifecycle_proofs`: what the outcome says is true, and RunQueue implements RunLifecycle.
3. `SnapshotFeed` (SendLatest in two steps, broker, service goroutine, stream handler)
   with an abstract feed, `LatestFeed`: what a watcher sees only moves forward and reaches the
   latest state. `SnapshotFeed_proofs`: the safety half of that for every instance.

4. `DaemonLifecycle`: lock, socket, spawn, stop, several processes, with its proofs.
5. `StageContainer` (runStage and docker.run's goroutine) and `Pipeline`, which extends it
   with the rest of a run: error paths, audit record, the build. `Pipeline_proofs`.

6. `Dashboard`: a `dock` terminal with the client it talks through, and `Dashboard_proofs`.
7. `StageExchange`: what the host and the runtime in a container write and read for each
   other, and `StageExchange_proofs`.

These seven are done. Still to come, in this order:

8. A proof that `Pipeline` implements what `RunQueue` takes its goroutine to do (order of
   stages, a branch if it returns without an error and accepted).
9. In `Pipeline`, that every run leaves a record (a run that fails before `Pipeline.Run`
   returns without one, runner.go:52), and the lines of a log apart from each other (a line
   `null` is decoded into an event without a type, events.go:46).

RunQueue will not be composed state by state with the feed: the queue is the feed's
producer, and all the feed relies on is that the snapshot published last is the table
unless a publish is due (`WatchersSeeTable` of `PublishedTable`) and that each tick publishes.

## RunQueue

A run is named by the `Add` call that creates it (ids are fresh). Variables correspond to
the code like this: `inbox` is the channel; `runs`, `cancels`, `tickets`, `dirty` are the
fields of `Queue`; `cancelled` and `ctxDone` are the contexts; `phase`, `try`, `pushed`,
`report` are where each `execute` goroutine is; `adder`, `canceller`, `target`, `reply` are
the callers and their reply channels; `loop` is where `Queue.Run` is.

* One action per event handler (`HandleAdd` ... `HandleDone`), each the whole handler.
* A tick is `TickEvict`, then one `Schedule...` step per ticket, then `TickPublish`. The loop
  does nothing else in between, but the other goroutines do (a run just started may already
  report, the context may end between two tickets).
* The goroutine follows `Pipeline.Run`: `BeginPlanner`, `EndPlanner`, `BeginExecutor`,
  `BeginReviewer`, `EndReviewer`, `PushBranch`, `RunnerReturn`, `SendDone`; it may return an
  error from anywhere but between a rejection and the next round. A stage begun under a dead
  context can only fail (`doomed`), because its container cannot be created.
* `StageActivity` on a full inbox is dropped: that is no step at all.
* A call whose reply is in its channel counts as returned.
* Kept out: titles, task texts, patches, branch names, error texts, StageStartedAt, clock
  times. Which finished runs are past the retention is any subset, chosen by each tick.
  `Run.Clone` and the snapshot channel belong to the feed.

`PublishedTable` adds what the loop has published: `shown` is the table of the last snapshot,
replaced at the end of a tick if a handler or the tick has set `q.dirty`. Each handler of
`RunQueue` sets `dirty` in its own words, as the seven places of the code do, so one that forgets
it leaves watchers behind. `WatchersSeeTable` says they are behind only while `dirty` is set, and
that no snapshot shows a run that waits while a slot is free: a cancellation or a done event frees
a slot in the middle of an interval, and the tick admits before it publishes.

`RunLifecycle` has no inbox, contexts, ticks or goroutines: who waits in front of whom, a
status and an attempt for each run. The mapping takes the line from the tickets of the runs that
wait (`WaitsBefore`); those of runs retired while waiting drop out. The line is a relation and
not a sequence because the sequence would be `SelectSeq` of the tickets, a recursive definition
of which the provers can show nothing.

### Runs

| Run | Instance | Shows |
| --- | --- | --- |
| `runqueue` | 3 runs, 1 cancel, 1 slot, inbox 1, 1 attempt | type, slot bound, agreement of table, goroutines and cancel functions, finality of outcomes, watchers up to date; RunQueue implements RunLifecycle: first in, first started, even when a run in the middle of the line is cancelled |
| `runqueue_progress` | 2 runs, 1 slot, inbox 1, 1 attempt | every accepted run ends and leaves the table (`RunsLeave`) |
| `runqueue_calls` | 1 run, 1 cancel, inbox 2, 2 attempts, 1 activity text | the outcome is what the pipeline did, calls are answered, a cancellation in time takes effect |
| `runqueue_cancel_race` | 2 runs, 1 cancel | a finding: a cancellation may be accepted and have no effect |

The only bounds are the sets of runs and calls: everything else (inbox, attempts, texts) is
bounded in the code too. Two runs suffice for a slot to be contended and a ticket to go
stale, three for the order of the line; an inbox of one or two places is full most of the
time, which is when senders block and activity is dropped. What one run's pipeline does is
told apart by its attempts and not by other runs, so retries and activity are checked with one
run. `runqueue` explores `PublishedTable` under the view `LastShown`, which leaves `shown` out of
a state while `dirty` is set: no step depends on it then and the next publish replaces it, and what
`WatchersSeeTable` says of it was checked when it was published. Everything `runqueue` checks and `OutcomeMatchesPipeline` are also proved, so they hold for
more runs, slots, attempts and activity texts too.

### Fairness

Go's `select` picks at random among what is ready, so an event, a tick and the end of the
context do not starve (strong fairness: the loop leaves the select in between). A blocked
sender waits in the channel's FIFO queue (strong fairness of each send). A pipeline's steps
happen because a container has a timeout (ten minutes unless the configuration removes it)
and `git diff` and the publish have theirs (20 s and 60 s). `git clone` and `git rev-parse` have
neither a timeout nor a context: that they end is assumed. Nothing makes a client leave, a run be cancelled or the daemon stop.

### Proofs

`RunQueue_proofs` proves `TypeOK`, `SlotBound`, `CancelsAreLive` and `TerminalFrozen`
of `Spec`, for every finite set of runs, every set of
cancel calls and activity texts, and all sizes, assuming `RunQueueAssumption` only (the
bounds are positive and the empty activity is not a text).

`TypeOK` is not inductive alone. `TypeInv` adds that the pipeline is at attempt 0 until its
first executor stage, so the attempt number stays in range, and that a goroutine about to
report holds a well-formed done event.

The other properties relate the table to goroutines the loop cannot see; between the two
stands the inbox, so the invariant has to say what may still be in it. `IndInv` adds to
`TypeInv`:

* `ReportsLive`, `DoneIsLast`: a stage, activity, summary or done event in the inbox is of an
  active run, and after a run's done event there is none of them, and its goroutine has
  ended. This makes a handler that ignores the status (`stage`, `summary`) harmless.
* `ExecLive`, `ActiveBound`: an executing goroutine's run is active, and the active runs are
  within the slots. Together they are the slot bound.
* `AddsOnce`: the run of an add event that was not handled has left no trace yet; no id is
  added twice.
* `TicketsIdle`, `WaitingIdle`: a ticket is for a run that was never started, no two tickets
  are for one run, and a run that waits does not execute.
* `TableShape`, `CancelsAreLive`: FinishedAt, StartedAt and the status agree, and a cancel
  function is kept for the live runs.

The proof treats each way of using the inbox and the table once: a caller's send
(`IndCallerSend`), a goroutine's report (`IndReport`), an update of an active run
(`IndUpdate`), a retirement (`IndRetire`), taking from the front (`ReportsShrink`,
`TicketsShrink`, `AddsShrink`). Admission, `Add` and eviction have lemmas of their own.
`WhoWrites` says which steps write the table; `TerminalFrozen` follows from it.

`RunLifecycle_proofs` builds on `IndInv`, under the same assumption.

* `OutcomesTrue` proves `OutcomeMatchesPipeline`. An outcome is decided in the runner, and the
  table shows it two hand-overs later. `OutcomeInv` follows it: a branch is pushed at one place of
  the pipeline (`PushedOnce`), what the runner is about to report is true (`ReportsTrue`), so
  is a done event in the inbox (`DoneTrue`), and so is what an ended run's status says
  (`EndingsTrue`). It stays true because the goroutine is over by then and nobody else pushes
  or counts attempts (`DoneTrueKept`).
* `LifecycleImplemented` proves `ImplementsLifecycle`. The hard part is that the abstract run
  passes its stages one by one, while the handler of a stage event writes whatever the event
  says. `CourseInv` gives each stage a rank (the planner 1, the executor and the reviewer of
  attempt a 2a and 2a + 1). The stage events under way for an active run are then exactly the
  ranks between what the table shows and some m, without a gap (`Reaches`), in this order
  (`StagesOrdered`), and m is where the goroutine stands as long as it has not failed (`Placed`):
  a stage whose event is given up, the daemon being stopped, is the last of its run. So the
  event at the front is the next rank, and a done event without an error finds the table at the
  reviewer. `WaitingTicketed` (a run that waits has a ticket) gives the order of the line.

`KindOfLoop` sorts the steps of the loop by what they do to the table (a run is added, retired,
started, staged or finished, runs are evicted, or nothing a watcher sees); the invariant has a
`Course...` lemma for each kind and the refinement a `Map...` lemma.

`PublishedTable_proofs` proves `WatchersSeeTable` of `WatchSpec` (`WatchersUpToDate`). `StepsMark`
goes through the handlers and the tick: each sets `dirty`, writes nothing, or is the end of the
tick. That no waiting run is shown beside a free slot needs `WaitingTicketed` (the loop stops
admitting for want of a slot, not of a ticket) and `ActiveBound` (`AdmittedTable`).

Only model-checked: `RunsLeave`, `CallsAnswered` and `CancelTakesEffect`, liveness properties
beyond the prover because they rest on fairness.

## SnapshotFeed

A snapshot travels through three channels and four goroutines. The module follows it:

| Code | State | Actions |
| --- | --- | --- |
| `Queue.publish` and the end of `Queue.Run` | `published`, `queue`, `snaps` | `PublishDrain`, `PublishPut`, `QueueStop` |
| `Broker.Run`, `fanout`, `Close` | `broker`, `current`, `todo`, `setting`, `lastSnap`, `subs`, `closed` | `BrokerTake`, `BrokerStop`, `FanoutBegin`, `FanoutDrain`, `FanoutPut`, `FanoutEnd`, `BrokerClose` |
| the goroutine of `Service.Snapshot`, `Follow`, `Unfollow` | `service`, `held`, `chan`, `chanClosed` | `Follow`, `FollowRefused`, `Receive`, `HandOver`, `ServiceReturn`, `Unfollow`, `CloseStream` |
| `Router.stream` and its client | `handler`, `frame`, `seen`, `errs`, `told`, `left` | `Connect`, `StreamEnds`, `StreamError`, `WriteSnapshot`, `WriteFails`, `Leave` |
| `RunServer` | `ctxDone`, `serving` | `CancelContext`, `StopServing` |

* A snapshot is the number of its publication. What it holds is `RunQueue`'s part.
* `utils.SendLatest` is two steps, the drain and the put, because its two selects are; the
  reader of the channel may act between them.
* `b.mu` is held by `fanout` from `FanoutBegin` to `FanoutEnd`, and `Follow`, `Unfollow` and
  `Close` are one step each outside of that. A subscriber's own mutex is only ever taken under
  `b.mu`, so it excludes nothing more and is left out.
* Each client opens one stream, and its subscriber is named after it (`currID` is never reused).
* A handler's select picks any branch that is ready, also a stale one.

`LatestFeed` knows nothing of channels: versions are published, and a client is shown any
newer one. `ImplementsLatestFeed` maps `latest` to `published`, `shown` to what was written to
the client, and `open` to the streams that are being served.

### Runs

| Run | Instance | Shows |
| --- | --- | --- |
| `snapshotfeed` | 1 client, 3 snapshots | type, no put is lost, the broker serves exactly the open streams on open channels, what a client is shown only moves forward; an open stream shows every snapshot or a later one, also to a client that comes after the last change; a stream's goroutines end with its client or the daemon |
| `snapshotfeed_errors` | 2 clients, 1 snapshot | a finding: a refused client may be sent a plain end of stream |

`MaxVersion` bounds how often the queue publishes, and `Clients` the streams; nothing else is
bounded. Three snapshots are one in the client's hands, one in its channel and one being
published, the deepest the path gets in which a newer one can overtake. Clients meet only at
`b.mu` and in the order of `fanout`. A client's progress depends on another one in nothing
but that lock, which is never held across a blocking call, so one is checked; the safety
properties are proved for any number of clients and snapshots.

### Fairness

Weak fairness of the broker, of each service goroutine, of each handler and of the queue's
put: a goroutine that can go on is scheduled, a Go mutex does not starve a waiter, and a write
to a client ends because it is read or fails. Strong fairness is not needed for the
selects because only so many snapshots are published. A client is not obliged to come or to
leave, nor the daemon to stop, nor the queue to publish.

### The finding

ARCHITECTURE.md:96-97 says that errors after the stream has started are sent in-band as
`event: error` frames. When `Follow` is refused because the broker has closed, the goroutine
leaves the error in `errs`, then closes `errs` and `data` (service.go:77-86). A handler that
reaches its select only now finds the error and the closed `data` ready. If it picks `data`
(router.go:123-126), it returns and the error is dropped: `ErrorsAreSent` is violated, and
the client sees an ordinary end.

### Proofs

`SnapshotFeed_proofs` proves `TypeOK`, `PutsSucceed`, `SubscribersFollow` and
`ImplementsLatestFeed` of `Spec` for every set of clients and every number of snapshots,
assuming `SnapshotFeedAssumption` only (at least one snapshot is published: the queue
publishes once when it starts).

That a client never sees an older state after a newer one is not inductive: it depends on
what is under way. `FeedInv` says that the places on a snapshot's path are strictly ordered at
all times:

* `SourceOrder`: what waits for the broker is newer than what it fans out, and that than
  `lastSnap`.
* `Bounded`: nothing on a client's side is newer than what the broker has given it (`Limit`):
  `lastSnap`, or the present snapshot once `fanout` has served this client.
* `Ordered`: what was written is older than what the handler writes, that than what the
  goroutine holds, that than what is in the channel.
* `Fresh`: before it follows the broker a stream has carried nothing, so that the replay of
  `lastSnap` is in order too.
* `SubscribersFollow` and `PutsSucceed` themselves: without them a put could land on a channel
  of a stream that is gone, or keep an old snapshot in place of a new one.

`FeedSimulates` then goes through the steps: only `PublishDrain` and `WriteSnapshot` change
what `LatestFeed` sees besides streams that open and end. `LatestArrives` and `StreamsEnd`
rest on fairness and stay with TLC.

## DaemonLifecycle

Several processes that share only the lock file, the socket's path and signals:

| Code | State | Actions |
| --- | --- | --- |
| `RunServer` and `lock.Acquire` / `Release` | `phase`, `outcome`, `bound`, `termed`, `containers` | `OpenLock`, `Flock`, `TruncatePid`, `RecordPid`, `RemoveSocket`, `Listen`, `Setup`, `Serve`, `Shutdown`, `ShutdownReturns`, `CloseListener`, `Release`, `Exit`; with a fault: `AcquireFails`, `RemoveFails`, `ListenFails`, `ServerFails`, `Kill` |
| the file lock, its content, the socket's path | `lock`, `recorded`, `socket` | |
| `daemon.Connect` in a command | `client`, `peer` | `Dial`, `Spawn`, `Redial`, `Accept`, `Answer`, `Reset`, `GiveUp` |
| `dock daemon stop`: `lock.Owner`, the signal, `awaitExit` | `stop`, `target` | `Probe`, `Unlock`, `ReadOwner`, `Signal`, `ReadAgain`, `StopTimesOut`; with a fault: `OwnerFails` |
| a stage's container of the daemon | `containers` | `StageBegins`, `StageEnds` |

* `Acquire` is four steps and `Owner` two, because other processes act between them: a
  prober holds the lock for a moment, and a daemon that starts just then is refused.
* `recorded = Absent` before the first daemon of the machine; otherwise an earlier daemon left
  its PID, and its socket unless it stopped cleanly.
* Closing the listener unlinks the path, whatever it leads to by then.
* `Setup` fails if the daemon was already signalled, because the Docker client pings under the
  context that the signal cancels.
* A connection is accepted while `Serve` runs and answered by a goroutine of its own, which only
  the end of the process ends: after a failed `Serve`, and after a shutdown whose timeout ran out,
  a client may still be answered when the lock is already released (`Answer`).
* `awaitExit` returns without an error for every error of `lock.Owner` (cli/daemon.go:134-136), and
  the command prints the same as after an exit it has seen. The model keeps the two apart:
  `stopped` and `assumed`.
* Left out: Ctrl-C (the context of `RunServer` takes it as it takes SIGTERM), `dock daemon status`
  (one health check, as in `Connect`), the reuse of PIDs, clock times: a wait may run out at any
  moment.

### Runs

| Run | Instance | Shows |
| --- | --- | --- |
| `daemon` | 3 daemons, 1 client, 2 stop commands, 1 fault | at most one daemon listens, on a path that leads to it; the file names the holder; a stop that saw its daemon go is right; a client is answered by the holder, or by a daemon that has released the lock and is exiting |
| `daemon_live` | 3 daemons, 1 client, 1 stop command | a client that starts a daemon gets one that serves; a daemon that is signalled ends |
| `daemon_stop` | 2 daemons, 1 stop command | a finding: a stopped daemon leaves the stage's container |

Three daemons are one of an earlier time, one that ends and one that takes its place; two stop
commands probe against each other. `MaxFaults` bounds kills and failing system calls
together: one is enough to leave a stale socket and PID, and the proofs hold for any number.
Deadlock is not checked because everything may be over: all daemons ended, all commands done.

Fairness is weak, for each process: it is scheduled, its shutdown timeout runs out. Nothing
makes a daemon start, a user stop it or a fault happen. `SpawnBringsDaemon` holds only while no
stop is under way, and says so: with one, the daemon a client started may find the lock taken by
the old daemon or the probe, and exit, and `Connect` does not start another.

### The finding

cli/daemon.go:83-84 promises that stopping "lets the running stage finish, removes any
containers it owns and exits". The signal cancels the context that every run descends from, and
`RunServer` waits for the HTTP server but not for the execute goroutines (daemon.go:92-100), so
the process ends before the deferred removal of the container (docker/run.go:102) has to run.

### Proofs

`DaemonLifecycle_proofs` proves `TypeOK`, `ListenerReachable`, `HolderRecorded`,
`StoppedIsGone` and `AnsweredByHolder` for any sets of daemons, clients and stop commands and any
number of faults, assuming that process names are distinct. `LifeInv` strengthens them:

* `HoldersLock`, `ProbesLock`: a daemon past `Flock` and before `Release`, or a stop command in
  its probe, holds the lock, so there is one of them.
* `ListenersBind`: the phases in which a daemon listens are those in which its listener is open.
* `RecordedOnce`: whose PID the file holds went through `RecordPid`.
* `TargetsRegistered`: whom a stop command signals had recorded its PID, so that reading another
  PID, or none, or a free lock later means the target has released.
* `AcceptedServed`: whoever accepted a connection served when it did, so it holds the lock until
  it releases it.
* `FileExists`: nobody is past `OpenLock` while there is no lock file.

`SpawnBringsDaemon` and `SignalledEnds` rest on fairness and stay with TLC.

## StageContainer and Pipeline

`StageContainer` is one stage: the reader (`runStage`) and the goroutine of `docker.run`, with
an unbuffered log channel and a result channel of one place between them, a container that runs
on its own, a timeout and the run's context. `Pipeline` extends it with the worker that runs
stage after stage; the stage's variables serve all of them in turn, which is sound because
a stage only starts after one that returned an output, and that one's goroutine has ended and
its agent with it (`OutputAfterExit`, `StageIsOver`).

| Code | State | Actions |
| --- | --- | --- |
| goroutine of `docker.run` | `docker`, `container`, `refused`, `exit`, `lines`, `result`, `timeUp` | `Create`, `Start`, `Attach`, `NextLine`, `StreamFails`, `StreamEnds`, `Wait`, `Remove`, `Close` |
| `Runner.runStage`, `events.Stream`, `decodeOutput` | `reader`, `verdict`, `logOk` | `StartStage`, `Started`, `ReadLine`, `ReadResult` |
| `runPipeline`, `buildImage`, `docker.build` | `pc`, `builder`, `built`, `err` | `Open`, `Image`, `BuildLine`, `BuildEnds`, `BuildRead`, `BuildResult`, `Credentials` |
| `Pipeline.Run`, `history`, `Workspace` | `attempt`, `executions`, `reviews`, `tree`, `patch`, `accepted`, `branch`, `published`, `tempdir` | `TempDir`, `StageFailed`, `PlannerReturns`, `Clone`, `ExecutorReturns`, `Diff`, `ReviewerReturns`, `Commit`, `Push`, `Cleanup` |
| `auditRun`, `Logger.WriteRun` | `failed`, `rawKept`, `rawFile`, `record` | `StageFailed`, `Finish` |
| the agents, the user | `tree`, `ctxDone` | `Edit`, `ContainerExits`, `Cancel` |
| `RunServer` and the process | `alive` | `ProcessEnds` |

* Every call to Docker, git or the disk may fail at any time, and fails once the context it
  is given is dead. `git clone` is given none: `RunReturns` rests on a clone ending.
* A version of the work tree is a number and a patch is the version it leads to: what the
  properties tell apart is whether what is pushed is what was reviewed.
* A stage's verdict is `ok`, `raw` (an output that breaks its contract) or `error`.
* An output is read in the step in which the result is received: the agent is gone by then.
* `run` defers the removal after a creation that succeeded. One that failed, or that the end of
  the context interrupted, may have created a container whose ID the code never learns: an
  orphan, which was not started and which nothing removes.
* `run` does not look at the answer to the removal either. Docker may refuse it (`refused`), and
  then an agent may go on working after a stage that failed.
* The process may end at any moment, since `RunServer` does not wait for its runs: the goroutines
  stop where they are, the container goes on.
* Left out: mounts and environment (they are `StageExchange`'s), activity texts, the
  reporter's events (they are `RunQueue`'s), the content of prompts and outputs, a panic in the
  worker (see the hazards), and git hooks an executor leaves in the clone, which the commit
  would run after the review: `PublishedIsReviewed` is about what agents write while they run.

### Run

`pipeline` checks one run with two attempts, a line of log for each container, two edits and a
timeout: 188 440 states. A run has no concurrency with other runs but the slots, which are
`RunQueue`'s, so the bounds are those of its loop: with two attempts there is a first
rejection that goes on and a last one that does not. One line is enough to be caught between
writing and reading it. The type invariant, `OutputAfterExit`, `StageIsOver`, `HistoryInStep`,
`PublishedIsReviewed`, `OutcomeIsTrue` and `RecordIsTrue` hold in every state; under fairness the
run returns (`RunReturns`) and containers go (`ContainersRemoved`), both as long as the process
lives. Deadlock is not checked because a run ends.

The code has no property "a stage leaves no container": `StageIsOver` and `ContainersRemoved` name
the cases in which one stays. They are an orphan, a removal Docker refuses, and the end of the
process before the deferred call, which is the finding of `DaemonLifecycleStop`. A stage that
returned an output never leaves an agent at work.

Fairness is weak for the worker and for the goroutine of `docker.run`, whose calls return; its
stream breaks only when its context is dead, and nothing makes an agent end or print. The
timeout comes because the run's configuration has one (`HasTimeout`); with a timeout of 0
an agent may keep its slot for ever. The end of a run cancels its context (`Queue.done`). A build
ends, though it may print in between (strong fairness), because Docker's does. The goroutine of
`docker.build` is not claimed to end: when the audit log cannot be written it waits for a reader
that has left (see the hazards).

### Proofs

`Pipeline_proofs` proves the seven safety properties for any retry limit, any number of lines
and edits, with and without a timeout. The invariant has two halves. `StageInv` ties the place of
the goroutine to the container (`ContainerFollows`), to the result channel (`ResultFollows`) and
to what the reader may have concluded (`VerdictFollows`); the step that matters is
`ReceivesWhatWasSent`, since a channel closed without a result would read as exit code 0.
`RunInv` ties the place of the worker to the loop and its history (`LoopFollows`), to what has
been decided and pushed (`OutcomeFollows`) and to the record (`RecordFollows`: once written it
equals what `Finish` would write now, so nothing it was made from changes afterwards).
`RunReturns` and `ContainersRemoved` stay with TLC.

## Dashboard

One terminal: an event loop that alone holds the model, and goroutines that send it messages.

| Code | State | Actions |
| --- | --- | --- |
| `appModel`, `watchModel`, their `Update` | `view`, `mode`, `selecting`, `cursor`, `cursorID`, `notice` | `TakeSnapshot`, `PromptKey`, `WatchKey`, `CancelKey`, `TakeStreamFailed` |
| `submitCmd`, `cancelCmd`, `Client.do` | `submits`, `cancels` | `SubmitAnswered`, `SubmitTimesOut`, `CancelAnswered` |
| `App` and the program it runs | `app`, `quit` | `ProgramEnds`, `CancelContext`, `AppReturns` |
| the stream's goroutine, `Client.Stream` | `stream`, `streamErr` | `StreamReturns`, `StreamResult`, `TellNobody` |
| the daemon, as a client sees it | `table`, `wire` | `TableChanges`, `Publish`, `ServeRun`, `AddLate`, `ServeCancel` |

* A run is its place in the order of the display, so a new run may appear above an old one,
  which is what moves an index. That snapshots are never out of order is `LatestFeed`'s promise.
* A submission is refused (400) before it reaches the queue, or the queue stops while it is
  under way (500): `Queue.Add` returns when its context ends, also if the loop has taken its
  event, or still takes it from the inbox. `Queue.Add` does not look at the request's context,
  so the run of a request the client has given up may come later too. `AddLate` has both, and
  `NotesAreTrue` leaves a submission `open` that ended in a timeout, a broken connection or such
  a 500; the text of the error tells the user which.
* Whatever the terminal does not act on when the program ends is dropped with the model.
* `killed` stands for whatever the program returns that `Is` `ErrProgramKilled`. `App` makes no
  error of it; bubbletea may wrap a panic or an error of its input in it, which `App` then
  drops as well.
* Left out: drawing, the limit of eight notes, the text of the prompt, the size of a frame, the
  one-shot commands.

### Run

`dashboard` has three runs, one of which this terminal submits, and one request under way at a
time: 622 070 states. The submitted run lies between two others, so that runs appear and end
above and below the cursor. A second request under way meets the first in nothing but
the one notice, of which no promise is made; the proofs hold for any number. All of
`CursorInStep`, `NotesAreTrue`, `ExitTells`, `CursorStays` and `NothingHangs` is checked under the
fair specification. Deadlock is not checked because the terminal ends.

Fairness is weak: a request ends with its timeout, a stream under a cancelled context returns,
the program takes the messages that are sent to it, and `App` and the stream's goroutine are
scheduled. No key is ever pressed for certain and a live stream need not end, so a terminal that
is left alone may run for ever.

### Proofs

`Dashboard_proofs` proves, assuming only that the numbers are numbers:

* `TypeOK`, which needs that the cursor never becomes negative (`AtMostType`: the list is not
  empty when the cursor is set to its last place).
* `CursorStays`: `RunAtIndex` says that the run found at the index of a run is that run, as
  `IndexInjective` leaves no other; so `syncCursor` keeps the run it has looked up.
* `CursorInStep`, inductive with the types once it is known that a list of n runs has one at
  every place below n (`RunAtEvery`). This is not an induction on n: the places are n different
  numbers below n (`IndexBelow`, `IndexInjective`), so none of those is left out.
* `NotesAreTrue`, by `SubmissionFollows`: a request that was answered, and not only one whose
  note is shown, has its run in the table or has none there.
* `ExitTells`, by `ExitFollows`: the stream's error is in its channel before the program is told,
  so a program that quit for the stream has left it for `App`.

`NothingHangs` rests on fairness and stays with TLC.

## StageExchange

Two languages hold the two halves of one contract. The module has the documents that cross
`/io` for all stages of a run; a document is a function from the fields of its stage to what
JSON has there (no field, `null`, another type, an empty or a non-empty string, a name of an
enumeration, a time).

| Code | State | Definitions |
| --- | --- | --- |
| `Service.Run`, `types.NewTask` | `task` | `Tasks`, `NewTask` |
| `decodeOutput`, `types.NewPlan`, `NewExecutionResult`, `NewReview`, `json.MarshalIndent` | `output`, `plan` | `Decodes`, `Decoded`, `Filled`, `Valid`, `Readable`, `Encoded` |
| zod schemas (`sdk/src/types.ts`), `SPECS` | | `TaskFields`, `PlanFields`, `ExecutionFields`, `ReviewFields`, `OutputParses`, `Stripped`, `InputParses` |
| `containerMounts`, `containerEnv`, `parseAttempt` | `claims`, `limited`, `told` | `ContainerSpec` |
| `main` and `runAgent` of the runtime | `image`, `pc` | `ReadInput`, `AgentReturns`, `AgentWrites`, `AgentExits`, `RuntimeDies`, `OwnRuntime` |
| `runCodex`, `stream` (`exec.ts`) | `child`, `ends` | `CodexStarts`, `CodexErrors`, `CodexCloses`, `CodexAnswers` |
| `runStage` and the loop of `Pipeline.Run` | `stage`, `attempt`, `executions`, `reviews`, `fault` | `Refused`, `Accepted` |

* A file that is not a JSON object is a value of its own, and so is no file.
* The time of a plan is filled in by `NewPlan`, since the planner's schema drops whatever an agent
  gives; every later input must have it as a string, and Go encodes a time as one.
* An agent need not let `main` finish: it may call `process.exit`, or wait for what never comes,
  and then the process ends with code 0 and whatever the agent wrote itself (`pc = "left"`).
  Nothing is promised of such an output, but what Go accepts of it goes to the later stages.
* Besides the sdk's runtime an image may hold a program of its own that writes anything: Go is
  the only one to check it, and the sdk's runtime may be given the result in a later stage.
* Errors of Docker and a cancelled run are `StageContainer`'s. Here a container may die at any
  moment.
* Left out: field names in another case, unknown fields, the events codex prints, prompts, agents
  that catch the error of a codex call or go on writing to `/io` after they returned.

### Run

`exchange` checks a run of up to three attempts for all documents, images, credentials and codex
processes: 913 960 states. `RetriesMax` is the only bound, and three attempts give a history of
two. No fairness is stated since only safety is claimed: `ContractsAgree`, `CodexSettlesOnce`,
`AgentsAreTold`. Deadlock is not checked because a run ends.

### Proofs

`StageExchange_proofs` proves the three for every retry limit that is positive. The contract
itself is a fact about documents: `ReadWhenParsed` (Go accepts what zod let out) and
`GoodWhenRead` with `TaskIsRead`, `PlanIsRead`, `ExecutionIsRead` and `ReviewIsRead` (what Go
accepted, encoded, is read by zod). The invariant carries them through a run: `OutputFollows`
(what `main` leaves when it ends well is accepted), `HistoryFollows` (the plan and the histories
are what was accepted), `AttemptFollows` (they have the length of the attempt, and the agent was
told it) and `CodexFollows` (the process and its log go with the place of the stage).

## Not modelled

* The configuration file: decoding it and checking ranges is a pure function of one file. What
  it accepts are the assumptions on the constants; what credentials claim is in `StageExchange`.
* Scaffolding (`dock init`), flags and `main` functions: they create files or call one function,
  and keep no state.
* The rendering of a record and the drawing of the dashboard: layout.
* `dock daemon status`, one health check with nothing after it, and Ctrl-C in a daemon, which
  `RunServer` takes as it takes the SIGTERM of `dock daemon stop`.
* The one-shot commands `dock <prompt>` and `dock cancel`: one request and its answer, which
  `Dashboard` has with a terminal around it.
* Properties the code does not have are not stated. They are listed with the hazards that have
  no property: a branch that was pushed although the run failed, two runs of a user
  who submits again after a timeout, a `git clone` that hangs, the goroutine of a build whose log
  could not be written, a container that was created while its creation was given up.
