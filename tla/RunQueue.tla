------------------------------ MODULE RunQueue ------------------------------
(***************************************************************************)
(* The run queue of the daemon (internal/daemon/queue): one goroutine owns *)
(* the run table and everything else talks to it through a bounded inbox.  *)
(*                                                                         *)
(*   - callers of Add and Cancel send an event and wait for its reply;     *)
(*   - each admitted run has a goroutine (execute) that drives the         *)
(*     pipeline, reports stages, activity and summaries, and finally sends *)
(*     a done event;                                                       *)
(*   - the loop (Queue.Run) handles one event at a time, and on every tick *)
(*     evicts, admits and publishes;                                       *)
(*   - q.ctx may be cancelled at any moment (the daemon is stopping).      *)
(*                                                                         *)
(* A run is named by the Add call that creates it: utils.NewID never gives *)
(* two calls the same id.  Times are kept as "has it happened" (StartedAt, *)
(* FinishedAt # nil); which finished runs have outlived the retention is   *)
(* left open.  Titles, task texts, patches, branch names and error texts   *)
(* are not told apart.  What is published is PublishedTable's part, and     *)
(* what becomes of it SnapshotFeed's.                                      *)
(***************************************************************************)
EXTENDS Integers, Sequences, FiniteSets

CONSTANTS
    Runs,           \* the Add calls, and the ids of the runs they create
    CancelCalls,    \* the calls of Cancel
    MaxContainers,  \* config.MaxContainers: the runs that may execute at once
    InboxSize,      \* config.InboxSize: capacity of the inbox channel
    RetriesMax,     \* retries.max of a repository: executor/reviewer rounds
    Activities      \* one-line activity texts an agent may report

ASSUME RunQueueAssumption ==
    /\ IsFiniteSet(Runs)
    /\ MaxContainers \in Nat \ {0}
    /\ InboxSize \in Nat \ {0}
    /\ RetriesMax \in Nat \ {0}
    /\ "" \notin Activities

VARIABLES
    loop,       \* where Queue.Run is: "select", "scheduling" or "stopped"
    inbox,      \* the inbox channel, oldest event first
    runs,       \* q.runs: the table; Absent where it has no entry
    cancels,    \* the keys of q.cancels
    tickets,    \* q.queuedRuns
    dirty,      \* q.dirty
    ctxDone,    \* q.ctx is cancelled
    cancelled,  \* runs whose own cancel function was called
    phase,      \* where the run's execute goroutine is
    try,        \* the attempt its pipeline is at
    pushed,     \* runs whose branch is on the remote
    report,     \* the done event the goroutine is about to send
    adder,      \* where each Add call is
    canceller,  \* where each Cancel call is
    target,     \* the run each Cancel call names
    reply       \* what is in each Cancel call's reply channel

loopVars   == <<loop, runs, cancels, tickets, dirty>>
pipeVars   == <<phase, try, pushed, report>>
callerVars == <<adder, canceller, target, reply>>
vars == <<loopVars, inbox, ctxDone, cancelled, pipeVars, callerVars>>

-----------------------------------------------------------------------------
(* Statuses and table entries.                                             *)

Terminal == {"succeeded", "rejected", "failed", "cancelled"}
Running  == {"started", "planning", "coding", "reviewing"}
Statuses == {"none", "queued"} \cup Running \cup Terminal

IsFinilised(s) == s \in Terminal

StatusForStage(stage) ==
    CASE stage = "planner"  -> "planning"
      [] stage = "executor" -> "coding"
      [] stage = "reviewer" -> "reviewing"

Summaries == {"", "plan", "review", "error"}

Entry == [status: Statuses, attempt: 0 .. RetriesMax,
          activity: Activities \cup {""}, summary: Summaries,
          started: BOOLEAN, finished: BOOLEAN]

NewEntry(s) == [status |-> s, attempt |-> 0, activity |-> "", summary |-> "",
                started |-> FALSE, finished |-> FALSE]
Absent == NewEntry("none")

Known(r)  == runs[r].status # "none"
Active(r) == runs[r].started /\ ~IsFinilised(runs[r].status)

\* Mutant of ActiveRuns: a run that reported a stage no longer counts.
JustStartedRuns == {r \in Runs : runs[r].status = "started"}

ActiveRuns  == {r \in Runs : Active(r)}
ActiveCount == Cardinality(ActiveRuns)

\* Mutant of CtxErr: the runner is given q.ctx instead of the run's context.
QueueCtxErr(r) == ctxDone

\* ctx.Err() # nil for a run's context, a child of q.ctx.
CtxErr(r) == ctxDone \/ r \in cancelled

-----------------------------------------------------------------------------
(* Events and the inbox.                                                   *)

Stages   == {"planner", "executor", "reviewer"}
Outcomes == {"accepted", "rejected", "error"}

AddEvents      == [type: {"add"}, run: Runs]
CancelEvents   == [type: {"cancel"}, run: Runs, call: CancelCalls]
StageEvents    == [type: {"stage"}, run: Runs, stage: Stages,
                   attempt: 0 .. RetriesMax]
ActivityEvents == [type: {"activity"}, run: Runs, text: Activities]
SummaryEvents  == [type: {"summary"}, run: Runs, text: {"plan", "review"}]
DoneEvents     == [type: {"done"}, run: Runs, outcome: Outcomes,
                   cancelled: BOOLEAN]

Events == AddEvents \cup CancelEvents \cup StageEvents \cup ActivityEvents
            \cup SummaryEvents \cup DoneEvents

NoReport == [type |-> "none"]

\* Mutant of HasRoom: a channel of one more place than configured.
HasRoomForOneMore == Len(inbox) <= InboxSize

HasRoom == Len(inbox) < InboxSize

\* Mutant of SendOrAbandon: every report is dropped on a full inbox, as
\* StageActivity's are.
SendOrDrop(ev) ==
    IF HasRoom THEN inbox' = Append(inbox, ev) ELSE UNCHANGED inbox

\* One send of Queue.send under q.ctx: the event enters the inbox, or, once
\* q.ctx is cancelled, the send may be abandoned.  With a full inbox and a live
\* context neither is possible and the sender is blocked.
SendOrAbandon(ev) ==
    \/ HasRoom /\ inbox' = Append(inbox, ev)
    \/ ctxDone /\ UNCHANGED inbox

-----------------------------------------------------------------------------
Init ==
    /\ loop = "select"
    /\ inbox = <<>>
    /\ runs = [r \in Runs |-> Absent]
    /\ cancels = {}
    /\ tickets = <<>>
    /\ dirty = FALSE
    /\ ctxDone = FALSE
    /\ cancelled = {}
    /\ phase = [r \in Runs |-> "none"]
    /\ try = [r \in Runs |-> 0]
    /\ pushed = {}
    /\ report = [r \in Runs |-> NoReport]
    /\ adder = [r \in Runs |-> "sending"]
    /\ canceller = [c \in CancelCalls |-> "sending"]
    /\ target \in [CancelCalls -> Runs]
    /\ reply = [c \in CancelCalls |-> "none"]

-----------------------------------------------------------------------------
(* Callers of Add (Service.Run) and Cancel (Service.Cancel).  Add watches   *)
(* q.ctx only; Cancel watches the context of its own request only.  A call  *)
(* whose reply is in its channel has returned.                              *)

AddSend(r) ==
    /\ adder[r] = "sending"
    /\ HasRoom
    /\ inbox' = Append(inbox, [type |-> "add", run |-> r])
    /\ adder' = [adder EXCEPT ![r] = "waiting"]
    /\ UNCHANGED <<loopVars, ctxDone, cancelled, pipeVars,
                   canceller, target, reply>>

\* Both selects of Add give up when q.ctx is done.
AddStopped(r) ==
    /\ ctxDone
    /\ adder[r] \in {"sending", "waiting"}
    /\ adder' = [adder EXCEPT ![r] = "stopped"]
    /\ UNCHANGED <<loopVars, inbox, ctxDone, cancelled, pipeVars,
                   canceller, target, reply>>

CancelSend(c) ==
    /\ canceller[c] = "sending"
    /\ HasRoom
    /\ inbox' = Append(inbox,
                       [type |-> "cancel", run |-> target[c], call |-> c])
    /\ canceller' = [canceller EXCEPT ![c] = "waiting"]
    /\ UNCHANGED <<loopVars, ctxDone, cancelled, pipeVars, adder, target, reply>>

\* The request's context ends: the client went away or timed out.
CancelLeft(c) ==
    /\ canceller[c] \in {"sending", "waiting"} /\ reply[c] = "none"
    /\ canceller' = [canceller EXCEPT ![c] = "left"]
    /\ UNCHANGED <<loopVars, inbox, ctxDone, cancelled, pipeVars,
                   adder, target, reply>>

-----------------------------------------------------------------------------
(* The execute goroutine of run r: runPipeline, then one done event.  Its   *)
(* reporter calls come from the goroutine itself, so they enter the inbox   *)
(* in the order they are made.                                              *)

Phases == {"none", "starting", "planned", "accepted", "declined", "pushed",
           "doomed", "reporting", "ended"} \cup Stages

Working(r) == phase[r] \notin {"none", "reporting", "ended"}

\* StageChange at the start of a stage.  Under a context that is already
\* cancelled the stage's container cannot be created, so it can only fail.
BeginStage(r, stage, attempt) ==
    /\ SendOrAbandon([type |-> "stage", run |-> r, stage |-> stage,
                      attempt |-> attempt])
    /\ phase' = [phase EXCEPT ![r] = IF CtxErr(r) THEN "doomed" ELSE stage]
    /\ try' = [try EXCEPT ![r] = attempt]
    /\ UNCHANGED <<loopVars, ctxDone, cancelled, pushed, report, callerVars>>

BeginPlanner(r)  == phase[r] = "starting" /\ BeginStage(r, "planner", 0)
BeginExecutor(r) ==
    /\ \/ phase[r] = "planned"
       \/ phase[r] = "declined" /\ try[r] < RetriesMax
    /\ BeginStage(r, "executor", try[r] + 1)
BeginReviewer(r) == phase[r] = "executor" /\ BeginStage(r, "reviewer", try[r])

\* The planner or the reviewer succeeded: StageSummary, then on.
EndStage(r, text, next) ==
    /\ SendOrAbandon([type |-> "summary", run |-> r, text |-> text])
    /\ phase' = [phase EXCEPT ![r] = next]
    /\ UNCHANGED <<loopVars, ctxDone, cancelled, try, pushed, report, callerVars>>

EndPlanner(r)  == phase[r] = "planner" /\ EndStage(r, "plan", "planned")
EndReviewer(r) ==
    /\ phase[r] = "reviewer"
    /\ \E decision \in {"accepted", "declined"} : EndStage(r, "review", decision)

\* StageActivity while a stage's container logs: dropped when the inbox is full.
ReportActivity(r) ==
    /\ phase[r] \in Stages
    /\ HasRoom
    /\ \E text \in Activities :
         inbox' = Append(inbox, [type |-> "activity", run |-> r, text |-> text])
    /\ UNCHANGED <<loopVars, ctxDone, cancelled, pipeVars, callerVars>>

\* Workspace.Publish pushes the branch; git is not started under a dead context.
PushBranch(r) ==
    /\ phase[r] = "accepted"
    /\ ~CtxErr(r)
    /\ pushed' = pushed \cup {r}
    /\ phase' = [phase EXCEPT ![r] = "pushed"]
    /\ UNCHANGED <<loopVars, inbox, ctxDone, cancelled, try, report, callerVars>>

\* Mutant of MayReturn: the loop over attempts ends at the first rejection.
MayReturnEarly(r, outcome) ==
    \/ outcome = "error"    /\ Working(r) /\ phase[r] # "declined"
    \/ outcome = "accepted" /\ phase[r] = "pushed"
    \/ outcome = "rejected" /\ phase[r] = "declined"

\* What the runner may return from where it is.  A push that landed may still
\* be reported as an error, when git is killed after the remote took the branch.
MayReturn(r, outcome) ==
    \/ outcome = "error"    /\ Working(r) /\ phase[r] # "declined"
    \/ outcome = "accepted" /\ phase[r] = "pushed"
    \/ outcome = "rejected" /\ phase[r] = "declined" /\ try[r] = RetriesMax

\* The runner returns and execute evaluates ctx.Err() for the done event.
RunnerReturn(r) ==
    /\ \E outcome \in Outcomes :
         /\ MayReturn(r, outcome)
         /\ report' = [report EXCEPT ![r] =
                         [type |-> "done", run |-> r, outcome |-> outcome,
                          cancelled |-> CtxErr(r)]]
    /\ phase' = [phase EXCEPT ![r] = "reporting"]
    /\ UNCHANGED <<loopVars, inbox, ctxDone, cancelled, try, pushed, callerVars>>

SendDone(r) ==
    /\ phase[r] = "reporting"
    /\ SendOrAbandon(report[r])
    /\ phase' = [phase EXCEPT ![r] = "ended"]
    /\ report' = [report EXCEPT ![r] = NoReport]
    /\ UNCHANGED <<loopVars, ctxDone, cancelled, try, pushed, callerVars>>

-----------------------------------------------------------------------------
(* The loop handles the event at the head of the inbox.                     *)

Receive(type) ==
    /\ loop = "select"
    /\ inbox # <<>>
    /\ Head(inbox).type = type
    /\ inbox' = Tail(inbox)

Change(r, entry) == runs' = [runs EXCEPT ![r] = entry]

HandleAdd ==
    /\ Receive("add")
    /\ LET r == Head(inbox).run IN
         /\ Change(r, NewEntry("queued")) /\ dirty' = TRUE
         /\ cancels' = cancels \cup {r}
         /\ tickets' = Append(tickets, r)
         /\ adder' = [adder EXCEPT
                        ![r] = IF @ = "waiting" THEN "added" ELSE @]
    /\ UNCHANGED <<loop, ctxDone, cancelled, pipeVars,
                   canceller, target, reply>>

\* The status a done event gives its run.  Cancellation comes first.
DoneStatus(outcome, isCancelled) ==
    CASE isCancelled -> "cancelled"
      [] ~isCancelled /\ outcome = "error"    -> "failed"
      [] ~isCancelled /\ outcome = "accepted" -> "succeeded"
      [] ~isCancelled /\ outcome = "rejected" -> "rejected"

\* Mutant of DoneEntry: the error is looked at before the cancellation.
DoneEntryErrorFirst(e, outcome, isCancelled) ==
    [e EXCEPT !.finished = TRUE,
              !.activity = "",
              !.status   = IF outcome = "error" THEN "failed"
                                               ELSE DoneStatus(outcome, isCancelled)]

\* What done writes into a run's entry.
DoneEntry(e, outcome, isCancelled) ==
    [e EXCEPT !.finished = TRUE,
              !.activity = "",
              !.status   = DoneStatus(outcome, isCancelled),
              !.summary  = IF ~isCancelled /\ outcome = "error" THEN "error" ELSE @]

\* Mutant of Done: the cancel function is called but stays in q.cancels.
DoneKeepsCancel(r, outcome, isCancelled) ==
    /\ Change(r, DoneEntry(runs[r], outcome, isCancelled))
    /\ cancelled' = cancelled \cup ({r} \cap cancels)
    /\ dirty' = TRUE
    /\ UNCHANGED cancels

\* Queue.done: retire a run the table has an entry for, call its cancel function
\* and forget it.
Done(r, outcome, isCancelled) ==
    /\ Change(r, DoneEntry(runs[r], outcome, isCancelled))
    /\ cancelled' = cancelled \cup ({r} \cap cancels)
    /\ cancels' = cancels \ {r}
    /\ dirty' = TRUE

\* Mutant of Retires: cancelling a running run retires it at once.
RetiresAtOnce(r) == TRUE

\* Whether cancelling run r retires it now; a started one is left to its goroutine.
Retires(r) == ~runs[r].started

\* Mutant of Answer: the early return for a finished run forgets its reply.
AnswerUnlessFinished(c, answer) ==
    reply' = IF answer = "finished" THEN reply
                                    ELSE [reply EXCEPT ![c] = answer]

Answer(c, answer) == reply' = [reply EXCEPT ![c] = answer]

CancelRefused(r, c) ==
    /\ \/ ~Known(r) /\ Answer(c, "notFound")
       \/ Known(r) /\ IsFinilised(runs[r].status) /\ Answer(c, "finished")
    /\ UNCHANGED <<runs, cancels, dirty, cancelled>>

CancelAccepted(r, c) ==
    /\ Known(r) /\ ~IsFinilised(runs[r].status)
    /\ Answer(c, "ok")
    /\ \/ Retires(r) /\ Done(r, "error", TRUE)
       \/ /\ ~Retires(r)
          /\ cancelled' = cancelled \cup ({r} \cap cancels)
          /\ UNCHANGED <<runs, cancels, dirty>>

HandleCancel ==
    /\ Receive("cancel")
    /\ \/ CancelRefused(Head(inbox).run, Head(inbox).call)
       \/ CancelAccepted(Head(inbox).run, Head(inbox).call)
    /\ UNCHANGED <<loop, tickets, ctxDone, pipeVars, adder, canceller, target>>

HandleStage ==
    /\ Receive("stage")
    /\ LET ev == Head(inbox)
           r  == ev.run
       IN  IF Known(r)
           THEN /\ Change(r, [runs[r] EXCEPT
                                !.status   = StatusForStage(ev.stage),
                                !.attempt  = IF ev.attempt > 0 THEN ev.attempt ELSE @,
                                !.activity = ""])
                /\ dirty' = TRUE
           ELSE UNCHANGED <<runs, dirty>>
    /\ UNCHANGED <<loop, cancels, tickets, ctxDone,
                   cancelled, pipeVars, callerVars>>

HandleActivity ==
    /\ Receive("activity")
    /\ LET ev == Head(inbox)
           r  == ev.run
       IN  IF Known(r) /\ ~IsFinilised(runs[r].status)
                       /\ runs[r].activity # ev.text
           THEN Change(r, [runs[r] EXCEPT !.activity = ev.text]) /\ dirty' = TRUE
           ELSE UNCHANGED <<runs, dirty>>
    /\ UNCHANGED <<loop, cancels, tickets, ctxDone,
                   cancelled, pipeVars, callerVars>>

\* Mutant of HandleSummary: it forgets q.dirty.
HandleSummaryUnseen ==
    /\ Receive("summary")
    /\ LET ev == Head(inbox)
           r  == ev.run
       IN  IF Known(r) /\ runs[r].summary # ev.text
           THEN Change(r, [runs[r] EXCEPT !.summary = ev.text])
           ELSE UNCHANGED runs
    /\ UNCHANGED <<loop, cancels, tickets, dirty, ctxDone,
                   cancelled, pipeVars, callerVars>>

HandleSummary ==
    /\ Receive("summary")
    /\ LET ev == Head(inbox)
           r  == ev.run
       IN  IF Known(r) /\ runs[r].summary # ev.text
           THEN Change(r, [runs[r] EXCEPT !.summary = ev.text]) /\ dirty' = TRUE
           ELSE UNCHANGED <<runs, dirty>>
    /\ UNCHANGED <<loop, cancels, tickets, ctxDone,
                   cancelled, pipeVars, callerVars>>

HandleDone ==
    /\ Receive("done")
    /\ LET ev == Head(inbox)
           r  == ev.run
       IN  IF Known(r)
           THEN Done(r, ev.outcome, ev.cancelled)
           ELSE UNCHANGED <<runs, cancels, dirty, cancelled>>
    /\ UNCHANGED <<loop, tickets, ctxDone, pipeVars, callerVars>>

-----------------------------------------------------------------------------
(* The tick: evict, then admit one ticket at a time, then publish.          *)

FinishedRuns == {r \in Runs : runs[r].finished}

\* ticker.C fires: the runs finished for longer than the retention go.
TickEvict(expired) ==
    /\ loop = "select"
    /\ expired \subseteq FinishedRuns
    /\ loop' = "scheduling"
    /\ runs' = [r \in Runs |-> IF r \in expired THEN Absent ELSE runs[r]]
    /\ dirty' = (dirty \/ expired # {})
    /\ UNCHANGED <<inbox, cancels, tickets, ctxDone, cancelled,
                   pipeVars, callerVars>>

MoreToSchedule == tickets # <<>> /\ ActiveCount < MaxContainers

\* A ticket whose run was retired while it waited is dropped.
ScheduleSkip ==
    /\ loop = "scheduling" /\ MoreToSchedule
    /\ LET r == Head(tickets) IN ~Known(r) \/ IsFinilised(runs[r].status)
    /\ tickets' = Tail(tickets)
    /\ UNCHANGED <<loop, inbox, runs, cancels, dirty, ctxDone, cancelled,
                   pipeVars, callerVars>>

\* A ticket whose context is cancelled retires its run without starting it.
ScheduleRetire ==
    /\ loop = "scheduling" /\ MoreToSchedule
    /\ LET r == Head(tickets) IN
         /\ Known(r) /\ ~IsFinilised(runs[r].status)
         /\ CtxErr(r)
         /\ Done(r, "error", TRUE)
    /\ tickets' = Tail(tickets)
    /\ UNCHANGED <<loop, inbox, ctxDone, pipeVars, callerVars>>

ScheduleStart ==
    /\ loop = "scheduling" /\ MoreToSchedule
    /\ LET r == Head(tickets) IN
         /\ Known(r) /\ ~IsFinilised(runs[r].status)
         /\ ~CtxErr(r)
         /\ Change(r, [runs[r] EXCEPT !.status = "started", !.started = TRUE])
         /\ dirty' = TRUE
         /\ phase' = [phase EXCEPT ![r] = "starting"]
    /\ tickets' = Tail(tickets)
    /\ UNCHANGED <<loop, inbox, cancels, ctxDone, cancelled,
                   try, pushed, report, callerVars>>

\* No slot or no ticket left: publish if anything changed, back to the select.
TickPublish ==
    /\ loop = "scheduling" /\ ~MoreToSchedule
    /\ loop' = "select"
    /\ dirty' = FALSE
    /\ UNCHANGED <<inbox, runs, cancels, tickets, ctxDone, cancelled,
                   pipeVars, callerVars>>

LoopStop ==
    /\ loop = "select"
    /\ ctxDone
    /\ loop' = "stopped"
    /\ UNCHANGED <<inbox, runs, cancels, tickets, dirty, ctxDone, cancelled,
                   pipeVars, callerVars>>

-----------------------------------------------------------------------------
(* The environment.                                                         *)

\* SIGTERM or an interrupt: RunServer's context, the parent of every other.
Shutdown ==
    /\ ~ctxDone
    /\ ctxDone' = TRUE
    /\ UNCHANGED <<loopVars, inbox, cancelled, pipeVars, callerVars>>

\* After a shutdown everything may come to rest.
Terminated ==
    /\ loop = "stopped"
    /\ \A r \in Runs : phase[r] \in {"none", "ended"}
    /\ \A r \in Runs : adder[r] \in {"added", "stopped"}
    /\ \A c \in CancelCalls : canceller[c] = "left" \/ reply[c] # "none"
    /\ UNCHANGED vars

-----------------------------------------------------------------------------
CallerNext ==
    \/ \E r \in Runs : AddSend(r) \/ AddStopped(r)
    \/ \E c \in CancelCalls : CancelSend(c) \/ CancelLeft(c)

PipelineNext ==
    \E r \in Runs :
        \/ BeginPlanner(r) \/ BeginExecutor(r) \/ BeginReviewer(r)
        \/ EndPlanner(r) \/ EndReviewer(r) \/ ReportActivity(r)
        \/ PushBranch(r) \/ RunnerReturn(r) \/ SendDone(r)

Handle ==
    \/ HandleAdd \/ HandleCancel \/ HandleStage
    \/ HandleActivity \/ HandleSummary \/ HandleDone

LoopNext ==
    \/ Handle \/ (\E S \in SUBSET FinishedRuns : TickEvict(S)) \/ ScheduleSkip \/ ScheduleRetire
    \/ ScheduleStart \/ TickPublish \/ LoopStop

Next ==
    \/ CallerNext \/ PipelineNext \/ LoopNext
    \/ Shutdown
    \/ Terminated

Spec == Init /\ [][Next]_vars

\* Fairness, with the code that justifies it:
\*   - the loop's select picks at random among what is ready, so neither events,
\*     nor ticks, nor q.ctx.Done starve; a tick's steps follow each other;
\*   - the retention of a finished run ends, and a tick comes after that;
\*   - a blocked sender waits in the channel's FIFO queue, so it gets a place if
\*     places become free again and again;
\*   - the pipeline moves: stages end by their container's timeout, git diff and the
\*     publish by theirs; git clone and rev-parse have none and are taken to end;
\*   - nothing makes a client leave, a run be cancelled, or the daemon stop.
PipelineStep(r) ==
    \/ BeginPlanner(r) \/ BeginExecutor(r) \/ BeginReviewer(r) \/ EndPlanner(r)
    \/ EndReviewer(r) \/ PushBranch(r) \/ RunnerReturn(r) \/ SendDone(r)

Fairness ==
    /\ SF_vars(Handle)
    /\ SF_vars(LoopStop)
    /\ SF_vars(\E S \in SUBSET FinishedRuns : TickEvict(S))
    /\ WF_vars(ScheduleSkip \/ ScheduleRetire \/ ScheduleStart \/ TickPublish)
    /\ \A r \in Runs :
         /\ SF_vars(\E S \in SUBSET FinishedRuns : r \in S /\ TickEvict(S))
         /\ SF_vars(AddSend(r))
         /\ WF_vars(AddStopped(r))
         /\ SF_vars(PipelineStep(r))
    /\ \A c \in CancelCalls : SF_vars(CancelSend(c))

FairSpec == Spec /\ Fairness

-----------------------------------------------------------------------------
(* Properties.                                                              *)

TypeOK ==
    /\ loop \in {"select", "scheduling", "stopped"}
    /\ inbox \in Seq(Events)
    /\ Len(inbox) <= InboxSize
    /\ runs \in [Runs -> Entry]
    /\ cancels \subseteq Runs
    /\ tickets \in Seq(Runs)
    /\ dirty \in BOOLEAN
    /\ ctxDone \in BOOLEAN
    /\ cancelled \subseteq Runs
    /\ phase \in [Runs -> Phases]
    /\ try \in [Runs -> 0 .. RetriesMax]
    /\ pushed \subseteq Runs
    /\ report \in [Runs -> DoneEvents \cup {NoReport}]
    /\ adder \in [Runs -> {"sending", "waiting", "added", "stopped"}]
    /\ canceller \in [CancelCalls -> {"sending", "waiting", "left"}]
    /\ target \in [CancelCalls -> Runs]
    /\ reply \in [CancelCalls -> {"none", "ok", "notFound", "finished"}]


Executing(r) == phase[r] \notin {"none", "ended"}

\* No more than MaxContainers execute goroutines exist at once, whatever the
\* table says: activeCount, which schedule consults, never lags behind them.  Each
\* keeps its run's entry, slot and cancel function: the run is not evicted, retired
\* or restarted under it, and a cancellation reaches its context.
SlotBound ==
    /\ Cardinality({r \in Runs : Executing(r)}) <= MaxContainers
    /\ \A r \in Runs : Executing(r) => Active(r) /\ r \in cancels

\* A cancel function is kept exactly for the runs that have not ended: no context
\* leaks with a retired run and no live run is beyond cancelling.
CancelsAreLive ==
    cancels = {r \in Runs : Known(r) /\ ~IsFinilised(runs[r].status)}

\* What the table says of an ended run is what its pipeline did: success means
\* the branch is on the remote, rejection that every round was used and nothing
\* was pushed, and a run retired before admission never executes.
OutcomeMatchesPipeline ==
    \A r \in Runs :
        /\ runs[r].status = "succeeded" => r \in pushed
        /\ runs[r].status = "rejected"  => r \notin pushed /\ try[r] = RetriesMax
        /\ Known(r) /\ ~runs[r].started => phase[r] = "none"

\* The outcome of an ended run is final: stage and summary events, whose handlers
\* do not look at the status, never arrive after it, nor does a second done.
TerminalFrozen ==
    [][\A r \in Runs : IsFinilised(runs[r].status)
                         => runs'[r] = runs[r] \/ runs'[r] = Absent]_vars


\* The promise of dock cancel (README.md:67): the run whose cancellation was
\* accepted stops where it is.  It does not go on to end as a success.
AcceptedCancelStops ==
    \A c \in CancelCalls :
        reply[c] = "ok" => runs[target[c]].status # "succeeded"

-----------------------------------------------------------------------------
(* Liveness, under FairSpec.                                                *)

\* Every accepted run ends and is forgotten, unless the daemon stops: the bounded
\* inbox and the slots never leave the loop, a pipeline and a caller waiting on one
\* another, and the table does not grow with history.
RunsLeave == \A r \in Runs : Known(r) ~> ~Known(r) \/ ctxDone

\* Every Add returns, and every Cancel call whose client stays gets its answer
\* as long as the daemon runs.
CallsAnswered ==
    /\ \A r \in Runs : <>(adder[r] \in {"added", "stopped"})
    /\ \A c \in CancelCalls :
         <>(reply[c] # "none" \/ canceller[c] = "left" \/ ctxDone)

\* A run that is cancelled while its pipeline works ends as cancelled.
CancelTakesEffect ==
    \A r \in Runs : r \in cancelled /\ Working(r)
                      ~> runs[r].status = "cancelled" \/ ctxDone

-----------------------------------------------------------------------------
(* The queue implements RunLifecycle.  A run waits in front of another if   *)
(* its ticket does; the ticket of a run that was retired counts no more.    *)

Waiting(r) == runs[r].status = "queued"

WaitsBefore(w, r) ==
    /\ Waiting(w) /\ Waiting(r)
    /\ \E i, j \in 1 .. Len(tickets) : i < j /\ tickets[i] = w /\ tickets[j] = r

Lifecycle == INSTANCE RunLifecycle WITH
    Slots   <- MaxContainers,
    ahead   <- [r \in Runs |-> {w \in Runs : WaitsBefore(w, r)}],
    status  <- [r \in Runs |-> runs[r].status],
    attempt <- [r \in Runs |-> runs[r].attempt]

\* Everything RunLifecycle promises a watcher holds of the queue's table.
ImplementsLifecycle == Lifecycle!Spec

=============================================================================
