------------------------------- MODULE Pipeline -------------------------------
(***************************************************************************)
(* One run, as the queue's worker executes it: runPipeline opens the audit *)
(* log and makes sure of the image, Pipeline.Run takes the task through    *)
(* the planner and, until a reviewer accepts or the retries are used up,   *)
(* through executor and reviewer, and publishes what was accepted.  Its    *)
(* deferred calls write the record and remove the temporary directory.     *)
(* The goroutines it waits for, docker.build's and docker.run's, and the   *)
(* cancellation of the run interleave with it; StageContainer has the      *)
(* stage itself.  All of them end with the daemon's process.               *)
(*                                                                         *)
(* A version of the work tree is a number: 0 is the base commit, and an    *)
(* executor's agent makes the next one by editing.  A patch is the version *)
(* it leads to, so the patch of version 0 is empty.                        *)
(***************************************************************************)
EXTENDS StageContainer

CONSTANTS
    RetriesMax,   \* retries.max
    MaxEdits      \* how often agents edit the work tree

ASSUME PipelineAssumption == RetriesMax \in Nat \ {0} /\ MaxEdits \in Nat

VARIABLES
    alive,        \* the daemon's process runs
    pc,           \* where the worker is
    attempt,      \* the loop's counter
    executions,   \* len(history.Executions)
    reviews,      \* len(history.Reviews)
    tree,         \* the version in the work tree
    patch,        \* the last diff computed
    accepted,     \* out.Accepted
    branch,       \* out.Branch and rec.Branch are set
    published,    \* the versions pushed to the repository
    err,          \* an error is returned
    failed,       \* the stage the audit holds responsible
    rawKept,      \* audit.rawKept
    rawFile,      \* failed-output.json is complete
    record,       \* run.json
    tempdir,      \* the temporary directory exists
    builder,      \* where docker.build's goroutine is
    built         \* its result channel

loopVars   == <<attempt, executions, reviews, tree, patch>>
outVars    == <<accepted, branch, published>>
auditVars  == <<failed, rawKept, rawFile, record>>
buildVars  == <<builder, built>>
vars == <<alive, ctxDone, logOk, stageVars, pc, loopVars, outVars, err, auditVars,
          tempdir, buildVars>>

Stages   == {"planner", "executor", "reviewer"}
Ended    == {"refused", "returned"}
NoRecord == [failure |-> "unwritten"]

Init ==
    /\ StageInit
    /\ alive = TRUE
    /\ pc = "setup"
    /\ attempt = 0 /\ executions = 0 /\ reviews = 0 /\ tree = 0 /\ patch = 0
    /\ accepted = FALSE /\ branch = FALSE /\ published = {}
    /\ err = FALSE
    /\ failed = "setup" /\ rawKept = FALSE /\ rawFile = FALSE /\ record = NoRecord
    /\ tempdir = FALSE
    /\ builder = "none" /\ built = Empty

-----------------------------------------------------------------------------
(* runPipeline, up to Pipeline.Run.                                         *)

\* From here on an error ends the run at p.
FailTo(p) == err' = TRUE /\ pc' = p
GoOn(p)   == pc' = p /\ UNCHANGED err

\* No .patchdock, a bad config.yml or no log directory: the run has no log.
Open ==
    /\ pc = "setup"
    /\ GoOn("image") \/ FailTo("refused")
    /\ UNCHANGED <<ctxDone, logOk, stageVars, loopVars, outVars, auditVars, tempdir,
                   buildVars>>

\* The image is there, or there is a Dockerfile to build it from, or neither.
Image ==
    /\ pc = "image"
    /\ \/ ~ctxDone /\ GoOn("credentials") /\ UNCHANGED builder
       \/ ~ctxDone /\ GoOn("building") /\ builder' = "running"
       \/ FailTo("returned") /\ UNCHANGED builder
    /\ UNCHANGED <<ctxDone, logOk, stageVars, loopVars, outVars, auditVars, tempdir,
                   built>>

\* docker.build's goroutine has a line for its unbuffered channel; unlike
\* docker.run's it does not watch the context while it waits for a reader.
BuildLine ==
    /\ builder = "running"
    /\ builder' = "sending"
    /\ UNCHANGED <<ctxDone, logOk, stageVars, pc, loopVars, outVars, err, auditVars,
                   tempdir, built>>

\* It ends: the result is sent, then both channels are closed.
BuildEnds ==
    /\ builder = "running"
    /\ builder' = "ended"
    /\ built' \in {"success", "error"}
    /\ UNCHANGED <<ctxDone, logOk, stageVars, pc, loopVars, outVars, err, auditVars,
                   tempdir>>

\* buildImage copies a line into the audit log; if that fails, nobody reads the
\* channel any more.
BuildRead ==
    /\ pc = "building" /\ builder = "sending"
    /\ builder' = "running"
    /\ \/ LogWritten /\ UNCHANGED <<pc, err>>
       \/ LogFails /\ FailTo("returned")
    /\ UNCHANGED <<ctxDone, stageVars, loopVars, outVars, auditVars, tempdir, built>>

BuildResult ==
    /\ pc = "building" /\ builder = "ended"
    /\ \/ built = "success" /\ GoOn("credentials")
       \/ built = "error" /\ FailTo("returned")
    /\ UNCHANGED <<ctxDone, logOk, stageVars, loopVars, outVars, auditVars, tempdir,
                   buildVars>>

Credentials ==
    /\ pc = "credentials"
    /\ GoOn("tempdir") \/ FailTo("returned")
    /\ UNCHANGED <<ctxDone, logOk, stageVars, loopVars, outVars, auditVars, tempdir,
                   buildVars>>

-----------------------------------------------------------------------------
(* Pipeline.Run.                                                            *)

\* The stage s of the run begins: StageChange, then runStage.
Begin(s) == pc' = s /\ StartStage

\* The stage s has returned v.
StageReturned(s, v) == pc = s /\ reader = "returned" /\ verdict = v

\* newTemporaryDir, the deferred calls, the planner.
TempDir ==
    /\ pc = "tempdir"
    /\ \/ tempdir' = TRUE /\ Begin("planner") /\ UNCHANGED err
       \/ FailTo("returned") /\ UNCHANGED <<tempdir, stageVars>>
    /\ UNCHANGED <<ctxDone, logOk, loopVars, outVars, auditVars, buildVars>>

\* audit.Failed without an output to keep, and the error.
Fails(s) ==
    /\ failed' = s /\ FailTo("finish")
    /\ UNCHANGED <<logOk, rawKept, rawFile, record>>

\* The output that broke its contract is archived, or cannot be.
KeepRaw ==
    \/ rawKept' = TRUE /\ rawFile' = TRUE /\ UNCHANGED logOk
    \/ UNCHANGED <<rawKept, rawFile>> /\ logOk' = FALSE

\* A stage ends in an error: so does the run.
StageFailed ==
    /\ \E s \in Stages :
         \/ StageReturned(s, "error") /\ Fails(s)
         \/ /\ StageReturned(s, "raw")
            /\ failed' = s /\ FailTo("finish")
            /\ KeepRaw /\ UNCHANGED record
    /\ UNCHANGED <<ctxDone, stageVars, loopVars, outVars, tempdir, buildVars>>

PlannerReturns ==
    /\ StageReturned("planner", "ok")
    /\ GoOn("clone")
    /\ UNCHANGED <<ctxDone, logOk, stageVars, loopVars, outVars, auditVars, tempdir,
                   buildVars>>

\* NewWorkspace, which nothing can cancel, and the loop's first executor.
Clone ==
    /\ pc = "clone"
    /\ \/ attempt' = 1 /\ Begin("executor") /\ UNCHANGED err
       \/ FailTo("finish") /\ UNCHANGED <<attempt, stageVars>>
    /\ UNCHANGED <<ctxDone, logOk, executions, reviews, tree, patch, outVars, auditVars,
                   tempdir, buildVars>>

ExecutorReturns ==
    /\ StageReturned("executor", "ok")
    /\ executions' = executions + 1
    /\ GoOn("diff")
    /\ UNCHANGED <<ctxDone, logOk, stageVars, attempt, reviews, tree, patch, outVars,
                   auditVars, tempdir, buildVars>>

\* Workspace.Diff; the reviewer gets the patch.
Diff ==
    /\ pc = "diff"
    /\ \/ /\ ~ctxDone
          /\ patch' = tree /\ Begin("reviewer")
          /\ UNCHANGED <<err, auditVars, logOk>>
       \/ Fails("executor") /\ UNCHANGED <<patch, stageVars>>
    /\ UNCHANGED <<ctxDone, attempt, executions, reviews, tree, outVars, tempdir,
                   buildVars>>

\* Mutant of ReviewerReturns: only a review that accepts is added to the history.
ReviewerForgets ==
    /\ StageReturned("reviewer", "ok")
    /\ \/ /\ accepted' = TRUE /\ GoOn("publish")
          /\ reviews' = reviews + 1
          /\ UNCHANGED <<attempt, stageVars>>
       \/ /\ attempt < RetriesMax
          /\ attempt' = attempt + 1 /\ Begin("executor")
          /\ UNCHANGED <<reviews, accepted, err>>
       \/ /\ attempt = RetriesMax
          /\ GoOn("finish") /\ UNCHANGED <<reviews, attempt, accepted, stageVars>>
    /\ UNCHANGED <<ctxDone, logOk, executions, tree, patch, branch, published, auditVars,
                   tempdir, buildVars>>

\* Mutant of ReviewerReturns: the loop's condition is off by one.
ReviewerOnceMore ==
    /\ StageReturned("reviewer", "ok")
    /\ reviews' = reviews + 1
    /\ \/ /\ accepted' = TRUE /\ GoOn("publish")
          /\ UNCHANGED <<attempt, stageVars>>
       \/ /\ attempt <= RetriesMax
          /\ attempt' = attempt + 1 /\ Begin("executor")
          /\ UNCHANGED <<accepted, err>>
       \/ /\ attempt > RetriesMax
          /\ GoOn("finish") /\ UNCHANGED <<attempt, accepted, stageVars>>
    /\ UNCHANGED <<ctxDone, logOk, executions, tree, patch, branch, published, auditVars,
                   tempdir, buildVars>>

\* The review accepts, or the executor runs again, or the retries are used up.
ReviewerReturns ==
    /\ StageReturned("reviewer", "ok")
    /\ reviews' = reviews + 1
    /\ \/ /\ accepted' = TRUE /\ GoOn("publish")
          /\ UNCHANGED <<attempt, stageVars>>
       \/ /\ attempt < RetriesMax
          /\ attempt' = attempt + 1 /\ Begin("executor")
          /\ UNCHANGED <<accepted, err>>
       \/ /\ attempt = RetriesMax
          /\ GoOn("finish") /\ UNCHANGED <<attempt, accepted, stageVars>>
    /\ UNCHANGED <<ctxDone, logOk, executions, tree, patch, branch, published, auditVars,
                   tempdir, buildVars>>

\* checkout -b, add -A and commit, which fails on an unchanged tree.
Commit ==
    /\ pc = "publish"
    /\ \/ ~ctxDone /\ tree > 0 /\ GoOn("push") /\ UNCHANGED <<auditVars, logOk>>
       \/ Fails("reviewer")
    /\ UNCHANGED <<ctxDone, stageVars, loopVars, outVars, tempdir, buildVars>>

\* Mutant of Push: its error is not returned.
PushUnchecked ==
    /\ pc = "push"
    /\ published' \in {published, published \cup {tree}}
    /\ branch' = TRUE /\ GoOn("finish")
    /\ UNCHANGED <<ctxDone, logOk, stageVars, loopVars, accepted, auditVars, tempdir,
                   buildVars>>

\* git push; what it reports as failed may have arrived.
Push ==
    /\ pc = "push"
    /\ \/ /\ ~ctxDone /\ published' = published \cup {tree}
          /\ branch' = TRUE /\ GoOn("finish") /\ UNCHANGED <<auditVars, logOk>>
       \/ /\ published' = IF ctxDone THEN published ELSE published \cup {tree}
          /\ Fails("reviewer") /\ UNCHANGED branch
       \/ Fails("reviewer") /\ UNCHANGED <<published, branch>>
    /\ UNCHANGED <<ctxDone, stageVars, loopVars, accepted, tempdir, buildVars>>

-----------------------------------------------------------------------------
(* The deferred calls.                                                      *)

RecordWith(failure) ==
    [failure |-> failure, accepted |-> accepted, branch |-> branch, patch |-> patch,
     executions |-> executions, reviews |-> reviews, raw |-> rawKept]

\* Mutant of RunRecord: err is evaluated where Finish is deferred.
RecordEarly == RecordWith("none")

\* auditRun.failed is "setup" until a stage fails.
RunRecord == RecordWith(IF err THEN failed ELSE "none")

\* auditRun.Finish: WriteRun, whose error is only logged.
Finish ==
    /\ pc = "finish"
    /\ pc' = "cleanup"
    /\ \/ record' = RunRecord /\ UNCHANGED logOk
       \/ logOk' = FALSE /\ UNCHANGED record
    /\ UNCHANGED <<ctxDone, stageVars, loopVars, outVars, err, failed, rawKept, rawFile,
                   tempdir, buildVars>>

\* temporaryDir.Cleanup and, in runPipeline, Logger.Close.
Cleanup ==
    /\ pc = "cleanup"
    /\ tempdir' = FALSE
    /\ pc' = "returned"
    /\ UNCHANGED <<ctxDone, logOk, stageVars, loopVars, outVars, err, auditVars,
                   buildVars>>

-----------------------------------------------------------------------------
(* What happens around the worker.                                          *)

\* Mutant of Writers: the reviewer's mount is not read-only.
WritersToo == {"executor", "reviewer"}

\* The stages that have the work tree mounted for writing.
Writers == {"executor"}

\* An agent edits the work tree.
Edit ==
    /\ container = "running" /\ pc \in Writers /\ tree < MaxEdits
    /\ tree' = tree + 1
    /\ UNCHANGED <<ctxDone, logOk, stageVars, pc, attempt, executions, reviews, patch,
                   outVars, err, auditVars, tempdir, buildVars>>

\* Somebody cancels the run, the daemon shuts down, or the run ended and the
\* queue cancels its context.
Cancel ==
    /\ ~ctxDone
    /\ ctxDone' = TRUE
    /\ UNCHANGED <<logOk, stageVars, pc, loopVars, outVars, err, auditVars, tempdir,
                   buildVars>>

-----------------------------------------------------------------------------
runVars == <<pc, loopVars, outVars, err, auditVars, tempdir, buildVars>>

DockerGoes    == DockerStep /\ UNCHANGED runVars
ContainerGoes == ContainerExits /\ UNCHANGED runVars
ClockGoes     == TimesOut /\ UNCHANGED runVars

WorkerStep ==
    \/ Open \/ Image \/ BuildRead \/ BuildResult \/ Credentials \/ TempDir
    \/ StageFailed \/ PlannerReturns \/ Clone \/ ExecutorReturns \/ Diff
    \/ ReviewerReturns \/ Commit \/ Push \/ Finish \/ Cleanup
    \/ ReaderStep /\ UNCHANGED runVars

\* RunServer returns without waiting for its runs, or somebody kills the daemon.
ProcessEnds ==
    /\ alive' = FALSE
    /\ UNCHANGED <<ctxDone, logOk, stageVars, runVars>>

\* The goroutines need the process; a container does not.
Lives == alive /\ UNCHANGED alive

Next ==
    \/ Lives /\ (WorkerStep \/ BuildLine \/ BuildEnds \/ DockerGoes \/ ClockGoes \/ Cancel)
    \/ (ContainerGoes \/ Edit) /\ UNCHANGED alive
    \/ ProcessEnds

Spec == Init /\ [][Next]_vars

\* docker.run's goroutine goes on: every call to Docker returns, and one whose
\* context is dead fails.  A stream need not break otherwise, nor an agent ever
\* end.  A build ends: it does not print for ever.
DockerProgress ==
    /\ DockerCall
    /\ docker = "streaming" => Dead \/ container = "exited"
    /\ UNCHANGED runVars

Fairness ==
    /\ WF_vars(Lives /\ WorkerStep)
    /\ WF_vars(Lives /\ DockerProgress)
    /\ WF_vars(Lives /\ ClockGoes)
    /\ SF_vars(Lives /\ BuildEnds)
    /\ WF_vars(Lives /\ pc \in Ended /\ Cancel)

FairSpec == Spec /\ Fairness

-----------------------------------------------------------------------------
(* Properties.                                                              *)

Records ==
    {NoRecord} \cup
    [failure : {"none", "setup"} \cup Stages, accepted : BOOLEAN, branch : BOOLEAN,
     patch : 0 .. MaxEdits, executions : 0 .. RetriesMax, reviews : 0 .. RetriesMax,
     raw : BOOLEAN]

\* Every variable keeps its type; the loop of Pipeline.Run counts to retries.max.
TypeOK ==
    /\ StageTypeOK
    /\ alive \in BOOLEAN
    /\ pc \in Stages \cup Ended \cup
             {"setup", "image", "building", "credentials", "tempdir", "clone", "diff",
              "publish", "push", "finish", "cleanup"}
    /\ attempt \in 0 .. RetriesMax /\ executions \in 0 .. RetriesMax
    /\ reviews \in 0 .. RetriesMax
    /\ tree \in 0 .. MaxEdits /\ patch \in 0 .. MaxEdits
    /\ accepted \in BOOLEAN /\ branch \in BOOLEAN /\ published \subseteq 0 .. MaxEdits
    /\ err \in BOOLEAN
    /\ failed \in {"setup"} \cup Stages /\ rawKept \in BOOLEAN /\ rawFile \in BOOLEAN
    /\ record \in Records
    /\ tempdir \in BOOLEAN
    /\ builder \in {"none", "running", "sending", "ended"}
    /\ built \in {Empty, "success", "error"}

\* A reviewer gets a history in which only the attempt under review is without a
\* review: RunReviewer's check for an execution cannot fail, and auditAttempts
\* puts each review beside the execution it is about.
HistoryInStep ==
    /\ reviews \in {executions, executions - 1}
    /\ pc = "reviewer" => executions = attempt /\ reviews = attempt - 1
    /\ pc = "executor" => executions = attempt - 1 /\ reviews = attempt - 1

\* What is pushed is the very tree the last reviewer saw the patch of, and that
\* review accepted it: between Diff and Publish, which stages the work tree a
\* second time, nothing writes there.
PublishedIsReviewed ==
    published \subseteq {patch} /\ (published # {} => accepted /\ patch > 0)

\* What runPipeline tells the queue is what happened: an accepted run is on its
\* branch, and a rejected one used every retry.
OutcomeIsTrue ==
    pc = "returned" /\ ~err =>
        IF accepted
        THEN branch /\ published = {patch}
        ELSE published = {} /\ reviews = RetriesMax

\* The record says what the run returned: Finish reads err, the outcome and the
\* history after the function has set them for the last time, and names an
\* archived output only if the archive has it.
RecordIsTrue ==
    record # NoRecord =>
        /\ (record.failure = "none") = ~err
        /\ record.branch = branch
        /\ branch => record.accepted /\ published = {record.patch}
        /\ record.raw => rawFile /\ record.failure \in Stages

\* As long as the daemon lives every run returns: to a worker it is one call, and its
\* slot is free again.
RunReturns == <>(pc \in Ended \/ ~alive)

\* A container whose ID the code has is removed in the end, also if the run was
\* cancelled, the container's time is up or the stage gave up reading its log, unless
\* Docker refuses or the daemon's process ends first.
ContainersRemoved ==
    container \in {"created", "running"} ~> container = "removed" \/ refused \/ ~alive
=============================================================================
