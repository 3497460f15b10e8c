---------------------------- MODULE StageContainer ----------------------------
(***************************************************************************)
(* One stage of a run: Runner.runStage and the goroutine of docker.run that *)
(* it starts.  They share an unbuffered channel of log lines and a result  *)
(* channel of one place, which that goroutine closes last of all, after it *)
(* has removed the container.  The container runs on its own, for at most  *)
(* the configured time; the run may be cancelled at any moment, and any    *)
(* call to Docker, to the disk or to the log may fail.                     *)
(*                                                                         *)
(* Which step of a run the stage is, is Pipeline's part.  So is the end of *)
(* the daemon's process, which takes the goroutines with it and leaves the *)
(* container.                                                              *)
(***************************************************************************)
EXTENDS Naturals

CONSTANTS
    MaxLines,    \* the lines a container, or a build, writes
    HasTimeout   \* container.timeout is not 0, which is unlimited

ASSUME StageContainerAssumption == MaxLines \in Nat /\ HasTimeout \in BOOLEAN

VARIABLES
    ctxDone,     \* the run's context is cancelled
    timeUp,      \* the container's timeout has passed
    logOk,       \* no write to the run's log directory has failed
    docker,      \* where the goroutine of docker.run is
    container,   \* what there is of the container
    refused,     \* Docker did not remove it
    exit,        \* how its agent ended
    lines,       \* the lines it has written
    result,      \* what is in the result channel
    reader,      \* where runStage is
    verdict      \* what the stage returned

stageVars == <<timeUp, docker, container, refused, exit, lines, result, reader,
               verdict>>

\* A channel of one place with nothing in it.
Empty == "empty"

\* The context of the container: the run's, with a timeout.
Dead == ctxDone \/ timeUp

StageInit ==
    /\ ctxDone = FALSE /\ logOk = TRUE
    /\ timeUp = FALSE
    /\ docker = "none" /\ container = "none" /\ refused = FALSE
    /\ exit = "none" /\ lines = 0
    /\ result = Empty
    /\ reader = "idle" /\ verdict = "none"

-----------------------------------------------------------------------------
(* The audit log is written to; the writer goes on as it does on success, or *)
(* as it does on an error.                                                  *)
LogWritten == UNCHANGED logOk
LogFails   == logOk' = FALSE

\* runStage makes the exchange directory and starts the container, or fails.
StartStage ==
    /\ reader \in {"idle", "returned"}
    /\ \/ /\ reader' = "starting" /\ docker' = "creating" /\ verdict' = "none"
       \/ /\ reader' = "returned" /\ docker' = "none" /\ verdict' = "error"
    /\ timeUp' = FALSE /\ container' = "none" /\ refused' = FALSE
    /\ exit' = "none" /\ lines' = 0
    /\ result' = Empty

-----------------------------------------------------------------------------
(* docker.run.                                                              *)

Reply(r, next) == result' = r /\ docker' = next

\* A creation that fails, or that the end of the context interrupts, may have
\* created a container, whose ID nobody has: an orphan, never started or removed.
Create ==
    /\ docker = "creating"
    /\ \/ /\ ~Dead /\ container' = "created" /\ docker' = "starting"
          /\ UNCHANGED result
       \/ Reply("error", "closing") /\ container' \in {"none", "orphan"}
    /\ UNCHANGED <<ctxDone, logOk, timeUp, refused, exit, lines, reader, verdict>>

\* A start that fails may have started the container.
Start ==
    /\ docker = "starting"
    /\ \/ ~Dead /\ container' = "running" /\ docker' = "attaching" /\ UNCHANGED result
       \/ container' \in {"created", "running"} /\ Reply("error", "removing")
    /\ UNCHANGED <<ctxDone, logOk, timeUp, refused, exit, lines, reader, verdict>>

Attach ==
    /\ docker = "attaching"
    /\ \/ ~Dead /\ docker' = "streaming" /\ UNCHANGED result
       \/ Reply("error", "removing")
    /\ UNCHANGED <<ctxDone, logOk, timeUp, container, refused, exit, lines, reader, verdict>>

\* StdCopy hands a line to streamWriter.
NextLine ==
    /\ docker = "streaming" /\ lines < MaxLines
    /\ lines' = lines + 1
    /\ docker' = "sending"
    /\ UNCHANGED <<ctxDone, logOk, timeUp, container, refused, exit, result, reader, verdict>>

\* Mutant of StreamFails: the send does not watch the context.
StreamBlocks ==
    /\ docker = "streaming"
    /\ Reply("error", "removing")
    /\ UNCHANGED <<ctxDone, logOk, timeUp, container, refused, exit, lines, reader, verdict>>

\* The stream breaks, or a line cannot be sent before the context ends.
StreamFails ==
    /\ docker = "streaming" \/ (docker = "sending" /\ Dead)
    /\ Reply("error", "removing")
    /\ UNCHANGED <<ctxDone, logOk, timeUp, container, refused, exit, lines, reader, verdict>>

StreamEnds ==
    /\ docker = "streaming" /\ container = "exited"
    /\ docker' = "waiting"
    /\ UNCHANGED <<ctxDone, logOk, timeUp, container, refused, exit, lines, result, reader,
                   verdict>>

\* Mutant of Wait: the exit status is not sent.
WaitSilent ==
    /\ docker = "waiting"
    /\ docker' = "removing"
    /\ UNCHANGED <<ctxDone, logOk, timeUp, container, refused, exit, lines, result, reader,
                   verdict>>

\* The exit status, or Docker's error, or the end of the context.
Wait ==
    /\ docker = "waiting"
    /\ \/ Reply(exit, "removing") \/ Reply("error", "removing")
    /\ UNCHANGED <<ctxDone, logOk, timeUp, container, refused, exit, lines, reader, verdict>>

\* Mutant of Remove: the container is removed under the dead context.
RemoveIfAlive ==
    /\ docker = "removing"
    /\ container' = IF Dead THEN container ELSE "removed"
    /\ docker' = "closing"
    /\ UNCHANGED <<ctxDone, logOk, timeUp, refused, exit, lines, result, reader, verdict>>

\* The first of the deferred calls, under a context of its own.  Nobody looks at
\* its error.
Remove ==
    /\ docker = "removing"
    /\ \/ container' = "removed" /\ UNCHANGED refused
       \/ refused' = TRUE /\ UNCHANGED container
    /\ docker' = "closing"
    /\ UNCHANGED <<ctxDone, logOk, timeUp, exit, lines, result, reader, verdict>>

\* Mutant of Close: the log channel stays open.
CloseResult ==
    /\ docker = "closing"
    /\ docker' = "none"
    /\ UNCHANGED <<ctxDone, logOk, timeUp, container, refused, exit, lines, result, reader,
                   verdict>>

\* The last: res and logs are closed.
Close ==
    /\ docker = "closing"
    /\ docker' = "ended"
    /\ UNCHANGED <<ctxDone, logOk, timeUp, container, refused, exit, lines, result, reader,
                   verdict>>

-----------------------------------------------------------------------------
(* The container and the clock.                                             *)

ContainerExits ==
    /\ container = "running"
    /\ container' = "exited"
    /\ exit' \in {"success", "failure"}
    /\ UNCHANGED <<ctxDone, logOk, timeUp, docker, refused, lines, result, reader, verdict>>

TimesOut ==
    /\ HasTimeout /\ ~timeUp /\ docker \notin {"none", "ended"}
    /\ timeUp' = TRUE
    /\ UNCHANGED <<ctxDone, logOk, docker, container, refused, exit, lines, result, reader,
                   verdict>>

-----------------------------------------------------------------------------
(* runStage.                                                                *)

Returns(v) == reader' = "returned" /\ verdict' = v

\* The stage_started event.
Started ==
    /\ reader = "starting"
    /\ \/ LogWritten /\ reader' = "reading" /\ UNCHANGED verdict
       \/ LogFails /\ Returns("error")
    /\ UNCHANGED <<ctxDone, timeUp, docker, container, refused, exit, lines, result>>

\* A line changes hands and is written to the log.  If that fails, runStage
\* returns and nobody reads the channel any more.
ReadLine ==
    /\ reader = "reading" /\ docker = "sending"
    /\ docker' = "streaming"
    /\ \/ LogWritten /\ UNCHANGED <<reader, verdict>>
       \/ LogFails /\ Returns("error")
    /\ UNCHANGED <<ctxDone, timeUp, container, refused, exit, lines, result>>

\* A closed channel without a result yields the zero value: exit code 0, no error.
Received == IF result = Empty THEN "success" ELSE result

\* The logs are closed: the stage_finished event, the exit code, output.json and
\* its contract.
ReadResult ==
    /\ reader = "reading" /\ docker = "ended"
    /\ \/ LogFails /\ Returns("error")
       \/ LogWritten /\ Returns("error")
       \/ LogWritten /\ Received = "success" /\ \E v \in {"ok", "raw"} : Returns(v)
    /\ UNCHANGED <<ctxDone, timeUp, docker, container, refused, exit, lines, result>>

DockerCall ==
    \/ Create \/ Start \/ Attach \/ StreamFails \/ StreamEnds \/ Wait
    \/ Remove \/ Close

DockerStep == DockerCall \/ NextLine

ReaderStep == Started \/ ReadLine \/ ReadResult

-----------------------------------------------------------------------------
(* Properties of a stage.                                                   *)

StageTypeOK ==
    /\ ctxDone \in BOOLEAN /\ timeUp \in BOOLEAN /\ logOk \in BOOLEAN
    /\ docker \in {"none", "creating", "starting", "attaching", "streaming",
                   "sending", "waiting", "removing", "closing", "ended"}
    /\ container \in {"none", "orphan", "created", "running", "exited", "removed"}
    /\ refused \in BOOLEAN
    /\ exit \in {"none", "success", "failure"} /\ lines \in 0 .. MaxLines
    /\ result \in {Empty, "success", "failure", "error"}
    /\ reader \in {"idle", "starting", "reading", "returned"}
    /\ verdict \in {"none", "ok", "raw", "error"}

\* An output is only read, and believed, if the agent ended with exit code 0 and no
\* longer runs: no path of docker.run closes its channels without a
\* result, which would read as a success.
OutputAfterExit ==
    verdict \in {"ok", "raw"} => exit = "success" /\ container \in {"exited", "removed"}

\* A stage that could write its log is over when it returns: its goroutine has
\* ended, and what may be left is a container Docker would not remove or one whose
\* ID the code never learnt.  Only a stage that failed may leave an agent at work.
StageIsOver ==
    reader = "returned" /\ logOk =>
        /\ docker \in {"none", "ended"}
        /\ container \in {"none", "orphan", "removed"} \/ refused
        /\ container = "running" => verdict = "error"
=============================================================================
