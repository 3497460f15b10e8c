------------------------------- MODULE Dashboard -------------------------------
(***************************************************************************)
(* One `dock` terminal (internal/tui) with the client it talks through     *)
(* (daemon/client): the event loop of the program, which alone holds the   *)
(* model; the goroutine that reads the stream; a goroutine for each        *)
(* request to submit or cancel; and App, which waits for the program and   *)
(* then for the stream.  The user presses keys at any moment.              *)
(*                                                                         *)
(* Of the daemon there is what they rely on: a table of runs that others   *)
(* use too, and snapshots of it that arrive late, or are overtaken by a    *)
(* newer one (LatestFeed).                                                 *)
(*                                                                         *)
(* A run is its place in the order of the display (repository, QueuedAt,   *)
(* ID), so a new run may appear above an old one.  A run that has left the *)
(* table counts as ended: both are not cancellable.                        *)
(***************************************************************************)
EXTENDS Integers, FiniteSets

CONSTANTS
    N,           \* the runs there may be
    Mine,        \* those this terminal may submit
    MaxRequests  \* its requests under way at once

ASSUME DashboardAssumption ==
    N \in Nat /\ Mine \subseteq 1 .. N /\ MaxRequests \in Nat

Runs == 1 .. N

VARIABLES
    table,      \* the daemon's runs
    wire,       \* the snapshot under way to the program, if there is one
    view,       \* watchModel.runs
    mode,       \* appModel.mode
    selecting,  \* watchModel.selecting
    cursor,     \* watchModel.cursor, an index of the cancellable runs
    cursorID,   \* watchModel.cursorID
    notice,     \* watchModel.notice
    submits,    \* the request to queue each run, and the note about it
    cancels,    \* the request to cancel each run
    app,        \* where App is
    quit,       \* what made the program quit
    stream,     \* where the stream's goroutine is
    streamErr   \* what is in the channel of one place

daemonVars  == <<table, wire>>
cursorVars  == <<selecting, cursor, cursorID>>
watchVars   == <<view, cursorVars, notice>>
requestVars == <<submits, cancels>>
exitVars    == <<app, quit, stream, streamErr>>
vars == <<daemonVars, watchVars, mode, requestVars, exitVars>>

\* No run; nothing in a channel, no notice.
None  == 0
Empty == "empty"

Tables     == [Runs -> {"none", "live", "ended"}]
NoRuns     == [r \in Runs |-> "none"]
NoRequests == [r \in Runs |-> "idle"]

Init ==
    /\ table = NoRuns /\ wire = {} /\ view = NoRuns
    /\ mode \in {"prompt", "watch"}
    /\ selecting = FALSE /\ cursor = 0 /\ cursorID = None
    /\ notice = Empty
    /\ submits = NoRequests /\ cancels = NoRequests
    /\ app = "running" /\ quit = "none"
    /\ stream = "reading" /\ streamErr = Empty

-----------------------------------------------------------------------------
(* The list the cursor moves in.                                            *)

\* cancellable, in the order of groupRuns.
Cancellable(runs) == {r \in Runs : runs[r] = "live"}

Index(live, r) == Cardinality({s \in live : s < r})

\* live[i]; None for an index out of range, where the program would panic.
RunAt(live, i) ==
    IF \E r \in live : Index(live, r) = i
    THEN CHOOSE r \in live : Index(live, r) = i
    ELSE None

SelectAt(live, i) == selecting' = TRUE /\ cursor' = i /\ cursorID' = RunAt(live, i)

StopSelecting == selecting' = FALSE /\ cursor' = 0 /\ cursorID' = None

AtMost(i, live) == IF i < Cardinality(live) THEN i ELSE Cardinality(live) - 1

\* Mutant of SyncCursor: the cursor keeps its place in the list, not its run.
SyncByIndex(runs) ==
    LET live == Cancellable(runs) IN
    \/ ~selecting /\ UNCHANGED cursorVars
    \/ selecting /\ live = {} /\ StopSelecting
    \/ selecting /\ live # {} /\ SelectAt(live, AtMost(cursor, live))

\* Mutant of SyncCursor: the cursor finds its run but keeps the old index.
SyncIDOnly(runs) ==
    LET live == Cancellable(runs) IN
    \/ ~selecting /\ UNCHANGED cursorVars
    \/ selecting /\ live = {} /\ StopSelecting
    \/ selecting /\ cursorID \in live /\ UNCHANGED cursorVars
    \/ /\ selecting /\ live # {} /\ cursorID \notin live
       /\ SelectAt(live, AtMost(cursor, live))

\* syncCursor, for the runs of a new snapshot.
SyncCursor(runs) ==
    LET live == Cancellable(runs) IN
    \/ ~selecting /\ UNCHANGED cursorVars
    \/ selecting /\ live = {} /\ StopSelecting
    \/ selecting /\ cursorID \in live /\ SelectAt(live, Index(live, cursorID))
    \/ /\ selecting /\ live # {} /\ cursorID \notin live
       /\ SelectAt(live, AtMost(cursor, live))

\* move(1) and move(-1).
Move(delta) ==
    LET live == Cancellable(view)
        next == IF delta = "down" THEN cursor + 1
                ELSE IF cursor > 0 THEN cursor - 1 ELSE 0
    IN IF live = {} THEN StopSelecting ELSE SelectAt(live, AtMost(next, live))

-----------------------------------------------------------------------------
(* The daemon, as the client sees it until it leaves.                       *)

Handles == app \in {"running", "quitting"}

\* Another terminal adds a run, or a run ends.
TableChanges ==
    /\ Handles
    /\ \E r \in Runs :
         \/ /\ table[r] = "none" /\ r \notin Mine
            /\ table' = [table EXCEPT ![r] = "live"]
         \/ /\ table[r] = "live"
            /\ table' = [table EXCEPT ![r] = "ended"]
    /\ UNCHANGED <<wire, watchVars, mode, requestVars, exitVars>>

\* A snapshot replaces one that is still under way.
Publish ==
    /\ Handles /\ wire' = {table}
    /\ UNCHANGED <<table, watchVars, mode, requestVars, exitVars>>

\* POST /run: 201 with the id, 400 for a request that is not handed to the queue, or
\* 500 from a queue that stops, whose loop may or may not have added the run.
ServeRun ==
    /\ Handles
    /\ \E r \in Runs :
         /\ submits[r] = "sent"
         /\ \/ /\ table' = [table EXCEPT ![r] = "live"]
               /\ submits' = [submits EXCEPT ![r] = "created"]
            \/ submits' = [submits EXCEPT ![r] = "refused"] /\ UNCHANGED table
            \/ /\ table' \in {table, [table EXCEPT ![r] = "live"]}
               /\ submits' = [submits EXCEPT ![r] = "stopped"]
    /\ UNCHANGED <<wire, watchVars, mode, cancels, exitVars>>

\* The event outlives the request: Add does not look at the request's context, and
\* the loop of a queue that stops may still take what is in its inbox.
AddLate ==
    /\ Handles
    /\ \E r \in Runs :
         /\ submits[r] \in {"stopped", "open"} /\ table[r] = "none"
         /\ table' = [table EXCEPT ![r] = "live"]
    /\ UNCHANGED <<wire, watchVars, mode, requestVars, exitVars>>

\* DELETE /run/{id}: 204, at once for a queued run, before an executing one has
\* stopped; 404 or 409 for a run that is over.
ServeCancel ==
    /\ Handles
    /\ \E r \in Runs :
         /\ cancels[r] = "sent"
         /\ \/ /\ table[r] = "live"
               /\ cancels' = [cancels EXCEPT ![r] = "done"]
               /\ table' \in {table, [table EXCEPT ![r] = "ended"]}
            \/ /\ table[r] # "live"
               /\ cancels' = [cancels EXCEPT ![r] = "refused"]
               /\ UNCHANGED table
    /\ UNCHANGED <<wire, watchVars, mode, submits, exitVars>>

-----------------------------------------------------------------------------
(* The event loop: appModel.Update for each message.  After tea.Quit it     *)
(* goes on until the quit message is taken.                                 *)

\* A submission without a note yet.
Waiting == {"sent", "created", "refused", "stopped"}

UnderWay == {r \in Runs : submits[r] \in Waiting}
              \cup {r \in Runs : cancels[r] # "idle"}

\* snapshotMsg.
TakeSnapshot ==
    /\ Handles /\ stream = "reading"
    /\ \E snap \in wire : view' = snap /\ SyncCursor(snap)
    /\ wire' = {}
    /\ UNCHANGED <<table, notice, mode, requestVars, exitVars>>

\* tea.Quit is returned.
Quit(reason) ==
    /\ app' = "quitting"
    /\ quit' = IF quit = "none" THEN reason ELSE quit
    /\ UNCHANGED <<stream, streamErr>>

\* promptKeys: tab, esc and ctrl+c, and enter on a text: submitCmd.
PromptKey ==
    /\ Handles /\ mode = "prompt"
    /\ \/ mode' = "watch" /\ UNCHANGED <<submits, exitVars>>
       \/ Quit("user") /\ UNCHANGED <<mode, submits>>
       \/ \E r \in Mine :
            /\ submits[r] = "idle" /\ Cardinality(UnderWay) < MaxRequests
            /\ submits' = [submits EXCEPT ![r] = "sent"]
            /\ UNCHANGED <<mode, exitVars>>
    /\ UNCHANGED <<daemonVars, watchVars, cancels>>

\* watchKeys outside the selection: tab and n, c (startSelecting), q, esc and
\* ctrl+c, any other.
WatchKey ==
    /\ Handles /\ mode = "watch" /\ ~selecting
    /\ \/ /\ mode' = "prompt" /\ notice' = Empty
          /\ UNCHANGED <<cursorVars, exitVars>>
       \/ /\ IF Cancellable(view) = {}
             THEN notice' = "nothing to cancel" /\ UNCHANGED cursorVars
             ELSE notice' = Empty /\ SelectAt(Cancellable(view), 0)
          /\ UNCHANGED <<mode, exitVars>>
       \/ Quit("user") /\ notice' = Empty /\ UNCHANGED <<mode, cursorVars>>
       \/ notice' = Empty /\ UNCHANGED <<mode, cursorVars, exitVars>>
    /\ UNCHANGED <<daemonVars, view, requestVars>>

\* cancelKeys: the arrows, esc, enter (cancelCmd for the selected run, if there is
\* one), ctrl+c.
CancelKey ==
    /\ Handles /\ mode = "watch" /\ selecting
    /\ \/ \E delta \in {"up", "down"} : Move(delta) /\ UNCHANGED <<cancels, exitVars>>
       \/ StopSelecting /\ UNCHANGED <<cancels, exitVars>>
       \/ /\ cursorID \in Cancellable(view)
          /\ cancels[cursorID] = "idle" /\ Cardinality(UnderWay) < MaxRequests
          /\ cancels' = [cancels EXCEPT ![cursorID] = "sent"]
          /\ StopSelecting /\ UNCHANGED exitVars
       \/ /\ cursorID \notin Cancellable(view)
          /\ StopSelecting /\ UNCHANGED <<cancels, exitVars>>
       \/ Quit("user") /\ UNCHANGED <<cursorVars, cancels>>
    /\ notice' = Empty
    /\ UNCHANGED <<daemonVars, view, mode, submits>>

\* streamFailedMsg.
TakeStreamFailed ==
    /\ Handles /\ stream = "telling"
    /\ app' = "quitting"
    /\ quit' = IF quit = "none" THEN "stream" ELSE quit
    /\ stream' = "gone"
    /\ UNCHANGED <<daemonVars, watchVars, mode, requestVars, streamErr>>

-----------------------------------------------------------------------------
(* The client's requests: do, under the timeout of 5 seconds.               *)

\* queuedMsg and submitFailedMsg: a note.  It has the daemon's error, so it tells a
\* request that was refused from one that the daemon's stop leaves open.
SubmitAnswered ==
    /\ Handles
    /\ \E r \in Mine :
         \/ submits[r] = "created" /\ submits' = [submits EXCEPT ![r] = "queued"]
         \/ submits[r] = "refused" /\ submits' = [submits EXCEPT ![r] = "failed"]
         \/ submits[r] = "stopped" /\ submits' = [submits EXCEPT ![r] = "open"]
    /\ UNCHANGED <<daemonVars, watchVars, mode, cancels, exitVars>>

\* Mutant of SubmitTimesOut: the error is taken for a refusal by the daemon.
SubmitGivenUp ==
    /\ Handles
    /\ \E r \in Mine :
         /\ submits[r] \in Waiting
         /\ submits' = [submits EXCEPT ![r] = "failed"]
    /\ UNCHANGED <<daemonVars, watchVars, mode, cancels, exitVars>>

\* The time is up or the connection breaks, wherever the request is: submitFailedMsg
\* with that error.
SubmitTimesOut ==
    /\ Handles
    /\ \E r \in Mine :
         /\ submits[r] \in Waiting
         /\ submits' = [submits EXCEPT ![r] = "open"]
    /\ UNCHANGED <<daemonVars, watchVars, mode, cancels, exitVars>>

\* cancelledMsg, which clears whatever notice there is, or cancelFailedMsg, for
\* the daemon's error or the timeout.
CancelAnswered ==
    /\ Handles
    /\ \E r \in Runs :
         /\ \/ cancels[r] = "done" /\ notice' = Empty
            \/ cancels[r] # "idle" /\ notice' = "cancel failed"
         /\ cancels' = [cancels EXCEPT ![r] = "idle"]
    /\ UNCHANGED <<daemonVars, view, cursorVars, mode, submits, exitVars>>

-----------------------------------------------------------------------------
(* The stream's goroutine and App.                                          *)

\* App has called cancel.
ctxDone == app \in {"waiting", "returned", "failed"}

\* Client.Stream returns: an error event, a broken connection, a frame that is
\* too long for the scanner, or, without an error, the end of the stream.  Under a
\* cancelled context it returns in any case.
StreamReturns ==
    /\ stream = "reading"
    /\ stream' \in {"error", "nil"}
    /\ UNCHANGED <<daemonVars, watchVars, mode, requestVars, app, quit, streamErr>>

\* Mutant of StreamResult: the end of the stream is not made an error.
StreamResultAsIs ==
    /\ stream \in {"error", "nil"}
    /\ IF ctxDone
       THEN streamErr' = "nil" /\ stream' = "gone"
       ELSE streamErr' = stream /\ stream' = "telling"
    /\ UNCHANGED <<daemonVars, watchVars, mode, requestVars, app, quit>>

\* Mutant of StreamResult: streamErr is unbuffered, and App reads it last.
StreamResultBlocks ==
    /\ stream \in {"error", "nil"} /\ app = "waiting"
    /\ streamErr' = IF ctxDone THEN "nil" ELSE "error"
    /\ stream' = "gone"
    /\ UNCHANGED <<daemonVars, watchVars, mode, requestVars, app, quit>>

\* The result is left for App before the program is told.
StreamResult ==
    /\ stream \in {"error", "nil"}
    /\ IF ctxDone
       THEN streamErr' = "nil" /\ stream' = "gone"
       ELSE streamErr' = "error" /\ stream' = "telling"
    /\ UNCHANGED <<daemonVars, watchVars, mode, requestVars, app, quit>>

\* program.Run returns, and App drops the model: the quit message was taken, or
\* before that the program was interrupted or killed, or failed.
ProgramEnds ==
    /\ Handles
    /\ \/ app = "quitting" /\ UNCHANGED quit
       \/ quit' \in {"killed", "program"}
    /\ app' = "leaving"
    /\ view' = NoRuns /\ StopSelecting /\ notice' = Empty
    /\ submits' = NoRequests /\ cancels' = NoRequests
    /\ UNCHANGED <<daemonVars, mode, stream, streamErr>>

\* A send to a program that has ended returns.
TellNobody ==
    /\ stream = "telling" /\ ~Handles
    /\ stream' = "gone"
    /\ UNCHANGED <<daemonVars, watchVars, mode, requestVars, app, quit, streamErr>>

CancelContext ==
    /\ app = "leaving"
    /\ app' = "waiting"
    /\ UNCHANGED <<daemonVars, watchVars, mode, requestVars, quit, stream, streamErr>>

\* App returns the stream's error, else the program's unless it is ErrInterrupted or
\* ErrProgramKilled, else nil.
AppReturns ==
    /\ app = "waiting" /\ streamErr # Empty
    /\ app' = IF streamErr = "error" \/ quit = "program" THEN "failed" ELSE "returned"
    /\ UNCHANGED <<daemonVars, watchVars, mode, requestVars, quit, stream, streamErr>>

-----------------------------------------------------------------------------
Keys     == PromptKey \/ WatchKey \/ CancelKey
Daemon   == TableChanges \/ Publish \/ ServeRun \/ AddLate \/ ServeCancel
Requests == SubmitAnswered \/ SubmitTimesOut \/ CancelAnswered
Leaving  == CancelContext \/ AppReturns

Next ==
    \/ Keys \/ Daemon \/ Requests \/ TakeSnapshot \/ TakeStreamFailed
    \/ StreamReturns \/ StreamResult \/ TellNobody \/ ProgramEnds \/ Leaving

Spec == Init /\ [][Next]_vars

\* The goroutines are scheduled, and the program takes what they send; a request
\* ends with its timeout.  No key is ever pressed for certain, nor does a live
\* stream have to end.
Fairness ==
    /\ WF_vars(SubmitAnswered \/ SubmitTimesOut)
    /\ WF_vars(TakeStreamFailed)
    /\ WF_vars(ctxDone /\ StreamReturns)
    /\ WF_vars(StreamResult)
    /\ WF_vars(app = "quitting" /\ ProgramEnds)
    /\ WF_vars(Leaving)

FairSpec == Spec /\ Fairness

-----------------------------------------------------------------------------
(* Properties.                                                              *)

\* Every variable keeps its type.
TypeOK ==
    /\ table \in Tables /\ wire \subseteq Tables /\ view \in Tables
    /\ mode \in {"prompt", "watch"} /\ selecting \in BOOLEAN
    /\ cursor \in Nat /\ cursorID \in Runs \cup {None}
    /\ notice \in {Empty, "nothing to cancel", "cancel failed"}
    /\ submits \in [Runs -> {"idle", "queued", "failed", "open"} \cup Waiting]
    /\ cancels \in [Runs -> {"idle", "sent", "done", "refused"}]
    /\ app \in {"running", "quitting", "leaving", "waiting", "returned", "failed"}
    /\ quit \in {"none", "user", "stream", "killed", "program"}
    /\ stream \in {"reading", "error", "nil", "telling", "gone"}
    /\ streamErr \in {Empty, "nil", "error"}

\* While the user selects, the dashboard is shown, and the two halves of the cursor
\* name one cancellable run of the latest snapshot: the arrows never index past the
\* list, and enter cancels the run the next arrow would start from.
CursorInStep ==
    selecting =>
        /\ mode = "watch"
        /\ cursorID \in Cancellable(view)
        /\ cursor = Index(Cancellable(view), cursorID)

\* Only a key moves the cursor off a run that is still cancellable: a snapshot in
\* which runs appear or end above it does not change which run enter will cancel.
CursorStays ==
    [][view' # view /\ cursorID \in Cancellable(view') => UNCHANGED cursorID]_vars

\* A note that a run is queued names a run of the daemon, and one that the daemon
\* refused it names none.  Only a note of a timeout, of a broken connection or of a
\* daemon that stops leaves open whether there is a run.
NotesAreTrue ==
    \A r \in Runs :
        /\ submits[r] = "queued" => table[r] # "none"
        /\ submits[r] = "failed" => table[r] = "none"

\* `dock` ends without an error only if the user left or the program was killed;
\* that the daemon went away is always reported, also if the stream just ends.
ExitTells ==
    /\ app = "returned" => quit \in {"user", "killed"}
    /\ app = "failed" => quit = "program" \/ streamErr = "error"

\* Nobody waits in vain for the daemon.  A terminal that is told to quit, or whose
\* stream has ended, gives the prompt back: App waits for the stream's goroutine, and
\* that for App's context or for nobody.  And every submission gets its note, unless
\* the user leaves before.
NothingHangs ==
    /\ app # "running" \/ stream # "reading" ~> app \in {"returned", "failed"}
    /\ \A r \in Mine :
         submits[r] = "sent"
           ~> submits[r] \in {"queued", "failed", "open"} \/ app # "running"
=============================================================================
