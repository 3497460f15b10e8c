---------------------------- MODULE RunLifecycle ----------------------------
(***************************************************************************)
(* What a watcher of the daemon is promised about its runs: each waits in  *)
(* line in the order it was accepted, starts when it is first in line and  *)
(* a slot is free, passes through the pipeline's stages in order, ends     *)
(* once, keeps its ending until it is forgotten, and never holds a slot    *)
(* without being one of at most Slots started runs.                        *)
(*                                                                         *)
(* RunQueue implements this: no inbox, goroutine, context, ticket or tick  *)
(* here.  The line is kept as who waits in front of whom.                  *)
(***************************************************************************)
EXTENDS Integers, FiniteSets

CONSTANTS
    Runs,        \* the runs that may be submitted
    Slots,       \* how many may be started at once
    RetriesMax   \* how many executor/reviewer rounds a run has

VARIABLES
    ahead,    \* the runs that wait in front of each waiting run
    status,   \* what each run is doing
    attempt   \* the round each run is at

vars == <<ahead, status, attempt>>

Terminal == {"succeeded", "rejected", "failed", "cancelled"}
Running  == {"started", "planning", "coding", "reviewing"}

Started == {r \in Runs : status[r] \in Running}
Waiting == {r \in Runs : status[r] = "queued"}

Init ==
    /\ ahead = [r \in Runs |-> {}]
    /\ status = [r \in Runs |-> "none"]
    /\ attempt = [r \in Runs |-> 0]

Submit(r) ==
    /\ status[r] = "none"
    /\ status' = [status EXCEPT ![r] = "queued"]
    /\ ahead' = [ahead EXCEPT ![r] = Waiting]
    /\ UNCHANGED attempt

\* Run r leaves the line, wherever it stands.
LeaveLine(r) ==
    ahead' = [w \in Runs |-> IF w = r THEN {} ELSE ahead[w] \ {r}]

Start(r) ==
    /\ status[r] = "queued" /\ ahead[r] = {}
    /\ Cardinality(Started) < Slots
    /\ status' = [status EXCEPT ![r] = "started"]
    /\ LeaveLine(r)
    /\ UNCHANGED attempt

\* A waiting run is cancelled.
Withdraw(r) ==
    /\ status[r] = "queued"
    /\ status' = [status EXCEPT ![r] = "cancelled"]
    /\ LeaveLine(r)
    /\ UNCHANGED attempt

Plan(r) ==
    /\ status[r] = "started"
    /\ status' = [status EXCEPT ![r] = "planning"]
    /\ UNCHANGED <<ahead, attempt>>

Code(r) ==
    /\ status[r] = "planning" \/ status[r] = "reviewing"
    /\ attempt[r] < RetriesMax
    /\ status' = [status EXCEPT ![r] = "coding"]
    /\ attempt' = [attempt EXCEPT ![r] = @ + 1]
    /\ UNCHANGED ahead

Review(r) ==
    /\ status[r] = "coding"
    /\ status' = [status EXCEPT ![r] = "reviewing"]
    /\ UNCHANGED <<ahead, attempt>>

\* Any started run may fail or be cancelled; only a reviewer's verdict makes it
\* succeed, or be rejected once no round is left.
MayEnd(r, ending) ==
    \/ ending \in {"failed", "cancelled"} /\ status[r] \in Running
    \/ ending = "succeeded" /\ status[r] = "reviewing"
    \/ ending = "rejected"  /\ status[r] = "reviewing" /\ attempt[r] = RetriesMax

End(r) ==
    /\ \E ending \in Terminal :
         /\ MayEnd(r, ending)
         /\ status' = [status EXCEPT ![r] = ending]
    /\ UNCHANGED <<ahead, attempt>>

Forget(gone) ==
    /\ gone \subseteq {r \in Runs : status[r] \in Terminal}
    /\ status'  = [r \in Runs |-> IF r \in gone THEN "none" ELSE status[r]]
    /\ attempt' = [r \in Runs |-> IF r \in gone THEN 0 ELSE attempt[r]]
    /\ UNCHANGED ahead

Next ==
    \/ \E r \in Runs : Submit(r) \/ Start(r) \/ Withdraw(r)
    \/ \E r \in Runs : Plan(r) \/ Code(r) \/ Review(r) \/ End(r)
    \/ \E gone \in SUBSET Runs : Forget(gone)

Spec == Init /\ [][Next]_vars
=============================================================================
