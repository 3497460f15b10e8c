----------------------------- MODULE LatestFeed -----------------------------
(***************************************************************************)
(* What the daemon promises the clients of GET /run: state, not history.   *)
(* A client is shown versions of the state, each newer than the one shown  *)
(* before, and may miss any number in between.  A client whose stream is   *)
(* open is not left behind for ever.                                       *)
(***************************************************************************)
EXTENDS Naturals

CONSTANTS
    Clients,
    Final       \* the number of versions that are ever published

VARIABLES
    latest,     \* the newest version
    shown,      \* the newest version each client has seen, 0 at first
    open        \* the clients whose stream the daemon serves

vars == <<latest, shown, open>>

Init ==
    /\ latest = 0
    /\ shown = [c \in Clients |-> 0]
    /\ open = {}

Publish ==
    /\ latest < Final
    /\ latest' = latest + 1
    /\ UNCHANGED <<shown, open>>

\* A stream that was just ended may still show what it had at hand.
Show(c) ==
    /\ \E v \in shown[c] + 1 .. latest : shown' = [shown EXCEPT ![c] = v]
    /\ UNCHANGED <<latest, open>>

\* A client comes, one goes, or the daemon stops and they all go.
Open(c) == open' = open \cup {c} /\ UNCHANGED <<latest, shown>>
End     == open' \in SUBSET open /\ UNCHANGED <<latest, shown>>

Next ==
    \/ Publish \/ End
    \/ \E c \in Clients : Show(c) \/ Open(c)

Spec == Init /\ [][Next]_vars

\* An open stream shows every version or a later one.
CatchesUp ==
    \A c \in Clients, v \in 1 .. Final :
        latest = v /\ c \in open ~> shown[c] >= v \/ c \notin open

FairSpec == Spec /\ CatchesUp
=============================================================================
