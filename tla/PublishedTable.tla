---------------------------- MODULE PublishedTable ----------------------------
(***************************************************************************)
(* The run queue with what it has published: the table of the snapshot     *)
(* that watchers were given last.  The loop publishes the empty table when *)
(* it starts and, at the end of a tick, the table as it is then, if a      *)
(* handler or the tick itself has set q.dirty.                             *)
(***************************************************************************)
EXTENDS RunQueue

VARIABLE shown      \* the table in the snapshot published last

watchVars == <<vars, shown>>

WatchInit == Init /\ shown = runs

\* The end of a tick, the only place in the loop that publishes.
Publishes == loop = "scheduling" /\ loop' = "select" /\ dirty

WatchNext == Next /\ shown' = IF Publishes THEN runs ELSE shown

WatchSpec == WatchInit /\ [][WatchNext]_watchVars

-----------------------------------------------------------------------------
\* The slots in use according to a snapshot.
ShownActive == {r \in Runs : shown[r].started /\ ~IsFinilised(shown[r].status)}

\* Watchers are behind the table only while a publish is due: whichever handler
\* changes it, in whatever order with the ticks, the last snapshot is the table
\* itself as soon as q.dirty is FALSE.  And they never see a run wait beside a free
\* slot: a tick admits before it publishes, and drops the tickets of retired runs
\* without giving them a slot.
WatchersSeeTable ==
    /\ shown \in [Runs -> Entry]
    /\ dirty \/ shown = runs
    /\ (\E r \in Runs : shown[r].status = "queued")
         => Cardinality(ShownActive) = MaxContainers
=============================================================================
