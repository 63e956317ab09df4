---------------------------- MODULE RunLifecycle ----------------------------
(***************************************************************************)
(* What the run subsystem promises to a reader of the table console_runs:  *)
(* a run moves only forward, queued -> running -> one terminal outcome, or *)
(* queued -> interrupted without ever having started; started_at_ms is set *)
(* exactly when it starts and is never made up; and the number of running  *)
(* rows stays under the global and the per-script limit.  Any number of    *)
(* runs may move in one step, because one turn of the event loop finishes  *)
(* a run and starts the next, and one boot reconciles them all.            *)
(***************************************************************************)
EXTENDS Naturals, FiniteSets

CONSTANTS
    Runs,            \* launch requests, each identified by its run id
    Scripts,
    ScriptOf,        \* the script each launch request names
    Outcomes,        \* terminal statuses a settled run is recorded with
    MaxConcurrency,
    MaxPerScript

VARIABLES
    status,          \* the column status, "absent" before the insert
    started          \* started_at_ms IS NOT NULL

lifecycleVars == <<status, started>>

Running == {r \in Runs : status[r] = "running"}

WithinLimits ==
    /\ Cardinality(Running) <= MaxConcurrency
    /\ \A s \in Scripts :
           Cardinality({r \in Running : ScriptOf[r] = s}) <= MaxPerScript

Init ==
    /\ status = [r \in Runs |-> "absent"]
    /\ started = [r \in Runs |-> FALSE]

Stays(r) == status'[r] = status[r] /\ started'[r] = started[r]

Queues(r) ==
    status[r] = "absent" /\ status'[r] = "queued" /\ started'[r] = started[r]

Starts(r) ==
    /\ status[r] \in {"absent", "queued"}
    /\ status'[r] = "running"
    /\ ~started[r] /\ started'[r]

Ends(r) ==
    /\ status[r] = "running"
    /\ status'[r] \in Outcomes
    /\ started'[r] = started[r]

Abandons(r) ==
    /\ status[r] = "queued"
    /\ status'[r] = "interrupted"
    /\ ~started'[r]

Next ==
    /\ \A r \in Runs :
           Stays(r) \/ Queues(r) \/ Starts(r) \/ Ends(r) \/ Abandons(r)
    /\ WithinLimits'

Spec == Init /\ [][Next]_lifecycleVars
=============================================================================
