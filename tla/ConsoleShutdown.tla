--------------------------- MODULE ConsoleShutdown ---------------------------
(***************************************************************************)
(* The shutdown of the console server: the sequence of                     *)
(* lifecycle/shutdown.ts over the drain controller (lifecycle/drain.ts),   *)
(* the middleware that tracks requests on it (http/drain-middleware.ts),   *)
(* the listener (lifecycle/http-server.ts), the drain of the run           *)
(* orchestrator and the store everything else still reads.                 *)
(*                                                                         *)
(* The requests that matter are the two that launch a run.  POST /runs     *)
(* awaits its body and then its audit record (boot/human-action-audit.ts), *)
(* a session's addStep (sessions/service.ts) the values of its bindings    *)
(* besides, and they launch afterwards without asking whether a shutdown   *)
(* has begun.                                                              *)
(***************************************************************************)
EXTENDS Naturals, FiniteSets

CONSTANTS
    Requests,      \* requests that may arrive
    KindOf,        \* their routes: POST /runs is "launch"
    GracePeriod    \* readinessGraceMs > 0

ASSUME ShutdownAssumption ==
    /\ IsFiniteSet(Requests)
    /\ KindOf \in
          [Requests -> {"plain", "stream", "launch", "addStep", "probe"}]
    /\ GracePeriod \in BOOLEAN

VARIABLES
    connected,   \* requests whose connection is open
    handling,    \* requests whose handler has not completed
    reading,     \* those still reading their body
    seen,        \* requests that arrived
    inFlight,    \* inFlightCount of the drain controller
    drainState,  \* "serving", "draining", "drained"
    outcome,     \* "none", "graceful" or "abandoned"
    deadline,    \* its deadline timer is armed
    listener,    \* "listening", "closing", "closed"
    active,      \* runs executing, named by the request that launched them
    late,        \* runs launched after the drain of the runs was done
    runsDrain,   \* orchestrator.drain: "off", "waiting", "done"
    entries,     \* the runs it has aborted and waits for
    store        \* "open", "closed"

requestVars == <<connected, handling, reading, seen>>
drainVars == <<inFlight, drainState, outcome, deadline>>
runsVars == <<active, late, runsDrain, entries>>
vars == <<requestVars, inFlight, drainState, outcome, deadline, listener,
          active, late, runsDrain, entries, store>>

ShutdownBegun == runsDrain # "off"
Tracked(q) == KindOf[q] # "probe"
HasBody(q) == KindOf[q] \in {"launch", "addStep"}

Init ==
    /\ connected = {} /\ handling = {} /\ reading = {} /\ seen = {}
    /\ inFlight = 0 /\ drainState = "serving" /\ outcome = "none"
    /\ deadline = FALSE
    /\ listener = "listening"
    /\ active = {} /\ late = {} /\ runsDrain = "off" /\ entries = {}
    /\ store = "open"

-----------------------------------------------------------------------------
(* Requests. *)

\* track() throws unless the controller is serving, and the request is
\* refused; a probe is handled untracked.
Arrives(q) ==
    /\ q \notin seen /\ listener = "listening"
    /\ seen' = seen \cup {q}
    /\ connected' = connected \cup {q}
    /\ IF Tracked(q) /\ drainState # "serving"
       THEN UNCHANGED <<inFlight, handling, reading>>
       ELSE /\ inFlight' = IF Tracked(q) THEN inFlight + 1 ELSE inFlight
            /\ handling' = handling \cup {q}
            /\ reading' = IF HasBody(q) THEN reading \cup {q} ELSE reading
    /\ UNCHANGED <<drainState, outcome, deadline, listener, runsVars, store>>

\* Faulty variant: any release settles a drain in progress.
ReleaseEagerly(q) ==
    /\ handling' = handling \ {q} /\ reading' = reading \ {q}
    /\ inFlight' = IF Tracked(q) THEN inFlight - 1 ELSE inFlight
    /\ IF Tracked(q) /\ drainState = "draining"
       THEN /\ drainState' = "drained" /\ outcome' = "graceful"
            /\ deadline' = FALSE
       ELSE UNCHANGED <<drainState, outcome, deadline>>

\* The handler of q completes; the last release settles a drain in progress.
Release(q) ==
    /\ handling' = handling \ {q} /\ reading' = reading \ {q}
    /\ inFlight' = IF Tracked(q) THEN inFlight - 1 ELSE inFlight
    /\ IF Tracked(q) /\ drainState = "draining" /\ inFlight' = 0
       THEN /\ drainState' = "drained" /\ outcome' = "graceful"
            /\ deadline' = FALSE
       ELSE UNCHANGED <<drainState, outcome, deadline>>

\* The body has arrived, and the handler goes on to its audit record.
BodyRead(q) ==
    /\ q \in reading /\ ~ShutdownBegun
    /\ reading' = reading \ {q}
    /\ UNCHANGED <<connected, handling, seen, drainVars, listener, runsVars,
                   store>>

\* The body does not arrive in full: the client is gone, or the drain's
\* signal has aborted the reading.
BodyFails(q) ==
    /\ q \in reading
    /\ Release(q)
    /\ UNCHANGED <<connected, seen, listener, runsVars, store>>

\* What the handler awaits, its audit record and the bindings of an addStep,
\* is there: it launches, whatever the shutdown has come to.
Launches(q) ==
    /\ q \in handling \ reading /\ HasBody(q) /\ store = "open"
    /\ Release(q)
    /\ active' = active \cup {q}
    /\ late' = IF runsDrain = "done" THEN late \cup {q} ELSE late
    /\ UNCHANGED <<connected, seen, listener, runsDrain, entries, store>>

\* The record or a binding fails, or the launch is refused or queued: no run
\* starts.
LaunchesNothing(q) ==
    /\ q \in handling \ reading /\ HasBody(q)
    /\ Release(q)
    /\ UNCHANGED <<connected, seen, listener, runsVars, store>>

\* Any other handler completes; a stream does with its run, with its client,
\* or with endStreams.
Completes(q) ==
    /\ q \in handling \ reading /\ ~HasBody(q)
    /\ store = "open"
    /\ Release(q)
    /\ UNCHANGED <<connected, seen, listener, runsVars, store>>

\* A handler the deadline abandoned finds the store closed and fails.
FailsOnClosedStore(q) ==
    /\ q \in handling \ reading /\ store = "closed" /\ ~HasBody(q)
    /\ Release(q)
    /\ UNCHANGED <<connected, seen, listener, runsVars, store>>

\* The response is written, or the client hangs up.
Disconnects(q) ==
    /\ q \in connected \ handling
    /\ connected' = connected \ {q}
    /\ UNCHANGED <<handling, reading, seen, drainVars, listener, runsVars,
                   store>>

RunSettles(q) ==
    /\ q \in active /\ store = "open"
    /\ active' = active \ {q}
    /\ UNCHANGED <<requestVars, drainVars, listener, late, runsDrain, entries,
                   store>>

-----------------------------------------------------------------------------
(* The shutdown sequence. *)

\* One turn of drainActive: it is done when no run is active, or else aborts
\* those that are and waits for them.
DrainAgain ==
    /\ entries' = active
    /\ runsDrain' = IF active = {} THEN "done" ELSE "waiting"

\* Faulty variant: the deadline timer is never armed.
BeginShutdownUnarmed ==
    /\ ~ShutdownBegun
    /\ DrainAgain
    /\ IF inFlight = 0
       THEN drainState' = "drained" /\ outcome' = "graceful"
       ELSE drainState' = "draining" /\ UNCHANGED outcome
    /\ UNCHANGED deadline
    /\ listener' = IF GracePeriod THEN "listening" ELSE "closing"
    /\ UNCHANGED <<requestVars, inFlight, active, late, store>>

\* endStreams, runs.drain, drain.drain and (without a grace period)
\* server.close, in one turn.  A drain with nothing in flight settles in the
\* microtasks that follow.
BeginShutdown ==
    /\ ~ShutdownBegun
    /\ DrainAgain
    /\ IF inFlight = 0
       THEN drainState' = "drained" /\ outcome' = "graceful"
       ELSE drainState' = "draining" /\ UNCHANGED outcome
    /\ deadline' = (inFlight # 0)
    /\ listener' = IF GracePeriod THEN "listening" ELSE "closing"
    /\ UNCHANGED <<requestVars, inFlight, active, late, store>>

\* Faulty variant: the active runs are aborted and awaited once.
EntriesSettleOnce ==
    /\ runsDrain = "waiting" /\ entries \cap active = {}
    /\ entries' = {} /\ runsDrain' = "done"
    /\ UNCHANGED <<requestVars, drainVars, listener, active, late, store>>

\* Every run of the last snapshot has settled; others may have been launched
\* since.
EntriesSettle ==
    /\ runsDrain = "waiting" /\ entries \cap active = {}
    /\ DrainAgain
    /\ UNCHANGED <<requestVars, drainVars, listener, active, late, store>>

DeadlineFires ==
    /\ deadline
    /\ drainState' = "drained" /\ outcome' = "abandoned" /\ deadline' = FALSE
    /\ UNCHANGED <<requestVars, inFlight, listener, runsVars, store>>

GraceElapses ==
    /\ ShutdownBegun /\ listener = "listening"
    /\ listener' = "closing"
    /\ UNCHANGED <<requestVars, drainVars, runsVars, store>>

\* closeTimeoutMs after close(): every connection still open is reset.
ForceClose ==
    /\ listener = "closing" /\ connected # {}
    /\ connected' = {}
    /\ UNCHANGED <<handling, reading, seen, drainVars, listener, runsVars,
                   store>>

ListenerCloses ==
    /\ listener = "closing" /\ connected = {}
    /\ listener' = "closed"
    /\ UNCHANGED <<requestVars, drainVars, runsVars, store>>

\* Promise.all of the three has resolved.
StoreCloses ==
    /\ store = "open"
    /\ drainState = "drained" /\ listener = "closed" /\ runsDrain = "done"
    /\ store' = "closed"
    /\ UNCHANGED <<requestVars, drainVars, listener, runsVars>>

Next ==
    \/ \E q \in Requests :
          \/ Arrives(q) \/ BodyRead(q) \/ BodyFails(q)
          \/ Launches(q) \/ LaunchesNothing(q)
          \/ Completes(q) \/ FailsOnClosedStore(q)
          \/ Disconnects(q) \/ RunSettles(q)
    \/ BeginShutdown \/ EntriesSettle \/ DeadlineFires \/ GraceElapses
    \/ ForceClose \/ ListenerCloses \/ StoreCloses

Spec == Init /\ [][Next]_vars

\* Timers fire, and a run the drain has aborted settles (its executor kills
\* it).  No handler is ever obliged to complete and no client to hang up:
\* that is what the deadline and the forced close are for.
FairSpec ==
    /\ Spec
    /\ \A q \in Requests : WF_vars(q \in entries /\ RunSettles(q))
    /\ WF_vars(EntriesSettle) /\ WF_vars(DeadlineFires) /\ WF_vars(GraceElapses)
    /\ WF_vars(ForceClose) /\ WF_vars(ListenerCloses) /\ WF_vars(StoreCloses)

-----------------------------------------------------------------------------
(* Properties *)

\* The store outlives every tracked handler unless the deadline abandoned
\* it: a graceful drain never closes the store under a request.
GracefulMeansIdle ==
    outcome = "graceful" => \A q \in handling : ~Tracked(q)

\* Every variable keeps its type, and a graceful drain means what it says.
TypeOK ==
    /\ connected \subseteq Requests /\ handling \subseteq Requests
    /\ reading \subseteq handling
    /\ seen \subseteq Requests
    /\ inFlight \in 0 .. Cardinality(Requests)
    /\ drainState \in {"serving", "draining", "drained"}
    /\ outcome \in {"none", "graceful", "abandoned"}
    /\ deadline \in BOOLEAN
    /\ listener \in {"listening", "closing", "closed"}
    /\ active \subseteq Requests /\ late \subseteq Requests
    /\ runsDrain \in {"off", "waiting", "done"} /\ entries \subseteq Requests
    /\ store \in {"open", "closed"}
    /\ GracefulMeansIdle

\* The store outlives every run but those launched after drainActive had found
\* none: also the runs that requests still in progress launch while it waits.
StoreOutlivesDrainedRuns == store = "closed" => active \subseteq late

\* Whatever handlers and clients do, a shutdown closes the store.
ShutdownCompletes == ShutdownBegun ~> store = "closed"

\* The store closes only after every run has settled.
StoreOutlivesRuns == store = "closed" => active = {}
=============================================================================
