------------------------------ MODULE Sessions ------------------------------
(***************************************************************************)
(* Workbench sessions (sessions/service.ts and the tables behind it): an   *)
(* operator opens a session, adds steps to it, and each step launches a    *)
(* run and follows it through the events the orchestrator publishes.       *)
(*                                                                         *)
(* Adding a step awaits the artifacts its bindings refer to, one by one,   *)
(* then launches the run and records the step in one turn of the event     *)
(* loop.  The end of a run is handled by a promise nobody awaits: it       *)
(* writes the step's artifact and only then finishes the step.  The runs   *)
(* are an environment that moves as RunLifecycle allows.                   *)
(***************************************************************************)
EXTENDS Naturals, Sequences, FiniteSets, FiniteSetsExt

CONSTANTS
    SessionIds,
    Requests,         \* requests to add a step or to select a binding
    SessionOf,        \* the session each request names
    BindsTo,          \* the step ordinals its bindings refer to, in order
    Selects,          \* the requests that only select a binding
    Outcomes,         \* terminal statuses of a run
    OpenSessionsMax,  \* m3l.console.sessions.open.max
    TotalMax,         \* m3l.console.sessions.total.max.bytes, in artifacts
    MaxFaults,        \* bound: failing store or file operations
    MaxRestarts       \* bound: deaths of the process

ASSUME SessionsAssumption ==
    /\ IsFiniteSet(Requests)
    /\ SessionOf \in [Requests -> SessionIds]
    /\ BindsTo \in [Requests -> Seq(Nat \ {0})]
    /\ Selects \subseteq Requests
    /\ \A q \in Selects : Len(BindsTo[q]) = 1
    /\ "interrupted" \in Outcomes
    /\ Outcomes \cap {"absent", "queued", "running"} = {}
    /\ OpenSessionsMax \in Nat \ {0} /\ TotalMax \in Nat \ {0}
    /\ MaxFaults \in Nat /\ MaxRestarts \in Nat

VARIABLES
    \* the tables
    session,    \* "absent", "open" or "closed"
    bindings,   \* rows <<request, ordinal referred to>>
    step,       \* status of the step a request adds, "absent" before it
    ordinal,    \* its ordinal in the session, 0 before it
    attached,   \* its run_id is set
    result,     \* its result_ref is set
    run,        \* status of the run the request launched
    started,    \* that run's started_at_ms is set
    \* the process
    request,    \* "idle", "binding" (awaiting an artifact), "over"
    position,   \* index of the binding whose artifact is awaited
    finishing,  \* requests whose run.ended handler awaits the artifact
    lost,       \* history: the handling of an event of these failed or died
    faults,
    restarts

tables == <<session, bindings, step, ordinal, attached, result>>
runVars == <<run, started>>
bounds == <<faults, restarts>>
vars == <<session, bindings, step, ordinal, attached, result, run, started,
          request, position, finishing, lost, faults, restarts>>

Steps(s) == {q \in Requests : SessionOf[q] = s /\ step[q] # "absent"}

Open == {s \in SessionIds : session[s] = "open"}

Init ==
    /\ session = [s \in SessionIds |-> "absent"]
    /\ bindings = {}
    /\ step = [q \in Requests |-> "absent"]
    /\ ordinal = [q \in Requests |-> 0]
    /\ attached = [q \in Requests |-> FALSE]
    /\ result = [q \in Requests |-> FALSE]
    /\ run = [q \in Requests |-> "absent"]
    /\ started = [q \in Requests |-> FALSE]
    /\ request = [q \in Requests |-> "idle"]
    /\ position = [q \in Requests |-> 0]
    /\ finishing = {} /\ lost = {} /\ faults = 0 /\ restarts = 0

-----------------------------------------------------------------------------
(* Opening and closing.                                                    *)

HasCapacity == Cardinality(Open) < OpenSessionsMax

CreateSession(s) ==
    /\ session[s] = "absent" /\ HasCapacity
    /\ session' = [session EXCEPT ![s] = "open"]
    /\ UNCHANGED <<bindings, step, ordinal, attached, result, runVars, request,
                   position, finishing, lost, bounds>>

CloseSession(s) ==
    /\ session[s] = "open"
    /\ session' = [session EXCEPT ![s] = "closed"]
    /\ UNCHANGED <<bindings, step, ordinal, attached, result, runVars, request,
                   position, finishing, lost, bounds>>

ReopenSession(s) ==
    /\ session[s] = "closed" /\ HasCapacity
    /\ session' = [session EXCEPT ![s] = "open"]
    /\ UNCHANGED <<bindings, step, ordinal, attached, result, runVars, request,
                   position, finishing, lost, bounds>>

-----------------------------------------------------------------------------
(* Bindings.  resolveBindingValue looks the step up when its turn comes,   *)
(* then awaits its artifact; the row is inserted after that.               *)

Resolvable(q, n) ==
    \E p \in Steps(SessionOf[q]) : ordinal[p] = n /\ result[p]

\* Await binding i of request q, or give the request up when the step it
\* refers to is missing or has no result.
Await(q, i) ==
    /\ request' = [request EXCEPT ![q] =
           IF i <= Len(BindsTo[q]) /\ ~Resolvable(q, BindsTo[q][i])
           THEN "over" ELSE "binding"]
    /\ position' = [position EXCEPT ![q] = i]

\* The handler checks that the session is open before its first await, and
\* never again.
BeginRequest(q) ==
    /\ request[q] = "idle" /\ session[SessionOf[q]] = "open"
    /\ Await(q, 1)
    /\ UNCHANGED <<tables, runVars, finishing, lost, bounds>>

\* The binding row at the request's position.
BindingRow(q) == <<q, BindsTo[q][position[q]]>>

\* Faulty variant: the row is inserted before its reference is resolved.
BindNextEagerly(q) ==
    /\ request[q] = "binding" /\ position[q] < Len(BindsTo[q])
    /\ bindings' = bindings \cup {BindingRow(q), <<q, BindsTo[q][position[q] + 1]>>}
    /\ Await(q, position[q] + 1)
    /\ UNCHANGED <<session, step, ordinal, attached, result, runVars,
                   finishing, lost, bounds>>

\* The artifact arrives, its binding is recorded and the next one is awaited.
BindNext(q) ==
    /\ request[q] = "binding" /\ position[q] < Len(BindsTo[q])
    /\ bindings' = bindings \cup {BindingRow(q)}
    /\ Await(q, position[q] + 1)
    /\ UNCHANGED <<session, step, ordinal, attached, result, runVars,
                   finishing, lost, bounds>>

\* The artifact cannot be read or is not what the binding expects.
BindFails(q) ==
    /\ request[q] = "binding" /\ position[q] <= Len(BindsTo[q])
    /\ request' = [request EXCEPT ![q] = "over"]
    /\ UNCHANGED <<tables, runVars, position, finishing, lost, bounds>>

\* Rows the last awaited artifact adds.
LastBinding(q) == IF BindsTo[q] = <<>> THEN {} ELSE {BindingRow(q)}

LastArtifactArrives(q) ==
    /\ request[q] = "binding" /\ position[q] >= Len(BindsTo[q])
    /\ bindings' = bindings \cup LastBinding(q)
    /\ request' = [request EXCEPT ![q] = "over"]

SelectBinding(q) ==
    /\ q \in Selects
    /\ LastArtifactArrives(q)
    /\ UNCHANGED <<session, step, ordinal, attached, result, runVars, position,
                   finishing, lost, bounds>>

-----------------------------------------------------------------------------
(* Launching.  The run is launched, its row read back as a handle, and the *)
(* step inserted, attached and, when the handle is already running,        *)
(* claimed: run.started was published before there was a step to find.     *)

\* Faulty variant: only steps with a result count.
NextOrdinalOfFinished(s) ==
    1 + Max({0} \cup {ordinal[p] : p \in {x \in Steps(s) : result[x]}})

NextOrdinal(s) == 1 + Max({0} \cup {ordinal[p] : p \in Steps(s)})

\* Faulty variant: the step waits for a run.started that has been missed.
StatementsNoCatchUp(st) == 2

\* The store statements that record the step of a run launched as st.
Statements(st) == IF st = "running" THEN 3 ELSE 2

\* The first done statements succeed: insertStep, attachStepRun and
\* claimStepForStart.  A step that is not fully recorded is lost.
RecordStep(q, st, done) ==
    /\ step' = [step EXCEPT ![q] =
           IF done = 0 THEN "absent" ELSE IF done = 3 THEN "running" ELSE "queued"]
    /\ ordinal' = [ordinal EXCEPT ![q] =
           IF done = 0 THEN 0 ELSE NextOrdinal(SessionOf[q])]
    /\ attached' = [attached EXCEPT ![q] = done >= 2]
    /\ lost' = IF done < Statements(st) THEN lost \cup {q} ELSE lost
    /\ faults' = IF done < Statements(st) THEN faults + 1 ELSE faults
    /\ faults' <= MaxFaults

LaunchStep(q) ==
    /\ q \notin Selects
    /\ LastArtifactArrives(q)
    /\ \E st \in {"queued", "running"} :
          /\ run' = [run EXCEPT ![q] = st]
          /\ started' = [started EXCEPT ![q] = st = "running"]
          /\ \E done \in 0 .. Statements(st) : RecordStep(q, st, done)
    /\ UNCHANGED <<session, result, position, finishing, restarts>>

\* launch() throws: no capacity, or a confirmation is required.  The
\* bindings stay.
LaunchRefused(q) ==
    /\ q \notin Selects
    /\ LastArtifactArrives(q)
    /\ UNCHANGED <<session, step, ordinal, attached, result, runVars, position,
                   finishing, lost, bounds>>

-----------------------------------------------------------------------------
(* Events of the runs.  run.started is handled in the turn it is           *)
(* published; run.ended of a step that is not running is ignored.          *)

StartRun(q) ==
    /\ run[q] = "queued"
    /\ run' = [run EXCEPT ![q] = "running"]
    /\ started' = [started EXCEPT ![q] = TRUE]
    /\ step' = [step EXCEPT ![q] =
                   IF attached[q] /\ @ = "queued" THEN "running" ELSE @]
    /\ UNCHANGED <<session, bindings, ordinal, attached, result, request,
                   position, finishing, lost, bounds>>

\* The claim of the step throws, and the sink logs it.
StartRunClaimFails(q) ==
    /\ run[q] = "queued" /\ attached[q]
    /\ faults < MaxFaults /\ faults' = faults + 1
    /\ run' = [run EXCEPT ![q] = "running"]
    /\ started' = [started EXCEPT ![q] = TRUE]
    /\ lost' = lost \cup {q}
    /\ UNCHANGED <<tables, request, position, finishing, restarts>>

\* Artifacts of a session that its steps refer to.
Total(s) == Cardinality({p \in Steps(s) : result[p]})

\* run.ended: the running total is read and checked against the cap, and the
\* artifact begins to be written.
EndRun(q, outcome) ==
    /\ run[q] = "running"
    /\ run' = [run EXCEPT ![q] = outcome]
    /\ LET handled == attached[q] /\ step[q] = "running"
           fits == Total(SessionOf[q]) + 1 <= TotalMax
       IN  /\ finishing' = IF handled /\ fits THEN finishing \cup {q} ELSE finishing
           /\ lost' = IF handled /\ ~fits THEN lost \cup {q} ELSE lost
    /\ UNCHANGED <<tables, started, request, position, bounds>>

\* A queued run is abandoned by its timeout or a cancellation; run.ended finds
\* its step queued.
AbandonRun(q) ==
    /\ run[q] = "queued"
    /\ run' = [run EXCEPT ![q] = "interrupted"]
    /\ UNCHANGED <<tables, started, request, position, finishing, lost, bounds>>

\* Faulty variant: a closed session takes no more results.
FinishStepIfOpen(q) ==
    /\ q \in finishing
    /\ finishing' = finishing \ {q}
    /\ LET applies == session[SessionOf[q]] = "open"
       IN  /\ step' = [step EXCEPT ![q] = IF applies THEN run[q] ELSE @]
           /\ result' = [result EXCEPT ![q] = applies]
    /\ UNCHANGED <<session, bindings, ordinal, attached, runVars, request,
                   position, lost, bounds>>

\* Faulty variant: the outcome of the step is always success.
FinishStepAsSuccess(q) ==
    /\ q \in finishing
    /\ finishing' = finishing \ {q}
    /\ step' = [step EXCEPT ![q] = "success"]
    /\ result' = [result EXCEPT ![q] = TRUE]
    /\ UNCHANGED <<session, bindings, ordinal, attached, runVars, request,
                   position, lost, bounds>>

\* The artifact is written and the step finished with the event's outcome.
FinishStep(q) ==
    /\ q \in finishing /\ step[q] = "running"
    /\ finishing' = finishing \ {q}
    /\ step' = [step EXCEPT ![q] = run[q]]
    /\ result' = [result EXCEPT ![q] = TRUE]
    /\ UNCHANGED <<session, bindings, ordinal, attached, runVars, request,
                   position, lost, bounds>>

\* The artifact or the row cannot be written.
FinishStepFails(q) ==
    /\ q \in finishing
    /\ faults < MaxFaults /\ faults' = faults + 1
    /\ finishing' = finishing \ {q}
    /\ lost' = lost \cup {q}
    /\ UNCHANGED <<tables, runVars, request, position, restarts>>

Live(q) == run[q] \in {"queued", "running"}

\* Faulty variant: the boot puts unfinished steps back into the queue.
RestartRequeuingSteps ==
    /\ restarts < MaxRestarts /\ restarts' = restarts + 1
    /\ run' = [q \in Requests |-> IF Live(q) THEN "interrupted" ELSE run[q]]
    /\ step' = [q \in Requests |->
           IF step[q] = "running" THEN "queued" ELSE step[q]]
    /\ request' = [q \in Requests |->
                      IF request[q] = "binding" THEN "over" ELSE request[q]]
    /\ lost' = lost \cup finishing \cup {q \in Requests : Live(q)}
    /\ finishing' = {}
    /\ UNCHANGED <<session, bindings, ordinal, attached, result, started,
                   position, faults>>

\* The process dies and the next boot reconciles the runs, without events.
Restart ==
    /\ restarts < MaxRestarts /\ restarts' = restarts + 1
    /\ run' = [q \in Requests |-> IF Live(q) THEN "interrupted" ELSE run[q]]
    /\ request' = [q \in Requests |->
                      IF request[q] = "binding" THEN "over" ELSE request[q]]
    /\ lost' = lost \cup finishing \cup {q \in Requests : Live(q)}
    /\ finishing' = {}
    /\ UNCHANGED <<tables, started, position, faults>>

-----------------------------------------------------------------------------
Next ==
    \/ \E s \in SessionIds : CreateSession(s) \/ CloseSession(s) \/ ReopenSession(s)
    \/ \E q \in Requests :
          \/ BeginRequest(q) \/ BindNext(q) \/ BindFails(q) \/ SelectBinding(q)
          \/ LaunchStep(q) \/ LaunchRefused(q)
          \/ StartRun(q) \/ StartRunClaimFails(q) \/ AbandonRun(q)
          \/ \E outcome \in Outcomes : EndRun(q, outcome)
          \/ FinishStep(q) \/ FinishStepFails(q)
    \/ Restart

Spec == Init /\ [][Next]_vars

\* Executors settle, and so do file operations.
Fairness ==
    \A q \in Requests :
        /\ WF_vars(\E outcome \in Outcomes : EndRun(q, outcome))
        /\ WF_vars(FinishStep(q) \/ FinishStepFails(q))

FairSpec == Spec /\ Fairness

-----------------------------------------------------------------------------
\* No more than openSessionsMax sessions are open, however they are created,
\* closed and reopened.
OpenSessionsBounded == Cardinality(Open) <= OpenSessionsMax

\* The ordinals of a session's steps are 1, 2, 3 ... without gap or
\* duplicate, although requests for the same session interleave: references
\* name a step by its ordinal.
OrdinalsAreDense ==
    \A s \in SessionIds :
        {ordinal[p] : p \in Steps(s)} = 1 .. Cardinality(Steps(s))

\* Every variable has its type, and the tables are well formed: the cap on
\* open sessions holds and references by ordinal are unambiguous.
TypeOK ==
    /\ session \in [SessionIds -> {"absent", "open", "closed"}]
    /\ bindings \subseteq (Requests \X Nat)
    /\ step \in [Requests -> {"absent", "queued", "running"} \cup Outcomes]
    /\ ordinal \in [Requests -> Nat]
    /\ attached \in [Requests -> BOOLEAN] /\ result \in [Requests -> BOOLEAN]
    /\ run \in [Requests -> {"absent", "queued", "running"} \cup Outcomes]
    /\ started \in [Requests -> BOOLEAN]
    /\ request \in [Requests -> {"idle", "binding", "over"}]
    /\ \A q \in Requests : position[q] \in 0 .. Max({1, Len(BindsTo[q])})
    /\ finishing \subseteq Requests /\ lost \subseteq Requests
    /\ OpenSessionsBounded /\ OrdinalsAreDense
    /\ faults \in 0 .. MaxFaults /\ restarts \in 0 .. MaxRestarts

\* A binding row refers to a step of its session whose result is recorded.
BoundStepsHaveResults == \A b \in bindings : Resolvable(b[1], b[2])

\* A step runs only after its run has started, and ends only after its run
\* has ended and with the same outcome.
StepsFollowTheirRuns ==
    \A q \in Requests :
        /\ step[q] = "running" => attached[q] /\ started[q]
        /\ step[q] \in Outcomes => step[q] = run[q]

\* Unless the handling of an event failed or died, a step whose run has
\* started is not left queued (launch() publishes run.started before the step
\* exists), and one whose run has ended is finished or about to be.
NoStartedStepIsForgotten ==
    \A q \in Requests \ lost :
        attached[q] /\ started[q] =>
            /\ step[q] # "queued"
            /\ step[q] = "running" => run[q] = "running" \/ q \in finishing

\* The steps' table moves as the runs' table does ("a step's lifecycle is the
\* same FSM shape as a run's", store/migrations/registry.ts:246).
StepLifecycle == INSTANCE RunLifecycle WITH
    Runs <- Requests,
    Scripts <- {},
    ScriptOf <- SessionOf,
    MaxConcurrency <- Cardinality(Requests),
    MaxPerScript <- 0,
    status <- step,
    started <- [q \in Requests |-> step[q] \notin {"absent", "queued"}]

StepsImplementLifecycle == StepLifecycle!Spec

\* A running step ends, or the handling of one of its events failed.
RunningStepsEnd ==
    \A q \in Requests :
        step[q] = "running" ~> step[q] \in Outcomes \/ q \in lost

\* The step of a run that has ended is ended too (service.ts says run.ended
\* "finishes the step").
EndedRunsEndTheirSteps ==
    \A q \in Requests :
        attached[q] /\ run[q] \in Outcomes /\ q \notin finishing =>
            step[q] \in Outcomes

\* A step is only added to an open session.  Said of the steps that await an
\* artifact on the way.
StepsJoinOpenSessions ==
    [][\A q \in Requests :
           BindsTo[q] # <<>> /\ step[q] = "absent" /\ step'[q] # "absent" =>
               session[SessionOf[q]] = "open"]_vars

\* The artifacts of a session stay within the session-total cap.
TotalWithinCap == \A s \in SessionIds : Total(s) <= TotalMax
=============================================================================
