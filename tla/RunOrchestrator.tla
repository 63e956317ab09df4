--------------------------- MODULE RunOrchestrator ---------------------------
(***************************************************************************)
(* The run orchestrator of the console server (runs/orchestrator.ts and    *)
(* runs/orchestrator-cancel.ts) over the run governor and the SQLite table *)
(* console_runs.  One action is one turn of the event loop: everything a   *)
(* handler, a timer callback or a promise continuation does before it      *)
(* returns.  Rows are durable, everything else dies with the process.      *)
(*                                                                         *)
(* Store failures, executors that throw synchronously and process deaths   *)
(* are explicit actions, bounded by MaxFaults and MaxCrashes.              *)
(***************************************************************************)
EXTENDS RunGovernor, FiniteSets, Sequences

CONSTANTS
    Runs,         \* launch requests, each identified by its run id
    ScriptOf,     \* the script each launch request names
    SpawnScripts, \* scripts run as a child process, the others in process
    Outcomes,     \* terminal statuses the executors report
    MaxClock,     \* bound: distinct millisecond stamps of launches
    MaxFaults,    \* bound: failing store calls and executors
    MaxCrashes    \* bound: process deaths

ASSUME OrchestratorAssumption ==
    /\ IsFiniteSet(Runs)
    /\ ScriptOf \in [Runs -> Scripts]
    /\ SpawnScripts \subseteq Scripts
    /\ "interrupted" \in Outcomes
    /\ Outcomes \subseteq
           {"success", "failure", "dry-run", "interrupted", "partial"}
    /\ MaxClock \in Nat /\ MaxFaults \in Nat /\ MaxCrashes \in Nat

VARIABLES
    \* the table console_runs, one row per inserted run
    status,         \* "absent" until insertQueued
    queuedAt,       \* queued_at_ms
    started,        \* started_at_ms IS NOT NULL
    \* memory of the process
    up,             \* the process serves
    gov,            \* the governor's two ledgers
    pendingQueued,  \* keys of the map pendingQueued
    queueTimers,    \* keys of the map queueTimers
    active,         \* keys of the map active
    aborted,        \* active runs whose AbortController has fired
    rejected,       \* active runs whose settle promise has rejected
    drain,          \* drainActive: "off", "waiting" in its loop, "done"
    drainWait,      \* the snapshot its current allSettled waits for
    feed,           \* run events published so far, per run
    \* bookkeeping of the bounds
    clock,          \* Date.now() of the latest launch
    faults,
    crashes

rowVars == <<status, queuedAt, started>>
memVars == <<gov, pendingQueued, queueTimers, active, aborted, rejected,
             drain, drainWait, feed>>
vars == <<status, queuedAt, started, up, gov, pendingQueued, queueTimers,
          active, aborted, rejected, drain, drainWait, feed, clock, faults,
          crashes>>

Live == {"queued", "running"}
Statuses == {"absent"} \cup Live \cup Outcomes
InStatus(st, x) == {r \in Runs : st[r] = x}

draining == drain # "off"

Publish(r, e) == [feed EXCEPT ![r] = Append(@, e)]

Init ==
    /\ status = [r \in Runs |-> "absent"]
    /\ queuedAt = [r \in Runs |-> 0]
    /\ started = [r \in Runs |-> FALSE]
    /\ up = TRUE
    /\ gov = IdleGovernor
    /\ pendingQueued = {} /\ queueTimers = {}
    /\ active = {} /\ aborted = {} /\ rejected = {}
    /\ drain = "off" /\ drainWait = {}
    /\ feed = [r \in Runs |-> <<>>]
    /\ clock = 0 /\ faults = 0 /\ crashes = 0

-----------------------------------------------------------------------------
(* The rest of the process's memory is lost, the rows are not. *)
ProcessDies ==
    /\ crashes < MaxCrashes
    /\ crashes' = crashes + 1
    /\ up' = FALSE
    /\ gov' = IdleGovernor
    /\ pendingQueued' = {} /\ queueTimers' = {}
    /\ active' = {} /\ aborted' = {} /\ rejected' = {}
    /\ drain' = "off" /\ drainWait' = {}
    /\ feed' = [r \in Runs |-> <<>>]

-----------------------------------------------------------------------------
(* launch: admission, insertQueued, then startRun or the queue.  Launches  *)
(* the confirmation policy denies or the governor rejects change nothing.  *)
(* launch never asks whether the orchestrator is draining.                 *)

\* A launch request arrives at a millisecond no earlier than the last one.
InsertQueued(r, t) ==
    /\ up
    /\ status[r] = "absent"
    /\ queuedAt' = [queuedAt EXCEPT ![r] = t]
    /\ clock' = t

LaunchStarts(r, t) ==
    /\ InsertQueued(r, t)
    /\ Decide(gov, ScriptOf[r]) = "accept"
    /\ gov' = Accept(gov, ScriptOf[r])
    /\ status' = [status EXCEPT ![r] = "running"]
    /\ started' = [started EXCEPT ![r] = TRUE]
    /\ feed' = [feed EXCEPT ![r] = @ \o <<"queued", "started">>]
    /\ active' = active \cup {r}
    /\ UNCHANGED <<up, pendingQueued, queueTimers, aborted, rejected, drain,
                   drainWait, faults, crashes>>

\* Faulty variant: the queue timeout is never armed.
LaunchQueuesUntimed(r, t) ==
    /\ InsertQueued(r, t)
    /\ Decide(gov, ScriptOf[r]) = "queue"
    /\ gov' = Enqueue(gov)
    /\ status' = [status EXCEPT ![r] = "queued"]
    /\ feed' = Publish(r, "queued")
    /\ pendingQueued' = pendingQueued \cup {r}
    /\ UNCHANGED <<started, up, queueTimers, active, aborted, rejected, drain,
                   drainWait, faults, crashes>>

LaunchQueues(r, t) ==
    /\ InsertQueued(r, t)
    /\ Decide(gov, ScriptOf[r]) = "queue"
    /\ gov' = Enqueue(gov)
    /\ status' = [status EXCEPT ![r] = "queued"]
    /\ feed' = Publish(r, "queued")
    /\ pendingQueued' = pendingQueued \cup {r}
    /\ queueTimers' = queueTimers \cup {r}
    /\ UNCHANGED <<started, up, active, aborted, rejected, drain, drainWait,
                   faults, crashes>>

\* Faulty variant: the reservation of a row never written is kept.
LaunchInsertFailsKeepingSlot(r) ==
    /\ up /\ status[r] = "absent"
    /\ faults < MaxFaults /\ faults' = faults + 1
    /\ Decide(gov, ScriptOf[r]) = "accept"
    /\ gov' = Accept(gov, ScriptOf[r])
    /\ UNCHANGED <<rowVars, up, pendingQueued, queueTimers, active, aborted,
                   rejected, drain, drainWait, feed, clock, crashes>>

\* insertQueued throws: persistQueuedRow takes the reservation back.
LaunchInsertFails(r) ==
    /\ up /\ status[r] = "absent"
    /\ faults < MaxFaults /\ faults' = faults + 1
    /\ LET s == ScriptOf[r] IN
       \/ /\ Decide(gov, s) = "accept"
          /\ gov' = Release(Accept(gov, s), s)
       \/ /\ Decide(gov, s) = "queue"
          /\ gov' = Dequeue(Enqueue(gov))
    /\ UNCHANGED <<rowVars, up, pendingQueued, queueTimers, active, aborted,
                   rejected, drain, drainWait, feed, clock, crashes>>

\* claimForStart throws inside startRun: the request fails, the row stays
\* "queued", and nothing takes the slot back.
LaunchClaimFails(r, t) ==
    /\ InsertQueued(r, t)
    /\ faults < MaxFaults /\ faults' = faults + 1
    /\ Decide(gov, ScriptOf[r]) = "accept"
    /\ gov' = Accept(gov, ScriptOf[r])
    /\ status' = [status EXCEPT ![r] = "queued"]
    /\ feed' = Publish(r, "queued")
    /\ UNCHANGED <<started, up, pendingQueued, queueTimers, active, aborted,
                   rejected, drain, drainWait, crashes>>

\* execute() throws before it returns a promise (spawn(2) refusing its
\* arguments): the row is "running" but no entry of the map active exists.
LaunchExecuteThrows(r, t) ==
    /\ InsertQueued(r, t)
    /\ faults < MaxFaults /\ faults' = faults + 1
    /\ Decide(gov, ScriptOf[r]) = "accept"
    /\ gov' = Accept(gov, ScriptOf[r])
    /\ status' = [status EXCEPT ![r] = "running"]
    /\ started' = [started EXCEPT ![r] = TRUE]
    /\ feed' = [feed EXCEPT ![r] = @ \o <<"queued", "started">>]
    /\ UNCHANGED <<up, pendingQueued, queueTimers, active, aborted, rejected,
                   drain, drainWait, crashes>>

\* The process dies between the two commits of a launch.
LaunchCutShort(r, t) ==
    /\ InsertQueued(r, t)
    /\ Decide(gov, ScriptOf[r]) = "accept"
    /\ status' = [status EXCEPT ![r] = "queued"]
    /\ ProcessDies
    /\ UNCHANGED <<started, faults>>

-----------------------------------------------------------------------------
(* pumpQueue scans at most queueCapacity + maxConcurrency queued rows,     *)
(* oldest first (rows of one millisecond in any order), and starts the     *)
(* first one the governor accepts and the process still holds.             *)

ListLimit == QueueCapacity + MaxConcurrency

\* What registry.list may return for the rows st.
Listings(st) ==
    LET queued == InStatus(st, "queued") IN
    {L \in SUBSET queued :
        /\ \A a \in L, b \in queued \ L : queuedAt[a] <= queuedAt[b]
        /\ Cardinality(L) <= ListLimit
        /\ Cardinality(L) < ListLimit => L = queued}

Startable(L, g) ==
    {q \in L : HasSlot(g, ScriptOf[q]) /\ q \in pendingQueued}

\* The pump leaves the rows st, ledgers g, active runs act and events fd as
\* its caller prepared them, or starts q on top of them.
PumpIdles(st, g, act, fd) ==
    /\ status' = st /\ gov' = g /\ active' = act /\ feed' = fd
    /\ UNCHANGED <<started, pendingQueued, queueTimers>>

PumpStarts(q, st, g, act, fd) ==
    /\ gov' = Dequeue(Accept(g, ScriptOf[q]))
    /\ pendingQueued' = pendingQueued \ {q}
    /\ queueTimers' = queueTimers \ {q}
    /\ status' = [st EXCEPT ![q] = "running"]
    /\ started' = [started EXCEPT ![q] = TRUE]
    /\ active' = act \cup {q}
    /\ feed' = [fd EXCEPT ![q] = Append(@, "started")]

\* Faulty variant: the newest waiting run is started first.
PumpQueueNewestFirst(st, g, act, fd) ==
    \E L \in Listings(st) :
       IF draining \/ Startable(L, g) = {}
       THEN PumpIdles(st, g, act, fd)
       ELSE \E q \in Startable(L, g) :
              /\ \A p \in Startable(L, g) : queuedAt[p] <= queuedAt[q]
              /\ PumpStarts(q, st, g, act, fd)

\* Faulty variant: the pump does not ask whether a drain has begun.
PumpQueueWhileDraining(st, g, act, fd) ==
    \E L \in Listings(st) :
       IF Startable(L, g) = {}
       THEN PumpIdles(st, g, act, fd)
       ELSE \E q \in Startable(L, g) :
              /\ \A p \in Startable(L, g) : queuedAt[q] <= queuedAt[p]
              /\ PumpStarts(q, st, g, act, fd)

PumpQueue(st, g, act, fd) ==
    \E L \in Listings(st) :
       IF draining \/ Startable(L, g) = {}
       THEN PumpIdles(st, g, act, fd)
       ELSE \E q \in Startable(L, g) :
              /\ \A p \in Startable(L, g) : queuedAt[q] <= queuedAt[p]
              /\ PumpStarts(q, st, g, act, fd)

\* Faulty variant: the queue is pumped before the slot is given back.
SettlePumpsFirst(r, outcome) ==
    /\ up /\ r \in active \ rejected
    /\ aborted' = aborted \ {r}
    /\ \E L \in Listings(status) : Startable(L, gov) = {}
    /\ status' = [status EXCEPT ![r] = outcome]
    /\ gov' = Release(gov, ScriptOf[r])
    /\ active' = active \ {r}
    /\ feed' = Publish(r, "ended")
    /\ UNCHANGED <<queuedAt, started, up, pendingQueued, queueTimers, rejected,
                   drain, drainWait, clock, faults, crashes>>

\* The executor's promise settles: finishActiveRun records the outcome,
\* gives the slot back and pumps the queue, in one continuation.
Settle(r, outcome) ==
    /\ up /\ r \in active \ rejected
    /\ aborted' = aborted \ {r}
    /\ PumpQueue([status EXCEPT ![r] = outcome],
                 Release(gov, ScriptOf[r]),
                 active \ {r},
                 Publish(r, "ended"))
    /\ UNCHANGED <<queuedAt, up, rejected, drain, drainWait, clock, faults,
                   crashes>>

\* Faulty variant: run.ended is published before the outcome is written.
SettleWriteFailsAfterPublish(r) ==
    /\ up /\ r \in active \ rejected
    /\ faults < MaxFaults /\ faults' = faults + 1
    /\ r \in drainWait
    /\ rejected' = rejected \cup {r}
    /\ feed' = Publish(r, "ended")
    /\ UNCHANGED <<rowVars, up, gov, pendingQueued, queueTimers, active,
                   aborted, drain, drainWait, clock, crashes>>

\* registry.finish throws: the promise in the map active rejects.  Only a
\* drain that already waits for it handles the rejection, and then the entry
\* and its slot stay; otherwise the rejection is unhandled, which ends the
\* process.
SettleWriteFails(r) ==
    /\ up /\ r \in active \ rejected
    /\ faults < MaxFaults /\ faults' = faults + 1
    /\ \/ /\ r \in drainWait
          /\ rejected' = rejected \cup {r}
          /\ UNCHANGED <<up, gov, pendingQueued, queueTimers, active, aborted,
                         drain, drainWait, feed, crashes>>
       \/ r \notin drainWait /\ ProcessDies
    /\ UNCHANGED <<rowVars, clock>>

\* The process dies after the outcome is committed and before the pump's
\* claim is (a kill, or a store failure inside the pump).
SettleCutShort(r, outcome) ==
    /\ up /\ r \in active \ rejected
    /\ status' = [status EXCEPT ![r] = outcome]
    /\ ProcessDies
    /\ UNCHANGED <<queuedAt, started, clock, faults>>

-----------------------------------------------------------------------------
(* Queue eviction: the queue timer, or an operator's cancel. *)

\* abandonQueuedRun, after its caller dropped the timer and the map entry.
AbandonQueuedRun(r) ==
    /\ queueTimers' = queueTimers \ {r}
    /\ pendingQueued' = pendingQueued \ {r}
    /\ IF status[r] = "queued"
       THEN /\ status' = [status EXCEPT ![r] = "interrupted"]
            /\ feed' = Publish(r, "ended")
            /\ gov' = Dequeue(gov)
       ELSE UNCHANGED <<status, feed, gov>>
    /\ UNCHANGED <<queuedAt, started, up, active, aborted, rejected, drain,
                   drainWait, clock, faults, crashes>>

\* Faulty variant: the timer callback forgets the map pendingQueued.
QueueTimeoutKeepingEntry(r) ==
    /\ up /\ r \in queueTimers /\ status[r] = "queued"
    /\ queueTimers' = queueTimers \ {r}
    /\ status' = [status EXCEPT ![r] = "interrupted"]
    /\ feed' = Publish(r, "ended")
    /\ gov' = Dequeue(gov)
    /\ UNCHANGED <<queuedAt, started, up, pendingQueued, active, aborted,
                   rejected, drain, drainWait, clock, faults, crashes>>

QueueTimeout(r) == up /\ r \in queueTimers /\ AbandonQueuedRun(r)

CancelQueued(r) ==
    up /\ r \notin active /\ r \in pendingQueued /\ AbandonQueuedRun(r)

\* Faulty variant: a run is aborted without asking whether it is active.
CancelActiveUnchecked(r) ==
    /\ up /\ status[r] \in Live /\ r \notin aborted
    /\ aborted' = aborted \cup {r}
    /\ UNCHANGED <<rowVars, up, gov, pendingQueued, queueTimers, active,
                   rejected, drain, drainWait, feed, clock, faults, crashes>>

\* An active run is only aborted; its own continuation writes the outcome.
CancelActive(r) ==
    /\ up /\ r \in active \ aborted
    /\ aborted' = aborted \cup {r}
    /\ UNCHANGED <<rowVars, up, gov, pendingQueued, queueTimers, active,
                   rejected, drain, drainWait, feed, clock, faults, crashes>>

\* The guarded UPDATE throws in the cancel request: timer and map entry are
\* gone, row and reservation stay.  In the timer callback the same failure is
\* an uncaught exception, which is Crash.
CancelWriteFails(r) ==
    /\ up /\ r \notin active /\ r \in pendingQueued
    /\ faults < MaxFaults /\ faults' = faults + 1
    /\ queueTimers' = queueTimers \ {r}
    /\ pendingQueued' = pendingQueued \ {r}
    /\ UNCHANGED <<rowVars, up, gov, active, aborted, rejected, drain,
                   drainWait, feed, clock, crashes>>

-----------------------------------------------------------------------------
(* drainActive: close the pump, then abort and await snapshots of the map  *)
(* active until it is empty.                                               *)

\* Faulty variant: the drain awaits the active runs without aborting them.
DrainRoundPatient ==
    /\ drain' = IF active = {} THEN "done" ELSE "waiting"
    /\ drainWait' = active
    /\ UNCHANGED <<rowVars, up, gov, pendingQueued, queueTimers, active,
                   aborted, rejected, feed, clock, faults, crashes>>

DrainRound ==
    /\ drain' = IF active = {} THEN "done" ELSE "waiting"
    /\ drainWait' = active
    /\ aborted' = aborted \cup active
    /\ UNCHANGED <<rowVars, up, gov, pendingQueued, queueTimers, active,
                   rejected, feed, clock, faults, crashes>>

DrainBegins == up /\ drain = "off" /\ DrainRound

\* Promise.allSettled of the snapshot has settled.
SnapshotSettled == drain = "waiting" /\ drainWait \cap active \subseteq rejected

DrainResumes == up /\ SnapshotSettled /\ DrainRound

\* With nothing left to wait for but rejected promises the loop re-awaits
\* settled promises for ever, in microtasks: no other callback runs again.
Spinning == SnapshotSettled /\ active # {} /\ active \subseteq rejected

-----------------------------------------------------------------------------
Crash == up /\ ProcessDies /\ UNCHANGED <<rowVars, clock, faults>>

\* Faulty variant: a start time is made up for reconciled queued rows.
BootFabricatingStart ==
    /\ ~up /\ up' = TRUE
    /\ status' = [r \in Runs |->
                     IF status[r] \in Live THEN "interrupted" ELSE status[r]]
    /\ started' = [r \in Runs |-> started[r] \/ status[r] \in Live]
    /\ UNCHANGED <<queuedAt, memVars, clock, faults, crashes>>

\* Faulty variant: only queued rows are reconciled.
BootQueuedOnly ==
    /\ ~up /\ up' = TRUE
    /\ status' = [r \in Runs |->
                     IF status[r] = "queued" THEN "interrupted" ELSE status[r]]
    /\ UNCHANGED <<queuedAt, started, memVars, clock, faults, crashes>>

\* A new process: reconcileOnBoot, before the listener binds.
Boot ==
    /\ ~up /\ up' = TRUE
    /\ status' = [r \in Runs |->
                     IF status[r] \in Live THEN "interrupted" ELSE status[r]]
    /\ UNCHANGED <<queuedAt, started, memVars, clock, faults, crashes>>

-----------------------------------------------------------------------------
Launch(r) ==
    \/ \E t \in clock .. MaxClock :
          \/ LaunchStarts(r, t) \/ LaunchQueues(r, t)
          \/ LaunchClaimFails(r, t) \/ LaunchExecuteThrows(r, t)
          \/ LaunchCutShort(r, t)
    \/ LaunchInsertFails(r)

EventLoopTurn ==
    \E r \in Runs :
        \/ Launch(r)
        \/ \E o \in Outcomes : Settle(r, o) \/ SettleCutShort(r, o)
        \/ SettleWriteFails(r)
        \/ QueueTimeout(r)
        \/ CancelQueued(r) \/ CancelActive(r) \/ CancelWriteFails(r)

Next ==
    \/ ~Spinning /\ (EventLoopTurn \/ DrainBegins)
    \/ DrainResumes
    \/ Crash
    \/ Boot

Spec == Init /\ [][Next]_vars

\* What the platform guarantees: timers fire, resolved promises continue, a
\* supervisor restarts the server, and an aborted child process settles
\* because its executor escalates from SIGTERM to SIGKILL.  The in-process
\* executor only hands the signal to the command, which may ignore it.
\* Nothing makes an operator cancel or drain, and a run that was not aborted
\* may execute for ever.
Fairness ==
    /\ \A r \in Runs :
          /\ WF_vars(~Spinning /\ QueueTimeout(r))
          /\ ScriptOf[r] \in SpawnScripts =>
                WF_vars(/\ ~Spinning /\ r \in aborted
                        /\ \E o \in Outcomes : Settle(r, o))
    /\ WF_vars(DrainResumes)
    /\ WF_vars(Boot)

FairSpec == Spec /\ Fairness

-----------------------------------------------------------------------------
(* Properties *)

\* Every variable keeps its type.
TypeOK ==
    /\ status \in [Runs -> Statuses]
    /\ queuedAt \in [Runs -> Nat]
    /\ started \in [Runs -> BOOLEAN]
    /\ up \in BOOLEAN
    /\ gov \in Governors
    /\ pendingQueued \subseteq Runs /\ queueTimers \subseteq Runs
    /\ active \subseteq Runs /\ aborted \subseteq active
    /\ rejected \subseteq active
    /\ drain \in {"off", "waiting", "done"} /\ drainWait \subseteq Runs
    /\ feed \in [Runs -> Seq({"queued", "started", "ended"})]
    /\ clock \in Nat /\ faults \in Nat /\ crashes \in Nat

\* Reservations and live rows balance: the governor's two ledgers together
\* count exactly the rows that are queued or running, whatever store call or
\* executor failed on the way.  A failed operation may strand a row, but
\* never counts a reservation for a row that does not exist or has ended.
ReservationsMatchRows ==
    up => gov.active + gov.queued =
              Cardinality(InStatus(status, "queued"))
              + Cardinality(InStatus(status, "running"))

\* The limits hold on the table itself, across failures and restarts: no
\* more rows are running than maxConcurrency, nor of one script than
\* maxPerScript.
LimitsHold ==
    LET running == InStatus(status, "running") IN
    /\ Cardinality(running) <= MaxConcurrency
    /\ \A s \in Scripts :
           Cardinality({r \in running : ScriptOf[r] = s}) <= MaxPerScript

\* The pump's bounded listing is never truncated: a stranded queued row can
\* not push a startable one out of the queueCapacity + maxConcurrency rows
\* pumpQueue reads.
PumpSeesEveryQueuedRow ==
    Cardinality(InStatus(status, "queued")) <= ListLimit

\* No run waits that could execute: pumping once per finished run is enough
\* for the governor to refuse every run still pending, unless a drain has
\* closed the pump.
WorkConserving ==
    up /\ ~draining =>
        \A r \in pendingQueued : ~HasSlot(gov, ScriptOf[r])

\* The event feed of a run tells the truth about its row: an end is
\* published exactly once and only after it is committed, a start only after
\* the claim, and an ended run's followers have been told.
FeedMatchesRows ==
    \A r \in Runs :
        /\ feed[r] \in {<<>>, <<"queued">>, <<"queued", "started">>,
                        <<"queued", "ended">>, <<"queued", "started", "ended">>}
        /\ feed[r] # <<>> =>
              LET last == feed[r][Len(feed[r])] IN
              /\ status[r] \in Outcomes <=> last = "ended"
              /\ status[r] = "running" <=> last = "started"

\* While no store call or executor has failed, memory and table agree: the
\* active map holds the running rows, the pending map and the timers hold
\* the queued rows, and the ledgers count them, globally and per script.
MemoryMatchesRows ==
    up /\ faults = 0 =>
        /\ active = InStatus(status, "running")
        /\ pendingQueued = InStatus(status, "queued")
        /\ queueTimers = pendingQueued
        /\ gov.active = Cardinality(active)
        /\ gov.queued = Cardinality(pendingQueued)
        /\ \A s \in Scripts :
               gov.byScript[s] = Cardinality({r \in active : ScriptOf[r] = s})

Started(r) == status[r] # "running" /\ status'[r] = "running"

\* No run overtakes an older one of its own script: a run that starts leaves
\* no earlier queued run of that script pending, whether it comes from the
\* queue or straight from a launch.  (A drain closes the pump but not launch,
\* so the claim is about a server that is not draining.)
NoOvertaking ==
    [][~draining =>
         \A r \in Runs : Started(r) =>
            \A p \in pendingQueued' :
               ScriptOf[p] = ScriptOf[r] => queuedAt'[p] >= queuedAt'[r]]_vars

\* Once a drain has begun, a queued row is never started.
DrainStartsNothingQueued ==
    [][draining => \A r \in Runs : status[r] = "queued" => ~Started(r)]_vars

Lifecycle == INSTANCE RunLifecycle

\* The table behaves as RunLifecycle promises its readers.
ImplementsLifecycle == Lifecycle!Spec

-----------------------------------------------------------------------------
(* Liveness *)

\* Every queued run leaves the queue: it starts, is cancelled, times out or
\* is reconciled by the next boot.
QueuedRunsLeave ==
    \A r \in Runs : status[r] = "queued" ~> status[r] # "queued"

\* A drain ends, or the process does.
DrainCompletes == drain = "waiting" ~> drain # "waiting"

\* A cancelled run reaches a terminal row.
CancelledRunsEnd ==
    \A r \in Runs : r \in aborted ~> status[r] \in Outcomes

\* The slots the governor counts are those of the runs that execute.
NoSlotLeaks == up => gov.active = Cardinality(active)
=============================================================================
