------------------------ MODULE ConsoleShutdownProofs ------------------------
(***************************************************************************)
(* What ConsoleShutdown guarantees for every set of requests, whatever     *)
(* their routes.  The argument counts: inFlightCount of the drain          *)
(* controller is the number of tracked handlers that have not completed,   *)
(* so a drain that settles at zero leaves none of them; and drainActive    *)
(* ends only in a turn that finds no run active, so that whatever runs     *)
(* afterwards was launched afterwards.                                     *)
(***************************************************************************)
EXTENDS ConsoleShutdown, FiniteSetTheorems, TLAPS

TrackedIn(S) == {q \in S : Tracked(q)}

Typed ==
    /\ connected \subseteq Requests /\ seen \subseteq Requests
    /\ handling \subseteq seen /\ reading \subseteq handling
    /\ drainState \in {"serving", "draining", "drained"}
    /\ outcome \in {"none", "graceful", "abandoned"}
    /\ deadline \in BOOLEAN
    /\ listener \in {"listening", "closing", "closed"}
    /\ active \subseteq Requests /\ late \subseteq Requests
    /\ runsDrain \in {"off", "waiting", "done"} /\ entries \subseteq Requests
    /\ store \in {"open", "closed"}

\* The controller counts the tracked handlers, and settles gracefully only
\* when there are none; after that it takes no more.
Counted ==
    /\ inFlight = Cardinality(TrackedIn(handling))
    /\ outcome = "graceful" => drainState = "drained" /\ inFlight = 0

\* The store is closed after the runs are drained, and every run that is
\* active then was launched later.
Outlived ==
    /\ store = "closed" => runsDrain = "done"
    /\ runsDrain = "done" => active \subseteq late

ShutdownInv == Typed /\ Counted /\ Outlived

-----------------------------------------------------------------------------
(* Counting handlers.                                                      *)

\* The handlers in progress can be counted.
LEMMA HandlersAreFinite ==
    ASSUME NEW S \in SUBSET Requests
    PROVE  /\ IsFiniteSet(TrackedIn(S))
           /\ Cardinality(TrackedIn(S)) \in 0..Cardinality(Requests)
<1>1. TrackedIn(S) \subseteq Requests /\ IsFiniteSet(Requests)
  BY ShutdownAssumption DEF TrackedIn
<1>2. /\ IsFiniteSet(TrackedIn(S))
      /\ Cardinality(TrackedIn(S)) <= Cardinality(Requests)
  BY <1>1, FS_Subset
<1>3. Cardinality(TrackedIn(S)) \in Nat /\ Cardinality(Requests) \in Nat
  BY <1>1, <1>2, FS_CardinalityType
<1> QED
  BY <1>2, <1>3

\* A controller at zero has no tracked handler.
LEMMA ZeroMeansNone ==
    ASSUME NEW S \in SUBSET Requests, Cardinality(TrackedIn(S)) = 0
    PROVE  \A q \in S : ~Tracked(q)
<1>1. TrackedIn(S) = {}
  BY HandlersAreFinite, FS_EmptySet
<1> QED
  BY <1>1 DEF TrackedIn

\* A handler that begins is counted once, unless it is a probe's.
LEMMA CountOneMore ==
    ASSUME NEW S \in SUBSET Requests, NEW q \in Requests, q \notin S
    PROVE  Cardinality(TrackedIn(S \cup {q})) =
               IF Tracked(q) THEN Cardinality(TrackedIn(S)) + 1
               ELSE Cardinality(TrackedIn(S))
<1>1. CASE Tracked(q)
  <2>1. TrackedIn(S \cup {q}) = TrackedIn(S) \cup {q} /\ q \notin TrackedIn(S)
    BY <1>1 DEF TrackedIn
  <2> QED
    BY <1>1, <2>1, HandlersAreFinite, FS_AddElement
<1>2. CASE ~Tracked(q)
  <2>1. TrackedIn(S \cup {q}) = TrackedIn(S)
    BY <1>2 DEF TrackedIn
  <2> QED
    BY <1>2, <2>1
<1> QED
  BY <1>1, <1>2

\* A handler that completes was counted.
LEMMA CountOneLess ==
    ASSUME NEW S \in SUBSET Requests, NEW q \in S
    PROVE  /\ Cardinality(TrackedIn(S \ {q})) =
                  IF Tracked(q) THEN Cardinality(TrackedIn(S)) - 1
                  ELSE Cardinality(TrackedIn(S))
           /\ Tracked(q) => Cardinality(TrackedIn(S)) # 0
<1>1. CASE Tracked(q)
  <2>1. TrackedIn(S \ {q}) = TrackedIn(S) \ {q} /\ q \in TrackedIn(S)
    BY <1>1 DEF TrackedIn
  <2> QED
    BY <1>1, <2>1, HandlersAreFinite, FS_RemoveElement, FS_EmptySet
<1>2. CASE ~Tracked(q)
  <2>1. TrackedIn(S \ {q}) = TrackedIn(S)
    BY <1>2 DEF TrackedIn
  <2> QED
    BY <1>2, <2>1
<1> QED
  BY <1>1, <1>2

-----------------------------------------------------------------------------
(* The steps.                                                              *)

\* A release keeps the count, and settles a drain only at zero.
LEMMA ReleaseKeepsCount ==
    ASSUME ShutdownInv, NEW q \in handling, Release(q)
    PROVE  /\ Counted'
           /\ handling' = handling \ {q} /\ reading' = reading \ {q}
           /\ drainState' \in {"serving", "draining", "drained"}
           /\ outcome' \in {"none", "graceful", "abandoned"}
           /\ deadline' \in BOOLEAN
<1>1. /\ handling \subseteq Requests
      /\ handling' = handling \ {q} /\ reading' = reading \ {q}
      /\ inFlight = Cardinality(TrackedIn(handling))
      /\ outcome = "graceful" => drainState = "drained" /\ inFlight = 0
  BY DEF ShutdownInv, Typed, Counted, Release
<1>2. inFlight' = IF Tracked(q) THEN inFlight - 1 ELSE inFlight
  BY DEF Release
<1>3. inFlight' = Cardinality(TrackedIn(handling'))
  BY <1>1, <1>2, CountOneLess
<1>4. \/ drainState' = "drained" /\ outcome' = "graceful" /\ inFlight' = 0
         /\ deadline' = FALSE
      \/ UNCHANGED <<drainState, outcome, deadline>>
  BY DEF Release
<1>5. outcome' = "graceful" => drainState' = "drained" /\ inFlight' = 0
  <2>1. CASE UNCHANGED <<drainState, outcome, deadline>>
    <3>1. outcome = "graceful" => ~Tracked(q)
      BY <1>1, CountOneLess
    <3> QED
      BY <1>1, <1>2, <2>1, <3>1
  <2> QED
    BY <1>4, <2>1
<1>6. Counted'
  BY <1>3, <1>5 DEF Counted, TrackedIn, Tracked
<1>7. /\ drainState' \in {"serving", "draining", "drained"}
      /\ outcome' \in {"none", "graceful", "abandoned"}
  BY <1>4 DEF ShutdownInv, Typed
<1>8. deadline' \in BOOLEAN
  BY <1>4 DEF ShutdownInv, Typed
<1> QED
  BY <1>1, <1>6, <1>7, <1>8

\* A request that arrives is refused, handled untracked, or counted.
LEMMA ArrivesKeepsInv ==
    ASSUME ShutdownInv, NEW q \in Requests, Arrives(q)
    PROVE  ShutdownInv'
<1>1. /\ q \notin handling /\ handling \subseteq Requests
      /\ seen' = seen \cup {q} /\ connected' = connected \cup {q}
      /\ UNCHANGED <<drainState, outcome, deadline, listener, active, late,
                     runsDrain, entries, store>>
  BY DEF ShutdownInv, Typed, Arrives, runsVars
<1>2. \/ UNCHANGED <<inFlight, handling, reading>>
      \/ /\ ~Tracked(q) \/ drainState = "serving"
         /\ inFlight' = IF Tracked(q) THEN inFlight + 1 ELSE inFlight
         /\ handling' = handling \cup {q}
         /\ reading' \subseteq reading \cup {q}
  BY DEF Arrives
<1>3. Typed'
  BY <1>1, <1>2 DEF ShutdownInv, Typed
<1>4. Counted'
  <2>1. inFlight' = Cardinality(TrackedIn(handling'))
    BY <1>1, <1>2, CountOneMore DEF ShutdownInv, Counted
  <2>2. outcome' = "graceful" => drainState' = "drained" /\ inFlight' = 0
    BY <1>1, <1>2 DEF ShutdownInv, Counted
  <2> QED
    BY <2>1, <2>2 DEF Counted, TrackedIn, Tracked
<1>5. Outlived'
  BY <1>1 DEF ShutdownInv, Outlived
<1> QED
  BY <1>3, <1>4, <1>5 DEF ShutdownInv

\* A run launched after the drain of the runs is one of the late ones.
LEMMA LaunchKeepsInv ==
    ASSUME ShutdownInv, NEW q \in Requests, Launches(q)
    PROVE  ShutdownInv'
<1>1. q \in handling /\ Release(q)
  BY DEF Launches
<1>2. /\ Counted'
      /\ handling' = handling \ {q} /\ reading' = reading \ {q}
      /\ drainState' \in {"serving", "draining", "drained"}
      /\ outcome' \in {"none", "graceful", "abandoned"}
      /\ deadline' \in BOOLEAN
  BY <1>1, ReleaseKeepsCount
<1>3. /\ active' = active \cup {q}
      /\ late' = IF runsDrain = "done" THEN late \cup {q} ELSE late
      /\ UNCHANGED <<connected, seen, listener, runsDrain, entries, store>>
  BY DEF Launches
<1>4. Typed'
  BY <1>2, <1>3 DEF ShutdownInv, Typed
<1>5. Outlived'
  BY <1>3 DEF ShutdownInv, Outlived
<1> QED
  BY <1>2, <1>4, <1>5 DEF ShutdownInv

\* Any other handler that completes.
LEMMA CompletionKeepsInv ==
    ASSUME ShutdownInv, NEW q \in handling, Release(q),
           UNCHANGED <<connected, seen, listener, runsVars, store>>
    PROVE  ShutdownInv'
<1>1. /\ Counted'
      /\ handling' = handling \ {q} /\ reading' = reading \ {q}
      /\ drainState' \in {"serving", "draining", "drained"}
      /\ outcome' \in {"none", "graceful", "abandoned"}
      /\ deadline' \in BOOLEAN
  BY ReleaseKeepsCount
<1>2. Typed' /\ Outlived'
  BY <1>1 DEF ShutdownInv, Typed, Outlived, runsVars
<1> QED
  BY <1>1, <1>2 DEF ShutdownInv

\* The steps of a request.
LEMMA RequestKeepsInv ==
    ASSUME ShutdownInv, NEW q \in Requests,
           \/ Arrives(q) \/ BodyRead(q) \/ BodyFails(q)
           \/ Launches(q) \/ LaunchesNothing(q)
           \/ Completes(q) \/ FailsOnClosedStore(q)
           \/ Disconnects(q) \/ RunSettles(q)
    PROVE  ShutdownInv'
<1>1. CASE Arrives(q)
  BY <1>1, ArrivesKeepsInv
<1>2. CASE BodyRead(q)
  BY <1>2
  DEF BodyRead, ShutdownInv, Typed, Counted, Outlived, TrackedIn, Tracked,
      drainVars, runsVars
<1>3. CASE BodyFails(q)
  <2>1. q \in handling
    BY <1>3 DEF BodyFails, ShutdownInv, Typed
  <2> QED
    BY <1>3, <2>1, CompletionKeepsInv DEF BodyFails
<1>4. CASE Launches(q)
  BY <1>4, LaunchKeepsInv
<1>5. CASE LaunchesNothing(q) \/ Completes(q) \/ FailsOnClosedStore(q)
  BY <1>5, CompletionKeepsInv
  DEF LaunchesNothing, Completes, FailsOnClosedStore
<1>6. CASE Disconnects(q) \/ RunSettles(q)
  BY <1>6
  DEF Disconnects, RunSettles, ShutdownInv, Typed, Counted, Outlived,
      TrackedIn, Tracked, drainVars, requestVars, runsVars
<1> QED
  BY <1>1, <1>2, <1>3, <1>4, <1>5, <1>6

\* The steps of the shutdown.
LEMMA SequenceKeepsInv ==
    ASSUME ShutdownInv,
           \/ BeginShutdown \/ EntriesSettle \/ DeadlineFires \/ GraceElapses
           \/ ForceClose \/ ListenerCloses \/ StoreCloses
    PROVE  ShutdownInv'
<1>1. UNCHANGED <<handling, reading, seen, inFlight, active, late>>
      /\ connected' \subseteq connected
  BY DEF BeginShutdown, EntriesSettle, DeadlineFires, GraceElapses, ForceClose,
         ListenerCloses, StoreCloses, requestVars, drainVars, runsVars
<1>2. Typed'
  <2>1. deadline' \in BOOLEAN
    BY DEF ShutdownInv, Typed, BeginShutdown, EntriesSettle, DeadlineFires,
           GraceElapses, ForceClose, ListenerCloses, StoreCloses, drainVars,
         runsVars, DrainAgain
  <2>2. /\ drainState' \in {"serving", "draining", "drained"}
        /\ outcome' \in {"none", "graceful", "abandoned"}
        /\ listener' \in {"listening", "closing", "closed"}
        /\ runsDrain' \in {"off", "waiting", "done"}
        /\ store' \in {"open", "closed"} /\ entries' \subseteq Requests
    BY DEF ShutdownInv, Typed, BeginShutdown, EntriesSettle, DeadlineFires,
           GraceElapses, ForceClose, ListenerCloses, StoreCloses, drainVars,
         runsVars, DrainAgain
  <2> QED
    BY <1>1, <2>1, <2>2 DEF ShutdownInv, Typed
<1>3. outcome' = "graceful" => drainState' = "drained" /\ inFlight' = 0
  BY DEF ShutdownInv, Counted, BeginShutdown, EntriesSettle, DeadlineFires,
         GraceElapses, ForceClose, ListenerCloses, StoreCloses, drainVars,
         runsVars, DrainAgain
<1>4. Counted'
  BY <1>1, <1>3 DEF ShutdownInv, Counted, TrackedIn, Tracked
<1>5. Outlived'
  BY <1>1
  DEF ShutdownInv, Outlived, BeginShutdown, EntriesSettle, DeadlineFires,
      GraceElapses, ForceClose, ListenerCloses, StoreCloses, ShutdownBegun,
      DrainAgain, runsVars
<1> QED
  BY <1>2, <1>4, <1>5 DEF ShutdownInv

-----------------------------------------------------------------------------
(* The theorems.                                                           *)

\* The invariant holds in every reachable state.
THEOREM AlwaysCounted == Spec => []ShutdownInv
<1>1. Init => ShutdownInv
  <2> SUFFICES ASSUME Init PROVE ShutdownInv
    OBVIOUS
  <2>1. Typed /\ Outlived
    BY DEF Init, Typed, Outlived
  <2>2. TrackedIn({}) = {} /\ Cardinality({}) = 0
    BY FS_EmptySet DEF TrackedIn
  <2> QED
    BY <2>1, <2>2 DEF Init, ShutdownInv, Counted
<1>2. ASSUME ShutdownInv, [Next]_vars PROVE ShutdownInv'
  <2>1. CASE UNCHANGED vars
    BY <1>2, <2>1
    DEF vars, requestVars, runsVars, ShutdownInv, Typed, Counted, Outlived,
        TrackedIn, Tracked
  <2> QED
    BY <1>2, <2>1, RequestKeepsInv, SequenceKeepsInv DEF Next
<1> QED
  BY <1>1, <1>2, PTL DEF Spec

\* Types, and that a drain which settles gracefully leaves no tracked handler
\* (lifecycle/drain.ts), however requests arrive, fail and are abandoned.
THEOREM GracefulDrainsAreIdle == Spec => []TypeOK
<1>1. ShutdownInv => TypeOK
  <2> SUFFICES ASSUME ShutdownInv PROVE TypeOK
    OBVIOUS
  <2>1. handling \in SUBSET Requests
    BY DEF ShutdownInv, Typed
  <2>2. inFlight \in 0..Cardinality(Requests)
    BY <2>1, HandlersAreFinite DEF ShutdownInv, Counted
  <2>3. GracefulMeansIdle
    BY <2>1, ZeroMeansNone DEF ShutdownInv, Counted, GracefulMeansIdle
  <2> QED
    BY <2>1, <2>2, <2>3 DEF ShutdownInv, Typed, TypeOK
<1> QED
  BY <1>1, AlwaysCounted, PTL

\* The store is never closed under a run, whenever it was launched before
\* drainActive found none active (lifecycle/shutdown.ts, runs/orchestrator.ts).
THEOREM DrainedRunsComeFirst == Spec => []StoreOutlivesDrainedRuns
<1>1. ShutdownInv => StoreOutlivesDrainedRuns
  BY DEF ShutdownInv, Outlived, StoreOutlivesDrainedRuns
<1> QED
  BY <1>1, AlwaysCounted, PTL
=============================================================================
