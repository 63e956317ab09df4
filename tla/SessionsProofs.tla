--------------------------- MODULE SessionsProofs ---------------------------
(***************************************************************************)
(* The sessions keep their invariants, and the table of the steps behaves  *)
(* as RunLifecycle promises, for any number of sessions, requests, faults  *)
(* and restarts.  The argument: what a request awaits stays resolvable,    *)
(* because steps are never deleted nor renumbered and keep their results;  *)
(* and a request that is not over has not launched anything.               *)
(***************************************************************************)
EXTENDS Sessions, FiniteSetTheorems, SequenceTheorems, TLAPS

Status == {"absent", "queued", "running"} \cup Outcomes

Typed ==
    /\ session \in [SessionIds -> {"absent", "open", "closed"}]
    /\ bindings \subseteq (Requests \X Nat)
    /\ step \in [Requests -> Status]
    /\ ordinal \in [Requests -> Nat]
    /\ attached \in [Requests -> BOOLEAN] /\ result \in [Requests -> BOOLEAN]
    /\ run \in [Requests -> Status]
    /\ started \in [Requests -> BOOLEAN]
    /\ request \in [Requests -> {"idle", "binding", "over"}]
    /\ position \in [Requests -> Nat]
    /\ finishing \subseteq Requests /\ lost \subseteq Requests
    /\ faults \in 0 .. MaxFaults /\ restarts \in 0 .. MaxRestarts

\* A request that is not over has launched nothing and recorded no step.
Unlaunched(q) ==
    request[q] # "over" =>
        /\ step[q] = "absent" /\ ordinal[q] = 0 /\ run[q] = "absent"
        /\ ~attached[q]

\* The step of a request, against the run it launched.
Follows(q) ==
    /\ run[q] \in {"absent", "queued"} => ~started[q]
    /\ step[q] = "running" => attached[q] /\ started[q]
    /\ step[q] \in Outcomes => step[q] = run[q]
    /\ q \in finishing => run[q] \in Outcomes

Remembered(q) ==
    q \notin lost /\ attached[q] /\ started[q] =>
        /\ step[q] # "queued"
        /\ step[q] = "running" => run[q] = "running" \/ q \in finishing

StepOK(q) == Unlaunched(q) /\ Follows(q) /\ Remembered(q)

\* A request awaits the artifact at its position, of a step that has one.
\* The binding row is inserted in a later turn than the one that resolved the
\* reference; the reference must not have come loose in between.
Awaits(q) ==
    /\ position[q] <= 1 \/ position[q] <= Len(BindsTo[q])
    /\ request[q] = "binding" =>
          /\ position[q] >= 1
          /\ position[q] <= Len(BindsTo[q]) =>
                Resolvable(q, BindsTo[q][position[q]])

BoundedOpen == IsFiniteSet(Open) /\ OpenSessionsBounded

IInv ==
    /\ Typed
    /\ \A q \in Requests : StepOK(q)
    /\ \A q \in Requests : Awaits(q)
    /\ OrdinalsAreDense
    /\ BoundStepsHaveResults
    /\ BoundedOpen

-----------------------------------------------------------------------------
(* Sets of ordinals.                                                       *)

\* The largest of an initial segment.
LEMMA MaxOfSegment ==
    ASSUME NEW n \in Nat
    PROVE  Max({0} \cup 1 .. n) = n
<1>1. n \in {0} \cup 1 .. n /\ \A y \in {0} \cup 1 .. n : n >= y
  OBVIOUS
<1>2. \A x \in {0} \cup 1 .. n : (\A y \in {0} \cup 1 .. n : x >= y) => x = n
  <2> SUFFICES ASSUME NEW x \in {0} \cup 1 .. n,
                      \A y \in {0} \cup 1 .. n : x >= y
               PROVE  x = n
    OBVIOUS
  <2>1. x >= n /\ n >= x
    BY <1>1
  <2> QED
    BY <2>1
<1> QED
  BY <1>1, <1>2 DEF Max

\* The largest of 1 and a length.
LEMMA MaxOfPair ==
    ASSUME NEW n \in Nat
    PROVE  Max({1, n}) = IF n > 1 THEN n ELSE 1
<1> DEFINE m == IF n > 1 THEN n ELSE 1
<1>1. m \in {1, n} /\ \A y \in {1, n} : m >= y
  OBVIOUS
<1>2. \A x \in {1, n} : (\A y \in {1, n} : x >= y) => x = m
  OBVIOUS
<1> QED
  BY <1>1, <1>2 DEF Max

\* The steps of a session are finitely many.
LEMMA StepsAreFinite ==
    \A s \in SessionIds : IsFiniteSet(Steps(s)) /\ Cardinality(Steps(s)) \in Nat
BY SessionsAssumption, FS_Subset, FS_CardinalityType DEF Steps

\* The ordinal a new step gets is one more than the number of steps.
LEMMA NextOrdinalIsNext ==
    ASSUME OrdinalsAreDense, NEW s \in SessionIds
    PROVE  NextOrdinal(s) = 1 + Cardinality(Steps(s))
BY StepsAreFinite, MaxOfSegment DEF NextOrdinal, OrdinalsAreDense

-----------------------------------------------------------------------------
(* What a step of the system leaves alone.                                 *)

\* The rows of the steps are there as before, and no result is gone.
StepsKept ==
    /\ ordinal' = ordinal
    /\ \A p \in Requests : step'[p] = "absent" <=> step[p] = "absent"
    /\ \A p \in Requests : result[p] => result'[p]

\* What could be referred to can still be.
LEMMA KeptStepsResolve ==
    ASSUME StepsKept, NEW q \in Requests, NEW n
    PROVE  Resolvable(q, n) => Resolvable(q, n)'
<1>1. Steps(SessionOf[q])' = Steps(SessionOf[q])
  BY DEF StepsKept, Steps
<1>2. \A p \in Steps(SessionOf[q]) : p \in Requests
  BY DEF Steps
<1> QED
  BY <1>1, <1>2 DEF StepsKept, Resolvable

\* The ordinals stay dense when no step is added.
LEMMA KeptStepsAreDense ==
    ASSUME OrdinalsAreDense, StepsKept
    PROVE  OrdinalsAreDense'
<1> SUFFICES ASSUME NEW s \in SessionIds
             PROVE  {ordinal'[p] : p \in Steps(s)'} = 1 .. Cardinality(Steps(s)')
  BY DEF OrdinalsAreDense
<1>1. Steps(s)' = Steps(s) /\ ordinal' = ordinal
  BY DEF StepsKept, Steps
<1>2. {ordinal[p] : p \in Steps(s)} = 1 .. Cardinality(Steps(s))
  BY DEF OrdinalsAreDense
<1> QED
  BY <1>1, <1>2

\* A step joins its session with the next ordinal.
StepJoins(q) ==
    /\ q \in Requests /\ step[q] = "absent" /\ step'[q] # "absent"
    /\ ordinal' = [ordinal EXCEPT ![q] = NextOrdinal(SessionOf[q])]
    /\ \A p \in Requests \ {q} : step'[p] = step[p]
    /\ result' = result

\* The ordinals stay dense when one joins.
LEMMA JoinedStepsAreDense ==
    ASSUME Typed, OrdinalsAreDense, NEW q \in Requests, StepJoins(q)
    PROVE  OrdinalsAreDense'
<1> SUFFICES ASSUME NEW s \in SessionIds
             PROVE  {ordinal'[p] : p \in Steps(s)'} = 1 .. Cardinality(Steps(s)')
  BY DEF OrdinalsAreDense
<1> DEFINE n == Cardinality(Steps(s))
<1>1. {ordinal[p] : p \in Steps(s)} = 1 .. n
  BY DEF OrdinalsAreDense
<1>2. q \notin Steps(s) /\ Steps(s) \subseteq Requests
  BY DEF StepJoins, Steps
<1>3. \A p \in Steps(s) : ordinal'[p] = ordinal[p]
  BY <1>2 DEF StepJoins, Typed
<1>4. {ordinal'[p] : p \in Steps(s)} = 1 .. n
  BY <1>1, <1>3
<1>5. CASE SessionOf[q] # s
  <2>1. Steps(s)' = Steps(s)
    BY <1>5 DEF StepJoins, Steps
  <2> QED
    BY <1>4, <2>1
<1>6. CASE SessionOf[q] = s
  <2>1. Steps(s)' = Steps(s) \cup {q}
    BY <1>6 DEF StepJoins, Steps
  <2>2. IsFiniteSet(Steps(s)) /\ n \in Nat
    BY StepsAreFinite
  <2>3. Cardinality(Steps(s)') = n + 1
    BY <1>2, <2>1, <2>2, FS_AddElement
  <2>4. ordinal'[q] = n + 1
    BY <1>6, <2>2, NextOrdinalIsNext DEF StepJoins, Typed
  <2>5. {ordinal'[p] : p \in Steps(s)'} = (1 .. n) \cup {n + 1}
    BY <1>4, <2>1, <2>4
  <2> QED
    BY <2>2, <2>3, <2>5
<1> QED
  BY <1>5, <1>6

\* The new step takes no reference away.
LEMMA JoinedStepsResolve ==
    ASSUME Typed, NEW q \in Requests, StepJoins(q), NEW p \in Requests, NEW n
    PROVE  Resolvable(p, n) => Resolvable(p, n)'
<1> SUFFICES ASSUME NEW x \in Steps(SessionOf[p]), ordinal[x] = n, result[x]
             PROVE  Resolvable(p, n)'
  BY DEF Resolvable
<1>1. x \in Requests /\ x # q
  BY DEF Steps, StepJoins
<1>2. x \in Steps(SessionOf[p])'
  BY <1>1 DEF Steps, StepJoins
<1>3. ordinal'[x] = n /\ result'[x]
  BY <1>1 DEF StepJoins, Typed
<1> QED
  BY <1>2, <1>3 DEF Resolvable

-----------------------------------------------------------------------------
(* Types.                                                                  *)

\* Awaiting a binding keeps the types of the request.
LEMMA AwaitTyped ==
    ASSUME Typed, NEW q \in Requests, NEW i \in Nat, Await(q, i)
    PROVE  /\ request' \in [Requests -> {"idle", "binding", "over"}]
           /\ position' \in [Requests -> Nat]
BY DEF Typed, Await

\* The row recorded for an awaited artifact is well typed.
LEMMA BindingRowTyped ==
    ASSUME Typed, NEW q \in Requests, position[q] >= 1,
           position[q] <= Len(BindsTo[q])
    PROVE  BindingRow(q) \in Requests \X Nat
<1>1. BindsTo[q] \in Seq(Nat \ {0}) /\ position[q] \in 1 .. Len(BindsTo[q])
  BY SessionsAssumption DEF Typed
<1>2. BindsTo[q][position[q]] \in Nat
  BY <1>1
<1> QED
  BY <1>2 DEF BindingRow

\* When the last artifact of a request arrives, its position is that of the
\* last binding, unless there is none.
LEMMA LastPosition ==
    ASSUME Typed, NEW q \in Requests, Awaits(q), LastArtifactArrives(q)
    PROVE  \/ LastBinding(q) = {}
           \/ /\ LastBinding(q) = {BindingRow(q)}
              /\ position[q] >= 1 /\ position[q] <= Len(BindsTo[q])
<1>1. BindsTo[q] \in Seq(Nat \ {0})
  BY SessionsAssumption
<1>2. BindsTo[q] # <<>> => Len(BindsTo[q]) >= 1
  BY <1>1, EmptySeq, LenProperties
<1>3. position[q] \in Nat /\ Len(BindsTo[q]) \in Nat
  BY <1>1, LenProperties DEF Typed
<1> QED
  BY <1>2, <1>3 DEF Awaits, LastArtifactArrives, LastBinding

\* The rows the last artifact adds are well typed.
LEMMA LastBindingTyped ==
    ASSUME Typed, NEW q \in Requests, Awaits(q), LastArtifactArrives(q)
    PROVE  /\ bindings' \subseteq (Requests \X Nat)
           /\ request' \in [Requests -> {"idle", "binding", "over"}]
<1>1. LastBinding(q) \subseteq Requests \X Nat
  BY LastPosition, BindingRowTyped
<1> QED
  BY <1>1 DEF Typed, LastArtifactArrives

\* Launching a run and recording its step keeps the types.
LEMMA LaunchTyped ==
    ASSUME Typed, OrdinalsAreDense, NEW q \in Requests, Awaits(q), LaunchStep(q)
    PROVE  Typed'
<1>1. PICK st \in {"queued", "running"} :
         /\ run' = [run EXCEPT ![q] = st]
         /\ started' = [started EXCEPT ![q] = st = "running"]
         /\ \E done \in 0 .. Statements(st) : RecordStep(q, st, done)
  BY DEF LaunchStep
<1>2. PICK done \in 0 .. Statements(st) : RecordStep(q, st, done)
  BY <1>1
<1>3. NextOrdinal(SessionOf[q]) \in Nat
  BY NextOrdinalIsNext, StepsAreFinite, SessionsAssumption
<1>4. step' \in [Requests -> Status] /\ run' \in [Requests -> Status]
  BY <1>1, <1>2 DEF Typed, RecordStep, Status
<1>5. ordinal' \in [Requests -> Nat]
  BY <1>2, <1>3 DEF Typed, RecordStep
<1>6. started' \in [Requests -> BOOLEAN] /\ attached' \in [Requests -> BOOLEAN]
  BY <1>1, <1>2 DEF Typed, RecordStep
<1>7. lost' \subseteq Requests /\ faults' \in 0 .. MaxFaults
  BY <1>2, SessionsAssumption DEF Typed, RecordStep
<1>8. /\ bindings' \subseteq (Requests \X Nat)
      /\ request' \in [Requests -> {"idle", "binding", "over"}]
  BY LastBindingTyped DEF LaunchStep
<1> QED
  BY <1>4, <1>5, <1>6, <1>7, <1>8 DEF Typed, LaunchStep

\* The turns of a request before its run keep the types.
LEMMA RequestTyped ==
    ASSUME Typed, NEW q \in Requests, Awaits(q),
           \/ BeginRequest(q) \/ BindNext(q) \/ BindFails(q)
           \/ SelectBinding(q) \/ LaunchRefused(q)
    PROVE  Typed'
<1>1. CASE BeginRequest(q)
  BY <1>1, AwaitTyped
  DEF Typed, BeginRequest, tables, runVars, bounds
<1>2. CASE BindNext(q)
  <2>1. position[q] + 1 \in Nat /\ Await(q, position[q] + 1)
    BY <1>2 DEF BindNext, Typed
  <2>2. Len(BindsTo[q]) \in Nat
    BY SessionsAssumption, LenProperties
  <2>3. BindingRow(q) \in Requests \X Nat
    BY <1>2, <2>2, BindingRowTyped DEF BindNext, Typed, Awaits
  <2> QED
    BY <1>2, <2>1, <2>3, AwaitTyped DEF Typed, BindNext, runVars, bounds
<1>3. CASE BindFails(q)
  BY <1>3 DEF Typed, BindFails, tables, runVars, bounds
<1>4. CASE SelectBinding(q)
  BY <1>4, LastBindingTyped DEF Typed, SelectBinding, runVars, bounds
<1>5. CASE LaunchRefused(q)
  BY <1>5, LastBindingTyped DEF Typed, LaunchRefused, runVars, bounds
<1> QED
  BY <1>1, <1>2, <1>3, <1>4, <1>5

\* The events of a run keep the types.
LEMMA EventTyped ==
    ASSUME Typed, NEW q \in Requests, Follows(q),
           \/ StartRun(q) \/ StartRunClaimFails(q) \/ AbandonRun(q)
           \/ \E outcome \in Outcomes : EndRun(q, outcome)
           \/ FinishStep(q) \/ FinishStepFails(q)
    PROVE  Typed'
<1>1. CASE StartRun(q)
  <2>1. started' \in [Requests -> BOOLEAN]
    BY <1>1 DEF Typed, StartRun
  <2>2. step' \in [Requests -> Status] /\ run' \in [Requests -> Status]
    BY <1>1 DEF Typed, StartRun, Status
  <2> QED
    BY <1>1, <2>1, <2>2 DEF Typed, StartRun, bounds
<1>2. CASE StartRunClaimFails(q)
  <2>1. started' \in [Requests -> BOOLEAN]
    BY <1>2 DEF Typed, StartRunClaimFails
  <2>2. run' \in [Requests -> Status] /\ faults' \in 0 .. MaxFaults
    BY <1>2, SessionsAssumption DEF Typed, StartRunClaimFails, Status
  <2> QED
    BY <1>2, <2>1, <2>2 DEF Typed, StartRunClaimFails, tables
<1>3. CASE AbandonRun(q)
  <2>1. run' \in [Requests -> Status]
    BY <1>3, SessionsAssumption DEF Typed, AbandonRun, Status
  <2> QED
    BY <1>3, <2>1 DEF Typed, AbandonRun, tables, bounds
<1>4. ASSUME NEW outcome \in Outcomes, EndRun(q, outcome) PROVE Typed'
  <2>1. run' \in [Requests -> Status]
    BY <1>4 DEF Typed, EndRun, Status
  <2>2. finishing' \subseteq Requests /\ lost' \subseteq Requests
    BY <1>4 DEF Typed, EndRun
  <2> QED
    BY <1>4, <2>1, <2>2 DEF Typed, EndRun, tables, bounds
<1>5. CASE FinishStep(q)
  <2>1. step' \in [Requests -> Status] /\ finishing' \subseteq Requests
    BY <1>5 DEF Typed, FinishStep, Status
  <2>2. result' \in [Requests -> BOOLEAN]
    BY <1>5 DEF Typed, FinishStep
  <2> QED
    BY <1>5, <2>1, <2>2 DEF Typed, FinishStep, runVars, bounds
<1>6. CASE FinishStepFails(q)
  <2>1. faults' \in 0 .. MaxFaults
    BY <1>6, SessionsAssumption DEF Typed, FinishStepFails
  <2> QED
    BY <1>6, <2>1 DEF Typed, FinishStepFails, tables, runVars
<1> QED
  BY <1>1, <1>2, <1>3, <1>4, <1>5, <1>6

\* The death of the process keeps the types.
LEMMA RestartTyped == Typed /\ Restart => Typed'
<1> SUFFICES ASSUME Typed, Restart PROVE Typed'
  OBVIOUS
<1>1. run' \in [Requests -> Status]
  BY SessionsAssumption DEF Typed, Restart, Status
<1>2. request' \in [Requests -> {"idle", "binding", "over"}]
  BY DEF Typed, Restart
<1>3. /\ finishing' \subseteq Requests /\ lost' \subseteq Requests
      /\ restarts' \in 0 .. MaxRestarts
  BY SessionsAssumption DEF Typed, Restart
<1> QED
  BY <1>1, <1>2, <1>3 DEF Typed, Restart, tables

\* Opening and closing keep the types.
LEMMA SessionTyped ==
    ASSUME Typed, NEW s \in SessionIds,
           CreateSession(s) \/ CloseSession(s) \/ ReopenSession(s)
    PROVE  Typed'
BY DEF Typed, CreateSession, CloseSession, ReopenSession, runVars, bounds

-----------------------------------------------------------------------------
(* A step against its run.                                                 *)

\* The request q is where it was.
Untouched(q) ==
    /\ step'[q] = step[q] /\ ordinal'[q] = ordinal[q]
    /\ attached'[q] = attached[q] /\ started'[q] = started[q]
    /\ run'[q] = run[q] /\ request'[q] = request[q]
    /\ (q \in finishing' <=> q \in finishing)
    /\ (q \in lost' <=> q \in lost)

\* Requests that were not touched are as they were.
LEMMA OthersStay ==
    ASSUME NEW q \in Requests, StepOK(q), Untouched(q)
    PROVE  StepOK(q)'
BY DEF StepOK, Unlaunched, Follows, Remembered, Untouched

\* A turn of request q touches no other.
Only(q) == \A p \in Requests \ {q} : Untouched(p)

\* It is enough to look at the request that moves.
LEMMA OneMoves ==
    ASSUME \A p \in Requests : StepOK(p), NEW q \in Requests, Only(q), StepOK(q)'
    PROVE  \A p \in Requests : StepOK(p)'
<1> SUFFICES ASSUME NEW p \in Requests PROVE StepOK(p)'
  OBVIOUS
<1>1. CASE p = q
  BY <1>1
<1>2. CASE p # q
  BY <1>2, OthersStay DEF Only
<1> QED
  BY <1>1, <1>2

\* The turns of a request before its run.
LEMMA RequestSteps ==
    ASSUME Typed, \A p \in Requests : StepOK(p), NEW q \in Requests,
           \/ BeginRequest(q) \/ BindNext(q) \/ BindFails(q)
           \/ SelectBinding(q) \/ LaunchRefused(q)
    PROVE  \A p \in Requests : StepOK(p)'
<1>1. /\ UNCHANGED <<step, ordinal, attached, run, started, finishing, lost>>
      /\ \A p \in Requests \ {q} : request'[p] = request[p]
      /\ request[q] # "over"
  BY DEF Typed, BeginRequest, BindNext, BindFails, SelectBinding, LaunchRefused,
         Await, LastArtifactArrives, tables, runVars
<1>2. Only(q)
  BY <1>1 DEF Only, Untouched
<1>3. StepOK(q)'
  BY <1>1 DEF StepOK, Unlaunched, Follows, Remembered
<1> QED
  BY <1>2, <1>3, OneMoves

\* A launch: a step recorded as running has a started run, and one whose
\* record was cut short is lost.
LEMMA LaunchSteps ==
    ASSUME Typed, \A p \in Requests : StepOK(p), NEW q \in Requests,
           LaunchStep(q)
    PROVE  \A p \in Requests : StepOK(p)'
<1>1. PICK st \in {"queued", "running"} :
         /\ run' = [run EXCEPT ![q] = st]
         /\ started' = [started EXCEPT ![q] = st = "running"]
         /\ \E done \in 0 .. Statements(st) : RecordStep(q, st, done)
  BY DEF LaunchStep
<1>2. PICK done \in 0 .. Statements(st) : RecordStep(q, st, done)
  BY <1>1
<1>3. Only(q)
  BY <1>1, <1>2
  DEF Only, Untouched, LaunchStep, LastArtifactArrives, RecordStep, Typed
<1>4. /\ request'[q] = "over" /\ run'[q] = st
      /\ step'[q] = IF done = 0 THEN "absent"
                    ELSE IF done = 3 THEN "running" ELSE "queued"
      /\ (done < Statements(st) => q \in lost')
      /\ finishing' = finishing
  BY <1>1, <1>2 DEF LaunchStep, LastArtifactArrives, RecordStep, Typed
<1>5. (started'[q] <=> st = "running") /\ (attached'[q] <=> done >= 2)
  BY <1>1, <1>2 DEF RecordStep, Typed
<1>6. q \notin finishing
  BY SessionsAssumption
  DEF StepOK, Unlaunched, Follows, LaunchStep, LastArtifactArrives
<1>7. Unlaunched(q)'
  BY <1>4 DEF Unlaunched
<1>8. Follows(q)'
  BY <1>4, <1>6, <1>5, SessionsAssumption DEF Follows, Statements
<1>9. Remembered(q)'
  BY <1>4, <1>6, <1>5 DEF Remembered, Statements
<1> QED
  BY <1>3, <1>7, <1>8, <1>9, OneMoves DEF StepOK

\* The events of a run.
LEMMA EventSteps ==
    ASSUME Typed, \A p \in Requests : StepOK(p), NEW q \in Requests,
           \/ StartRun(q) \/ StartRunClaimFails(q) \/ AbandonRun(q)
           \/ \E outcome \in Outcomes : EndRun(q, outcome)
           \/ FinishStep(q) \/ FinishStepFails(q)
    PROVE  \A p \in Requests : StepOK(p)'
<1>0. StepOK(q)
  OBVIOUS
<1>1. CASE StartRun(q)
  <2>1. Only(q)
    BY <1>1 DEF Only, Untouched, StartRun, Typed
  <2>2. StepOK(q)'
    BY <1>0, <1>1, SessionsAssumption
    DEF StepOK, Unlaunched, Follows, Remembered, StartRun, Typed
  <2> QED
    BY <2>1, <2>2, OneMoves
<1>2. CASE StartRunClaimFails(q)
  <2>1. Only(q)
    BY <1>2 DEF Only, Untouched, StartRunClaimFails, tables, Typed
  <2>2. StepOK(q)'
    BY <1>0, <1>2, SessionsAssumption
    DEF StepOK, Unlaunched, Follows, Remembered, StartRunClaimFails, tables, Typed
  <2> QED
    BY <2>1, <2>2, OneMoves
<1>3. CASE AbandonRun(q)
  <2>1. Only(q)
    BY <1>3 DEF Only, Untouched, AbandonRun, tables, Typed
  <2>2. StepOK(q)'
    BY <1>0, <1>3, SessionsAssumption
    DEF StepOK, Unlaunched, Follows, Remembered, AbandonRun, tables, Typed
  <2> QED
    BY <2>1, <2>2, OneMoves
<1>4. ASSUME NEW outcome \in Outcomes, EndRun(q, outcome)
      PROVE  \A p \in Requests : StepOK(p)'
  <2>1. Only(q)
    BY <1>4 DEF Only, Untouched, EndRun, tables, Typed
  <2>2. StepOK(q)'
    BY <1>0, <1>4, SessionsAssumption
    DEF StepOK, Unlaunched, Follows, Remembered, EndRun, tables, Typed
  <2> QED
    BY <2>1, <2>2, OneMoves
<1>5. CASE FinishStep(q)
  <2>1. Only(q)
    BY <1>5 DEF Only, Untouched, FinishStep, runVars, Typed
  <2>2. StepOK(q)'
    BY <1>0, <1>5, SessionsAssumption
    DEF StepOK, Unlaunched, Follows, Remembered, FinishStep, runVars, Typed
  <2> QED
    BY <2>1, <2>2, OneMoves
<1>6. CASE FinishStepFails(q)
  <2>1. Only(q)
    BY <1>6 DEF Only, Untouched, FinishStepFails, tables, runVars
  <2>2. StepOK(q)'
    BY <1>0, <1>6
    DEF StepOK, Unlaunched, Follows, Remembered, FinishStepFails, tables, runVars
  <2> QED
    BY <2>1, <2>2, OneMoves
<1> QED
  BY <1>1, <1>2, <1>3, <1>4, <1>5, <1>6

\* The death of the process: what it interrupts is lost.
LEMMA RestartSteps ==
    ASSUME Typed, \A p \in Requests : StepOK(p), Restart
    PROVE  \A p \in Requests : StepOK(p)'
<1> SUFFICES ASSUME NEW q \in Requests PROVE StepOK(q)'
  OBVIOUS
<1>1. /\ UNCHANGED <<step, ordinal, attached, started>>
      /\ run'[q] = IF Live(q) THEN "interrupted" ELSE run[q]
      /\ request'[q] = IF request[q] = "binding" THEN "over" ELSE request[q]
      /\ q \notin finishing'
      /\ (q \in lost' <=> q \in lost \/ q \in finishing \/ Live(q))
  BY DEF Restart, tables
<1>2. Unlaunched(q) /\ Follows(q) /\ Remembered(q)
  BY DEF StepOK
<1>3. Unlaunched(q)'
  BY <1>1, <1>2 DEF Unlaunched, Live
<1>4. Follows(q)'
  BY <1>1, <1>2, SessionsAssumption DEF Follows, Live
<1>5. Remembered(q)'
  BY <1>1, <1>2 DEF Remembered, Live
<1> QED
  BY <1>3, <1>4, <1>5 DEF StepOK

-----------------------------------------------------------------------------
(* What is awaited and what is bound.                                      *)

\* Nothing that could be referred to comes loose.
ReferencesKept ==
    \A p \in Requests : \A n : Resolvable(p, n) => Resolvable(p, n)'

\* The row of the awaited artifact refers to a step that has a result, now
\* and after a turn that keeps the references.
LEMMA AwaitedRowResolves ==
    ASSUME NEW q \in Requests, Awaits(q), request[q] = "binding",
           position[q] <= Len(BindsTo[q]), ReferencesKept, NEW b, b = BindingRow(q)
    PROVE  Resolvable(b[1], b[2])'
<1>1. b[1] = q /\ b[2] = BindsTo[q][position[q]]
  BY DEF BindingRow
<1>2. Resolvable(q, BindsTo[q][position[q]])
  BY DEF Awaits
<1>3. Resolvable(b[1], b[2])
  BY <1>1, <1>2
<1> QED
  BY <1>1, <1>3 DEF ReferencesKept

\* Rows that resolve, added to rows that do.
LEMMA RowsResolve ==
    ASSUME Typed, BoundStepsHaveResults, ReferencesKept,
           \A b \in bindings' : b \in bindings \/ Resolvable(b[1], b[2])'
    PROVE  BoundStepsHaveResults'
<1> SUFFICES ASSUME NEW b \in bindings' PROVE Resolvable(b[1], b[2])'
  BY DEF BoundStepsHaveResults
<1>1. CASE b \in bindings
  <2>1. b[1] \in Requests /\ Resolvable(b[1], b[2])
    BY <1>1 DEF Typed, BoundStepsHaveResults
  <2> QED
    BY <2>1 DEF ReferencesKept
<1> QED
  BY <1>1

\* A request that awaits what it awaited, or no longer awaits.
LEMMA StillAwaits ==
    ASSUME NEW q \in Requests, Awaits(q), ReferencesKept,
           position'[q] = position[q],
           request'[q] = "binding" => request[q] = "binding"
    PROVE  Awaits(q)'
<1>1. PICK n : n = BindsTo[q][position[q]]
  OBVIOUS
<1>2. Resolvable(q, n) => Resolvable(q, n)'
  BY DEF ReferencesKept
<1> QED
  BY <1>1, <1>2 DEF Awaits

\* A request that awaits the next artifact has looked its step up.
LEMMA NextAwaits ==
    ASSUME Typed, NEW q \in Requests, NEW i \in Nat, i >= 1,
           i = 1 \/ i <= Len(BindsTo[q]), Await(q, i), ReferencesKept,
           \A p \in Requests : Awaits(p)
    PROVE  \A p \in Requests : Awaits(p)'
<1> SUFFICES ASSUME NEW p \in Requests PROVE Awaits(p)'
  OBVIOUS
<1>1. CASE p = q
  <2>1. /\ position'[q] = i
        /\ request'[q] = IF i <= Len(BindsTo[q]) /\ ~Resolvable(q, BindsTo[q][i])
                         THEN "over" ELSE "binding"
    BY DEF Await, Typed
  <2>2. Resolvable(q, BindsTo[q][i]) => Resolvable(q, BindsTo[q][i])'
    BY DEF ReferencesKept
  <2>3. position'[q] <= 1 \/ position'[q] <= Len(BindsTo[q])
    BY <2>1
  <2> QED
    BY <1>1, <2>1, <2>2, <2>3 DEF Awaits
<1>2. CASE p # q
  BY <1>2, StillAwaits DEF Await, Typed
<1> QED
  BY <1>1, <1>2

\* The last artifact: its row refers to a step with a result.
LEMMA LastArtifactReferences ==
    ASSUME Typed, BoundStepsHaveResults, \A p \in Requests : Awaits(p),
           ReferencesKept, NEW q \in Requests, LastArtifactArrives(q),
           position' = position
    PROVE  BoundStepsHaveResults' /\ \A p \in Requests : Awaits(p)'
<1>1. ASSUME NEW p \in Requests PROVE Awaits(p)'
  BY StillAwaits DEF LastArtifactArrives, Typed
<1>2. \A b \in LastBinding(q) : Resolvable(b[1], b[2])'
  BY LastPosition, AwaitedRowResolves DEF LastArtifactArrives
<1>3. \A b \in bindings' : b \in bindings \/ Resolvable(b[1], b[2])'
  BY <1>2 DEF LastArtifactArrives
<1> QED
  BY <1>1, <1>3, RowsResolve

\* The turns of a request before its run.
LEMMA RequestReferences ==
    ASSUME Typed, BoundStepsHaveResults, \A p \in Requests : Awaits(p),
           NEW q \in Requests,
           \/ BeginRequest(q) \/ BindNext(q) \/ BindFails(q)
           \/ SelectBinding(q) \/ LaunchRefused(q)
    PROVE  BoundStepsHaveResults' /\ \A p \in Requests : Awaits(p)'
<1>1. StepsKept
  BY DEF StepsKept, BeginRequest, BindNext, BindFails, SelectBinding,
         LaunchRefused, tables
<1>2. ReferencesKept
  BY <1>1, KeptStepsResolve DEF ReferencesKept
<1>3. Len(BindsTo[q]) \in Nat /\ position[q] \in Nat
  BY SessionsAssumption, LenProperties DEF Typed
<1>4. CASE BeginRequest(q)
  BY <1>2, <1>4, NextAwaits, RowsResolve DEF BeginRequest, tables
<1>5. CASE BindNext(q)
  <2>1. /\ request[q] = "binding" /\ position[q] < Len(BindsTo[q])
        /\ bindings' = bindings \cup {BindingRow(q)}
        /\ Await(q, position[q] + 1)
    BY <1>5 DEF BindNext
  <2>2. \A p \in Requests : Awaits(p)'
    BY <1>2, <1>3, <2>1, NextAwaits
  <2>3. \A b \in bindings' : b \in bindings \/ Resolvable(b[1], b[2])'
    BY <1>2, <1>3, <2>1, AwaitedRowResolves
  <2> QED
    BY <1>2, <2>2, <2>3, RowsResolve
<1>6. CASE BindFails(q)
  BY <1>2, <1>6, StillAwaits, RowsResolve DEF BindFails, tables, Typed
<1>7. CASE SelectBinding(q) \/ LaunchRefused(q)
  <2>1. LastArtifactArrives(q) /\ position' = position
    BY <1>7 DEF SelectBinding, LaunchRefused
  <2> QED
    BY <1>2, <2>1, LastArtifactReferences
<1> QED
  BY <1>4, <1>5, <1>6, <1>7

\* A launch keeps the references and the ordinals dense: either no step is
\* recorded, or one joins its session.
LEMMA LaunchReferences ==
    ASSUME Typed, OrdinalsAreDense, BoundStepsHaveResults,
           \A p \in Requests : Awaits(p), NEW q \in Requests, Unlaunched(q),
           LaunchStep(q)
    PROVE  /\ OrdinalsAreDense' /\ BoundStepsHaveResults'
           /\ \A p \in Requests : Awaits(p)'
<1>1. PICK st, done : RecordStep(q, st, done)
  BY DEF LaunchStep
<1>2. step[q] = "absent" /\ ordinal[q] = 0
  BY DEF Unlaunched, LaunchStep, LastArtifactArrives
<1>3. result' = result /\ position' = position /\ LastArtifactArrives(q)
  BY DEF LaunchStep
<1>4. CASE done = 0
  <2>1. ordinal' = ordinal /\ step' = step
    BY <1>1, <1>2, <1>4 DEF RecordStep, Typed
  <2>2. StepsKept
    BY <1>3, <2>1 DEF StepsKept
  <2>3. ReferencesKept
    BY <2>2, KeptStepsResolve DEF ReferencesKept
  <2> QED
    BY <1>3, <2>2, <2>3, KeptStepsAreDense, LastArtifactReferences
<1>5. CASE done # 0
  <2>1. StepJoins(q)
    BY <1>1, <1>2, <1>3, <1>5 DEF StepJoins, RecordStep, Typed
  <2>2. ReferencesKept
    BY <2>1, JoinedStepsResolve DEF ReferencesKept
  <2> QED
    BY <1>3, <2>1, <2>2, JoinedStepsAreDense, LastArtifactReferences
<1> QED
  BY <1>4, <1>5

\* Turns that neither add a step nor a row, and begin no wait.
Quiet ==
    /\ StepsKept /\ bindings' = bindings /\ position' = position
    /\ \A p \in Requests : request'[p] = "binding" => request[p] = "binding"

\* Such turns keep ordinals and references.
LEMMA QuietReferences ==
    ASSUME Typed, OrdinalsAreDense, BoundStepsHaveResults,
           \A p \in Requests : Awaits(p), Quiet
    PROVE  /\ OrdinalsAreDense' /\ BoundStepsHaveResults'
           /\ \A p \in Requests : Awaits(p)'
<1>1. ReferencesKept
  BY KeptStepsResolve DEF ReferencesKept, Quiet
<1>2. ASSUME NEW p \in Requests PROVE Awaits(p)'
  BY <1>1, StillAwaits DEF Quiet
<1> QED
  BY <1>1, <1>2, KeptStepsAreDense, RowsResolve DEF Quiet

\* The events of the runs, and the turns of the sessions, are quiet.
LEMMA EventsAreQuiet ==
    ASSUME Typed, \A p \in Requests : StepOK(p), NEW q \in Requests,
           \/ StartRun(q) \/ StartRunClaimFails(q) \/ AbandonRun(q)
           \/ \E outcome \in Outcomes : EndRun(q, outcome)
           \/ FinishStep(q) \/ FinishStepFails(q)
    PROVE  Quiet
<1>1. CASE StartRun(q)
  BY <1>1 DEF StartRun, Quiet, StepsKept, Typed
<1>2. CASE FinishStep(q)
  <2>1. run[q] \notin {"absent"}
    BY <1>2, SessionsAssumption DEF FinishStep, StepOK, Follows
  <2>2. \A p \in Requests : step'[p] = "absent" <=> step[p] = "absent"
    BY <1>2, <2>1 DEF FinishStep, Typed
  <2>3. \A p \in Requests : result[p] => result'[p]
    BY <1>2 DEF FinishStep, Typed
  <2> QED
    BY <1>2, <2>2, <2>3 DEF FinishStep, Quiet, StepsKept
<1>3. CASE \/ StartRunClaimFails(q) \/ AbandonRun(q) \/ FinishStepFails(q)
           \/ \E outcome \in Outcomes : EndRun(q, outcome)
  BY <1>3
  DEF StartRunClaimFails, AbandonRun, FinishStepFails, EndRun, tables, Quiet,
      StepsKept
<1> QED
  BY <1>1, <1>2, <1>3

-----------------------------------------------------------------------------
(* The cap on open sessions.                                               *)

\* A session opened under the cap stays within it.
LEMMA OpeningIsBounded ==
    ASSUME Typed, BoundedOpen, HasCapacity, NEW s \in SessionIds,
           session' = [session EXCEPT ![s] = "open"]
    PROVE  BoundedOpen'
<1>1. Open' = Open \cup {s}
  BY DEF Open, Typed
<1>2. IsFiniteSet(Open) /\ Cardinality(Open) \in Nat
  BY FS_CardinalityType DEF BoundedOpen
<1>3. /\ IsFiniteSet(Open \cup {s})
      /\ \/ Cardinality(Open \cup {s}) = Cardinality(Open)
         \/ Cardinality(Open \cup {s}) = Cardinality(Open) + 1
  BY <1>2, FS_AddElement
<1> QED
  BY <1>1, <1>2, <1>3, SessionsAssumption
  DEF BoundedOpen, OpenSessionsBounded, HasCapacity

\* Closing makes room.
LEMMA ClosingIsBounded ==
    ASSUME Typed, BoundedOpen, NEW s \in SessionIds,
           session' = [session EXCEPT ![s] = "closed"]
    PROVE  BoundedOpen'
<1>1. Open' \in SUBSET Open
  BY DEF Open, Typed
<1>2. IsFiniteSet(Open') /\ Cardinality(Open') <= Cardinality(Open)
  BY <1>1, FS_Subset DEF BoundedOpen
<1>3. Cardinality(Open) \in Nat /\ Cardinality(Open') \in Nat
  BY <1>2, FS_CardinalityType DEF BoundedOpen
<1> QED
  BY <1>2, <1>3, SessionsAssumption DEF BoundedOpen, OpenSessionsBounded

-----------------------------------------------------------------------------
(* The invariant.                                                          *)

\* Nothing exists at first.
LEMMA InitIInv == Init => IInv
<1> SUFFICES ASSUME Init PROVE IInv
  OBVIOUS
<1>1. Open = {} /\ \A s \in SessionIds : Steps(s) = {}
  BY DEF Init, Open, Steps
<1>2. Typed
  <2>1. /\ attached \in [Requests -> BOOLEAN] /\ result \in [Requests -> BOOLEAN]
        /\ started \in [Requests -> BOOLEAN]
    BY DEF Init
  <2> QED
    BY <2>1, SessionsAssumption DEF Init, Typed, Status
<1>3. \A q \in Requests : StepOK(q)
  BY SessionsAssumption DEF Init, StepOK, Unlaunched, Follows, Remembered
<1>4. \A q \in Requests : Awaits(q)
  BY DEF Init, Awaits
<1>5. OrdinalsAreDense
  BY <1>1, FS_EmptySet DEF OrdinalsAreDense
<1>6. BoundStepsHaveResults
  BY DEF Init, BoundStepsHaveResults
<1>7. BoundedOpen
  BY <1>1, FS_EmptySet, SessionsAssumption DEF BoundedOpen, OpenSessionsBounded
<1> QED
  BY <1>2, <1>3, <1>4, <1>5, <1>6, <1>7 DEF IInv

\* Turns that leave the sessions alone leave the open ones as they are.
LEMMA OpenStays == BoundedOpen /\ session' = session => BoundedOpen'
BY DEF BoundedOpen, OpenSessionsBounded, Open

\* A turn of the event loop for one request.
LEMMA RequestIInv ==
    ASSUME IInv, NEW q \in Requests,
           \/ BeginRequest(q) \/ BindNext(q) \/ BindFails(q)
           \/ SelectBinding(q) \/ LaunchRefused(q)
    PROVE  IInv'
<1>1. Typed /\ Awaits(q)
  BY DEF IInv
<1>2. Typed' /\ (\A p \in Requests : StepOK(p)')
  BY <1>1, RequestTyped, RequestSteps DEF IInv
<1>3. BoundStepsHaveResults' /\ \A p \in Requests : Awaits(p)'
  BY RequestReferences DEF IInv
<1>4. StepsKept /\ session' = session
  BY DEF StepsKept, BeginRequest, BindNext, BindFails, SelectBinding,
         LaunchRefused, tables
<1> QED
  BY <1>2, <1>3, <1>4, KeptStepsAreDense, OpenStays DEF IInv

\* A launch.
LEMMA LaunchIInv ==
    ASSUME IInv, NEW q \in Requests, LaunchStep(q)
    PROVE  IInv'
<1>1. Typed' /\ (\A p \in Requests : StepOK(p)')
  BY LaunchTyped, LaunchSteps DEF IInv
<1>2. /\ OrdinalsAreDense' /\ BoundStepsHaveResults'
      /\ \A p \in Requests : Awaits(p)'
  BY LaunchReferences DEF IInv, StepOK
<1>3. session' = session
  BY DEF LaunchStep
<1> QED
  BY <1>1, <1>2, <1>3, OpenStays DEF IInv

\* An event of a run.
LEMMA EventIInv ==
    ASSUME IInv, NEW q \in Requests,
           \/ StartRun(q) \/ StartRunClaimFails(q) \/ AbandonRun(q)
           \/ \E outcome \in Outcomes : EndRun(q, outcome)
           \/ FinishStep(q) \/ FinishStepFails(q)
    PROVE  IInv'
<1>1. Typed' /\ (\A p \in Requests : StepOK(p)')
  BY EventTyped, EventSteps DEF IInv, StepOK
<1>2. /\ OrdinalsAreDense' /\ BoundStepsHaveResults'
      /\ \A p \in Requests : Awaits(p)'
  BY EventsAreQuiet, QuietReferences DEF IInv
<1>3. session' = session
  BY DEF StartRun, StartRunClaimFails, AbandonRun, EndRun, FinishStep,
         FinishStepFails, tables
<1> QED
  BY <1>1, <1>2, <1>3, OpenStays DEF IInv

\* Opening, closing and reopening.
LEMMA SessionIInv ==
    ASSUME IInv, NEW s \in SessionIds,
           CreateSession(s) \/ CloseSession(s) \/ ReopenSession(s)
    PROVE  IInv'
<1>1. /\ UNCHANGED <<bindings, step, ordinal, attached, result, run, started,
                     request, position, finishing, lost>>
  BY DEF CreateSession, CloseSession, ReopenSession, runVars
<1>2. Typed'
  BY SessionTyped DEF IInv
<1>3. \A p \in Requests : StepOK(p)'
  BY <1>1, OthersStay DEF IInv, Untouched
<1>4. /\ OrdinalsAreDense' /\ BoundStepsHaveResults'
      /\ \A p \in Requests : Awaits(p)'
  BY <1>1, QuietReferences DEF IInv, Quiet, StepsKept
<1>5. BoundedOpen'
  BY OpeningIsBounded, ClosingIsBounded
  DEF IInv, CreateSession, CloseSession, ReopenSession
<1> QED
  BY <1>2, <1>3, <1>4, <1>5 DEF IInv

\* The death of the process and the next boot.
LEMMA RestartIInv == IInv /\ Restart => IInv'
<1> SUFFICES ASSUME IInv, Restart PROVE IInv'
  OBVIOUS
<1>1. Typed' /\ (\A p \in Requests : StepOK(p)')
  BY RestartTyped, RestartSteps DEF IInv
<1>2. Quiet /\ session' = session
  BY DEF Restart, tables, Quiet, StepsKept
<1> QED
  BY <1>1, <1>2, QuietReferences, OpenStays DEF IInv

\* Every step keeps the invariant.
LEMMA NextIInv == IInv /\ [Next]_vars => IInv'
<1> SUFFICES ASSUME IInv, [Next]_vars PROVE IInv'
  OBVIOUS
<1>1. CASE UNCHANGED vars
  <2>1. Typed' /\ (\A p \in Requests : StepOK(p)')
    BY <1>1, OthersStay DEF vars, IInv, Typed, Untouched
  <2>2. Quiet /\ session' = session
    BY <1>1 DEF vars, Quiet, StepsKept
  <2> QED
    BY <2>1, <2>2, QuietReferences, OpenStays DEF IInv
<1>2. CASE Next
  BY <1>2, RequestIInv, LaunchIInv, EventIInv, SessionIInv, RestartIInv DEF Next
<1> QED
  BY <1>1, <1>2

\* The invariant holds in every reachable state.
THEOREM AlwaysIInv == Spec => []IInv
BY InitIInv, NextIInv, PTL DEF Spec

-----------------------------------------------------------------------------
(* What it shows.                                                          *)

\* The invariant is stronger than the type invariant.
LEMMA IInvTypes == IInv => TypeOK
<1> SUFFICES ASSUME IInv PROVE TypeOK
  OBVIOUS
<1>1. Typed /\ OpenSessionsBounded /\ OrdinalsAreDense
  BY DEF IInv, BoundedOpen
<1>2. ASSUME NEW q \in Requests
      PROVE  position[q] \in 0 .. Max({1, Len(BindsTo[q])})
  <2>1. position[q] \in Nat /\ Len(BindsTo[q]) \in Nat
    BY <1>1, SessionsAssumption, LenProperties DEF Typed
  <2>2. position[q] <= 1 \/ position[q] <= Len(BindsTo[q])
    BY DEF IInv, Awaits
  <2> QED
    BY <2>1, <2>2, MaxOfPair
<1> QED
  BY <1>1, <1>2 DEF TypeOK, Typed, Status

\* However requests interleave, and whatever fails, no more sessions are open
\* than the cap allows, and the ordinals of every session's steps are
\* 1, 2, 3 ... without gap or duplicate.
THEOREM TypeCorrect == Spec => []TypeOK
BY AlwaysIInv, IInvTypes, PTL

\* A binding row always refers to a step of its session whose result is
\* recorded, although the row is inserted turns after the reference was
\* resolved: what is resolved stays so.
THEOREM BoundStepsAlwaysHaveResults == Spec => []BoundStepsHaveResults
<1>1. IInv => BoundStepsHaveResults
  BY DEF IInv
<1> QED
  BY <1>1, AlwaysIInv, PTL

\* A step runs only once its run has started, and ends only once its run has
\* ended and with that outcome.
THEOREM StepsAlwaysFollowTheirRuns == Spec => []StepsFollowTheirRuns
<1>1. IInv => StepsFollowTheirRuns
  BY DEF IInv, StepOK, Follows, StepsFollowTheirRuns
<1> QED
  BY <1>1, AlwaysIInv, PTL

\* Unless the handling of an event failed or died, the step of a started run
\* is not left queued, and that of an ended run is finished or about to be:
\* the claim at launch makes up for the run.started nobody could match.
THEOREM NoStartedStepIsEverForgotten == Spec => []NoStartedStepIsForgotten
<1>1. IInv => NoStartedStepIsForgotten
  BY DEF IInv, StepOK, Remembered, NoStartedStepIsForgotten
<1> QED
  BY <1>1, AlwaysIInv, PTL

-----------------------------------------------------------------------------
(* The table of the steps implements RunLifecycle.                         *)

LegalMove(q) ==
    \/ StepLifecycle!Stays(q) \/ StepLifecycle!Queues(q)
    \/ StepLifecycle!Starts(q) \/ StepLifecycle!Ends(q)
    \/ StepLifecycle!Abandons(q)

\* A step whose status is as it was has made no move.
LEMMA SameStatusIsLegal ==
    ASSUME NEW q \in Requests, step'[q] = step[q]
    PROVE  LegalMove(q)
BY DEF LegalMove, StepLifecycle!Stays

\* A new step is queued or running at once, a queued one starts, and a running
\* one ends with an outcome.
LEMMA ChangedStatusIsLegal ==
    ASSUME NEW q \in Requests,
           \/ step[q] = "absent" /\ step'[q] = "queued"
           \/ step[q] \in {"absent", "queued"} /\ step'[q] = "running"
           \/ step[q] = "running" /\ step'[q] \in Outcomes
    PROVE  LegalMove(q)
<1>1. CASE step[q] = "absent" /\ step'[q] = "queued"
  BY <1>1 DEF LegalMove, StepLifecycle!Queues
<1>2. CASE step[q] \in {"absent", "queued"} /\ step'[q] = "running"
  BY <1>2 DEF LegalMove, StepLifecycle!Starts
<1>3. CASE step[q] = "running" /\ step'[q] \in Outcomes
  BY <1>3, SessionsAssumption DEF LegalMove, StepLifecycle!Ends
<1> QED
  BY <1>1, <1>2, <1>3

\* Every turn moves every step as the lifecycle allows.
LEMMA TurnIsLegal ==
    ASSUME IInv, Next, NEW q \in Requests
    PROVE  LegalMove(q)
<1>1. ASSUME step'[q] # step[q]
      PROVE  LaunchStep(q) \/ StartRun(q) \/ FinishStep(q)
  <2>1. ASSUME NEW p \in Requests,
               LaunchStep(p) \/ StartRun(p) \/ FinishStep(p)
        PROVE  p = q
    BY <1>1, <2>1
    DEF LaunchStep, RecordStep, StartRun, FinishStep, IInv, Typed
  <2> QED
    BY <1>1, <2>1
    DEF Next, BeginRequest, BindNext, BindFails, SelectBinding, LaunchRefused,
        StartRunClaimFails, AbandonRun, EndRun, FinishStepFails, Restart,
        CreateSession, CloseSession, ReopenSession, tables
<1>2. CASE step'[q] = step[q]
  BY <1>2, SameStatusIsLegal
<1>3. CASE step'[q] # step[q]
  <2>1. CASE LaunchStep(q)
    <3>1. step[q] = "absent"
      BY <2>1 DEF IInv, StepOK, Unlaunched, LaunchStep, LastArtifactArrives
    <3>2. step'[q] \in {"absent", "queued", "running"}
      BY <2>1 DEF LaunchStep, RecordStep, IInv, Typed
    <3> QED
      BY <1>3, <3>1, <3>2, ChangedStatusIsLegal
  <2>2. CASE StartRun(q)
    <3>1. step[q] = "queued" /\ step'[q] = "running"
      BY <1>3, <2>2 DEF StartRun, IInv, Typed
    <3> QED
      BY <3>1, ChangedStatusIsLegal
  <2>3. CASE FinishStep(q)
    <3>1. step[q] = "running" /\ step'[q] \in Outcomes
      BY <2>3 DEF FinishStep, IInv, Typed, StepOK, Follows
    <3> QED
      BY <3>1, ChangedStatusIsLegal
  <2> QED
    BY <1>1, <1>3, <2>1, <2>2, <2>3
<1> QED
  BY <1>2, <1>3

\* No more steps run than there are requests: sessions set no limit of their
\* own.
LEMMA StepsAreWithinLimits == StepLifecycle!WithinLimits
<1>1. StepLifecycle!Running \in SUBSET Requests
  BY DEF StepLifecycle!Running
<1>2. Cardinality(StepLifecycle!Running) <= Cardinality(Requests)
  BY <1>1, FS_Subset, SessionsAssumption
<1>3. \A S : StepLifecycle!Cardinality(S) = Cardinality(S)
  BY DEF StepLifecycle!Cardinality, Cardinality
<1> QED
  BY <1>2, <1>3 DEF StepLifecycle!WithinLimits

\* The table of the steps moves as that of the runs does: a step is queued,
\* runs and ends with one outcome, and never turns back, through interleaved
\* requests, failures and restarts.
THEOREM StepsRefineLifecycle == Spec => StepsImplementLifecycle
<1>1. Init => StepLifecycle!Init
  BY DEF Init, StepLifecycle!Init
<1>2. StepLifecycle!WithinLimits'
  BY StepsAreWithinLimits, PTL
<1>3. IInv /\ [Next]_vars =>
         [StepLifecycle!Next]_(StepLifecycle!lifecycleVars)
  <2>1. CASE UNCHANGED vars
    BY <2>1 DEF vars, StepLifecycle!lifecycleVars
  <2>2. ASSUME IInv, Next PROVE StepLifecycle!Next
    BY <1>2, <2>2, TurnIsLegal DEF LegalMove, StepLifecycle!Next
  <2> QED
    BY <2>1, <2>2
<1> QED
  BY <1>1, <1>3, AlwaysIInv, PTL
  DEF Spec, StepsImplementLifecycle, StepLifecycle!Spec
=============================================================================
