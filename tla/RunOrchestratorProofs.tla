------------------------ MODULE RunOrchestratorProofs ------------------------
(***************************************************************************)
(* What RunOrchestrator guarantees for every set of runs, every limit and  *)
(* every bound on failures.  The argument is one inductive invariant,      *)
(* Consistent: the ledgers of the governor balance against the number of   *)
(* queued and running rows (Ledger), and the in-memory maps never name a   *)
(* row the table does not agree with.                                      *)
(***************************************************************************)
EXTENDS RunOrchestrator, FiniteSetTheorems, SequenceTheorems, TLAPS

-----------------------------------------------------------------------------
(* Counting rows. *)

\* The runs of script s.
RunsOf(s) == {r \in Runs : ScriptOf[r] = s}

\* The runs of S whose row has status x.
Rows(st, x, S) == {r \in S : st[r] = x}

Count(st, x, S) == Cardinality(Rows(st, x, S))

\* Counts are natural numbers, and grow with the set they count in.
LEMMA CountType ==
    ASSUME NEW st, NEW x, NEW S \in SUBSET Runs
    PROVE  /\ IsFiniteSet(Rows(st, x, S))
           /\ Count(st, x, S) \in Nat
<1>1. Rows(st, x, S) \in SUBSET Runs
  BY DEF Rows
<1>2. IsFiniteSet(Runs)
  BY OrchestratorAssumption
<1>3. IsFiniteSet(Rows(st, x, S))
  BY <1>1, <1>2, FS_Subset
<1> QED
  BY <1>3, FS_CardinalityType DEF Count

\* The rows st2 differ from st at most in run r, which has status v.
MovesTo(st, st2, r, v) ==
    /\ st \in [Runs -> Statuses] /\ st2 \in [Runs -> Statuses]
    /\ r \in Runs /\ st2[r] = v
    /\ \A q \in Runs \ {r} : st2[q] = st[q]

\* A row that enters status x adds one to the count of x.
LEMMA CountEnter ==
    ASSUME NEW st, NEW st2, NEW r, NEW v, MovesTo(st, st2, r, v),
           NEW S \in SUBSET Runs, r \in S, st[r] # v
    PROVE  Count(st2, v, S) = Count(st, v, S) + 1
<1>1. Rows(st2, v, S) = Rows(st, v, S) \cup {r}
  BY DEF Rows, MovesTo
<1>2. r \notin Rows(st, v, S)
  BY DEF Rows
<1> QED
  BY <1>1, <1>2, CountType, FS_AddElement DEF Count

\* A row that leaves status x takes one from the count of x.
LEMMA CountLeave ==
    ASSUME NEW st, NEW st2, NEW r, NEW v, MovesTo(st, st2, r, v),
           NEW S \in SUBSET Runs, r \in S, st[r] # v
    PROVE  /\ Count(st2, st[r], S) = Count(st, st[r], S) - 1
           /\ Count(st, st[r], S) > 0
<1> DEFINE x == st[r]
<1>1. Rows(st2, x, S) = Rows(st, x, S) \ {r}
  BY DEF Rows, MovesTo
<1>2. r \in Rows(st, x, S)
  BY DEF Rows
<1>3. IsFiniteSet(Rows(st, x, S))
  BY CountType
<1>4. Cardinality(Rows(st, x, S) \ {r}) = Cardinality(Rows(st, x, S)) - 1
  BY <1>2, <1>3, FS_RemoveElement
<1>5. Count(st2, x, S) = Count(st, x, S) - 1
  BY <1>1, <1>4 DEF Count
<1>6. Count(st2, x, S) \in Nat /\ Count(st, x, S) \in Nat
  BY CountType
<1> QED
  BY <1>5, <1>6

\* A run outside S, or one that neither enters nor leaves x, changes nothing.
LEMMA CountKeep ==
    ASSUME NEW st, NEW st2, NEW r, NEW v, MovesTo(st, st2, r, v),
           NEW x, NEW S \in SUBSET Runs
    PROVE  (r \in S => st[r] # x /\ v # x) => Count(st2, x, S) = Count(st, x, S)
<1> SUFFICES ASSUME r \in S => st[r] # x /\ v # x
             PROVE  Count(st2, x, S) = Count(st, x, S)
  OBVIOUS
<1>1. Rows(st2, x, S) = Rows(st, x, S)
  BY DEF Rows, MovesTo
<1> QED
  BY <1>1 DEF Count

-----------------------------------------------------------------------------
(* The ledgers. *)

Queued(st) == Count(st, "queued", Runs)
Executing(st) == Count(st, "running", Runs)
ExecutingOf(st, s) == Count(st, "running", RunsOf(s))

\* The three counts of any table are naturals.
LEMMA CountsAreNat ==
    ASSUME NEW st
    PROVE  /\ Queued(st) \in Nat
           /\ Executing(st) \in Nat
           /\ \A s \in Scripts : ExecutingOf(st, s) \in Nat
BY CountType DEF Queued, Executing, ExecutingOf, RunsOf

\* How the three counts change when run r starts from outside the table or
\* from the queue, enters the queue, leaves it, or ends.
LEMMA CountsStart ==
    ASSUME NEW st, NEW st2, NEW r, MovesTo(st, st2, r, "running"),
           st[r] # "running"
    PROVE  /\ Executing(st2) = Executing(st) + 1
           /\ st[r] = "queued" => /\ Queued(st2) = Queued(st) - 1
                                  /\ Queued(st) > 0
           /\ st[r] # "queued" => Queued(st2) = Queued(st)
           /\ \A s \in Scripts :
                 ExecutingOf(st2, s) =
                    IF s = ScriptOf[r] THEN ExecutingOf(st, s) + 1
                                       ELSE ExecutingOf(st, s)
<1>1. r \in Runs
  BY DEF MovesTo
<1>2. Executing(st2) = Executing(st) + 1
  BY <1>1, CountEnter DEF Executing
<1>3. ASSUME st[r] = "queued"
      PROVE  Queued(st2) = Queued(st) - 1 /\ Queued(st) > 0
  BY <1>1, <1>3, CountLeave DEF Queued
<1>4. ASSUME st[r] # "queued" PROVE Queued(st2) = Queued(st)
  BY <1>1, <1>4, CountKeep DEF Queued
<1>5. ASSUME NEW s \in Scripts
      PROVE  ExecutingOf(st2, s) =
                IF s = ScriptOf[r] THEN ExecutingOf(st, s) + 1
                                   ELSE ExecutingOf(st, s)
  <2>1. CASE s = ScriptOf[r]
    BY <1>1, <2>1, CountEnter DEF ExecutingOf, RunsOf
  <2>2. CASE s # ScriptOf[r]
    BY <1>1, <2>2, CountKeep DEF ExecutingOf, RunsOf
  <2> QED
    BY <2>1, <2>2
<1> QED
  BY <1>2, <1>3, <1>4, <1>5

\* A row entering the queue adds one to the queued rows only.
LEMMA CountsQueue ==
    ASSUME NEW st, NEW st2, NEW r, MovesTo(st, st2, r, "queued"),
           st[r] \notin Live
    PROVE  /\ Executing(st2) = Executing(st)
           /\ Queued(st2) = Queued(st) + 1
           /\ \A s \in Scripts : ExecutingOf(st2, s) = ExecutingOf(st, s)
<1>1. r \in Runs /\ st[r] # "queued" /\ st[r] # "running"
  BY DEF MovesTo, Live
<1>2. Executing(st2) = Executing(st)
  BY <1>1, CountKeep DEF Executing
<1>3. Queued(st2) = Queued(st) + 1
  BY <1>1, CountEnter DEF Queued
<1>4. \A s \in Scripts : ExecutingOf(st2, s) = ExecutingOf(st, s)
  BY <1>1, CountKeep DEF ExecutingOf, RunsOf
<1> QED
  BY <1>2, <1>3, <1>4

\* A queued row that ends takes one from the queued rows only.
LEMMA CountsLeaveQueue ==
    ASSUME NEW st, NEW st2, NEW r, NEW v, MovesTo(st, st2, r, v),
           st[r] = "queued", v \notin Live
    PROVE  /\ Executing(st2) = Executing(st)
           /\ Queued(st2) = Queued(st) - 1
           /\ Queued(st) > 0
           /\ \A s \in Scripts : ExecutingOf(st2, s) = ExecutingOf(st, s)
<1>1. r \in Runs /\ v # "queued" /\ v # "running"
  BY DEF MovesTo, Live
<1>2. Executing(st2) = Executing(st)
  BY <1>1, CountKeep DEF Executing
<1>3. Queued(st2) = Queued(st) - 1 /\ Queued(st) > 0
  BY <1>1, CountLeave DEF Queued
<1>4. \A s \in Scripts : ExecutingOf(st2, s) = ExecutingOf(st, s)
  BY <1>1, CountKeep DEF ExecutingOf, RunsOf
<1> QED
  BY <1>2, <1>3, <1>4

\* A running row that ends takes one from the running rows, globally and
\* of its script.
LEMMA CountsEnd ==
    ASSUME NEW st, NEW st2, NEW r, NEW v, MovesTo(st, st2, r, v),
           st[r] = "running", v \notin Live
    PROVE  /\ Executing(st2) = Executing(st) - 1
           /\ Executing(st) > 0
           /\ Queued(st2) = Queued(st)
           /\ \A s \in Scripts :
                 ExecutingOf(st2, s) =
                    IF s = ScriptOf[r] THEN ExecutingOf(st, s) - 1
                                       ELSE ExecutingOf(st, s)
           /\ ExecutingOf(st, ScriptOf[r]) > 0
<1>1. r \in Runs /\ v # "queued" /\ v # "running"
  BY DEF MovesTo, Live
<1>2. Executing(st2) = Executing(st) - 1 /\ Executing(st) > 0
  BY <1>1, CountLeave DEF Executing
<1>3. Queued(st2) = Queued(st)
  BY <1>1, CountKeep DEF Queued
<1>4. /\ ExecutingOf(st2, ScriptOf[r]) = ExecutingOf(st, ScriptOf[r]) - 1
      /\ ExecutingOf(st, ScriptOf[r]) > 0
  BY <1>1, CountLeave DEF ExecutingOf, RunsOf
<1>5. ASSUME NEW s \in Scripts, s # ScriptOf[r]
      PROVE  ExecutingOf(st2, s) = ExecutingOf(st, s)
  BY <1>1, <1>5, CountKeep DEF ExecutingOf, RunsOf
<1> QED
  BY <1>2, <1>3, <1>4, <1>5

\* The governor g balances against the rows st: together its ledgers count
\* the live rows, its slots cover the running ones, and both stay in bounds.
Ledger(st, g) ==
    /\ g.active + g.queued = Queued(st) + Executing(st)
    /\ g.active >= Executing(st)
    /\ g.active <= MaxConcurrency
    /\ g.queued <= QueueCapacity
    /\ \A s \in Scripts :
          /\ g.byScript[s] >= ExecutingOf(st, s)
          /\ g.byScript[s] <= MaxPerScript

\* What accept, enqueue and dequeue do to each ledger of the governor.
LEMMA GovernorOperations ==
    ASSUME NEW g \in Governors, NEW t \in Scripts
    PROVE  /\ Accept(g, t) \in Governors
           /\ Accept(g, t).active = g.active + 1
           /\ Accept(g, t).queued = g.queued
           /\ \A s \in Scripts :
                 Accept(g, t).byScript[s] =
                    IF s = t THEN g.byScript[s] + 1 ELSE g.byScript[s]
           /\ Enqueue(g) \in Governors
           /\ Enqueue(g).active = g.active
           /\ Enqueue(g).queued = g.queued + 1
           /\ Enqueue(g).byScript = g.byScript
           /\ Dequeue(g) \in Governors
           /\ Dequeue(g).active = g.active
           /\ g.queued > 0 => Dequeue(g).queued = g.queued - 1
           /\ Dequeue(g).byScript = g.byScript
<1>1. Accept(g, t) \in Governors
  BY DEF Governors, Accept
<1>2. /\ Accept(g, t).active = g.active + 1
      /\ Accept(g, t).queued = g.queued
      /\ \A s \in Scripts :
            Accept(g, t).byScript[s] =
               IF s = t THEN g.byScript[s] + 1 ELSE g.byScript[s]
  BY DEF Governors, Accept
<1>3. /\ Enqueue(g) \in Governors
      /\ Enqueue(g).active = g.active
      /\ Enqueue(g).queued = g.queued + 1
      /\ Enqueue(g).byScript = g.byScript
  BY DEF Governors, Enqueue
<1>4. /\ Dequeue(g) \in Governors
      /\ Dequeue(g).active = g.active
      /\ g.queued > 0 => Dequeue(g).queued = g.queued - 1
      /\ Dequeue(g).byScript = g.byScript
  BY DEF Governors, Dequeue
<1> QED
  BY <1>1, <1>2, <1>3, <1>4

\* release gives back exactly one slot, because a run that holds one is
\* counted for its script.
LEMMA GovernorRelease ==
    ASSUME NEW g \in Governors, NEW t \in Scripts,
           g.active > 0, g.byScript[t] > 0
    PROVE  /\ Release(g, t) \in Governors
           /\ Release(g, t).active = g.active - 1
           /\ Release(g, t).queued = g.queued
           /\ \A s \in Scripts :
                 Release(g, t).byScript[s] =
                    IF s = t THEN g.byScript[s] - 1 ELSE g.byScript[s]
<1>1. Release(g, t) = [active |-> g.active - 1,
                       byScript |-> [g.byScript EXCEPT ![t] = @ - 1],
                       queued |-> g.queued]
  BY DEF Release, Governors
<1> QED
  BY <1>1 DEF Governors

\* A run starts on a slot: a new row, or a waiting one whose reservation is
\* given up for the slot.
LEMMA LedgerStart ==
    ASSUME NEW st, NEW st2, NEW r, MovesTo(st, st2, r, "running"),
           st[r] = "absent", NEW g \in Governors, Ledger(st, g),
           HasSlot(g, ScriptOf[r])
    PROVE  Ledger(st2, Accept(g, ScriptOf[r]))
<1> DEFINE h == Accept(g, ScriptOf[r])
<1>1. ScriptOf[r] \in Scripts
  BY OrchestratorAssumption DEF MovesTo
<1>2. /\ h \in Governors /\ h.active = g.active + 1 /\ h.queued = g.queued
      /\ \A s \in Scripts :
            h.byScript[s] = IF s = ScriptOf[r] THEN g.byScript[s] + 1
                                               ELSE g.byScript[s]
  BY <1>1, GovernorOperations
<1> HIDE DEF h
<1>3. Ledger(st2, h)
  BY <1>1, <1>2, CountsStart, CountsAreNat, GovernorAssumption
  DEF Ledger, HasSlot, Governors
<1> QED
  BY <1>3 DEF h

\* The pump starts a queued run: its reservation becomes a slot.
LEMMA LedgerStartQueued ==
    ASSUME NEW st, NEW st2, NEW r, MovesTo(st, st2, r, "running"),
           st[r] = "queued", NEW g \in Governors, Ledger(st, g),
           HasSlot(g, ScriptOf[r]), g.queued > 0
    PROVE  Ledger(st2, Dequeue(Accept(g, ScriptOf[r])))
<1> DEFINE h == Accept(g, ScriptOf[r])
<1>1. ScriptOf[r] \in Scripts
  BY OrchestratorAssumption DEF MovesTo
<1>2. /\ h \in Governors /\ h.active = g.active + 1 /\ h.queued = g.queued
      /\ \A s \in Scripts :
            h.byScript[s] = IF s = ScriptOf[r] THEN g.byScript[s] + 1
                                               ELSE g.byScript[s]
  BY <1>1, GovernorOperations
<1> HIDE DEF h
<1>3. /\ Dequeue(h).active = h.active
      /\ Dequeue(h).queued = h.queued - 1
      /\ Dequeue(h).byScript = h.byScript
  BY <1>1, <1>2, GovernorOperations
<1>4. Ledger(st2, Dequeue(h))
  BY <1>1, <1>2, <1>3, CountsStart, CountsAreNat, GovernorAssumption
  DEF Ledger, HasSlot, Governors
<1> QED
  BY <1>4 DEF h

\* A launch whose claim failed: the row waits, the slot is taken.
LEMMA LedgerStrand ==
    ASSUME NEW st, NEW st2, NEW r, MovesTo(st, st2, r, "queued"),
           st[r] = "absent", NEW g \in Governors, Ledger(st, g),
           HasSlot(g, ScriptOf[r])
    PROVE  Ledger(st2, Accept(g, ScriptOf[r]))
<1>1. ScriptOf[r] \in Scripts /\ st[r] \notin Live
  BY OrchestratorAssumption DEF MovesTo, Live
<1> QED
  BY <1>1, CountsQueue, CountsAreNat, GovernorOperations, GovernorAssumption
  DEF Ledger, HasSlot, Governors

\* A launch that waits: a queued row and a reservation appear together.
LEMMA LedgerQueue ==
    ASSUME NEW st, NEW st2, NEW r, MovesTo(st, st2, r, "queued"),
           st[r] = "absent", NEW g \in Governors, Ledger(st, g),
           g.queued < QueueCapacity
    PROVE  Ledger(st2, Enqueue(g))
<1>1. ScriptOf[r] \in Scripts /\ st[r] \notin Live
  BY OrchestratorAssumption DEF MovesTo, Live
<1> QED
  BY <1>1, CountsQueue, CountsAreNat, GovernorOperations, GovernorAssumption
  DEF Ledger, Governors

\* A waiting run is evicted: its row and its reservation go together.
LEMMA LedgerAbandon ==
    ASSUME NEW st, NEW st2, NEW r, NEW v, MovesTo(st, st2, r, v),
           v \notin Live, st[r] = "queued", NEW g \in Governors,
           Ledger(st, g), g.queued > 0
    PROVE  Ledger(st2, Dequeue(g))
<1> DEFINE h == Dequeue(g)
<1>1. PICK t \in Scripts : t = ScriptOf[r]
  BY OrchestratorAssumption DEF MovesTo
<1>2. /\ h \in Governors /\ h.active = g.active
      /\ h.queued = g.queued - 1 /\ h.byScript = g.byScript
  BY <1>1, GovernorOperations
<1> HIDE DEF h
<1>3. Ledger(st2, h)
  BY <1>2, CountsLeaveQueue, CountsAreNat, GovernorAssumption
  DEF Ledger, Governors
<1> QED
  BY <1>3 DEF h

\* A running run ends: its row and its slot go together.
LEMMA LedgerEnd ==
    ASSUME NEW st, NEW st2, NEW r, NEW v, MovesTo(st, st2, r, v),
           v \notin Live, st[r] = "running", NEW g \in Governors,
           Ledger(st, g)
    PROVE  /\ g.active > 0 /\ g.byScript[ScriptOf[r]] > 0
           /\ Ledger(st2, Release(g, ScriptOf[r]))
<1>1. ScriptOf[r] \in Scripts
  BY OrchestratorAssumption DEF MovesTo
<1>2. g.active > 0 /\ g.byScript[ScriptOf[r]] > 0
  BY <1>1, CountsEnd, CountsAreNat DEF Ledger, Governors
<1>3. Ledger(st2, Release(g, ScriptOf[r]))
  BY <1>1, <1>2, CountsEnd, CountsAreNat, GovernorRelease, GovernorAssumption
  DEF Ledger, Governors
<1> QED
  BY <1>2, <1>3

-----------------------------------------------------------------------------
(* The inductive invariant. *)

\* The rows alone: within the limits, and never more than the pump lists.
\* This part outlives the process.
RowsBounded(st) ==
    /\ Queued(st) + Executing(st) <= ListLimit
    /\ Executing(st) <= MaxConcurrency
    /\ \A s \in Scripts : ExecutingOf(st, s) <= MaxPerScript

\* The maps name only rows in the status they stand for, and every pending
\* run holds a reservation.
Held(st, g, pending, act) ==
    /\ pending \subseteq InStatus(st, "queued")
    /\ Cardinality(pending) <= g.queued
    /\ act \subseteq InStatus(st, "running")

Serving ==
    up => /\ Ledger(status, gov)
          /\ Held(status, gov, pendingQueued, active)
          /\ queueTimers \subseteq pendingQueued

Stopped ==
    ~up => /\ gov = IdleGovernor
           /\ pendingQueued = {} /\ queueTimers = {} /\ active = {}

Consistent == TypeOK /\ RowsBounded(status) /\ Serving /\ Stopped

\* A balanced ledger within its limits bounds the rows themselves.
LEMMA LedgerBounds ==
    ASSUME NEW st, NEW g \in Governors, Ledger(st, g)
    PROVE  RowsBounded(st)
BY CountsAreNat, GovernorAssumption
DEF Ledger, RowsBounded, ListLimit, Governors

\* A row that ends or is abandoned keeps the bounds.
LEMMA BoundsShrink ==
    ASSUME NEW st, NEW st2, NEW r, NEW v, MovesTo(st, st2, r, v),
           v \notin Live, st[r] \in Live, RowsBounded(st)
    PROVE  RowsBounded(st2)
<1>1. ScriptOf[r] \in Scripts
  BY OrchestratorAssumption DEF MovesTo
<1>2. CASE st[r] = "running"
  BY <1>1, <1>2, CountsEnd, CountsAreNat, GovernorAssumption
  DEF RowsBounded, ListLimit
<1>3. CASE st[r] = "queued"
  BY <1>1, <1>3, CountsLeaveQueue, CountsAreNat, GovernorAssumption
  DEF RowsBounded, ListLimit
<1> QED
  BY <1>2, <1>3 DEF Live

\* With no live row the bounds and the idle ledger hold.
LEMMA NoLiveRows ==
    ASSUME NEW st, \A r \in Runs : st[r] \notin Live
    PROVE  RowsBounded(st) /\ Ledger(st, IdleGovernor)
<1>1. Rows(st, "queued", Runs) = {} /\ Rows(st, "running", Runs) = {}
  BY DEF Rows, Live
<1>2. \A s \in Scripts : Rows(st, "running", RunsOf(s)) = {}
  BY DEF Rows, RunsOf, Live
<1>3. Queued(st) = 0 /\ Executing(st) = 0
  BY <1>1, FS_EmptySet DEF Queued, Executing, Count
<1>4. \A s \in Scripts : ExecutingOf(st, s) = 0
  BY <1>2, FS_EmptySet DEF ExecutingOf, Count
<1>5. Ledger(st, IdleGovernor)
  BY <1>3, <1>4, GovernorAssumption DEF Ledger, IdleGovernor
<1>6. IdleGovernor \in Governors
  BY DEF IdleGovernor, Governors
<1> QED
  BY <1>5, <1>6, LedgerBounds

\* The pending map is finite, and loses one entry at a time.
LEMMA PendingCount ==
    ASSUME NEW pending \in SUBSET Runs, NEW r
    PROVE  /\ Cardinality(pending) \in Nat
           /\ r \in pending =>
                 /\ Cardinality(pending \ {r}) = Cardinality(pending) - 1
                 /\ Cardinality(pending) > 0
           /\ r \notin pending =>
                 Cardinality(pending \cup {r}) = Cardinality(pending) + 1
<1>1. IsFiniteSet(pending)
  BY OrchestratorAssumption, FS_Subset
<1>2. Cardinality(pending) \in Nat
  BY <1>1, FS_CardinalityType
<1>3. ASSUME r \in pending
      PROVE  /\ Cardinality(pending \ {r}) = Cardinality(pending) - 1
             /\ Cardinality(pending) > 0
  <2>1. IsFiniteSet(pending \ {r})
    BY <1>1, FS_Subset
  <2>2. Cardinality(pending \ {r}) \in Nat
    BY <2>1, FS_CardinalityType
  <2>3. Cardinality(pending \ {r}) = Cardinality(pending) - 1
    BY <1>1, <1>3, FS_RemoveElement
  <2> QED
    BY <1>2, <2>2, <2>3
<1>4. ASSUME r \notin pending
      PROVE  Cardinality(pending \cup {r}) = Cardinality(pending) + 1
  BY <1>1, <1>4, FS_AddElement
<1> QED
  BY <1>2, <1>3, <1>4

-----------------------------------------------------------------------------
(* Steps. *)

Events == {"queued", "started", "ended"}

\* Publishing keeps a feed a sequence of run events.
LEMMA FeedGrows ==
    ASSUME NEW f \in [Runs -> Seq(Events)], NEW r \in Runs
    PROVE  /\ \A e \in Events : [f EXCEPT ![r] = Append(@, e)] \in [Runs -> Seq(Events)]
           /\ [f EXCEPT ![r] = @ \o <<"queued", "started">>] \in [Runs -> Seq(Events)]
<1>1. f[r] \in Seq(Events)
  OBVIOUS
<1>2. \A e \in Events : Append(f[r], e) \in Seq(Events)
  BY <1>1, AppendProperties
<1>3. <<"queued", "started">> \in Seq(Events)
  BY DEF Events
<1>4. f[r] \o <<"queued", "started">> \in Seq(Events)
  BY <1>1, <1>3, ConcatProperties
<1> QED
  BY <1>2, <1>4

\* Setting one row is a move in the sense of the counting lemmas.
LEMMA RowUpdate ==
    ASSUME NEW st \in [Runs -> Statuses], NEW r \in Runs, NEW v \in Statuses,
           NEW st2, st2 = [st EXCEPT ![r] = v]
    PROVE  MovesTo(st, st2, r, v)
BY DEF MovesTo

\* The pump, on rows st, ledgers g and active runs act that balance, leaves
\* rows, ledgers and maps that balance.
LEMMA PumpKeepsLedger ==
    ASSUME TypeOK,
           NEW st \in [Runs -> Statuses], NEW g \in Governors,
           NEW act \in SUBSET Runs, NEW fd \in [Runs -> Seq(Events)],
           Ledger(st, g), Held(st, g, pendingQueued, act),
           queueTimers \subseteq pendingQueued,
           PumpQueue(st, g, act, fd)
    PROVE  /\ status' \in [Runs -> Statuses] /\ gov' \in Governors
           /\ started' \in [Runs -> BOOLEAN]
           /\ feed' \in [Runs -> Seq(Events)]
           /\ act \subseteq active' /\ active' \subseteq Runs
           /\ pendingQueued' \subseteq Runs
           /\ queueTimers' \subseteq pendingQueued'
           /\ Ledger(status', gov')
           /\ Held(status', gov', pendingQueued', active')
<1>1. CASE PumpIdles(st, g, act, fd)
  BY <1>1 DEF PumpIdles, TypeOK
<1>2. ASSUME NEW q \in pendingQueued, HasSlot(g, ScriptOf[q]),
             PumpStarts(q, st, g, act, fd)
      PROVE  /\ status' \in [Runs -> Statuses] /\ gov' \in Governors
             /\ started' \in [Runs -> BOOLEAN]
             /\ feed' \in [Runs -> Seq(Events)]
             /\ act \subseteq active' /\ active' \subseteq Runs
             /\ pendingQueued' \subseteq Runs
             /\ queueTimers' \subseteq pendingQueued'
             /\ Ledger(status', gov')
             /\ Held(status', gov', pendingQueued', active')
  <2>1. q \in Runs /\ st[q] = "queued"
    BY DEF Held, InStatus
  <2>2. MovesTo(st, status', q, "running")
    <3>1. status' = [st EXCEPT ![q] = "running"]
      BY <1>2 DEF PumpStarts
    <3>2. "running" \in Statuses
      BY DEF Statuses, Live
    <3> QED
      BY <2>1, <3>1, <3>2, RowUpdate
  <2>3. ScriptOf[q] \in Scripts
    BY <2>1, OrchestratorAssumption
  <2>4. PICK h \in Governors : /\ h = Accept(g, ScriptOf[q])
                               /\ h.queued = g.queued
    BY <2>3, GovernorOperations
  <2>5. g.queued > 0
    <3>1. pendingQueued \in SUBSET Runs
      BY DEF TypeOK
    <3>2. Cardinality(pendingQueued) \in Nat /\ Cardinality(pendingQueued) > 0
      BY <3>1, PendingCount
    <3> QED
      BY <3>2 DEF Held, Governors
  <2>6. gov' = Dequeue(h)
    BY <1>2, <2>4 DEF PumpStarts
  <2>7. gov' \in Governors /\ gov'.queued = g.queued - 1
    BY <2>3, <2>4, <2>5, <2>6, GovernorOperations
  <2>8. Ledger(status', gov')
    BY <1>2, <2>1, <2>2, <2>4, <2>5, <2>6, LedgerStartQueued
  <2>9. Held(status', gov', pendingQueued', active')
    <3>1. pendingQueued' = pendingQueued \ {q} /\ active' = act \cup {q}
      BY <1>2 DEF PumpStarts
    <3>2. Cardinality(pendingQueued') = Cardinality(pendingQueued) - 1
      BY <3>1, PendingCount DEF TypeOK
    <3>4. Cardinality(pendingQueued) \in Nat
      BY PendingCount DEF TypeOK
    <3>5. Cardinality(pendingQueued') <= gov'.queued
      BY <2>7, <3>2, <3>4 DEF Held, Governors
    <3>3. /\ pendingQueued' \subseteq InStatus(status', "queued")
          /\ active' \subseteq InStatus(status', "running")
      BY <2>1, <2>2, <3>1 DEF Held, InStatus, MovesTo
    <3> QED
      BY <3>3, <3>5 DEF Held
  <2>10. feed' \in [Runs -> Seq(Events)]
    BY <1>2, <2>1, FeedGrows DEF PumpStarts, Events
  <2>11. started' \in [Runs -> BOOLEAN]
    BY <1>2, <2>1 DEF PumpStarts, TypeOK
  <2>12. /\ act \subseteq active' /\ active' \subseteq Runs
         /\ pendingQueued' \subseteq Runs
         /\ queueTimers' \subseteq pendingQueued'
    BY <1>2, <2>1 DEF PumpStarts, TypeOK
  <2> QED
    BY <2>2, <2>7, <2>8, <2>9, <2>10, <2>11, <2>12 DEF MovesTo
<1> QED
  BY <1>1, <1>2 DEF PumpQueue, Startable

-----------------------------------------------------------------------------
(* Every action preserves the invariant. *)

\* The empty table and the idle governor are consistent.
LEMMA InitConsistent == Init => Consistent
<1> SUFFICES ASSUME Init PROVE Consistent
  OBVIOUS
<1>1. TypeOK
  <2>1. gov \in Governors
    BY DEF Init, IdleGovernor, Governors
  <2>2. feed \in [Runs -> Seq(Events)]
    BY EmptySeq DEF Init
  <2>3. /\ status \in [Runs -> Statuses] /\ queuedAt \in [Runs -> Nat]
        /\ started \in [Runs -> BOOLEAN]
    BY DEF Init, Statuses
  <2> QED
    BY <2>1, <2>2, <2>3 DEF Init, TypeOK, Events
<1>2. \A r \in Runs : status[r] \notin Live
  BY DEF Init, Live
<1>3. RowsBounded(status) /\ Ledger(status, gov)
  BY <1>2, NoLiveRows DEF Init
<1>4. Held(status, gov, pendingQueued, active)
  BY FS_EmptySet DEF Init, Held, IdleGovernor
<1> QED
  BY <1>1, <1>3, <1>4 DEF Consistent, Serving, Stopped, Init

\* A step of a serving process that leaves the rows of its maps alone.
LEMMA ServingStep ==
    ASSUME TypeOK', up', Ledger(status', gov'),
           Held(status', gov', pendingQueued', active'),
           queueTimers' \subseteq pendingQueued'
    PROVE  Consistent'
<1>1. RowsBounded(status')
  BY LedgerBounds DEF TypeOK
<1> QED
  BY <1>1 DEF Consistent, Serving, Stopped

\* The process dies leaving bounded rows behind.
LEMMA DyingStep ==
    ASSUME TypeOK, ProcessDies, status' \in [Runs -> Statuses],
           RowsBounded(status'), queuedAt' \in [Runs -> Nat],
           started' \in [Runs -> BOOLEAN], clock' \in Nat, faults' \in Nat
    PROVE  Consistent'
<1>1. IdleGovernor \in Governors
  BY DEF IdleGovernor, Governors
<1>2. feed' \in [Runs -> Seq(Events)]
  BY EmptySeq DEF ProcessDies
<1>3. crashes' \in Nat
  BY DEF ProcessDies, TypeOK
<1>4. TypeOK'
  BY <1>1, <1>2, <1>3 DEF TypeOK, ProcessDies, Events
<1> QED
  BY <1>4 DEF Consistent, Serving, Stopped, ProcessDies

\* What a launch has done once insertQueued has run.
LEMMA Inserting ==
    ASSUME Consistent, NEW r \in Runs, NEW t \in clock .. MaxClock,
           InsertQueued(r, t)
    PROVE  /\ queuedAt' \in [Runs -> Nat] /\ clock' \in Nat
           /\ up /\ status[r] = "absent" /\ r \notin pendingQueued
           /\ TypeOK /\ Ledger(status, gov)
           /\ Held(status, gov, pendingQueued, active)
           /\ ScriptOf[r] \in Scripts
<1>1. t \in Nat
  BY OrchestratorAssumption DEF Consistent, TypeOK
<1> QED
  BY <1>1, OrchestratorAssumption
  DEF Consistent, TypeOK, Serving, InsertQueued, Held, InStatus

\* A launch that starts its run keeps table, ledgers and maps consistent.
LEMMA LaunchStartsStep ==
    ASSUME Consistent, NEW r \in Runs, NEW t \in clock .. MaxClock,
           LaunchStarts(r, t)
    PROVE  Consistent'
<1>1. InsertQueued(r, t) /\ HasSlot(gov, ScriptOf[r])
  BY DEF LaunchStarts, Decide
<1>2. TypeOK /\ gov \in Governors
  BY <1>1, Inserting DEF TypeOK
<1>3. status' = [status EXCEPT ![r] = "running"] /\ "running" \in Statuses
  BY DEF LaunchStarts, Statuses, Live
<1>4. MovesTo(status, status', r, "running")
  BY <1>2, <1>3, RowUpdate DEF TypeOK
<1>5. gov' = Accept(gov, ScriptOf[r])
  BY DEF LaunchStarts
<1>6. Ledger(status', gov')
  BY <1>1, <1>2, <1>4, <1>5, Inserting, LedgerStart
<1>7. gov' \in Governors /\ gov'.queued = gov.queued
  BY <1>1, <1>2, <1>5, Inserting, GovernorOperations
<1>8. Held(status', gov', pendingQueued', active')
  BY <1>1, <1>4, <1>7, Inserting DEF Held, LaunchStarts, InStatus, MovesTo
<1>9. TypeOK'
  <2>1. feed' \in [Runs -> Seq(Events)]
    BY <1>2, FeedGrows DEF LaunchStarts, TypeOK, Events
  <2>2. started' \in [Runs -> BOOLEAN]
    BY <1>2 DEF LaunchStarts, TypeOK
  <2> QED
    BY <1>1, <1>2, <1>4, <1>7, <2>1, <2>2, Inserting
    DEF LaunchStarts, TypeOK, MovesTo, Events
<1> QED
  BY <1>1, <1>6, <1>8, <1>9, ServingStep, Inserting
  DEF LaunchStarts, Consistent, Serving

\* A launch that queues its run does.
LEMMA LaunchQueuesStep ==
    ASSUME Consistent, NEW r \in Runs, NEW t \in clock .. MaxClock,
           LaunchQueues(r, t)
    PROVE  Consistent'
<1>1. InsertQueued(r, t) /\ gov.queued < QueueCapacity
  BY DEF LaunchQueues, Decide
<1>2. TypeOK /\ gov \in Governors
  BY <1>1, Inserting DEF TypeOK
<1>3. status' = [status EXCEPT ![r] = "queued"] /\ "queued" \in Statuses
  BY DEF LaunchQueues, Statuses, Live
<1>4. MovesTo(status, status', r, "queued")
  BY <1>2, <1>3, RowUpdate DEF TypeOK
<1>5. gov' = Enqueue(gov)
  BY DEF LaunchQueues
<1>6. Ledger(status', gov')
  BY <1>1, <1>2, <1>4, <1>5, Inserting, LedgerQueue
<1>7. gov' \in Governors /\ gov'.queued = gov.queued + 1
  BY <1>1, <1>2, <1>5, Inserting, GovernorOperations
<1>8. Held(status', gov', pendingQueued', active')
  <2>1. pendingQueued' = pendingQueued \cup {r} /\ active' = active
    BY DEF LaunchQueues
  <2>2. /\ Cardinality(pendingQueued') = Cardinality(pendingQueued) + 1
        /\ Cardinality(pendingQueued) \in Nat
    BY <1>1, <1>2, <2>1, Inserting, PendingCount DEF TypeOK
  <2>3. Cardinality(pendingQueued') <= gov'.queued
    <3>1. Cardinality(pendingQueued) <= gov.queued
      BY <1>1, Inserting DEF Held
    <3> QED
      BY <1>2, <1>7, <2>2, <3>1 DEF Governors
  <2>4. /\ pendingQueued' \subseteq InStatus(status', "queued")
        /\ active' \subseteq InStatus(status', "running")
    BY <1>1, <1>4, <2>1, Inserting DEF Held, InStatus, MovesTo
  <2> QED
    BY <2>3, <2>4 DEF Held
<1>9. TypeOK'
  <2>1. feed' \in [Runs -> Seq(Events)]
    BY <1>2, FeedGrows DEF LaunchQueues, Publish, TypeOK, Events
  <2> QED
    BY <1>1, <1>2, <1>4, <1>7, <2>1, Inserting
    DEF LaunchQueues, TypeOK, MovesTo, Events
<1>10. queueTimers' \subseteq pendingQueued' /\ up'
  BY <1>1, Inserting DEF LaunchQueues, Consistent, Serving
<1> QED
  BY <1>6, <1>8, <1>9, <1>10, ServingStep

\* The reservation of a row that was never written is given back exactly.
LEMMA LaunchInsertFailsStep ==
    ASSUME Consistent, NEW r \in Runs, LaunchInsertFails(r)
    PROVE  Consistent'
<1> DEFINE s == ScriptOf[r]
<1>1. s \in Scripts /\ gov \in Governors /\ TypeOK
  BY OrchestratorAssumption DEF Consistent, TypeOK
<1>2. gov' = gov
  <2>1. CASE gov' = Release(Accept(gov, s), s)
    BY <1>1, <2>1 DEF Release, Accept, Governors
  <2>2. CASE gov' = Dequeue(Enqueue(gov))
    BY <1>1, <2>2 DEF Dequeue, Enqueue, Governors
  <2> QED
    BY <2>1, <2>2 DEF LaunchInsertFails
<1>3. faults' \in Nat
  BY <1>1 DEF LaunchInsertFails, TypeOK
<1>4. TypeOK'
  BY <1>1, <1>2, <1>3 DEF LaunchInsertFails, TypeOK, rowVars
<1> QED
  BY <1>2, <1>4 DEF LaunchInsertFails, rowVars, Consistent, Serving, Stopped

\* A launch whose claim fails leaves a queued row, which its kept slot
\* still balances.
LEMMA LaunchClaimFailsStep ==
    ASSUME Consistent, NEW r \in Runs, NEW t \in clock .. MaxClock,
           LaunchClaimFails(r, t)
    PROVE  Consistent'
<1>1. InsertQueued(r, t) /\ HasSlot(gov, ScriptOf[r])
  BY DEF LaunchClaimFails, Decide
<1>2. TypeOK /\ gov \in Governors
  BY <1>1, Inserting DEF TypeOK
<1>3. status' = [status EXCEPT ![r] = "queued"] /\ "queued" \in Statuses
  BY DEF LaunchClaimFails, Statuses, Live
<1>4. MovesTo(status, status', r, "queued")
  BY <1>2, <1>3, RowUpdate DEF TypeOK
<1>5. gov' = Accept(gov, ScriptOf[r])
  BY DEF LaunchClaimFails
<1>6. Ledger(status', gov')
  BY <1>1, <1>2, <1>4, <1>5, Inserting, LedgerStrand
<1>7. gov' \in Governors /\ gov'.queued = gov.queued
  BY <1>1, <1>2, <1>5, Inserting, GovernorOperations
<1>8. Held(status', gov', pendingQueued', active')
  BY <1>1, <1>4, <1>7, Inserting DEF Held, LaunchClaimFails, InStatus, MovesTo
<1>9. TypeOK'
  <2>1. feed' \in [Runs -> Seq(Events)]
    BY <1>2, FeedGrows DEF LaunchClaimFails, Publish, TypeOK, Events
  <2>2. faults' \in Nat
    BY <1>2 DEF LaunchClaimFails, TypeOK
  <2> QED
    BY <1>1, <1>2, <1>4, <1>7, <2>1, <2>2, Inserting
    DEF LaunchClaimFails, TypeOK, MovesTo, Events
<1> QED
  BY <1>1, <1>6, <1>8, <1>9, ServingStep, Inserting
  DEF LaunchClaimFails, Consistent, Serving

\* A launch whose executor throws leaves a running row and its slot.
LEMMA LaunchExecuteThrowsStep ==
    ASSUME Consistent, NEW r \in Runs, NEW t \in clock .. MaxClock,
           LaunchExecuteThrows(r, t)
    PROVE  Consistent'
<1>1. InsertQueued(r, t) /\ HasSlot(gov, ScriptOf[r])
  BY DEF LaunchExecuteThrows, Decide
<1>2. TypeOK /\ gov \in Governors
  BY <1>1, Inserting DEF TypeOK
<1>3. status' = [status EXCEPT ![r] = "running"] /\ "running" \in Statuses
  BY DEF LaunchExecuteThrows, Statuses, Live
<1>4. MovesTo(status, status', r, "running")
  BY <1>2, <1>3, RowUpdate DEF TypeOK
<1>5. gov' = Accept(gov, ScriptOf[r])
  BY DEF LaunchExecuteThrows
<1>6. Ledger(status', gov')
  BY <1>1, <1>2, <1>4, <1>5, Inserting, LedgerStart
<1>7. gov' \in Governors /\ gov'.queued = gov.queued
  BY <1>1, <1>2, <1>5, Inserting, GovernorOperations
<1>8. Held(status', gov', pendingQueued', active')
  BY <1>1, <1>4, <1>7, Inserting
  DEF Held, LaunchExecuteThrows, InStatus, MovesTo
<1>9. TypeOK'
  <2>1. feed' \in [Runs -> Seq(Events)]
    BY <1>2, FeedGrows DEF LaunchExecuteThrows, TypeOK, Events
  <2>2. started' \in [Runs -> BOOLEAN] /\ faults' \in Nat
    BY <1>2 DEF LaunchExecuteThrows, TypeOK
  <2> QED
    BY <1>1, <1>2, <1>4, <1>7, <2>1, <2>2, Inserting
    DEF LaunchExecuteThrows, TypeOK, MovesTo, Events
<1> QED
  BY <1>1, <1>6, <1>8, <1>9, ServingStep, Inserting
  DEF LaunchExecuteThrows, Consistent, Serving

\* A launch the process does not survive leaves a queued row within the
\* bounds.
LEMMA LaunchCutShortStep ==
    ASSUME Consistent, NEW r \in Runs, NEW t \in clock .. MaxClock,
           LaunchCutShort(r, t)
    PROVE  Consistent'
<1>1. InsertQueued(r, t) /\ HasSlot(gov, ScriptOf[r])
  BY DEF LaunchCutShort, Decide
<1>2. TypeOK /\ gov \in Governors
  BY <1>1, Inserting DEF TypeOK
<1>3. status' = [status EXCEPT ![r] = "queued"] /\ "queued" \in Statuses
  BY DEF LaunchCutShort, Statuses, Live
<1>4. MovesTo(status, status', r, "queued")
  BY <1>2, <1>3, RowUpdate DEF TypeOK
<1>5. PICK g \in Governors : g = Accept(gov, ScriptOf[r])
  BY <1>1, <1>2, Inserting, GovernorOperations
<1>6. Ledger(status', g)
  BY <1>1, <1>2, <1>4, <1>5, Inserting, LedgerStrand
<1>7. RowsBounded(status')
  BY <1>6, LedgerBounds
<1> QED
  BY <1>1, <1>2, <1>4, <1>7, Inserting, DyingStep
  DEF LaunchCutShort, TypeOK, MovesTo

\* A run of the map active ends: its row and its slot go together.
LEMMA Ending ==
    ASSUME Consistent, up, NEW r \in active, NEW o \in Outcomes
    PROVE  \E st \in [Runs -> Statuses], g \in Governors :
              /\ st = [status EXCEPT ![r] = o]
              /\ g = Release(gov, ScriptOf[r])
              /\ MovesTo(status, st, r, o)
              /\ RowsBounded(st) /\ Ledger(st, g)
              /\ Held(st, g, pendingQueued, active \ {r})
<1>1. /\ TypeOK /\ Ledger(status, gov) /\ gov \in Governors
      /\ Held(status, gov, pendingQueued, active)
  BY DEF Consistent, Serving, TypeOK
<1>2. r \in Runs /\ status[r] = "running"
  BY <1>1 DEF Held, InStatus, TypeOK
<1>3. o \in Statuses /\ o \notin Live
  BY OrchestratorAssumption DEF Statuses, Live
<1>4. PICK st : st = [status EXCEPT ![r] = o]
  OBVIOUS
<1>5. MovesTo(status, st, r, o)
  BY <1>1, <1>2, <1>3, <1>4, RowUpdate DEF TypeOK
<1>6. gov.active > 0 /\ gov.byScript[ScriptOf[r]] > 0
  BY <1>1, <1>2, <1>3, <1>5, LedgerEnd
<1>7. PICK g : g = Release(gov, ScriptOf[r])
  OBVIOUS
<1>8. g \in Governors /\ g.queued = gov.queued
  BY <1>1, <1>2, <1>6, <1>7, OrchestratorAssumption, GovernorRelease
<1>9. Ledger(st, g)
  BY <1>1, <1>2, <1>3, <1>5, <1>7, LedgerEnd
<1>10. RowsBounded(st)
  BY <1>8, <1>9, LedgerBounds
<1>11. Held(st, g, pendingQueued, active \ {r})
  BY <1>1, <1>2, <1>5, <1>8 DEF Held, InStatus, MovesTo
<1> QED
  BY <1>4, <1>5, <1>7, <1>8, <1>9, <1>10, <1>11 DEF MovesTo

\* A run that settles, and the run the pump starts in its place, keep
\* table, ledgers and maps consistent.
LEMMA SettleStep ==
    ASSUME Consistent, NEW r \in Runs, NEW o \in Outcomes, Settle(r, o)
    PROVE  Consistent'
<1>1. up /\ r \in active /\ r \notin rejected /\ TypeOK
      /\ queueTimers \subseteq pendingQueued
  BY DEF Settle, Consistent, Serving
<1>2. PICK st \in [Runs -> Statuses], g \in Governors :
              /\ st = [status EXCEPT ![r] = o]
              /\ g = Release(gov, ScriptOf[r])
              /\ MovesTo(status, st, r, o)
              /\ RowsBounded(st) /\ Ledger(st, g)
              /\ Held(st, g, pendingQueued, active \ {r})
  BY <1>1, Ending
<1>3. PICK fd \in [Runs -> Seq(Events)] : fd = Publish(r, "ended")
  BY <1>1, FeedGrows DEF Publish, TypeOK, Events
<1>4. PICK act \in SUBSET Runs : act = active \ {r}
  BY <1>1 DEF TypeOK
<1>5. PumpQueue(st, g, act, fd)
  BY <1>2, <1>3, <1>4 DEF Settle
<1>6. /\ status' \in [Runs -> Statuses] /\ gov' \in Governors
      /\ started' \in [Runs -> BOOLEAN]
      /\ feed' \in [Runs -> Seq(Events)]
      /\ act \subseteq active' /\ active' \subseteq Runs
      /\ pendingQueued' \subseteq Runs
      /\ queueTimers' \subseteq pendingQueued'
      /\ Ledger(status', gov')
      /\ Held(status', gov', pendingQueued', active')
  BY <1>1, <1>2, <1>4, <1>5, PumpKeepsLedger
<1>7. TypeOK'
  BY <1>1, <1>4, <1>6 DEF Settle, TypeOK, Events
<1> QED
  BY <1>1, <1>6, <1>7, ServingStep DEF Settle

\* So does an outcome committed by a process that then dies.
LEMMA SettleCutShortStep ==
    ASSUME Consistent, NEW r \in Runs, NEW o \in Outcomes, SettleCutShort(r, o)
    PROVE  Consistent'
<1>1. up /\ r \in active /\ TypeOK
  BY DEF SettleCutShort, Consistent
<1>2. status' \in [Runs -> Statuses] /\ RowsBounded(status')
  BY <1>1, Ending DEF SettleCutShort
<1> QED
  BY <1>1, <1>2, DyingStep DEF SettleCutShort, TypeOK

\* An outcome that could not be written keeps its run active, or ends the
\* process.
LEMMA SettleWriteFailsStep ==
    ASSUME Consistent, NEW r \in Runs, SettleWriteFails(r)
    PROVE  Consistent'
<1>1. TypeOK /\ faults' \in Nat /\ status' = status /\ queuedAt' = queuedAt
      /\ started' = started /\ clock' = clock
  BY DEF SettleWriteFails, Consistent, TypeOK, rowVars
<1>2. CASE ProcessDies
  BY <1>1, <1>2, DyingStep DEF Consistent, TypeOK
<1>3. CASE /\ rejected' = rejected \cup {r}
           /\ UNCHANGED <<up, gov, pendingQueued, queueTimers, active, aborted,
                          drain, drainWait, feed, crashes>>
  <2>1. TypeOK'
    BY <1>1, <1>3 DEF SettleWriteFails, TypeOK
  <2> QED
    BY <1>1, <1>3, <2>1 DEF Consistent, Serving, Stopped
<1> QED
  BY <1>2, <1>3 DEF SettleWriteFails

\* A queued run that is evicted gives its reservation back with its row.
LEMMA AbandonStep ==
    ASSUME Consistent, up, NEW r \in pendingQueued, AbandonQueuedRun(r)
    PROVE  Consistent'
<1>1. /\ TypeOK /\ Ledger(status, gov) /\ gov \in Governors
      /\ Held(status, gov, pendingQueued, active)
      /\ queueTimers \subseteq pendingQueued
  BY DEF Consistent, Serving, TypeOK
<1>2. r \in Runs /\ status[r] = "queued"
  BY <1>1 DEF Held, InStatus
<1>3. /\ status' = [status EXCEPT ![r] = "interrupted"]
      /\ gov' = Dequeue(gov) /\ feed' = Publish(r, "ended")
      /\ pendingQueued' = pendingQueued \ {r} /\ active' = active
  BY <1>2 DEF AbandonQueuedRun
<1>4. "interrupted" \in Statuses /\ "interrupted" \notin Live
  BY OrchestratorAssumption DEF Statuses, Live
<1>5. MovesTo(status, status', r, "interrupted")
  BY <1>1, <1>2, <1>3, <1>4, RowUpdate DEF TypeOK
<1>6. /\ Cardinality(pendingQueued') = Cardinality(pendingQueued) - 1
      /\ Cardinality(pendingQueued) \in Nat /\ Cardinality(pendingQueued) > 0
  BY <1>1, <1>3, PendingCount DEF TypeOK
<1>7. gov.queued > 0
  BY <1>1, <1>6 DEF Held, Governors
<1>8. gov' \in Governors /\ gov'.queued = gov.queued - 1
  BY <1>1, <1>2, <1>3, <1>7, OrchestratorAssumption, GovernorOperations
<1>9. Ledger(status', gov')
  BY <1>1, <1>2, <1>3, <1>4, <1>5, <1>7, LedgerAbandon
<1>10. Held(status', gov', pendingQueued', active')
  <2>1. Cardinality(pendingQueued') <= gov'.queued
    BY <1>1, <1>6, <1>8 DEF Held, Governors
  <2>2. /\ pendingQueued' \subseteq InStatus(status', "queued")
        /\ active' \subseteq InStatus(status', "running")
    BY <1>1, <1>2, <1>3, <1>5 DEF Held, InStatus, MovesTo
  <2> QED
    BY <2>1, <2>2 DEF Held
<1>11. feed' \in [Runs -> Seq(Events)]
  BY <1>1, <1>2, <1>3, FeedGrows DEF Publish, TypeOK, Events
<1>12. TypeOK' /\ queueTimers' \subseteq pendingQueued'
  BY <1>1, <1>3, <1>5, <1>8, <1>11
  DEF AbandonQueuedRun, TypeOK, MovesTo, Events
<1> QED
  BY <1>9, <1>10, <1>12, ServingStep DEF AbandonQueuedRun

\* The queue timer evicts a run the process still holds.
LEMMA QueueTimeoutStep ==
    ASSUME Consistent, NEW r \in Runs, QueueTimeout(r)
    PROVE  Consistent'
BY AbandonStep DEF QueueTimeout, Consistent, Serving

\* So does a cancel.
LEMMA CancelQueuedStep ==
    ASSUME Consistent, NEW r \in Runs, CancelQueued(r)
    PROVE  Consistent'
BY AbandonStep DEF CancelQueued

\* Cancelling an active run only aborts it.
LEMMA CancelActiveStep ==
    ASSUME Consistent, NEW r \in Runs, CancelActive(r)
    PROVE  Consistent'
<1>1. TypeOK'
  BY DEF CancelActive, Consistent, TypeOK, rowVars
<1> QED
  BY <1>1 DEF CancelActive, rowVars, Consistent, Serving, Stopped

\* A cancel whose write fails strands a queued row, still counted.
LEMMA CancelWriteFailsStep ==
    ASSUME Consistent, NEW r \in Runs, CancelWriteFails(r)
    PROVE  Consistent'
<1>1. TypeOK /\ TypeOK'
  BY DEF CancelWriteFails, Consistent, TypeOK, rowVars
<1>2. /\ Ledger(status, gov) /\ Held(status, gov, pendingQueued, active)
      /\ queueTimers \subseteq pendingQueued
  BY DEF CancelWriteFails, Consistent, Serving
<1>3. Cardinality(pendingQueued') <= gov.queued
  <2>1. /\ Cardinality(pendingQueued') = Cardinality(pendingQueued) - 1
        /\ Cardinality(pendingQueued) \in Nat
    BY <1>1, PendingCount DEF CancelWriteFails, TypeOK
  <2> QED
    BY <1>1, <1>2, <2>1 DEF Held, TypeOK, Governors
<1>4. Held(status', gov', pendingQueued', active')
  BY <1>2, <1>3 DEF Held, CancelWriteFails, rowVars
<1> QED
  BY <1>1, <1>2, <1>4, ServingStep DEF CancelWriteFails, rowVars

\* A round of the drain aborts active runs only.
LEMMA DrainRoundStep ==
    ASSUME Consistent, DrainRound
    PROVE  Consistent'
<1>1. TypeOK'
  BY DEF DrainRound, Consistent, TypeOK, rowVars
<1> QED
  BY <1>1 DEF DrainRound, rowVars, Consistent, Serving, Stopped

\* A crash forgets the memory and keeps the rows within their bounds.
LEMMA CrashStep ==
    ASSUME Consistent, Crash
    PROVE  Consistent'
BY DyingStep DEF Crash, Consistent, TypeOK, rowVars

\* After a boot no row is live, and the empty memory agrees.
LEMMA BootStep ==
    ASSUME Consistent, Boot
    PROVE  Consistent'
<1>1. TypeOK'
  <2>1. "interrupted" \in Statuses
    BY OrchestratorAssumption DEF Statuses
  <2> QED
    BY <2>1 DEF Boot, memVars, Consistent, TypeOK
<1>2. \A r \in Runs : status'[r] \notin Live
  BY OrchestratorAssumption DEF Boot, Live
<1>3. /\ gov' = IdleGovernor /\ pendingQueued' = {} /\ active' = {}
      /\ queueTimers' = {} /\ up'
  BY DEF Boot, memVars, Consistent, Stopped
<1>4. Ledger(status', gov')
  BY <1>2, <1>3, NoLiveRows
<1>5. Held(status', gov', pendingQueued', active')
  BY <1>3, FS_EmptySet DEF Held, IdleGovernor
<1> QED
  BY <1>1, <1>3, <1>4, <1>5, ServingStep

\* Every step preserves consistency, one action at a time.
LEMMA NextConsistent == Consistent /\ [Next]_vars => Consistent'
<1> SUFFICES ASSUME Consistent, [Next]_vars PROVE Consistent'
  OBVIOUS
<1>1. ASSUME NEW r \in Runs, Launch(r) PROVE Consistent'
  BY <1>1, LaunchStartsStep, LaunchQueuesStep, LaunchInsertFailsStep,
     LaunchClaimFailsStep, LaunchExecuteThrowsStep, LaunchCutShortStep
  DEF Launch
<1>2. ASSUME NEW r \in Runs, NEW o \in Outcomes,
             Settle(r, o) \/ SettleCutShort(r, o)
      PROVE  Consistent'
  BY <1>2, SettleStep, SettleCutShortStep
<1>3. ASSUME NEW r \in Runs,
             \/ SettleWriteFails(r) \/ QueueTimeout(r)
             \/ CancelQueued(r) \/ CancelActive(r) \/ CancelWriteFails(r)
      PROVE  Consistent'
  BY <1>3, SettleWriteFailsStep, QueueTimeoutStep, CancelQueuedStep,
     CancelActiveStep, CancelWriteFailsStep
<1>4. CASE DrainBegins \/ DrainResumes
  BY <1>4, DrainRoundStep DEF DrainBegins, DrainResumes
<1>5. CASE Crash \/ Boot
  BY <1>5, CrashStep, BootStep
<1>6. CASE UNCHANGED vars
  BY <1>6 DEF vars, Consistent, TypeOK, Serving, Stopped
<1> QED
  BY <1>1, <1>2, <1>3, <1>4, <1>5, <1>6 DEF Next, EventLoopTurn

\* The inductive invariant: while the process serves, the ledgers count the
\* rows, the maps hold rows of the right status and the limits hold; after
\* a crash the rows alone still keep their bounds.
THEOREM AlwaysConsistent == Spec => []Consistent
BY InitConsistent, NextConsistent, PTL DEF Spec

-----------------------------------------------------------------------------
(* What the runs check, for every instance. *)

\* The counts of the ledger lemmas are those the properties are stated with.
LEMMA RowsAreInStatus ==
    ASSUME NEW st, NEW x
    PROVE  Count(st, x, Runs) = Cardinality(InStatus(st, x))
BY DEF Count, Rows, InStatus

\* Every variable keeps its type; in particular no release ever drives a
\* count of the governor below zero.
THEOREM TypeCorrect == Spec => []TypeOK
<1>1. Consistent => TypeOK
  BY DEF Consistent
<1> QED
  BY <1>1, AlwaysConsistent, PTL

\* The governor's two ledgers count exactly the queued and running rows.
THEOREM ReservationsBalance == Spec => []ReservationsMatchRows
<1>1. Consistent => ReservationsMatchRows
  BY RowsAreInStatus
  DEF Consistent, Serving, Ledger, ReservationsMatchRows, Queued, Executing
<1> QED
  BY <1>1, AlwaysConsistent, PTL

\* The rows respect the global and the per-script limit, whatever failed and
\* however often the process died.
THEOREM LimitsAlwaysHold == Spec => []LimitsHold
<1>1. Consistent => LimitsHold
  <2> SUFFICES ASSUME Consistent PROVE LimitsHold
    OBVIOUS
  <2>1. Cardinality(InStatus(status, "running")) <= MaxConcurrency
    BY RowsAreInStatus DEF Consistent, RowsBounded, Executing
  <2>2. ASSUME NEW s \in Scripts
        PROVE  Cardinality({r \in InStatus(status, "running") :
                               ScriptOf[r] = s}) <= MaxPerScript
    <3>1. {r \in InStatus(status, "running") : ScriptOf[r] = s}
             = Rows(status, "running", RunsOf(s))
      BY DEF InStatus, Rows, RunsOf
    <3> QED
      BY <3>1 DEF Consistent, RowsBounded, ExecutingOf, Count
  <2> QED
    BY <2>1, <2>2 DEF LimitsHold
<1> QED
  BY <1>1, AlwaysConsistent, PTL

\* The pump's bounded listing always holds every queued row.
THEOREM PumpMissesNoRow == Spec => []PumpSeesEveryQueuedRow
<1>1. Consistent => PumpSeesEveryQueuedRow
  BY RowsAreInStatus, CountsAreNat, GovernorAssumption
  DEF Consistent, RowsBounded, PumpSeesEveryQueuedRow, Queued, Executing,
      ListLimit
<1> QED
  BY <1>1, AlwaysConsistent, PTL

-----------------------------------------------------------------------------
(* A drain closes the pump. *)

\* Once a drain has begun no queued row is started: the only action that
\* starts a queued row is the pump, which then idles.
THEOREM DrainClosesPump == Spec => DrainStartsNothingQueued
<1> DEFINE NoneStarts ==
        draining => \A r \in Runs : status[r] = "queued" => ~Started(r)
<1>1. ASSUME TypeOK, [Next]_vars PROVE NoneStarts
  <2> SUFFICES ASSUME draining, NEW q \in Runs, status[q] = "queued",
                      status'[q] = "running"
               PROVE  FALSE
    BY DEF Started
  <2>1. ASSUME NEW r \in Runs, Launch(r) PROVE FALSE
    <3>1. status' = status \/ /\ status[r] = "absent"
                              /\ \E v : status' = [status EXCEPT ![r] = v]
      BY <2>1
      DEF Launch, InsertQueued, LaunchStarts, LaunchQueues, LaunchInsertFails,
          LaunchClaimFails, LaunchExecuteThrows, LaunchCutShort, rowVars
    <3> QED
      BY <1>1, <3>1 DEF TypeOK
  <2>2. ASSUME NEW r \in Runs, NEW o \in Outcomes,
               Settle(r, o) \/ SettleCutShort(r, o)
        PROVE  FALSE
    <3>1. status' = [status EXCEPT ![r] = o]
      BY <2>2 DEF Settle, SettleCutShort, PumpQueue, PumpIdles
    <3>2. o # "running"
      BY OrchestratorAssumption
    <3> QED
      BY <1>1, <3>1, <3>2 DEF TypeOK
  <2>3. ASSUME NEW r \in Runs,
               \/ SettleWriteFails(r) \/ QueueTimeout(r)
               \/ CancelQueued(r) \/ CancelActive(r) \/ CancelWriteFails(r)
        PROVE  FALSE
    BY <1>1, <2>3
    DEF SettleWriteFails, QueueTimeout, CancelQueued, CancelActive,
        CancelWriteFails, AbandonQueuedRun, TypeOK, rowVars
  <2>4. CASE DrainBegins \/ DrainResumes \/ Crash \/ UNCHANGED vars
    BY <2>4
    DEF DrainBegins, DrainResumes, DrainRound, Crash, ProcessDies, vars, rowVars
  <2>5. CASE Boot
    BY <2>5 DEF Boot, Live
  <2> QED
    BY <1>1, <2>1, <2>2, <2>3, <2>4, <2>5 DEF Next, EventLoopTurn
<1> HIDE DEF NoneStarts
<1>2. Spec => [][NoneStarts]_vars
  BY <1>1, TypeCorrect, PTL DEF Spec
<1> QED
  BY <1>2 DEF NoneStarts, DrainStartsNothingQueued

-----------------------------------------------------------------------------
(* Work conservation: one pump per finished run is enough. *)

\* No pending run could start under the ledgers g.
NoneFits(g, pending) == \A p \in pending : ~HasSlot(g, ScriptOf[p])

\* Below its limit the listing is the whole queue.
LEMMA ListingIsComplete ==
    ASSUME NEW st, RowsBounded(st), NEW L \in Listings(st)
    PROVE  L = InStatus(st, "queued")
<1> DEFINE Q == InStatus(st, "queued")
<1>1. IsFiniteSet(Q) /\ Cardinality(Q) \in Nat /\ Cardinality(Q) <= ListLimit
  <2>1. Q = Rows(st, "queued", Runs)
    BY DEF InStatus, Rows
  <2>2. IsFiniteSet(Q) /\ Cardinality(Q) = Queued(st)
    BY <2>1, CountType DEF Queued, Count
  <2> QED
    BY <2>2, CountsAreNat, GovernorAssumption DEF RowsBounded, ListLimit
<1>2. /\ L \subseteq Q /\ Cardinality(L) <= ListLimit
      /\ Cardinality(L) < ListLimit => L = Q
  BY DEF Listings
<1>3. IsFiniteSet(L) /\ Cardinality(L) \in Nat /\ Cardinality(L) <= Cardinality(Q)
      /\ (Cardinality(L) = Cardinality(Q) => L = Q)
  BY <1>1, <1>2, FS_Subset, FS_CardinalityType
<1>4. ListLimit \in Nat
  BY GovernorAssumption DEF ListLimit
<1> QED
  BY <1>1, <1>2, <1>3, <1>4

\* Taking a slot makes no run fit that did not fit before.
LEMMA AcceptFitsNoMore ==
    ASSUME NEW g \in Governors, NEW t \in Scripts, NEW pending \in SUBSET Runs,
           NoneFits(g, pending)
    PROVE  NoneFits(Accept(g, t), pending)
<1> SUFFICES ASSUME NEW p \in pending PROVE ~HasSlot(Accept(g, t), ScriptOf[p])
  BY DEF NoneFits
<1>1. ScriptOf[p] \in Scripts
  BY OrchestratorAssumption
<1>2. ~HasSlot(g, ScriptOf[p])
  BY DEF NoneFits
<1>3. PICK h \in Governors :
         /\ h = Accept(g, t) /\ h.active = g.active + 1
         /\ \A x \in Scripts :
              h.byScript[x] = IF x = t THEN g.byScript[x] + 1 ELSE g.byScript[x]
  BY GovernorOperations
<1>4. ~HasSlot(h, ScriptOf[p])
  BY <1>1, <1>2, <1>3, GovernorAssumption DEF HasSlot, Governors
<1> QED
  BY <1>3, <1>4

\* One slot of script s is released and given to a waiting run q that now
\* fits: then again no waiting run fits.
LEMMA ReleasedSlotIsRefilled ==
    ASSUME NEW g \in Governors, NEW s \in Scripts, NEW pending \in SUBSET Runs,
           NEW q \in pending, NoneFits(g, pending),
           g.active > 0, g.byScript[s] > 0,
           HasSlot(Release(g, s), ScriptOf[q])
    PROVE  NoneFits(Dequeue(Accept(Release(g, s), ScriptOf[q])), pending)
<1> DEFINE t == ScriptOf[q]
<1>1. t \in Scripts
  BY OrchestratorAssumption
<1>2. PICK h \in Governors :
         /\ h = Release(g, s) /\ h.active = g.active - 1
         /\ \A x \in Scripts :
              h.byScript[x] = IF x = s THEN g.byScript[x] - 1 ELSE g.byScript[x]
  BY GovernorRelease
<1>3. PICK k \in Governors :
         /\ k = Accept(h, t) /\ k.active = h.active + 1
         /\ \A x \in Scripts :
              k.byScript[x] = IF x = t THEN h.byScript[x] + 1 ELSE h.byScript[x]
  BY <1>1, GovernorOperations
<1>4. PICK m \in Governors :
         m = Dequeue(k) /\ m.active = k.active /\ m.byScript = k.byScript
  BY <1>1, GovernorOperations
<1>5. ASSUME NEW p \in pending PROVE ~HasSlot(m, ScriptOf[p])
  <2>1. ScriptOf[p] \in Scripts /\ ~HasSlot(g, ScriptOf[p]) /\ ~HasSlot(g, t)
    BY OrchestratorAssumption DEF NoneFits
  <2>2. m.active = g.active
    BY <1>2, <1>3, <1>4 DEF Governors
  <2>3. CASE g.active >= MaxConcurrency
    BY <2>2, <2>3, GovernorAssumption DEF HasSlot, Governors
  <2>4. CASE g.active < MaxConcurrency
    <3>1. g.byScript[t] >= MaxPerScript /\ h.byScript[t] < MaxPerScript
      BY <1>1, <1>2, <2>1, <2>4, GovernorAssumption DEF HasSlot, Governors
    <3>2. t = s
      BY <1>1, <1>2, <3>1, GovernorAssumption DEF Governors
    <3>3. m.byScript[ScriptOf[p]] = g.byScript[ScriptOf[p]]
      BY <1>1, <1>2, <1>3, <1>4, <2>1, <3>2 DEF Governors
    <3> QED
      BY <2>1, <2>2, <3>3 DEF HasSlot
  <2> QED
    BY <2>3, <2>4, GovernorAssumption DEF Governors
<1> QED
  BY <1>2, <1>3, <1>4, <1>5 DEF NoneFits

\* One pump per settled run is enough: it either starts a run in the slot
\* that was given back or finds that no pending run fits.
LEMMA SettleConservesWork ==
    ASSUME Consistent, WorkConserving, NEW r \in Runs, NEW o \in Outcomes,
           Settle(r, o)
    PROVE  WorkConserving'
<1> SUFFICES ASSUME ~draining PROVE NoneFits(gov', pendingQueued')
  BY DEF WorkConserving, NoneFits, Settle, draining
<1>1. /\ up /\ r \in active /\ TypeOK /\ gov \in Governors
      /\ Held(status, gov, pendingQueued, active) /\ Ledger(status, gov)
      /\ pendingQueued \in SUBSET Runs
      /\ NoneFits(gov, pendingQueued)
  BY DEF Settle, Consistent, Serving, WorkConserving, NoneFits, TypeOK
<1>2. PICK st \in [Runs -> Statuses], g \in Governors :
              /\ st = [status EXCEPT ![r] = o]
              /\ g = Release(gov, ScriptOf[r])
              /\ MovesTo(status, st, r, o)
              /\ RowsBounded(st) /\ Ledger(st, g)
              /\ Held(st, g, pendingQueued, active \ {r})
  BY <1>1, Ending
<1>3. PICK act : act = active \ {r}
  OBVIOUS
<1>4. PICK fd : fd = Publish(r, "ended")
  OBVIOUS
<1>5. PumpQueue(st, g, act, fd)
  BY <1>2, <1>3, <1>4 DEF Settle
<1>6. PICK L \in Listings(st) :
         \/ Startable(L, g) = {} /\ PumpIdles(st, g, act, fd)
         \/ \E q \in Startable(L, g) : PumpStarts(q, st, g, act, fd)
  BY <1>5 DEF PumpQueue
<1>7. L = InStatus(st, "queued")
  BY <1>2, ListingIsComplete
<1>8. CASE Startable(L, g) = {} /\ PumpIdles(st, g, act, fd)
  <2>1. pendingQueued \subseteq L
    BY <1>2, <1>7 DEF Held
  <2> QED
    BY <1>8, <2>1 DEF Startable, PumpIdles, NoneFits
<1>9. ASSUME NEW q \in Startable(L, g), PumpStarts(q, st, g, act, fd)
      PROVE  NoneFits(gov', pendingQueued')
  <2>1. q \in pendingQueued /\ HasSlot(g, ScriptOf[q])
    BY DEF Startable
  <2>2. gov' = Dequeue(Accept(g, ScriptOf[q])) /\ pendingQueued' \subseteq pendingQueued
    BY <1>9 DEF PumpStarts
  <2>3. gov.active > 0 /\ gov.byScript[ScriptOf[r]] > 0
    <3>1. status[r] = "running" /\ o \notin Live
      BY <1>1, OrchestratorAssumption DEF Held, InStatus, Live
    <3> QED
      BY <1>1, <1>2, <3>1, LedgerEnd
  <2>4. ScriptOf[r] \in Scripts
    BY OrchestratorAssumption
  <2>5. NoneFits(gov', pendingQueued)
    BY <1>1, <1>2, <2>1, <2>2, <2>3, <2>4, ReleasedSlotIsRefilled
  <2> QED
    BY <2>2, <2>5 DEF NoneFits
<1> QED
  BY <1>6, <1>8, <1>9

\* No launch opens a slot, and one that queues does so for want of a slot.
LEMMA LaunchConservesWork ==
    ASSUME Consistent, WorkConserving, NEW r \in Runs, Launch(r)
    PROVE  WorkConserving'
<1> SUFFICES ASSUME ~draining', up' PROVE NoneFits(gov', pendingQueued')
  BY DEF WorkConserving, NoneFits
<1>1. gov \in Governors /\ ScriptOf[r] \in Scripts
      /\ pendingQueued \in SUBSET Runs
  BY OrchestratorAssumption DEF Consistent, TypeOK
<1>2. NoneFits(gov, pendingQueued)
  BY DEF Launch, InsertQueued, LaunchStarts, LaunchQueues, LaunchInsertFails,
         LaunchClaimFails, LaunchExecuteThrows, LaunchCutShort, ProcessDies,
         WorkConserving, NoneFits, draining
<1>3. CASE gov' = Accept(gov, ScriptOf[r]) /\ pendingQueued' = pendingQueued
  BY <1>1, <1>2, <1>3, AcceptFitsNoMore
<1>4. ASSUME NEW t, LaunchQueues(r, t)
      PROVE  NoneFits(gov', pendingQueued')
  <2>1. ~HasSlot(gov, ScriptOf[r])
    BY <1>4 DEF LaunchQueues, Decide
  <2>2. gov'.active = gov.active /\ gov'.byScript = gov.byScript
    BY <1>1, <1>4, GovernorOperations DEF LaunchQueues
  <2>3. pendingQueued' = pendingQueued \cup {r}
    BY <1>4 DEF LaunchQueues
  <2> QED
    BY <1>2, <2>1, <2>2, <2>3 DEF NoneFits, HasSlot
<1>5. CASE LaunchInsertFails(r)
  <2>1. gov'.active = gov.active /\ gov'.byScript = gov.byScript
    BY <1>1, <1>5
    DEF LaunchInsertFails, Release, Accept, Enqueue, Dequeue, Governors
  <2>2. pendingQueued' = pendingQueued
    BY <1>5 DEF LaunchInsertFails
  <2> QED
    BY <1>2, <2>1, <2>2 DEF NoneFits, HasSlot
<1> QED
  BY <1>3, <1>4, <1>5
  DEF Launch, LaunchStarts, LaunchClaimFails, LaunchExecuteThrows,
      LaunchCutShort, ProcessDies

\* While the process serves and does not drain, no run waits that could run.
THEOREM NoRunWaitsInVain == Spec => []WorkConserving
<1>1. Init => WorkConserving
  BY DEF Init, WorkConserving
<1>2. ASSUME Consistent, WorkConserving, [Next]_vars PROVE WorkConserving'
  <2>1. ASSUME NEW r \in Runs, Launch(r) PROVE WorkConserving'
    BY <1>2, <2>1, LaunchConservesWork
  <2>2. ASSUME NEW r \in Runs, NEW o \in Outcomes, Settle(r, o)
        PROVE  WorkConserving'
    BY <1>2, <2>2, SettleConservesWork
  <2>3. ASSUME NEW r \in Runs, QueueTimeout(r) \/ CancelQueued(r)
        PROVE  WorkConserving'
    <3>1. AbandonQueuedRun(r) /\ gov \in Governors
      BY <1>2, <2>3 DEF QueueTimeout, CancelQueued, Consistent, TypeOK
    <3>2. gov'.active = gov.active /\ gov'.byScript = gov.byScript
      BY <3>1 DEF AbandonQueuedRun, Dequeue, Governors
    <3> QED
      BY <1>2, <3>1, <3>2
      DEF AbandonQueuedRun, WorkConserving, HasSlot, draining
  <2>4. CASE ProcessDies \/ DrainBegins \/ DrainResumes
    BY <2>4
    DEF ProcessDies, DrainBegins, DrainResumes, DrainRound, WorkConserving,
        draining
  <2>5. ASSUME NEW r \in Runs,
               SettleWriteFails(r) \/ CancelActive(r) \/ CancelWriteFails(r)
        PROVE  WorkConserving'
    BY <1>2, <2>4, <2>5
    DEF SettleWriteFails, CancelActive, CancelWriteFails, WorkConserving,
        HasSlot, draining
  <2>6. CASE Boot
    BY <1>2, <2>6 DEF Boot, memVars, Consistent, Stopped, WorkConserving
  <2>7. CASE UNCHANGED vars
    BY <1>2, <2>7 DEF vars, WorkConserving, HasSlot, draining
  <2> QED
    BY <1>2, <2>1, <2>2, <2>3, <2>4, <2>5, <2>6, <2>7
    DEF Next, EventLoopTurn, SettleCutShort, Crash
<1> QED
  BY <1>1, <1>2, AlwaysConsistent, PTL DEF Spec

-----------------------------------------------------------------------------
(* The lifecycle: each turn of the event loop, and each boot, moves every  *)
(* row by a legal move or leaves it alone, within the limits.              *)

\* A row that has not been claimed has no start time.  Without this, a boot
\* could abandon a queued row that carries one.
Unclaimed ==
    \A r \in Runs : status[r] \in {"absent", "queued"} => started[r] = FALSE

LegalMove(r) ==
    \/ Lifecycle!Stays(r) \/ Lifecycle!Queues(r) \/ Lifecycle!Starts(r)
    \/ Lifecycle!Ends(r) \/ Lifecycle!Abandons(r)

\* The two ways to reach "running": a fresh row and a waiting one.
LEMMA StartIsLegal ==
    ASSUME NEW r \in Runs, Unclaimed, status[r] \in {"absent", "queued"},
           status'[r] = "running", started'[r] = TRUE
    PROVE  LegalMove(r)
BY DEF Unclaimed, LegalMove, Lifecycle!Starts

\* A launch moves its row as the lifecycle allows.
LEMMA LaunchIsLegal ==
    ASSUME TypeOK, Unclaimed, NEW r \in Runs, Launch(r)
    PROVE  (\A q \in Runs : LegalMove(q)) /\ Unclaimed'
<1>1. \/ UNCHANGED <<status, started>>
      \/ /\ status[r] = "absent" /\ started' = started
         /\ status' = [status EXCEPT ![r] = "queued"]
      \/ /\ status[r] = "absent" /\ started' = [started EXCEPT ![r] = TRUE]
         /\ status' = [status EXCEPT ![r] = "running"]
  BY DEF Launch, InsertQueued, LaunchStarts, LaunchQueues, LaunchInsertFails,
         LaunchClaimFails, LaunchExecuteThrows, LaunchCutShort, rowVars
<1>2. CASE UNCHANGED <<status, started>>
  BY <1>2 DEF LegalMove, Lifecycle!Stays, Unclaimed
<1>3. CASE /\ status[r] = "absent" /\ started' = started
           /\ status' = [status EXCEPT ![r] = "queued"]
  <2>1. ASSUME NEW q \in Runs PROVE LegalMove(q)
    BY <1>3 DEF TypeOK, LegalMove, Lifecycle!Stays, Lifecycle!Queues
  <2> QED
    BY <1>3, <2>1 DEF TypeOK, Unclaimed
<1>4. CASE /\ status[r] = "absent" /\ started' = [started EXCEPT ![r] = TRUE]
           /\ status' = [status EXCEPT ![r] = "running"]
  <2>1. ASSUME NEW q \in Runs PROVE LegalMove(q)
    BY <1>4, StartIsLegal DEF TypeOK, LegalMove, Lifecycle!Stays
  <2> QED
    BY <1>4, <2>1 DEF TypeOK, Unclaimed
<1> QED
  BY <1>1, <1>2, <1>3, <1>4

\* A settled run ends, and a run the pump starts was queued and unstarted.
LEMMA SettleIsLegal ==
    ASSUME Consistent, Unclaimed, NEW r \in Runs, NEW o \in Outcomes,
           Settle(r, o) \/ SettleCutShort(r, o)
    PROVE  (\A q \in Runs : LegalMove(q)) /\ Unclaimed'
<1>1. /\ TypeOK /\ status[r] = "running" /\ o \notin {"absent", "queued"}
      /\ o # "running"
  BY OrchestratorAssumption
  DEF Settle, SettleCutShort, Consistent, Serving, Held, InStatus
<1>2. CASE status' = [status EXCEPT ![r] = o] /\ started' = started
  <2>1. ASSUME NEW q \in Runs PROVE LegalMove(q)
    BY <1>1, <1>2 DEF TypeOK, LegalMove, Lifecycle!Stays, Lifecycle!Ends
  <2> QED
    BY <1>1, <1>2, <2>1 DEF TypeOK, Unclaimed
<1>3. ASSUME NEW w \in Runs, status[w] = "queued",
             status' = [[status EXCEPT ![r] = o] EXCEPT ![w] = "running"],
             started' = [started EXCEPT ![w] = TRUE]
      PROVE  (\A q \in Runs : LegalMove(q)) /\ Unclaimed'
  <2>1. /\ status'[r] = o /\ started'[r] = started[r]
        /\ status'[w] = "running" /\ started'[w] = TRUE
        /\ \A q \in Runs \ {r, w} :
              status'[q] = status[q] /\ started'[q] = started[q]
    BY <1>1, <1>3 DEF TypeOK
  <2>2. LegalMove(r)
    BY <1>1, <2>1 DEF LegalMove, Lifecycle!Ends
  <2>3. LegalMove(w)
    BY <1>3, <2>1, StartIsLegal
  <2>4. ASSUME NEW q \in Runs \ {r, w} PROVE LegalMove(q)
    BY <2>1 DEF LegalMove, Lifecycle!Stays
  <2> QED
    BY <1>1, <2>1, <2>2, <2>3, <2>4 DEF Unclaimed
<1>4. CASE SettleCutShort(r, o)
  BY <1>2, <1>4 DEF SettleCutShort
<1>5. CASE Settle(r, o)
  <2>1. PICK st, g, act, fd :
           st = [status EXCEPT ![r] = o] /\ PumpQueue(st, g, act, fd)
    BY <1>5 DEF Settle
  <2>2. CASE PumpIdles(st, g, act, fd)
    BY <1>2, <2>1, <2>2 DEF PumpIdles
  <2>3. ASSUME NEW w \in pendingQueued, PumpStarts(w, st, g, act, fd)
        PROVE  (\A q \in Runs : LegalMove(q)) /\ Unclaimed'
    <3>1. w \in Runs /\ status[w] = "queued"
      BY <1>5 DEF Settle, Consistent, Serving, Held, InStatus
    <3> QED
      BY <1>3, <2>1, <2>3, <3>1 DEF PumpStarts
  <2> QED
    BY <2>1, <2>2, <2>3 DEF PumpQueue, Startable
<1> QED
  BY <1>4, <1>5

\* A queued run is abandoned without ever having started.
LEMMA AbandonIsLegal ==
    ASSUME Consistent, Unclaimed, up, NEW r \in Runs, AbandonQueuedRun(r)
    PROVE  (\A q \in Runs : LegalMove(q)) /\ Unclaimed'
<1>1. TypeOK
  BY DEF Consistent
<1>2. CASE status[r] = "queued"
  <2>1. status' = [status EXCEPT ![r] = "interrupted"] /\ started' = started
    BY <1>2 DEF AbandonQueuedRun
  <2>2. ASSUME NEW q \in Runs PROVE LegalMove(q)
    BY <1>1, <1>2, <2>1
    DEF TypeOK, Unclaimed, LegalMove, Lifecycle!Stays, Lifecycle!Abandons
  <2> QED
    BY <1>1, <2>1, <2>2 DEF TypeOK, Unclaimed
<1>3. CASE status[r] # "queued"
  BY <1>3 DEF AbandonQueuedRun, Unclaimed, LegalMove, Lifecycle!Stays
<1> QED
  BY <1>2, <1>3

\* A boot ends the running rows and abandons the queued ones.
LEMMA BootIsLegal ==
    ASSUME TypeOK, Unclaimed, Boot
    PROVE  (\A q \in Runs : LegalMove(q)) /\ Unclaimed'
<1>1. /\ started' = started
      /\ \A q \in Runs : status'[q] = IF status[q] \in Live THEN "interrupted"
                                                            ELSE status[q]
  BY DEF Boot
<1>2. ASSUME NEW q \in Runs PROVE LegalMove(q)
  BY <1>1, OrchestratorAssumption
  DEF Live, Unclaimed, LegalMove, Lifecycle!Stays, Lifecycle!Ends,
      Lifecycle!Abandons
<1> QED
  BY <1>1, <1>2 DEF Unclaimed, Live

\* Every step moves every row as the lifecycle allows.
LEMMA StepIsLegal ==
    ASSUME Consistent, Unclaimed, Next
    PROVE  (\A q \in Runs : LegalMove(q)) /\ Unclaimed'
<1>1. ASSUME UNCHANGED <<status, started>>
      PROVE  (\A q \in Runs : LegalMove(q)) /\ Unclaimed'
  BY <1>1 DEF LegalMove, Lifecycle!Stays, Unclaimed
<1>2. ASSUME NEW r \in Runs, QueueTimeout(r) \/ CancelQueued(r)
      PROVE  (\A q \in Runs : LegalMove(q)) /\ Unclaimed'
  BY <1>2, AbandonIsLegal DEF QueueTimeout, CancelQueued
<1>3. ASSUME NEW r \in Runs,
             SettleWriteFails(r) \/ CancelActive(r) \/ CancelWriteFails(r)
      PROVE  (\A q \in Runs : LegalMove(q)) /\ Unclaimed'
  BY <1>1, <1>3 DEF SettleWriteFails, CancelActive, CancelWriteFails, rowVars
<1>4. CASE DrainBegins \/ DrainResumes \/ Crash
  BY <1>1, <1>4 DEF DrainBegins, DrainResumes, DrainRound, Crash, rowVars
<1>5. CASE Boot
  BY <1>5, BootIsLegal DEF Consistent
<1>6. ASSUME NEW r \in Runs, Launch(r)
      PROVE  (\A q \in Runs : LegalMove(q)) /\ Unclaimed'
  BY <1>6, LaunchIsLegal DEF Consistent
<1>7. ASSUME NEW r \in Runs, NEW o \in Outcomes,
             Settle(r, o) \/ SettleCutShort(r, o)
      PROVE  (\A q \in Runs : LegalMove(q)) /\ Unclaimed'
  BY <1>7, SettleIsLegal
<1> QED
  BY <1>2, <1>3, <1>4, <1>5, <1>6, <1>7 DEF Next, EventLoopTurn

\* The limits the lifecycle promises are those of the invariant.
LEMMA ConsistentIsWithinLimits == Consistent => Lifecycle!WithinLimits
<1> SUFFICES ASSUME Consistent PROVE Lifecycle!WithinLimits
  OBVIOUS
<1>1. Lifecycle!Running = Rows(status, "running", Runs)
  BY DEF Lifecycle!Running, Rows
<1>2. \A s \in Scripts :
         {r \in Lifecycle!Running : ScriptOf[r] = s}
            = Rows(status, "running", RunsOf(s))
  BY DEF Lifecycle!Running, Rows, RunsOf
<1>3. Cardinality(Lifecycle!Running) <= MaxConcurrency
  BY <1>1 DEF Consistent, RowsBounded, Executing, Count
<1>4. \A s \in Scripts :
         Cardinality({r \in Lifecycle!Running : ScriptOf[r] = s})
            <= MaxPerScript
  BY <1>2 DEF Consistent, RowsBounded, ExecutingOf, Count
<1>5. \A S : Lifecycle!Cardinality(S) = Cardinality(S)
  BY DEF Lifecycle!Cardinality, Cardinality
<1> QED
  BY <1>3, <1>4, <1>5 DEF Lifecycle!WithinLimits

\* The table console_runs behaves as RunLifecycle promises its readers: runs
\* only move forward, a start time is never made up, and the limits hold in
\* every state, through failures, process deaths and restarts.
THEOREM RefinesLifecycle == Spec => ImplementsLifecycle
<1>1. Init => Lifecycle!Init /\ Unclaimed
  BY DEF Init, Lifecycle!Init, Unclaimed
<1>2. ASSUME Consistent, Consistent', Unclaimed, [Next]_vars
      PROVE  [Lifecycle!Next]_(Lifecycle!lifecycleVars) /\ Unclaimed'
  <2>1. CASE UNCHANGED vars
    BY <1>2, <2>1 DEF vars, Unclaimed, Lifecycle!lifecycleVars
  <2>2. CASE Next
    <3>1. Lifecycle!WithinLimits'
      BY <1>2, ConsistentIsWithinLimits, PTL
    <3>2. (\A q \in Runs : LegalMove(q)) /\ Unclaimed'
      BY <1>2, <2>2, StepIsLegal
    <3> QED
      BY <3>1, <3>2 DEF LegalMove, Lifecycle!Next
  <2> QED
    BY <1>2, <2>1, <2>2
<1>3. Spec => [](Unclaimed /\ Consistent)
  <2>1. Init /\ []Consistent /\ [][Next]_vars => []Unclaimed
    BY <1>1, <1>2, PTL
  <2> QED
    BY <2>1, AlwaysConsistent, PTL DEF Spec
<1> QED
  BY <1>1, <1>2, <1>3, PTL DEF Spec, ImplementsLifecycle, Lifecycle!Spec

-----------------------------------------------------------------------------
(* The feed of a run tells the truth about its row.                        *)

\* The feed f is a prefix of a run's story that ends where its row x stands,
\* or is empty: the run belongs to an earlier process, or does not exist yet.
FeedOK(f, x) ==
    \/ f = <<>>
    \/ f = <<"queued">> /\ x = "queued"
    \/ f = <<"queued", "started">> /\ x = "running"
    \/ f \in {<<"queued", "ended">>, <<"queued", "started", "ended">>} /\ x \in Outcomes

\* The feeds are those of this process, which knows every run it holds.
Told ==
    /\ \A r \in Runs : FeedOK(feed[r], status[r])
    /\ \A r \in pendingQueued \cup active : feed[r] # <<>>
    /\ ~up => \A r \in Runs : feed[r] = <<>>

\* The outcomes are none of the statuses a run passes through.
LEMMA OutcomesAreTerminal ==
    /\ "absent" \notin Outcomes /\ "queued" \notin Outcomes /\ "running" \notin Outcomes
    /\ "interrupted" \in Outcomes
BY OrchestratorAssumption

\* What Append makes of a sequence of one element.
LEMMA AppendToOne ==
    ASSUME NEW S, NEW a \in S, NEW b \in S
    PROVE  Append(<<a>>, b) = <<a, b>>
<1>1. <<a>> \in Seq(S) /\ <<a, b>> \in Seq(S)
  OBVIOUS
<1>2. /\ Len(<<a>>) = 1 /\ <<a>>[1] = a
      /\ Len(<<a, b>>) = 2 /\ <<a, b>>[1] = a /\ <<a, b>>[2] = b
  OBVIOUS
<1>3. /\ Append(<<a>>, b) \in Seq(S) /\ Len(Append(<<a>>, b)) = 2
      /\ Append(<<a>>, b)[1] = a /\ Append(<<a>>, b)[2] = b
  BY <1>1, <1>2, AppendProperties
<1>4. \A i \in 1 .. Len(Append(<<a>>, b)) : Append(<<a>>, b)[i] = <<a, b>>[i]
  BY <1>2, <1>3
<1> QED
  BY <1>1, <1>2, <1>3, <1>4, SeqEqual

\* What Append makes of a sequence of two elements.
LEMMA AppendToTwo ==
    ASSUME NEW S, NEW a \in S, NEW b \in S, NEW c \in S
    PROVE  Append(<<a, b>>, c) = <<a, b, c>>
<1>1. <<a, b>> \in Seq(S) /\ <<a, b, c>> \in Seq(S)
  OBVIOUS
<1>2. /\ Len(<<a, b>>) = 2 /\ <<a, b>>[1] = a /\ <<a, b>>[2] = b
      /\ Len(<<a, b, c>>) = 3
      /\ <<a, b, c>>[1] = a /\ <<a, b, c>>[2] = b /\ <<a, b, c>>[3] = c
  OBVIOUS
<1>3. /\ Append(<<a, b>>, c) \in Seq(S) /\ Len(Append(<<a, b>>, c)) = 3
      /\ Append(<<a, b>>, c)[1] = a /\ Append(<<a, b>>, c)[2] = b
      /\ Append(<<a, b>>, c)[3] = c
  BY <1>1, <1>2, AppendProperties
<1>4. \A i \in 1 .. Len(Append(<<a, b>>, c)) :
          Append(<<a, b>>, c)[i] = <<a, b, c>>[i]
  BY <1>2, <1>3
<1> QED
  BY <1>1, <1>2, <1>3, <1>4, SeqEqual

\* Each way a feed is extended tells the next thing.
LEMMA FeedTells ==
    ASSUME NEW f, NEW x, FeedOK(f, x)
    PROVE  /\ x = "absent" =>
                 /\ f = <<>>
                 /\ FeedOK(Append(f, "queued"), "queued") /\ Append(f, "queued") # <<>>
                 /\ FeedOK(f \o <<"queued", "started">>, "running")
                 /\ f \o <<"queued", "started">> # <<>>
           /\ x = "queued" /\ f # <<>> =>
                 /\ FeedOK(Append(f, "started"), "running") /\ Append(f, "started") # <<>>
                 /\ \A o \in Outcomes : FeedOK(Append(f, "ended"), o)
           /\ x = "running" /\ f # <<>> => \A o \in Outcomes : FeedOK(Append(f, "ended"), o)
<1>1. ASSUME x = "absent"
      PROVE  /\ f = <<>>
             /\ FeedOK(Append(f, "queued"), "queued") /\ Append(f, "queued") # <<>>
             /\ FeedOK(f \o <<"queued", "started">>, "running")
             /\ f \o <<"queued", "started">> # <<>>
  <2>1. f = <<>>
    BY <1>1, OutcomesAreTerminal DEF FeedOK
  <2>2. Append(<<>>, "queued") = <<"queued">>
    OBVIOUS
  <2>3. <<>> \o <<"queued", "started">> = <<"queued", "started">>
    OBVIOUS
  <2>4. <<"queued">> # <<>> /\ <<"queued", "started">> # <<>>
    OBVIOUS
  <2> QED
    BY <2>1, <2>2, <2>3, <2>4 DEF FeedOK
<1>2. ASSUME x = "queued", f # <<>>
      PROVE  /\ FeedOK(Append(f, "started"), "running") /\ Append(f, "started") # <<>>
             /\ \A o \in Outcomes : FeedOK(Append(f, "ended"), o)
  <2>1. f = <<"queued">>
    BY <1>2, OutcomesAreTerminal DEF FeedOK
  <2>2. {"queued", "started", "ended"} = Events
    BY DEF Events
  <2>3. Append(<<"queued">>, "started") = <<"queued", "started">>
    BY <2>2, AppendToOne
  <2>4. Append(<<"queued">>, "ended") = <<"queued", "ended">>
    BY <2>2, AppendToOne
  <2>5. <<"queued", "started">> # <<>>
    OBVIOUS
  <2> QED
    BY <2>1, <2>3, <2>4, <2>5 DEF FeedOK
<1>3. ASSUME x = "running", f # <<>>
      PROVE  \A o \in Outcomes : FeedOK(Append(f, "ended"), o)
  <2>1. f = <<"queued", "started">>
    BY <1>3, OutcomesAreTerminal DEF FeedOK
  <2>2. {"queued", "started", "ended"} = Events
    BY DEF Events
  <2>3. Append(<<"queued", "started">>, "ended") = <<"queued", "started", "ended">>
    BY <2>2, AppendToTwo
  <2> QED
    BY <2>1, <2>3 DEF FeedOK
<1> QED
  BY <1>1, <1>2, <1>3

\* An empty feed says nothing wrong.
LEMMA SilentFeed == \A x : FeedOK(<<>>, x)
BY DEF FeedOK

\* A launch tells that the run is queued, and that it has started.
LEMMA LaunchTells ==
    ASSUME Consistent, Told, NEW r \in Runs, Launch(r)
    PROVE  Told'
<1>1. CASE LaunchInsertFails(r)
  BY <1>1 DEF LaunchInsertFails, rowVars, Told
<1>2. ASSUME NEW t \in clock .. MaxClock, LaunchCutShort(r, t)
      PROVE  Told'
  BY <1>2, SilentFeed DEF LaunchCutShort, ProcessDies, Told
<1>3. ASSUME NEW t \in clock .. MaxClock,
             LaunchQueues(r, t) \/ LaunchClaimFails(r, t)
      PROVE  Told'
  <2>1. /\ status[r] = "absent" /\ up /\ up' = up
        /\ status' = [status EXCEPT ![r] = "queued"]
        /\ feed' = [feed EXCEPT ![r] = Append(@, "queued")]
        /\ pendingQueued' \cup active' \subseteq (pendingQueued \cup active) \cup {r}
    BY <1>3 DEF LaunchQueues, LaunchClaimFails, InsertQueued, Publish
  <2>2. status \in [Runs -> Statuses] /\ feed \in [Runs -> Seq(Events)]
    BY DEF Consistent, TypeOK, Events
  <2>3. FeedOK(feed'[r], "queued") /\ feed'[r] # <<>>
    BY <2>1, <2>2, FeedTells DEF Told
  <2>4. \A q \in Runs \ {r} : feed'[q] = feed[q] /\ status'[q] = status[q]
    BY <2>1, <2>2
  <2>5. status'[r] = "queued"
    BY <2>1, <2>2
  <2>6. pendingQueued \cup active \subseteq Runs
    BY DEF Consistent, TypeOK
  <2> QED
    BY <2>1, <2>3, <2>4, <2>5, <2>6 DEF Told
<1>4. ASSUME NEW t \in clock .. MaxClock,
             LaunchStarts(r, t) \/ LaunchExecuteThrows(r, t)
      PROVE  Told'
  <2>1. /\ status[r] = "absent" /\ up /\ up' = up
        /\ status' = [status EXCEPT ![r] = "running"]
        /\ feed' = [feed EXCEPT ![r] = @ \o <<"queued", "started">>]
        /\ pendingQueued' \cup active' \subseteq (pendingQueued \cup active) \cup {r}
    BY <1>4 DEF LaunchStarts, LaunchExecuteThrows, InsertQueued
  <2>2. status \in [Runs -> Statuses] /\ feed \in [Runs -> Seq(Events)]
    BY DEF Consistent, TypeOK, Events
  <2>3. FeedOK(feed'[r], "running") /\ feed'[r] # <<>>
    BY <2>1, <2>2, FeedTells DEF Told
  <2>4. \A q \in Runs \ {r} : feed'[q] = feed[q] /\ status'[q] = status[q]
    BY <2>1, <2>2
  <2>5. status'[r] = "running"
    BY <2>1, <2>2
  <2>6. pendingQueued \cup active \subseteq Runs
    BY DEF Consistent, TypeOK
  <2> QED
    BY <2>1, <2>3, <2>4, <2>5, <2>6 DEF Told
<1> QED
  BY <1>1, <1>2, <1>3, <1>4 DEF Launch

\* The end of a run is told with its outcome; if the pump then starts a
\* waiting run, so is its start.
LEMMA SettleTells ==
    ASSUME Consistent, Told, NEW r \in Runs, NEW o \in Outcomes, Settle(r, o)
    PROVE  Told'
<1> DEFINE st == [status EXCEPT ![r] = o]
           fd == [feed EXCEPT ![r] = Append(@, "ended")]
<1>1. /\ up /\ up' = up /\ r \in active
      /\ PumpQueue(st, Release(gov, ScriptOf[r]), active \ {r}, fd)
  BY DEF Settle, Publish
<1>2. /\ status \in [Runs -> Statuses] /\ feed \in [Runs -> Seq(Events)]
      /\ pendingQueued \cup active \subseteq Runs
      /\ status[r] = "running" /\ \A q \in pendingQueued : status[q] = "queued"
  BY <1>1 DEF Consistent, Serving, Held, InStatus, TypeOK, Events
<1>3. FeedOK(fd[r], st[r])
  BY <1>1, <1>2, FeedTells DEF Told
<1>4. \A q \in Runs : FeedOK(fd[q], st[q])
  BY <1>2, <1>3 DEF Told
<1>5. \A q \in pendingQueued \cup (active \ {r}) : fd[q] # <<>>
  BY <1>2 DEF Told
<1>6. /\ \A q \in pendingQueued : st[q] = "queued"
      /\ DOMAIN st = Runs /\ DOMAIN fd = Runs
  BY <1>2
<1> HIDE DEF st, fd
<1>7. CASE PumpIdles(st, Release(gov, ScriptOf[r]), active \ {r}, fd)
  <2>1. /\ status' = st /\ feed' = fd /\ active' = active \ {r}
        /\ pendingQueued' = pendingQueued
    BY <1>7 DEF PumpIdles
  <2> QED
    BY <1>1, <1>4, <1>5, <2>1 DEF Told
<1>8. ASSUME NEW q \in pendingQueued,
             PumpStarts(q, st, Release(gov, ScriptOf[r]), active \ {r}, fd)
      PROVE  Told'
  <2>1. /\ status' = [st EXCEPT ![q] = "running"]
        /\ feed' = [fd EXCEPT ![q] = Append(@, "started")]
        /\ active' = (active \ {r}) \cup {q} /\ pendingQueued' = pendingQueued \ {q}
    BY <1>8 DEF PumpStarts
  <2>2. q \in Runs /\ FeedOK(fd[q], "queued") /\ fd[q] # <<>>
    <3>1. q \in Runs /\ FeedOK(fd[q], st[q]) /\ st[q] = "queued" /\ fd[q] # <<>>
      BY <1>2, <1>4, <1>5, <1>6
    <3> QED
      BY <3>1
  <2>3. FeedOK(Append(fd[q], "started"), "running") /\ Append(fd[q], "started") # <<>>
    BY <2>2, FeedTells
  <2>4. status'[q] = "running" /\ feed'[q] = Append(fd[q], "started")
    BY <1>6, <2>1, <2>2
  <2>5. \A p \in Runs \ {q} : status'[p] = st[p] /\ feed'[p] = fd[p]
    BY <1>6, <2>1
  <2>6. FeedOK(feed'[q], status'[q]) /\ feed'[q] # <<>>
    BY <2>3, <2>4
  <2>7. \A p \in Runs : FeedOK(feed'[p], status'[p])
    BY <1>4, <2>5, <2>6
  <2>8. \A p \in pendingQueued' \cup active' : feed'[p] # <<>>
    BY <1>2, <1>5, <2>1, <2>5, <2>6
  <2> QED
    BY <1>1, <2>7, <2>8 DEF Told
<1> QED
  BY <1>1, <1>7, <1>8 DEF PumpQueue, Startable

\* The end of a waiting run is told with its eviction.
LEMMA AbandonTells ==
    ASSUME Consistent, Told, up, NEW r \in pendingQueued, AbandonQueuedRun(r)
    PROVE  Told'
<1>1. /\ status \in [Runs -> Statuses] /\ feed \in [Runs -> Seq(Events)]
      /\ pendingQueued \cup active \subseteq Runs /\ r \in Runs
      /\ status[r] = "queued"
  BY DEF Consistent, Serving, Held, InStatus, TypeOK, Events
<1>2. /\ status' = [status EXCEPT ![r] = "interrupted"]
      /\ feed' = [feed EXCEPT ![r] = Append(@, "ended")]
      /\ pendingQueued' = pendingQueued \ {r} /\ active' = active /\ up' = up
  BY <1>1 DEF AbandonQueuedRun, Publish
<1>3. FeedOK(feed'[r], status'[r])
  BY <1>1, <1>2, FeedTells, OutcomesAreTerminal DEF Told
<1>4. feed'[r] # <<>>
  BY <1>1, <1>2
<1>5. \A q \in Runs \ {r} : status'[q] = status[q] /\ feed'[q] = feed[q]
  BY <1>1, <1>2
<1> QED
  BY <1>1, <1>2, <1>3, <1>4, <1>5 DEF Told

\* No step tells a lie, or forgets to tell.
LEMMA NextTold == Consistent /\ Told /\ [Next]_vars => Told'
<1> SUFFICES ASSUME Consistent, Told, [Next]_vars PROVE Told'
  OBVIOUS
<1>1. ASSUME NEW r \in Runs, Launch(r) PROVE Told'
  BY <1>1, LaunchTells
<1>2. ASSUME NEW r \in Runs, NEW o \in Outcomes, Settle(r, o) PROVE Told'
  BY <1>2, SettleTells
<1>3. ASSUME NEW r \in Runs, QueueTimeout(r) \/ CancelQueued(r) PROVE Told'
  BY <1>3, AbandonTells DEF QueueTimeout, CancelQueued, Consistent, Serving
<1>4. CASE ProcessDies
  BY <1>4, SilentFeed DEF ProcessDies, Told
<1>5. ASSUME NEW r \in Runs,
             SettleWriteFails(r) \/ CancelActive(r) \/ CancelWriteFails(r)
      PROVE  Told'
  BY <1>4, <1>5 DEF SettleWriteFails, CancelActive, CancelWriteFails, rowVars, Told
<1>6. CASE DrainBegins \/ DrainResumes
  BY <1>6 DEF DrainBegins, DrainResumes, DrainRound, rowVars, Told
<1>7. CASE Boot
  <2>1. ~up /\ feed' = feed /\ pendingQueued' = {} /\ active' = {} /\ up'
    BY <1>7 DEF Boot, memVars, Consistent, Stopped
  <2>2. \A r \in Runs : feed'[r] = <<>>
    BY <2>1 DEF Told
  <2> QED
    BY <2>1, <2>2, SilentFeed DEF Told
<1>8. CASE UNCHANGED vars
  BY <1>8 DEF vars, Told
<1> QED
  BY <1>1, <1>2, <1>3, <1>4, <1>5, <1>6, <1>7, <1>8
  DEF Next, EventLoopTurn, SettleCutShort, Crash

\* What a run's followers have been told is where its row stands: an end is
\* told exactly once and with the outcome, a start with the claim, whatever
\* store call, executor or process failed.
THEOREM FeedTellsTheTruth == Spec => []FeedMatchesRows
<1>1. Init => Told
  BY SilentFeed DEF Init, Told
<1>2. Told => FeedMatchesRows
  <2> SUFFICES ASSUME Told, NEW r \in Runs
               PROVE  /\ feed[r] \in {<<>>, <<"queued">>, <<"queued", "started">>,
                            <<"queued", "ended">>, <<"queued", "started", "ended">>}
                      /\ feed[r] # <<>> =>
                           LET last == feed[r][Len(feed[r])] IN
                           /\ status[r] \in Outcomes <=> last = "ended"
                           /\ status[r] = "running" <=> last = "started"
    BY DEF FeedMatchesRows
  <2>1. FeedOK(feed[r], status[r])
    BY DEF Told
  <2>2. CASE feed[r] = <<"queued">> /\ status[r] = "queued"
    BY <2>2, OutcomesAreTerminal
  <2>3. CASE feed[r] = <<"queued", "started">> /\ status[r] = "running"
    BY <2>3, OutcomesAreTerminal
  <2>4. CASE feed[r] = <<"queued", "ended">> /\ status[r] \in Outcomes
    BY <2>4, OutcomesAreTerminal
  <2>5. CASE feed[r] = <<"queued", "started", "ended">> /\ status[r] \in Outcomes
    BY <2>5, OutcomesAreTerminal
  <2> QED
    BY <2>1, <2>2, <2>3, <2>4, <2>5 DEF FeedOK
<1> QED
  BY <1>1, <1>2, NextTold, AlwaysConsistent, PTL DEF Spec

-----------------------------------------------------------------------------
(* Without failures memory and table agree.                                *)

\* The maps pend, timers and act hold exactly the rows of st they stand for,
\* and the ledger g counts every script's running rows.
Agree(st, g, pend, timers, act) ==
    /\ act = InStatus(st, "running")
    /\ pend = InStatus(st, "queued")
    /\ timers = pend
    /\ \A s \in Scripts : g.byScript[s] = ExecutingOf(st, s)

InStep ==
    up /\ faults = 0 => Agree(status, gov, pendingQueued, queueTimers, active)

\* A run that starts moves from the pending map, if it is there, to the
\* active one.
LEMMA AgreeStart ==
    ASSUME NEW st, NEW st2, NEW r, MovesTo(st, st2, r, "running"),
           st[r] # "running",
           NEW g, NEW h, NEW pend, NEW timers, NEW act,
           Agree(st, g, pend, timers, act),
           \A s \in Scripts :
              h.byScript[s] = IF s = ScriptOf[r] THEN g.byScript[s] + 1
                                                 ELSE g.byScript[s]
    PROVE  Agree(st2, h, pend \ {r}, timers \ {r}, act \cup {r})
<1>1. act \cup {r} = InStatus(st2, "running")
  BY DEF Agree, InStatus, MovesTo
<1>2. pend \ {r} = InStatus(st2, "queued")
  BY DEF Agree, InStatus, MovesTo
<1>3. \A s \in Scripts : h.byScript[s] = ExecutingOf(st2, s)
  <2> SUFFICES ASSUME NEW s \in Scripts PROVE h.byScript[s] = ExecutingOf(st2, s)
    OBVIOUS
  <2>1. g.byScript[s] = ExecutingOf(st, s)
    BY DEF Agree
  <2>2. CASE s = ScriptOf[r]
    <3>1. ExecutingOf(st2, s) = ExecutingOf(st, s) + 1
      BY <2>2, CountsStart
    <3> QED
      BY <2>1, <2>2, <3>1
  <2>3. CASE s # ScriptOf[r]
    <3>1. ExecutingOf(st2, s) = ExecutingOf(st, s)
      BY <2>3, CountsStart
    <3> QED
      BY <2>1, <2>3, <3>1
  <2> QED
    BY <2>2, <2>3
<1> QED
  BY <1>1, <1>2, <1>3 DEF Agree

\* A row that enters the queue enters the pending map and gets a timer.
LEMMA AgreeQueue ==
    ASSUME NEW st, NEW st2, NEW r, MovesTo(st, st2, r, "queued"),
           st[r] \notin Live,
           NEW g, NEW h, NEW pend, NEW timers, NEW act,
           Agree(st, g, pend, timers, act),
           h.byScript = g.byScript
    PROVE  Agree(st2, h, pend \cup {r}, timers \cup {r}, act)
<1>1. act = InStatus(st2, "running")
  BY DEF Agree, InStatus, MovesTo, Live
<1>2. pend \cup {r} = InStatus(st2, "queued")
  BY DEF Agree, InStatus, MovesTo
<1>3. \A s \in Scripts : h.byScript[s] = ExecutingOf(st2, s)
  BY CountsQueue DEF Agree
<1> QED
  BY <1>1, <1>2, <1>3 DEF Agree

\* A row that leaves the queue unstarted leaves map and timers.
LEMMA AgreeAbandon ==
    ASSUME NEW st, NEW st2, NEW r, NEW v, MovesTo(st, st2, r, v),
           st[r] = "queued", v \notin Live,
           NEW g, NEW h, NEW pend, NEW timers, NEW act,
           Agree(st, g, pend, timers, act),
           h.byScript = g.byScript
    PROVE  Agree(st2, h, pend \ {r}, timers \ {r}, act)
<1>1. act = InStatus(st2, "running")
  BY DEF Agree, InStatus, MovesTo, Live
<1>2. pend \ {r} = InStatus(st2, "queued")
  BY DEF Agree, InStatus, MovesTo, Live
<1>3. \A s \in Scripts : h.byScript[s] = ExecutingOf(st2, s)
  BY CountsLeaveQueue DEF Agree
<1> QED
  BY <1>1, <1>2, <1>3 DEF Agree

\* A run that ends leaves the active map and its script's count.
LEMMA AgreeEnd ==
    ASSUME NEW st, NEW st2, NEW r, NEW v, MovesTo(st, st2, r, v),
           st[r] = "running", v \notin Live,
           NEW g, NEW h, NEW pend, NEW timers, NEW act,
           Agree(st, g, pend, timers, act),
           \A s \in Scripts :
              h.byScript[s] = IF s = ScriptOf[r] THEN g.byScript[s] - 1
                                                 ELSE g.byScript[s]
    PROVE  Agree(st2, h, pend, timers, act \ {r})
<1>1. act \ {r} = InStatus(st2, "running")
  BY DEF Agree, InStatus, MovesTo, Live
<1>2. pend = InStatus(st2, "queued")
  BY DEF Agree, InStatus, MovesTo, Live
<1>3. \A s \in Scripts : h.byScript[s] = ExecutingOf(st2, s)
  <2> SUFFICES ASSUME NEW s \in Scripts PROVE h.byScript[s] = ExecutingOf(st2, s)
    OBVIOUS
  <2>1. g.byScript[s] = ExecutingOf(st, s)
    BY DEF Agree
  <2>2. CASE s = ScriptOf[r]
    <3>1. ExecutingOf(st2, s) = ExecutingOf(st, s) - 1
      BY <2>2, CountsEnd
    <3> QED
      BY <2>1, <2>2, <3>1
  <2>3. CASE s # ScriptOf[r]
    <3>1. ExecutingOf(st2, s) = ExecutingOf(st, s)
      BY <2>3, CountsEnd
    <3> QED
      BY <2>1, <2>3, <3>1
  <2> QED
    BY <2>2, <2>3
<1> QED
  BY <1>1, <1>2, <1>3 DEF Agree

\* A launch without failures keeps memory and table in step.
LEMMA LaunchInStep ==
    ASSUME Consistent, InStep, NEW r \in Runs, Launch(r)
    PROVE  InStep'
<1>1. /\ status \in [Runs -> Statuses] /\ gov \in Governors /\ faults \in Nat
      /\ ScriptOf[r] \in Scripts
  BY OrchestratorAssumption DEF Consistent, TypeOK
<1>2. ASSUME NEW t, LaunchStarts(r, t) PROVE InStep'
  <2>1. /\ up /\ faults' = faults /\ status[r] = "absent"
        /\ status' = [status EXCEPT ![r] = "running"]
        /\ gov' = Accept(gov, ScriptOf[r]) /\ active' = active \cup {r}
        /\ pendingQueued' = pendingQueued /\ queueTimers' = queueTimers
    BY <1>2 DEF LaunchStarts, InsertQueued
  <2>2. MovesTo(status, status', r, "running")
    BY <1>1, <2>1, RowUpdate DEF Statuses, Live
  <2>3. \A s \in Scripts :
           gov'.byScript[s] = IF s = ScriptOf[r] THEN gov.byScript[s] + 1
                                                 ELSE gov.byScript[s]
    BY <1>1, <2>1, GovernorOperations
  <2>4. ASSUME faults = 0
        PROVE  Agree(status', gov', pendingQueued', queueTimers', active')
    <3>1. Agree(status, gov, pendingQueued, queueTimers, active)
      BY <2>1, <2>4 DEF InStep
    <3>2. Agree(status', gov', pendingQueued \ {r}, queueTimers \ {r}, active \cup {r})
      BY <2>1, <2>2, <2>3, <3>1, AgreeStart
    <3>3. pendingQueued \ {r} = pendingQueued /\ queueTimers \ {r} = queueTimers
      BY <2>1, <3>1 DEF Agree, InStatus
    <3> QED
      BY <2>1, <3>2, <3>3
  <2> QED
    BY <2>1, <2>4 DEF InStep
<1>3. ASSUME NEW t, LaunchQueues(r, t) PROVE InStep'
  <2>1. /\ up /\ faults' = faults /\ status[r] \notin Live
        /\ status' = [status EXCEPT ![r] = "queued"]
        /\ gov' = Enqueue(gov) /\ active' = active
        /\ pendingQueued' = pendingQueued \cup {r}
        /\ queueTimers' = queueTimers \cup {r}
    BY <1>3 DEF LaunchQueues, InsertQueued, Live
  <2>2. MovesTo(status, status', r, "queued")
    BY <1>1, <2>1, RowUpdate DEF Statuses, Live
  <2>3. gov'.byScript = gov.byScript
    BY <1>1, <2>1, GovernorOperations
  <2>4. ASSUME faults = 0
        PROVE  Agree(status', gov', pendingQueued', queueTimers', active')
    <3>1. Agree(status, gov, pendingQueued, queueTimers, active)
      BY <2>1, <2>4 DEF InStep
    <3> QED
      BY <2>1, <2>2, <2>3, <3>1, AgreeQueue
  <2> QED
    BY <2>1, <2>4 DEF InStep
<1>4. ASSUME NEW t, LaunchClaimFails(r, t) \/ LaunchExecuteThrows(r, t) \/ LaunchInsertFails(r)
      PROVE  InStep'
  <2>1. faults' = faults + 1
    BY <1>4 DEF LaunchClaimFails, LaunchExecuteThrows, LaunchInsertFails
  <2> QED
    BY <1>1, <2>1 DEF InStep
<1>5. ASSUME NEW t, LaunchCutShort(r, t) PROVE InStep'
  BY <1>5 DEF LaunchCutShort, ProcessDies, InStep
<1> QED
  BY <1>2, <1>3, <1>4, <1>5 DEF Launch

\* So does the end of a run, with the start of the one that takes its place.
LEMMA SettleInStep ==
    ASSUME Consistent, InStep, NEW r \in Runs, NEW o \in Outcomes, Settle(r, o)
    PROVE  InStep'
<1>1. up /\ r \in active /\ faults' = faults /\ TypeOK /\ up' = up
      /\ Held(status, gov, pendingQueued, active) /\ Ledger(status, gov)
  BY DEF Settle, Consistent, Serving
<1>2. PICK st \in [Runs -> Statuses], g \in Governors :
              /\ st = [status EXCEPT ![r] = o]
              /\ g = Release(gov, ScriptOf[r])
              /\ MovesTo(status, st, r, o)
              /\ RowsBounded(st) /\ Ledger(st, g)
              /\ Held(st, g, pendingQueued, active \ {r})
  BY <1>1, Ending
<1>3. PICK act : act = active \ {r}
  OBVIOUS
<1>4. PICK fd : fd = Publish(r, "ended")
  OBVIOUS
<1>5. PumpQueue(st, g, act, fd)
  BY <1>2, <1>3, <1>4 DEF Settle
<1>6. status[r] = "running" /\ o \notin Live /\ ScriptOf[r] \in Scripts
      /\ gov \in Governors
  BY <1>1, OrchestratorAssumption DEF Held, InStatus, Live, TypeOK
<1>7. \A s \in Scripts :
         g.byScript[s] = IF s = ScriptOf[r] THEN gov.byScript[s] - 1
                                            ELSE gov.byScript[s]
  BY <1>1, <1>2, <1>6, LedgerEnd, GovernorRelease
<1>8. ASSUME faults = 0
      PROVE  Agree(status', gov', pendingQueued', queueTimers', active')
  <2>1. Agree(status, gov, pendingQueued, queueTimers, active)
    BY <1>1, <1>8 DEF InStep
  <2>2. Agree(st, g, pendingQueued, queueTimers, act)
    BY <1>2, <1>3, <1>6, <1>7, <2>1, AgreeEnd
  <2>3. CASE PumpIdles(st, g, act, fd)
    BY <2>2, <2>3 DEF PumpIdles
  <2>4. ASSUME NEW q \in pendingQueued, PumpStarts(q, st, g, act, fd)
        PROVE  Agree(status', gov', pendingQueued', queueTimers', active')
    <3>1. q \in Runs /\ st[q] = "queued" /\ ScriptOf[q] \in Scripts
      BY <2>2, OrchestratorAssumption DEF Agree, InStatus
    <3>2. /\ status' = [st EXCEPT ![q] = "running"]
          /\ gov' = Dequeue(Accept(g, ScriptOf[q])) /\ active' = act \cup {q}
          /\ pendingQueued' = pendingQueued \ {q} /\ queueTimers' = queueTimers \ {q}
      BY <2>4 DEF PumpStarts
    <3>3. MovesTo(st, status', q, "running")
      BY <3>1, <3>2, RowUpdate DEF Statuses, Live
    <3>4. PICK h \in Governors :
             /\ h = Accept(g, ScriptOf[q])
             /\ \A s \in Scripts :
                   h.byScript[s] = IF s = ScriptOf[q] THEN g.byScript[s] + 1
                                                      ELSE g.byScript[s]
      BY <3>1, GovernorOperations
    <3>5. gov'.byScript = h.byScript
      BY <3>1, <3>2, <3>4, GovernorOperations
    <3> QED
      BY <2>2, <3>1, <3>2, <3>3, <3>4, <3>5, AgreeStart
  <2> QED
    BY <1>5, <2>3, <2>4 DEF PumpQueue, Startable
<1> QED
  BY <1>1, <1>8 DEF InStep

\* So does an eviction from the queue.
LEMMA AbandonInStep ==
    ASSUME Consistent, InStep, up, NEW r \in pendingQueued, AbandonQueuedRun(r)
    PROVE  InStep'
<1>1. /\ status \in [Runs -> Statuses] /\ gov \in Governors
      /\ r \in Runs /\ status[r] = "queued"
  BY DEF Consistent, Serving, Held, InStatus, TypeOK
<1>2. /\ status' = [status EXCEPT ![r] = "interrupted"]
      /\ gov' = Dequeue(gov) /\ faults' = faults /\ active' = active
      /\ pendingQueued' = pendingQueued \ {r} /\ queueTimers' = queueTimers \ {r}
  BY <1>1 DEF AbandonQueuedRun
<1>3. MovesTo(status, status', r, "interrupted")
  BY <1>1, <1>2, RowUpdate, OutcomesAreTerminal DEF Statuses
<1>4. gov'.byScript = gov.byScript
  BY <1>1, <1>2 DEF Dequeue, Governors
<1>5. ASSUME faults = 0
      PROVE  Agree(status', gov', pendingQueued', queueTimers', active')
  <2>1. Agree(status, gov, pendingQueued, queueTimers, active)
    BY <1>5 DEF InStep
  <2>2. "interrupted" \notin Live
    BY DEF Live
  <2> QED
    BY <1>1, <1>2, <1>3, <1>4, <2>1, <2>2, AgreeAbandon
<1> QED
  BY <1>2, <1>5 DEF InStep

\* With no live row an idle process is in step.
LEMMA IdleInStep ==
    ASSUME NEW st, \A r \in Runs : st[r] \notin Live
    PROVE  Agree(st, IdleGovernor, {}, {}, {})
<1>1. InStatus(st, "running") = {} /\ InStatus(st, "queued") = {}
  BY DEF InStatus, Live
<1>2. ASSUME NEW s \in Scripts
      PROVE  IdleGovernor.byScript[s] = ExecutingOf(st, s)
  <2>1. Rows(st, "running", RunsOf(s)) = {}
    BY DEF Rows, RunsOf, Live
  <2>2. ExecutingOf(st, s) = 0
    BY <2>1, FS_EmptySet DEF ExecutingOf, Count
  <2> QED
    BY <2>2 DEF IdleGovernor
<1> QED
  BY <1>1, <1>2 DEF Agree

\* No step that succeeds takes memory and table apart.
LEMMA NextInStep == Consistent /\ InStep /\ [Next]_vars => InStep'
<1> SUFFICES ASSUME Consistent, InStep, [Next]_vars PROVE InStep'
  OBVIOUS
<1>1. ASSUME NEW r \in Runs, Launch(r) PROVE InStep'
  BY <1>1, LaunchInStep
<1>2. ASSUME NEW r \in Runs, NEW o \in Outcomes, Settle(r, o) PROVE InStep'
  BY <1>2, SettleInStep
<1>3. ASSUME NEW r \in Runs, QueueTimeout(r) \/ CancelQueued(r) PROVE InStep'
  BY <1>3, AbandonInStep DEF QueueTimeout, CancelQueued, Consistent, Serving
<1>4. CASE ProcessDies
  BY <1>4 DEF ProcessDies, InStep
<1>5. ASSUME NEW r \in Runs, SettleWriteFails(r) \/ CancelWriteFails(r)
      PROVE  InStep'
  <2>1. faults \in Nat /\ faults' = faults + 1
    BY <1>5 DEF SettleWriteFails, CancelWriteFails, Consistent, TypeOK
  <2> QED
    BY <2>1 DEF InStep
<1>6. CASE DrainBegins \/ DrainResumes \/ \E r \in Runs : CancelActive(r)
  BY <1>6 DEF CancelActive, DrainBegins, DrainResumes, DrainRound, rowVars,
              InStep, Agree
<1>7. CASE Boot
  <2>1. /\ gov' = IdleGovernor /\ pendingQueued' = {} /\ queueTimers' = {}
        /\ active' = {}
    BY <1>7 DEF Boot, memVars, Consistent, Stopped
  <2>2. \A r \in Runs : status'[r] \notin Live
    BY <1>7 DEF Boot, Live
  <2> QED
    BY <2>1, <2>2, IdleInStep DEF InStep
<1>8. CASE UNCHANGED vars
  BY <1>8 DEF vars, InStep, Agree
<1> QED
  BY <1>1, <1>2, <1>3, <1>4, <1>5, <1>6, <1>7, <1>8
  DEF Next, EventLoopTurn, SettleCutShort, Crash

\* While no store call or executor has failed, the process's maps, timers and
\* ledgers are exactly what the table says.
THEOREM MemoryAgreesWithTable == Spec => []MemoryMatchesRows
<1>1. Init => InStep
  <2> SUFFICES ASSUME Init PROVE InStep
    OBVIOUS
  <2>1. \A r \in Runs : status[r] \notin Live
    BY DEF Init, Live
  <2> QED
    BY <2>1, IdleInStep DEF Init, InStep
<1>2. ASSUME Consistent, InStep PROVE MemoryMatchesRows
  <2> SUFFICES ASSUME up, faults = 0 PROVE MemoryMatchesRows
    BY DEF MemoryMatchesRows
  <2>1. Agree(status, gov, pendingQueued, queueTimers, active)
    BY <1>2 DEF InStep
  <2>2. /\ gov \in Governors /\ Ledger(status, gov)
        /\ Cardinality(pendingQueued) <= gov.queued
    BY <1>2 DEF Consistent, TypeOK, Serving, Held
  <2>3. /\ Cardinality(active) = Executing(status)
        /\ Cardinality(pendingQueued) = Queued(status)
    BY <2>1, RowsAreInStatus DEF Agree, Executing, Queued
  <2>4. gov.active = Cardinality(active) /\ gov.queued = Cardinality(pendingQueued)
    <3>1. /\ gov.active \in Nat /\ gov.queued \in Nat
          /\ Executing(status) \in Nat /\ Queued(status) \in Nat
      BY <2>2, CountsAreNat DEF Governors
    <3>2. /\ gov.active + gov.queued = Queued(status) + Executing(status)
          /\ gov.active >= Executing(status) /\ gov.queued >= Queued(status)
      BY <2>2, <2>3, <3>1 DEF Ledger
    <3> QED
      BY <2>3, <3>1, <3>2
  <2>5. ASSUME NEW s \in Scripts
        PROVE  gov.byScript[s] = Cardinality({r \in active : ScriptOf[r] = s})
    <3>1. Rows(status, "running", RunsOf(s)) = {r \in active : ScriptOf[r] = s}
      BY <2>1 DEF Rows, RunsOf, Agree, InStatus
    <3> QED
      BY <2>1, <3>1 DEF Agree, ExecutingOf, Count
  <2> QED
    BY <2>1, <2>4, <2>5 DEF Agree, MemoryMatchesRows
<1> QED
  BY <1>1, <1>2, NextInStep, AlwaysConsistent, PTL DEF Spec

-----------------------------------------------------------------------------
(* No run overtakes an older one of its script.                            *)

\* Every run that a step starts was launched no later than any run of its
\* script the step leaves pending.
OldestStarts ==
    ~draining =>
       \A r \in Runs : Started(r) =>
          \A p \in pendingQueued' :
             ScriptOf[p] = ScriptOf[r] => queuedAt'[p] >= queuedAt'[r]

\* A launch starts at once only when no run of its script is pending, because
\* a pending run would have taken the slot.
LEMMA LaunchOvertakesNone ==
    ASSUME Consistent, WorkConserving, NEW r \in Runs, Launch(r)
    PROVE  OldestStarts
<1> SUFFICES ASSUME ~draining, NEW q \in Runs, Started(q), NEW p \in pendingQueued',
                    ScriptOf[p] = ScriptOf[q]
             PROVE  FALSE
  BY DEF OldestStarts
<1>1. status \in [Runs -> Statuses]
  BY DEF Consistent, TypeOK
<1>2. /\ up /\ status' = [status EXCEPT ![r] = "running"]
      /\ HasSlot(gov, ScriptOf[r]) /\ pendingQueued' = pendingQueued
  BY <1>1
  DEF Launch, LaunchStarts, LaunchQueues, LaunchInsertFails, LaunchClaimFails,
      LaunchExecuteThrows, LaunchCutShort, InsertQueued, Decide, rowVars, Started
<1>3. q = r
  BY <1>1, <1>2 DEF Started
<1> QED
  BY <1>2, <1>3 DEF WorkConserving

\* The pump starts the oldest pending run among those that fit, and runs of
\* one script fit alike.
LEMMA PumpOvertakesNone ==
    ASSUME Consistent, NEW r \in Runs, NEW o \in Outcomes, Settle(r, o)
    PROVE  OldestStarts
<1>1. /\ up /\ r \in active /\ TypeOK /\ queuedAt' = queuedAt
      /\ pendingQueued \in SUBSET Runs
  BY DEF Settle, Consistent, TypeOK
<1>2. PICK st \in [Runs -> Statuses], g \in Governors :
              /\ st = [status EXCEPT ![r] = o]
              /\ g = Release(gov, ScriptOf[r])
              /\ MovesTo(status, st, r, o)
              /\ RowsBounded(st) /\ Ledger(st, g)
              /\ Held(st, g, pendingQueued, active \ {r})
  BY <1>1, Ending
<1>3. PICK act : act = active \ {r}
  OBVIOUS
<1>4. PICK fd : fd = Publish(r, "ended")
  OBVIOUS
<1>5. PumpQueue(st, g, act, fd)
  BY <1>2, <1>3, <1>4 DEF Settle
<1>6. \A q \in Runs : st[q] = "running" => status[q] = "running"
  BY <1>2, OutcomesAreTerminal DEF MovesTo
<1>7. CASE PumpIdles(st, g, act, fd)
  BY <1>6, <1>7 DEF PumpIdles, OldestStarts, Started
<1>8. ASSUME NEW L \in Listings(st), NEW q \in Startable(L, g),
             \A p \in Startable(L, g) : queuedAt[q] <= queuedAt[p],
             PumpStarts(q, st, g, act, fd)
      PROVE  OldestStarts
  <2>1. L = InStatus(st, "queued")
    BY <1>2, ListingIsComplete
  <2>2. q \in pendingQueued /\ HasSlot(g, ScriptOf[q])
    BY DEF Startable
  <2>3. /\ status' = [st EXCEPT ![q] = "running"]
        /\ pendingQueued' = pendingQueued \ {q}
    BY <1>8 DEF PumpStarts
  <2>4. \A x \in Runs : Started(x) => x = q
    BY <1>2, <1>6, <2>3 DEF Started
  <2>5. ASSUME NEW p \in pendingQueued, ScriptOf[p] = ScriptOf[q]
        PROVE  queuedAt[p] >= queuedAt[q]
    <3>1. p \in L
      BY <1>2, <2>1 DEF Held
    <3>2. p \in Startable(L, g)
      BY <2>2, <2>5, <3>1 DEF Startable
    <3>3. queuedAt[q] \in Nat /\ queuedAt[p] \in Nat
      BY <1>1, <2>2 DEF TypeOK
    <3> QED
      BY <1>8, <3>2, <3>3
  <2> QED
    BY <1>1, <2>3, <2>4, <2>5 DEF OldestStarts
<1> QED
  BY <1>5, <1>7, <1>8 DEF PumpQueue

\* Of the runs of one script the server, unless it drains, starts the oldest
\* first: neither a launch that finds a free slot nor the pump passes a
\* pending run by.
THEOREM OldestFirst == Spec => NoOvertaking
<1>1. ASSUME Consistent, WorkConserving, [Next]_vars PROVE OldestStarts
  <2>1. ASSUME NEW r \in Runs, Launch(r) PROVE OldestStarts
    BY <1>1, <2>1, LaunchOvertakesNone
  <2>2. ASSUME NEW r \in Runs, NEW o \in Outcomes, Settle(r, o)
        PROVE  OldestStarts
    BY <1>1, <2>2, PumpOvertakesNone
  <2>3. ASSUME NEW r \in Runs, NEW o \in Outcomes, SettleCutShort(r, o)
        PROVE  OldestStarts
    BY <2>3 DEF SettleCutShort, ProcessDies, OldestStarts
  <2>4. ASSUME NEW r \in Runs,
               \/ SettleWriteFails(r) \/ QueueTimeout(r)
               \/ CancelQueued(r) \/ CancelActive(r) \/ CancelWriteFails(r)
        PROVE  OldestStarts
    BY <1>1, <2>4
    DEF SettleWriteFails, QueueTimeout, CancelQueued, CancelActive,
        CancelWriteFails, AbandonQueuedRun, rowVars, Consistent, TypeOK,
        OldestStarts, Started
  <2>5. CASE DrainBegins \/ DrainResumes \/ Crash \/ UNCHANGED vars
    BY <2>5
    DEF DrainBegins, DrainResumes, DrainRound, Crash, ProcessDies, vars, rowVars,
        OldestStarts, Started
  <2>6. CASE Boot
    BY <2>6 DEF Boot, Live, OldestStarts, Started
  <2> QED
    BY <1>1, <2>1, <2>2, <2>3, <2>4, <2>5, <2>6 DEF Next, EventLoopTurn
<1>2. Spec => [][OldestStarts]_vars
  BY <1>1, AlwaysConsistent, NoRunWaitsInVain, PTL DEF Spec
<1> QED
  BY <1>2 DEF OldestStarts, NoOvertaking

==============================================================================
