---------------------------- MODULE RunGovernor ----------------------------
(***************************************************************************)
(* The run governor of the console server (runs/governor.ts): pure         *)
(* admission arithmetic over two ledgers, the slots of executing runs      *)
(* (globally and per script) and the reservations of waiting runs.  It     *)
(* holds no lock and no clock; every caller runs it inside one turn of the *)
(* event loop, so each operator below is one indivisible step.             *)
(***************************************************************************)
EXTENDS Naturals

CONSTANTS
    Scripts,         \* the scripts a run can name
    MaxConcurrency,  \* runs that may execute at once
    MaxPerScript,    \* runs of one script that may execute at once
    QueueCapacity    \* runs that may wait

\* config/runs.ts accepts only positive limits for the two concurrency
\* settings and a non-negative queue capacity.
ASSUME GovernorAssumption ==
    /\ MaxConcurrency \in Nat \ {0}
    /\ MaxPerScript \in Nat \ {0}
    /\ QueueCapacity \in Nat

\* A script absent from the map activeByScript counts 0.
Governors == [active : Nat, byScript : [Scripts -> Nat], queued : Nat]

IdleGovernor == [active |-> 0, byScript |-> [s \in Scripts |-> 0], queued |-> 0]

\* Faulty variant: the per-script limit is off by one.
HasSlotOffByOne(g, s) ==
    g.active < MaxConcurrency /\ g.byScript[s] <= MaxPerScript

HasSlot(g, s) == g.active < MaxConcurrency /\ g.byScript[s] < MaxPerScript

\* Faulty variant: one more run may wait than the capacity.
DecideOffByOne(g, s) ==
    IF HasSlot(g, s) THEN "accept"
    ELSE IF g.queued <= QueueCapacity THEN "queue" ELSE "reject"

Decide(g, s) ==
    IF HasSlot(g, s) THEN "accept"
    ELSE IF g.queued < QueueCapacity THEN "queue" ELSE "reject"

Accept(g, s) ==
    [active |-> g.active + 1,
     byScript |-> [g.byScript EXCEPT ![s] = @ + 1],
     queued |-> g.queued]

\* A release for a script with no entry is ignored, so neither count can go
\* below zero.
Release(g, s) ==
    IF g.byScript[s] = 0 THEN g
    ELSE [active |-> g.active - 1,
          byScript |-> [g.byScript EXCEPT ![s] = @ - 1],
          queued |-> g.queued]

Enqueue(g) ==
    [active |-> g.active, byScript |-> g.byScript, queued |-> g.queued + 1]

Dequeue(g) ==
    IF g.queued = 0 THEN g
    ELSE [active |-> g.active, byScript |-> g.byScript, queued |-> g.queued - 1]

=============================================================================
