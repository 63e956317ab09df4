-------------------------- MODULE HumanActionAudit --------------------------
(***************************************************************************)
(* The audit of what operators do (boot/human-action-audit.ts, audit-      *)
(* index.ts, audit-rebuild.ts).  A route that changes something records    *)
(* that it was allowed, then runs its handler, and records a second entry  *)
(* when the handler throws; a route that shows something runs its handler  *)
(* and answers only once "served" is recorded.  An entry is appended to    *)
(* the trail, which is authoritative, then inserted in the index, which    *)
(* may fail; the index is rebuilt from the trail at boot when it is empty. *)
(*                                                                         *)
(* The trail is one the readers of AppendOnlyLog see, all writers merged.  *)
(***************************************************************************)
EXTENDS Naturals, Sequences, FiniteSets, SequencesExt

CONSTANTS
    Requests,
    Phase,        \* of each request's route, "before" or "after"
    MaxFaults,    \* bound: file or store operations that fail
    MaxRestarts,  \* bound: deaths of the process
    MaxDrops      \* bound: index tables recreated empty by a migration

ASSUME AuditAssumption ==
    /\ Phase \in [Requests -> {"before", "after"}]
    /\ {MaxFaults, MaxRestarts, MaxDrops} \subseteq Nat

VARIABLES
    trail,    \* entries of the JSONL trail, <<request, outcome>>
    index,    \* rows of console_human_actions
    up,       \* the listener accepts requests
    pc,       \* where the request's handler stands
    outcome,  \* the outcome being recorded
    effects,  \* the requests whose handler returned
    answer,   \* "none", "ok", "error" or "cut" (by a death)
    unsaid,   \* history: failures whose second entry could not be recorded
    missed,   \* history: entries the index lost to a failure or a death
    faults, restarts, drops

vars == <<trail, index, up, pc, outcome, effects, answer, unsaid, missed,
          faults, restarts, drops>>
bounds == <<faults, restarts, drops>>

Init ==
    /\ trail = <<>> /\ index = <<>>
    /\ up = TRUE
    /\ pc = [r \in Requests |-> "idle"]
    /\ outcome = [r \in Requests |-> "none"]
    /\ effects = {}
    /\ answer = [r \in Requests |-> "none"]
    /\ unsaid = {} /\ missed = {}
    /\ faults = 0 /\ restarts = 0 /\ drops = 0

Recording(r, o) ==
    /\ pc' = [pc EXCEPT ![r] = "append"]
    /\ outcome' = [outcome EXCEPT ![r] = o]
    /\ UNCHANGED answer

Answer(r, a) ==
    /\ pc' = [pc EXCEPT ![r] = "over"]
    /\ answer' = [answer EXCEPT ![r] = a]
    /\ UNCHANGED outcome

Acting(r) == pc' = [pc EXCEPT ![r] = "act"] /\ UNCHANGED <<outcome, answer>>

-----------------------------------------------------------------------------
(* A request.                                                              *)

\* Faulty variant: every route records after its handler.
ReceiveActingFirst(r) ==
    /\ up /\ pc[r] = "idle"
    /\ Acting(r)
    /\ UNCHANGED <<trail, index, up, effects, unsaid, missed, bounds>>

Receive(r) ==
    /\ up /\ pc[r] = "idle"
    /\ IF Phase[r] = "before" THEN Recording(r, "allowed") ELSE Acting(r)
    /\ UNCHANGED <<trail, index, up, effects, unsaid, missed, bounds>>

AppendEntry(r) ==
    /\ pc[r] = "append"
    /\ trail' = Append(trail, <<r, outcome[r]>>)
    /\ pc' = [pc EXCEPT ![r] = "index"]
    /\ UNCHANGED <<index, up, outcome, effects, answer, unsaid, missed, bounds>>

\* The rejection is the answer, except that a failed compensation is chained
\* onto the handler's own error.
AppendFails(r) ==
    /\ pc[r] = "append" /\ faults < MaxFaults
    /\ faults' = faults + 1
    /\ Answer(r, "error")
    /\ unsaid' = IF outcome[r] = "failed" THEN unsaid \union {r} ELSE unsaid
    /\ UNCHANGED <<trail, index, up, effects, missed, restarts, drops>>

\* What follows once the entry is recorded.
AfterEntry(r) ==
    CASE outcome[r] = "allowed" -> Acting(r)
      [] outcome[r] = "served" -> Answer(r, "ok")
      [] outcome[r] = "failed" -> Answer(r, "error")

IndexEntry(r) ==
    /\ pc[r] = "index"
    /\ index' = Append(index, <<r, outcome[r]>>)
    /\ AfterEntry(r)
    /\ UNCHANGED <<trail, up, effects, unsaid, missed, bounds>>

\* Logged, never fatal.
IndexFails(r) ==
    /\ pc[r] = "index" /\ faults < MaxFaults
    /\ faults' = faults + 1
    /\ missed' = missed \union {<<r, outcome[r]>>}
    /\ AfterEntry(r)
    /\ UNCHANGED <<trail, index, up, effects, unsaid, restarts, drops>>

HandlerReturns(r) ==
    /\ pc[r] = "act"
    /\ effects' = effects \union {r}
    /\ IF Phase[r] = "after" THEN Recording(r, "served") ELSE Answer(r, "ok")
    /\ UNCHANGED <<trail, index, up, unsaid, missed, bounds>>

\* Faulty variant: the handler's error is passed on as it is.
HandlerThrowsSilently(r) ==
    /\ pc[r] = "act"
    /\ Answer(r, "error")
    /\ UNCHANGED <<trail, index, up, effects, unsaid, missed, bounds>>

\* An operator was shown nothing when an "after" handler throws.
HandlerThrows(r) ==
    /\ pc[r] = "act"
    /\ IF Phase[r] = "before" THEN Recording(r, "failed") ELSE Answer(r, "error")
    /\ UNCHANGED <<trail, index, up, effects, unsaid, missed, bounds>>

-----------------------------------------------------------------------------
(* Death and boot.                                                         *)

InFlight == {r \in Requests : pc[r] \in {"append", "index", "act"}}

Crash ==
    /\ up /\ restarts < MaxRestarts
    /\ up' = FALSE /\ restarts' = restarts + 1
    /\ pc' = [r \in Requests |-> IF r \in InFlight THEN "over" ELSE pc[r]]
    /\ answer' = [r \in Requests |-> IF r \in InFlight THEN "cut" ELSE answer[r]]
    /\ missed' = missed \union
           {<<r, outcome[r]>> : r \in {q \in Requests : pc[q] = "index"}}
    /\ UNCHANGED <<trail, index, outcome, effects, unsaid, faults, drops>>

\* A migration drops and recreates the table, or the database is a new one.
DropIndex ==
    /\ ~up /\ drops < MaxDrops
    /\ drops' = drops + 1
    /\ index' = <<>>
    /\ UNCHANGED <<trail, up, pc, outcome, effects, answer, unsaid, missed,
                   faults, restarts>>

\* Faulty variant: rows are inserted behind those the table holds.
RebuiltAppending == index \o trail

\* Faulty variant: an empty table is taken for an empty trail.
NotRebuilt == index

Rebuilt == IF index # <<>> THEN index ELSE trail

Boot ==
    /\ ~up /\ up' = TRUE
    /\ index' = Rebuilt
    /\ missed' = IF index = <<>> THEN {} ELSE missed
    /\ UNCHANGED <<trail, pc, outcome, effects, answer, unsaid, bounds>>

\* The trail cannot be read, or the transaction fails: nothing is written,
\* and the console serves with the index it has.
BootWithoutRebuild ==
    /\ ~up /\ index = <<>> /\ faults < MaxFaults
    /\ up' = TRUE /\ faults' = faults + 1
    /\ missed' = Range(trail)
    /\ UNCHANGED <<trail, index, pc, outcome, effects, answer, unsaid, restarts,
                   drops>>

Next ==
    \/ \E r \in Requests :
          \/ Receive(r) \/ AppendEntry(r) \/ AppendFails(r)
          \/ IndexEntry(r) \/ IndexFails(r)
          \/ HandlerReturns(r) \/ HandlerThrows(r)
    \/ Crash \/ DropIndex \/ Boot \/ BootWithoutRebuild

Spec == Init /\ [][Next]_vars

-----------------------------------------------------------------------------
(* Properties.                                                             *)

Entries == {<<r, o>> : r \in Requests, o \in {"allowed", "served", "failed"}}

\* The index never holds what the trail does not, nor an entry twice.
IndexIsWithinTrail ==
    Range(index) \subseteq Range(trail) /\ IsInjective(index)

\* Types; an entry is appended once, and the index holds nothing else.
TypeOK ==
    /\ Range(trail) \subseteq Entries /\ IsInjective(trail)
    /\ IndexIsWithinTrail
    /\ pc \in [Requests -> {"idle", "append", "index", "act", "over"}]
    /\ answer \in [Requests -> {"none", "ok", "error", "cut"}]
    /\ effects \subseteq Requests /\ unsaid \subseteq Requests
    /\ missed \subseteq Range(trail)
    /\ up \in BOOLEAN
    /\ faults \in 0..MaxFaults /\ restarts \in 0..MaxRestarts
    /\ drops \in 0..MaxDrops

\* No change was made and nothing was shown that the trail does not name,
\* whichever write failed and whenever the process died.
NothingGoesUnaudited ==
    \A r \in Requests :
        /\ (Phase[r] = "before" /\ r \in effects) =>
               <<r, "allowed">> \in Range(trail)
        /\ (Phase[r] = "after" /\ answer[r] = "ok") =>
               <<r, "served">> \in Range(trail)

\* The trail does not claim a change that was refused: an operator told of an
\* error has a second entry behind the first, unless that write failed too.
FailuresAreCompensated ==
    \A r \in Requests \ unsaid :
        (answer[r] = "error" /\ <<r, "allowed">> \in Range(trail)) =>
            <<r, "failed">> \in Range(trail)

\* What the index lacks was lost by a failed insert, a death between the
\* append and the insert or a failed rebuild; a rebuild brings all of it back.
IndexLacksOnlyTheMissed ==
    LET pending == {<<r, outcome[r]>> : r \in {q \in Requests : pc[q] = "index"}}
    IN  up => Range(trail) \ Range(index) \subseteq missed \union pending

-----------------------------------------------------------------------------
(* What the documentation says and the code does not do.                   *)

\* audit-index.ts:162: a boot rebuild recovers the row whose insert failed.
BootRecoversTheIndex ==
    [][Boot => Range(trail) \subseteq Range(index')]_vars
=============================================================================
