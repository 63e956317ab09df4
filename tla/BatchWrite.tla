------------------------------ MODULE BatchWrite ------------------------------
(***************************************************************************)
(* The batch operations of the dynamodb-crud script: the driver that cuts  *)
(* the input into chunks and keeps at most Limit of them in flight         *)
(* (steps/batch-write-table.ts), the retry runner each chunk is sent       *)
(* through (core/polling/M3LRetryRunner.ts), and the report of what stayed *)
(* unprocessed (steps/run-dynamodb-crud.ts).                               *)
(*                                                                         *)
(* A chunk runs concurrently with the driver and with the other chunks.    *)
(* The driver reads the error of an earlier chunk when it has pulled a     *)
(* chunk, and not again when it has waited for a place for it; the runner  *)
(* reads the abort signal before every attempt, after every failed one,    *)
(* and while it waits.                                                     *)
(***************************************************************************)
EXTENDS Naturals, FiniteSets

CONSTANTS
    Chunks,       \* chunks the input is cut into
    ItemsOf,      \* the items of chunk c are ItemsOf[c]
    Limit,        \* maxInFlightBatches
    MaxAttempts,  \* the runner's maxAttempts
    MaxFaults     \* bound: operations that fail

ASSUME BatchAssumption ==
    /\ Chunks \in Nat \ {0} /\ Limit \in Nat \ {0}
    /\ MaxAttempts \in Nat \ {0} /\ MaxFaults \in Nat
    /\ \A c, d \in 1..Chunks : c # d => ItemsOf[c] \cap ItemsOf[d] = {}

VARIABLES
    driver,      \* "pulling", "slot" (all places taken), "draining",
                 \* "reporting", then the outcome "ok" or "error"
    pulled,      \* chunks pulled from the input
    pc,          \* per chunk: "none", "call", "wait" (backoff), "due" (the
                 \* timer has fired), "settled"
    attempt,     \* the attempt a chunk is at
    remaining,   \* the items of a chunk no response has confirmed
    confirmed,   \* items a response has confirmed
    failed,      \* items whose chunk ran out of attempts
    reported,    \* items in failed.jsonl and reported as recoveries
    firstError,  \* some chunk has failed
    aborted,     \* the run's signal
    faults

chunkVars == <<pc, attempt, remaining, confirmed, failed, firstError>>
vars == <<driver, pulled, pc, attempt, remaining, confirmed, failed, reported,
          firstError, aborted, faults>>

Items == UNION {ItemsOf[c] : c \in 1..Chunks}
InFlight == {c \in 1..Chunks : pc[c] \in {"call", "wait", "due"}}

Init ==
    /\ driver = "pulling" /\ pulled = 0
    /\ pc = [c \in 1..Chunks |-> "none"]
    /\ attempt = [c \in 1..Chunks |-> 0]
    /\ remaining = [c \in 1..Chunks |-> ItemsOf[c]]
    /\ confirmed = {} /\ failed = {} /\ reported = {}
    /\ firstError = FALSE /\ aborted = FALSE /\ faults = 0

-----------------------------------------------------------------------------
(* A chunk in the retry runner.                                            *)

\* The chunk's promise rejects with anything but the unprocessed signal.
Rejects(c) ==
    /\ pc' = [pc EXCEPT ![c] = "settled"]
    /\ firstError' = TRUE

\* Faulty variant: the signal is not read before an attempt.
AttemptUnchecked(c) ==
    /\ pc' = [pc EXCEPT ![c] = "call"]
    /\ attempt' = [attempt EXCEPT ![c] = @ + 1]
    /\ UNCHANGED firstError

\* The head of the runner's loop, up to the call.
Attempt(c) ==
    \/ aborted /\ Rejects(c) /\ UNCHANGED attempt
    \/ /\ ~aborted
       /\ pc' = [pc EXCEPT ![c] = "call"]
       /\ attempt' = [attempt EXCEPT ![c] = @ + 1]
       /\ UNCHANGED firstError

\* Faulty variant: every attempt sends, and gives up, the whole chunk.
CallReturnsKeepingAll(c, unprocessed) ==
    /\ pc[c] = "call" /\ unprocessed \subseteq remaining[c]
    /\ confirmed' = confirmed \union (remaining[c] \ unprocessed)
    /\ UNCHANGED remaining
    /\ IF unprocessed # {} /\ aborted
       THEN Rejects(c) /\ UNCHANGED failed
       ELSE /\ pc' = [pc EXCEPT ![c] =
                  IF unprocessed # {} /\ attempt[c] < MaxAttempts
                  THEN "wait" ELSE "settled"]
            /\ failed' = IF unprocessed # {} /\ attempt[c] = MaxAttempts
                         THEN failed \union remaining'[c] ELSE failed
            /\ UNCHANGED firstError
    /\ UNCHANGED <<driver, pulled, attempt, reported, aborted, faults>>

\* The response confirms all but `unprocessed`.  An abort that arrived during
\* the call matters only if an item is left.
CallReturns(c, unprocessed) ==
    /\ pc[c] = "call" /\ unprocessed \subseteq remaining[c]
    /\ confirmed' = confirmed \union (remaining[c] \ unprocessed)
    /\ remaining' = [remaining EXCEPT ![c] = unprocessed]
    /\ IF unprocessed # {} /\ aborted
       THEN Rejects(c) /\ UNCHANGED failed
       ELSE /\ pc' = [pc EXCEPT ![c] =
                  IF unprocessed # {} /\ attempt[c] < MaxAttempts
                  THEN "wait" ELSE "settled"]
            /\ failed' = IF unprocessed # {} /\ attempt[c] = MaxAttempts
                         THEN failed \union remaining'[c] ELSE failed
            /\ UNCHANGED firstError
    /\ UNCHANGED <<driver, pulled, attempt, reported, aborted, faults>>

\* batchWriteItems throws M3LDynamoDBOperationError whatever the cause, which
\* no classifier knows: a throttled call is as fatal as any other.
CallFails(c) ==
    /\ pc[c] = "call" /\ faults < MaxFaults
    /\ faults' = faults + 1
    /\ Rejects(c)
    /\ UNCHANGED <<driver, pulled, attempt, remaining, confirmed, failed,
                   reported, aborted>>

\* The timer of the delay; an abort that comes first rejects at once.
DelayElapses(c) ==
    /\ pc[c] = "wait" /\ ~aborted
    /\ pc' = [pc EXCEPT ![c] = "due"]
    /\ UNCHANGED <<driver, pulled, attempt, remaining, confirmed, failed,
                   reported, firstError, aborted, faults>>

DelayAborted(c) ==
    /\ pc[c] = "wait" /\ aborted
    /\ Rejects(c)
    /\ UNCHANGED <<driver, pulled, attempt, remaining, confirmed, failed,
                   reported, aborted, faults>>

Retry(c) ==
    /\ pc[c] = "due"
    /\ Attempt(c)
    /\ UNCHANGED <<driver, pulled, remaining, confirmed, failed, reported,
                   aborted, faults>>

Abort ==
    /\ ~aborted /\ aborted' = TRUE
    /\ UNCHANGED <<driver, pulled, chunkVars, reported, faults>>

-----------------------------------------------------------------------------
(* The driver.                                                             *)

HasPlace == Cardinality(InFlight) < Limit

\* The next chunk has been read: unless a chunk has failed by now, it is
\* started, or waits until there is a place for it.
Pull ==
    /\ driver = "pulling" /\ pulled < Chunks
    /\ pulled' = pulled + 1
    /\ \/ firstError /\ driver' = "draining" /\ UNCHANGED chunkVars
       \/ /\ ~firstError /\ ~HasPlace
          /\ driver' = "slot" /\ UNCHANGED chunkVars
       \/ /\ ~firstError /\ HasPlace
          /\ Attempt(pulled') /\ UNCHANGED <<driver, remaining, confirmed, failed>>
    /\ UNCHANGED <<reported, aborted, faults>>

\* A chunk has settled: the one that waited is started, even if it settled
\* with an error.
PlaceFrees ==
    /\ driver = "slot" /\ HasPlace
    /\ driver' = "pulling"
    /\ Attempt(pulled)
    /\ UNCHANGED <<pulled, remaining, confirmed, failed, reported, aborted,
                   faults>>

InputEnds ==
    /\ driver = "pulling" /\ pulled = Chunks
    /\ driver' = "draining"
    /\ UNCHANGED <<pulled, chunkVars, reported, aborted, faults>>

\* Reading the input throws: the run is over, the chunks in flight are not.
InputFails ==
    /\ driver = "pulling" /\ faults < MaxFaults
    /\ faults' = faults + 1
    /\ driver' = "error"
    /\ UNCHANGED <<pulled, chunkVars, reported, aborted>>

\* Promise.all of the chunks in flight has resolved.
Drained ==
    /\ driver = "draining" /\ InFlight = {}
    /\ driver' = IF firstError THEN "error"
                 ELSE IF failed = {} THEN "ok" ELSE "reporting"
    /\ UNCHANGED <<pulled, chunkVars, reported, aborted, faults>>

\* failed.jsonl is written, then each of its items reported.
Report ==
    /\ driver = "reporting"
    /\ reported' = failed /\ driver' = "ok"
    /\ UNCHANGED <<pulled, chunkVars, aborted, faults>>

ReportFails ==
    /\ driver = "reporting" /\ faults < MaxFaults
    /\ faults' = faults + 1
    /\ driver' = "error"
    /\ UNCHANGED <<pulled, chunkVars, reported, aborted>>

Next ==
    \/ Pull \/ PlaceFrees \/ InputEnds \/ InputFails
    \/ Drained \/ Report \/ ReportFails \/ Abort
    \/ \E c \in 1..Chunks :
          \/ \E unprocessed \in SUBSET ItemsOf[c] : CallReturns(c, unprocessed)
          \/ CallFails(c) \/ DelayElapses(c) \/ DelayAborted(c) \/ Retry(c)

Spec == Init /\ [][Next]_vars

-----------------------------------------------------------------------------
(* Properties.                                                             *)

\* A run that ends well accounts for every item exactly once, however the
\* chunks overlap and whatever their retries leave: it is confirmed by the
\* table, or it is in failed.jsonl and reported as a recovery.
EveryItemIsAccountedFor ==
    driver = "ok" => /\ confirmed \union reported = Items
                     /\ confirmed \cap reported = {}

\* Once the run is aborted no call is made any more: not for a chunk that
\* waited for a place or for its backoff, nor for the chunks still to come.
AbortStopsCalls ==
    [][aborted => \A c \in 1..Chunks : pc'[c] = "call" => pc[c] = "call"]_vars

-----------------------------------------------------------------------------
(* What the documentation says and the code does not do.                   *)

\* docs/reference/scripts/dynamodb-crud.md:103: every item still unprocessed
\* after retry is in failed.jsonl and reported.
UnprocessedAreReported == driver \in {"ok", "error"} => failed \subseteq reported

\* batch-write-table.ts:130: a chunk that fails hard stops the launching of
\* new chunks.
FailureStopsLaunches ==
    [][firstError => \A c \in 1..Chunks : pc[c] = "none" => pc'[c] = "none"]_vars
=============================================================================
