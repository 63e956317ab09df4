-------------------------- MODULE CheckpointedScan --------------------------
(***************************************************************************)
(* The resumable parallel scan of dynamodb-crud over the checkpoint store  *)
(* and the byte-offset exporter of m3l-common.  Segments of a table are    *)
(* scanned page by page, concurrently; their items are merged into one     *)
(* output file, appended one at a time; every so many pages a segment      *)
(* writes a checkpoint of all cursors and of the length of the output.  A  *)
(* run may fail or die anywhere; --resume truncates the output to the      *)
(* length of the checkpoint and goes on from its cursors.                  *)
(*                                                                         *)
(* A cursor is the number of pages it is past; an item is <<segment, page, *)
(* index>> and is one "byte" of the output, where a write cut short leaves *)
(* Torn.  The table does not change.  An attempt is numbered by the fresh  *)
(* (not resumed) run it goes back to.                                      *)
(***************************************************************************)
EXTENDS Integers, Sequences, FiniteSets, SequencesExt

CONSTANTS
    PageSizes,        \* for each segment, the number of items on its pages
    CheckpointEvery,  \* checkpointEveryPages
    MaxFresh,         \* bound: runs without --resume
    MaxFaults,        \* bound: pages, appends and checkpoints that fail
    MaxCrashes,       \* bound: runs killed
    MaxLosses         \* bound: deaths that lose unflushed output

Segments == DOMAIN PageSizes

ASSUME ScanAssumption ==
    /\ \A s \in Segments : PageSizes[s] \in Seq(Nat) \ {<<>>}
    /\ CheckpointEvery \in Nat \ {0}
    /\ {MaxFresh, MaxFaults, MaxCrashes, MaxLosses} \subseteq Nat

Torn == <<0, 0, 0>>
NoCheckpoint == [of |-> 0, cursor |-> [s \in Segments |-> 0], bytes |-> -1]

VARIABLES
    \* files
    output,
    checkpoint,
    \* the run
    run,       \* "none", "merging", "failing", "closing", "complete", "dead"
    refused,   \* the output was shorter than the checkpoint said
    bytes,     \* bytesWritten
    cursor,    \* SegmentCheckpointState
    pageCount, \* of each segment, in this run
    pc,        \* of each segment's generator
    item,      \* index of its item on its page
    snapshot,  \* the checkpoint it is writing
    \* history
    stale,     \* resumed from a checkpoint of an earlier fresh run
    fresh, faults, crashes, losses

files == <<output, checkpoint>>
generators == <<cursor, pageCount, pc, item, snapshot>>
bounds == <<fresh, faults, crashes, losses>>
vars == <<output, checkpoint, run, refused, bytes, cursor, pageCount, pc, item,
          snapshot, stale, fresh, faults, crashes, losses>>

Pages(s) == Len(PageSizes[s])

\* An exhausted generator takes no further step.
At(s) == IF cursor'[s] = Pages(s) THEN "done" ELSE "fetch"

Init ==
    /\ output = <<>> /\ checkpoint = NoCheckpoint
    /\ run = "none" /\ refused = FALSE /\ bytes = 0
    /\ cursor = [s \in Segments |-> 0]
    /\ pageCount = [s \in Segments |-> 0]
    /\ pc = [s \in Segments |-> "done"]
    /\ item = [s \in Segments |-> 0]
    /\ snapshot = [s \in Segments |-> NoCheckpoint]
    /\ stale = FALSE
    /\ fresh = 0 /\ faults = 0 /\ crashes = 0 /\ losses = 0

-----------------------------------------------------------------------------
(* Starting.                                                               *)

Begin(from, truncated, tooShort) ==
    /\ run \in {"none", "complete", "dead"}
    /\ run' = "merging"
    /\ refused' = tooShort
    /\ output' = IF tooShort THEN output ELSE SubSeq(output, 1, truncated)
    /\ bytes' = truncated
    /\ cursor' = from
    /\ pageCount' = [s \in Segments |-> 0]
    /\ pc' = [s \in Segments |-> At(s)]
    /\ item' = [s \in Segments |-> 0]
    /\ snapshot' = [s \in Segments |-> NoCheckpoint]

\* An old checkpoint stays where it is until a newer one replaces it.
StartFresh ==
    /\ fresh < MaxFresh /\ fresh' = fresh + 1
    /\ Begin([s \in Segments |-> 0], 0, FALSE)
    /\ stale' = FALSE
    /\ UNCHANGED <<checkpoint, faults, crashes, losses>>

\* Faulty variant: the output is reopened where it ends.
ResumeAtEnd ==
    /\ checkpoint # NoCheckpoint
    /\ Begin(checkpoint.cursor, Len(output), FALSE)
    /\ stale' = (checkpoint.of # fresh)
    /\ UNCHANGED <<checkpoint, bounds>>

Resume ==
    /\ checkpoint # NoCheckpoint
    /\ Begin(checkpoint.cursor, checkpoint.bytes, Len(output) < checkpoint.bytes)
    /\ stale' = (checkpoint.of # fresh)
    /\ UNCHANGED <<checkpoint, bounds>>

-----------------------------------------------------------------------------
(* A segment's generator (driveSegment).                                   *)

\* A generator that is already running goes on when the run has failed.
Alive == run \in {"merging", "failing"}

Snapshot ==
    [of |-> IF stale THEN 0 ELSE fresh, cursor |-> cursor', bytes |-> bytes]

\* The page of s is drained: the cursor moves and, when it is time, the
\* checkpoint is composed.
EndPage(s) ==
    /\ cursor' = [cursor EXCEPT ![s] = @ + 1]
    /\ pageCount' = [pageCount EXCEPT ![s] = @ + 1]
    /\ IF pageCount'[s] % CheckpointEvery = 0
       THEN /\ pc' = [pc EXCEPT ![s] = "write"]
            /\ snapshot' = [snapshot EXCEPT ![s] = Snapshot]
       ELSE /\ pc' = [pc EXCEPT ![s] = At(s)]
            /\ UNCHANGED snapshot

Offer(s, i) ==
    /\ pc' = [pc EXCEPT ![s] = "ready"]
    /\ item' = [item EXCEPT ![s] = i]
    /\ UNCHANGED <<cursor, pageCount, snapshot>>

FetchPage(s) ==
    /\ Alive /\ pc[s] = "fetch"
    /\ IF PageSizes[s][cursor[s] + 1] = 0
       THEN EndPage(s) /\ UNCHANGED item
       ELSE Offer(s, 1)
    /\ UNCHANGED <<files, run, refused, bytes, stale, bounds>>

\* The store renames a complete temporary file over the checkpoint.  Writes
\* of two segments may finish in either order.
WriteCheckpoint(s) ==
    /\ Alive /\ pc[s] = "write"
    /\ checkpoint' = snapshot[s]
    /\ pc' = [pc EXCEPT ![s] = IF cursor[s] = Pages(s) THEN "done" ELSE "fetch"]
    /\ UNCHANGED <<output, run, refused, bytes, cursor, pageCount, item,
                   snapshot, stale, bounds>>

\* The page cannot be fetched, or the checkpoint not be written.
GeneratorFails(s) ==
    /\ Alive /\ pc[s] \in {"fetch", "write"}
    /\ faults < MaxFaults /\ faults' = faults + 1
    /\ pc' = [pc EXCEPT ![s] = "failed"]
    /\ UNCHANGED <<files, run, refused, bytes, cursor, pageCount, item, snapshot,
                   stale, fresh, crashes, losses>>

-----------------------------------------------------------------------------
(* The merge and its consumer: one item at a time is taken, appended to    *)
(* the output and followed by a pull of the next from the same segment.    *)

Idle == run = "merging" /\ \A s \in Segments : pc[s] \notin {"append", "appended"}

Take(s) ==
    /\ Idle /\ pc[s] = "ready"
    /\ pc' = [pc EXCEPT ![s] = "append"]
    /\ UNCHANGED <<files, run, refused, bytes, cursor, pageCount, item, snapshot,
                   stale, bounds>>

Item(s) == <<s, cursor[s] + 1, item[s]>>

\* Faulty variant: an item counts as written when it is buffered.
AppendItemBuffered(s) ==
    /\ pc[s] = "append" /\ ~refused
    /\ output' \in {output, Append(output, Item(s))}
    /\ bytes' = bytes + 1
    /\ pc' = [pc EXCEPT ![s] = "appended"]
    /\ UNCHANGED <<checkpoint, run, refused, cursor, pageCount, item, snapshot,
                   stale, bounds>>

AppendItem(s) ==
    /\ pc[s] = "append" /\ ~refused
    /\ output' = Append(output, Item(s))
    /\ bytes' = bytes + 1
    /\ pc' = [pc EXCEPT ![s] = "appended"]
    /\ UNCHANGED <<checkpoint, run, refused, cursor, pageCount, item, snapshot,
                   stale, bounds>>

\* The writer rejects: always when it refused the file it was to resume.
AppendFails(s) ==
    /\ pc[s] = "append"
    /\ IF refused THEN UNCHANGED <<output, faults>>
       ELSE /\ faults < MaxFaults /\ faults' = faults + 1
            /\ output' \in {output, Append(output, Torn)}
    /\ run' = "failing"
    /\ pc' = [pc EXCEPT ![s] = "failed"]
    /\ UNCHANGED <<checkpoint, refused, bytes, cursor, pageCount, item, snapshot,
                   stale, fresh, crashes, losses>>

Pull(s) ==
    /\ run = "merging" /\ pc[s] = "appended"
    /\ IF item[s] < PageSizes[s][cursor[s] + 1]
       THEN Offer(s, item[s] + 1)
       ELSE EndPage(s) /\ UNCHANGED item
    /\ UNCHANGED <<files, run, refused, bytes, stale, bounds>>

\* The race of the merge meets a generator that failed.
MergeThrows ==
    /\ Idle /\ \E s \in Segments : pc[s] = "failed"
    /\ run' = "failing"
    /\ UNCHANGED <<files, refused, bytes, generators, stale, bounds>>

-----------------------------------------------------------------------------
(* Ending.                                                                 *)

\* All segments are drained; the checkpoint goes before the output is closed.
DeleteCheckpoint ==
    /\ run = "merging" /\ \A s \in Segments : pc[s] = "done"
    /\ checkpoint' = NoCheckpoint
    /\ run' = "closing"
    /\ UNCHANGED <<output, refused, bytes, generators, stale, bounds>>

DeleteFails ==
    /\ run = "merging" /\ \A s \in Segments : pc[s] = "done"
    /\ faults < MaxFaults /\ faults' = faults + 1
    /\ run' = "failing"
    /\ UNCHANGED <<files, refused, bytes, generators, stale, fresh, crashes,
                   losses>>

Over(outcome) ==
    /\ run' = outcome
    /\ refused' = FALSE /\ bytes' = 0
    /\ pc' = [s \in Segments |-> "done"]
    /\ UNCHANGED <<checkpoint, cursor, pageCount, item, snapshot, stale>>

\* Closing reports what the writer refused, if nothing was appended.
Close ==
    /\ run = "closing"
    /\ Over(IF refused THEN "dead" ELSE "complete")
    /\ UNCHANGED <<output, bounds>>

\* A failed run exits, whatever its generators are still doing.
Exit ==
    /\ run = "failing"
    /\ Over("dead")
    /\ UNCHANGED <<output, bounds>>

\* What a kill may leave of an append under way.
CutShort ==
    {output} \union
    UNION {{Append(output, Item(s)), Append(output, Torn)} :
               s \in {t \in Segments : pc[t] = "append" /\ ~refused}}

Crash ==
    /\ run \in {"merging", "failing", "closing"} /\ crashes < MaxCrashes
    /\ crashes' = crashes + 1
    /\ Over("dead")
    /\ \/ output' \in CutShort /\ UNCHANGED losses
       \/ /\ losses < MaxLosses /\ losses' = losses + 1
          /\ \E n \in 0..(Len(output) - 1) : output' = SubSeq(output, 1, n)
    /\ UNCHANGED <<fresh, faults>>

Next ==
    \/ StartFresh \/ Resume
    \/ \E s \in Segments :
          \/ FetchPage(s) \/ WriteCheckpoint(s) \/ GeneratorFails(s)
          \/ Take(s) \/ AppendItem(s) \/ AppendFails(s) \/ Pull(s)
    \/ MergeThrows \/ DeleteCheckpoint \/ DeleteFails
    \/ Close \/ Exit \/ Crash

Spec == Init /\ [][Next]_vars

-----------------------------------------------------------------------------
(* Properties.                                                             *)

\* The items on the pages the cursors c are past.
Behind(c) ==
    UNION {UNION {{<<s, p, i>> : i \in 1..PageSizes[s][p]} : p \in 1..c[s]} :
               s \in Segments}

Whole(o, c) == Behind(c) \subseteq Range(o) /\ Torn \notin Range(o)

\* Whenever a run is killed, the part of the output that a resumption keeps
\* holds every item the checkpoint says is done: a checkpoint is never ahead
\* of the output, whichever segment wrote it and in whatever order the
\* writes finished.  Said of the current fresh run's checkpoints.
CheckpointIsBehindTheOutput ==
    (checkpoint # NoCheckpoint /\ checkpoint.of = fresh) =>
        \/ /\ checkpoint.bytes <= Len(output)
           /\ Whole(SubSeq(output, 1, checkpoint.bytes), checkpoint.cursor)
        \/ /\ losses > 0
           /\ checkpoint.bytes > Len(output)

\* A run that reports success leaves every item of the table in the output
\* and no torn line, through any sequence of failures, kills, lost tails and
\* resumptions.  Said of runs that did not resume an earlier one's checkpoint.
CompleteMeansWhole ==
    (run = "complete" /\ ~stale) =>
        Whole(output, [s \in Segments |-> Pages(s)])

-----------------------------------------------------------------------------
(* What the documentation says and the code does not do: "Duplicate work,  *)
(* never lost or doubled output." (ADR-0045, docs/reference/core/          *)
(* exporters.md).                                                          *)

\* A complete output holds no item twice.
NothingIsDoubled == run = "complete" => IsInjective(output)

\* A complete output lacks no item, whatever was resumed.
NothingIsLost ==
    run = "complete" => Behind([s \in Segments |-> Pages(s)]) \subseteq Range(output)
=============================================================================
