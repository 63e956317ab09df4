-------------------------- MODULE AppendOnlyStream --------------------------
(***************************************************************************)
(* The append-only stream of m3l-common (internal/storage/append-only-...): *)
(* writers append lines to dated, numbered segment files of one directory, *)
(* rotate to a new segment when the day, the size or the age asks for it,  *)
(* and claim in a manifest what every segment they left behind holds.      *)
(* Several processes may write to the directory; each may die and be       *)
(* replaced by a fresh instance.                                           *)
(*                                                                         *)
(* A segment is <<day, sequence>> and its content a sequence of pieces: a  *)
(* piece is a whole line, or a torn one that lacks its newline and runs    *)
(* into whatever is appended next.  Segments only grow, so the digest of a *)
(* segment is its length.  Reports to onSealFailed change no state.        *)
(***************************************************************************)
EXTENDS Integers, Sequences, FiniteSets, FiniteSetsExt, SequencesExt

CONSTANTS
    Writers,
    MaxSegment,       \* maxSegmentBytes, in lines
    MaxSealAttempts,  \* maxSealAttempts
    MaxSweepSeals,    \* maxSweepSeals
    MaxWrites,        \* bound: writes per writer
    MaxDay,           \* bound: days
    MaxFaults,        \* bound: file operations that fail
    MaxTorn,          \* bound: appends that stop half-way
    MaxCrashes        \* bound: deaths (or exits) of a process

ASSUME StreamAssumption ==
    /\ IsFiniteSet(Writers)
    /\ {MaxSegment, MaxSealAttempts, MaxSweepSeals, MaxWrites, MaxDay}
           \subseteq Nat \ {0}
    /\ {MaxFaults, MaxTorn, MaxCrashes} \subseteq Nat

VARIABLES
    day,       \* currentDatePrefix()
    \* the directory
    disk,      \* segment -> its pieces
    present,   \* manifest.jsonl exists
    manifest,  \* its records
    \* each writer
    count,     \* number of its latest write
    acked,     \* the writes that resolved
    pc,        \* where its tail promise stands
    held,      \* the cached active segment and the size it believes, or none
    target,    \* the segment being appended to
    from,      \* the segment this append rotated away from, or none
    swept,     \* the sealer's #swept
    seal,      \* the sealing pass in progress
    \* bounds
    faults, torn, crashes

directory == <<disk, present, manifest>>
writing == <<count, acked, held, target, from>>
bounds == <<faults, torn, crashes>>
vars == <<day, disk, present, manifest, count, acked, pc, held, target, from,
          swept, seal, faults, torn, crashes>>

NoSegment == [segment |-> <<0, 0>>, size |-> 0]
NoClaim == [segment |-> <<0, 0>>, length |-> 0]
NoPass == [first |-> FALSE, today |-> 0, sealed |-> {}, boundary |-> <<0, 0>>,
           todo |-> <<>>, claim |-> NoClaim, attempts |-> 0]

Before(s, t) == s[1] < t[1] \/ (s[1] = t[1] /\ s[2] < t[2])

\* Segments of the directory, oldest first, as listSegmentFiles sorts them.
InOrder(segments) ==
    [i \in 1..Cardinality(segments) |->
        CHOOSE s \in segments :
            Cardinality({t \in segments : Before(t, s)}) = i - 1]

Init ==
    /\ day = 1
    /\ disk = <<>> /\ present = FALSE /\ manifest = <<>>
    /\ count = [w \in Writers |-> 0]
    /\ acked = [w \in Writers |-> {}]
    /\ pc = [w \in Writers |-> "idle"]
    /\ held = [w \in Writers |-> NoSegment]
    /\ target = [w \in Writers |-> NoSegment]
    /\ from = [w \in Writers |-> NoSegment]
    /\ swept = [w \in Writers |-> FALSE]
    /\ seal = [w \in Writers |-> NoPass]
    /\ faults = 0 /\ torn = 0 /\ crashes = 0

-----------------------------------------------------------------------------
(* Appending.                                                              *)

Adopt(s) == [segment |-> s,
             size |-> IF s \in DOMAIN disk THEN Len(disk[s]) ELSE 0]

\* The highest sequence of today's, or today's first.
DiscoverActiveSegment ==
    LET sequences == {s[2] : s \in {t \in DOMAIN disk : t[1] = day}}
    IN  Adopt(<<day, Max(sequences \union {1})>>)

\* Faulty variant: the sequence number carries over from the day before.
NextSegmentKeepingSequence(prior) == Adopt(<<day, prior[2] + 1>>)

NextSegment(prior) ==
    Adopt(<<day, IF prior[1] = day THEN prior[2] + 1 ELSE 1>>)

ShouldRotate(s, aged) ==
    s.segment[1] # day \/ s.size >= MaxSegment \/ aged

\* Faulty variant: the next instance starts the day's first segment again.
ResolveFirst(w) == IF held[w] = NoSegment THEN Adopt(<<day, 1>>) ELSE held[w]

Current(w) == IF held[w] = NoSegment THEN DiscoverActiveSegment ELSE held[w]

\* A write reaches the head of the tail: resolve the active segment and
\* decide the rotation.  A segment that is not on disk yet has no age.
Resolve(w) ==
    /\ pc[w] = "idle" /\ count[w] < MaxWrites
    /\ count' = [count EXCEPT ![w] = @ + 1]
    /\ pc' = [pc EXCEPT ![w] = "open"]
    /\ LET current == Current(w)
       IN  \E aged \in {FALSE, current.segment \in DOMAIN disk} :
             LET rotated == ShouldRotate(current, aged)
             IN  /\ target' = [target EXCEPT ![w] =
                        IF rotated THEN NextSegment(current.segment)
                        ELSE current]
                 /\ from' = [from EXCEPT ![w] =
                        IF rotated THEN current ELSE NoSegment]
    /\ UNCHANGED <<day, directory, acked, held, swept, seal, bounds>>

\* open(O_APPEND | O_CREAT) and the link check on the handle.
OpenSegment(w) ==
    /\ pc[w] = "open"
    /\ pc' = [pc EXCEPT ![w] = "write"]
    /\ disk' = [s \in DOMAIN disk \union {target[w].segment} |->
                   IF s \in DOMAIN disk THEN disk[s] ELSE <<>>]
    /\ UNCHANGED <<day, present, manifest, writing, swept, seal, bounds>>

Piece(w, whole) == [writer |-> w, write |-> count[w], whole |-> whole]

Write(w, whole) ==
    disk' = [disk EXCEPT ![target[w].segment] = Append(@, Piece(w, whole))]

AppendLine(w) ==
    /\ pc[w] = "write"
    /\ Write(w, TRUE)
    /\ pc' = [pc EXCEPT ![w] = "written"]
    /\ UNCHANGED <<day, present, manifest, writing, swept, seal, bounds>>

Grown(s) == [s EXCEPT !.size = @ + 1]

\* The append resolves; the sealer runs next on the tail, if it has work.
Acknowledge(w) ==
    /\ pc[w] = "written"
    /\ held' = [held EXCEPT ![w] = Grown(target[w])]
    /\ acked' = [acked EXCEPT ![w] = @ \union {count[w]}]
    /\ target' = [target EXCEPT ![w] = NoSegment]
    /\ pc' = [pc EXCEPT ![w] =
           IF from[w] = NoSegment /\ swept[w] THEN "idle" ELSE "load"]
    /\ UNCHANGED <<day, directory, count, from, swept, seal, bounds>>

\* The cached segment is dropped and the tail is free.
Drop(w) ==
    /\ held' = [held EXCEPT ![w] = NoSegment]
    /\ target' = [target EXCEPT ![w] = NoSegment]
    /\ from' = [from EXCEPT ![w] = NoSegment]
    /\ pc' = [pc EXCEPT ![w] = "idle"]

\* Any file operation of the append fails.
AppendFails(w) ==
    /\ pc[w] \in {"open", "write"} /\ faults < MaxFaults
    /\ faults' = faults + 1
    /\ Drop(w)
    /\ UNCHANGED <<day, directory, count, acked, swept, seal, torn, crashes>>

AppendTears(w) ==
    /\ pc[w] = "write" /\ torn < MaxTorn
    /\ torn' = torn + 1
    /\ Write(w, FALSE)
    /\ Drop(w)
    /\ UNCHANGED <<day, present, manifest, count, acked, swept, seal, faults,
                   crashes>>

-----------------------------------------------------------------------------
(* The manifest.  A torn record is ignored while it is the last one; a     *)
(* record appended behind it shares its line, which then parses as neither *)
(* and makes the manifest unreadable.  So do two seals that disagree.      *)

Seals == {r \in Range(manifest) : r.kind = "seal"}

ManifestReadable ==
    /\ \A i \in 1..Len(manifest) : manifest[i].kind = "torn" => i = Len(manifest)
    /\ \A r, t \in Seals : r.segment = t.segment => r.length = t.length

\* Where the manifest has a baseline; a later one replaces an earlier one.
Baselines == {i \in DOMAIN manifest : manifest[i].kind = "baseline"}

Boundary == IF Baselines = {} THEN <<0, 0>> ELSE manifest[Max(Baselines)].segment

Baseline(s) ==
    [kind |-> "baseline", segment |-> s, length |-> 0, swept |-> FALSE]

TornRecord ==
    [kind |-> "torn", segment |-> <<0, 0>>, length |-> 0, swept |-> FALSE]

\* appendRecord
AppendRecord(r) == present' = TRUE /\ manifest' = Append(manifest, r)

-----------------------------------------------------------------------------
(* Sealing, after the append and before the next one.                      *)

\* The rotated segment, unless the manifest already has a seal for it.
RotatedWork(w, sealed) ==
    IF from[w] = NoSegment \/ from[w].segment \in sealed THEN <<>>
    ELSE <<[segment |-> from[w].segment, expected |-> from[w].size]>>

\* The highest segment up to today, the writer's own excepted.
HighestSegment(w) ==
    LET eligible == {s \in DOMAIN disk : s[1] <= day /\ s # held[w].segment}
    IN  IF eligible = {} THEN <<0, 0>> ELSE Last(InOrder(eligible))

\* The start of #sealAndSweep: #swept is set before the manifest is read, so
\* an instance tries its sweep once whatever comes of it.
LoadManifest(w) ==
    LET sealed == {r.segment : r \in Seals}
    IN  /\ pc[w] = "load"
        /\ swept' = [swept EXCEPT ![w] = TRUE]
        /\ pc' = [pc EXCEPT ![w] =
               IF ~ManifestReadable THEN "idle"
               ELSE IF present THEN "seal" ELSE "baseline"]
        /\ seal' = [seal EXCEPT ![w] =
               IF ~ManifestReadable THEN NoPass
               ELSE [NoPass EXCEPT
                        !.first = ~swept[w],
                        !.sealed = sealed,
                        !.boundary = IF present THEN Boundary
                                     ELSE HighestSegment(w),
                        !.todo = RotatedWork(w, sealed)]]
        /\ from' = [from EXCEPT ![w] = NoSegment]
        /\ UNCHANGED <<day, directory, count, acked, held, target, bounds>>

AppendBaseline(w) ==
    /\ pc[w] = "baseline"
    /\ AppendRecord(Baseline(seal[w].boundary))
    /\ pc' = [pc EXCEPT ![w] = "seal"]
    /\ UNCHANGED <<day, disk, writing, swept, seal, bounds>>

\* Reading or initialising the manifest fails: reported, and the pass ends.
\* A failed append may have created the file, or left a torn record in it.
LoadFails(w) ==
    /\ pc[w] \in {"load", "baseline"}
    /\ \/ /\ faults < MaxFaults /\ faults' = faults + 1
          /\ present' \in {present, present \/ pc[w] = "baseline"}
          /\ UNCHANGED <<manifest, torn>>
       \/ /\ pc[w] = "baseline" /\ torn < MaxTorn /\ torn' = torn + 1
          /\ AppendRecord(TornRecord)
          /\ UNCHANGED faults
    /\ swept' = [swept EXCEPT ![w] = TRUE]
    /\ pc' = [pc EXCEPT ![w] = "idle"]
    /\ seal' = [seal EXCEPT ![w] = NoPass]
    /\ from' = [from EXCEPT ![w] = NoSegment]
    /\ UNCHANGED <<day, disk, count, acked, held, target, crashes>>

Working(w) == pc[w] = "seal" /\ seal[w].todo # <<>>

\* A rotation seal is deferred when the segment is not what its writer
\* believes it is; a sweep has no such count.
Agrees(work) == work.expected \in {-1, Len(disk[work.segment])}

NextWork(pass) ==
    [pass EXCEPT !.todo = Tail(@), !.claim = NoClaim, !.attempts = 0]

Measure(w) ==
    LET work == Head(seal[w].todo)
    IN  /\ Working(w) /\ seal[w].claim = NoClaim
        /\ seal' = [seal EXCEPT ![w] =
               IF Agrees(work)
               THEN [@ EXCEPT !.claim = [segment |-> work.segment,
                                         length |-> Len(disk[work.segment])],
                              !.attempts = 0]
               ELSE NextWork(@)]
        /\ UNCHANGED <<day, directory, pc, writing, swept, bounds>>

SealRecord(w) ==
    [kind |-> "seal", segment |-> seal[w].claim.segment,
     length |-> seal[w].claim.length,
     swept |-> Head(seal[w].todo).expected = -1]

AppendClaim(w) ==
    /\ Working(w) /\ seal[w].claim # NoClaim
    /\ AppendRecord(SealRecord(w))
    /\ seal' = [seal EXCEPT ![w] =
           [NextWork(@) EXCEPT
               !.sealed = seal[w].sealed \union {seal[w].claim.segment}]]
    /\ UNCHANGED <<day, disk, pc, writing, swept, bounds>>

\* Faulty variant: one failure gives the segment up.
GiveUpAtOnce(pass) == NextWork(pass)

\* The measurement, then the append of the claim, are tried again at once,
\* each MaxSealAttempts times; the claim of the first measurement is kept.
Retry(pass) ==
    IF pass.attempts + 1 = MaxSealAttempts THEN NextWork(pass)
    ELSE [pass EXCEPT !.attempts = @ + 1]

SealFails(w) ==
    /\ Working(w)
    /\ \/ /\ faults < MaxFaults /\ faults' = faults + 1
          /\ UNCHANGED <<present, manifest, torn>>
       \/ /\ seal[w].claim # NoClaim /\ torn < MaxTorn /\ torn' = torn + 1
          /\ AppendRecord(TornRecord)
          /\ UNCHANGED faults
    /\ seal' = [seal EXCEPT ![w] = Retry(@)]
    /\ UNCHANGED <<day, disk, pc, writing, swept, crashes>>

\* Faulty variant: every segment found on disk is swept.
AdmitsAny(w, s) == s \notin seal[w].sealed /\ Before(seal[w].boundary, s)

Admits(w, s) ==
    /\ s[1] < day
    /\ s # held[w].segment
    /\ s \notin seal[w].sealed
    /\ Before(seal[w].boundary, s)

\* Once per instance, behind the seal of the rotated segment.
Sweep(w) ==
    LET candidates == InOrder({s \in DOMAIN disk : Admits(w, s)})
        chosen == SubSeq(candidates, 1,
                         Min({MaxSweepSeals, Len(candidates)}))
    IN  /\ pc[w] = "seal" /\ seal[w].todo = <<>> /\ seal[w].first
        /\ seal' = [seal EXCEPT ![w] =
               [@ EXCEPT !.first = FALSE,
                         !.today = day,
                         !.todo = [i \in 1..Len(chosen) |->
                             [segment |-> chosen[i], expected |-> -1]]]]
        /\ UNCHANGED <<day, directory, pc, writing, swept, bounds>>

EndPass(w) ==
    /\ pc[w] = "seal" /\ seal[w].todo = <<>> /\ ~seal[w].first
    /\ pc' = [pc EXCEPT ![w] = "idle"]
    /\ seal' = [seal EXCEPT ![w] = NoPass]
    /\ UNCHANGED <<day, directory, writing, swept, bounds>>

-----------------------------------------------------------------------------
NextDay ==
    /\ day < MaxDay
    /\ day' = day + 1
    /\ UNCHANGED <<directory, pc, writing, swept, seal, bounds>>

\* The process dies, or exits without a flush; the next one starts cold.
Crash(w) ==
    /\ crashes < MaxCrashes
    /\ crashes' = crashes + 1
    /\ Drop(w)
    /\ swept' = [swept EXCEPT ![w] = FALSE]
    /\ seal' = [seal EXCEPT ![w] = NoPass]
    /\ UNCHANGED <<day, directory, count, acked, faults, torn>>

WriterStep(w) ==
    \/ Resolve(w) \/ OpenSegment(w) \/ AppendLine(w) \/ Acknowledge(w)
    \/ LoadManifest(w) \/ AppendBaseline(w)
    \/ Measure(w) \/ AppendClaim(w) \/ Sweep(w) \/ EndPass(w)

Fault(w) ==
    AppendFails(w) \/ AppendTears(w) \/ LoadFails(w) \/ SealFails(w) \/ Crash(w)

Next == NextDay \/ \E w \in Writers : WriterStep(w) \/ Fault(w)

Spec == Init /\ [][Next]_vars
-----------------------------------------------------------------------------
(* Reading, with onTruncatedTail: read() hands over the entries in order    *)
(* and throws at the first thing it does not accept.  A seal that does not  *)
(* hold is met before any entry of its segment is handed over: a segment is *)
(* read in one chunk.                                                       *)

SealHolds(s) == \A r \in Seals : r.segment = s => r.length = Len(disk[s])

\* A whole piece behind a torn one shares its line, which does not parse.
LinesParse(s) ==
    \A i \in DOMAIN disk[s] : disk[s][i].whole => \A j \in 1..i : disk[s][j].whole

IsLastSegment(s) == \A t \in DOMAIN disk : ~Before(s, t)

\* A trailing fragment, or no line at all, is accepted of the last segment.
EndsWell(s) ==
    IsLastSegment(s) \/ (disk[s] # <<>> /\ disk[s][Len(disk[s])].whole)

\* Faulty variant: a line that does not parse is skipped.
ReadsThroughSkipping(s) == SealHolds(s) /\ EndsWell(s)

ReadsThrough(s) == SealHolds(s) /\ LinesParse(s) /\ EndsWell(s)

Reaches(s) ==
    /\ ManifestReadable /\ SealHolds(s)
    /\ \A t \in DOMAIN disk : Before(t, s) => ReadsThrough(t)

ReadCompletes == ManifestReadable /\ \A s \in DOMAIN disk : ReadsThrough(s)

\* Where the lines of w are, as <<day, sequence, position>>.
LinesOf(w) ==
    UNION {{<<s[1], s[2], i>> :
                i \in {j \in 1..Len(disk[s]) :
                          disk[s][j].writer = w /\ disk[s][j].whole}}
           : s \in DOMAIN disk}

\* Those read() hands over.
LinesRead(w) ==
    {p \in LinesOf(w) :
        /\ Reaches(<<p[1], p[2]>>)
        /\ \A j \in 1..p[3] : disk[<<p[1], p[2]>>][j].whole}

ReadBefore(p, q) ==
    \/ Before(<<p[1], p[2]>>, <<q[1], q[2]>>)
    \/ <<p[1], p[2]>> = <<q[1], q[2]>> /\ p[3] < q[3]

\* The writes at these positions, in reading order.
WritesAt(lines) ==
    [i \in 1..Cardinality(lines) |->
        LET p == CHOOSE p \in lines :
                    Cardinality({q \in lines : ReadBefore(q, p)}) = i - 1
        IN  disk[<<p[1], p[2]>>][p[3]].write]

WrittenBy(w) == WritesAt(LinesOf(w))
ReadBy(w) == WritesAt(LinesRead(w))

-----------------------------------------------------------------------------
(* Properties.                                                             *)

Believes(s) == s = NoSegment
               \/ (s.segment \in DOMAIN disk /\ s.size \in 1..Len(disk[s.segment]))

\* The sequence numbers of a day have no gap: read() throws on one
\* (assertNoSequenceGap), and no option suppresses it.
NoSequenceGaps ==
    \A s \in DOMAIN disk : s[2] > 1 => <<s[1], s[2] - 1>> \in DOMAIN disk

\* Alone in its directory, a writer never lets a segment outgrow the ceiling
\* the digest of a seal is bounded by, through failures and restarts too.
SegmentsAreBounded ==
    Cardinality(Writers) = 1 =>
        \A s \in DOMAIN disk : Len(disk[s]) <= MaxSegment

\* Types; the trail can be read; segments are bounded; and a cached
\* segment (`this.active`) exists and is believed to hold the line its writer
\* appended last and no more than it does.
TypeOK ==
    /\ day \in 1..MaxDay
    /\ DOMAIN disk \subseteq (1..MaxDay) \X (Nat \ {0})
    /\ \A s \in DOMAIN disk : disk[s] \in
           Seq([writer : Writers, write : 1..MaxWrites, whole : BOOLEAN])
    /\ NoSequenceGaps /\ SegmentsAreBounded
    /\ present \in BOOLEAN
    /\ \A r \in Range(manifest) : r.kind \in {"baseline", "seal", "torn"}
    /\ \A w \in Writers :
          /\ count[w] \in 0..MaxWrites /\ acked[w] \subseteq 1..count[w]
          /\ pc[w] \in {"idle", "open", "write", "written", "load", "baseline",
                        "seal"}
          /\ Believes(held[w])
          /\ seal[w].attempts \in 0..(MaxSealAttempts - 1)
    /\ swept \in [Writers -> BOOLEAN]
    /\ faults \in 0..MaxFaults /\ torn \in 0..MaxTorn
    /\ crashes \in 0..MaxCrashes

\* Alone in its directory, a writer never claims a segment that is still to
\* grow: verify() reports no mismatch on a trail nobody tampered with.
SealsAreTrue == \A r \in Seals : r.length = Len(disk[r.segment])

\* When an instance ends the pass that swept, every segment older than the
\* day of the sweep is sealed, precedes the baseline or is its own, unless
\* the sweep met its cap; a transient failure is made good by the retry.
SweepLeavesNothingBehind ==
    [][\A w \in Writers :
         (EndPass(w) /\ seal[w].today > 0 /\ ManifestReadable) =>
         LET missed == {s \in DOMAIN disk :
                 /\ s[1] < seal[w].today
                 /\ s # held[w].segment
                 /\ Before(Boundary, s)
                 /\ \A r \in Seals : r.segment # s}
         IN  missed = {} \/ Cardinality(Seals) >= MaxSweepSeals]_vars

\* Alone in its directory, a writer never loses from read() an entry it once
\* handed over, and new entries come behind the old ones, whatever fails, tears
\* or restarts, as long as the manifest can be read (read() throws if not).
TrailOnlyGrows ==
    [][(Cardinality(Writers) = 1 /\ ManifestReadable') =>
          \A w \in Writers : IsPrefix(ReadBy(w), ReadBy(w)')]_vars

Log == INSTANCE AppendOnlyLog
           WITH log <- [w \in Writers |-> WrittenBy(w)], acknowledged <- acked,
                read <- [complete |-> ReadCompletes,
                         entries |-> [w \in Writers |-> ReadBy(w)]]

\* The writers over one directory each have the log AppendOnlyLog describes:
\* rotation, midnight, torn appends, failed operations and restarts lose,
\* repeat and reorder nothing on disk, and a read() that does not throw hands
\* all of it over.
StreamImplementsLog == Log!Spec

-----------------------------------------------------------------------------
(* What the documentation says and the code does not do.                   *)

\* append-only-sealer-types.ts:67: a rotation seal never covers a prefix of
\* what the segment eventually holds, second writer or not.
RotationSealsAreComplete ==
    \A r \in Seals : ~r.swept => r.length = Len(disk[r.segment])

\* append-only-sweep-policy.ts:124: no conforming writer is still appending
\* to a segment a sweep seals.
SweptSealsAreComplete ==
    \A r \in Seals : r.swept => r.length = Len(disk[r.segment])

\* append-only-reader.ts:230: only the last segment is ever empty.
OnlyTheLastIsEmpty ==
    \A s, t \in DOMAIN disk : Before(s, t) => disk[s] # <<>>

\* storage.md: the trailing fragment of a process that died is what a reader
\* may lose; an entry whose append resolved can be read.
AcknowledgedAreReadable ==
    \A w \in Writers : acked[w] \subseteq Range(ReadBy(w))

\* ADR-0102: a half-written seal claims nothing, and costs nothing but that
\* segment's seal.
ManifestStaysReadable == ManifestReadable

\* append-only-writer.ts:233: the seal a process loses by exiting without a
\* flush is recovered by the cold-start sweep of the next instance.
SweepRecoversSeals ==
    [][\A w \in Writers : (EndPass(w) /\ seal[w].today > 0) =>
         \A s \in DOMAIN disk :
           (s[1] < seal[w].today /\ s # held[w].segment /\ disk[s] # <<>>) =>
           \E r \in Seals : r.segment = s]_vars
=============================================================================
