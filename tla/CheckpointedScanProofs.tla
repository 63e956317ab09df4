----------------------- MODULE CheckpointedScanProofs -----------------------
(***************************************************************************)
(* The checkpoint is never ahead of the output, and a run that reports     *)
(* success left a whole one: for any table, number of segments, interval   *)
(* of the checkpoints, failures, kills and lost tails.  The argument: each *)
(* checkpoint, written or still pending, is a picture of the cursors at a  *)
(* length of the output at which all items behind them were written, and   *)
(* what is written up to a length only changes by a cut that is counted.   *)
(***************************************************************************)
EXTENDS CheckpointedScan, SequenceTheorems, TLAPS

Active == run \in {"merging", "failing", "closing"}
Appending == {"append", "appended"}

Lines == (Segments \X Nat \X Nat) \cup {Torn}
Cursors == {c \in [Segments -> Nat] : \A s \in Segments : c[s] <= Pages(s)}
Records == [of : Nat, cursor : Cursors, bytes : Int]
Places == {"fetch", "ready", "append", "appended", "write", "failed", "done"}

Typed ==
    /\ output \in Seq(Lines) /\ checkpoint \in Records
    /\ run \in {"none", "merging", "failing", "closing", "complete", "dead"}
    /\ refused \in BOOLEAN /\ stale \in BOOLEAN
    /\ bytes \in Nat /\ fresh \in Nat /\ losses \in Nat
    /\ cursor \in Cursors
    /\ pc \in [Segments -> Places]
    /\ item \in [Segments -> Nat]
    /\ snapshot \in [Segments -> Records]

\* The first n lines of o.
Prefix(o, n) == {o[k] : k \in 1 .. n}

\* The items behind the cursors c are among the first n lines, none torn.
Kept(o, c, n) == Behind(c) \subseteq Prefix(o, n) /\ Torn \notin Prefix(o, n)

\* A checkpoint c of the current fresh run: the output holds what it says, or
\* has lost its end, and then no run goes on appending to it.
Truthful(c) ==
    c # NoCheckpoint /\ c.of = fresh =>
        \/ c.bytes <= Len(output) /\ Kept(output, c.cursor, c.bytes)
        \/ losses > 0 /\ c.bytes > Len(output) /\ (Active => refused)

RecordOK(c) ==
    /\ c.of <= fresh
    /\ c # NoCheckpoint => fresh >= 1 /\ c.bytes >= 0
    /\ stale => c.of # fresh
    /\ Truthful(c)

\* The checkpoint, and those about to replace it.
Written == {checkpoint} \cup {snapshot[s] : s \in Segments}

\* Where a generator stands on its page.
PageOK(s) ==
    /\ pc[s] \in {"fetch", "ready"} \cup Appending => cursor[s] < Pages(s)
    /\ pc[s] \in {"ready"} \cup Appending =>
          item[s] >= 1 /\ item[s] <= PageSizes[s][cursor[s] + 1]
    /\ Active /\ pc[s] = "done" => cursor[s] = Pages(s)

\* How many items of the page its cursor has not passed yet are written.
Done(s) ==
    IF pc[s] \in {"ready", "append"} THEN item[s] - 1
    ELSE IF pc[s] = "appended" THEN item[s] ELSE 0

OnPage(s) ==
    \A i \in 1 .. Done(s) : <<s, cursor[s] + 1, i>> \in Prefix(output, bytes)

\* One item is appended at a time, and none by a run that fails or closes.
OneAppends ==
    /\ run # "merging" => \A s \in Segments : pc[s] \notin Appending
    /\ \A s, t \in Segments :
          pc[s] \in Appending /\ pc[t] \in Appending => s = t

RunOK ==
    /\ run # "none" \/ stale => fresh >= 1
    /\ ~Active \/ run = "closing" => \A s \in Segments : pc[s] = "done"
    /\ OneAppends

\* The output, while a run works on it.
OutputOK ==
    Active /\ ~stale =>
        \/ refused /\ losses > 0 /\ bytes > Len(output)
        \/ /\ ~refused /\ bytes <= Len(output)
           /\ run # "failing" => bytes = Len(output)
           /\ Kept(output, cursor, bytes)
           /\ \A s \in Segments : OnPage(s)

IInv ==
    /\ Typed /\ RunOK /\ OutputOK
    /\ \A c \in Written : RecordOK(c)
    /\ \A s \in Segments : PageOK(s)
    /\ CompleteMeansWhole

-----------------------------------------------------------------------------
(* Pages, items and prefixes.                                              *)

\* A segment has finitely many pages, of finitely many items.
LEMMA PagesAreNumbers ==
    ASSUME NEW s \in Segments
    PROVE  /\ Pages(s) \in Nat
           /\ \A p \in 1 .. Pages(s) : PageSizes[s][p] \in Nat
BY ScanAssumption, LenProperties DEF Pages

\* What is behind a cursor.
LEMMA BehindIs ==
    ASSUME NEW c, NEW x
    PROVE  x \in Behind(c) <=>
              \E s \in Segments : \E p \in 1 .. c[s] :
                 \E i \in 1 .. PageSizes[s][p] : x = <<s, p, i>>
BY DEF Behind

\* A cursor that passes a page has the items of that page behind it, and
\* nothing else that is new.
LEMMA BehindMoves ==
    ASSUME NEW c \in Cursors, NEW s \in Segments, NEW d,
           d[s] = c[s] + 1, \A t \in Segments \ {s} : d[t] = c[t],
           NEW S, Behind(c) \subseteq S,
           \A i \in 1 .. PageSizes[s][c[s] + 1] : <<s, c[s] + 1, i>> \in S
    PROVE  Behind(d) \subseteq S
<1> SUFFICES ASSUME NEW x \in Behind(d) PROVE x \in S
  OBVIOUS
<1>1. PICK t, p, i : /\ t \in Segments /\ p \in 1 .. d[t]
                     /\ i \in 1 .. PageSizes[t][p] /\ x = <<t, p, i>>
  BY DEF Behind
<1>2. c[s] \in Nat /\ c[t] \in Nat /\ d[t] = IF t = s THEN c[s] + 1 ELSE c[t]
  BY <1>1 DEF Cursors
<1>3. CASE p \in 1 .. c[t]
  BY <1>1, <1>3, BehindIs
<1>4. CASE p \notin 1 .. c[t]
  <2>1. t = s /\ p = c[s] + 1
    BY <1>1, <1>2, <1>4
  <2> QED
    BY <1>1, <2>1
<1> QED
  BY <1>3, <1>4

\* Nothing is behind cursors at the start.
LEMMA NothingBehind == Behind([s \in Segments |-> 0]) = {}
<1> DEFINE c == [s \in Segments |-> 0]
<1>1. \A x : x \notin Behind(c)
  BY BehindIs
<1> QED
  BY <1>1

\* The lines of a beginning.
LEMMA PrefixIsRange ==
    ASSUME NEW o \in Seq(Lines), NEW n \in Nat, n <= Len(o)
    PROVE  /\ SubSeq(o, 1, n) \in Seq(Lines) /\ Len(SubSeq(o, 1, n)) = n
           /\ \A k \in 1 .. n : SubSeq(o, 1, n)[k] = o[k]
           /\ Range(SubSeq(o, 1, n)) = Prefix(o, n)
<1> DEFINE q == SubSeq(o, 1, n)
<1>1. q \in Seq(Lines) /\ Len(q) = n /\ \A k \in 1 .. n : q[k] = o[k]
  BY LenProperties, SubSeqProperties
<1>2. DOMAIN q = 1 .. n
  BY <1>1, LenProperties
<1>3. Range(q) = {q[k] : k \in 1 .. n}
  BY <1>2 DEF Range
<1> QED
  BY <1>1, <1>3 DEF Prefix

\* The lines of the whole.
LEMMA PrefixOfAll ==
    ASSUME NEW o \in Seq(Lines)
    PROVE  Range(o) = Prefix(o, Len(o))
<1>1. DOMAIN o = 1 .. Len(o)
  BY LenProperties
<1> QED
  BY <1>1 DEF Range, Prefix

\* Outputs that agree up to n have the same first n lines.
LEMMA PrefixAgrees ==
    ASSUME NEW o, NEW p, NEW n \in Nat, \A k \in 1 .. n : p[k] = o[k]
    PROVE  Prefix(p, n) = Prefix(o, n)
BY DEF Prefix

\* A line more.
LEMMA AppendGrows ==
    ASSUME NEW o \in Seq(Lines), NEW e \in Lines
    PROVE  /\ Append(o, e) \in Seq(Lines) /\ Len(Append(o, e)) = Len(o) + 1
           /\ \A k \in 1 .. Len(o) : Append(o, e)[k] = o[k]
           /\ Prefix(Append(o, e), Len(o) + 1) = Prefix(o, Len(o)) \cup {e}
<1>1. /\ Append(o, e) \in Seq(Lines) /\ Len(Append(o, e)) = Len(o) + 1
      /\ \A k \in 1 .. Len(o) : Append(o, e)[k] = o[k]
      /\ Append(o, e)[Len(o) + 1] = e
  BY AppendProperties
<1>2. Len(o) \in Nat
  BY LenProperties
<1>3. 1 .. (Len(o) + 1) = (1 .. Len(o)) \cup {Len(o) + 1}
  BY <1>2
<1> QED
  BY <1>1, <1>3 DEF Prefix

\* What Whole says, in terms of prefixes.
LEMMA WholeIsKept ==
    ASSUME NEW o \in Seq(Lines), NEW n \in Nat, n <= Len(o), NEW c
    PROVE  Kept(o, c, n) <=> Whole(SubSeq(o, 1, n), c)
BY PrefixIsRange DEF Kept, Whole

-----------------------------------------------------------------------------
(* What a step leaves alone.                                               *)

\* The output is as it was, or the run has appended a line to it.
Extends ==
    \/ output' = output
    \/ Active /\ ~refused /\ \E e \in Lines : output' = Append(output, e)

\* While the output only grows, checkpoints stay true of it.
LEMMA RecordStays ==
    ASSUME Typed, NEW c \in Records, RecordOK(c), Extends,
           UNCHANGED <<fresh, losses, stale>>,
           Active' /\ ~refused' => Active /\ ~refused
    PROVE  RecordOK(c)'
<1> SUFFICES ASSUME c # NoCheckpoint, c.of = fresh, Truthful(c) PROVE Truthful(c)'
  BY DEF RecordOK, Truthful
<1>1. c.bytes \in Nat /\ Len(output) \in Nat
  BY LenProperties DEF RecordOK, Records, Typed
<1>2. CASE output' = output
  BY <1>2 DEF Truthful, Active
<1>3. ASSUME Active, ~refused, NEW e \in Lines, output' = Append(output, e)
      PROVE  Truthful(c)'
  <2>1. c.bytes <= Len(output) /\ Kept(output, c.cursor, c.bytes)
    BY <1>3 DEF Truthful
  <2>2. /\ Len(output') = Len(output) + 1
        /\ \A k \in 1 .. c.bytes : output'[k] = output[k]
    BY <1>1, <1>3, <2>1, AppendGrows DEF Typed
  <2>3. Prefix(output', c.bytes) = Prefix(output, c.bytes)
    BY <1>1, <2>2, PrefixAgrees
  <2> QED
    BY <1>1, <2>1, <2>2, <2>3 DEF Truthful, Kept
<1> QED
  BY <1>2, <1>3 DEF Extends

\* A generator that did not move stands where it stood.
LEMMA PageStays ==
    ASSUME NEW s \in Segments, PageOK(s), pc'[s] = pc[s],
           cursor'[s] = cursor[s], item'[s] = item[s], Active' => Active
    PROVE  PageOK(s)'
BY DEF PageOK

\* Its items stay written.
LEMMA OnPageStays ==
    ASSUME NEW s \in Segments, OnPage(s), pc'[s] = pc[s],
           cursor'[s] = cursor[s], item'[s] = item[s],
           Prefix(output, bytes) \subseteq Prefix(output', bytes')
    PROVE  OnPage(s)'
<1>1. Done(s)' = Done(s)
  BY DEF Done
<1> QED
  BY <1>1 DEF OnPage

\* One generator moves, and the run and its output stay as they are.
Moves(s) ==
    /\ s \in Segments /\ run \in {"merging", "failing"}
    /\ UNCHANGED <<output, run, refused, bytes, stale, fresh, losses>>
    /\ \A t \in Segments \ {s} :
          pc'[t] = pc[t] /\ cursor'[t] = cursor[t] /\ item'[t] = item[t]

\* It is enough to look at that generator, and at the checkpoint it composed.
LEMMA OneGeneratorMoves ==
    ASSUME IInv, Typed', NEW s \in Segments, Moves(s), PageOK(s)',
           pc'[s] \in Appending =>
              \/ pc[s] \in Appending
              \/ Idle,
           ~stale /\ ~refused => Kept(output, cursor', bytes) /\ OnPage(s)',
           \A c \in Written' : c \in Written \/ RecordOK(c)'
    PROVE  IInv'
<1>1. RunOK'
  BY DEF IInv, RunOK, OneAppends, Moves, Active, Appending, Idle
<1>2. ASSUME NEW t \in Segments PROVE PageOK(t)'
  BY PageStays DEF IInv, Moves, Active
<1>3. ASSUME NEW c \in Written' PROVE RecordOK(c)'
  <2>1. c \in Written => c \in Records
    BY DEF Written, IInv, Typed
  <2> QED
    BY <2>1, RecordStays DEF IInv, Moves, Extends, Active
<1>4. OutputOK'
  <2>1. CASE ~stale /\ ~refused
    <3>1. Kept(output, cursor, bytes)' /\ OnPage(s)'
      BY <2>1 DEF Moves
    <3>2. ASSUME NEW t \in Segments PROVE OnPage(t)'
      BY <2>1, <3>1, OnPageStays DEF Moves, IInv, OutputOK, Active
    <3> QED
      BY <2>1, <3>1, <3>2 DEF Moves, IInv, OutputOK, Active
  <2> QED
    BY <2>1 DEF IInv, OutputOK, Moves, Active
<1>5. CompleteMeansWhole'
  BY DEF CompleteMeansWhole, Moves
<1> QED
  BY <1>1, <1>2, <1>3, <1>4, <1>5 DEF IInv

-----------------------------------------------------------------------------
(* The generators.                                                         *)

\* The page at a cursor has a number of items.
LEMMA CurrentPage ==
    ASSUME Typed, NEW s \in Segments, cursor[s] < Pages(s)
    PROVE  PageSizes[s][cursor[s] + 1] \in Nat
<1>1. Pages(s) \in Nat /\ cursor[s] \in Nat
  BY PagesAreNumbers DEF Typed, Cursors
<1>2. cursor[s] + 1 \in 1 .. Pages(s)
  BY <1>1
<1> QED
  BY <1>2, PagesAreNumbers

\* The cursor stays on the table.
LEMMA CursorMoves ==
    ASSUME Typed, NEW s \in Segments, cursor[s] < Pages(s),
           cursor' = [cursor EXCEPT ![s] = @ + 1]
    PROVE  cursor' \in Cursors /\ cursor'[s] = cursor[s] + 1
<1>1. Pages(s) \in Nat /\ cursor \in [Segments -> Nat]
  BY PagesAreNumbers DEF Typed, Cursors
<1>2. cursor' \in [Segments -> Nat] /\ cursor'[s] = cursor[s] + 1
  BY <1>1
<1>3. \A t \in Segments : cursor'[t] <= Pages(t)
  BY <1>1 DEF Typed, Cursors
<1> QED
  BY <1>2, <1>3 DEF Cursors

\* The checkpoint composed at the end of a page is true of the output.
LEMMA SnapshotIsTrue ==
    ASSUME IInv, Active, UNCHANGED <<output, run, refused, bytes, stale, fresh,
                                     losses>>,
           cursor' \in Cursors,
           ~stale /\ ~refused => Kept(output, cursor', bytes),
           NEW c, c = Snapshot
    PROVE  c \in Records /\ RecordOK(c)'
<1>1. /\ c.of = (IF stale THEN 0 ELSE fresh) /\ c.cursor = cursor'
      /\ c.bytes = bytes
  BY DEF Snapshot
<1>2. bytes \in Nat /\ fresh \in Nat /\ fresh >= 1 /\ Len(output) \in Nat
  BY LenProperties DEF IInv, Typed, RunOK, Active
<1>3. c \in Records
  BY <1>2 DEF Records, Snapshot
<1>4. Truthful(c)'
  BY <1>1, <1>2 DEF Truthful, IInv, OutputOK
<1> QED
  BY <1>1, <1>2, <1>3, <1>4 DEF RecordOK

\* A generator drains its page, all of which is in the output.
LEMMA EndPageIInv ==
    ASSUME IInv, NEW s \in Segments, EndPage(s), UNCHANGED item,
           UNCHANGED <<files, run, refused, bytes, stale, bounds>>,
           run \in {"merging", "failing"}, cursor[s] < Pages(s),
           ~stale /\ ~refused =>
              \A i \in 1 .. PageSizes[s][cursor[s] + 1] :
                 <<s, cursor[s] + 1, i>> \in Prefix(output, bytes)
    PROVE  IInv'
<1>1. Typed /\ Active /\ UNCHANGED <<output, checkpoint, fresh, losses>>
  BY DEF IInv, Active, files, bounds
<1>2. cursor' \in Cursors /\ cursor'[s] = cursor[s] + 1
  BY <1>1, CursorMoves DEF EndPage
<1>3. /\ pc' \in [Segments -> Places] /\ pc'[s] \in {"write", "done", "fetch"}
      /\ (pc'[s] = "done" => cursor'[s] = Pages(s))
      /\ (pc'[s] = "fetch" => cursor'[s] # Pages(s))
      /\ \A t \in Segments \ {s} : pc'[t] = pc[t] /\ cursor'[t] = cursor[t]
  <2>1. At(s) \in {"done", "fetch"} /\ (At(s) = "done" <=> cursor'[s] = Pages(s))
    BY DEF At
  <2>2. pc' = [pc EXCEPT ![s] = "write"] \/ pc' = [pc EXCEPT ![s] = At(s)]
    BY DEF EndPage
  <2> QED
    BY <1>1, <2>1, <2>2 DEF EndPage, Typed, Cursors, Places
<1>4. ~stale /\ ~refused => Kept(output, cursor', bytes)
  <2> SUFFICES ASSUME ~stale, ~refused PROVE Kept(output, cursor', bytes)
    OBVIOUS
  <2>1. Kept(output, cursor, bytes)
    BY <1>1 DEF IInv, OutputOK
  <2>2. /\ cursor \in Cursors /\ cursor'[s] = cursor[s] + 1
        /\ \A t \in Segments \ {s} : cursor'[t] = cursor[t]
        /\ Behind(cursor) \subseteq Prefix(output, bytes)
        /\ \A i \in 1 .. PageSizes[s][cursor[s] + 1] :
              <<s, cursor[s] + 1, i>> \in Prefix(output, bytes)
    BY <1>1, <1>2, <1>3, <2>1 DEF Kept, Typed
  <2>3. Behind(cursor') \subseteq Prefix(output, bytes)
    BY <2>2, BehindMoves
  <2> QED
    BY <2>1, <2>3 DEF Kept
<1>5. snapshot' = snapshot \/ snapshot' = [snapshot EXCEPT ![s] = Snapshot]
  BY DEF EndPage
<1>6. \A c : c = Snapshot => c \in Records /\ RecordOK(c)'
  BY <1>1, <1>2, <1>4, SnapshotIsTrue
<1>7. snapshot' \in [Segments -> Records]
  BY <1>1, <1>5, <1>6 DEF Typed
<1>8. \A c \in Written' : c \in Written \/ RecordOK(c)'
  BY <1>1, <1>5, <1>6 DEF Written, Typed
<1>9. Typed'
  BY <1>1, <1>2, <1>3, <1>7 DEF Typed
<1>10. PageOK(s)'
  <2>1. cursor'[s] \in Nat /\ cursor'[s] <= Pages(s) /\ Pages(s) \in Nat
    BY <1>2, PagesAreNumbers DEF Cursors
  <2> QED
    BY <1>3, <2>1 DEF PageOK, Appending
<1>11. OnPage(s)'
  BY <1>3 DEF OnPage, Done
<1>12. Moves(s)
  BY <1>1, <1>3 DEF Moves
<1> QED
  BY <1>3, <1>4, <1>8, <1>9, <1>10, <1>11, <1>12, OneGeneratorMoves DEF Appending

\* A generator offers an item, the ones before it being in the output.
LEMMA OfferIInv ==
    ASSUME IInv, NEW s \in Segments, NEW n \in Nat, Offer(s, n),
           UNCHANGED <<files, run, refused, bytes, stale, bounds>>,
           run \in {"merging", "failing"}, cursor[s] < Pages(s),
           n >= 1, n <= PageSizes[s][cursor[s] + 1],
           ~stale /\ ~refused =>
              \A i \in 1 .. (n - 1) :
                 <<s, cursor[s] + 1, i>> \in Prefix(output, bytes)
    PROVE  IInv'
<1>1. Typed /\ Active /\ UNCHANGED <<output, checkpoint, fresh, losses>>
  BY DEF IInv, Active, files, bounds
<1>2. Typed' /\ pc'[s] = "ready" /\ item'[s] = n
  BY <1>1 DEF Offer, Typed, Places
<1>3. Moves(s)
  BY <1>1 DEF Moves, Offer, Typed
<1>4. PageOK(s)'
  BY <1>2 DEF PageOK, Offer
<1>5. ~stale /\ ~refused => Kept(output, cursor', bytes) /\ OnPage(s)'
  BY <1>1, <1>2 DEF IInv, OutputOK, Offer, OnPage, Done
<1>6. Written' = Written
  BY <1>1 DEF Written, Offer
<1> QED
  BY <1>2, <1>3, <1>4, <1>5, <1>6, OneGeneratorMoves DEF Appending

\* A page is fetched.
LEMMA FetchPageIInv ==
    ASSUME IInv, NEW s \in Segments, FetchPage(s)
    PROVE  IInv'
<1>1. /\ run \in {"merging", "failing"} /\ cursor[s] < Pages(s)
      /\ UNCHANGED <<files, run, refused, bytes, stale, bounds>>
  BY DEF FetchPage, Alive, IInv, PageOK
<1>2. PageSizes[s][cursor[s] + 1] \in Nat
  BY <1>1, CurrentPage DEF IInv
<1>3. CASE PageSizes[s][cursor[s] + 1] = 0
  BY <1>1, <1>3, EndPageIInv DEF FetchPage
<1>4. CASE PageSizes[s][cursor[s] + 1] # 0
  <2>1. 1 <= PageSizes[s][cursor[s] + 1] /\ Offer(s, 1)
    BY <1>2, <1>4 DEF FetchPage
  <2> QED
    BY <1>1, <2>1, OfferIInv
<1> QED
  BY <1>3, <1>4

\* The next item of the page is pulled, or the page is drained.
LEMMA PullIInv ==
    ASSUME IInv, NEW s \in Segments, Pull(s)
    PROVE  IInv'
<1>1. /\ run = "merging" /\ pc[s] = "appended" /\ cursor[s] < Pages(s)
      /\ item[s] \in Nat /\ item[s] >= 1
      /\ item[s] <= PageSizes[s][cursor[s] + 1]
      /\ UNCHANGED <<files, run, refused, bytes, stale, bounds>>
  BY DEF Pull, IInv, PageOK, Appending, Typed
<1>2. PageSizes[s][cursor[s] + 1] \in Nat
  BY <1>1, CurrentPage DEF IInv
<1>3. ~stale /\ ~refused =>
         \A i \in 1 .. item[s] :
            <<s, cursor[s] + 1, i>> \in Prefix(output, bytes)
  BY <1>1 DEF IInv, OutputOK, Active, OnPage, Done
<1>4. CASE item[s] < PageSizes[s][cursor[s] + 1]
  <2>1. Offer(s, item[s] + 1)
    BY <1>4 DEF Pull
  <2>2. PICK n \in Nat : n = item[s] + 1
    BY <1>1
  <2>3. /\ Offer(s, n) /\ n >= 1 /\ n <= PageSizes[s][cursor[s] + 1]
        /\ 1 .. (n - 1) = 1 .. item[s]
    BY <1>1, <1>2, <1>4, <2>1, <2>2
  <2> QED
    BY <1>1, <1>3, <2>3, OfferIInv
<1>5. CASE ~(item[s] < PageSizes[s][cursor[s] + 1])
  <2>1. PageSizes[s][cursor[s] + 1] = item[s]
    BY <1>1, <1>2, <1>5
  <2> QED
    BY <1>1, <1>3, <1>5, <2>1, EndPageIInv DEF Pull
<1> QED
  BY <1>4, <1>5

\* A checkpoint replaces the last one.
LEMMA WriteCheckpointIInv ==
    ASSUME IInv, NEW s \in Segments, WriteCheckpoint(s)
    PROVE  IInv'
<1>1. /\ Typed /\ pc[s] = "write" /\ Moves(s)
      /\ UNCHANGED <<output, run, refused, bytes, cursor, item, snapshot, stale,
                     fresh, losses>>
  BY DEF WriteCheckpoint, Alive, Moves, IInv, Typed, bounds
<1>2. /\ Typed'
      /\ pc'[s] = IF cursor[s] = Pages(s) THEN "done" ELSE "fetch"
  BY <1>1 DEF WriteCheckpoint, Typed, Places
<1>3. PageOK(s)'
  <2>1. cursor[s] <= Pages(s) /\ cursor[s] \in Nat /\ Pages(s) \in Nat
    BY <1>1, PagesAreNumbers DEF Typed, Cursors
  <2> QED
    BY <1>1, <1>2, <2>1 DEF PageOK, Appending
<1>4. OnPage(s)'
  BY <1>2 DEF OnPage, Done
<1>5. Written' \subseteq Written
  BY <1>1 DEF WriteCheckpoint, Written
<1>6. ~stale /\ ~refused => Kept(output, cursor', bytes)
  BY <1>1 DEF IInv, OutputOK, Active, Moves
<1> QED
  BY <1>1, <1>2, <1>3, <1>4, <1>5, <1>6, OneGeneratorMoves DEF Appending

\* A page cannot be fetched, or a checkpoint not be written.
LEMMA GeneratorFailsIInv ==
    ASSUME IInv, NEW s \in Segments, GeneratorFails(s)
    PROVE  IInv'
<1>1. /\ Typed /\ pc'[s] = "failed" /\ Moves(s) /\ Typed'
      /\ UNCHANGED <<checkpoint, cursor, snapshot>>
  BY DEF GeneratorFails, Alive, Moves, IInv, Typed, Places, files
<1>2. PageOK(s)' /\ OnPage(s)'
  BY <1>1 DEF PageOK, Appending, OnPage, Done
<1>3. Written' = Written
  BY <1>1 DEF Written
<1>4. ~stale /\ ~refused => Kept(output, cursor', bytes)
  BY <1>1 DEF IInv, OutputOK, Active, Moves
<1> QED
  BY <1>1, <1>2, <1>3, <1>4, OneGeneratorMoves DEF Appending

\* The merge takes an item.
LEMMA TakeIInv ==
    ASSUME IInv, NEW s \in Segments, Take(s)
    PROVE  IInv'
<1>1. /\ Typed /\ pc[s] = "ready" /\ pc'[s] = "append" /\ Idle /\ Moves(s)
      /\ Typed' /\ UNCHANGED <<output, bytes, checkpoint, cursor, item, snapshot>>
  BY DEF Take, Idle, Moves, IInv, Typed, Places, files, bounds
<1>2. PageOK(s)'
  BY <1>1 DEF IInv, PageOK, Appending
<1>3. ~stale /\ ~refused => Kept(output, cursor', bytes) /\ OnPage(s)'
  BY <1>1 DEF IInv, OutputOK, Active, Moves, OnPage, Done
<1>4. Written' = Written
  BY <1>1 DEF Written
<1> QED
  BY <1>1, <1>2, <1>3, <1>4, OneGeneratorMoves

-----------------------------------------------------------------------------
(* Appending.                                                              *)

\* The item at the front of a generator is a line, and not a torn one.
LEMMA ItemIsALine ==
    ASSUME Typed, NEW s \in Segments, item[s] >= 1
    PROVE  Item(s) \in Lines /\ Item(s) # Torn
<1>1. cursor[s] + 1 \in Nat /\ item[s] \in Nat /\ item[s] # 0
  BY DEF Typed, Cursors
<1> QED
  BY <1>1 DEF Item, Lines, Torn

\* An item joins the lines that are written.
LEMMA AppendItemIInv ==
    ASSUME IInv, NEW s \in Segments, AppendItem(s)
    PROVE  IInv'
<1>1. /\ Typed /\ pc[s] = "append" /\ ~refused /\ run = "merging"
      /\ item[s] >= 1 /\ item[s] \in Nat
      /\ output' = Append(output, Item(s)) /\ bytes' = bytes + 1
      /\ pc' = [pc EXCEPT ![s] = "appended"]
      /\ UNCHANGED <<checkpoint, run, refused, cursor, item, snapshot, stale,
                     fresh, losses>>
  BY DEF AppendItem, IInv, RunOK, OneAppends, PageOK, Appending, Typed, bounds
<1>2. Item(s) \in Lines /\ Item(s) # Torn
  BY <1>1, ItemIsALine
<1>3. /\ output' \in Seq(Lines) /\ Len(output') = Len(output) + 1
      /\ Prefix(output', Len(output) + 1)
            = Prefix(output, Len(output)) \cup {Item(s)}
  BY <1>1, <1>2, AppendGrows DEF Typed
<1>4. Typed'
  BY <1>1, <1>3 DEF Typed, Places
<1>5. /\ pc'[s] = "appended"
      /\ \A t \in Segments \ {s} : pc'[t] = pc[t] /\ pc[t] \notin Appending
  BY <1>1 DEF Typed, IInv, RunOK, OneAppends, Appending
<1>6. RunOK'
  BY <1>1, <1>5 DEF IInv, RunOK, OneAppends, Active, Appending
<1>7. ASSUME NEW t \in Segments PROVE PageOK(t)'
  <2>1. CASE t = s
    BY <1>1, <1>5, <2>1 DEF IInv, PageOK, Appending
  <2>2. CASE t # s
    BY <1>1, <1>5, <2>2, PageStays DEF IInv, Active
  <2> QED
    BY <2>1, <2>2
<1>8. ASSUME NEW c \in Written' PROVE RecordOK(c)'
  <2>1. c \in Written /\ c \in Records
    BY <1>1 DEF Written, Typed
  <2>2. Extends
    BY <1>1, <1>2 DEF Extends, Active
  <2> QED
    BY <1>1, <2>1, <2>2, RecordStays DEF IInv, Active
<1>9. OutputOK'
  <2> SUFFICES ASSUME ~stale PROVE OutputOK'
    BY <1>1 DEF OutputOK
  <2>1. /\ bytes = Len(output) /\ Kept(output, cursor, bytes)
        /\ \A t \in Segments : OnPage(t)
    BY <1>1 DEF IInv, OutputOK, Active
  <2>2. Prefix(output', bytes') = Prefix(output, bytes) \cup {Item(s)}
    BY <1>1, <1>3, <2>1
  <2>3. Kept(output', cursor', bytes')
    BY <1>1, <1>2, <2>1, <2>2 DEF Kept
  <2>4. ASSUME NEW t \in Segments PROVE OnPage(t)'
    <3>1. CASE t = s
      <4>1. Done(s)' = item[s] /\ Done(s) = item[s] - 1
        BY <1>1, <1>5 DEF Done
      <4>2. ASSUME NEW i \in 1 .. item[s]
            PROVE  <<s, cursor[s] + 1, i>> \in Prefix(output', bytes')
        <5>1. i \in 1 .. (item[s] - 1) \/ i = item[s]
          BY <1>1
        <5> QED
          BY <2>1, <2>2, <4>1, <5>1 DEF OnPage, Item
      <4> QED
        BY <1>1, <3>1, <4>1, <4>2 DEF OnPage
    <3>2. CASE t # s
      BY <1>1, <1>5, <2>1, <2>2, <3>2, OnPageStays
    <3> QED
      BY <3>1, <3>2
  <2> QED
    BY <1>1, <1>3, <2>1, <2>3, <2>4 DEF OutputOK
<1>10. CompleteMeansWhole'
  BY <1>1 DEF CompleteMeansWhole
<1> QED
  BY <1>4, <1>6, <1>7, <1>8, <1>9, <1>10 DEF IInv

\* A line cannot be written: the run fails, and what it had written stays.
LEMMA AppendFailsIInv ==
    ASSUME IInv, NEW s \in Segments, AppendFails(s)
    PROVE  IInv'
<1>1. /\ Typed /\ pc[s] = "append" /\ run = "merging" /\ run' = "failing"
      /\ pc' = [pc EXCEPT ![s] = "failed"]
      /\ UNCHANGED <<checkpoint, refused, bytes, cursor, item, snapshot, stale,
                     fresh, losses>>
  BY DEF AppendFails, IInv, RunOK, OneAppends, Appending, Typed, bounds
<1>2. output' = output \/ (~refused /\ output' = Append(output, Torn))
  BY DEF AppendFails
<1>3. Torn \in Lines
  BY DEF Lines
<1>4. /\ output' \in Seq(Lines) /\ Len(output') >= Len(output)
      /\ Len(output) \in Nat
      /\ \A k \in 1 .. Len(output) : output'[k] = output[k]
  <2>1. output \in Seq(Lines) /\ Len(output) \in Nat
    BY <1>1, LenProperties DEF Typed
  <2>2. CASE output' = output
    BY <2>1, <2>2
  <2>3. CASE output' = Append(output, Torn)
    BY <1>3, <2>1, <2>3, AppendGrows
  <2> QED
    BY <1>2, <2>2, <2>3
<1>5. Typed'
  BY <1>1, <1>4 DEF Typed, Places
<1>6. /\ pc'[s] = "failed"
      /\ \A t \in Segments \ {s} : pc'[t] = pc[t] /\ pc[t] \notin Appending
  BY <1>1 DEF Typed, IInv, RunOK, OneAppends, Appending
<1>7. RunOK'
  BY <1>1, <1>6 DEF IInv, RunOK, OneAppends, Active, Appending
<1>8. ASSUME NEW t \in Segments PROVE PageOK(t)'
  <2>1. CASE t = s
    BY <1>6, <2>1 DEF PageOK, Appending
  <2>2. CASE t # s
    BY <1>1, <1>6, <2>2, PageStays DEF IInv, Active
  <2> QED
    BY <2>1, <2>2
<1>9. ASSUME NEW c \in Written' PROVE RecordOK(c)'
  <2>1. c \in Written /\ c \in Records
    BY <1>1 DEF Written, Typed
  <2>2. Extends
    BY <1>1, <1>2, <1>3 DEF Extends, Active
  <2> QED
    BY <1>1, <2>1, <2>2, RecordStays DEF IInv, Active
<1>10. OutputOK'
  <2> SUFFICES ASSUME ~stale PROVE OutputOK'
    BY <1>1 DEF OutputOK
  <2>1. CASE refused
    BY <1>1, <1>2, <2>1 DEF IInv, OutputOK, Active
  <2>2. CASE ~refused
    <3>1. /\ bytes <= Len(output) /\ Kept(output, cursor, bytes)
          /\ \A t \in Segments : OnPage(t)
      BY <1>1, <2>2 DEF IInv, OutputOK, Active
    <3>2. Prefix(output', bytes') = Prefix(output, bytes)
      BY <1>1, <1>4, <3>1, PrefixAgrees DEF Typed
    <3>3. ASSUME NEW t \in Segments PROVE OnPage(t)'
      <4>1. CASE t = s
        BY <1>6, <4>1 DEF OnPage, Done
      <4>2. CASE t # s
        BY <1>1, <1>6, <3>1, <3>2, <4>2, OnPageStays
      <4> QED
        BY <4>1, <4>2
    <3>4. Kept(output', cursor', bytes') /\ bytes' <= Len(output')
      BY <1>1, <1>4, <3>1, <3>2 DEF Kept, Typed
    <3> QED
      BY <1>1, <2>2, <3>3, <3>4 DEF OutputOK
  <2> QED
    BY <2>1, <2>2
<1>11. CompleteMeansWhole'
  BY <1>1 DEF CompleteMeansWhole
<1> QED
  BY <1>5, <1>7, <1>8, <1>9, <1>10, <1>11 DEF IInv

-----------------------------------------------------------------------------
(* Ending.                                                                 *)

\* No checkpoint claims anything.
LEMMA NoCheckpointIsOK ==
    Typed /\ (stale => fresh >= 1) =>
       NoCheckpoint \in Records /\ RecordOK(NoCheckpoint)
<1> SUFFICES ASSUME Typed, stale => fresh >= 1
             PROVE  NoCheckpoint \in Records /\ RecordOK(NoCheckpoint)
  OBVIOUS
<1>1. [s \in Segments |-> 0] \in Cursors
  BY PagesAreNumbers DEF Cursors
<1>2. /\ NoCheckpoint.of = 0 /\ NoCheckpoint.bytes = -1
      /\ NoCheckpoint.cursor = [s \in Segments |-> 0]
  BY DEF NoCheckpoint
<1>3. NoCheckpoint \in Records
  BY <1>1 DEF Records, NoCheckpoint
<1> QED
  BY <1>2, <1>3 DEF RecordOK, Truthful, Typed

\* The merge stops: on a failed generator, or with nothing left to merge.
LEMMA MergeStopsIInv ==
    ASSUME IInv, MergeThrows \/ DeleteCheckpoint \/ DeleteFails
    PROVE  IInv'
<1>1. /\ Typed /\ run = "merging" /\ run' \in {"failing", "closing"}
      /\ UNCHANGED <<output, refused, bytes, cursor, pc, item, snapshot, stale,
                     fresh, losses>>
      /\ checkpoint' \in {checkpoint, NoCheckpoint}
      /\ \A s \in Segments : pc[s] \notin Appending
      /\ run' = "closing" => \A s \in Segments : pc[s] = "done"
  BY DEF IInv, MergeThrows, DeleteCheckpoint, DeleteFails, Idle, Appending,
         generators, files, bounds
<1>2. NoCheckpoint \in Records /\ RecordOK(NoCheckpoint)
  BY <1>1, NoCheckpointIsOK DEF IInv, RunOK
<1>3. Typed'
  BY <1>1, <1>2 DEF Typed
<1>4. RunOK'
  BY <1>1 DEF IInv, RunOK, OneAppends, Active
<1>5. ASSUME NEW s \in Segments PROVE PageOK(s)'
  BY <1>1, PageStays DEF IInv, Active
<1>6. ASSUME NEW c \in Written' PROVE RecordOK(c)'
  <2>1. c \in Records /\ RecordOK(c)
    BY <1>1, <1>2 DEF Written, IInv, Typed
  <2> QED
    BY <1>1, <2>1, RecordStays DEF Extends, Active
<1>7. OutputOK'
  <2>1. ASSUME NEW s \in Segments, OnPage(s) PROVE OnPage(s)'
    BY <1>1, <2>1, OnPageStays
  <2> QED
    BY <1>1, <2>1 DEF IInv, OutputOK, Active
<1>8. CompleteMeansWhole'
  BY <1>1 DEF CompleteMeansWhole
<1> QED
  BY <1>3, <1>4, <1>5, <1>6, <1>7, <1>8 DEF IInv

\* A run that is over has no generators left, and its checkpoints stand.
LEMMA RunIsOver ==
    ASSUME IInv, NEW o \in {"complete", "dead"}, Over(o), run # "none",
           output' \in Seq(Lines), fresh' = fresh, losses' \in Nat,
           \A c \in Written : RecordOK(c)', CompleteMeansWhole'
    PROVE  IInv'
<1>1. /\ run' = o /\ ~refused' /\ bytes' = 0
      /\ pc' = [s \in Segments |-> "done"]
      /\ UNCHANGED <<checkpoint, cursor, item, snapshot, stale>>
  BY DEF Over
<1>2. Typed'
  <2>1. refused' \in BOOLEAN
    BY DEF Over
  <2> QED
    BY <1>1, <2>1 DEF IInv, Typed, Places
<1>3. ~Active'
  BY <1>1 DEF Active
<1>4. RunOK'
  BY <1>1, <1>3 DEF IInv, RunOK, OneAppends, Appending
<1>5. \A s \in Segments : PageOK(s)'
  BY <1>1, <1>3 DEF PageOK, Appending
<1>6. Written' = Written
  BY <1>1 DEF Written
<1> QED
  BY <1>2, <1>3, <1>4, <1>5, <1>6 DEF IInv, OutputOK

\* A run that fails exits.
LEMMA ExitIInv == IInv /\ Exit => IInv'
<1> SUFFICES ASSUME IInv, Exit PROVE IInv'
  OBVIOUS
<1>1. /\ Typed /\ Over("dead") /\ run # "none" /\ run' = "dead" /\ Active
      /\ UNCHANGED <<output, fresh, losses, stale>>
  BY DEF IInv, Exit, Over, bounds, Active
<1>2. ASSUME NEW c \in Written PROVE RecordOK(c)'
  BY <1>1, RecordStays DEF IInv, Written, Typed, Extends, Active
<1>3. CompleteMeansWhole'
  BY <1>1 DEF CompleteMeansWhole
<1> QED
  BY <1>1, <1>2, <1>3, RunIsOver DEF Typed

\* A run that closes well has drained every segment into the output.
LEMMA CloseIInv == IInv /\ Close => IInv'
<1> SUFFICES ASSUME IInv, Close PROVE IInv'
  OBVIOUS
<1>1. PICK o \in {"complete", "dead"} :
         o = (IF refused THEN "dead" ELSE "complete") /\ Over(o)
  BY DEF Close
<1>2. /\ Typed /\ run = "closing" /\ run' = o /\ Active /\ ~Active'
      /\ UNCHANGED <<output, fresh, losses, stale>>
  BY <1>1 DEF IInv, Close, Over, bounds, Active
<1>3. ASSUME NEW c \in Written PROVE RecordOK(c)'
  BY <1>2, RecordStays DEF IInv, Written, Typed, Extends
<1>4. CompleteMeansWhole'
  <2> SUFFICES ASSUME o = "complete", ~stale
               PROVE  Whole(output, [s \in Segments |-> Pages(s)])
    BY <1>2 DEF CompleteMeansWhole
  <2>1. bytes = Len(output) /\ Kept(output, cursor, bytes)
    BY <1>1, <1>2 DEF IInv, OutputOK
  <2>2. \A s \in Segments : cursor[s] = Pages(s)
    BY <1>2 DEF IInv, RunOK, PageOK
  <2>3. cursor = [s \in Segments |-> Pages(s)]
    BY <1>2, <2>2 DEF Typed, Cursors
  <2>4. Range(output) = Prefix(output, bytes)
    BY <1>2, <2>1, PrefixOfAll DEF Typed
  <2> QED
    BY <2>1, <2>3, <2>4 DEF Kept, Whole
<1> QED
  BY <1>1, <1>2, <1>3, <1>4, RunIsOver DEF Typed

\* What a kill leaves of an append under way is the output, or a line more.
LEMMA CutShortExtends ==
    ASSUME IInv, output' \in CutShort, run \in {"merging", "failing", "closing"}
    PROVE  Extends
<1>1. CASE output' = output
  BY <1>1 DEF Extends
<1>2. ASSUME NEW s \in Segments, pc[s] = "append", ~refused,
             output' \in {Append(output, Item(s)), Append(output, Torn)}
      PROVE  Extends
  <2>1. Item(s) \in Lines
    BY <1>2, ItemIsALine DEF IInv, PageOK, Appending
  <2>2. Torn \in Lines
    BY DEF Lines
  <2> QED
    BY <1>2, <2>1, <2>2 DEF Extends, Active
<1> QED
  BY <1>1, <1>2 DEF CutShort

\* The end of the output is lost: a checkpoint holds what is left, or is
\* known to be ahead.
LEMMA RecordCut ==
    ASSUME Typed, NEW c \in Records, RecordOK(c), NEW n \in Nat,
           n < Len(output), output' = SubSeq(output, 1, n),
           fresh' = fresh, losses' > 0, stale' = stale, ~Active'
    PROVE  RecordOK(c)'
<1> SUFFICES ASSUME c # NoCheckpoint, c.of = fresh, Truthful(c) PROVE Truthful(c)'
  BY DEF RecordOK, Truthful
<1>1. c.bytes \in Nat /\ Len(output) \in Nat
  BY LenProperties DEF RecordOK, Records, Typed
<1>2. Len(output') = n /\ \A k \in 1 .. n : output'[k] = output[k]
  BY <1>1, PrefixIsRange DEF Typed
<1>3. CASE c.bytes > n
  BY <1>1, <1>2, <1>3 DEF Truthful
<1>4. CASE c.bytes <= n
  <2>1. Kept(output, c.cursor, c.bytes)
    BY <1>1, <1>4 DEF Truthful
  <2>2. \A k \in 1 .. c.bytes : output'[k] = output[k]
    BY <1>1, <1>2, <1>4
  <2>3. Prefix(output', c.bytes) = Prefix(output, c.bytes)
    BY <1>1, <2>2, PrefixAgrees
  <2> QED
    BY <1>2, <1>4, <2>1, <2>3 DEF Truthful, Kept
<1> QED
  BY <1>1, <1>3, <1>4

\* A run is killed.
LEMMA CrashIInv == IInv /\ Crash => IInv'
<1> SUFFICES ASSUME IInv, Crash PROVE IInv'
  OBVIOUS
<1>1. /\ Typed /\ Over("dead") /\ run # "none" /\ Active /\ ~Active'
      /\ fresh' = fresh /\ stale' = stale /\ output \in Seq(Lines)
      /\ CompleteMeansWhole'
  BY DEF IInv, Typed, Crash, Over, Active, CompleteMeansWhole
<1>2. CASE output' \in CutShort /\ losses' = losses
  <2>1. Extends
    BY <1>2, CutShortExtends DEF Crash
  <2>2. output' \in Seq(Lines)
    BY <1>1, <2>1, AppendGrows DEF Extends
  <2>3. ASSUME NEW c \in Written PROVE RecordOK(c)'
    BY <1>1, <1>2, <2>1, RecordStays DEF IInv, Written, Typed
  <2> QED
    BY <1>1, <1>2, <2>2, <2>3, RunIsOver DEF Typed
<1>3. ASSUME losses' = losses + 1, NEW n \in 0 .. (Len(output) - 1),
             output' = SubSeq(output, 1, n)
      PROVE  IInv'
  <2>1. n \in Nat /\ n < Len(output) /\ losses' \in Nat /\ losses' > 0
    BY <1>1, <1>3, LenProperties DEF Typed
  <2>2. output' \in Seq(Lines)
    BY <1>1, <1>3, <2>1, PrefixIsRange, LenProperties
  <2>3. ASSUME NEW c \in Written PROVE RecordOK(c)'
    BY <1>1, <1>3, <2>1, RecordCut DEF IInv, Written, Typed
  <2> QED
    BY <1>1, <2>1, <2>2, <2>3, RunIsOver
<1> QED
  BY <1>2, <1>3 DEF Crash

-----------------------------------------------------------------------------
(* Starting.                                                               *)

\* A run that begins has its generators at the start of a page, or done.
LEMMA BeginsOnPages ==
    ASSUME Typed, NEW c \in Cursors, NEW n \in Nat, NEW short \in BOOLEAN,
           Begin(c, n, short)
    PROVE  /\ refused' \in BOOLEAN
           /\ run' = "merging" /\ Active' /\ bytes' = n /\ cursor' = c
           /\ pc' \in [Segments -> Places] /\ item' \in [Segments -> Nat]
           /\ \A s \in Segments : pc'[s] \in {"done", "fetch"}
           /\ OneAppends'
           /\ \A s \in Segments : PageOK(s)' /\ OnPage(s)'
<1>1. /\ run' = "merging" /\ bytes' = n /\ cursor' = c
      /\ pc' = [s \in Segments |-> At(s)] /\ item' = [s \in Segments |-> 0]
  BY DEF Begin
<1>2. refused' \in BOOLEAN
  BY DEF Begin
<1>3. ASSUME NEW s \in Segments
      PROVE  /\ pc'[s] \in {"done", "fetch"}
             /\ pc'[s] = "done" => cursor'[s] = Pages(s)
             /\ pc'[s] = "fetch" => cursor'[s] < Pages(s)
  <2>1. cursor'[s] \in Nat /\ cursor'[s] <= Pages(s) /\ Pages(s) \in Nat
    BY <1>1, PagesAreNumbers DEF Cursors
  <2> QED
    BY <1>1, <2>1 DEF At
<1>4. ASSUME NEW s \in Segments PROVE PageOK(s)' /\ OnPage(s)'
  BY <1>3 DEF PageOK, OnPage, Done, Appending
<1>5. OneAppends'
  BY <1>1, <1>3 DEF OneAppends, Appending
<1> QED
  BY <1>1, <1>2, <1>3, <1>4, <1>5 DEF Active, Places

\* A fresh run empties the output; an old checkpoint says nothing of it.
LEMMA StartFreshIInv == IInv /\ StartFresh => IInv'
<1> SUFFICES ASSUME IInv, StartFresh PROVE IInv'
  OBVIOUS
<1> DEFINE zero == [s \in Segments |-> 0]
<1>1. /\ Typed /\ Begin(zero, 0, FALSE) /\ fresh' = fresh + 1
      /\ stale' = FALSE /\ UNCHANGED <<checkpoint, losses>>
  BY DEF IInv, StartFresh
<1>2. zero \in Cursors
  BY PagesAreNumbers DEF Cursors
<1>3. /\ refused' \in BOOLEAN
      /\ run' = "merging" /\ Active' /\ bytes' = 0 /\ cursor' = zero
      /\ pc' \in [Segments -> Places] /\ item' \in [Segments -> Nat]
      /\ OneAppends'
      /\ \A s \in Segments : PageOK(s)' /\ OnPage(s)'
  BY <1>1, <1>2, BeginsOnPages
<1>4. output' = SubSeq(output, 1, 0) /\ ~refused'
  BY <1>1 DEF Begin
<1>5. output' \in Seq(Lines) /\ Len(output') = 0
  BY <1>1, <1>4, PrefixIsRange, LenProperties DEF Typed
<1>6. NoCheckpoint \in Records /\ snapshot' = [s \in Segments |-> NoCheckpoint]
  BY <1>1, NoCheckpointIsOK DEF IInv, RunOK, Begin
<1>7. Typed'
  <2>1. stale' \in BOOLEAN /\ refused' \in BOOLEAN
    BY <1>1, <1>3
  <2>2. fresh' \in Nat /\ losses' \in Nat /\ checkpoint' \in Records
    BY <1>1 DEF Typed
  <2>3. snapshot' \in [Segments -> Records]
    BY <1>6
  <2> QED
    BY <1>2, <1>3, <1>5, <2>1, <2>2, <2>3 DEF Typed
<1>8. RunOK'
  BY <1>1, <1>3 DEF RunOK, Typed
<1>9. OutputOK'
  <2>1. Prefix(output', 0) = {}
    BY DEF Prefix
  <2>2. Kept(output', zero, 0)
    BY <2>1, NothingBehind DEF Kept
  <2> QED
    BY <1>3, <1>4, <1>5, <2>2 DEF OutputOK
<1>10. ASSUME NEW c \in Written' PROVE RecordOK(c)'
  <2>1. c = checkpoint \/ c = NoCheckpoint
    BY <1>1, <1>6 DEF Written
  <2>2. c.of \in Nat /\ c.of <= fresh /\ (c # NoCheckpoint => c.bytes >= 0)
    BY <1>1, <1>6, <2>1, NoCheckpointIsOK
    DEF IInv, RunOK, Written, RecordOK, Typed, Records
  <2> QED
    BY <1>1, <2>2 DEF RecordOK, Truthful, Typed
<1>11. CompleteMeansWhole'
  BY <1>3 DEF CompleteMeansWhole
<1> QED
  BY <1>3, <1>7, <1>8, <1>9, <1>10, <1>11 DEF IInv

\* A resumed run keeps what its checkpoint says, or refuses an output that is
\* shorter than it says.
LEMMA ResumeIInv == IInv /\ Resume => IInv'
<1> SUFFICES ASSUME IInv, Resume PROVE IInv'
  OBVIOUS
<1>0. PICK k, n : k = checkpoint /\ n = checkpoint.bytes
  OBVIOUS
<1> DEFINE short == Len(output) < n
<1>1. /\ Typed /\ k # NoCheckpoint /\ k \in Records
      /\ Begin(k.cursor, n, short) /\ RecordOK(k)
      /\ stale' = (k.of # fresh) /\ n = k.bytes /\ short \in BOOLEAN
      /\ checkpoint' = k /\ UNCHANGED <<fresh, losses>>
  BY <1>0 DEF IInv, Typed, Resume, bounds, Written
<1>2. /\ n \in Nat /\ k.cursor \in Cursors /\ fresh >= 1
      /\ Len(output) \in Nat /\ output \in Seq(Lines)
  BY <1>1, LenProperties DEF RecordOK, Records, Typed
<1>3. /\ refused' \in BOOLEAN
      /\ run' = "merging" /\ Active' /\ bytes' = n
      /\ cursor' = k.cursor
      /\ pc' \in [Segments -> Places] /\ item' \in [Segments -> Nat]
      /\ OneAppends'
      /\ \A s \in Segments : PageOK(s)' /\ OnPage(s)'
  BY <1>1, <1>2, BeginsOnPages
<1>4. /\ short => output' = output
      /\ ~short => /\ output' \in Seq(Lines) /\ Len(output') = n
                   /\ \A i \in 1 .. n : output'[i] = output[i]
  <2>1. ~short => n <= Len(output) /\ output' = SubSeq(output, 1, n)
    BY <1>0, <1>1, <1>2 DEF Begin
  <2> QED
    BY <1>1, <1>2, <2>1, PrefixIsRange DEF Begin
<1>5. (short => refused') /\ (refused' => short)
  BY <1>1 DEF Begin
<1>6. NoCheckpoint \in Records /\ snapshot' = [s \in Segments |-> NoCheckpoint]
  BY <1>1, NoCheckpointIsOK DEF IInv, RunOK, Begin
<1>7. Typed'
  <2>1. stale' \in BOOLEAN /\ refused' \in BOOLEAN
    BY <1>1, <1>3
  <2>2. fresh' \in Nat /\ losses' \in Nat /\ checkpoint' \in Records
    BY <1>1 DEF Typed
  <2>3. snapshot' \in [Segments -> Records] /\ output' \in Seq(Lines)
    BY <1>2, <1>4, <1>6
  <2> QED
    BY <1>2, <1>3, <2>1, <2>2, <2>3 DEF Typed
<1>8. RunOK'
  BY <1>1, <1>2, <1>3 DEF RunOK
<1>9. k.of = fresh =>
         \/ short /\ losses > 0
         \/ ~short /\ Kept(output', k.cursor, n)
  <2> SUFFICES ASSUME k.of = fresh, ~(short /\ losses > 0)
               PROVE  ~short /\ Kept(output', k.cursor, n)
    OBVIOUS
  <2>1. ~short /\ Kept(output, k.cursor, n)
    BY <1>0, <1>1, <1>2 DEF RecordOK, Truthful
  <2>2. Prefix(output', n) = Prefix(output, n)
    BY <1>2, <1>4, <2>1, PrefixAgrees
  <2> QED
    BY <2>1, <2>2 DEF Kept
<1>10. OutputOK'
  <2> SUFFICES ASSUME ~stale' PROVE OutputOK'
    BY DEF OutputOK
  <2>1. k.of = fresh
    BY <1>1
  <2>2. CASE short
    BY <1>1, <1>2, <1>3, <1>4, <1>5, <1>9, <2>1, <2>2 DEF OutputOK
  <2>3. CASE ~short
    BY <1>1, <1>2, <1>3, <1>4, <1>5, <1>9, <2>1, <2>3 DEF OutputOK
  <2> QED
    BY <2>2, <2>3
<1>11. ASSUME NEW c \in Written' PROVE RecordOK(c)'
  <2>1. CASE c = NoCheckpoint
    <3>1. c.of = 0 /\ fresh' >= 1 /\ fresh' \in Nat
      BY <1>1, <1>2, <1>7, <2>1 DEF NoCheckpoint, Typed
    <3> QED
      BY <2>1, <3>1 DEF RecordOK, Truthful
  <2>2. CASE c = k
    <3>1. Truthful(c)'
      BY <1>1, <1>2, <1>3, <1>4, <1>5, <1>9, <2>2 DEF Truthful
    <3> QED
      BY <1>1, <1>2, <2>2, <3>1 DEF RecordOK
  <2> QED
    BY <1>1, <1>6, <2>1, <2>2 DEF Written
<1>12. CompleteMeansWhole'
  BY <1>3 DEF CompleteMeansWhole
<1> QED
  BY <1>3, <1>7, <1>8, <1>10, <1>11, <1>12 DEF IInv

-----------------------------------------------------------------------------
(* The invariant.                                                          *)

\* There is nothing at first.
LEMMA InitIInv == Init => IInv
<1> SUFFICES ASSUME Init PROVE IInv
  OBVIOUS
<1> DEFINE zero == [s \in Segments |-> 0]
<1>1. zero \in Cursors /\ NoCheckpoint \in Records
  <2>1. zero \in Cursors
    BY PagesAreNumbers DEF Cursors
  <2> QED
    BY <2>1 DEF Records, NoCheckpoint
<1>2. output \in Seq(Lines)
  BY EmptySeq DEF Init
<1>3. Typed
  <2>1. refused \in BOOLEAN /\ stale \in BOOLEAN
    BY DEF Init
  <2> QED
    BY <1>1, <1>2, <2>1 DEF Init, Typed, Places
<1>4. RunOK /\ OutputOK /\ \A s \in Segments : PageOK(s)
  BY DEF Init, RunOK, OneAppends, OutputOK, PageOK, Active, Appending
<1>5. RecordOK(NoCheckpoint)
  BY <1>3, NoCheckpointIsOK DEF Init
<1>6. \A c \in Written : c = NoCheckpoint
  BY DEF Init, Written
<1>7. CompleteMeansWhole
  BY DEF Init, CompleteMeansWhole
<1> QED
  BY <1>3, <1>4, <1>5, <1>6, <1>7 DEF IInv

\* Every step keeps the invariant.
LEMMA NextIInv == IInv /\ [Next]_vars => IInv'
<1> SUFFICES ASSUME IInv, [Next]_vars PROVE IInv'
  OBVIOUS
<1>1. CASE UNCHANGED vars
  <2>1. Typed' /\ RunOK'
    BY <1>1 DEF vars, IInv, Typed, RunOK, OneAppends, Active
  <2>2. OutputOK'
    BY <1>1 DEF vars, IInv, OutputOK, Active, OnPage, Done
  <2>3. ASSUME NEW c \in Written' PROVE RecordOK(c)'
    BY <1>1 DEF vars, IInv, Written, RecordOK, Truthful, Active
  <2>4. \A s \in Segments : PageOK(s)'
    BY <1>1 DEF vars, IInv, PageOK, Active
  <2>5. CompleteMeansWhole'
    BY <1>1 DEF vars, IInv, CompleteMeansWhole
  <2> QED
    BY <2>1, <2>2, <2>3, <2>4, <2>5 DEF IInv
<1>2. CASE Next
  BY <1>2, StartFreshIInv, ResumeIInv, FetchPageIInv, WriteCheckpointIInv,
     GeneratorFailsIInv, TakeIInv, AppendItemIInv, AppendFailsIInv, PullIInv,
     MergeStopsIInv, CloseIInv, ExitIInv, CrashIInv
  DEF Next
<1> QED
  BY <1>1, <1>2

\* The invariant holds in every reachable state.
THEOREM AlwaysIInv == Spec => []IInv
BY InitIInv, NextIInv, PTL DEF Spec

\* Whenever a run is killed, the part of the output a resumption keeps holds
\* every item its checkpoint says is done, and no torn line: whichever
\* segment wrote it, in whatever order the writes finished, and through any
\* number of failures, kills and resumptions.
THEOREM CheckpointIsNeverAhead == Spec => []CheckpointIsBehindTheOutput
<1>1. IInv => CheckpointIsBehindTheOutput
  <2> SUFFICES ASSUME IInv, checkpoint # NoCheckpoint, checkpoint.of = fresh
               PROVE  \/ /\ checkpoint.bytes <= Len(output)
                         /\ Whole(SubSeq(output, 1, checkpoint.bytes),
                                  checkpoint.cursor)
                      \/ /\ losses > 0
                         /\ checkpoint.bytes > Len(output)
    BY DEF CheckpointIsBehindTheOutput
  <2>1. checkpoint.bytes \in Nat /\ Truthful(checkpoint)
    BY DEF IInv, Written, RecordOK, Typed, Records
  <2>2. output \in Seq(Lines)
    BY DEF IInv, Typed
  <2> QED
    BY <2>1, <2>2, WholeIsKept DEF Truthful
<1> QED
  BY <1>1, AlwaysIInv, PTL

\* A run that reports success leaves the whole table in the output, unless it
\* went on from the checkpoint of an earlier run.
THEOREM CompleteIsWhole == Spec => []CompleteMeansWhole
<1>1. IInv => CompleteMeansWhole
  BY DEF IInv
<1> QED
  BY <1>1, AlwaysIInv, PTL
=============================================================================
