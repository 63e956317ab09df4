--------------------------- MODULE RunStreamProofs ---------------------------
(***************************************************************************)
(* A run's event stream loses nothing silently, for any number of          *)
(* watchers, size of the ring buffer, cap on the backlog, drops and        *)
(* restarts.  The argument follows what is on the wire of each response:   *)
(* an event is preceded by its predecessor or by a gap frame, what was     *)
(* seen last stands before the first, and the wire of a live response ends *)
(* where the stream does unless a gap frame is owed; nothing is written    *)
(* while one is.                                                           *)
(***************************************************************************)
EXTENDS RunStream, SequenceTheorems, TLAPS

\* Frames that say something of the events.
Mark(f) == f.kind \in {"event", "gap"}
IsEvent(f) == f.kind = "event"

\* An event on the wire q comes after its predecessor, or after a gap.
Joined(q) ==
    \A i, j \in 1 .. Len(q) :
        i < j /\ IsEvent(q[i]) /\ IsEvent(q[j]) =>
            /\ q[i].id < q[j].id
            /\ \/ q[j].id = q[i].id + 1
               \/ \E k \in 1 .. Len(q) : i < k /\ k < j /\ Mark(q[k])

\* So does the first one, if c was seen last, and then a gap if g.
Follows(q, c, g) ==
    \A j \in 1 .. Len(q) :
        IsEvent(q[j]) =>
            /\ q[j].id > c
            /\ \/ c = 0 \/ g \/ q[j].id = c + 1
               \/ \E k \in 1 .. Len(q) : k < j /\ Mark(q[k])

\* Something is said after position i.
Overtaken(q, i) == \E k \in 1 .. Len(q) : i < k /\ Mark(q[k])

\* The last event on the wire is h, unless a gap comes after it.
EndsAt(q, h) ==
    \A i \in 1 .. Len(q) : IsEvent(q[i]) => q[i].id = h \/ Overtaken(q, i)

\* Whoever reads the wire to its end has seen h, or a gap after what it saw.
CatchesUp(q, c, g, h) == EndsAt(q, h) /\ (c = h \/ g \/ Overtaken(q, 0))

Below(q, h) == \A i \in 1 .. Len(q) : IsEvent(q[i]) => q[i].id <= h

Typed ==
    /\ row \in {"active", "ended"}
    /\ stream \in {"none", "open"} \cup Reasons
    /\ highest \in 0 .. MaxEvents + 1 /\ draining \in BOOLEAN
    /\ conn \in [Watchers -> {"none", "opening", "live", "finished"}]
    /\ route \in [Watchers -> {"active", "ended"}]
    /\ wire \in [Watchers -> Seq(Frames)]
    /\ backlog \in [Watchers -> 0 .. MaxBacklog]
    /\ gapDue \in [Watchers -> BOOLEAN] /\ saidEnd \in [Watchers -> BOOLEAN]
    /\ cursor \in [Watchers -> 0 .. MaxEvents + 1]
    /\ gapSeen \in [Watchers -> BOOLEAN]
    /\ told \in [Watchers -> {"no", "lost"} \cup Reasons]
    /\ drops \in 0 .. MaxDrops /\ restarts \in 0 .. MaxRestarts

\* Only a running run has an open stream, which has room for its last event.
ServerOK ==
    /\ stream = "open" => row = "active"
    /\ row = "active" => highest <= MaxEvents

\* The response of a watcher, against the stream.
ConnOK(w) ==
    /\ conn[w] \in {"none", "opening"} => wire[w] = <<>> /\ ~gapDue[w]
    /\ conn[w] = "opening" /\ route[w] = "active" => stream # "none"
    /\ conn[w] = "opening" /\ route[w] = "ended" => row = "ended"
    /\ conn[w] = "live" => stream = "open"
    /\ conn[w] = "finished" => stream # "open" /\ (stream = "none" => row = "ended")
    /\ gapDue[w] => backlog[w] = MaxBacklog
    /\ told[w] # "no" => conn[w] = "none"
    /\ stream = "none" => wire[w] = <<>> /\ (row = "active" => cursor[w] = 0)

\* What the watcher has seen and what is under way to it.
WireOK(w) ==
    /\ Joined(wire[w]) /\ Follows(wire[w], cursor[w], gapSeen[w])
    /\ stream # "none" => cursor[w] <= highest /\ Below(wire[w], highest)
    /\ conn[w] = "live" =>
          \/ gapDue[w]
          \/ CatchesUp(wire[w], cursor[w], gapSeen[w], highest)
          \/ cursor[w] = 0 /\ EndsAt(wire[w], highest)
    /\ \A i \in 1 .. Len(wire[w]) :
          wire[w][i].kind = "end" =>
             /\ i = Len(wire[w]) /\ wire[w][i].reason = stream
             /\ stream = "completed" =>
                   CatchesUp(wire[w], cursor[w], gapSeen[w], highest)

ToldOK(w) ==
    told[w] = "completed" =>
       \/ stream = "none" /\ row = "ended"
       \/ stream = "completed" /\ (cursor[w] = highest \/ gapSeen[w])

IInv ==
    /\ Typed /\ ServerOK
    /\ \A w \in Watchers : ConnOK(w) /\ WireOK(w) /\ ToldOK(w)

-----------------------------------------------------------------------------
(* Wires.                                                                  *)

\* No end frame on the wire.
Unended(q) == \A i \in 1 .. Len(q) : q[i].kind # "end"

\* r is the wire q with the frame f behind it.
Extended(q, r, f) ==
    /\ r \in Seq(Frames) /\ Len(r) = Len(q) + 1
    /\ \A i \in 1 .. Len(q) : r[i] = q[i]
    /\ r[Len(r)] = f

\* Appending extends.
LEMMA AppendExtends ==
    ASSUME NEW q \in Seq(Frames), NEW f \in Frames
    PROVE  Extended(q, Append(q, f), f)
BY AppendProperties DEF Extended

\* What is said after a position still is when the wire grows.
LEMMA StillOvertaken ==
    ASSUME NEW q \in Seq(Frames), NEW r, NEW f, Extended(q, r, f), NEW i,
           Overtaken(q, i)
    PROVE  Overtaken(r, i)
<1>1. Len(q) \in Nat
  BY LenProperties
<1>2. PICK k \in 1 .. Len(q) : i < k /\ Mark(q[k])
  BY DEF Overtaken
<1>3. k \in 1 .. Len(r) /\ r[k] = q[k]
  BY <1>1 DEF Extended
<1> QED
  BY <1>2, <1>3 DEF Overtaken

\* A frame that is no event disturbs nothing.
LEMMA OtherFrameFollows ==
    ASSUME NEW q \in Seq(Frames), NEW r, NEW f, Extended(q, r, f), ~IsEvent(f),
           NEW c \in Nat, NEW g, NEW h \in Nat,
           Joined(q), Follows(q, c, g)
    PROVE  /\ Joined(r) /\ Follows(r, c, g) /\ (Below(q, h) => Below(r, h))
           /\ CatchesUp(q, c, g, h) => CatchesUp(r, c, g, h)
           /\ EndsAt(q, h) => EndsAt(r, h)
<1>1. Len(q) \in Nat /\ 1 .. Len(r) = (1 .. Len(q)) \cup {Len(r)}
  BY LenProperties DEF Extended
<1>2. \A i \in 1 .. Len(r) : IsEvent(r[i]) => i \in 1 .. Len(q) /\ r[i] = q[i]
  BY <1>1 DEF Extended
<1>3. \A k \in 1 .. Len(q) : k \in 1 .. Len(r) /\ r[k] = q[k]
  BY <1>1 DEF Extended
<1>4. Joined(r)
  BY <1>2, <1>3 DEF Joined
<1>5. Follows(r, c, g)
  BY <1>2, <1>3 DEF Follows
<1>6. Below(q, h) => Below(r, h)
  BY <1>2 DEF Below
<1>7. EndsAt(q, h) => EndsAt(r, h)
  BY <1>2, StillOvertaken DEF EndsAt
<1> QED
  BY <1>4, <1>5, <1>6, <1>7, StillOvertaken DEF CatchesUp

\* A frame behind a wire without an end is the only one that may be an end.
LEMMA EndComesLast ==
    ASSUME NEW q \in Seq(Frames), NEW r, NEW f, Extended(q, r, f), Unended(q)
    PROVE  \A i \in 1 .. Len(r) : r[i].kind = "end" => i = Len(r) /\ r[i] = f
<1>1. Len(q) \in Nat /\ 1 .. Len(r) = (1 .. Len(q)) \cup {Len(r)}
  BY LenProperties DEF Extended
<1> QED
  BY <1>1 DEF Extended, Unended

\* A gap frame makes up for everything before it.
LEMMA GapCatchesUp ==
    ASSUME NEW q \in Seq(Frames), NEW r, Extended(q, r, GapFrame),
           NEW c, NEW g, NEW h
    PROVE  CatchesUp(r, c, g, h)
<1>1. Len(q) \in Nat /\ Len(r) = Len(q) + 1 /\ Mark(r[Len(r)]) /\ ~IsEvent(r[Len(r)])
  BY LenProperties DEF Extended, Mark, GapFrame, IsEvent
<1>2. \A i \in 1 .. Len(r) : i < Len(r) => Overtaken(r, i)
  BY <1>1 DEF Overtaken
<1>3. Overtaken(r, 0)
  BY <1>1 DEF Overtaken
<1> QED
  BY <1>1, <1>2, <1>3 DEF CatchesUp, EndsAt

\* The next event on a wire that ends where the stream does.
LEMMA NextEventFollows ==
    ASSUME NEW q \in Seq(Frames), NEW r, NEW h \in Nat,
           Extended(q, r, Event(h + 1)),
           NEW c \in Nat, NEW g, c <= h, Joined(q), Follows(q, c, g), Below(q, h),
           CatchesUp(q, c, g, h) \/ (c = 0 /\ EndsAt(q, h)),
           \A i \in 1 .. Len(q) : IsEvent(q[i]) => q[i].id \in Nat
    PROVE  /\ Joined(r) /\ Follows(r, c, g) /\ Below(r, h + 1)
           /\ CatchesUp(r, c, g, h + 1)
<1> DEFINE n == Len(q) + 1
<1>1. /\ Len(q) \in Nat /\ Len(r) = n /\ r[n].kind = "event" /\ r[n].id = h + 1
      /\ 1 .. Len(r) = (1 .. Len(q)) \cup {n} /\ IsEvent(r[n]) /\ Mark(r[n])
      /\ n \in 1 .. Len(r)
  BY LenProperties DEF Extended, Event, IsEvent, Mark
<1>2. \A k \in 1 .. Len(q) : k \in 1 .. Len(r) /\ k < n /\ r[k] = q[k]
  BY <1>1 DEF Extended
<1>3. EndsAt(q, h)
  BY DEF CatchesUp
<1>4. \A i \in 0 .. Len(q) : Overtaken(q, i) =>
         \E k \in 1 .. Len(r) : i < k /\ k < n /\ Mark(r[k])
  BY <1>2 DEF Overtaken
<1>5. Joined(r)
  <2> SUFFICES ASSUME NEW i \in 1 .. Len(r), NEW j \in 1 .. Len(r), i < j,
                      IsEvent(r[i]), IsEvent(r[j])
               PROVE  /\ r[i].id < r[j].id
                      /\ \/ r[j].id = r[i].id + 1
                         \/ \E k \in 1 .. Len(r) : i < k /\ k < j /\ Mark(r[k])
    BY DEF Joined
  <2>1. CASE j \in 1 .. Len(q)
    <3>1. i \in 1 .. Len(q)
      BY <1>1, <2>1
    <3> QED
      BY <1>2, <2>1, <3>1 DEF Joined
  <2>2. CASE j = n
    <3>1. i \in 1 .. Len(q) /\ r[i] = q[i] /\ q[i].id <= h /\ q[i].id \in Nat
      BY <1>1, <1>2, <2>2 DEF Below
    <3>2. q[i].id = h \/ Overtaken(q, i)
      BY <1>2, <1>3, <3>1 DEF EndsAt
    <3> QED
      BY <1>1, <1>4, <2>2, <3>1, <3>2
  <2> QED
    BY <1>1, <2>1, <2>2
<1>6. Follows(r, c, g)
  <2> SUFFICES ASSUME NEW j \in 1 .. Len(r), IsEvent(r[j])
               PROVE  /\ r[j].id > c
                      /\ \/ c = 0 \/ g \/ r[j].id = c + 1
                         \/ \E k \in 1 .. Len(r) : k < j /\ Mark(r[k])
    BY DEF Follows
  <2>1. CASE j \in 1 .. Len(q)
    BY <1>2, <2>1 DEF Follows
  <2>2. CASE j = n
    BY <1>1, <1>4, <2>2 DEF CatchesUp
  <2> QED
    BY <1>1, <2>1, <2>2
<1>7. Below(r, h + 1)
  BY <1>1, <1>2 DEF Below
<1>8. \A i \in 0 .. Len(q) : Overtaken(r, i)
  BY <1>1 DEF Overtaken
<1>9. EndsAt(r, h + 1)
  BY <1>1, <1>8 DEF EndsAt
<1> QED
  BY <1>1, <1>5, <1>6, <1>7, <1>8, <1>9 DEF CatchesUp

\* A wire with nothing on it.
LEMMA EmptyWire ==
    ASSUME NEW c, NEW g, NEW h
    PROVE  /\ Joined(<<>>) /\ Follows(<<>>, c, g) /\ Below(<<>>, h)
           /\ EndsAt(<<>>, h) /\ Unended(<<>>)
BY DEF Joined, Follows, Below, EndsAt, Unended

\* What is delivered of the frames q is a prefix of them.
LEMMA PrefixFollows ==
    ASSUME NEW q \in Seq(Frames), NEW n \in 0 .. Len(q), NEW c, NEW g, NEW h,
           Joined(q), Follows(q, c, g), Below(q, h)
    PROVE  LET r == SubSeq(q, 1, n) IN
           /\ r \in Seq(Frames) /\ Len(r) = n
           /\ \A i \in 1 .. n : r[i] = q[i]
           /\ Joined(r) /\ Follows(r, c, g) /\ Below(r, h)
<1> DEFINE r == SubSeq(q, 1, n)
<1>1. /\ Len(q) \in Nat /\ r \in Seq(Frames) /\ Len(r) = n
      /\ \A i \in 1 .. n : i \in 1 .. Len(q) /\ r[i] = q[i]
  <2>1. Len(q) \in Nat /\ \A i \in 1 .. Len(q) : q[i] \in Frames
    BY LenProperties, ElementOfSeq
  <2>2. \A i \in 1 .. n : i \in 1 .. Len(q) /\ q[i] \in Frames
    BY <2>1
  <2>3. 1 \in 1 .. n + 1 /\ n \in 0 - 1 .. n /\ n \in Nat
    BY <2>1
  <2>4. r \in Seq(Frames) /\ Len(r) = n /\ \A i \in 1 .. n : r[i] = q[i]
    BY <2>1, <2>2, <2>3
  <2> QED
    BY <2>1, <2>2, <2>4
<1> HIDE DEF r
<1>2. Joined(r)
  <2> SUFFICES ASSUME NEW i \in 1 .. n, NEW j \in 1 .. n, i < j,
                      IsEvent(r[i]), IsEvent(r[j])
               PROVE  /\ r[i].id < r[j].id
                      /\ \/ r[j].id = r[i].id + 1
                         \/ \E k \in 1 .. n : i < k /\ k < j /\ Mark(r[k])
    BY <1>1 DEF Joined
  <2>1. /\ q[i].id < q[j].id
        /\ \/ q[j].id = q[i].id + 1
           \/ \E k \in 1 .. Len(q) : i < k /\ k < j /\ Mark(q[k])
    BY <1>1 DEF Joined
  <2>2. \A k \in 1 .. Len(q) : k < j => k \in 1 .. n /\ r[k] = q[k]
    BY <1>1
  <2> QED
    BY <1>1, <2>1, <2>2
<1>3. Follows(r, c, g)
  <2> SUFFICES ASSUME NEW j \in 1 .. n, IsEvent(r[j])
               PROVE  /\ r[j].id > c
                      /\ \/ c = 0 \/ g \/ r[j].id = c + 1
                         \/ \E k \in 1 .. n : k < j /\ Mark(r[k])
    BY <1>1 DEF Follows
  <2>1. \A k \in 1 .. Len(q) : k < j => k \in 1 .. n /\ r[k] = q[k]
    BY <1>1
  <2> QED
    BY <1>1, <2>1 DEF Follows
<1>4. Below(r, h)
  BY <1>1 DEF Below
<1> QED
  BY <1>1, <1>2, <1>3, <1>4 DEF r

\* Once the first frame, an event, is read, the rest follows it.
LEMMA ReadEvent ==
    ASSUME NEW q \in Seq(Frames), q # <<>>, IsEvent(q[1]), NEW c, NEW g, NEW h,
           Joined(q), Follows(q, c, g)
    PROVE  LET r == Tail(q) IN
           /\ Joined(r) /\ Follows(r, q[1].id, FALSE)
           /\ Below(q, h) => Below(r, h)
           /\ EndsAt(q, h) => CatchesUp(r, q[1].id, FALSE, h)
<1> DEFINE r == Tail(q)
<1>1. /\ Len(q) \in Nat \ {0} /\ Len(r) = Len(q) - 1 /\ 1 \in 1 .. Len(q)
      /\ \A i \in 1 .. Len(r) : i + 1 \in 1 .. Len(q) /\ r[i] = q[i + 1]
  BY LenProperties, EmptySeq
<1> HIDE DEF r
<1>2. \A k \in 1 .. Len(q) : k > 1 => k - 1 \in 1 .. Len(r) /\ r[k - 1] = q[k]
  BY <1>1
<1>3. Joined(r)
  <2> SUFFICES ASSUME NEW i \in 1 .. Len(r), NEW j \in 1 .. Len(r), i < j,
                      IsEvent(r[i]), IsEvent(r[j])
               PROVE  /\ r[i].id < r[j].id
                      /\ \/ r[j].id = r[i].id + 1
                         \/ \E k \in 1 .. Len(r) : i < k /\ k < j /\ Mark(r[k])
    BY DEF Joined
  <2>0. /\ i + 1 \in 1 .. Len(q) /\ j + 1 \in 1 .. Len(q) /\ i + 1 < j + 1
        /\ IsEvent(q[i + 1]) /\ IsEvent(q[j + 1])
    BY <1>1
  <2>1. /\ q[i + 1].id < q[j + 1].id
        /\ \/ q[j + 1].id = q[i + 1].id + 1
           \/ \E k \in 1 .. Len(q) : i + 1 < k /\ k < j + 1 /\ Mark(q[k])
    BY <2>0 DEF Joined
  <2>2. CASE \E k \in 1 .. Len(q) : i + 1 < k /\ k < j + 1 /\ Mark(q[k])
    <3>1. PICK k \in 1 .. Len(q) : i + 1 < k /\ k < j + 1 /\ Mark(q[k])
      BY <2>2
    <3>2. k - 1 \in 1 .. Len(r) /\ i < k - 1 /\ k - 1 < j /\ Mark(r[k - 1])
      BY <1>1, <1>2, <3>1
    <3> QED
      BY <1>1, <2>1, <3>2
  <2> QED
    BY <1>1, <2>1, <2>2
<1>4. Follows(r, q[1].id, FALSE)
  <2> SUFFICES ASSUME NEW j \in 1 .. Len(r), IsEvent(r[j])
               PROVE  /\ r[j].id > q[1].id
                      /\ \/ r[j].id = q[1].id + 1
                         \/ \E k \in 1 .. Len(r) : k < j /\ Mark(r[k])
    BY DEF Follows
  <2>1. IsEvent(q[j + 1]) /\ j + 1 \in 1 .. Len(q) /\ 1 < j + 1
    BY <1>1
  <2>2. /\ q[1].id < q[j + 1].id
        /\ \/ q[j + 1].id = q[1].id + 1
           \/ \E k \in 1 .. Len(q) : 1 < k /\ k < j + 1 /\ Mark(q[k])
    BY <1>1, <2>1 DEF Joined
  <2>3. CASE \E k \in 1 .. Len(q) : 1 < k /\ k < j + 1 /\ Mark(q[k])
    <3>1. PICK k \in 1 .. Len(q) : 1 < k /\ k < j + 1 /\ Mark(q[k])
      BY <2>3
    <3>2. k - 1 \in 1 .. Len(r) /\ k - 1 < j /\ Mark(r[k - 1])
      BY <1>1, <1>2, <3>1
    <3> QED
      BY <1>1, <2>2, <3>2
  <2> QED
    BY <1>1, <2>2, <2>3
<1>5. Below(q, h) => Below(r, h)
  BY <1>1 DEF Below
<1>6. \A i \in 1 .. Len(q) : Overtaken(q, i) => Overtaken(r, i - 1)
  <2> SUFFICES ASSUME NEW i \in 1 .. Len(q), NEW k \in 1 .. Len(q), i < k, Mark(q[k])
               PROVE  Overtaken(r, i - 1)
    BY DEF Overtaken
  <2>1. k - 1 \in 1 .. Len(r) /\ i - 1 < k - 1 /\ Mark(r[k - 1])
    BY <1>1, <1>2
  <2> QED
    BY <2>1 DEF Overtaken
<1>7. ASSUME EndsAt(q, h) PROVE CatchesUp(r, q[1].id, FALSE, h)
  <2>1. q[1].id = h \/ Overtaken(r, 0)
    <3>1. q[1].id = h \/ Overtaken(q, 1)
      BY <1>1, <1>7 DEF EndsAt
    <3>2. Overtaken(q, 1) => Overtaken(r, 1 - 1)
      BY <1>1, <1>6
    <3> QED
      BY <3>1, <3>2
  <2>2. ASSUME NEW i \in 1 .. Len(r), IsEvent(r[i]) PROVE r[i].id = h \/ Overtaken(r, i)
    <3>1. i + 1 \in 1 .. Len(q) /\ (i + 1) - 1 = i /\ r[i] = q[i + 1]
      BY <1>1
    <3>2. q[i + 1].id = h \/ Overtaken(q, i + 1)
      BY <1>7, <2>2, <3>1 DEF EndsAt
    <3>3. Overtaken(q, i + 1) => Overtaken(r, (i + 1) - 1)
      BY <1>6, <3>1
    <3> QED
      BY <3>1, <3>2, <3>3
  <2> QED
    BY <2>1, <2>2 DEF CatchesUp, EndsAt
<1> QED
  BY <1>3, <1>4, <1>5, <1>7 DEF r

\* A gap frame read stands for whatever the rest does not say.
LEMMA ReadGap ==
    ASSUME NEW q \in Seq(Frames), q # <<>>, ~IsEvent(q[1]), NEW c, NEW g, NEW h,
           Joined(q), Follows(q, c, g)
    PROVE  LET r == Tail(q) IN
           /\ Joined(r) /\ Follows(r, c, TRUE)
           /\ Below(q, h) => Below(r, h)
           /\ EndsAt(q, h) => EndsAt(r, h) /\ CatchesUp(r, c, TRUE, h)
<1> DEFINE r == Tail(q)
<1>1. /\ Len(q) \in Nat \ {0} /\ Len(r) = Len(q) - 1 /\ 1 \in 1 .. Len(q)
      /\ \A i \in 1 .. Len(r) : i + 1 \in 1 .. Len(q) /\ r[i] = q[i + 1]
  BY LenProperties, EmptySeq
<1> HIDE DEF r
<1>2. \A k \in 1 .. Len(q) : k > 1 => k - 1 \in 1 .. Len(r) /\ r[k - 1] = q[k]
  BY <1>1
<1>3. Joined(r)
  <2> SUFFICES ASSUME NEW i \in 1 .. Len(r), NEW j \in 1 .. Len(r), i < j,
                      IsEvent(r[i]), IsEvent(r[j])
               PROVE  /\ r[i].id < r[j].id
                      /\ \/ r[j].id = r[i].id + 1
                         \/ \E k \in 1 .. Len(r) : i < k /\ k < j /\ Mark(r[k])
    BY DEF Joined
  <2>0. /\ i + 1 \in 1 .. Len(q) /\ j + 1 \in 1 .. Len(q) /\ i + 1 < j + 1
        /\ IsEvent(q[i + 1]) /\ IsEvent(q[j + 1])
    BY <1>1
  <2>1. /\ q[i + 1].id < q[j + 1].id
        /\ \/ q[j + 1].id = q[i + 1].id + 1
           \/ \E k \in 1 .. Len(q) : i + 1 < k /\ k < j + 1 /\ Mark(q[k])
    BY <2>0 DEF Joined
  <2>2. CASE \E k \in 1 .. Len(q) : i + 1 < k /\ k < j + 1 /\ Mark(q[k])
    <3>1. PICK k \in 1 .. Len(q) : i + 1 < k /\ k < j + 1 /\ Mark(q[k])
      BY <2>2
    <3>2. k - 1 \in 1 .. Len(r) /\ i < k - 1 /\ k - 1 < j /\ Mark(r[k - 1])
      BY <1>1, <1>2, <3>1
    <3> QED
      BY <1>1, <2>1, <3>2
  <2> QED
    BY <1>1, <2>1, <2>2
<1>4. Follows(r, c, TRUE)
  BY <1>1 DEF Follows
<1>5. Below(q, h) => Below(r, h)
  BY <1>1 DEF Below
<1>6. ASSUME EndsAt(q, h) PROVE EndsAt(r, h)
  <2> SUFFICES ASSUME NEW i \in 1 .. Len(r), IsEvent(r[i])
               PROVE  r[i].id = h \/ Overtaken(r, i)
    BY DEF EndsAt
  <2>1. q[i + 1].id = h \/ Overtaken(q, i + 1)
    BY <1>1, <1>6 DEF EndsAt
  <2>2. CASE Overtaken(q, i + 1)
    <3>1. PICK k \in 1 .. Len(q) : i + 1 < k /\ Mark(q[k])
      BY <2>2 DEF Overtaken
    <3>2. k - 1 \in 1 .. Len(r) /\ i < k - 1 /\ Mark(r[k - 1])
      BY <1>1, <1>2, <3>1
    <3> QED
      BY <3>2 DEF Overtaken
  <2> QED
    BY <1>1, <2>1, <2>2
<1> QED
  BY <1>3, <1>4, <1>5, <1>6 DEF r, CatchesUp

-----------------------------------------------------------------------------
(* The ring buffer.                                                        *)

\* What the stream publishes is a frame.
LEMMA FramesAreFrames ==
    /\ GapFrame \in Frames /\ ~IsEvent(GapFrame) /\ GapFrame.kind = "gap"
    /\ \A r \in Reasons :
          /\ EndFrame(r) \in Frames /\ ~IsEvent(EndFrame(r)) /\ ~Mark(EndFrame(r))
          /\ EndFrame(r).kind = "end" /\ EndFrame(r).reason = r
    /\ \A n \in 1 .. MaxEvents + 1 :
          Event(n) \in Frames /\ IsEvent(Event(n)) /\ Mark(Event(n)) /\ Event(n).id = n
          /\ Event(n).kind = "event"
BY DEF Frames, GapFrame, EndFrame, Event, IsEvent, Mark

\* The events retained from the first one on.
LEMMA RetainedEventsFollow ==
    ASSUME highest \in 1 .. MaxEvents + 1, NEW first \in 1 .. highest,
           NEW c \in Nat, NEW g, first > c, c = 0 \/ first = c + 1
    PROVE  LET r == EventsFrom(first) IN
           /\ r \in Seq(Frames) /\ Unended(r)
           /\ Joined(r) /\ Follows(r, c, g) /\ Below(r, highest)
           /\ CatchesUp(r, c, g, highest)
<1> DEFINE r == EventsFrom(first)
           n == highest + 1 - first
<1>1. n \in Nat /\ n > 0 /\ MaxEvents \in Nat
  BY StreamAssumption
<1>2. \A i \in 1 .. n : /\ first + i - 1 \in 1 .. MaxEvents + 1
                        /\ r[i] = Event(first + i - 1)
  BY <1>1 DEF EventsFrom
<1>3. r \in Seq(Frames) /\ Len(r) = n
  <2>1. \A i \in 1 .. n : Event(first + i - 1) \in Frames
    BY <1>2, FramesAreFrames
  <2>2. r = [i \in 1 .. n |-> r[i]] /\ \A i \in 1 .. n : r[i] \in Frames
    BY <1>2, <2>1 DEF EventsFrom
  <2>3. r \in [1 .. n -> Frames]
    BY <2>2
  <2> HIDE DEF r, n
  <2> QED
    BY <1>1, <2>3, SeqDef, LenProperties
<1>4. \A i \in 1 .. n : /\ r[i].id = first + i - 1 /\ r[i].kind = "event"
                        /\ IsEvent(r[i]) /\ Mark(r[i])
  BY <1>2, FramesAreFrames
<1> HIDE DEF r
<1>5. Unended(r) /\ Below(r, highest)
  BY <1>1, <1>3, <1>4 DEF Unended, Below
<1>6. Joined(r)
  <2> SUFFICES ASSUME NEW i \in 1 .. n, NEW j \in 1 .. n, i < j
               PROVE  /\ r[i].id < r[j].id
                      /\ \/ r[j].id = r[i].id + 1
                         \/ \E k \in 1 .. n : i < k /\ k < j /\ Mark(r[k])
    BY <1>3 DEF Joined
  <2>1. j = i + 1 \/ (i + 1 \in 1 .. n /\ i < i + 1 /\ i + 1 < j)
    BY <1>1
  <2> QED
    BY <1>1, <1>4, <2>1
<1>7. Follows(r, c, g)
  <2> SUFFICES ASSUME NEW j \in 1 .. n
               PROVE  /\ r[j].id > c
                      /\ \/ c = 0 \/ g \/ r[j].id = c + 1
                         \/ \E k \in 1 .. n : k < j /\ Mark(r[k])
    BY <1>3 DEF Follows
  <2>1. j = 1 \/ (1 \in 1 .. n /\ 1 < j)
    BY <1>1
  <2> QED
    BY <1>1, <1>4, <2>1
<1>8. CatchesUp(r, c, g, highest)
  <2>1. \A i \in 0 .. n : i = n \/ (i + 1 \in 1 .. n /\ i < i + 1)
    BY <1>1
  <2>2. \A i \in 0 .. n : i = n \/ Overtaken(r, i)
    BY <1>3, <1>4, <2>1 DEF Overtaken
  <2>3. Overtaken(r, 0)
    BY <1>1, <1>3, <1>4 DEF Overtaken
  <2>4. EndsAt(r, highest)
    <3> SUFFICES ASSUME NEW i \in 1 .. n PROVE r[i].id = highest \/ Overtaken(r, i)
      BY <1>3 DEF EndsAt
    <3>1. i = n => r[i].id = highest
      BY <1>1, <1>4
    <3> QED
      BY <1>1, <2>2, <3>1
  <2> QED
    BY <2>3, <2>4 DEF CatchesUp
<1> QED
  BY <1>3, <1>5, <1>6, <1>7, <1>8 DEF r

\* A resumption from a cursor the stream has reached follows that cursor and
\* catches up with the stream.
LEMMA ResumeFollows ==
    ASSUME highest \in 0 .. MaxEvents + 1, NEW c \in 0 .. highest, NEW g
    PROVE  LET r == Resume(c) IN
           /\ r \in Seq(Frames) /\ Unended(r)
           /\ Joined(r) /\ Follows(r, c, g) /\ Below(r, highest)
           /\ CatchesUp(r, c, g, highest)
<1> USE StreamAssumption
<1>1. CASE c = highest
  <2>1. Resume(c) = <<>>
    BY <1>1 DEF Resume
  <2> QED
    BY <1>1, <2>1, EmptyWire DEF CatchesUp
<1>2. CASE c # highest /\ c = 0
  <2>1. Oldest \in 1 .. highest /\ highest \in 1 .. MaxEvents + 1
    BY <1>2 DEF Oldest
  <2>2. Resume(c) = EventsFrom(Oldest)
    BY <1>2 DEF Resume
  <2> QED
    BY <1>2, <2>1, <2>2, RetainedEventsFollow
<1>3. CASE c # highest /\ c # 0 /\ c < Oldest - 1
  <2>1. Resume(c) = <<GapFrame>>
    BY <1>3 DEF Resume
  <2>2. <<GapFrame>> \in Seq(Frames) /\ Extended(<<>>, <<GapFrame>>, GapFrame)
    BY FramesAreFrames DEF Extended
  <2>3. Unended(<<GapFrame>>)
    BY DEF Unended, GapFrame
  <2>4. <<>> \in Seq(Frames) /\ c \in Nat /\ highest \in Nat
    OBVIOUS
  <2>5. /\ Joined(<<GapFrame>>) /\ Follows(<<GapFrame>>, c, g)
        /\ Below(<<GapFrame>>, highest)
    BY <2>2, <2>4, FramesAreFrames, EmptyWire, OtherFrameFollows
  <2> QED
    BY <2>1, <2>2, <2>3, <2>4, <2>5, GapCatchesUp
<1>4. CASE c # highest /\ c # 0 /\ ~(c < Oldest - 1)
  <2>1. c + 1 \in 1 .. highest /\ highest \in 1 .. MaxEvents + 1
    BY <1>4
  <2>2. Resume(c) = EventsFrom(c + 1)
    BY <1>4 DEF Resume
  <2> QED
    BY <1>4, <2>1, <2>2, RetainedEventsFollow
<1> QED
  BY <1>1, <1>2, <1>3, <1>4

-----------------------------------------------------------------------------
(* The writer.                                                             *)

\* Of the frames f a prefix of length m reached the wire of watcher w, and
\* nothing of them while a gap was owed.
Prefix(w, f, m) ==
    /\ wire'[w] = wire[w] \o SubSeq(f, 1, m)
    /\ gapDue'[w] => gapDue[w] \/ m < Len(f)
    /\ gapDue[w] \/ m < Len(f) => gapDue'[w]
    /\ gapDue'[w] => backlog'[w] = MaxBacklog
    /\ gapDue[w] => m = 0

Delivered(w, f) == \E m \in 0 .. Len(f) : Prefix(w, f, m)

\* The writer keeps the types, and what it drops it owes a gap frame for.
LEMMA OfferDelivers ==
    ASSUME Typed, \A w \in Watchers : ConnOK(w),
           NEW fs \in [Watchers -> Seq(Frames)], Offer(fs)
    PROVE  /\ wire' \in [Watchers -> Seq(Frames)]
           /\ backlog' \in [Watchers -> 0 .. MaxBacklog]
           /\ gapDue' \in [Watchers -> BOOLEAN]
           /\ saidEnd' \in [Watchers -> BOOLEAN]
           /\ \A w \in Watchers : Delivered(w, fs[w])
<1>1. PICK n \in [Watchers -> 0 .. BufferSize + 2],
           k \in [Watchers -> 0 .. MaxBacklog] :
         /\ \A w \in Watchers : Accepts(w, fs[w], n[w], k[w])
         /\ wire' = [w \in Watchers |-> wire[w] \o SubSeq(fs[w], 1, n[w])]
         /\ backlog' = [w \in Watchers |-> backlog[w] + k[w]]
         /\ gapDue' = [w \in Watchers |-> gapDue[w] \/ n[w] < Len(fs[w])]
         /\ saidEnd' = [w \in Watchers |->
                saidEnd[w] \/ \E i \in 1 .. n[w] : fs[w][i].kind = "end"]
  BY DEF Offer
<1>2. gapDue' \in [Watchers -> BOOLEAN] /\ saidEnd' \in [Watchers -> BOOLEAN]
  BY <1>1
<1>3. \A w \in Watchers : /\ n[w] \in 0 .. Len(fs[w]) /\ Len(fs[w]) \in Nat
                          /\ k[w] \in 0 .. n[w] /\ backlog[w] \in 0 .. MaxBacklog
                          /\ backlog[w] + k[w] \in 0 .. MaxBacklog
  <2> SUFFICES ASSUME NEW w \in Watchers
               PROVE  /\ n[w] \in 0 .. Len(fs[w]) /\ Len(fs[w]) \in Nat
                      /\ k[w] \in 0 .. n[w] /\ backlog[w] \in 0 .. MaxBacklog
                      /\ backlog[w] + k[w] \in 0 .. MaxBacklog
    OBVIOUS
  <2>1. /\ fs[w] \in Seq(Frames) /\ backlog[w] \in 0 .. MaxBacklog
        /\ n[w] \in 0 .. BufferSize + 2 /\ k[w] \in 0 .. MaxBacklog
        /\ BufferSize \in Nat /\ MaxBacklog \in Nat
    BY StreamAssumption DEF Typed
  <2>2. Len(fs[w]) \in Nat
    BY <2>1, LenProperties
  <2> QED
    BY <1>1, <2>1, <2>2 DEF Accepts
<1>4. backlog' \in [Watchers -> 0 .. MaxBacklog]
  BY <1>1, <1>3
<1>5. wire' \in [Watchers -> Seq(Frames)]
  <2> SUFFICES ASSUME NEW w \in Watchers
               PROVE  wire[w] \o SubSeq(fs[w], 1, n[w]) \in Seq(Frames)
    BY <1>1
  <2>1. wire[w] \in Seq(Frames) /\ fs[w] \in Seq(Frames)
    BY DEF Typed
  <2>2. SubSeq(fs[w], 1, n[w]) \in Seq(Frames)
    <3>1. \A i \in 1 .. n[w] : i \in 1 .. Len(fs[w]) /\ fs[w][i] \in Frames
      BY <1>3, <2>1, ElementOfSeq
    <3> QED
      BY <1>3, <2>1, <3>1
  <2> QED
    BY <2>1, <2>2, ConcatProperties
<1>6. ASSUME NEW w \in Watchers PROVE Delivered(w, fs[w])
  <2>1. gapDue'[w] => gapDue[w] \/ n[w] < Len(fs[w])
    BY <1>1
  <2>2. gapDue[w] \/ n[w] < Len(fs[w]) => gapDue'[w]
    BY <1>1
  <2>3. /\ wire'[w] = wire[w] \o SubSeq(fs[w], 1, n[w])
        /\ backlog'[w] = backlog[w] + k[w] /\ Accepts(w, fs[w], n[w], k[w])
    BY <1>1
  <2>4. gapDue[w] => backlog[w] = MaxBacklog
    BY DEF ConnOK
  <2>5. gapDue[w] => n[w] = 0 /\ backlog'[w] = MaxBacklog
    BY <1>3, <2>3, <2>4, StreamAssumption DEF Accepts
  <2>6. n[w] < Len(fs[w]) => backlog'[w] = MaxBacklog
    BY <2>3 DEF Accepts
  <2>7. Prefix(w, fs[w], n[w])
    BY <2>1, <2>2, <2>3, <2>5, <2>6 DEF Prefix
  <2> QED
    BY <1>3, <2>7 DEF Delivered
<1> QED
  BY <1>2, <1>4, <1>5, <1>6

\* A watcher offered nothing keeps its wire and its gap.
LEMMA NothingDelivered ==
    ASSUME Typed, NEW w \in Watchers, Delivered(w, <<>>)
    PROVE  /\ wire'[w] = wire[w] /\ (gapDue'[w] => gapDue[w])
           /\ gapDue[w] => gapDue'[w]
           /\ gapDue'[w] => backlog'[w] = MaxBacklog
<1>1. PICK m \in 0 .. Len(<<>>) : Prefix(w, <<>>, m)
  BY DEF Delivered
<1>2. m = 0 /\ Len(<<>>) = 0 /\ wire[w] \in Seq(Frames) /\ SubSeq(<<>>, 1, 0) = <<>>
  BY DEF Typed
<1>3. wire[w] \o <<>> = wire[w]
  BY <1>2, ConcatEmptySeq
<1> QED
  BY <1>1, <1>2, <1>3 DEF Prefix

\* One frame is delivered or dropped.
LEMMA FrameDelivered ==
    ASSUME Typed, NEW w \in Watchers, NEW f \in Frames, Delivered(w, <<f>>)
    PROVE  /\ gapDue'[w] => backlog'[w] = MaxBacklog
           /\ \/ gapDue'[w] /\ wire'[w] = wire[w]
              \/ /\ ~gapDue'[w] /\ ~gapDue[w]
                 /\ Extended(wire[w], wire'[w], f)
<1>1. PICK m \in 0 .. Len(<<f>>) : Prefix(w, <<f>>, m)
  BY DEF Delivered
<1>2. wire[w] \in Seq(Frames)
  BY DEF Typed
<1>3. CASE m = 0
  <2>1. wire[w] \o SubSeq(<<f>>, 1, 0) = wire[w]
    BY <1>2, ConcatEmptySeq
  <2> QED
    BY <1>1, <1>3, <2>1 DEF Prefix
<1>4. CASE m = 1
  <2>1. wire[w] \o SubSeq(<<f>>, 1, 1) = Append(wire[w], f)
    <3>1. SubSeq(<<f>>, 1, 1) = <<f>>
      <4>1. <<f>> \in Seq(Frames) /\ Len(<<f>>) = 1
        OBVIOUS
      <4>2. SubSeq(<<f>>, 1, Len(<<f>>)) = <<f>>
        BY <4>1, SubSeqFull
      <4> QED
        BY <4>1, <4>2
    <3>2. wire[w] \o <<f>> = Append(wire[w], f)
      BY <1>2
    <3> QED
      BY <3>1, <3>2
  <2>2. Extended(wire[w], Append(wire[w], f), f)
    BY <1>2, AppendExtends
  <2>3. Len(<<f>>) = 1
    OBVIOUS
  <2>4. ~gapDue'[w] /\ ~gapDue[w]
    BY <1>1, <1>4, <2>3 DEF Prefix
  <2> QED
    BY <1>1, <1>4, <2>1, <2>2, <2>4 DEF Prefix
<1> QED
  BY <1>3, <1>4

\* Of two frames both are delivered, or the second dropped, or both.
LEMMA TwoFramesDelivered ==
    ASSUME Typed, NEW w \in Watchers, NEW f \in Frames, NEW e \in Frames,
           Delivered(w, <<f, e>>)
    PROVE  /\ gapDue'[w] => backlog'[w] = MaxBacklog
           /\ \/ gapDue'[w] /\ wire'[w] = wire[w]
              \/ gapDue'[w] /\ ~gapDue[w] /\ Extended(wire[w], wire'[w], f)
              \/ /\ ~gapDue'[w] /\ ~gapDue[w]
                 /\ \E r \in Seq(Frames) :
                       Extended(wire[w], r, f) /\ Extended(r, wire'[w], e)
<1> DEFINE fe == <<f, e>>
           q == wire[w]
<1>1. PICK m \in 0 .. Len(fe) : Prefix(w, fe, m)
  BY DEF Delivered
<1>2. q \in Seq(Frames) /\ Len(fe) = 2 /\ fe \in Seq(Frames)
  BY DEF Typed
<1>3. /\ SubSeq(fe, 1, m) \in Seq(Frames) /\ Len(SubSeq(fe, 1, m)) = m
      /\ \A i \in 1 .. m : SubSeq(fe, 1, m)[i] = fe[i]
  <2>1. m \in Nat /\ m <= 2 /\ \A i \in 1 .. m : fe[i] \in Frames
    BY <1>2
  <2> QED
    BY <1>2, <2>1
<1>4. /\ wire'[w] \in Seq(Frames) /\ Len(wire'[w]) = Len(q) + m
      /\ \A i \in 1 .. Len(q) : wire'[w][i] = q[i]
      /\ \A i \in 1 .. m : wire'[w][Len(q) + i] = fe[i]
  BY <1>1, <1>2, <1>3 DEF Prefix
<1>5. CASE m = 0
  <2>1. wire'[w] = q
    <3>1. SubSeq(fe, 1, 0) = <<>>
      BY SubSeqEmpty
    <3> QED
      BY <1>1, <1>2, <1>5, <3>1, ConcatEmptySeq DEF Prefix
  <2> QED
    BY <1>1, <1>2, <1>5, <2>1 DEF Prefix
<1>6. CASE m = 1
  <2>1. Extended(q, wire'[w], f)
    BY <1>2, <1>4, <1>6 DEF Extended
  <2>2. gapDue'[w] /\ ~gapDue[w]
    BY <1>1, <1>2, <1>6 DEF Prefix
  <2> QED
    BY <1>1, <2>1, <2>2 DEF Prefix
<1>7. CASE m = 2
  <2>1. Append(q, f) \in Seq(Frames) /\ Extended(q, Append(q, f), f)
    BY <1>2, AppendExtends, AppendProperties
  <2>2. Extended(Append(q, f), wire'[w], e)
    <3>1. Len(q) \in Nat /\ Len(Append(q, f)) = Len(q) + 1
      BY <1>2, AppendProperties, LenProperties
    <3>2. wire'[w][Len(q) + 1] = f /\ wire'[w][Len(q) + 2] = e
      BY <1>4, <1>7
    <3>3. ASSUME NEW i \in 1 .. Len(Append(q, f))
          PROVE  wire'[w][i] = Append(q, f)[i]
      BY <1>2, <1>4, <3>1, <3>2, AppendProperties
    <3>4. Len(wire'[w]) = Len(q) + 2 /\ Len(wire'[w]) = Len(Append(q, f)) + 1
      BY <1>4, <1>7, <3>1
    <3> HIDE DEF fe, q
    <3> QED
      BY <1>4, <3>2, <3>3, <3>4 DEF Extended
  <2>3. ~gapDue'[w] /\ ~gapDue[w]
    BY <1>1, <1>2, <1>7 DEF Prefix
  <2> QED
    BY <1>1, <2>1, <2>2, <2>3 DEF Prefix
<1> QED
  BY <1>2, <1>5, <1>6, <1>7

-----------------------------------------------------------------------------
(* The steps.                                                              *)

\* While the stream is open, only live responses carry anything, and no end.
LEMMA OpenWires ==
    ASSUME IInv, stream = "open", NEW w \in Watchers
    PROVE  /\ Unended(wire[w])
           /\ conn[w] # "live" => conn[w] \in {"none", "opening"} /\ wire[w] = <<>>
<1>1. \A i \in 1 .. Len(wire[w]) : wire[w][i] \in Frames
  BY ElementOfSeq DEF IInv, Typed
<1>2. \A f \in Frames : f.kind = "end" => f.reason \in Reasons
  BY DEF Frames, EndFrame, GapFrame
<1>3. Unended(wire[w])
  BY <1>1, <1>2 DEF IInv, WireOK, Reasons, Unended
<1>4. conn[w] \in {"none", "opening", "live", "finished"}
  BY DEF IInv, Typed
<1> QED
  BY <1>3, <1>4 DEF IInv, ConnOK

\* A watcher no step touches keeps its invariant while the stream and the
\* row stay as they are.
LEMMA Untouched ==
    ASSUME IInv, NEW w \in Watchers,
           UNCHANGED <<row, stream, highest>>,
           conn'[w] = conn[w], route'[w] = route[w], wire'[w] = wire[w],
           backlog'[w] = backlog[w], gapDue'[w] => gapDue[w],
           gapDue[w] => gapDue'[w],
           cursor'[w] = cursor[w], gapSeen'[w] = gapSeen[w], told'[w] = told[w]
    PROVE  ConnOK(w)' /\ WireOK(w)' /\ ToldOK(w)'
<1>1. ConnOK(w)'
  BY DEF IInv, ConnOK
<1>2. WireOK(w)'
  BY DEF IInv, WireOK
<1>3. ToldOK(w)'
  BY DEF IInv, ToldOK
<1> QED
  BY <1>1, <1>2, <1>3

\* A watcher without a response and without a wire has nothing to lose.
LEMMA NothingUnderWay ==
    ASSUME NEW w \in Watchers, wire'[w] = <<>>, ~gapDue'[w],
           conn'[w] \in {"none", "opening"},
           stream' # "none" => cursor'[w] <= highest'
    PROVE  WireOK(w)'
BY EmptyWire DEF WireOK

\* The ids of the events on a wire are numbers.
LEMMA WireTypes ==
    ASSUME Typed, NEW w \in Watchers
    PROVE  /\ wire[w] \in Seq(Frames) /\ Len(wire[w]) \in Nat
           /\ cursor[w] \in Nat /\ highest \in Nat /\ MaxEvents \in Nat
           /\ \A i \in 1 .. Len(wire[w]) : /\ wire[w][i] \in Frames
                                           /\ IsEvent(wire[w][i]) => wire[w][i].id \in Nat
<1>1. wire[w] \in Seq(Frames) /\ MaxEvents \in Nat
  BY StreamAssumption DEF Typed
<1>2. \A i \in 1 .. Len(wire[w]) : wire[w][i] \in Frames
  BY <1>1, ElementOfSeq
<1>3. \A f \in Frames : IsEvent(f) => f.id \in Nat
  BY <1>1 DEF Frames, IsEvent, GapFrame, EndFrame
<1> QED
  BY <1>1, <1>2, <1>3, LenProperties DEF Typed

\* What a live watcher's wire is once the next event was offered to it.
LEMMA EventOffered ==
    ASSUME IInv, NEW w \in Watchers, stream = "open", conn[w] = "live",
           ~gapDue[w], NEW r, Extended(wire[w], r, Event(highest + 1))
    PROVE  /\ Joined(r) /\ Follows(r, cursor[w], gapSeen[w]) /\ Below(r, highest + 1)
           /\ CatchesUp(r, cursor[w], gapSeen[w], highest + 1)
           /\ Unended(r)
<1> DEFINE q == wire[w]
           c == cursor[w]
           g == gapSeen[w]
<1>1. /\ q \in Seq(Frames) /\ Len(q) \in Nat /\ c \in Nat /\ highest \in Nat
      /\ \A i \in 1 .. Len(q) : IsEvent(q[i]) => q[i].id \in Nat
  BY WireTypes DEF IInv
<1>2. /\ Joined(q) /\ Follows(q, c, g) /\ c <= highest /\ Below(q, highest)
      /\ CatchesUp(q, c, g, highest) \/ (c = 0 /\ EndsAt(q, highest))
  BY DEF IInv, WireOK
<1>3. Unended(r)
  BY <1>1, OpenWires DEF Unended, Extended, Event
<1> HIDE DEF q, c, g
<1>4. Extended(q, r, Event(highest + 1))
  BY DEF q
<1>5. /\ Joined(r) /\ Follows(r, c, g) /\ Below(r, highest + 1)
      /\ CatchesUp(r, c, g, highest + 1)
  BY <1>1, <1>2, <1>4, NextEventFollows
<1> QED
  BY <1>3, <1>5 DEF c, g

\* A later event changes nothing for those below an earlier one.
LEMMA BelowGrows ==
    ASSUME NEW w \in Watchers, Typed, Below(wire[w], highest)
    PROVE  Below(wire[w], highest + 1)
BY WireTypes DEF Below

\* Frames are offered to live responses only.
LEMMA OfferLiveDelivers ==
    ASSUME IInv, NEW fs \in Seq(Frames), OfferLive(fs)
    PROVE  /\ wire' \in [Watchers -> Seq(Frames)]
           /\ backlog' \in [Watchers -> 0 .. MaxBacklog]
           /\ gapDue' \in [Watchers -> BOOLEAN]
           /\ saidEnd' \in [Watchers -> BOOLEAN]
           /\ \A w \in Watchers : conn[w] = "live" => Delivered(w, fs)
           /\ \A w \in Watchers : conn[w] # "live" =>
                 /\ wire'[w] = wire[w] /\ (gapDue'[w] => gapDue[w])
                 /\ gapDue'[w] => backlog'[w] = MaxBacklog
<1> DEFINE offered == [w \in Watchers |-> IF conn[w] = "live" THEN fs ELSE <<>>]
<1>1. offered \in [Watchers -> Seq(Frames)]
  OBVIOUS
<1>2. Typed /\ \A w \in Watchers : ConnOK(w)
  BY DEF IInv
<1>3. Offer(offered)
  BY DEF OfferLive
<1> HIDE DEF offered
<1>4. /\ wire' \in [Watchers -> Seq(Frames)]
      /\ backlog' \in [Watchers -> 0 .. MaxBacklog]
      /\ gapDue' \in [Watchers -> BOOLEAN]
      /\ saidEnd' \in [Watchers -> BOOLEAN]
      /\ \A w \in Watchers : Delivered(w, offered[w])
  BY <1>1, <1>2, <1>3, OfferDelivers
<1>5. ASSUME NEW w \in Watchers, conn[w] = "live" PROVE Delivered(w, fs)
  <2>1. offered[w] = fs
    BY <1>5 DEF offered
  <2>2. PICK m \in 0 .. Len(offered[w]) : Prefix(w, offered[w], m)
    BY <1>4 DEF Delivered
  <2>3. m \in 0 .. Len(fs) /\ Prefix(w, fs, m)
    BY <2>1, <2>2 DEF Prefix
  <2> QED
    BY <2>3 DEF Delivered
<1>6. ASSUME NEW w \in Watchers, conn[w] # "live" PROVE Delivered(w, <<>>)
  <2>1. offered[w] = <<>>
    BY <1>6 DEF offered
  <2>2. PICK m \in 0 .. Len(offered[w]) : Prefix(w, offered[w], m)
    BY <1>4 DEF Delivered
  <2>3. m \in 0 .. Len(<<>>) /\ Prefix(w, <<>>, m)
    BY <2>1, <2>2 DEF Prefix
  <2> QED
    BY <2>3 DEF Delivered
<1> QED
  BY <1>2, <1>4, <1>5, <1>6, NothingDelivered

\* An event published reaches each live wire or is owed for.
LEMMA PublishKeeps == IInv /\ Publish => IInv'
<1> SUFFICES ASSUME IInv, Publish PROVE IInv'
  OBVIOUS
<1>1. /\ row = "active" /\ stream = "open" /\ highest' = highest + 1
      /\ highest < MaxEvents /\ highest \in Nat /\ MaxEvents \in Nat
      /\ OfferLive(<<Event(highest + 1)>>)
      /\ UNCHANGED <<row, stream, draining, conn, route, clientVars, bounds>>
  BY StreamAssumption DEF Publish, IInv, Typed
<1>2. Event(highest + 1) \in Frames /\ <<Event(highest + 1)>> \in Seq(Frames)
  BY <1>1, FramesAreFrames
<1>3. /\ wire' \in [Watchers -> Seq(Frames)]
      /\ backlog' \in [Watchers -> 0 .. MaxBacklog]
      /\ gapDue' \in [Watchers -> BOOLEAN]
      /\ saidEnd' \in [Watchers -> BOOLEAN]
      /\ \A w \in Watchers : conn[w] = "live" => Delivered(w, <<Event(highest + 1)>>)
      /\ \A w \in Watchers : conn[w] # "live" =>
            /\ wire'[w] = wire[w] /\ (gapDue'[w] => gapDue[w])
            /\ gapDue'[w] => backlog'[w] = MaxBacklog
  BY <1>1, <1>2, OfferLiveDelivers
<1>4. Typed'
  BY <1>1, <1>3 DEF IInv, Typed, clientVars, bounds
<1>5. ServerOK'
  BY <1>1 DEF IInv, ServerOK
<1>6. ASSUME NEW w \in Watchers PROVE ConnOK(w)' /\ WireOK(w)' /\ ToldOK(w)'
  <2> DEFINE q == wire[w]
  <2>1. ToldOK(w)'
    BY <1>1 DEF IInv, ToldOK, clientVars
  <2>2. CASE conn[w] # "live"
    <3>1. conn[w] \in {"none", "opening"} /\ wire[w] = <<>> /\ ~gapDue[w]
      BY <1>1, <2>2, OpenWires DEF IInv, ConnOK
    <3>2. conn'[w] \in {"none", "opening"} /\ wire'[w] = <<>> /\ ~gapDue'[w]
      BY <1>1, <1>3, <2>2, <3>1
    <3>3. cursor'[w] <= highest'
      BY <1>1, WireTypes DEF IInv, WireOK, clientVars
    <3>4. ConnOK(w)'
      BY <1>1, <3>2 DEF IInv, ConnOK, clientVars
    <3> QED
      BY <2>1, <3>2, <3>3, <3>4, NothingUnderWay
  <2>3. CASE conn[w] = "live"
    <3>1. /\ gapDue'[w] => backlog'[w] = MaxBacklog
          /\ \/ gapDue'[w] /\ wire'[w] = q
             \/ /\ ~gapDue'[w] /\ ~gapDue[w]
                /\ Extended(q, wire'[w], Event(highest + 1))
      BY <1>2, <1>3, <2>3, FrameDelivered DEF IInv
    <3>2. ConnOK(w)'
      BY <1>1, <2>3, <3>1 DEF IInv, ConnOK, clientVars
    <3>3. CASE gapDue'[w] /\ wire'[w] = q
      <4>1. Below(q, highest + 1) /\ cursor[w] <= highest + 1
        BY <1>1, BelowGrows, WireTypes DEF IInv, WireOK
      <4>2. Unended(q)
        BY <1>1, OpenWires
      <4> QED
        BY <1>1, <2>1, <3>2, <3>3, <4>1, <4>2 DEF IInv, WireOK, Unended, clientVars
    <3>4. CASE ~gapDue'[w] /\ ~gapDue[w] /\ Extended(q, wire'[w], Event(highest + 1))
      <4>1. cursor[w] <= highest + 1
        BY <1>1, WireTypes DEF IInv, WireOK
      <4>2. /\ Joined(wire'[w]) /\ Follows(wire'[w], cursor[w], gapSeen[w])
            /\ Below(wire'[w], highest + 1) /\ Unended(wire'[w])
            /\ CatchesUp(wire'[w], cursor[w], gapSeen[w], highest + 1)
        BY <1>1, <2>3, <3>4, EventOffered
      <4> QED
        BY <1>1, <2>1, <3>2, <4>1, <4>2 DEF WireOK, Unended, clientVars
    <3> QED
      BY <3>1, <3>3, <3>4
  <2> QED
    BY <2>2, <2>3
<1> QED
  BY <1>4, <1>5, <1>6 DEF IInv

\* The responses are ended: a live one is finished, the others stay.
LEMMA FinishedResponses ==
    ASSUME Typed, FinishLive, NEW w \in Watchers
    PROVE  /\ conn' \in [Watchers -> {"none", "opening", "live", "finished"}]
           /\ conn[w] = "live" => conn'[w] = "finished"
           /\ conn[w] # "live" => conn'[w] = conn[w]
           /\ conn'[w] # "live"
BY DEF Typed, FinishLive

\* The last event and the end frame are delivered in order, or owed for.
LEMMA RunEndsKeeps == IInv /\ RunEnds => IInv'
<1> SUFFICES ASSUME IInv, RunEnds PROVE IInv'
  OBVIOUS
<1>1. /\ row = "active" /\ row' = "ended" /\ highest \in Nat /\ MaxEvents \in Nat
      /\ highest <= MaxEvents
      /\ UNCHANGED <<draining, route, clientVars, bounds>>
  BY StreamAssumption DEF RunEnds, IInv, Typed, ServerOK
<1>2. CASE stream # "open" /\ UNCHANGED <<stream, highest, writerVars, conn>>
  <2>1. Typed'
    BY <1>1, <1>2 DEF IInv, Typed, clientVars, bounds, writerVars
  <2>2. ServerOK'
    BY <1>1, <1>2 DEF ServerOK
  <2>3. ASSUME NEW w \in Watchers PROVE ConnOK(w)' /\ WireOK(w)' /\ ToldOK(w)'
    <3>1. ConnOK(w)'
      BY <1>1, <1>2 DEF IInv, ConnOK, clientVars, writerVars
    <3>2. WireOK(w)'
      BY <1>1, <1>2 DEF IInv, WireOK, clientVars, writerVars
    <3>3. ToldOK(w)'
      BY <1>1, <1>2 DEF IInv, ToldOK, clientVars, writerVars
    <3> QED
      BY <3>1, <3>2, <3>3
  <2> QED
    BY <2>1, <2>2, <2>3 DEF IInv
<1>3. CASE /\ stream = "open" /\ highest' = highest + 1 /\ stream' = "completed"
           /\ OfferLive(<<Event(highest + 1), EndFrame("completed")>>)
           /\ FinishLive
  <2> DEFINE ev == Event(highest + 1)
             end == EndFrame("completed")
  <2>1. /\ ev \in Frames /\ end \in Frames /\ <<ev, end>> \in Seq(Frames)
        /\ ~IsEvent(end) /\ end.kind = "end" /\ end.reason = "completed"
    BY <1>1, FramesAreFrames DEF Reasons
  <2> HIDE DEF ev, end
  <2>2. OfferLive(<<ev, end>>)
    BY <1>3 DEF ev, end
  <2>3. /\ wire' \in [Watchers -> Seq(Frames)]
        /\ backlog' \in [Watchers -> 0 .. MaxBacklog]
        /\ gapDue' \in [Watchers -> BOOLEAN]
        /\ saidEnd' \in [Watchers -> BOOLEAN]
        /\ \A w \in Watchers : conn[w] = "live" => Delivered(w, <<ev, end>>)
        /\ \A w \in Watchers : conn[w] # "live" =>
              /\ wire'[w] = wire[w] /\ (gapDue'[w] => gapDue[w])
              /\ gapDue'[w] => backlog'[w] = MaxBacklog
    BY <2>1, <2>2, OfferLiveDelivers
  <2>4. \A w \in Watchers :
           /\ conn' \in [Watchers -> {"none", "opening", "live", "finished"}]
           /\ conn[w] = "live" => conn'[w] = "finished"
           /\ conn[w] # "live" => conn'[w] = conn[w]
           /\ conn'[w] # "live"
    BY <1>3, FinishedResponses DEF IInv
  <2>5. Typed'
    <3>1. conn' \in [Watchers -> {"none", "opening", "live", "finished"}]
      BY <1>3 DEF IInv, Typed, FinishLive
    <3> QED
      BY <1>1, <1>3, <2>3, <3>1 DEF IInv, Typed, clientVars, bounds, Reasons
  <2>6. ServerOK'
    BY <1>1, <1>3 DEF ServerOK
  <2>7. ASSUME NEW w \in Watchers PROVE ConnOK(w)' /\ WireOK(w)' /\ ToldOK(w)'
    <3> DEFINE q == wire[w]
    <3>1. ToldOK(w)'
      BY <1>1, <1>3 DEF IInv, ToldOK, clientVars
    <3>2. cursor'[w] <= highest' /\ cursor'[w] = cursor[w]
      BY <1>1, <1>3, WireTypes DEF IInv, WireOK, clientVars
    <3>3. CASE conn[w] # "live"
      <4>1. conn[w] \in {"none", "opening"} /\ wire[w] = <<>> /\ ~gapDue[w]
        BY <1>3, <3>3, OpenWires DEF IInv, ConnOK
      <4>2. conn'[w] \in {"none", "opening"} /\ wire'[w] = <<>> /\ ~gapDue'[w]
        BY <2>3, <2>4, <3>3, <4>1
      <4>3. ConnOK(w)'
        BY <1>1, <1>3, <2>4, <3>3, <4>2 DEF IInv, ConnOK, clientVars
      <4> QED
        BY <3>1, <3>2, <4>2, <4>3, NothingUnderWay
    <3>4. CASE conn[w] = "live"
      <4>1. /\ gapDue'[w] => backlog'[w] = MaxBacklog
            /\ \/ gapDue'[w] /\ wire'[w] = q
               \/ gapDue'[w] /\ ~gapDue[w] /\ Extended(q, wire'[w], ev)
               \/ /\ ~gapDue'[w] /\ ~gapDue[w]
                  /\ \E r \in Seq(Frames) :
                        Extended(q, r, ev) /\ Extended(r, wire'[w], end)
        BY <2>1, <2>3, <3>4, TwoFramesDelivered DEF IInv
      <4>2. ConnOK(w)'
        BY <1>1, <1>3, <2>4, <3>4, <4>1 DEF IInv, ConnOK, clientVars
      <4>3. conn'[w] = "finished"
        BY <2>4, <3>4
      <4>4. CASE wire'[w] = q
        <5>1. Below(q, highest + 1) /\ Joined(q) /\ Follows(q, cursor[w], gapSeen[w])
          BY <1>3, BelowGrows DEF IInv, WireOK
        <5>2. Unended(q)
          BY <1>3, OpenWires
        <5> QED
          BY <1>1, <1>3, <3>1, <3>2, <4>2, <4>3, <4>4, <5>1, <5>2
             DEF WireOK, Unended, clientVars
      <4>5. CASE ~gapDue[w] /\ Extended(q, wire'[w], ev)
        <5>1. /\ Joined(wire'[w]) /\ Follows(wire'[w], cursor[w], gapSeen[w])
              /\ Below(wire'[w], highest + 1) /\ Unended(wire'[w])
          BY <1>3, <3>4, <4>5, EventOffered DEF ev
        <5> QED
          BY <1>1, <1>3, <3>1, <3>2, <4>2, <4>3, <5>1 DEF WireOK, Unended, clientVars
      <4>6. CASE /\ ~gapDue[w]
                 /\ \E r \in Seq(Frames) :
                       Extended(q, r, ev) /\ Extended(r, wire'[w], end)
        <5>1. PICK r \in Seq(Frames) :
                 Extended(q, r, ev) /\ Extended(r, wire'[w], end)
          BY <4>6
        <5>2. /\ Joined(r) /\ Follows(r, cursor[w], gapSeen[w])
              /\ Below(r, highest + 1) /\ Unended(r)
              /\ CatchesUp(r, cursor[w], gapSeen[w], highest + 1)
          BY <1>3, <3>4, <4>6, <5>1, EventOffered DEF ev
        <5>3. cursor[w] \in Nat /\ highest + 1 \in Nat
          BY <1>1, WireTypes DEF IInv
        <5>4. /\ Joined(wire'[w]) /\ Follows(wire'[w], cursor[w], gapSeen[w])
              /\ Below(wire'[w], highest + 1)
              /\ CatchesUp(wire'[w], cursor[w], gapSeen[w], highest + 1)
          BY <2>1, <5>1, <5>2, <5>3, OtherFrameFollows
        <5>5. \A i \in 1 .. Len(wire'[w]) : wire'[w][i].kind = "end" =>
                 i = Len(wire'[w]) /\ wire'[w][i].reason = "completed"
          BY <2>1, <5>1, <5>2, EndComesLast
        <5> QED
          BY <1>1, <1>3, <3>1, <3>2, <4>2, <4>3, <5>4, <5>5 DEF WireOK, clientVars
      <4> QED
        BY <4>1, <4>4, <4>5, <4>6
    <3> QED
      BY <3>3, <3>4
  <2> QED
    BY <2>5, <2>6, <2>7 DEF IInv
<1>4. \/ stream # "open" /\ UNCHANGED <<stream, highest, writerVars, conn>>
      \/ /\ stream = "open" /\ highest' = highest + 1 /\ stream' = "completed"
         /\ OfferLive(<<Event(highest + 1), EndFrame("completed")>>)
         /\ FinishLive
  BY DEF RunEnds
<1> QED
  BY <1>2, <1>3, <1>4

\* The drain's end frame is the last on every live wire, or owed for.
LEMMA ShutdownKeeps == IInv /\ Shutdown => IInv'
<1> SUFFICES ASSUME IInv, Shutdown PROVE IInv'
  OBVIOUS
<1>1. draining' = TRUE /\ UNCHANGED <<row, highest, route, clientVars, bounds>>
  BY DEF Shutdown
<1>2. CASE stream # "open" /\ UNCHANGED <<stream, writerVars, conn>>
  <2>1. Typed'
    BY <1>1, <1>2 DEF IInv, Typed, clientVars, bounds, writerVars
  <2>2. ServerOK'
    BY <1>1, <1>2 DEF IInv, ServerOK
  <2>3. ASSUME NEW w \in Watchers PROVE ConnOK(w)' /\ WireOK(w)' /\ ToldOK(w)'
    BY <1>1, <1>2, Untouched DEF clientVars, writerVars
  <2> QED
    BY <2>1, <2>2, <2>3 DEF IInv
<1>3. CASE /\ stream = "open" /\ stream' = "draining"
           /\ OfferLive(<<EndFrame("draining")>>) /\ FinishLive
  <2> DEFINE end == EndFrame("draining")
  <2>1. /\ end \in Frames /\ <<end>> \in Seq(Frames)
        /\ ~IsEvent(end) /\ end.kind = "end" /\ end.reason = "draining"
    BY FramesAreFrames DEF Reasons
  <2> HIDE DEF end
  <2>2. OfferLive(<<end>>)
    BY <1>3 DEF end
  <2>3. /\ wire' \in [Watchers -> Seq(Frames)]
        /\ backlog' \in [Watchers -> 0 .. MaxBacklog]
        /\ gapDue' \in [Watchers -> BOOLEAN]
        /\ saidEnd' \in [Watchers -> BOOLEAN]
        /\ \A w \in Watchers : conn[w] = "live" => Delivered(w, <<end>>)
        /\ \A w \in Watchers : conn[w] # "live" =>
              /\ wire'[w] = wire[w] /\ (gapDue'[w] => gapDue[w])
              /\ gapDue'[w] => backlog'[w] = MaxBacklog
    BY <2>1, <2>2, OfferLiveDelivers
  <2>4. \A w \in Watchers :
           /\ conn' \in [Watchers -> {"none", "opening", "live", "finished"}]
           /\ conn[w] = "live" => conn'[w] = "finished"
           /\ conn[w] # "live" => conn'[w] = conn[w]
           /\ conn'[w] # "live"
    BY <1>3, FinishedResponses DEF IInv
  <2>5. Typed'
    <3>1. conn' \in [Watchers -> {"none", "opening", "live", "finished"}]
      BY <1>3 DEF IInv, Typed, FinishLive
    <3> QED
      BY <1>1, <1>3, <2>3, <3>1 DEF IInv, Typed, clientVars, bounds, Reasons
  <2>6. ServerOK'
    BY <1>1, <1>3 DEF IInv, ServerOK
  <2>7. ASSUME NEW w \in Watchers PROVE ConnOK(w)' /\ WireOK(w)' /\ ToldOK(w)'
    <3> DEFINE q == wire[w]
    <3>1. ToldOK(w)'
      BY <1>1, <1>3 DEF IInv, ToldOK, clientVars
    <3>2. cursor'[w] <= highest' /\ cursor'[w] = cursor[w]
      BY <1>1, <1>3 DEF IInv, WireOK, clientVars
    <3>3. CASE conn[w] # "live"
      <4>1. conn[w] \in {"none", "opening"} /\ wire[w] = <<>> /\ ~gapDue[w]
        BY <1>3, <3>3, OpenWires DEF IInv, ConnOK
      <4>2. conn'[w] \in {"none", "opening"} /\ wire'[w] = <<>> /\ ~gapDue'[w]
        BY <2>3, <2>4, <3>3, <4>1
      <4>3. ConnOK(w)'
        BY <1>1, <1>3, <2>4, <3>3, <4>2 DEF IInv, ConnOK, clientVars
      <4> QED
        BY <3>1, <3>2, <4>2, <4>3, NothingUnderWay
    <3>4. CASE conn[w] = "live"
      <4>1. /\ gapDue'[w] => backlog'[w] = MaxBacklog
            /\ \/ gapDue'[w] /\ wire'[w] = q
               \/ ~gapDue'[w] /\ ~gapDue[w] /\ Extended(q, wire'[w], end)
        BY <2>1, <2>3, <3>4, FrameDelivered DEF IInv
      <4>2. ConnOK(w)'
        BY <1>1, <1>3, <2>4, <3>4, <4>1 DEF IInv, ConnOK, clientVars
      <4>3. conn'[w] = "finished"
        BY <2>4, <3>4
      <4>4. /\ Below(q, highest) /\ Joined(q) /\ Follows(q, cursor[w], gapSeen[w])
            /\ Unended(q)
        BY <1>3, OpenWires DEF IInv, WireOK
      <4>5. CASE wire'[w] = q
        BY <1>1, <1>3, <3>1, <3>2, <4>2, <4>3, <4>4, <4>5 DEF WireOK, Unended, clientVars
      <4>6. CASE Extended(q, wire'[w], end)
        <5>1. q \in Seq(Frames) /\ cursor[w] \in Nat /\ highest \in Nat /\ Len(q) \in Nat
          BY WireTypes DEF IInv
        <5>2. /\ Joined(wire'[w]) /\ Follows(wire'[w], cursor[w], gapSeen[w])
              /\ Below(wire'[w], highest)
          BY <2>1, <4>4, <4>6, <5>1, OtherFrameFollows
        <5>3. \A i \in 1 .. Len(wire'[w]) : wire'[w][i].kind = "end" =>
                 i = Len(wire'[w]) /\ wire'[w][i].reason = "draining"
          BY <2>1, <4>4, <4>6, <5>1, EndComesLast
        <5> QED
          BY <1>1, <1>3, <3>1, <3>2, <4>2, <4>3, <5>2, <5>3 DEF WireOK, clientVars
      <4> QED
        BY <4>1, <4>5, <4>6
    <3> QED
      BY <3>3, <3>4
  <2> QED
    BY <2>5, <2>6, <2>7 DEF IInv
<1> QED
  BY <1>2, <1>3 DEF Shutdown

\* A new process has nothing to lose, and its row is terminal.
LEMMA RestartKeeps == IInv /\ Restart => IInv'
<1> SUFFICES ASSUME IInv, Restart PROVE IInv'
  OBVIOUS
<1>1. Typed'
  <2>1. /\ wire' \in [Watchers -> Seq(Frames)]
        /\ conn' \in [Watchers -> {"none", "opening", "live", "finished"}]
    BY DEF Restart
  <2>2. backlog' \in [Watchers -> 0 .. MaxBacklog] /\ highest' \in 0 .. MaxEvents + 1
    BY StreamAssumption DEF Restart
  <2>3. gapDue' \in [Watchers -> BOOLEAN] /\ saidEnd' \in [Watchers -> BOOLEAN]
    BY DEF Restart
  <2>4. restarts' \in 0 .. MaxRestarts
    BY StreamAssumption DEF IInv, Typed, Restart
  <2>5. row' = "ended" /\ stream' = "none" /\ draining' = FALSE
    BY DEF Restart
  <2>6. UNCHANGED <<route, cursor, gapSeen, told, drops>>
    BY DEF Restart, clientVars
  <2> QED
    BY <2>1, <2>2, <2>3, <2>4, <2>5, <2>6 DEF IInv, Typed
<1>2. ServerOK'
  BY DEF ServerOK, Restart
<1>3. ASSUME NEW w \in Watchers PROVE ConnOK(w)' /\ WireOK(w)' /\ ToldOK(w)'
  <2>1. wire'[w] = <<>> /\ conn'[w] = "none" /\ stream' = "none" /\ row' = "ended"
    BY DEF Restart
  <2>2. ~gapDue'[w]
    BY DEF Restart
  <2>3. told'[w] = told[w]
    BY DEF Restart, clientVars
  <2>4. ConnOK(w)' /\ ToldOK(w)'
    BY <2>1, <2>2 DEF ConnOK, ToldOK
  <2>5. WireOK(w)'
    BY <2>1, <2>2, NothingUnderWay
  <2> QED
    BY <2>4, <2>5
<1> QED
  BY <1>1, <1>2, <1>3 DEF IInv

\* A request may open the stream of a run that publishes, for nobody yet.
LEMMA ConnectKeeps == \A w \in Watchers : IInv /\ Connect(w) => IInv'
<1> SUFFICES ASSUME NEW w \in Watchers, IInv, Connect(w) PROVE IInv'
  OBVIOUS
<1>1. /\ conn[w] = "none" /\ told[w] = "no" /\ conn' = [conn EXCEPT ![w] = "opening"]
      /\ route' = [route EXCEPT ![w] = row]
      /\ UNCHANGED <<row, highest, draining, writerVars, clientVars, bounds>>
  BY DEF Connect
<1>2. stream' = stream \/ (row = "active" /\ stream = "none" /\ stream' = "open")
  BY DEF Connect
<1>3. Typed'
  BY <1>1, <1>2 DEF IInv, Typed, clientVars, bounds, writerVars
<1>4. ServerOK'
  BY <1>1, <1>2 DEF IInv, ServerOK
<1>5. ASSUME NEW v \in Watchers PROVE ConnOK(v)' /\ WireOK(v)' /\ ToldOK(v)'
  <2>1. /\ wire'[v] = wire[v] /\ gapDue' = gapDue /\ backlog' = backlog
        /\ cursor' = cursor /\ gapSeen' = gapSeen /\ told' = told
        /\ v # w => conn'[v] = conn[v] /\ route'[v] = route[v]
        /\ conn'[w] = "opening" /\ route'[w] = row
    BY <1>1 DEF IInv, Typed, clientVars, writerVars
  <2>2. CASE row = "active" /\ stream = "none" /\ stream' = "open"
    <3>1. wire[v] = <<>> /\ cursor[v] = 0 /\ conn[v] \notin {"live", "finished"}
      BY <2>2 DEF IInv, ConnOK
    <3>2. conn[v] \in {"none", "opening"}
      BY <3>1 DEF IInv, Typed
    <3>3. conn'[v] \in {"none", "opening"} /\ ~gapDue'[v] /\ cursor'[v] <= highest'
      BY <1>1, <2>1, <3>1, <3>2, WireTypes DEF IInv, ConnOK
    <3>4. ConnOK(v)'
      BY <1>1, <2>1, <2>2, <3>1, <3>3 DEF IInv, ConnOK
    <3>5. ToldOK(v)'
      BY <2>1, <2>2 DEF IInv, ToldOK
    <3> QED
      BY <2>1, <3>1, <3>3, <3>4, <3>5, NothingUnderWay
  <2>3. CASE stream' = stream /\ v # w
    BY <1>1, <2>1, <2>3, Untouched
  <2>4. CASE stream' = stream /\ v = w
    <3>1. row \in {"active", "ended"} /\ ~(row = "active" /\ stream = "none")
      BY <2>4 DEF IInv, Typed, Connect
    <3>2. wire'[v] = <<>> /\ ~gapDue'[v] /\ conn'[v] = "opening"
      BY <1>1, <2>1, <2>4 DEF IInv, ConnOK
    <3>3. stream' # "none" => cursor'[v] <= highest'
      BY <1>1, <2>1, <2>4 DEF IInv, WireOK
    <3>4. ConnOK(v)'
      BY <1>1, <2>1, <2>4, <3>1, <3>2 DEF IInv, ConnOK
    <3>5. ToldOK(v)'
      BY <1>1, <2>1, <2>4 DEF ToldOK
    <3> QED
      BY <3>2, <3>3, <3>4, <3>5, NothingUnderWay
  <2> QED
    BY <1>2, <2>2, <2>3, <2>4
<1> QED
  BY <1>3, <1>4, <1>5 DEF IInv

\* A request refused tells its watcher so; nothing else changes.
LEMMA RefusedKeeps == \A w \in Watchers : IInv /\ Refused(w) => IInv'
<1> SUFFICES ASSUME NEW w \in Watchers, IInv, Refused(w) PROVE IInv'
  OBVIOUS
<1>1. /\ conn[w] = "none" /\ told' = [told EXCEPT ![w] = "lost"]
      /\ UNCHANGED <<row, stream, highest, draining, conn, route, wire, backlog,
                     gapDue, saidEnd, cursor, gapSeen, drops, restarts>>
  BY DEF Refused, serverVars, writerVars, bounds
<1>2. Typed'
  BY <1>1 DEF IInv, Typed
<1>3. ServerOK'
  BY <1>1 DEF IInv, ServerOK
<1>4. ASSUME NEW v \in Watchers PROVE ConnOK(v)' /\ WireOK(v)' /\ ToldOK(v)'
  <2>1. told'[v] = IF v = w THEN "lost" ELSE told[v]
    BY <1>1 DEF IInv, Typed
  <2>2. WireOK(v)'
    BY <1>1 DEF IInv, WireOK
  <2>3. ConnOK(v)'
    BY <1>1, <2>1 DEF IInv, ConnOK
  <2>4. ToldOK(v)'
    BY <1>1, <2>1 DEF IInv, ToldOK
  <2> QED
    BY <2>2, <2>3, <2>4
<1> QED
  BY <1>2, <1>3, <1>4 DEF IInv

\* The writer's socket drains: the gap it owed is on the wire.
LEMMA SocketDrainsKeeps == \A w \in Watchers : IInv /\ SocketDrains(w) => IInv'
<1> SUFFICES ASSUME NEW w \in Watchers, IInv, SocketDrains(w) PROVE IInv'
  OBVIOUS
<1>1. /\ conn[w] = "live" /\ backlog' = [backlog EXCEPT ![w] = 0]
      /\ gapDue' = [gapDue EXCEPT ![w] = FALSE]
      /\ wire' = IF gapDue[w] THEN [wire EXCEPT ![w] = Append(@, GapFrame)] ELSE wire
      /\ UNCHANGED <<row, stream, highest, draining, conn, route, saidEnd, cursor,
                     gapSeen, told, drops, restarts>>
  BY DEF SocketDrains, serverVars, clientVars, bounds
<1> DEFINE q == wire[w]
<1>2. /\ q \in Seq(Frames) /\ Len(q) \in Nat /\ cursor[w] \in Nat /\ highest \in Nat
      /\ Extended(q, Append(q, GapFrame), GapFrame)
      /\ Append(q, GapFrame) \in Seq(Frames)
  BY WireTypes, FramesAreFrames, AppendExtends, AppendProperties DEF IInv
<1>3. wire' \in [Watchers -> Seq(Frames)] /\ \A v \in Watchers \ {w} : wire'[v] = wire[v]
  BY <1>1, <1>2 DEF IInv, Typed
<1>4. Typed'
  <2>1. gapDue' \in [Watchers -> BOOLEAN]
    BY <1>1 DEF IInv, Typed
  <2>2. backlog' \in [Watchers -> 0 .. MaxBacklog]
    BY <1>1, StreamAssumption DEF IInv, Typed
  <2> QED
    BY <1>1, <1>3, <2>1, <2>2 DEF IInv, Typed
<1>5. ServerOK'
  BY <1>1 DEF IInv, ServerOK
<1>6. ASSUME NEW v \in Watchers, v # w PROVE ConnOK(v)' /\ WireOK(v)' /\ ToldOK(v)'
  <2>1. backlog'[v] = backlog[v] /\ gapDue'[v] = gapDue[v] /\ wire'[v] = wire[v]
    BY <1>1, <1>3, <1>6 DEF IInv, Typed
  <2> QED
    BY <1>1, <2>1, Untouched
<1>7. ConnOK(w)' /\ WireOK(w)' /\ ToldOK(w)'
  <2>1. ~gapDue'[w] /\ stream = "open"
    BY <1>1 DEF IInv, Typed, ConnOK
  <2>2. ConnOK(w)'
    BY <1>1, <2>1 DEF IInv, ConnOK
  <2>3. ToldOK(w)'
    BY <1>1 DEF IInv, ToldOK
  <2>4. /\ Joined(q) /\ Follows(q, cursor[w], gapSeen[w])
        /\ cursor[w] <= highest /\ Below(q, highest) /\ Unended(q)
    BY <2>1, OpenWires DEF IInv, WireOK
  <2>5. CASE gapDue[w]
    <3>1. Extended(q, wire'[w], GapFrame)
      <4>1. wire'[w] = Append(q, GapFrame)
        BY <1>1, <2>5 DEF IInv, Typed
      <4> QED
        BY <1>2, <4>1 DEF Extended
    <3>2. /\ Joined(wire'[w]) /\ Follows(wire'[w], cursor[w], gapSeen[w])
          /\ Below(wire'[w], highest)
      BY <1>2, <2>4, <3>1, OtherFrameFollows, FramesAreFrames
    <3>3. CatchesUp(wire'[w], cursor[w], gapSeen[w], highest)
      BY <1>2, <3>1, GapCatchesUp
    <3>4. \A i \in 1 .. Len(wire'[w]) : wire'[w][i].kind # "end"
      <4>1. \A i \in 1 .. Len(wire'[w]) : wire'[w][i].kind = "end" => wire'[w][i] = GapFrame
        BY <1>2, <2>4, <3>1, EndComesLast
      <4>2. GapFrame.kind # "end"
        BY DEF GapFrame
      <4> QED
        BY <4>1, <4>2
    <3>5. WireOK(w)'
      BY <1>1, <2>4, <3>2, <3>3, <3>4 DEF WireOK
    <3> QED
      BY <2>2, <2>3, <3>5
  <2>6. CASE ~gapDue[w]
    <3>1. WireOK(w)'
      BY <1>1, <2>6 DEF IInv, WireOK
    <3> QED
      BY <2>2, <2>3, <3>1
  <2> QED
    BY <2>5, <2>6
<1> QED
  BY <1>4, <1>5, <1>6, <1>7 DEF IInv

\* A heartbeat may fill the backlog; it carries nothing.
LEMMA HeartbeatKeeps == \A w \in Watchers : IInv /\ Heartbeat(w) => IInv'
<1> SUFFICES ASSUME NEW w \in Watchers, IInv, Heartbeat(w) PROVE IInv'
  OBVIOUS
<1>1. /\ conn[w] = "live" /\ backlog[w] < MaxBacklog
      /\ backlog' = [backlog EXCEPT ![w] = @ + 1]
      /\ UNCHANGED <<row, stream, highest, draining, conn, route, wire, gapDue, saidEnd,
                     cursor, gapSeen, told, drops, restarts>>
  BY DEF Heartbeat, serverVars, clientVars, bounds
<1>2. Typed'
  BY <1>1, StreamAssumption DEF IInv, Typed
<1>3. ServerOK'
  BY <1>1 DEF IInv, ServerOK
<1>4. ASSUME NEW v \in Watchers PROVE ConnOK(v)' /\ WireOK(v)' /\ ToldOK(v)'
  <2>1. WireOK(v)' /\ ToldOK(v)'
    BY <1>1 DEF IInv, WireOK, ToldOK
  <2>2. gapDue[v] => backlog'[v] = MaxBacklog
    BY <1>1, StreamAssumption DEF IInv, Typed, ConnOK
  <2>3. ConnOK(v)'
    BY <1>1, <2>2 DEF IInv, ConnOK
  <2> QED
    BY <2>1, <2>3
<1> QED
  BY <1>2, <1>3, <1>4 DEF IInv

\* A response that is gone takes with it what it carried; its watcher keeps
\* what it has seen.
LEMMA HangupKeeps ==
    ASSUME IInv, NEW w \in Watchers, Hangup(w),
           UNCHANGED <<row, stream, highest, draining, route, cursor, gapSeen, restarts>>,
           told' \in [Watchers -> {"no", "lost"} \cup Reasons],
           \A v \in Watchers \ {w} : told'[v] = told[v],
           ToldOK(w)', drops' \in 0 .. MaxDrops
    PROVE  IInv'
<1>1. /\ conn' = [conn EXCEPT ![w] = "none"] /\ wire' = [wire EXCEPT ![w] = <<>>]
      /\ backlog' = [backlog EXCEPT ![w] = 0] /\ gapDue' = [gapDue EXCEPT ![w] = FALSE]
      /\ saidEnd' = [saidEnd EXCEPT ![w] = FALSE]
  BY DEF Hangup
<1>2. Typed'
  <2>1. gapDue' \in [Watchers -> BOOLEAN] /\ saidEnd' \in [Watchers -> BOOLEAN]
    BY <1>1 DEF IInv, Typed
  <2>2. backlog' \in [Watchers -> 0 .. MaxBacklog]
    BY <1>1, StreamAssumption DEF IInv, Typed
  <2>3. /\ wire' \in [Watchers -> Seq(Frames)]
        /\ conn' \in [Watchers -> {"none", "opening", "live", "finished"}]
    BY <1>1 DEF IInv, Typed
  <2> QED
    BY <2>1, <2>2, <2>3 DEF IInv, Typed
<1>3. ServerOK'
  BY DEF IInv, ServerOK
<1>4. ASSUME NEW v \in Watchers, v # w PROVE ConnOK(v)' /\ WireOK(v)' /\ ToldOK(v)'
  <2>1. /\ backlog'[v] = backlog[v] /\ gapDue'[v] = gapDue[v] /\ wire'[v] = wire[v]
        /\ conn'[v] = conn[v] /\ told'[v] = told[v]
    BY <1>1, <1>4 DEF IInv, Typed
  <2> QED
    BY <2>1, Untouched
<1>5. ConnOK(w)' /\ WireOK(w)'
  <2>1. wire'[w] = <<>> /\ conn'[w] = "none" /\ ~gapDue'[w]
    BY <1>1 DEF IInv, Typed
  <2>2. stream' # "none" => cursor'[w] <= highest'
    BY DEF IInv, WireOK
  <2>3. ConnOK(w)'
    BY <2>1 DEF IInv, ConnOK
  <2> QED
    BY <2>1, <2>2, <2>3, NothingUnderWay
<1> QED
  BY <1>2, <1>3, <1>4, <1>5 DEF IInv

\* The response ends without a word, and the browser will come back.
LEMMA ResponseEndsKeeps == \A w \in Watchers : IInv /\ ResponseEnds(w) => IInv'
<1> SUFFICES ASSUME NEW w \in Watchers, IInv, ResponseEnds(w) PROVE IInv'
  OBVIOUS
<1>1. /\ Hangup(w)
      /\ UNCHANGED <<row, stream, highest, draining, route, cursor, gapSeen, told,
                     drops, restarts>>
  BY DEF ResponseEnds, serverVars, clientVars, bounds
<1>2. told' \in [Watchers -> {"no", "lost"} \cup Reasons] /\ drops' \in 0 .. MaxDrops
  BY <1>1 DEF IInv, Typed
<1>3. ToldOK(w)'
  BY <1>1 DEF IInv, ToldOK
<1> QED
  BY <1>1, <1>2, <1>3, HangupKeeps

\* The network loses what the response still carried.
LEMMA DisconnectKeeps == \A w \in Watchers : IInv /\ Disconnect(w) => IInv'
<1> SUFFICES ASSUME NEW w \in Watchers, IInv, Disconnect(w) PROVE IInv'
  OBVIOUS
<1>1. /\ Hangup(w) /\ drops < MaxDrops /\ drops' = drops + 1
      /\ UNCHANGED <<row, stream, highest, draining, route, cursor, gapSeen, told,
                     restarts>>
  BY DEF Disconnect, serverVars, clientVars
<1>2. told' \in [Watchers -> {"no", "lost"} \cup Reasons] /\ drops' \in 0 .. MaxDrops
  BY <1>1, StreamAssumption DEF IInv, Typed
<1>3. ToldOK(w)'
  BY <1>1 DEF IInv, ToldOK
<1> QED
  BY <1>1, <1>2, <1>3, HangupKeeps

\* What the browser reads: the frame at the head of the wire.
LEMMA ReadFrame ==
    ASSUME IInv, NEW w \in Watchers, wire[w] # <<>>
    PROVE  /\ Head(wire[w]) = wire[w][1] /\ Head(wire[w]) \in Frames
           /\ Tail(wire[w]) \in Seq(Frames) /\ Len(wire[w]) \in Nat \ {0}
           /\ Len(Tail(wire[w])) = Len(wire[w]) - 1
           /\ \A i \in 1 .. Len(Tail(wire[w])) :
                 i + 1 \in 1 .. Len(wire[w]) /\ Tail(wire[w])[i] = wire[w][i + 1]
           /\ told[w] = "no" /\ stream # "none" /\ conn[w] \in {"live", "finished"}
<1>1. wire[w] \in Seq(Frames) /\ conn[w] \in {"none", "opening", "live", "finished"}
  BY DEF IInv, Typed
<1>2. /\ Head(wire[w]) = wire[w][1] /\ Len(wire[w]) \in Nat \ {0}
      /\ Tail(wire[w]) \in Seq(Frames) /\ Len(Tail(wire[w])) = Len(wire[w]) - 1
  BY <1>1, HeadTailProperties, EmptySeq, LenProperties
<1>3. wire[w][1] \in Frames
  BY <1>1, <1>2, ElementOfSeq
<1>4. told[w] = "no" /\ stream # "none" /\ conn[w] \in {"live", "finished"}
  BY <1>1 DEF IInv, ConnOK
<1>5. \A i \in 1 .. Len(Tail(wire[w])) :
         i + 1 \in 1 .. Len(wire[w]) /\ Tail(wire[w])[i] = wire[w][i + 1]
  BY <1>1, <1>2, HeadTailProperties
<1> QED
  BY <1>2, <1>3, <1>4, <1>5

\* A frame that is read and leaves the response open: the rest of the wire
\* follows what the watcher has seen now.
LEMMA ReadKeeps ==
    ASSUME IInv, NEW w \in Watchers, wire[w] # <<>>,
           wire' = [wire EXCEPT ![w] = Tail(@)],
           UNCHANGED <<row, stream, highest, draining, conn, route, backlog, gapDue,
                       saidEnd, told, drops, restarts>>,
           NEW c \in 0 .. highest, NEW g \in BOOLEAN,
           cursor' = [cursor EXCEPT ![w] = c], gapSeen' = [gapSeen EXCEPT ![w] = g],
           Joined(Tail(wire[w])), Follows(Tail(wire[w]), c, g),
           EndsAt(wire[w], highest) => CatchesUp(Tail(wire[w]), c, g, highest)
    PROVE  IInv'
<1> DEFINE q == wire[w]
           r == Tail(wire[w])
<1>1. /\ Len(q) \in Nat \ {0} /\ r \in Seq(Frames) /\ Len(r) = Len(q) - 1
      /\ \A i \in 1 .. Len(r) : i + 1 \in 1 .. Len(q) /\ r[i] = q[i + 1]
      /\ told[w] = "no" /\ stream # "none" /\ conn[w] \in {"live", "finished"}
  BY ReadFrame
<1>2. wire'[w] = r /\ \A v \in Watchers \ {w} : wire'[v] = wire[v]
  BY DEF IInv, Typed
<1>3. cursor'[w] = c /\ \A v \in Watchers \ {w} : cursor'[v] = cursor[v]
  BY DEF IInv, Typed
<1>4. gapSeen'[w] = g /\ \A v \in Watchers \ {w} : gapSeen'[v] = gapSeen[v]
  BY DEF IInv, Typed
<1>5. Typed'
  <2>1. wire' \in [Watchers -> Seq(Frames)]
    BY <1>1 DEF IInv, Typed
  <2>2. cursor' \in [Watchers -> 0 .. MaxEvents + 1]
    <3>1. c \in 0 .. MaxEvents + 1
      BY StreamAssumption DEF IInv, Typed
    <3> QED
      BY <3>1 DEF IInv, Typed
  <2>3. gapSeen' \in [Watchers -> BOOLEAN]
    BY DEF IInv, Typed
  <2> QED
    BY <2>1, <2>2, <2>3 DEF IInv, Typed
<1>6. ServerOK'
  BY DEF IInv, ServerOK
<1>7. ASSUME NEW v \in Watchers, v # w PROVE ConnOK(v)' /\ WireOK(v)' /\ ToldOK(v)'
  BY <1>2, <1>3, <1>4, <1>7, Untouched
<1>8. ConnOK(w)' /\ ToldOK(w)'
  BY <1>1 DEF IInv, ConnOK, ToldOK
<1>9. WireOK(w)'
  <2>1. Below(r, highest) /\ c <= highest
    BY <1>1 DEF IInv, WireOK, Below
  <2>2. conn[w] = "live" => gapDue[w] \/ CatchesUp(r, c, g, highest)
    BY DEF IInv, WireOK, CatchesUp
  <2>3. \A i \in 1 .. Len(r) :
           r[i].kind = "end" =>
              /\ i = Len(r) /\ r[i].reason = stream
              /\ stream = "completed" => CatchesUp(r, c, g, highest)
    BY <1>1 DEF IInv, WireOK, CatchesUp
  <2> HIDE DEF q, r
  <2>4. Joined(r) /\ Follows(r, c, g)
    BY DEF r
  <2> QED
    BY <1>2, <1>3, <1>4, <2>1, <2>2, <2>3, <2>4 DEF WireOK
<1> QED
  BY <1>5, <1>6, <1>7, <1>8, <1>9 DEF IInv

\* An event or a gap frame is taken in; the end frame of a completed run
\* tells the watcher so only when nothing is missing, or it knows of a gap.
LEMMA ReceiveKeeps == \A w \in Watchers : IInv /\ Receive(w) => IInv'
<1> SUFFICES ASSUME NEW w \in Watchers, IInv, Receive(w) PROVE IInv'
  OBVIOUS
<1> DEFINE q == wire[w]
           f == Head(wire[w])
<1>1. /\ q # <<>>
      /\ UNCHANGED <<row, stream, highest, draining, route, drops, restarts>>
  BY DEF Receive, serverVars, bounds
<1>2. /\ f = q[1] /\ f \in Frames /\ Len(q) \in Nat \ {0} /\ q \in Seq(Frames)
      /\ told[w] = "no" /\ stream # "none" /\ 1 \in 1 .. Len(q)
  BY <1>1, ReadFrame DEF IInv, Typed
<1>3. /\ Joined(q) /\ Follows(q, cursor[w], gapSeen[w]) /\ cursor[w] <= highest
      /\ Below(q, highest)
  BY <1>2 DEF IInv, WireOK
<1>4. CASE /\ f.kind = "event"
           /\ cursor' = [cursor EXCEPT ![w] = f.id]
           /\ gapSeen' = [gapSeen EXCEPT ![w] = FALSE]
           /\ wire' = [wire EXCEPT ![w] = Tail(@)]
           /\ UNCHANGED <<told, conn, backlog, gapDue, saidEnd>>
  <2>1. IsEvent(q[1]) /\ q[1].id = f.id
    BY <1>2, <1>4 DEF IsEvent
  <2>2. f.id \in 0 .. highest
    <3>1. f.id \in Nat /\ f.id <= highest /\ highest \in Nat
      BY <1>2, <1>3, <2>1, WireTypes DEF IInv, Below
    <3> QED
      BY <3>1
  <2>3. /\ Joined(Tail(q)) /\ Follows(Tail(q), q[1].id, FALSE)
        /\ EndsAt(q, highest) => CatchesUp(Tail(q), q[1].id, FALSE, highest)
    BY <1>1, <1>2, <1>3, <2>1, ReadEvent
  <2>4. /\ Follows(Tail(q), f.id, FALSE)
        /\ EndsAt(q, highest) => CatchesUp(Tail(q), f.id, FALSE, highest)
    BY <2>1, <2>3
  <2> QED
    BY <1>1, <1>4, <2>2, <2>3, <2>4, ReadKeeps
<1>5. CASE /\ f.kind = "gap"
           /\ gapSeen' = [gapSeen EXCEPT ![w] = TRUE]
           /\ wire' = [wire EXCEPT ![w] = Tail(@)]
           /\ UNCHANGED <<told, cursor, conn, backlog, gapDue, saidEnd>>
  <2>1. ~IsEvent(q[1])
    BY <1>2, <1>5 DEF IsEvent
  <2>2. cursor[w] \in 0 .. highest /\ cursor' = [cursor EXCEPT ![w] = cursor[w]]
    BY <1>3, <1>5, WireTypes DEF IInv, Typed
  <2>3. /\ Joined(Tail(q)) /\ Follows(Tail(q), cursor[w], TRUE)
        /\ EndsAt(q, highest) => CatchesUp(Tail(q), cursor[w], TRUE, highest)
    BY <1>1, <1>2, <1>3, <2>1, ReadGap
  <2> QED
    BY <1>1, <1>5, <2>2, <2>3, ReadKeeps
<1>6. CASE /\ f.kind = "end"
           /\ told' = [told EXCEPT ![w] = f.reason]
           /\ Hangup(w)
           /\ UNCHANGED <<cursor, gapSeen>>
  <2>1. /\ 1 = Len(q) /\ f.reason = stream
        /\ stream = "completed" => CatchesUp(q, cursor[w], gapSeen[w], highest)
    BY <1>2, <1>6 DEF IInv, WireOK
  <2>2. stream \in Reasons
    BY <1>2, <1>6, <2>1 DEF Frames, EndFrame, GapFrame
  <2>3. /\ told' \in [Watchers -> {"no", "lost"} \cup Reasons]
        /\ \A v \in Watchers \ {w} : told'[v] = told[v]
        /\ told'[w] = stream
    BY <1>6, <2>1, <2>2 DEF IInv, Typed
  <2>4. ~Overtaken(q, 0)
    BY <1>2, <1>6, <2>1 DEF Overtaken, Mark
  <2>5. ToldOK(w)'
    BY <1>1, <1>6, <2>1, <2>3, <2>4 DEF ToldOK, CatchesUp
  <2>6. drops' \in 0 .. MaxDrops
    BY <1>1 DEF IInv, Typed
  <2> QED
    BY <1>1, <1>6, <2>3, <2>5, <2>6, HangupKeeps
<1> QED
  BY <1>4, <1>5, <1>6 DEF Receive

\* A response nothing is offered to stays as it is, whatever its backlog.
LEMMA OtherResponseKept ==
    ASSUME IInv, NEW v \in Watchers,
           UNCHANGED <<row, stream, highest, route, cursor, gapSeen, told>>,
           conn'[v] = conn[v], wire'[v] = wire[v], gapDue'[v] => gapDue[v],
           gapDue[v] => gapDue'[v], gapDue'[v] => backlog'[v] = MaxBacklog
    PROVE  ConnOK(v)' /\ WireOK(v)' /\ ToldOK(v)'
<1>1. ConnOK(v)'
  BY DEF IInv, ConnOK
<1>2. WireOK(v)'
  BY DEF IInv, WireOK
<1>3. ToldOK(v)'
  BY DEF IInv, ToldOK
<1> QED
  BY <1>1, <1>2, <1>3

\* The frames open(sink) writes to the response of w.
Greeting(w) == Replay(w) \o (IF Ended THEN <<EndFrame(stream)>> ELSE <<>>)

\* They follow what the watcher saw last and catch up with the stream, unless
\* it saw nothing and is live-only; only the last may be an end frame, which
\* says how the stream ended.
LEMMA GreetingFollows ==
    ASSUME IInv, NEW w \in Watchers, conn[w] = "opening"
    PROVE  LET f == Greeting(w) IN
           /\ f \in Seq(Frames)
           /\ Joined(f) /\ Follows(f, cursor[w], gapSeen[w]) /\ Below(f, highest)
           /\ stream # "none" =>
                 \/ CatchesUp(f, cursor[w], gapSeen[w], highest)
                 \/ stream = "open" /\ cursor[w] = 0 /\ EndsAt(f, highest)
           /\ stream = "none" => f = <<>>
           /\ \A i \in 1 .. Len(f) :
                 f[i].kind = "end" => i = Len(f) /\ f[i].reason = stream
<1> DEFINE c == cursor[w]
           g == gapSeen[w]
           p == Replay(w)
           f == Greeting(w)
<1>1. /\ c \in Nat /\ highest \in 0 .. MaxEvents + 1 /\ highest \in Nat
      /\ stream \in {"none", "open"} \cup Reasons
      /\ stream # "none" => c <= highest /\ c \in 0 .. highest
  BY WireTypes DEF IInv, Typed, WireOK
<1>2. /\ p \in Seq(Frames) /\ Joined(p) /\ Follows(p, c, g) /\ Below(p, highest)
      /\ Unended(p)
      /\ stream # "none" =>
            \/ CatchesUp(p, c, g, highest)
            \/ stream = "open" /\ c = 0 /\ EndsAt(p, highest)
      /\ stream = "none" => p = <<>>
  <2>1. CASE p = <<>> /\ (stream = "none" \/ (c = 0 /\ ~Ended))
    <3>1. stream # "none" => stream = "open" /\ c = 0
      BY <1>1, <2>1 DEF Ended
    <3>2. <<>> \in Seq(Frames)
      OBVIOUS
    <3> HIDE DEF p, c, g
    <3>3. /\ Joined(p) /\ Follows(p, c, g) /\ Below(p, highest) /\ Unended(p)
          /\ EndsAt(p, highest)
      BY <2>1, EmptyWire
    <3> QED
      BY <2>1, <3>1, <3>2, <3>3
  <2>2. CASE p = Resume(c) /\ stream # "none"
    <3>1. c \in 0 .. highest
      BY <1>1, <2>2
    <3> HIDE DEF c, g, p
    <3>2. /\ Resume(c) \in Seq(Frames) /\ Unended(Resume(c))
          /\ Joined(Resume(c)) /\ Follows(Resume(c), c, g) /\ Below(Resume(c), highest)
          /\ CatchesUp(Resume(c), c, g, highest)
      BY <1>1, <3>1, ResumeFollows
    <3> QED
      BY <2>2, <3>2
  <2> QED
    BY <2>1, <2>2 DEF Replay
<1>3. CASE ~Ended
  <2>1. f = p
    <3>1. f = p \o <<>>
      BY <1>3 DEF Greeting
    <3> QED
      BY <1>2, <3>1, ConcatEmptySeq
  <2> HIDE DEF c, g, p, f
  <2>2. \A i \in 1 .. Len(f) : f[i].kind # "end"
    BY <1>2, <2>1 DEF Unended
  <2> QED
    BY <1>2, <2>1, <2>2 DEF f, c, g
<1>4. CASE Ended
  <2> DEFINE e == EndFrame(stream)
  <2>1. /\ e \in Frames /\ ~IsEvent(e) /\ e.kind = "end" /\ e.reason = stream
        /\ stream # "none" /\ stream # "open"
    BY <1>4, FramesAreFrames DEF Ended, Reasons
  <2>2. f = p \o <<e>>
    BY <1>4 DEF Greeting
  <2> HIDE DEF c, g, p, f, e
  <2>3. f \in Seq(Frames) /\ Extended(p, f, e)
    <3>1. p \o <<e>> = Append(p, e)
      BY <1>2, <2>1
    <3>2. f = Append(p, e)
      BY <2>2, <3>1
    <3> QED
      BY <1>2, <2>1, <3>2, AppendExtends, AppendProperties
  <2>4. /\ Joined(f) /\ Follows(f, c, g) /\ Below(f, highest)
        /\ CatchesUp(f, c, g, highest)
    BY <1>1, <1>2, <2>1, <2>3, OtherFrameFollows
  <2>5. \A i \in 1 .. Len(f) : f[i].kind = "end" => i = Len(f) /\ f[i] = e
    BY <1>2, <2>3, EndComesLast
  <2> QED
    BY <2>1, <2>3, <2>4, <2>5 DEF f, c, g
<1> QED
  BY <1>3, <1>4

\* A subscription starts from what its watcher saw last.
LEMMA SubscribeKeeps == \A w \in Watchers : IInv /\ Subscribe(w) => IInv'
<1> SUFFICES ASSUME NEW w \in Watchers, IInv, Subscribe(w) PROVE IInv'
  OBVIOUS
<1> DEFINE f == Greeting(w)
           offered == [v \in Watchers |-> IF v # w THEN <<>> ELSE f]
           c == cursor[w]
           g == gapSeen[w]
<1>1. /\ conn[w] = "opening"
      /\ Offer(offered)
      /\ conn' = [conn EXCEPT ![w] =
                     IF Ended \/ route[w] = "ended" THEN "finished" ELSE "live"]
      /\ UNCHANGED <<row, stream, highest, draining, route, cursor, gapSeen, told,
                     drops, restarts>>
  BY DEF Subscribe, Greeting, serverVars, clientVars, bounds
<1>2. /\ f \in Seq(Frames)
      /\ Joined(f) /\ Follows(f, c, g) /\ Below(f, highest)
      /\ stream # "none" =>
            \/ CatchesUp(f, c, g, highest)
            \/ stream = "open" /\ c = 0 /\ EndsAt(f, highest)
      /\ stream = "none" => f = <<>>
      /\ \A i \in 1 .. Len(f) :
            f[i].kind = "end" => i = Len(f) /\ f[i].reason = stream
  BY <1>1, GreetingFollows
<1>3. offered \in [Watchers -> Seq(Frames)]
  BY <1>2
<1>4. Typed /\ \A v \in Watchers : ConnOK(v)
  BY DEF IInv
<1> HIDE DEF f, c, g
<1>5. /\ wire' \in [Watchers -> Seq(Frames)]
      /\ backlog' \in [Watchers -> 0 .. MaxBacklog]
      /\ gapDue' \in [Watchers -> BOOLEAN]
      /\ saidEnd' \in [Watchers -> BOOLEAN]
      /\ \A v \in Watchers : Delivered(v, offered[v])
  <2> HIDE DEF offered
  <2> QED
    BY <1>1, <1>3, <1>4, OfferDelivers
<1>6. Typed'
  <2>1. conn' \in [Watchers -> {"none", "opening", "live", "finished"}]
    BY <1>1 DEF IInv, Typed
  <2> QED
    BY <1>1, <1>5, <2>1 DEF IInv, Typed
<1>7. ServerOK'
  BY <1>1 DEF IInv, ServerOK
<1>8. ASSUME NEW v \in Watchers, v # w PROVE ConnOK(v)' /\ WireOK(v)' /\ ToldOK(v)'
  <2>1. Delivered(v, <<>>)
    <3>1. offered[v] = <<>>
      BY <1>8
    <3>2. PICK m \in 0 .. Len(offered[v]) : Prefix(v, offered[v], m)
      BY <1>5 DEF Delivered
    <3>3. m \in 0 .. Len(<<>>) /\ Prefix(v, <<>>, m)
      BY <3>1, <3>2 DEF Prefix
    <3> QED
      BY <3>3 DEF Delivered
  <2>2. /\ wire'[v] = wire[v] /\ (gapDue'[v] => gapDue[v])
        /\ gapDue[v] => gapDue'[v]
        /\ gapDue'[v] => backlog'[v] = MaxBacklog
    BY <1>4, <2>1, NothingDelivered
  <2>3. conn'[v] = conn[v]
    BY <1>1, <1>8 DEF IInv, Typed
  <2> QED
    BY <1>1, <1>8, <2>2, <2>3, OtherResponseKept
<1>9. ConnOK(w)' /\ WireOK(w)' /\ ToldOK(w)'
  <2>1. PICK m \in 0 .. Len(f) : Prefix(w, f, m)
    <3>1. offered[w] = f
      OBVIOUS
    <3>2. PICK m \in 0 .. Len(offered[w]) : Prefix(w, offered[w], m)
      BY <1>5 DEF Delivered
    <3>3. m \in 0 .. Len(f) /\ Prefix(w, f, m)
      BY <3>1, <3>2 DEF Prefix
    <3> QED
      BY <3>3
  <2> DEFINE r == SubSeq(f, 1, m)
  <2>2. /\ r \in Seq(Frames) /\ Len(r) = m /\ \A i \in 1 .. m : r[i] = f[i]
        /\ Joined(r) /\ Follows(r, c, g) /\ Below(r, highest)
    BY <1>2, <2>1, PrefixFollows
  <2>3. wire[w] = <<>> /\ ~gapDue[w] /\ told[w] = "no"
    BY <1>1 DEF IInv, ConnOK
  <2>4. wire'[w] = r
    <3>1. wire'[w] = <<>> \o r
      BY <2>1, <2>3 DEF Prefix
    <3> QED
      BY <2>2, <3>1, ConcatEmptySeq
  <2>5. /\ gapDue'[w] => backlog'[w] = MaxBacklog
        /\ ~gapDue'[w] => m = Len(f)
    BY <1>2, <2>1, <2>3, LenProperties DEF Prefix
  <2>6. m = Len(f) => r = f
    BY <1>2, SubSeqFull
  <2>7. /\ conn'[w] = IF Ended \/ route[w] = "ended" THEN "finished" ELSE "live"
        /\ stream \in {"none", "open"} \cup Reasons
        /\ route[w] \in {"active", "ended"}
    BY <1>1 DEF IInv, Typed
  <2>8. /\ conn'[w] = "live" => stream = "open"
        /\ conn'[w] = "finished" => stream # "open" /\ (stream = "none" => row = "ended")
    BY <1>1, <2>7 DEF IInv, ConnOK, ServerOK, Ended, Reasons
  <2> HIDE DEF r
  <2>9. stream = "none" => r = <<>>
    BY <1>2, <2>2, EmptySeq, LenProperties
  <2>10. ConnOK(w)'
    BY <1>1, <2>3, <2>4, <2>5, <2>7, <2>8, <2>9 DEF IInv, ConnOK
  <2>11. ToldOK(w)'
    BY <1>1, <2>3 DEF ToldOK
  <2>12. /\ Joined(wire'[w]) /\ Follows(wire'[w], c, g) /\ Below(wire'[w], highest)
    BY <2>2, <2>4
  <2>13. stream # "none" => c <= highest
    BY DEF IInv, WireOK, c
  <2>14. conn'[w] = "live" =>
            \/ gapDue'[w]
            \/ CatchesUp(wire'[w], c, g, highest)
            \/ c = 0 /\ EndsAt(wire'[w], highest)
    BY <1>2, <2>4, <2>5, <2>6, <2>8
  <2>15. \A i \in 1 .. Len(wire'[w]) :
            wire'[w][i].kind = "end" =>
               /\ i = Len(wire'[w]) /\ wire'[w][i].reason = stream
               /\ stream = "completed" => CatchesUp(wire'[w], c, g, highest)
    <3> SUFFICES ASSUME NEW i \in 1 .. m, r[i].kind = "end"
                 PROVE  /\ i = m /\ r[i].reason = stream
                        /\ stream = "completed" => CatchesUp(r, c, g, highest)
      BY <2>2, <2>4
    <3>1. i \in 1 .. Len(f) /\ f[i].kind = "end"
      BY <1>2, <2>2, LenProperties
    <3>2. i = Len(f) /\ f[i].reason = stream
      BY <1>2, <3>1
    <3>3. i = m /\ m = Len(f)
      BY <1>2, <3>2, LenProperties
    <3> QED
      BY <1>2, <2>2, <2>6, <3>2, <3>3
  <2>16. WireOK(w)'
    BY <1>1, <2>12, <2>13, <2>14, <2>15 DEF WireOK, c, g
  <2> QED
    BY <2>10, <2>11, <2>16
<1> QED
  BY <1>6, <1>7, <1>8, <1>9 DEF IInv

-----------------------------------------------------------------------------
(* The theorems.                                                           *)

\* A run nobody watches yet.
LEMMA InitIInv == Init => IInv
<1> SUFFICES ASSUME Init PROVE IInv
  OBVIOUS
<1>1. Typed
  <2>1. gapDue \in [Watchers -> BOOLEAN] /\ saidEnd \in [Watchers -> BOOLEAN]
    BY DEF Init
  <2>2. gapSeen \in [Watchers -> BOOLEAN] /\ draining \in BOOLEAN
    BY DEF Init
  <2>3. /\ wire \in [Watchers -> Seq(Frames)] /\ row \in {"active", "ended"}
        /\ stream \in {"none", "open"} \cup Reasons
    BY DEF Init
  <2>4. /\ conn \in [Watchers -> {"none", "opening", "live", "finished"}]
        /\ route \in [Watchers -> {"active", "ended"}]
        /\ told \in [Watchers -> {"no", "lost"} \cup Reasons]
    BY DEF Init
  <2>5. 0 \in 0 .. MaxEvents + 1 /\ 0 \in 0 .. MaxBacklog
    BY StreamAssumption
  <2>6. /\ cursor \in [Watchers -> 0 .. MaxEvents + 1]
        /\ backlog \in [Watchers -> 0 .. MaxBacklog]
    BY <2>5 DEF Init
  <2>7. /\ highest \in 0 .. MaxEvents + 1
        /\ drops \in 0 .. MaxDrops /\ restarts \in 0 .. MaxRestarts
    BY StreamAssumption DEF Init
  <2> QED
    BY <2>1, <2>2, <2>3, <2>4, <2>6, <2>7 DEF Typed
<1>2. ServerOK
  BY StreamAssumption DEF Init, ServerOK
<1>3. ASSUME NEW w \in Watchers PROVE ConnOK(w) /\ WireOK(w) /\ ToldOK(w)
  <2>1. wire[w] = <<>> /\ ~gapDue[w] /\ conn[w] = "none" /\ cursor[w] = 0
    BY <1>1 DEF Init, Typed
  <2>2. ConnOK(w) /\ ToldOK(w)
    BY <2>1 DEF Init, ConnOK, ToldOK
  <2>3. WireOK(w)
    <3>1. /\ Joined(wire[w]) /\ Follows(wire[w], cursor[w], gapSeen[w])
          /\ Unended(wire[w])
      BY <2>1 DEF Joined, Follows, Unended
    <3>2. stream = "none"
      BY DEF Init
    <3> QED
      BY <2>1, <3>1, <3>2 DEF WireOK, Unended
  <2> QED
    BY <2>2, <2>3
<1> QED
  BY <1>1, <1>2, <1>3 DEF IInv

\* Every step keeps the invariant.
LEMMA NextIInv == IInv /\ [Next]_vars => IInv'
<1> SUFFICES ASSUME IInv, [Next]_vars PROVE IInv'
  OBVIOUS
<1>1. CASE Publish
  BY <1>1, PublishKeeps
<1>2. CASE RunEnds
  BY <1>2, RunEndsKeeps
<1>3. CASE Shutdown
  BY <1>3, ShutdownKeeps
<1>4. CASE Restart
  BY <1>4, RestartKeeps
<1>5. ASSUME NEW w \in Watchers, Connect(w) PROVE IInv'
  BY <1>5, ConnectKeeps
<1>6. ASSUME NEW w \in Watchers, Refused(w) PROVE IInv'
  BY <1>6, RefusedKeeps
<1>7. ASSUME NEW w \in Watchers, Subscribe(w) PROVE IInv'
  BY <1>7, SubscribeKeeps
<1>8. ASSUME NEW w \in Watchers, SocketDrains(w) PROVE IInv'
  BY <1>8, SocketDrainsKeeps
<1>9. ASSUME NEW w \in Watchers, Heartbeat(w) PROVE IInv'
  BY <1>9, HeartbeatKeeps
<1>10. ASSUME NEW w \in Watchers, Receive(w) PROVE IInv'
  BY <1>10, ReceiveKeeps
<1>11. ASSUME NEW w \in Watchers, ResponseEnds(w) PROVE IInv'
  BY <1>11, ResponseEndsKeeps
<1>12. ASSUME NEW w \in Watchers, Disconnect(w) PROVE IInv'
  BY <1>12, DisconnectKeeps
<1>13. CASE UNCHANGED vars
  <2>1. Typed' /\ ServerOK'
    BY <1>13 DEF IInv, Typed, ServerOK, vars
  <2>2. ASSUME NEW w \in Watchers PROVE ConnOK(w)' /\ WireOK(w)' /\ ToldOK(w)'
    BY <1>13, Untouched DEF vars
  <2> QED
    BY <2>1, <2>2 DEF IInv
<1> QED
  BY <1>1, <1>2, <1>3, <1>4, <1>5, <1>6, <1>7, <1>8, <1>9, <1>10, <1>11, <1>12, <1>13
     DEF Next

\* The inductive invariant holds of every behaviour: the wires are in order
\* and end where the stream does, or a gap frame is owed.
THEOREM AlwaysIInv == Spec => []IInv
BY InitIInv, NextIInv, PTL DEF Spec

\* Every variable keeps its type, and a response stays open only while its
\* run may still publish: the handler subscribes in a later turn than it
\* reads the row, and the run may end or the server drain in between.
THEOREM TypeCorrect == Spec => []TypeOK
<1>1. IInv => TypeOK
  <2> SUFFICES ASSUME IInv PROVE TypeOK
    OBVIOUS
  <2>1. LiveWatchersHaveALiveRun
    BY DEF IInv, ConnOK, ServerOK, LiveWatchersHaveALiveRun
  <2> QED
    BY <2>1 DEF IInv, Typed, TypeOK
<1> QED
  BY <1>1, AlwaysIInv, PTL

\* A watcher to whom an end frame says that the run completed has the run's
\* last event, or was shown a gap behind its cursor: the end frame overtakes no
\* event that was dropped or lost since.  Of what a watcher without a cursor
\* did not see before it joined, nothing is said.
THEOREM CompletedIsComplete == Spec => []CompletedMeansComplete
<1>1. IInv => CompletedMeansComplete
  BY DEF IInv, ToldOK, CompletedMeansComplete
<1> QED
  BY <1>1, AlwaysIInv, PTL

\* A watcher's cursor moves only when it receives an event, and that event
\* follows what it saw last, or a gap it knows of.
LEMMA CursorsFollow ==
    ASSUME IInv, [Next]_vars, NEW w \in Watchers, cursor'[w] # cursor[w]
    PROVE  \/ cursor[w] = 0
           \/ cursor'[w] = cursor[w] + 1
           \/ gapSeen[w] /\ cursor'[w] > cursor[w]
<1>1. ASSUME NEW v \in Watchers, Receive(v)
      PROVE  \/ cursor[w] = 0
             \/ cursor'[w] = cursor[w] + 1
             \/ gapSeen[w] /\ cursor'[w] > cursor[w]
  <2>1. cursor \in [Watchers -> 0 .. MaxEvents + 1]
    BY DEF IInv, Typed
  <2>2. wire[v] # <<>>
    BY <1>1 DEF Receive
  <2>3. /\ Head(wire[v]).kind = "event"
        /\ cursor' = [cursor EXCEPT ![v] = Head(wire[v]).id]
    BY <1>1 DEF Receive
  <2>4. v = w
    BY <2>1, <2>3
  <2>5. cursor'[w] = wire[w][1].id /\ IsEvent(wire[w][1]) /\ 1 \in 1 .. Len(wire[w])
    BY <2>1, <2>2, <2>3, <2>4, ReadFrame DEF IsEvent
  <2>6. Follows(wire[w], cursor[w], gapSeen[w])
    BY DEF IInv, WireOK
  <2>7. /\ wire[w][1].id > cursor[w]
        /\ \/ cursor[w] = 0 \/ gapSeen[w] \/ wire[w][1].id = cursor[w] + 1
           \/ \E k \in 1 .. Len(wire[w]) : k < 1 /\ Mark(wire[w][k])
    BY <2>5, <2>6 DEF Follows
  <2>8. ~ \E k \in 1 .. Len(wire[w]) : k < 1 /\ Mark(wire[w][k])
    BY WireTypes DEF IInv
  <2> QED
    BY <2>5, <2>7, <2>8
<1>2. (\E v \in Watchers : Receive(v)) \/ UNCHANGED cursor
  BY DEF Next, vars, Publish, RunEnds, Shutdown, Restart, Connect, Refused, Subscribe,
         SocketDrains, Heartbeat, ResponseEnds, Disconnect, clientVars
<1> QED
  BY <1>1, <1>2

\* No event is lost silently: across drops, disconnects, resumptions and
\* restarts a watcher that has seen one event sees its successor next, or a
\* gap frame in between, and never an older one again.
THEOREM NothingIsLostSilently == Spec => NoSilentLoss
<1>1. IInv /\ [Next]_vars =>
         [\A w \in Watchers : cursor'[w] # cursor[w] =>
             \/ cursor[w] = 0
             \/ cursor'[w] = cursor[w] + 1
             \/ gapSeen[w] /\ cursor'[w] > cursor[w]]_vars
  BY CursorsFollow
<1> QED
  BY <1>1, AlwaysIInv, PTL DEF Spec, NoSilentLoss
=============================================================================
