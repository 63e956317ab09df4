------------------------ MODULE AppendOnlyStreamProofs ------------------------
(***************************************************************************)
(* Proofs about AppendOnlyStream: what a directory of segments and the     *)
(* memory of its writers always are, for any writers, ceilings, days and   *)
(* faults; that seals are true while one writer is alone, and that its     *)
(* sweep leaves nothing behind; that read() only ever yields more of its   *)
(* entries; and that writers, any number of them, have the logs            *)
(* AppendOnlyLog describes, which a completed read() yields in full.       *)
(***************************************************************************)
EXTENDS AppendOnlyStream, FiniteSetTheorems, FunctionTheorems, SequenceTheorems, TLAPS

-----------------------------------------------------------------------------
(* The inductive invariant.                                                *)

Pieces == [writer : Writers, write : 1 .. MaxWrites, whole : BOOLEAN]

Records == [kind : {"baseline", "seal", "torn"}, segment : Nat \X Nat,
            length : Nat, swept : BOOLEAN]

Places == [segment : Nat \X Nat, size : Nat]
Claims == [segment : Nat \X Nat, length : Nat]
Works == [segment : Nat \X Nat, expected : Nat \cup {-1}]

\* The sealing passes whose boundary is b.
Passes(b) ==
    [first : BOOLEAN, today : Nat, sealed : SUBSET (Nat \X Nat), boundary : {b},
     todo : Seq(Works), claim : Claims, attempts : 0 .. (MaxSealAttempts - 1)]

Points == {"idle", "open", "write", "written", "load", "baseline", "seal"}
Appending == {"open", "write", "written"}

DirectoryTyped ==
    /\ day \in 1 .. MaxDay
    /\ disk \in [DOMAIN disk -> Seq(Pieces)]
    /\ IsFiniteSet(DOMAIN disk)
    /\ DOMAIN disk \subseteq (1 .. day) \X (Nat \ {0})
    /\ present \in BOOLEAN
    /\ manifest \in Seq(Records)

WritersTyped ==
    /\ count \in [Writers -> 0 .. MaxWrites]
    /\ acked \in [Writers -> SUBSET (1 .. MaxWrites)]
    /\ pc \in [Writers -> Points]
    /\ held \in [Writers -> Places]
    /\ target \in [Writers -> Places]
    /\ from \in [Writers -> Places]
    /\ swept \in [Writers -> BOOLEAN]
    /\ seal = [w \in Writers |-> seal[w]]
    /\ \A w \in Writers :
          /\ seal[w] \in Passes(seal[w].boundary)
          /\ pc[w] = "baseline" => seal[w].boundary \in Nat \X Nat
    /\ faults \in 0 .. MaxFaults /\ torn \in 0 .. MaxTorn /\ crashes \in 0 .. MaxCrashes

\* Every day that has segments has a highest one.
Topped ==
    \A s \in DOMAIN disk : \E t \in DOMAIN disk :
        t[1] = s[1] /\ \A u \in DOMAIN disk : u[1] = s[1] => u[2] <= t[2]

LengthIn(d, s) == IF s \in DOMAIN d THEN Len(d[s]) ELSE 0

\* What a writer that appends is about to append to: a segment that leaves no
\* gap, and has at least the lines its writer believes.
Aimed(w) ==
    /\ target[w].segment \in (1 .. day) \X (Nat \ {0})
    /\ target[w].segment[2] > 1 =>
          <<target[w].segment[1], target[w].segment[2] - 1>> \in DOMAIN disk
    /\ pc[w] # "open" => target[w].segment \in DOMAIN disk
    /\ target[w].size <= LengthIn(disk, target[w].segment)
    /\ pc[w] = "written" => target[w].size < LengthIn(disk, target[w].segment)
    /\ count[w] >= 1
    /\ acked[w] \subseteq 1 .. (count[w] - 1)

\* Where the piece j of segment s may stand, if it is one of w's: it is no
\* later write than w's latest, and in no later segment than the one w
\* appends to.
Placed(w, s, j) ==
    disk[s][j].writer = w =>
        /\ disk[s][j].write <= count[w]
        /\ pc[w] \in {"open", "write"} => disk[s][j].write < count[w]
        /\ pc[w] \in Appending => ~Before(target[w].segment, s)
        /\ pc[w] \notin Appending /\ held[w] # NoSegment =>
              ~Before(held[w].segment, s)

\* The line a writer is about to acknowledge.
Landed(w) ==
    pc[w] = "written" =>
        \E s \in DOMAIN disk : \E j \in 1 .. Len(disk[s]) :
            disk[s][j] = [writer |-> w, write |-> count[w], whole |-> TRUE]

WriterOK(w) ==
    /\ acked[w] \subseteq 1 .. count[w]
    /\ Believes(held[w])
    /\ pc[w] \in Appending => Aimed(w)
    /\ \A s \in DOMAIN disk : \A j \in 1 .. Len(disk[s]) : Placed(w, s, j)
    /\ Landed(w)

\* The segments a pass is to measure exist.
Found(p) == \A i \in 1 .. Len(p.todo) : p.todo[i].segment \in DOMAIN disk

WorkFound(w) ==
    /\ Found(seal[w])
    /\ from[w] # NoSegment => from[w].segment \in DOMAIN disk

IInv ==
    /\ DirectoryTyped /\ WritersTyped
    /\ Topped /\ NoSequenceGaps
    /\ \A w \in Writers : WriterOK(w) /\ WorkFound(w)

-----------------------------------------------------------------------------
(* One writer, alone in its directory.                                     *)

\* No segment of the directory d is above s.
Highest(d, s) == \A t \in DOMAIN d : ~Before(s, t)

\* A segment nobody will append to again.
Sealable(d, s) == s \in DOMAIN d /\ ~Highest(d, s)

SegmentsBounded == \A s \in DOMAIN disk : Len(disk[s]) <= MaxSegment

\* The writer appends to the highest segment, and knows its size.
AtTheEnd(w) ==
    /\ pc[w] \in Appending =>
          /\ Highest(disk, target[w].segment)
          /\ pc[w] # "written" => /\ target[w].size = LengthIn(disk, target[w].segment)
                                  /\ target[w].size < MaxSegment
          /\ pc[w] = "written" => target[w].size + 1 = LengthIn(disk, target[w].segment)
          /\ from[w] # NoSegment => Before(from[w].segment, target[w].segment)
    /\ pc[w] \notin Appending /\ held[w] # NoSegment =>
          /\ held[w].size = LengthIn(disk, held[w].segment)
          /\ Highest(disk, held[w].segment)
    /\ pc[w] \in {"load", "baseline", "seal"} => held[w] # NoSegment

\* What is sealed, claimed or to be sealed lies behind it.
SealingBehind(w) ==
    /\ pc[w] \notin Appending /\ from[w] # NoSegment =>
          Sealable(disk, from[w].segment)
    /\ \A i \in 1 .. Len(seal[w].todo) : Sealable(disk, seal[w].todo[i].segment)
    /\ seal[w].claim # NoClaim =>
          /\ Sealable(disk, seal[w].claim.segment)
          /\ seal[w].claim.length = Len(disk[seal[w].claim.segment])

SealsHold ==
    \A r \in Seals : Sealable(disk, r.segment) /\ r.length = Len(disk[r.segment])

Alone(w) == SegmentsBounded /\ AtTheEnd(w) /\ SealingBehind(w) /\ SealsHold

OneAlone == Cardinality(Writers) = 1 => \A w \in Writers : Alone(w)

-----------------------------------------------------------------------------
(* Segments and their order.                                               *)

\* Segments are ordered by day and sequence.
LEMMA BeforeIsAnOrder ==
    /\ \A s \in Nat \X Nat : ~Before(s, s)
    /\ \A s, t, u \in Nat \X Nat : Before(s, t) /\ Before(t, u) => Before(s, u)
    /\ \A s, t \in Nat \X Nat : s = t \/ Before(s, t) \/ Before(t, s)
BY DEF Before

\* Segments on disk are pairs of naturals, and their contents sequences of
\* pieces.
LEMMA DiskTyped ==
    ASSUME DirectoryTyped, NEW s \in DOMAIN disk
    PROVE  /\ s \in Nat \X Nat /\ s = <<s[1], s[2]>>
           /\ s[1] \in 1 .. day /\ s[2] \in Nat \ {0}
           /\ disk[s] \in Seq(Pieces) /\ Len(disk[s]) \in Nat
           /\ \A j \in 1 .. Len(disk[s]) : disk[s][j] \in Pieces
<1>1. s \in (1 .. day) \X (Nat \ {0}) /\ day \in Nat
  BY StreamAssumption DEF DirectoryTyped
<1>2. disk[s] \in Seq(Pieces)
  BY DEF DirectoryTyped
<1> QED
  BY <1>1, <1>2, ElementOfSeq, LenProperties

\* The maximum of a set of naturals that has one.
LEMMA MaxIsTop ==
    ASSUME NEW S \in SUBSET Nat, NEW m \in S, \A y \in S : y <= m
    PROVE  Max(S) = m
<1>1. \A y \in S : m >= y
  BY Z3
<1>2. \A x \in S : (\A y \in S : x >= y) => x = m
  BY Z3
<1>3. (CHOOSE x \in S : \A y \in S : x >= y) = m
  BY <1>1, <1>2
<1> QED
  BY <1>3 DEF Max

\* A segment is adopted with the length it has.
LEMMA Adopted ==
    ASSUME DirectoryTyped, NEW s \in Nat \X Nat
    PROVE  /\ Adopt(s) \in Places /\ LengthIn(disk, s) \in Nat
           /\ Adopt(s).segment = s /\ Adopt(s).size = LengthIn(disk, s)
<1>1. LengthIn(disk, s) \in Nat
  BY DiskTyped DEF LengthIn
<1> QED
  BY <1>1 DEF Adopt, LengthIn, Places

\* A writer that starts finds the highest segment of the day, or its first.
LEMMA Discovered ==
    ASSUME DirectoryTyped, Topped
    PROVE  \E n \in Nat \ {0} :
              /\ DiscoverActiveSegment = Adopt(<<day, n>>)
              /\ n > 1 => <<day, n>> \in DOMAIN disk
              /\ \A s \in DOMAIN disk : ~Before(<<day, n>>, s)
<1> DEFINE Q == {s[2] : s \in {t \in DOMAIN disk : t[1] = day}}
<1>1. day \in Nat
  BY StreamAssumption DEF DirectoryTyped
<1>2. CASE \E s \in DOMAIN disk : s[1] = day
  <2>1. PICK t \in DOMAIN disk :
               t[1] = day /\ \A u \in DOMAIN disk : u[1] = day => u[2] <= t[2]
    BY <1>2 DEF Topped
  <2>2. t[2] \in Nat \ {0} /\ t = <<day, t[2]>>
    BY <2>1, DiskTyped
  <2>3. Max(Q \union {1}) = t[2]
    <3>1. Q \union {1} \in SUBSET Nat
      BY DiskTyped
    <3>2. t[2] \in Q \union {1} /\ \A y \in Q \union {1} : y <= t[2]
      BY <2>1, <2>2
    <3> QED
      BY <3>1, <3>2, MaxIsTop
  <2>4. \A s \in DOMAIN disk : ~Before(<<day, t[2]>>, s)
    BY <1>1, <2>1, <2>2, DiskTyped DEF Before
  <2> QED
    BY <2>1, <2>2, <2>3, <2>4 DEF DiscoverActiveSegment
<1>3. CASE ~\E s \in DOMAIN disk : s[1] = day
  <2>1. Q \union {1} = {1}
    BY <1>3
  <2>2. Max(Q \union {1}) = 1
    BY <2>1, MaxIsTop
  <2>3. \A s \in DOMAIN disk : ~Before(<<day, 1>>, s)
    BY <1>1, <1>3, DiskTyped DEF Before
  <2> QED
    BY <2>2, <2>3 DEF DiscoverActiveSegment
<1> QED
  BY <1>2, <1>3

-----------------------------------------------------------------------------
(* What a step leaves true of the writers.                                 *)

\* The step only adds pieces of w, at the end of segments.
Grows(w) ==
    /\ DOMAIN disk \subseteq DOMAIN disk'
    /\ \A s \in DOMAIN disk :
          /\ Len(disk[s]) <= Len(disk'[s])
          /\ \A j \in 1 .. Len(disk[s]) : disk'[s][j] = disk[s][j]
    /\ \A s \in DOMAIN disk' : \A j \in 1 .. Len(disk'[s]) :
          \/ s \in DOMAIN disk /\ j \in 1 .. Len(disk[s])
          \/ disk'[s][j].writer = w

\* The step changes nothing of v that WriterOK speaks of.
Rests(v) ==
    /\ count'[v] = count[v] /\ acked'[v] = acked[v] /\ pc'[v] = pc[v]
    /\ held'[v] = held[v] /\ target'[v] = target[v]

\* A step of one writer leaves the others as they should be.
LEMMA OthersStay ==
    ASSUME DirectoryTyped, DirectoryTyped', WritersTyped, day' = day,
           NEW w \in Writers, NEW v \in Writers, v # w,
           Grows(w), Rests(v), WriterOK(v)
    PROVE  WriterOK(v)'
<1>1. acked'[v] \subseteq 1 .. count'[v]
  BY DEF WriterOK, Rests
<1>2. held[v] \in Places /\ target[v] \in Places
  BY DEF WritersTyped
<1>3. ASSUME NEW s \in DOMAIN disk
      PROVE  /\ s \in DOMAIN disk' /\ Len(disk[s]) \in Nat /\ Len(disk'[s]) \in Nat
             /\ Len(disk[s]) <= Len(disk'[s])
  <2>1. s \in DOMAIN disk' /\ Len(disk[s]) <= Len(disk'[s]) /\ Len(disk[s]) \in Nat
    BY DiskTyped DEF Grows
  <2>2. disk' \in [DOMAIN disk' -> Seq(Pieces)]
    BY DEF DirectoryTyped
  <2>3. Len(disk'[s]) \in Nat
    BY <2>1, <2>2, LenProperties
  <2> QED
    BY <2>1, <2>3
<1>4. Believes(held[v])'
  <2>1. held[v] = NoSegment \/
        (held[v].segment \in DOMAIN disk /\ held[v].size \in 1 .. Len(disk[held[v].segment]))
    BY DEF WriterOK, Believes
  <2> QED
    BY <1>2, <1>3, <2>1 DEF Believes, Rests, Places
<1>5. ASSUME pc'[v] \in Appending PROVE Aimed(v)'
  <2>1. Aimed(v) /\ pc'[v] = pc[v] /\ target'[v] = target[v]
        /\ count'[v] = count[v] /\ acked'[v] = acked[v]
    BY <1>5 DEF WriterOK, Rests
  <2>2. LengthIn(disk, target[v].segment) \in Nat
    BY <1>2, Adopted DEF Places
  <2>3. LengthIn(disk, target[v].segment) <= LengthIn(disk', target[v].segment)
    <3>1. CASE target[v].segment \in DOMAIN disk
      BY <1>3, <2>1, <3>1 DEF LengthIn
    <3>2. CASE target[v].segment \notin DOMAIN disk
      <4>1. LengthIn(disk', target[v].segment) \in Nat
        <5>1. \A s \in DOMAIN disk' : Len(disk'[s]) \in Nat
          BY LenProperties DEF DirectoryTyped
        <5> QED
          BY <5>1 DEF LengthIn
      <4> QED
        BY <3>2, <4>1 DEF LengthIn
    <3> QED
      BY <3>1, <3>2
  <2>4. LengthIn(disk', target[v].segment) \in Nat /\ target[v].size \in Nat
    <3>1. \A s \in DOMAIN disk' : Len(disk'[s]) \in Nat
      BY LenProperties DEF DirectoryTyped
    <3> QED
      BY <1>2, <3>1 DEF LengthIn, Places
  <2>5. /\ target[v].size <= LengthIn(disk', target[v].segment)
        /\ pc[v] = "written" => target[v].size < LengthIn(disk', target[v].segment)
    BY <2>1, <2>2, <2>3, <2>4 DEF Aimed
  <2>6. /\ target'[v].segment \in (1 .. day') \X (Nat \ {0})
        /\ target'[v].segment[2] > 1 =>
             <<target'[v].segment[1], target'[v].segment[2] - 1>> \in DOMAIN disk'
        /\ pc'[v] # "open" => target'[v].segment \in DOMAIN disk'
    BY <2>1 DEF Aimed, Grows
  <2> QED
    BY <2>1, <2>5, <2>6 DEF Aimed
<1>6. ASSUME NEW s \in DOMAIN disk', NEW j \in 1 .. Len(disk'[s])
      PROVE  Placed(v, s, j)'
  <2>1. CASE s \in DOMAIN disk /\ j \in 1 .. Len(disk[s])
    <3>1. disk'[s][j] = disk[s][j] /\ Placed(v, s, j)
      BY <2>1 DEF Grows, WriterOK
    <3> QED
      BY <3>1 DEF Placed, Rests
  <2>2. CASE disk'[s][j].writer = w
    BY <2>2 DEF Placed
  <2> QED
    BY <2>1, <2>2 DEF Grows
<1>7. Landed(v)'
  <2> SUFFICES ASSUME pc'[v] = "written"
               PROVE  \E s \in DOMAIN disk' : \E j \in 1 .. Len(disk'[s]) :
                         disk'[s][j] = [writer |-> v, write |-> count'[v], whole |-> TRUE]
    BY DEF Landed
  <2>1. PICK s \in DOMAIN disk : \E j \in 1 .. Len(disk[s]) :
               disk[s][j] = [writer |-> v, write |-> count[v], whole |-> TRUE]
    BY DEF WriterOK, Landed, Rests
  <2>2. PICK j \in 1 .. Len(disk[s]) :
               disk[s][j] = [writer |-> v, write |-> count[v], whole |-> TRUE]
    BY <2>1
  <2>3. s \in DOMAIN disk' /\ j \in 1 .. Len(disk'[s]) /\ disk'[s][j] = disk[s][j]
    BY <1>3 DEF Grows
  <2> QED
    BY <2>2, <2>3 DEF Rests
<1> QED
  BY <1>1, <1>4, <1>5, <1>6, <1>7 DEF WriterOK

\* So does a step that leaves the directory and a writer's place alone.
LEMMA StillOK ==
    ASSUME WritersTyped, disk' = disk, day \in Nat, day' \in Nat, day' >= day,
           NEW v \in Writers,
           count'[v] = count[v], acked'[v] = acked[v],
           held'[v] = held[v], target'[v] = target[v],
           pc'[v] = pc[v] \/ (pc[v] \notin Appending /\ pc'[v] \notin Appending),
           WriterOK(v)
    PROVE  WriterOK(v)'
<1>1. Believes(held[v])'
  BY DEF WriterOK, Believes
<1>2. pc'[v] \in Appending => pc'[v] = pc[v]
  OBVIOUS
<1>3. ASSUME pc'[v] \in Appending PROVE Aimed(v)'
  <2>1. Aimed(v)
    BY <1>2, <1>3 DEF WriterOK
  <2> QED
    BY <1>2, <1>3, <2>1 DEF Aimed
<1>4. ASSUME NEW s \in DOMAIN disk', NEW j \in 1 .. Len(disk'[s])
      PROVE  Placed(v, s, j)'
  <2>1. Placed(v, s, j)
    BY DEF WriterOK
  <2> QED
    BY <2>1 DEF Placed, Appending
<1>5. Landed(v)'
  BY DEF WriterOK, Landed, Appending
<1> QED
  BY <1>1, <1>3, <1>4, <1>5 DEF WriterOK, Believes

-----------------------------------------------------------------------------
(* Where a writer appends.                                                 *)

\* Writer w may append to place p: it leaves no gap, is as long as believed
\* at least, and is in no earlier segment than anything w has written.
Fit(w, p) ==
    /\ p.segment \in (1 .. day) \X (Nat \ {0})
    /\ p.segment[2] > 1 => <<p.segment[1], p.segment[2] - 1>> \in DOMAIN disk
    /\ p.size <= LengthIn(disk, p.segment)
    /\ \A s \in DOMAIN disk : \A j \in 1 .. Len(disk[s]) :
          disk[s][j].writer = w => ~Before(p.segment, s)

\* The current segment fits, and exists unless it is the first of today.
LEMMA CurrentFits ==
    ASSUME DirectoryTyped, WritersTyped, Topped, NoSequenceGaps,
           NEW w \in Writers, WriterOK(w), pc[w] = "idle"
    PROVE  \E c \in Places :
              /\ c = Current(w) /\ Fit(w, c)
              /\ c.segment \notin DOMAIN disk =>
                    c.size = 0 /\ c.segment = <<day, 1>> /\ held[w] = NoSegment
<1>1. day \in Nat /\ day \in 1 .. day
  BY StreamAssumption DEF DirectoryTyped
<1>2. CASE held[w] = NoSegment
  <2>1. PICK n \in Nat \ {0} :
              /\ DiscoverActiveSegment = Adopt(<<day, n>>)
              /\ n > 1 => <<day, n>> \in DOMAIN disk
              /\ \A s \in DOMAIN disk : ~Before(<<day, n>>, s)
    BY Discovered
  <2>2. PICK c \in Places :
              c = Current(w) /\ c.segment = <<day, n>>
              /\ c.size = LengthIn(disk, <<day, n>>) /\ c.size \in Nat
    BY <1>1, <1>2, <2>1, Adopted DEF Current
  <2>3. n > 1 => <<day, n - 1>> \in DOMAIN disk
    BY <2>1 DEF NoSequenceGaps
  <2>4. c.segment \in (1 .. day) \X (Nat \ {0})
    BY <1>1, <2>2
  <2>5. Fit(w, c)
    BY <2>1, <2>2, <2>3, <2>4 DEF Fit
  <2> QED
    BY <1>2, <2>1, <2>2, <2>5 DEF LengthIn
<1>3. CASE held[w] # NoSegment
  <2>1. /\ held[w] \in Places /\ held[w].segment \in DOMAIN disk
        /\ held[w].size \in 1 .. Len(disk[held[w].segment])
    BY <1>3 DEF WritersTyped, WriterOK, Believes
  <2>2. held[w].segment \in (1 .. day) \X (Nat \ {0})
    BY <2>1 DEF DirectoryTyped
  <2>3. held[w].segment[2] > 1 =>
           <<held[w].segment[1], held[w].segment[2] - 1>> \in DOMAIN disk
    BY <2>1 DEF NoSequenceGaps
  <2>4. held[w].size <= LengthIn(disk, held[w].segment)
    BY <2>1, DiskTyped DEF LengthIn
  <2>5. \A s \in DOMAIN disk : \A j \in 1 .. Len(disk[s]) :
          disk[s][j].writer = w => ~Before(held[w].segment, s)
    BY <1>3 DEF WriterOK, Placed, Appending
  <2>6. Fit(w, held[w])
    BY <2>2, <2>3, <2>4, <2>5 DEF Fit
  <2> QED
    BY <1>3, <2>1, <2>6 DEF Current
<1> QED
  BY <1>2, <1>3

\* So does the segment after one that fits and exists, and it is later.
LEMMA NextFits ==
    ASSUME DirectoryTyped, NEW w, NEW c \in Places, Fit(w, c),
           c.segment \in DOMAIN disk
    PROVE  \E n \in Places :
              /\ n = NextSegment(c.segment) /\ Fit(w, n)
              /\ n.segment[1] = day /\ n.size = LengthIn(disk, n.segment)
              /\ n.segment[1] = c.segment[1] => n.segment[2] = c.segment[2] + 1
              /\ n.segment[1] # c.segment[1] => n.segment[2] = 1
              /\ Before(c.segment, n.segment)
<1>1. day \in Nat /\ day \in 1 .. day
  BY StreamAssumption DEF DirectoryTyped
<1>2. PICK q \in Nat \ {0} : q = IF c.segment[1] = day THEN c.segment[2] + 1 ELSE 1
  BY DEF Fit
<1>3. PICK n \in Places :
         n = NextSegment(c.segment) /\ n.segment = <<day, q>>
         /\ n.size = LengthIn(disk, <<day, q>>) /\ n.size \in Nat
  BY <1>1, <1>2, Adopted DEF NextSegment
<1>4. c.segment[1] \in 1 .. day /\ c.segment[2] \in Nat \ {0}
      /\ c.segment \in Nat \X Nat /\ c.segment = <<c.segment[1], c.segment[2]>>
  BY DiskTyped
<1>5. Before(c.segment, n.segment)
  BY <1>1, <1>2, <1>3, <1>4 DEF Before
<1>6. n.segment[2] > 1 => <<n.segment[1], n.segment[2] - 1>> \in DOMAIN disk
  BY <1>1, <1>2, <1>3, <1>4
<1>7. ASSUME NEW s \in DOMAIN disk, NEW j \in 1 .. Len(disk[s]),
             disk[s][j].writer = w
      PROVE  ~Before(n.segment, s)
  <2>1. ~Before(c.segment, s)
    BY <1>7 DEF Fit
  <2>2. n.segment \in Nat \X Nat /\ s \in Nat \X Nat
    BY <1>1, <1>3, DiskTyped
  <2> QED
    BY <1>4, <1>5, <2>1, <2>2, BeforeIsAnOrder
<1>8. n.segment \in (1 .. day) \X (Nat \ {0})
  BY <1>1, <1>3
<1>9. Fit(w, n)
  BY <1>3, <1>6, <1>7, <1>8 DEF Fit
<1> QED
  BY <1>2, <1>3, <1>5, <1>9

\* A rotated segment exists, and its successor fits.
LEMMA RotationFits ==
    ASSUME DirectoryTyped, WritersTyped, Topped, NoSequenceGaps,
           NEW w \in Writers, WriterOK(w), pc[w] = "idle", Resolve(w)
    PROVE  /\ target'[w] \in Places /\ from'[w] \in Places
           /\ Fit(w, target'[w])
           /\ \/ target'[w] = Current(w) /\ from'[w] = NoSegment
                 /\ Current(w).segment[1] = day /\ Current(w).size < MaxSegment
              \/ from'[w] = Current(w) /\ from'[w].segment \in DOMAIN disk
                 /\ target'[w] = NextSegment(from'[w].segment)
                 /\ Before(from'[w].segment, target'[w].segment)
<1>1. PICK c \in Places :
         /\ c = Current(w) /\ Fit(w, c)
         /\ c.segment \notin DOMAIN disk =>
               c.size = 0 /\ c.segment = <<day, 1>> /\ held[w] = NoSegment
  BY CurrentFits
<1>2. PICK aged \in {FALSE, c.segment \in DOMAIN disk} :
         /\ target' = [target EXCEPT ![w] =
                IF ShouldRotate(c, aged) THEN NextSegment(c.segment) ELSE c]
         /\ from' = [from EXCEPT ![w] =
                IF ShouldRotate(c, aged) THEN c ELSE NoSegment]
  BY <1>1 DEF Resolve
<1>3. /\ target'[w] = IF ShouldRotate(c, aged) THEN NextSegment(c.segment) ELSE c
      /\ from'[w] = IF ShouldRotate(c, aged) THEN c ELSE NoSegment
  BY <1>2 DEF WritersTyped
<1>4. CASE ~ShouldRotate(c, aged)
  <2>1. c.segment[1] = day /\ ~(c.size >= MaxSegment) /\ c.size \in Nat
    BY <1>4 DEF ShouldRotate, Places
  <2>2. NoSegment \in Places /\ MaxSegment \in Nat
    BY StreamAssumption DEF NoSegment, Places
  <2> QED
    BY <1>1, <1>3, <1>4, <2>1, <2>2
<1>5. CASE ShouldRotate(c, aged)
  <2>1. c.segment \in DOMAIN disk
    <3> SUFFICES ASSUME c.segment \notin DOMAIN disk PROVE FALSE
      OBVIOUS
    <3>1. c.size = 0 /\ c.segment[1] = day
      BY <1>1
    <3>2. ~aged
      OBVIOUS
    <3>3. ~(c.size >= MaxSegment)
      BY <3>1, StreamAssumption
    <3> QED
      BY <1>5, <3>1, <3>2, <3>3 DEF ShouldRotate
  <2>2. PICK n \in Places : n = NextSegment(c.segment) /\ Fit(w, n)
                            /\ Before(c.segment, n.segment)
    BY <1>1, <2>1, NextFits
  <2> QED
    BY <1>1, <1>3, <1>5, <2>1, <2>2
<1> QED
  BY <1>4, <1>5

-----------------------------------------------------------------------------
(* Ordering a finite set.                                                  *)

\* How many elements of S the pairs of R put below s.
RankIn(S, R, s) == Cardinality({t \in S : <<t, s>> \in R})

\* In a finite set S strictly and totally ordered by the pairs of R, exactly
\* one element has i - 1 elements below it, for each i up to the size of S.
LEMMA RanksAreAll ==
    ASSUME NEW S, IsFiniteSet(S), NEW R,
           \A a \in S : <<a, a>> \notin R,
           \A a, b, c \in S : <<a, b>> \in R /\ <<b, c>> \in R => <<a, c>> \in R,
           \A a, b \in S : a = b \/ <<a, b>> \in R \/ <<b, a>> \in R
    PROVE  /\ Cardinality(S) \in Nat
           /\ \A i \in 1 .. Cardinality(S) :
                 \E s \in S : RankIn(S, R, s) = i - 1
           /\ \A a, b \in S : RankIn(S, R, a) = RankIn(S, R, b) => a = b
<1> DEFINE Below(s) == {t \in S : <<t, s>> \in R}
           n == Cardinality(S)
           rank == [s \in S |-> Cardinality(Below(s))]
<1>1. n \in Nat
  BY FS_CardinalityType
<1>2. ASSUME NEW s \in S
      PROVE  IsFiniteSet(Below(s)) /\ Cardinality(Below(s)) \in 0 .. n - 1
  <2>1. Below(s) \in SUBSET S /\ Below(s) # S
    OBVIOUS
  <2>2. IsFiniteSet(Below(s)) /\ Cardinality(Below(s)) <= n /\ Cardinality(Below(s)) # n
    BY <2>1, FS_Subset
  <2>3. Cardinality(Below(s)) \in Nat
    BY <2>2, FS_CardinalityType
  <2> QED
    BY <1>1, <2>2, <2>3
<1>3. ASSUME NEW a \in S, NEW b \in S, <<a, b>> \in R
      PROVE  Cardinality(Below(a)) # Cardinality(Below(b))
  <2>1. Below(a) \in SUBSET Below(b) /\ a \in Below(b) /\ a \notin Below(a)
    BY <1>3
  <2>2. Below(a) # Below(b)
    BY <2>1
  <2> QED
    BY <1>2, <2>1, <2>2, FS_Subset
<1>4. ASSUME NEW a \in S, NEW b \in S, Cardinality(Below(a)) = Cardinality(Below(b))
      PROVE  a = b
  <2>1. <<a, b>> \notin R
    <3> SUFFICES ASSUME <<a, b>> \in R PROVE FALSE
      OBVIOUS
    <3> HIDE DEF Below
    <3> QED
      BY <1>3, <1>4
  <2>2. <<b, a>> \notin R
    <3> SUFFICES ASSUME <<b, a>> \in R PROVE FALSE
      OBVIOUS
    <3> HIDE DEF Below
    <3> QED
      BY <1>3, <1>4
  <2> QED
    BY <2>1, <2>2
<1>5. rank \in [S -> 0 .. n - 1]
  BY <1>2
<1>6. \A a, b \in S : rank[a] = rank[b] => a = b
  BY <1>4
<1> HIDE DEF rank, Below
<1> DEFINE T == 0 .. n - 1
<1>8. IsFiniteSet(T) /\ Cardinality(T) = n
  <2>1. 0 \in Int /\ n - 1 \in Int
    BY <1>1
  <2>2. IsFiniteSet(T) /\ Cardinality(T) = IF 0 > n - 1 THEN 0 ELSE (n - 1) - 0 + 1
    BY <2>1, FS_Interval
  <2> HIDE DEF T, n
  <2> QED
    BY <1>1, <2>2
<1>t. rank \in [S -> T]
  BY <1>5
<1> HIDE DEF T, n
<1>7. rank \in Injection(S, T)
  BY <1>t, <1>6, Fun_IsInj
<1>9. rank \in Surjection(S, T)
  BY <1>7, <1>8, FS_Injection DEF n
<1>10. \A k \in T : \E s \in S : rank[s] = k
  BY <1>9, Fun_SurjectionProperties
<1>11. ASSUME NEW i \in 1 .. n PROVE \E s \in S : Cardinality(Below(s)) = i - 1
  <2>1. i - 1 \in T
    BY <1>1 DEF T
  <2>2. PICK s \in S : rank[s] = i - 1
    BY <1>10, <2>1
  <2>3. rank[s] = Cardinality(Below(s))
    BY DEF rank
  <2> QED
    BY <2>2, <2>3
<1> QED
  BY <1>1, <1>4, <1>11 DEF Below, n, RankIn

\* How many segments of S come before s.
PlaceIn(S, s) == Cardinality({t \in S : Before(t, s)})

\* Of a finite set of segments, each has a place, and each place one segment.
LEMMA PlacesAreAll ==
    ASSUME NEW S \in SUBSET (Nat \X Nat), IsFiniteSet(S)
    PROVE  /\ Cardinality(S) \in Nat
           /\ \A i \in 1 .. Cardinality(S) : \E s \in S : PlaceIn(S, s) = i - 1
           /\ \A s \in S : PlaceIn(S, s) \in 0 .. Cardinality(S) - 1
           /\ \A a, b \in S : PlaceIn(S, a) = PlaceIn(S, b) => a = b
<1> DEFINE R == {p \in S \X S : Before(p[1], p[2])}
<1>1. \A a, b \in S : <<a, b>> \in R <=> Before(a, b)
  OBVIOUS
<1>2. \A a \in S : <<a, a>> \notin R
  BY <1>1, BeforeIsAnOrder
<1>3. \A a, b, c \in S : <<a, b>> \in R /\ <<b, c>> \in R => <<a, c>> \in R
  BY <1>1, BeforeIsAnOrder
<1>4. \A a, b \in S : a = b \/ <<a, b>> \in R \/ <<b, a>> \in R
  BY <1>1, BeforeIsAnOrder
<1> HIDE DEF R
<1>5. ASSUME NEW s \in S
      PROVE  RankIn(S, R, s) = PlaceIn(S, s)
  <2>1. {t \in S : <<t, s>> \in R} = {t \in S : Before(t, s)}
    BY <1>1
  <2> QED
    BY <2>1 DEF RankIn, PlaceIn
<1>6. Cardinality(S) \in Nat
  BY FS_CardinalityType
<1>7. \A i \in 1 .. Cardinality(S) : \E s \in S : RankIn(S, R, s) = i - 1
  BY <1>2, <1>3, <1>4, RanksAreAll
<1>8. \A a, b \in S : RankIn(S, R, a) = RankIn(S, R, b) => a = b
  BY <1>2, <1>3, <1>4, RanksAreAll
<1>9. ASSUME NEW s \in S PROVE PlaceIn(S, s) \in 0 .. Cardinality(S) - 1
  <2> DEFINE B == {t \in S : Before(t, s)}
  <2>1. B \in SUBSET S /\ B # S
    BY BeforeIsAnOrder
  <2>2. IsFiniteSet(B) /\ Cardinality(B) <= Cardinality(S)
        /\ Cardinality(B) # Cardinality(S)
    BY <2>1, FS_Subset
  <2>3. Cardinality(B) \in Nat
    BY <2>2, FS_CardinalityType
  <2>4. PlaceIn(S, s) = Cardinality(B)
    BY DEF PlaceIn
  <2> HIDE DEF B
  <2> QED
    BY <1>6, <2>2, <2>3, <2>4
<1> QED
  BY <1>5, <1>6, <1>7, <1>8, <1>9

\* The segments of a set in order are segments of the set.
LEMMA InOrderIsOfTheSet ==
    ASSUME NEW S \in SUBSET (Nat \X Nat), IsFiniteSet(S)
    PROVE  /\ Cardinality(S) \in Nat
           /\ InOrder(S) \in Seq(S) /\ Len(InOrder(S)) = Cardinality(S)
           /\ S # {} => Last(InOrder(S)) \in S
<1> DEFINE n == Cardinality(S)
<1>1. n \in Nat
  BY PlacesAreAll
<1>2. \A i \in 1 .. n : \E s \in S : PlaceIn(S, s) = i - 1
  BY PlacesAreAll
<1>3. InOrder(S) = [i \in 1 .. n |-> CHOOSE s \in S : PlaceIn(S, s) = i - 1]
  BY DEF InOrder, PlaceIn
<1> HIDE DEF n
<1>4. InOrder(S) \in [1 .. n -> S]
  BY <1>2, <1>3
<1>5. InOrder(S) \in Seq(S) /\ Len(InOrder(S)) = n
  BY <1>1, <1>4
<1>6. ASSUME S # {} PROVE Last(InOrder(S)) \in S
  <2>1. n # 0
    BY <1>6, FS_EmptySet DEF n
  <2>2. n \in 1 .. n
    BY <1>1, <2>1
  <2> QED
    BY <1>4, <1>5, <2>2 DEF Last
<1> QED
  BY <1>1, <1>5, <1>6 DEF n

\* All of them, each once.
LEMMA InOrderIsAllOfIt ==
    ASSUME NEW S \in SUBSET (Nat \X Nat), IsFiniteSet(S)
    PROVE  /\ \A s \in S : \E i \in 1 .. Cardinality(S) : InOrder(S)[i] = s
           /\ \A i, j \in 1 .. Cardinality(S) : InOrder(S)[i] = InOrder(S)[j] => i = j
<1> DEFINE n == Cardinality(S)
<1>1. n \in Nat
  BY PlacesAreAll
<1>2. \A i \in 1 .. n : \E s \in S : PlaceIn(S, s) = i - 1
  BY PlacesAreAll
<1>3. \A s \in S : PlaceIn(S, s) \in 0 .. n - 1
  BY PlacesAreAll
<1>4. \A a, b \in S : PlaceIn(S, a) = PlaceIn(S, b) => a = b
  BY PlacesAreAll
<1>5. InOrder(S) = [i \in 1 .. n |-> CHOOSE s \in S : PlaceIn(S, s) = i - 1]
  BY DEF InOrder, PlaceIn
<1> HIDE DEF n
<1>6. ASSUME NEW i \in 1 .. n
      PROVE  InOrder(S)[i] \in S /\ PlaceIn(S, InOrder(S)[i]) = i - 1
  BY <1>2, <1>5
<1>7. ASSUME NEW s \in S PROVE \E i \in 1 .. n : InOrder(S)[i] = s
  <2> DEFINE i == PlaceIn(S, s) + 1
  <2>1. i \in 1 .. n /\ i - 1 = PlaceIn(S, s)
    BY <1>1, <1>3
  <2>2. InOrder(S)[i] \in S /\ PlaceIn(S, InOrder(S)[i]) = i - 1
    <3> HIDE DEF i
    <3> QED
      BY <1>6, <2>1
  <2> HIDE DEF i
  <2> QED
    BY <1>4, <2>1, <2>2
<1>8. ASSUME NEW i \in 1 .. n, NEW j \in 1 .. n, InOrder(S)[i] = InOrder(S)[j]
      PROVE  i = j
  <2>1. i - 1 = j - 1
    BY <1>6, <1>8
  <2> QED
    BY <1>1, <2>1
<1> QED
  BY <1>7, <1>8 DEF n

-----------------------------------------------------------------------------
(* Steps of the sealer leave the segments and the writers' places alone.   *)

\* A step of w's sealer that keeps everything typed preserves the invariant.
LEMMA SealerStep ==
    ASSUME IInv, NEW w \in Writers, NEW b, NEW p \in Passes(b),
           NEW q \in Points \ Appending, q = "baseline" => b \in Nat \X Nat,
           pc[w] \notin Appending,
           pc' = [pc EXCEPT ![w] = q], seal' = [seal EXCEPT ![w] = p],
           UNCHANGED <<day, disk, count, acked, held, target, crashes>>,
           present' \in BOOLEAN, manifest' \in Seq(Records),
           from' \in {from, [from EXCEPT ![w] = NoSegment]}, Found(p),
           swept' \in [Writers -> BOOLEAN],
           faults' \in 0 .. MaxFaults, torn' \in torn .. MaxTorn
    PROVE  IInv'
<1>1. DirectoryTyped'
  BY DEF IInv, DirectoryTyped
<1>2. seal' = [v \in Writers |-> seal'[v]] /\ seal'[w] = p
      /\ \A v \in Writers : v # w => seal'[v] = seal[v]
  BY DEF IInv, WritersTyped
<1>3. pc' \in [Writers -> Points] /\ pc'[w] = q
      /\ \A v \in Writers : v # w => pc'[v] = pc[v]
  BY DEF IInv, WritersTyped
<1>4. p.boundary = b
  BY DEF Passes
<1>5. \A v \in Writers : /\ seal'[v] \in Passes(seal'[v].boundary)
                         /\ pc'[v] = "baseline" => seal'[v].boundary \in Nat \X Nat
  BY <1>2, <1>3, <1>4 DEF IInv, WritersTyped
<1>6. torn \in Nat /\ MaxTorn \in Nat
  BY StreamAssumption DEF IInv, WritersTyped
<1>f. from' \in [Writers -> Places]
      /\ \A v \in Writers : from'[v] = from[v] \/ from'[v] = NoSegment
  <2>1. NoSegment \in Places /\ from \in [Writers -> Places]
    BY DEF IInv, WritersTyped, NoSegment, Places
  <2> QED
    BY <2>1
<1>7. WritersTyped'
  BY <1>2, <1>3, <1>5, <1>6, <1>f DEF IInv, WritersTyped
<1>8. Topped' /\ NoSequenceGaps'
  BY DEF IInv, Topped, NoSequenceGaps
<1>10. ASSUME NEW v \in Writers PROVE WriterOK(v)'
  <2>1. day \in Nat /\ WriterOK(v) /\ WritersTyped
    BY StreamAssumption DEF IInv, DirectoryTyped
  <2>2. pc'[v] = pc[v] \/ (pc[v] \notin Appending /\ pc'[v] \notin Appending)
    BY <1>3
  <2> QED
    BY <2>1, <2>2, StillOK
<1>11. ASSUME NEW v \in Writers PROVE WorkFound(v)'
  <2>1. Found(seal'[v])
    BY <1>2 DEF IInv, WorkFound
  <2>2. from'[v] # NoSegment => from'[v].segment \in DOMAIN disk
    BY <1>f DEF IInv, WorkFound
  <2> QED
    BY <2>1, <2>2 DEF WorkFound, Found
<1> QED
  BY <1>1, <1>7, <1>8, <1>10, <1>11 DEF IInv

\* What the sealer's bookkeeping makes of a pass is a pass.
LEMMA PassesStayPasses ==
    ASSUME NEW b, NEW p \in Passes(b)
    PROVE  /\ p.todo # <<>> => NextWork(p) \in Passes(b) /\ Retry(p) \in Passes(b)
           /\ p.boundary = b
<1> SUFFICES ASSUME p.todo # <<>>
             PROVE  NextWork(p) \in Passes(b) /\ Retry(p) \in Passes(b)
  BY DEF Passes
<1>1. Tail(p.todo) \in Seq(Works) /\ MaxSealAttempts \in Nat \ {0}
  BY StreamAssumption DEF Passes
<1>2. NoClaim \in Claims /\ 0 \in 0 .. (MaxSealAttempts - 1)
  BY <1>1 DEF NoClaim, Claims
<1>3. NextWork(p) \in Passes(b)
  BY <1>1, <1>2 DEF NextWork, Passes
<1>4. p.attempts \in 0 .. (MaxSealAttempts - 1)
  BY DEF Passes
<1>5. p.attempts + 1 # MaxSealAttempts => p.attempts + 1 \in 0 .. (MaxSealAttempts - 1)
  BY <1>1, <1>4
<1>6. p.attempts + 1 # MaxSealAttempts =>
         [p EXCEPT !.attempts = @ + 1] \in Passes(b)
  BY <1>5 DEF Passes
<1> QED
  BY <1>3, <1>6 DEF Retry

\* No pass is a pass.
LEMMA NoPassIsAPass ==
    /\ NoPass \in Passes(<<0, 0>>) /\ NoClaim \in Claims /\ NoSegment \in Places
    /\ NoPass.boundary = <<0, 0>>
<1>1. MaxSealAttempts \in Nat \ {0}
  BY StreamAssumption
<1>2. <<>> \in Seq(Works)
  OBVIOUS
<1> QED
  BY <1>1, <1>2 DEF NoPass, NoClaim, NoSegment, Passes, Claims, Places

\* Records appended to the manifest are records.
LEMMA RecordAppended ==
    ASSUME DirectoryTyped, NEW r \in Records, AppendRecord(r)
    PROVE  present' \in BOOLEAN /\ manifest' \in Seq(Records)
BY AppendProperties DEF DirectoryTyped, AppendRecord

\* So is a torn one.
LEMMA TornIsARecord == TornRecord \in Records
BY DEF TornRecord, Records

\* What a writer's state is.
LEMMA WriterTyped ==
    ASSUME IInv, NEW w \in Writers
    PROVE  /\ pc[w] \in Points /\ held[w] \in Places /\ target[w] \in Places
           /\ from[w] \in Places /\ count[w] \in 0 .. MaxWrites
           /\ seal[w] \in Passes(seal[w].boundary)
           /\ seal[w].todo \in Seq(Works) /\ seal[w].claim \in Claims
           /\ seal[w].sealed \in SUBSET (Nat \X Nat)
           /\ DirectoryTyped /\ WritersTyped /\ WriterOK(w) /\ WorkFound(w)
           /\ pc = [pc EXCEPT ![w] = pc[w]] /\ seal = [seal EXCEPT ![w] = seal[w]]
<1>1. pc[w] \in Points /\ held[w] \in Places /\ target[w] \in Places
      /\ from[w] \in Places /\ count[w] \in 0 .. MaxWrites
      /\ seal[w] \in Passes(seal[w].boundary)
  BY DEF IInv, WritersTyped
<1>2. seal[w].todo \in Seq(Works) /\ seal[w].claim \in Claims
      /\ seal[w].sealed \in SUBSET (Nat \X Nat)
  BY <1>1 DEF Passes
<1>3. pc = [pc EXCEPT ![w] = pc[w]]
  BY DEF IInv, WritersTyped
<1>4. seal = [seal EXCEPT ![w] = seal[w]]
  BY DEF IInv, WritersTyped
<1> QED
  BY <1>1, <1>2, <1>3, <1>4 DEF IInv

-----------------------------------------------------------------------------
(* The steps of the sealer.                                                *)

\* The records claimed as sealed are segments.
LEMMA SealsTyped ==
    ASSUME DirectoryTyped
    PROVE  /\ Seals \in SUBSET Records
           /\ {r.segment : r \in Seals} \in SUBSET (Nat \X Nat)
<1>1. \A i \in 1 .. Len(manifest) : manifest[i] \in Records
  BY ElementOfSeq DEF DirectoryTyped
<1>2. DOMAIN manifest = 1 .. Len(manifest)
  BY DEF DirectoryTyped
<1>3. Seals \in SUBSET Records
  BY <1>1, <1>2 DEF Seals, Range
<1> QED
  BY <1>3 DEF Records

\* The highest segment of the others is a segment, or none.
LEMMA HighestIsASegment ==
    ASSUME DirectoryTyped, NEW w \in Writers
    PROVE  HighestSegment(w) \in Nat \X Nat
<1> DEFINE E == {s \in DOMAIN disk : s[1] <= day /\ s # held[w].segment}
<1>1. E \in SUBSET (Nat \X Nat)
  BY DiskTyped
<1>2. IsFiniteSet(E)
  BY FS_Subset DEF DirectoryTyped
<1>3. HighestSegment(w) = IF E = {} THEN <<0, 0>> ELSE Last(InOrder(E))
  BY DEF HighestSegment
<1> HIDE DEF E
<1>4. E # {} => Last(InOrder(E)) \in E
  BY <1>1, <1>2, InOrderIsOfTheSet
<1> QED
  BY <1>1, <1>3, <1>4

\* The work of a rotation is one segment or none.
LEMMA RotatedWorkIsWork ==
    ASSUME IInv, NEW w \in Writers, NEW sealed
    PROVE  RotatedWork(w, sealed) \in Seq(Works)
<1>1. from[w].segment \in Nat \X Nat /\ from[w].size \in Nat
  BY WriterTyped DEF Places
<1>2. [segment |-> from[w].segment, expected |-> from[w].size] \in Works
  BY <1>1 DEF Works
<1> QED
  BY <1>2 DEF RotatedWork

\* Loading the manifest.
LEMMA LoadManifestKeeps ==
    ASSUME IInv, NEW w \in Writers, LoadManifest(w)
    PROVE  IInv'
<1> DEFINE sealed == {r.segment : r \in Seals}
           b == IF present THEN Boundary ELSE HighestSegment(w)
           p == [NoPass EXCEPT !.first = ~swept[w], !.sealed = sealed,
                               !.boundary = b, !.todo = RotatedWork(w, sealed)]
           q == IF ~ManifestReadable THEN "idle" ELSE IF present THEN "seal" ELSE "baseline"
           P == IF ~ManifestReadable THEN NoPass ELSE p
<1>1. sealed \in SUBSET (Nat \X Nat)
  BY SealsTyped DEF IInv
<1>2. RotatedWork(w, sealed) \in Seq(Works) /\ swept[w] \in BOOLEAN
  BY RotatedWorkIsWork DEF IInv, WritersTyped
<1>3. NoPass \in Passes(<<0, 0>>)
  BY NoPassIsAPass
<1>4. p \in Passes(b)
  <2> HIDE DEF b, sealed
  <2> QED
    BY <1>1, <1>2, <1>3 DEF Passes
<1>5. P \in Passes(IF ~ManifestReadable THEN <<0, 0>> ELSE b)
  BY <1>3, <1>4
<1>6. q \in Points \ Appending
  BY DEF Points, Appending
<1>7. q = "baseline" => (IF ~ManifestReadable THEN <<0, 0>> ELSE b) \in Nat \X Nat
  BY HighestIsASegment DEF IInv
<1>8. seal' = [seal EXCEPT ![w] = P] /\ pc' = [pc EXCEPT ![w] = q] /\ pc[w] = "load"
  BY DEF LoadManifest
<1>9. UNCHANGED <<day, disk, count, acked, held, target, crashes, present, manifest,
                  faults, torn>>
  BY DEF LoadManifest, directory, bounds
<1>10. from' \in {from, [from EXCEPT ![w] = NoSegment]}
       /\ swept' \in [Writers -> BOOLEAN]
  BY DEF LoadManifest, IInv, WritersTyped
<1>11. present' \in BOOLEAN /\ manifest' \in Seq(Records)
       /\ faults' \in 0 .. MaxFaults /\ torn' \in torn .. MaxTorn
  BY <1>9, StreamAssumption DEF IInv, DirectoryTyped, WritersTyped
<1>12. pc[w] \notin Appending
  BY <1>8 DEF Appending
<1>13. Found(P)
  <2>1. Found(NoPass)
    BY DEF Found, NoPass
  <2>2. p.todo = RotatedWork(w, sealed)
    BY DEF NoPass
  <2>3. \A i \in 1 .. Len(RotatedWork(w, sealed)) :
           RotatedWork(w, sealed)[i].segment \in DOMAIN disk
    BY WriterTyped DEF RotatedWork, WorkFound
  <2> QED
    BY <2>1, <2>2, <2>3 DEF Found
<1> HIDE DEF P, q, b
<1> QED
  BY <1>13, <1>5, <1>6, <1>7, <1>8, <1>9, <1>10, <1>11, <1>12, SealerStep

\* The baseline.
LEMMA AppendBaselineKeeps ==
    ASSUME IInv, NEW w \in Writers, AppendBaseline(w)
    PROVE  IInv'
<1>1. pc[w] = "baseline" /\ seal[w].boundary \in Nat \X Nat
  BY DEF AppendBaseline, IInv, WritersTyped
<1>2. Baseline(seal[w].boundary) \in Records
  BY <1>1 DEF Baseline, Records
<1>3. present' \in BOOLEAN /\ manifest' \in Seq(Records)
  BY <1>2, RecordAppended DEF AppendBaseline, IInv
<1>4. UNCHANGED <<day, disk, count, acked, held, target, from, swept, seal,
                  faults, torn, crashes>>
  BY DEF AppendBaseline, writing, bounds
<1>5. faults' \in 0 .. MaxFaults /\ torn' \in torn .. MaxTorn
  BY <1>4, StreamAssumption DEF IInv, WritersTyped
<1>6. from' \in {from, [from EXCEPT ![w] = NoSegment]}
      /\ swept' \in [Writers -> BOOLEAN]
  BY <1>4 DEF IInv, WritersTyped
<1>7. Found(seal[w])
      /\ seal[w] \in Passes(seal[w].boundary) /\ seal' = [seal EXCEPT ![w] = seal[w]]
  BY <1>4, WriterTyped DEF WorkFound
<1>8. pc' = [pc EXCEPT ![w] = "seal"]
  BY DEF AppendBaseline
<1>9. "seal" \in Points \ Appending /\ pc[w] \notin Appending
  BY <1>1 DEF Points, Appending
<1> QED
  BY <1>3, <1>4, <1>5, <1>6, <1>7, <1>8, <1>9, SealerStep

\* A pass that cannot start.
LEMMA LoadFailsKeeps ==
    ASSUME IInv, NEW w \in Writers, LoadFails(w)
    PROVE  IInv'
<1>1. pc[w] \notin Appending /\ "idle" \in Points \ Appending
  BY DEF LoadFails, Appending, Points
<1>2. pc' = [pc EXCEPT ![w] = "idle"] /\ seal' = [seal EXCEPT ![w] = NoPass]
      /\ NoPass \in Passes(<<0, 0>>)
  BY NoPassIsAPass DEF LoadFails
<1>3. UNCHANGED <<day, disk, count, acked, held, target, crashes>>
  BY DEF LoadFails
<1>4. from' \in {from, [from EXCEPT ![w] = NoSegment]} /\ Found(NoPass)
      /\ swept' \in [Writers -> BOOLEAN]
  BY DEF LoadFails, IInv, WritersTyped, Found, NoPass
<1>5. /\ faults \in 0 .. MaxFaults /\ torn \in 0 .. MaxTorn
      /\ MaxFaults \in Nat /\ MaxTorn \in Nat
      /\ DirectoryTyped /\ present \in BOOLEAN /\ manifest \in Seq(Records)
  BY StreamAssumption DEF IInv, WritersTyped, DirectoryTyped
<1>6. CASE /\ faults < MaxFaults /\ faults' = faults + 1
           /\ present' \in {present, present \/ pc[w] = "baseline"}
           /\ UNCHANGED <<manifest, torn>>
  <2>1. present' \in BOOLEAN /\ manifest' \in Seq(Records)
    BY <1>5, <1>6
  <2>2. faults' \in 0 .. MaxFaults /\ torn' \in torn .. MaxTorn
    BY <1>5, <1>6
  <2> QED
    BY <1>1, <1>2, <1>3, <1>4, <2>1, <2>2, SealerStep
<1>7. CASE /\ pc[w] = "baseline" /\ torn < MaxTorn /\ torn' = torn + 1
           /\ AppendRecord(TornRecord)
           /\ UNCHANGED faults
  <2>1. present' \in BOOLEAN /\ manifest' \in Seq(Records)
    BY <1>5, <1>7, RecordAppended, TornIsARecord
  <2>2. faults' \in 0 .. MaxFaults /\ torn' \in torn .. MaxTorn
    BY <1>5, <1>7
  <2> QED
    BY <1>1, <1>2, <1>3, <1>4, <2>1, <2>2, SealerStep
<1> QED
  BY <1>6, <1>7 DEF LoadFails

\* The steps within a pass that has work.
LEMMA WorkStep ==
    ASSUME IInv, NEW w \in Writers, pc[w] = "seal",
           NEW p \in Passes(seal[w].boundary), Found(p),
           seal' = [seal EXCEPT ![w] = p], NEW q \in {"seal", "idle"},
           pc' = [pc EXCEPT ![w] = q],
           UNCHANGED <<day, disk, count, acked, held, target, from, swept, crashes>>,
           present' \in BOOLEAN, manifest' \in Seq(Records),
           faults' \in 0 .. MaxFaults, torn' \in torn .. MaxTorn
    PROVE  IInv'
<1>1. q \in Points \ Appending /\ q # "baseline" /\ pc[w] \notin Appending
  BY DEF Points, Appending
<1>2. from' \in {from, [from EXCEPT ![w] = NoSegment]}
      /\ swept' \in [Writers -> BOOLEAN]
  BY DEF IInv, WritersTyped
<1> QED
  BY <1>1, <1>2, SealerStep

\* Counters that stay are in their ranges.
LEMMA CountersStay ==
    ASSUME IInv, UNCHANGED <<faults, torn>>
    PROVE  faults' \in 0 .. MaxFaults /\ torn' \in torn .. MaxTorn
BY StreamAssumption DEF IInv, WritersTyped

\* What a pass has left to do is part of what it had to do.
LEMMA TailIsFound ==
    ASSUME NEW b, NEW p \in Passes(b), p.todo # <<>>, Found(p)
    PROVE  Found(NextWork(p)) /\ Found(Retry(p))
<1>1. p.todo \in Seq(Works)
  BY DEF Passes
<1>2. /\ Len(Tail(p.todo)) = Len(p.todo) - 1
      /\ \A i \in 1 .. Len(Tail(p.todo)) :
            i + 1 \in 1 .. Len(p.todo) /\ Tail(p.todo)[i] = p.todo[i + 1]
  BY <1>1
<1>3. NextWork(p).todo = Tail(p.todo)
  BY DEF Passes, NextWork
<1>4. Found(NextWork(p))
  BY <1>2, <1>3 DEF Found
<1>5. [p EXCEPT !.attempts = @ + 1].todo = p.todo
  BY DEF Passes
<1> QED
  BY <1>4, <1>5 DEF Found, Retry

\* Measuring a segment.
LEMMA MeasureKeeps ==
    ASSUME IInv, NEW w \in Writers, Measure(w)
    PROVE  IInv'
<1> DEFINE work == Head(seal[w].todo)
           c == [segment |-> work.segment, length |-> Len(disk[work.segment])]
           m == [seal[w] EXCEPT !.claim = c, !.attempts = 0]
           b == seal[w].boundary
           p == IF Agrees(work) THEN m ELSE NextWork(seal[w])
<1>1. pc[w] = "seal" /\ seal[w].todo # <<>> /\ seal[w] \in Passes(b)
      /\ seal[w].todo \in Seq(Works) /\ Found(seal[w])
  BY WriterTyped DEF Measure, Working, WorkFound
<1>2. seal' = [seal EXCEPT ![w] = p]
  BY WriterTyped DEF Measure, WritersTyped
<1>3. 1 \in 1 .. Len(seal[w].todo) /\ work = seal[w].todo[1]
  BY <1>1
<1>4. work \in Works /\ work.segment \in DOMAIN disk
  BY <1>1, <1>3, ElementOfSeq DEF Found
<1>5. c \in Claims
  <2>1. Len(disk[work.segment]) \in Nat /\ work.segment \in Nat \X Nat
    BY <1>4, DiskTyped DEF IInv
  <2> QED
    BY <2>1 DEF Claims
<1>6. m \in Passes(b) /\ m.todo = seal[w].todo
  <2>1. 0 \in 0 .. (MaxSealAttempts - 1)
    BY StreamAssumption
  <2> HIDE DEF c, b
  <2> QED
    BY <1>1, <1>5, <2>1 DEF Passes
<1>7. NextWork(seal[w]) \in Passes(b) /\ Found(NextWork(seal[w]))
  BY <1>1, PassesStayPasses, TailIsFound
<1>8. p \in Passes(b) /\ Found(p)
  BY <1>1, <1>6, <1>7 DEF Found
<1>9. /\ UNCHANGED <<day, disk, count, acked, held, target, from, swept, crashes,
                     present, manifest, faults, torn>>
      /\ pc' = [pc EXCEPT ![w] = "seal"]
  BY <1>1, WriterTyped DEF Measure, directory, writing, bounds
<1>10. present' \in BOOLEAN /\ manifest' \in Seq(Records)
  BY <1>9 DEF IInv, DirectoryTyped
<1>11. faults' \in 0 .. MaxFaults /\ torn' \in torn .. MaxTorn
  BY <1>9, CountersStay
<1> HIDE DEF p
<1> QED
  BY <1>1, <1>2, <1>8, <1>9, <1>10, <1>11, WorkStep

\* The claim of a measured segment.
LEMMA AppendClaimKeeps ==
    ASSUME IInv, NEW w \in Writers, AppendClaim(w)
    PROVE  IInv'
<1> DEFINE b == seal[w].boundary
           n == NextWork(seal[w])
           p == [n EXCEPT !.sealed = seal[w].sealed \union {seal[w].claim.segment}]
<1>1. pc[w] = "seal" /\ seal[w].todo # <<>> /\ seal[w] \in Passes(b)
      /\ seal[w].todo \in Seq(Works) /\ Found(seal[w])
  BY WriterTyped DEF AppendClaim, Working, WorkFound
<1>2. seal' = [seal EXCEPT ![w] = p]
  BY WriterTyped DEF AppendClaim, WritersTyped
<1>3. n \in Passes(b) /\ Found(n)
  BY <1>1, PassesStayPasses, TailIsFound
<1>4. seal[w].claim \in Claims
  BY WriterTyped
<1>5. p \in Passes(b) /\ p.todo = n.todo
  <2> HIDE DEF n, b
  <2> QED
    BY <1>3, <1>4, WriterTyped DEF Passes, Claims
<1>6. Found(p)
  BY <1>3, <1>5 DEF Found
<1>7. /\ UNCHANGED <<day, disk, count, acked, held, target, from, swept, crashes,
                     faults, torn>>
      /\ pc' = [pc EXCEPT ![w] = "seal"]
  BY <1>1, WriterTyped DEF AppendClaim, writing, bounds
<1>8. SealRecord(w) \in Records
  <2>1. (Head(seal[w].todo).expected = -1) \in BOOLEAN
    OBVIOUS
  <2> QED
    BY <1>4, <2>1 DEF SealRecord, Records, Claims
<1>9. present' \in BOOLEAN /\ manifest' \in Seq(Records)
  BY <1>8, RecordAppended DEF AppendClaim, IInv
<1>10. faults' \in 0 .. MaxFaults /\ torn' \in torn .. MaxTorn
  BY <1>7, CountersStay
<1> HIDE DEF p
<1> QED
  BY <1>1, <1>2, <1>5, <1>6, <1>7, <1>9, <1>10, WorkStep

\* A measurement or an append of the claim that fails.
LEMMA SealFailsKeeps ==
    ASSUME IInv, NEW w \in Writers, SealFails(w)
    PROVE  IInv'
<1> DEFINE b == seal[w].boundary
           p == Retry(seal[w])
<1>1. pc[w] = "seal" /\ seal[w].todo # <<>> /\ seal[w] \in Passes(b)
      /\ Found(seal[w])
  BY WriterTyped DEF SealFails, Working, WorkFound
<1>2. seal' = [seal EXCEPT ![w] = p]
  BY WriterTyped DEF SealFails, WritersTyped
<1>3. p \in Passes(b) /\ Found(p)
  BY <1>1, PassesStayPasses, TailIsFound
<1>4. /\ UNCHANGED <<day, disk, count, acked, held, target, from, swept, crashes>>
      /\ pc' = [pc EXCEPT ![w] = "seal"]
  BY <1>1, WriterTyped DEF SealFails, writing
<1>5. /\ faults \in 0 .. MaxFaults /\ torn \in 0 .. MaxTorn
      /\ MaxFaults \in Nat /\ MaxTorn \in Nat
      /\ DirectoryTyped /\ present \in BOOLEAN /\ manifest \in Seq(Records)
  BY StreamAssumption DEF IInv, WritersTyped, DirectoryTyped
<1> HIDE DEF p, b
<1>6. CASE /\ faults < MaxFaults /\ faults' = faults + 1
           /\ UNCHANGED <<present, manifest, torn>>
  <2>1. present' \in BOOLEAN /\ manifest' \in Seq(Records)
    BY <1>5, <1>6
  <2>2. faults' \in 0 .. MaxFaults /\ torn' \in torn .. MaxTorn
    BY <1>5, <1>6
  <2> QED
    BY <1>1, <1>2, <1>3, <1>4, <2>1, <2>2, WorkStep DEF b
<1>7. CASE /\ seal[w].claim # NoClaim /\ torn < MaxTorn /\ torn' = torn + 1
           /\ AppendRecord(TornRecord)
           /\ UNCHANGED faults
  <2>1. present' \in BOOLEAN /\ manifest' \in Seq(Records)
    BY <1>5, <1>7, RecordAppended, TornIsARecord
  <2>2. faults' \in 0 .. MaxFaults /\ torn' \in torn .. MaxTorn
    BY <1>5, <1>7
  <2> QED
    BY <1>1, <1>2, <1>3, <1>4, <2>1, <2>2, WorkStep DEF b
<1> QED
  BY <1>6, <1>7 DEF SealFails

\* The smaller of two naturals.
LEMMA MinOfTwo ==
    ASSUME NEW a \in Nat, NEW b \in Nat
    PROVE  /\ Min({a, b}) \in Nat /\ Min({a, b}) <= a /\ Min({a, b}) <= b
           /\ Min({a, b}) \in {a, b}
<1>1. \E x \in {a, b} : \A y \in {a, b} : x <= y
  OBVIOUS
<1>2. PICK m \in {a, b} : m = Min({a, b}) /\ \A y \in {a, b} : m <= y
  BY <1>1 DEF Min
<1> QED
  BY <1>2

\* What Sweep leaves to do is segments it admits, each once, and all of them
\* unless it meets its cap.
LEMMA SweepTyped ==
    ASSUME IInv, NEW w \in Writers, Sweep(w)
    PROVE  \E todo \in Seq(Works) :
              /\ seal' = [seal EXCEPT ![w] = [seal[w] EXCEPT !.first = FALSE,
                                                 !.today = day, !.todo = todo]]
              /\ \A i \in 1 .. Len(todo) :
                    todo[i].segment \in DOMAIN disk /\ Admits(w, todo[i].segment)
              /\ \A i \in 1 .. Len(todo) : todo[i].expected = -1
              /\ \A i, j \in 1 .. Len(todo) : todo[i].segment = todo[j].segment => i = j
              /\ \/ \A s \in DOMAIN disk : Admits(w, s) =>
                        \E i \in 1 .. Len(todo) : todo[i].segment = s
                 \/ Len(todo) = MaxSweepSeals
<1> DEFINE S == {s \in DOMAIN disk : Admits(w, s)}
           c == InOrder(S)
           m == Min({MaxSweepSeals, Len(c)})
           h == SubSeq(c, 1, m)
           todo == [i \in 1 .. Len(h) |-> [segment |-> h[i], expected |-> -1]]
<1>1. S \in SUBSET (Nat \X Nat) /\ IsFiniteSet(S)
  <2>1. S \in SUBSET (DOMAIN disk) /\ IsFiniteSet(DOMAIN disk)
    BY DEF IInv, DirectoryTyped
  <2> QED
    BY <2>1, FS_Subset, DiskTyped DEF IInv
<1>2. seal' = [seal EXCEPT ![w] = [seal[w] EXCEPT !.first = FALSE,
                                                 !.today = day, !.todo = todo]]
  BY DEF Sweep
<1>3. S \subseteq DOMAIN disk /\ \A s \in S : Admits(w, s)
  OBVIOUS
<1>a. \A s \in DOMAIN disk : Admits(w, s) => s \in S
  OBVIOUS
<1> HIDE DEF S
<1>4. c \in Seq(S) /\ Len(c) \in Nat
  BY <1>1, InOrderIsOfTheSet, LenProperties
<1>b. /\ \A s \in S : \E i \in 1 .. Len(c) : c[i] = s
      /\ \A i, j \in 1 .. Len(c) : c[i] = c[j] => i = j
  <2>1. Len(c) = Cardinality(S)
    BY <1>1, InOrderIsOfTheSet
  <2> QED
    BY <1>1, <2>1, InOrderIsAllOfIt
<1>5. m \in Nat /\ m <= Len(c) /\ m \in {MaxSweepSeals, Len(c)}
  <2> HIDE DEF c
  <2> QED
    BY <1>4, MinOfTwo, StreamAssumption
<1> HIDE DEF c, m
<1>6. h \in Seq(S) /\ Len(h) = m /\ \A i \in 1 .. m : h[i] = c[i]
  <2>1. h \in Seq(S) /\ Len(h) = m
    BY <1>4, <1>5, SubSeqProperties
  <2>2. ASSUME NEW i \in 1 .. m PROVE h[i] = c[i]
    BY <1>4, <1>5, SubSeqProperties
  <2> QED
    BY <2>1, <2>2
<1>7. Len(h) \in Nat /\ \A i \in 1 .. Len(h) : h[i] \in S
  BY <1>6, LenProperties, ElementOfSeq
<1> HIDE DEF h
<1>8. todo \in Seq(Works) /\ Len(todo) = Len(h)
  <2>1. \A i \in 1 .. Len(h) : [segment |-> h[i], expected |-> -1] \in Works
    BY <1>1, <1>7 DEF Works
  <2> QED
    BY <1>7, <2>1
<1>9. \A i \in 1 .. Len(todo) :
         todo[i].segment = h[i] /\ h[i] \in S /\ todo[i].expected = -1
  BY <1>7, <1>8
<1> HIDE DEF todo
<1>10. \A i, j \in 1 .. Len(todo) : todo[i].segment = todo[j].segment => i = j
  <2> SUFFICES ASSUME NEW i \in 1 .. Len(todo), NEW j \in 1 .. Len(todo),
                      todo[i].segment = todo[j].segment
               PROVE  i = j
    OBVIOUS
  <2>1. h[i] = h[j]
    BY <1>9
  <2>2. i \in 1 .. m /\ j \in 1 .. m
    BY <1>6, <1>8
  <2>3. c[i] = c[j] /\ i \in 1 .. Len(c) /\ j \in 1 .. Len(c)
    BY <1>4, <1>5, <1>6, <2>1, <2>2
  <2> QED
    BY <1>b, <2>3
<1>11. CASE m = MaxSweepSeals
  BY <1>2, <1>3, <1>6, <1>8, <1>9, <1>10, <1>11
<1>12. CASE m = Len(c)
  <2>1. \A s \in DOMAIN disk : Admits(w, s) =>
           \E i \in 1 .. Len(todo) : todo[i].segment = s
    <3> SUFFICES ASSUME NEW s \in DOMAIN disk, Admits(w, s)
                 PROVE  \E i \in 1 .. Len(todo) : todo[i].segment = s
      OBVIOUS
    <3>1. PICK i \in 1 .. Len(c) : c[i] = s
      BY <1>a, <1>b
    <3>2. i \in 1 .. Len(todo) /\ h[i] = s
      BY <1>6, <1>8, <1>12, <3>1
    <3> QED
      BY <1>9, <3>2
  <2> QED
    BY <1>2, <1>3, <1>8, <1>9, <1>10, <2>1
<1> QED
  BY <1>5, <1>11, <1>12

\* The start of a sweep.
LEMMA SweepKeeps ==
    ASSUME IInv, NEW w \in Writers, Sweep(w)
    PROVE  IInv'
<1>1. PICK todo \in Seq(Works) :
         /\ seal' = [seal EXCEPT ![w] = [seal[w] EXCEPT !.first = FALSE,
                                            !.today = day, !.todo = todo]]
         /\ \A i \in 1 .. Len(todo) :
               todo[i].segment \in DOMAIN disk /\ Admits(w, todo[i].segment)
  BY SweepTyped
<1> DEFINE p == [seal[w] EXCEPT !.first = FALSE, !.today = day, !.todo = todo]
<1>2. seal[w] \in Passes(seal[w].boundary) /\ pc[w] = "seal" /\ day \in Nat
  BY WriterTyped, StreamAssumption DEF Sweep, DirectoryTyped
<1>3. p \in Passes(seal[w].boundary) /\ p.todo = todo
  BY <1>2 DEF Passes
<1>4. Found(p)
  BY <1>1, <1>3 DEF Found
<1>5. /\ UNCHANGED <<day, disk, count, acked, held, target, from, swept, crashes,
                     present, manifest, faults, torn>>
      /\ pc' = [pc EXCEPT ![w] = "seal"]
  BY <1>2, WriterTyped DEF Sweep, directory, writing, bounds
<1>6. present' \in BOOLEAN /\ manifest' \in Seq(Records)
  BY <1>5 DEF IInv, DirectoryTyped
<1>7. faults' \in 0 .. MaxFaults /\ torn' \in torn .. MaxTorn
  BY <1>5, CountersStay
<1>8. seal' = [seal EXCEPT ![w] = p]
  BY <1>1
<1> HIDE DEF p
<1> QED
  BY <1>2, <1>3, <1>4, <1>5, <1>6, <1>7, <1>8, WorkStep

\* The end of a pass.
LEMMA EndPassKeeps ==
    ASSUME IInv, NEW w \in Writers, EndPass(w)
    PROVE  IInv'
<1>1. pc[w] = "seal" /\ pc' = [pc EXCEPT ![w] = "idle"]
      /\ seal' = [seal EXCEPT ![w] = NoPass]
  BY DEF EndPass
<1>2. UNCHANGED <<day, disk, count, acked, held, target, from, swept, crashes,
                  present, manifest, faults, torn>>
  BY DEF EndPass, directory, writing, bounds
<1>3. present' \in BOOLEAN /\ manifest' \in Seq(Records)
      /\ from' \in {from, [from EXCEPT ![w] = NoSegment]}
      /\ swept' \in [Writers -> BOOLEAN]
  BY <1>2 DEF IInv, DirectoryTyped, WritersTyped
<1>4. faults' \in 0 .. MaxFaults /\ torn' \in torn .. MaxTorn
  BY <1>2, CountersStay
<1>5. NoPass \in Passes(<<0, 0>>) /\ Found(NoPass)
  BY NoPassIsAPass DEF Found, NoPass
<1>6. "idle" \in Points \ Appending /\ pc[w] \notin Appending
  BY <1>1 DEF Points, Appending
<1> QED
  BY <1>1, <1>2, <1>3, <1>4, <1>5, <1>6, SealerStep

-----------------------------------------------------------------------------
(* The steps of an append.                                                 *)

\* A step of w's append preserves the invariant when it keeps everything
\* typed, only adds pieces of w, and leaves w as it should be.
LEMMA AppenderStep ==
    ASSUME IInv, NEW w \in Writers, day' = day, Grows(w),
           DirectoryTyped', WritersTyped', Topped', NoSequenceGaps',
           \A v \in Writers : v # w => Rests(v) /\ from'[v] = from[v] /\ seal'[v] = seal[v],
           WriterOK(w)', WorkFound(w)'
    PROVE  IInv'
<1>1. ASSUME NEW v \in Writers, v # w PROVE WriterOK(v)'
  BY <1>1, OthersStay DEF IInv
<1>2. ASSUME NEW v \in Writers, v # w PROVE WorkFound(v)'
  <2>1. seal'[v] = seal[v] /\ from'[v] = from[v] /\ DOMAIN disk \subseteq DOMAIN disk'
    BY <1>2 DEF Grows
  <2>2. WorkFound(v)
    BY DEF IInv
  <2> QED
    BY <2>1, <2>2 DEF WorkFound, Found
<1> QED
  BY <1>1, <1>2 DEF IInv

\* A step that leaves the directory alone adds nothing to it.
LEMMA NothingGrows ==
    ASSUME DirectoryTyped, NEW w, disk' = disk
    PROVE  Grows(w)
<1>1. \A s \in DOMAIN disk : Len(disk[s]) \in Nat
  BY DiskTyped
<1> QED
  BY <1>1 DEF Grows

\* Resolving the active segment.
LEMMA ResolveKeeps ==
    ASSUME IInv, NEW w \in Writers, Resolve(w)
    PROVE  IInv'
<1>1. /\ pc[w] = "idle" /\ count[w] < MaxWrites
      /\ count' = [count EXCEPT ![w] = @ + 1] /\ pc' = [pc EXCEPT ![w] = "open"]
      /\ UNCHANGED <<day, disk, present, manifest, acked, held, swept, seal, faults,
                     torn, crashes>>
  BY DEF Resolve, directory, bounds
<1>2. PICK t, f :
         target' = [target EXCEPT ![w] = t] /\ from' = [from EXCEPT ![w] = f]
  BY DEF Resolve
<1>3. /\ target'[w] \in Places /\ from'[w] \in Places /\ Fit(w, target'[w])
      /\ from'[w] # NoSegment => from'[w].segment \in DOMAIN disk
  BY <1>1, RotationFits DEF IInv
<1>4. target'[w] = t /\ from'[w] = f
      /\ \A v \in Writers : v # w => target'[v] = target[v] /\ from'[v] = from[v]
  BY <1>2 DEF IInv, WritersTyped
<1>5. count[w] \in 0 .. MaxWrites /\ MaxWrites \in Nat /\ count'[w] = count[w] + 1
      /\ count'[w] \in 0 .. MaxWrites
  BY <1>1, StreamAssumption DEF IInv, WritersTyped
<1>6. count' \in [Writers -> 0 .. MaxWrites] /\ pc' \in [Writers -> Points]
      /\ pc'[w] = "open"
      /\ \A v \in Writers : v # w => count'[v] = count[v] /\ pc'[v] = pc[v]
  BY <1>1, <1>5 DEF IInv, WritersTyped, Points
<1>7. target' \in [Writers -> Places] /\ from' \in [Writers -> Places]
  BY <1>2, <1>3, <1>4 DEF IInv, WritersTyped
<1>8. WritersTyped'
  <2>1. \A v \in Writers : pc'[v] = "baseline" => pc[v] = "baseline"
    BY <1>6
  <2>2. \A v \in Writers :
           /\ seal'[v] \in Passes(seal'[v].boundary)
           /\ pc'[v] = "baseline" => seal'[v].boundary \in Nat \X Nat
    BY <1>1, <2>1 DEF IInv, WritersTyped
  <2>3. seal' = [v \in Writers |-> seal'[v]]
    BY <1>1 DEF IInv, WritersTyped
  <2> QED
    BY <1>1, <1>6, <1>7, <2>2, <2>3 DEF IInv, WritersTyped
<1>9. DirectoryTyped' /\ Topped' /\ NoSequenceGaps'
  BY <1>1 DEF IInv, DirectoryTyped, Topped, NoSequenceGaps
<1>10. Grows(w)
  BY <1>1, NothingGrows DEF IInv
<1>11. \A v \in Writers : v # w => Rests(v) /\ from'[v] = from[v] /\ seal'[v] = seal[v]
  BY <1>1, <1>4, <1>6 DEF Rests
<1>12. WorkFound(w)'
  BY <1>1, <1>3 DEF IInv, WorkFound, Found
<1>13. WriterOK(w)'
  <2>1. acked'[w] \subseteq 1 .. (count'[w] - 1) /\ count'[w] >= 1
        /\ acked'[w] \subseteq 1 .. count'[w]
    BY <1>1, <1>5 DEF IInv, WriterOK
  <2>2. Believes(held[w])'
    BY <1>1 DEF IInv, WriterOK, Believes
  <2>3. Aimed(w)'
    <3>1. /\ target'[w].segment \in (1 .. day') \X (Nat \ {0})
          /\ target'[w].segment[2] > 1 =>
               <<target'[w].segment[1], target'[w].segment[2] - 1>> \in DOMAIN disk'
          /\ target'[w].size <= LengthIn(disk', target'[w].segment)
      BY <1>1, <1>3 DEF Fit
    <3> QED
      BY <1>6, <2>1, <3>1 DEF Aimed
  <2>4. ASSUME NEW s \in DOMAIN disk', NEW j \in 1 .. Len(disk'[s])
        PROVE  Placed(w, s, j)'
    <3> SUFFICES ASSUME disk'[s][j].writer = w
                 PROVE  disk'[s][j].write < count'[w] /\ disk'[s][j].write <= count'[w]
                        /\ ~Before(target'[w].segment, s)
      BY <1>6 DEF Placed, Appending
    <3>1. disk[s][j].write <= count[w] /\ disk[s][j] \in Pieces
      BY <1>1, DiskTyped DEF IInv, WriterOK, Placed
    <3>2. disk[s][j].write \in Nat
      BY <3>1 DEF Pieces
    <3>3. ~Before(target'[w].segment, s)
      BY <1>1, <1>3 DEF Fit
    <3> QED
      BY <1>1, <1>5, <3>1, <3>2, <3>3
  <2>5. Landed(w)'
    BY <1>6 DEF Landed
  <2> QED
    BY <2>1, <2>2, <2>3, <2>4, <2>5 DEF WriterOK
<1> QED
  BY <1>1, <1>8, <1>9, <1>10, <1>11, <1>12, <1>13, AppenderStep

\* Steps that change nothing a writer's typing speaks of but pc.
LEMMA PointMoves ==
    ASSUME IInv, NEW w \in Writers, NEW q \in Points \ {"baseline"},
           pc' = [pc EXCEPT ![w] = q],
           UNCHANGED <<count, acked, held, target, from, swept, seal, faults, crashes>>,
           torn' \in 0 .. MaxTorn
    PROVE  /\ WritersTyped' /\ pc'[w] = q
           /\ \A v \in Writers : v # w => Rests(v) /\ from'[v] = from[v] /\ seal'[v] = seal[v]
<1>1. pc' \in [Writers -> Points] /\ pc'[w] = q
      /\ \A v \in Writers : v # w => pc'[v] = pc[v]
  BY DEF IInv, WritersTyped
<1>2. \A v \in Writers : pc'[v] = "baseline" => pc[v] = "baseline"
  BY <1>1
<1>3. WritersTyped'
  <2>1. \A v \in Writers :
           /\ seal'[v] \in Passes(seal'[v].boundary)
           /\ pc'[v] = "baseline" => seal'[v].boundary \in Nat \X Nat
    BY <1>2 DEF IInv, WritersTyped
  <2>2. seal' = [v \in Writers |-> seal'[v]]
    BY DEF IInv, WritersTyped
  <2> QED
    BY <1>1, <2>1, <2>2 DEF IInv, WritersTyped
<1> QED
  BY <1>1, <1>3 DEF Rests

\* What opening a segment makes of the directory.
LEMMA Opened ==
    ASSUME IInv, NEW w \in Writers, OpenSegment(w)
    PROVE  /\ target[w].segment \in DOMAIN disk'
           /\ target[w].segment \notin DOMAIN disk => disk'[target[w].segment] = <<>>
           /\ DOMAIN disk' = DOMAIN disk \cup {target[w].segment}
           /\ \A s \in DOMAIN disk : disk'[s] = disk[s]
           /\ DirectoryTyped' /\ Topped' /\ NoSequenceGaps' /\ Grows(w)
<1> DEFINE g == target[w].segment
<1>1. disk' = [s \in DOMAIN disk \union {g} |-> IF s \in DOMAIN disk THEN disk[s] ELSE <<>>]
      /\ pc[w] = "open" /\ UNCHANGED <<day, present, manifest>>
  BY DEF OpenSegment
<1>2. Aimed(w)
  BY <1>1 DEF IInv, WriterOK, Appending
<1>3. g \in (1 .. day) \X (Nat \ {0})
      /\ (g[2] > 1 => <<g[1], g[2] - 1>> \in DOMAIN disk)
  BY <1>2 DEF Aimed
<1> HIDE DEF g
<1>4. /\ DOMAIN disk' = DOMAIN disk \cup {g}
      /\ \A s \in DOMAIN disk : disk'[s] = disk[s]
      /\ g \notin DOMAIN disk => disk'[g] = <<>>
  BY <1>1
<1>5. day \in Nat /\ g \in Nat \X Nat /\ g[1] \in Nat /\ g[2] \in Nat
  BY <1>3, StreamAssumption DEF IInv, DirectoryTyped
<1>6. DirectoryTyped'
  <2>1. disk' \in [DOMAIN disk' -> Seq(Pieces)]
    <3>1. \A s \in DOMAIN disk \union {g} :
             (IF s \in DOMAIN disk THEN disk[s] ELSE <<>>) \in Seq(Pieces)
      BY DEF IInv, DirectoryTyped
    <3> QED
      BY <1>1, <3>1
  <2>2. IsFiniteSet(DOMAIN disk')
    BY <1>4, FS_AddElement DEF IInv, DirectoryTyped
  <2>3. DOMAIN disk' \subseteq (1 .. day') \X (Nat \ {0})
    BY <1>1, <1>3, <1>4 DEF IInv, DirectoryTyped
  <2> QED
    BY <1>1, <2>1, <2>2, <2>3 DEF IInv, DirectoryTyped
<1>7. Topped'
  <2> SUFFICES ASSUME NEW s \in DOMAIN disk'
               PROVE  \E t \in DOMAIN disk' :
                         t[1] = s[1] /\ \A u \in DOMAIN disk' : u[1] = s[1] => u[2] <= t[2]
    BY DEF Topped
  <2>1. \A u \in DOMAIN disk : u[2] \in Nat
    BY DiskTyped DEF IInv
  <2>2. CASE s[1] # g[1]
    <3>1. s \in DOMAIN disk
      BY <1>4, <2>2
    <3>2. PICK t \in DOMAIN disk :
             t[1] = s[1] /\ \A u \in DOMAIN disk : u[1] = s[1] => u[2] <= t[2]
      BY <3>1 DEF IInv, Topped
    <3> QED
      BY <1>4, <2>2, <3>2
  <2>3. CASE s[1] = g[1] /\ \E r \in DOMAIN disk : r[1] = g[1]
    <3>1. PICK t \in DOMAIN disk :
             t[1] = s[1] /\ \A u \in DOMAIN disk : u[1] = s[1] => u[2] <= t[2]
      BY <2>3 DEF IInv, Topped
    <3>2. CASE g[2] <= t[2]
      BY <1>4, <3>1, <3>2
    <3>3. CASE t[2] <= g[2]
      <4>1. \A u \in DOMAIN disk : u[1] = s[1] => u[2] <= g[2]
        BY <1>5, <2>1, <3>1, <3>3
      <4>2. \A u \in DOMAIN disk' : u[1] = s[1] => u[2] <= g[2]
        BY <1>4, <1>5, <4>1
      <4> QED
        BY <1>4, <2>3, <4>2
    <3> QED
      BY <1>5, <2>1, <3>2, <3>3
  <2>4. CASE s[1] = g[1] /\ ~\E r \in DOMAIN disk : r[1] = g[1]
    BY <1>4, <1>5, <2>4
  <2> QED
    BY <2>2, <2>3, <2>4
<1>8. NoSequenceGaps'
  <2>1. \A s \in DOMAIN disk : s[2] > 1 => <<s[1], s[2] - 1>> \in DOMAIN disk
    BY DEF IInv, NoSequenceGaps
  <2>2. \A s \in DOMAIN disk' : s[2] > 1 => <<s[1], s[2] - 1>> \in DOMAIN disk'
    BY <1>3, <1>4, <2>1
  <2> QED
    BY <2>2 DEF NoSequenceGaps
<1>9. Grows(w)
  <2>1. \A s \in DOMAIN disk : Len(disk[s]) \in Nat
    BY DiskTyped DEF IInv
  <2>2. \A s \in DOMAIN disk' : s \in DOMAIN disk \/ Len(disk'[s]) = 0
    BY <1>4
  <2> QED
    BY <1>4, <2>1, <2>2 DEF Grows
<1> QED
  BY <1>4, <1>6, <1>7, <1>8, <1>9 DEF g

\* Opening a segment.
LEMMA OpenSegmentKeeps ==
    ASSUME IInv, NEW w \in Writers, OpenSegment(w)
    PROVE  IInv'
<1> DEFINE g == target[w].segment
<1>1. /\ g \in DOMAIN disk'
      /\ g \notin DOMAIN disk => disk'[g] = <<>>
      /\ DOMAIN disk' = DOMAIN disk \cup {g}
      /\ \A s \in DOMAIN disk : disk'[s] = disk[s]
      /\ DirectoryTyped' /\ Topped' /\ NoSequenceGaps' /\ Grows(w)
  BY Opened
<1>2. /\ pc' = [pc EXCEPT ![w] = "write"] /\ pc[w] = "open"
      /\ UNCHANGED <<day, present, manifest, count, acked, held, target, from, swept,
                     seal, faults, torn, crashes>>
  BY DEF OpenSegment, writing, bounds
<1>3. /\ WritersTyped' /\ pc'[w] = "write"
      /\ \A v \in Writers : v # w => Rests(v) /\ from'[v] = from[v] /\ seal'[v] = seal[v]
  <2>1. torn' \in 0 .. MaxTorn /\ "write" \in Points \ {"baseline"}
    BY <1>2 DEF IInv, WritersTyped, Points
  <2> QED
    BY <1>2, <2>1, PointMoves
<1>4. \A s \in DOMAIN disk' : \A j \in 1 .. Len(disk'[s]) :
         s \in DOMAIN disk /\ j \in 1 .. Len(disk[s]) /\ disk'[s][j] = disk[s][j]
  <2>1. \A s \in DOMAIN disk' : s \in DOMAIN disk \/ Len(disk'[s]) = 0
    BY <1>1
  <2> QED
    BY <1>1, <2>1
<1>6. WorkFound(w)'
  BY <1>1, <1>2 DEF IInv, WorkFound, Found
<1>7. WriterOK(w) /\ Aimed(w)
  BY <1>2 DEF IInv, WriterOK, Appending
<1>8. WriterOK(w)'
  <2>1. Believes(held[w])'
    BY <1>1, <1>2, <1>7 DEF WriterOK, Believes
  <2>2. Aimed(w)'
    <3>1. LengthIn(disk', g) = LengthIn(disk, g)
      BY <1>1 DEF LengthIn
    <3> QED
      BY <1>1, <1>2, <1>3, <1>7, <3>1 DEF Aimed
  <2>3. ASSUME NEW s \in DOMAIN disk', NEW j \in 1 .. Len(disk'[s])
        PROVE  Placed(w, s, j)'
    <3>1. s \in DOMAIN disk /\ j \in 1 .. Len(disk[s]) /\ disk'[s][j] = disk[s][j]
      BY <1>4
    <3>2. Placed(w, s, j)
      BY <1>7, <3>1 DEF WriterOK
    <3> QED
      BY <1>2, <1>3, <3>1, <3>2 DEF Placed, Appending
  <2>4. Landed(w)'
    BY <1>3 DEF Landed
  <2> QED
    BY <1>2, <1>7, <2>1, <2>2, <2>3, <2>4 DEF WriterOK
<1> QED
  BY <1>1, <1>2, <1>3, <1>6, <1>8, AppenderStep

\* What an append makes of the directory.
LEMMA Written ==
    ASSUME IInv, NEW w \in Writers, pc[w] = "write", NEW whole \in BOOLEAN,
           Write(w, whole), UNCHANGED <<day, present, manifest>>
    PROVE  /\ target[w].segment \in DOMAIN disk /\ DOMAIN disk' = DOMAIN disk
           /\ Len(disk[target[w].segment]) \in Nat
           /\ Len(disk'[target[w].segment]) = Len(disk[target[w].segment]) + 1
           /\ \A s \in DOMAIN disk : s # target[w].segment => disk'[s] = disk[s]
           /\ \A j \in 1 .. Len(disk[target[w].segment]) :
                 disk'[target[w].segment][j] = disk[target[w].segment][j]
           /\ disk'[target[w].segment][Len(disk[target[w].segment]) + 1] = Piece(w, whole)
           /\ Piece(w, whole) \in Pieces
           /\ DirectoryTyped' /\ Topped' /\ NoSequenceGaps' /\ Grows(w)
<1> DEFINE g == target[w].segment
           p == Piece(w, whole)
<1>1. g \in DOMAIN disk /\ count[w] \in 1 .. MaxWrites
  <2>1. Aimed(w) /\ count[w] \in 0 .. MaxWrites /\ MaxWrites \in Nat
    BY StreamAssumption DEF IInv, WriterOK, Appending, WritersTyped
  <2> QED
    BY <2>1 DEF Aimed
<1>2. p \in Pieces
  BY <1>1 DEF Piece, Pieces
<1>3. disk' = [disk EXCEPT ![g] = Append(@, p)]
  BY DEF Write
<1> HIDE DEF g, p
<1>4. disk[g] \in Seq(Pieces) /\ disk \in [DOMAIN disk -> Seq(Pieces)]
  BY <1>1 DEF IInv, DirectoryTyped
<1>5. /\ Append(disk[g], p) \in Seq(Pieces) /\ Len(disk[g]) \in Nat
      /\ Len(Append(disk[g], p)) = Len(disk[g]) + 1
      /\ Append(disk[g], p)[Len(disk[g]) + 1] = p
      /\ \A j \in 1 .. Len(disk[g]) : Append(disk[g], p)[j] = disk[g][j]
  BY <1>2, <1>4, AppendProperties, LenProperties
<1>6. /\ DOMAIN disk' = DOMAIN disk /\ disk' \in [DOMAIN disk -> Seq(Pieces)]
      /\ disk'[g] = Append(disk[g], p)
      /\ \A s \in DOMAIN disk : s # g => disk'[s] = disk[s]
  BY <1>1, <1>3, <1>4, <1>5
<1>7. DirectoryTyped' /\ Topped' /\ NoSequenceGaps'
  BY <1>6 DEF IInv, DirectoryTyped, Topped, NoSequenceGaps
<1>8. p.writer = w
  BY DEF p, Piece
<1>9. Grows(w)
  <2>1. \A s \in DOMAIN disk : Len(disk[s]) \in Nat
    BY DiskTyped DEF IInv
  <2>2. ASSUME NEW s \in DOMAIN disk
        PROVE  /\ Len(disk[s]) <= Len(disk'[s])
               /\ \A j \in 1 .. Len(disk[s]) : disk'[s][j] = disk[s][j]
    <3>1. CASE s = g
      BY <1>5, <1>6, <3>1
    <3>2. CASE s # g
      BY <1>6, <2>1, <3>2
    <3> QED
      BY <3>1, <3>2
  <2>3. ASSUME NEW s \in DOMAIN disk', NEW j \in 1 .. Len(disk'[s])
        PROVE  (s \in DOMAIN disk /\ j \in 1 .. Len(disk[s])) \/ disk'[s][j].writer = w
    <3>1. CASE s = g
      <4>1. j \in 1 .. Len(disk[g]) \/ j = Len(disk[g]) + 1
        BY <1>5, <1>6, <3>1
      <4> QED
        BY <1>1, <1>5, <1>6, <1>8, <3>1, <4>1
    <3>2. CASE s # g
      BY <1>6, <3>2
    <3> QED
      BY <3>1, <3>2
  <2> QED
    BY <1>6, <2>2, <2>3 DEF Grows
<1> QED
  BY <1>1, <1>2, <1>5, <1>6, <1>7, <1>9 DEF g, p

\* The pieces behind an append are the pieces before it, and the new one.
LEMMA PiecesAfterWrite ==
    ASSUME IInv, NEW w \in Writers, pc[w] = "write", NEW whole \in BOOLEAN,
           Write(w, whole), UNCHANGED <<day, present, manifest>>,
           NEW s \in DOMAIN disk', NEW j \in 1 .. Len(disk'[s])
    PROVE  /\ s \in DOMAIN disk
           /\ \/ j \in 1 .. Len(disk[s]) /\ disk'[s][j] = disk[s][j]
              \/ /\ s = target[w].segment /\ j = Len(disk[s]) + 1
                 /\ disk'[s][j] = Piece(w, whole)
<1> DEFINE g == target[w].segment
<1>1. /\ g \in DOMAIN disk /\ DOMAIN disk' = DOMAIN disk
      /\ Len(disk[g]) \in Nat /\ Len(disk'[g]) = Len(disk[g]) + 1
      /\ \A r \in DOMAIN disk : r # g => disk'[r] = disk[r]
      /\ \A i \in 1 .. Len(disk[g]) : disk'[g][i] = disk[g][i]
      /\ disk'[g][Len(disk[g]) + 1] = Piece(w, whole)
  BY Written
<1> HIDE DEF g
<1>2. CASE s = g
  <2>1. j \in 1 .. Len(disk[g]) \/ j = Len(disk[g]) + 1
    BY <1>1, <1>2
  <2> QED
    BY <1>1, <1>2, <2>1 DEF g
<1>3. CASE s # g
  BY <1>1, <1>3
<1> QED
  BY <1>2, <1>3

\* Appending a whole line.
LEMMA AppendLineKeeps ==
    ASSUME IInv, NEW w \in Writers, AppendLine(w)
    PROVE  IInv'
<1> DEFINE g == target[w].segment
<1>1. /\ pc[w] = "write" /\ Write(w, TRUE) /\ TRUE \in BOOLEAN
      /\ pc' = [pc EXCEPT ![w] = "written"]
      /\ UNCHANGED <<day, present, manifest, count, acked, held, target, from, swept,
                     seal, faults, torn, crashes>>
  BY DEF AppendLine, writing, bounds
<1>2. UNCHANGED <<day, present, manifest>>
  BY <1>1
<1>3. /\ g \in DOMAIN disk /\ DOMAIN disk' = DOMAIN disk
      /\ Len(disk[g]) \in Nat /\ Len(disk'[g]) = Len(disk[g]) + 1
      /\ disk'[g][Len(disk[g]) + 1] = Piece(w, TRUE)
      /\ DirectoryTyped' /\ Topped' /\ NoSequenceGaps' /\ Grows(w)
  BY <1>1, <1>2, Written
<1>4. /\ WritersTyped' /\ pc'[w] = "written"
      /\ \A v \in Writers : v # w => Rests(v) /\ from'[v] = from[v] /\ seal'[v] = seal[v]
  <2>1. torn' \in 0 .. MaxTorn /\ "written" \in Points \ {"baseline"}
    BY <1>1 DEF IInv, WritersTyped, Points
  <2> QED
    BY <1>1, <2>1, PointMoves
<1>5. ASSUME NEW s \in DOMAIN disk', NEW j \in 1 .. Len(disk'[s])
      PROVE  /\ s \in DOMAIN disk
             /\ \/ j \in 1 .. Len(disk[s]) /\ disk'[s][j] = disk[s][j]
                \/ /\ s = g /\ j = Len(disk[s]) + 1
                   /\ disk'[s][j] = Piece(w, TRUE)
  BY <1>1, <1>2, PiecesAfterWrite
<1>7. WorkFound(w)'
  BY <1>1, <1>3 DEF IInv, WorkFound, Found
<1>8. WriterOK(w) /\ Aimed(w) /\ target[w] \in Places /\ count[w] \in Nat
  BY <1>1 DEF IInv, WriterOK, Appending, WritersTyped
<1>9. WriterOK(w)'
  <2>1. Believes(held[w])'
    <3>1. \A s \in DOMAIN disk : Len(disk[s]) \in Nat /\ Len(disk[s]) <= Len(disk'[s])
                                 /\ Len(disk'[s]) \in Nat
      <4>1. \A s \in DOMAIN disk' : Len(disk'[s]) \in Nat
        BY <1>3, LenProperties DEF DirectoryTyped
      <4> QED
        BY <1>3, <4>1, DiskTyped DEF IInv, Grows
    <3>2. held[w] \in Places
      BY WriterTyped
    <3> QED
      BY <1>1, <1>3, <1>8, <3>1, <3>2 DEF WriterOK, Believes, Places
  <2>2. Aimed(w)'
    <3>1. LengthIn(disk', g) = LengthIn(disk, g) + 1 /\ LengthIn(disk, g) \in Nat
      BY <1>3 DEF LengthIn
    <3>2. target[w].size \in Nat /\ target[w].size <= LengthIn(disk, g)
      BY <1>8 DEF Aimed, Places
    <3>3. target'[w].size <= LengthIn(disk', g) /\ target'[w].size < LengthIn(disk', g)
      BY <1>1, <3>1, <3>2
    <3> HIDE DEF g
    <3> QED
      BY <1>1, <1>3, <1>8, <3>3 DEF Aimed, g
  <2>3. ASSUME NEW s \in DOMAIN disk', NEW j \in 1 .. Len(disk'[s])
        PROVE  Placed(w, s, j)'
    <3>1. CASE s \in DOMAIN disk /\ j \in 1 .. Len(disk[s]) /\ disk'[s][j] = disk[s][j]
      <4>1. Placed(w, s, j)
        BY <1>8, <3>1 DEF WriterOK
      <4> QED
        BY <1>1, <1>4, <3>1, <4>1 DEF Placed, Appending
    <3>2. CASE s = g /\ disk'[s][j] = Piece(w, TRUE)
      <4>1. ~Before(g, g)
        BY <1>3, DiskTyped, BeforeIsAnOrder DEF IInv
      <4> QED
        BY <1>1, <1>4, <1>8, <3>2, <4>1 DEF Placed, Piece, Appending
    <3> QED
      BY <1>5, <3>1, <3>2
  <2>4. Landed(w)'
    <3>1. Len(disk[g]) + 1 \in 1 .. Len(disk'[g])
      BY <1>3
    <3>2. disk'[g][Len(disk[g]) + 1] = [writer |-> w, write |-> count'[w], whole |-> TRUE]
      BY <1>1, <1>3 DEF Piece
    <3> QED
      BY <1>3, <3>1, <3>2 DEF Landed
  <2> QED
    BY <1>1, <1>8, <2>1, <2>2, <2>3, <2>4 DEF WriterOK
<1> QED
  BY <1>1, <1>3, <1>4, <1>7, <1>9, AppenderStep

\* A line that is in the trail is acknowledged.
LEMMA AcknowledgeKeeps ==
    ASSUME IInv, NEW w \in Writers, Acknowledge(w)
    PROVE  IInv'
<1> DEFINE q == IF from[w] = NoSegment /\ swept[w] THEN "idle" ELSE "load"
<1>1. /\ pc[w] = "written" /\ pc' = [pc EXCEPT ![w] = q]
      /\ held' = [held EXCEPT ![w] = Grown(target[w])]
      /\ acked' = [acked EXCEPT ![w] = @ \union {count[w]}]
      /\ target' = [target EXCEPT ![w] = NoSegment]
      /\ UNCHANGED <<day, disk, present, manifest, count, from, swept, seal, faults,
                     torn, crashes>>
  BY DEF Acknowledge, directory, bounds
<1>2. /\ WriterOK(w) /\ Aimed(w) /\ target[w] \in Places /\ count[w] \in 1 .. MaxWrites
  <2>1. WriterOK(w) /\ Aimed(w) /\ target[w] \in Places /\ count[w] \in 0 .. MaxWrites
    BY <1>1 DEF IInv, WriterOK, Appending, WritersTyped
  <2>2. MaxWrites \in Nat
    BY StreamAssumption
  <2> QED
    BY <2>1, <2>2 DEF Aimed
<1>3. Grown(target[w]) \in Places /\ Grown(target[w]).segment = target[w].segment
      /\ Grown(target[w]).size = target[w].size + 1
  BY <1>2 DEF Grown, Places
<1>4. /\ pc' \in [Writers -> Points] /\ pc'[w] = q /\ q \in {"idle", "load"}
      /\ held' \in [Writers -> Places] /\ held'[w] = Grown(target[w])
      /\ acked' \in [Writers -> SUBSET (1 .. MaxWrites)]
      /\ acked'[w] = acked[w] \union {count[w]}
      /\ target' \in [Writers -> Places]
      /\ \A v \in Writers : v # w => Rests(v)
  <2>1. NoSegment \in Places
    BY NoPassIsAPass
  <2>2. q \in Points
    BY DEF Points
  <2> HIDE DEF q
  <2>3. pc' \in [Writers -> Points] /\ pc'[w] = q
    BY <1>1, <2>2 DEF IInv, WritersTyped
  <2>4. held' \in [Writers -> Places] /\ held'[w] = Grown(target[w])
    BY <1>1, <1>3 DEF IInv, WritersTyped
  <2>5. acked' \in [Writers -> SUBSET (1 .. MaxWrites)]
        /\ acked'[w] = acked[w] \union {count[w]}
    BY <1>1, <1>2 DEF IInv, WritersTyped
  <2>6. target' \in [Writers -> Places]
    BY <1>1, <2>1 DEF IInv, WritersTyped
  <2>7. \A v \in Writers : v # w => Rests(v)
    BY <1>1 DEF IInv, WritersTyped, Rests
  <2> QED
    BY <2>3, <2>4, <2>5, <2>6, <2>7 DEF q
<1>5. WritersTyped'
  <2>1. \A v \in Writers :
           /\ seal'[v] \in Passes(seal'[v].boundary)
           /\ pc'[v] = "baseline" => seal'[v].boundary \in Nat \X Nat
    BY <1>1, <1>4 DEF IInv, WritersTyped, Rests
  <2>2. seal' = [v \in Writers |-> seal'[v]]
    BY <1>1 DEF IInv, WritersTyped
  <2> QED
    BY <1>1, <1>4, <2>1, <2>2 DEF IInv, WritersTyped
<1>6. DirectoryTyped' /\ Topped' /\ NoSequenceGaps'
  BY <1>1 DEF IInv, DirectoryTyped, Topped, NoSequenceGaps
<1>7. Grows(w)
  BY <1>1, NothingGrows DEF IInv
<1>8. WorkFound(w)'
  BY <1>1 DEF IInv, WorkFound, Found
<1>9. WriterOK(w)'
  <2>1. acked'[w] \subseteq 1 .. count'[w]
    BY <1>1, <1>2, <1>4 DEF WriterOK
  <2>2. Believes(held[w])'
    <3>1. target[w].segment \in DOMAIN disk
          /\ target[w].size < Len(disk[target[w].segment])
      BY <1>1, <1>2 DEF Aimed, LengthIn
    <3>2. Len(disk[target[w].segment]) \in Nat /\ target[w].size \in Nat
      BY <1>2, <3>1, DiskTyped DEF IInv, Places
    <3>3. held'[w].segment \in DOMAIN disk'
          /\ held'[w].size \in 1 .. Len(disk'[held'[w].segment])
      BY <1>1, <1>3, <1>4, <3>1, <3>2
    <3> QED
      BY <3>3 DEF Believes
  <2>3. pc'[w] \notin Appending
    BY <1>4 DEF Appending
  <2>4. ASSUME NEW s \in DOMAIN disk', NEW j \in 1 .. Len(disk'[s])
        PROVE  Placed(w, s, j)'
    <3>1. Placed(w, s, j)
      BY <1>1, <1>2 DEF WriterOK
    <3> QED
      BY <1>1, <1>3, <1>4, <2>3, <3>1 DEF Placed, Appending
  <2>5. Landed(w)'
    BY <1>4 DEF Landed
  <2> QED
    BY <2>1, <2>2, <2>3, <2>4, <2>5 DEF WriterOK
<1> HIDE DEF q
<1>10. \A v \in Writers : v # w => Rests(v) /\ from'[v] = from[v] /\ seal'[v] = seal[v]
  BY <1>1, <1>4
<1> QED
  BY <1>1, <1>5, <1>6, <1>7, <1>8, <1>9, <1>10, AppenderStep

\* A writer that drops its segment holds none, and its tail is free.
LEMMA Dropped ==
    ASSUME IInv, NEW w \in Writers, Drop(w), UNCHANGED <<count, acked>>,
           seal' \in {seal, [seal EXCEPT ![w] = NoPass]},
           swept' \in [Writers -> BOOLEAN],
           faults' \in 0 .. MaxFaults, torn' \in 0 .. MaxTorn,
           crashes' \in 0 .. MaxCrashes
    PROVE  /\ WritersTyped'
           /\ pc'[w] = "idle" /\ held'[w] = NoSegment /\ from'[w] = NoSegment
           /\ seal'[w] = seal[w] \/ seal'[w] = NoPass
           /\ \A v \in Writers : v # w => Rests(v) /\ from'[v] = from[v] /\ seal'[v] = seal[v]
<1>1. NoSegment \in Places /\ NoPass \in Passes(NoPass.boundary) /\ "idle" \in Points
  BY NoPassIsAPass DEF Points
<1>2. /\ pc' \in [Writers -> Points] /\ held' \in [Writers -> Places]
      /\ from' \in [Writers -> Places] /\ target' \in [Writers -> Places]
      /\ pc'[w] = "idle" /\ held'[w] = NoSegment /\ from'[w] = NoSegment
  BY <1>1 DEF Drop, IInv, WritersTyped
<1>3. \A v \in Writers : v # w => Rests(v) /\ from'[v] = from[v]
  BY DEF Drop, IInv, WritersTyped, Rests
<1>4. /\ seal' = [v \in Writers |-> seal'[v]]
      /\ seal'[w] = seal[w] \/ seal'[w] = NoPass
      /\ \A v \in Writers : v # w => seal'[v] = seal[v]
  BY DEF IInv, WritersTyped
<1>5. \A v \in Writers :
         /\ seal'[v] \in Passes(seal'[v].boundary)
         /\ pc'[v] = "baseline" => seal'[v].boundary \in Nat \X Nat
  <2> SUFFICES ASSUME NEW v \in Writers
               PROVE  /\ seal'[v] \in Passes(seal'[v].boundary)
                      /\ pc'[v] = "baseline" => seal'[v].boundary \in Nat \X Nat
    OBVIOUS
  <2>1. CASE v = w
    BY <1>1, <1>2, <1>4, <2>1 DEF IInv, WritersTyped
  <2>2. CASE v # w
    BY <1>3, <1>4, <2>2 DEF IInv, WritersTyped, Rests
  <2> QED
    BY <2>1, <2>2
<1>6. WritersTyped'
  BY <1>2, <1>4, <1>5 DEF IInv, WritersTyped
<1> QED
  BY <1>2, <1>3, <1>4, <1>6

\* A writer whose tail is free and that holds no segment is as it should be.
LEMMA DroppedIsOK ==
    ASSUME NEW w \in Writers, pc'[w] = "idle", held'[w] = NoSegment,
           acked'[w] \subseteq 1 .. count'[w],
           \A s \in DOMAIN disk' : \A j \in 1 .. Len(disk'[s]) :
               disk'[s][j].writer = w => disk'[s][j].write <= count'[w]
    PROVE  WriterOK(w)'
<1>1. Believes(held[w])'
  BY DEF Believes
<1>2. \A s \in DOMAIN disk' : \A j \in 1 .. Len(disk'[s]) : Placed(w, s, j)'
  BY DEF Placed, Appending
<1>3. Landed(w)'
  BY DEF Landed
<1> QED
  BY <1>1, <1>2, <1>3 DEF WriterOK, Appending

\* A step that drops the segment and touches no other file.
LEMMA DropStep ==
    ASSUME IInv, NEW w \in Writers, Drop(w),
           UNCHANGED <<day, disk, present, manifest, count, acked>>,
           seal' \in {seal, [seal EXCEPT ![w] = NoPass]},
           swept' \in [Writers -> BOOLEAN], torn' = torn,
           faults' \in 0 .. MaxFaults, crashes' \in 0 .. MaxCrashes
    PROVE  IInv'
<1>1. /\ WritersTyped'
      /\ pc'[w] = "idle" /\ held'[w] = NoSegment /\ from'[w] = NoSegment
      /\ seal'[w] = seal[w] \/ seal'[w] = NoPass
      /\ \A v \in Writers : v # w => Rests(v) /\ from'[v] = from[v] /\ seal'[v] = seal[v]
  <2>1. torn' \in 0 .. MaxTorn
    BY DEF IInv, WritersTyped
  <2>2. UNCHANGED <<count, acked>>
    OBVIOUS
  <2> QED
    BY <2>1, <2>2, Dropped
<1>2. DirectoryTyped' /\ Topped' /\ NoSequenceGaps' /\ Grows(w)
  BY NothingGrows DEF IInv, DirectoryTyped, Topped, NoSequenceGaps
<1>3. WorkFound(w)'
  <2>1. Found(NoPass)' /\ Found(seal[w])
    BY DEF Found, NoPass, IInv, WorkFound
  <2> QED
    BY <1>1, <2>1 DEF WorkFound, Found
<1>4. WriterOK(w)'
  <2>1. \A s \in DOMAIN disk' : \A j \in 1 .. Len(disk'[s]) :
           disk'[s][j].writer = w => disk'[s][j].write <= count'[w]
    BY DEF IInv, WriterOK, Placed
  <2>2. acked'[w] \subseteq 1 .. count'[w]
    BY DEF IInv, WriterOK
  <2> QED
    BY <1>1, <2>1, <2>2, DroppedIsOK
<1> QED
  BY <1>1, <1>2, <1>3, <1>4, AppenderStep

\* An append that fails, and a process that dies.
LEMMA FailureKeeps ==
    ASSUME IInv, NEW w \in Writers, AppendFails(w) \/ Crash(w)
    PROVE  IInv'
<1>1. /\ Drop(w) /\ UNCHANGED <<day, disk, present, manifest, count, acked, torn>>
      /\ seal' \in {seal, [seal EXCEPT ![w] = NoPass]}
      /\ swept' \in {swept, [swept EXCEPT ![w] = FALSE]}
      /\ \/ faults < MaxFaults /\ faults' = faults + 1 /\ crashes' = crashes
         \/ crashes < MaxCrashes /\ crashes' = crashes + 1 /\ faults' = faults
  BY DEF AppendFails, Crash, directory
<1>2. faults' \in 0 .. MaxFaults /\ crashes' \in 0 .. MaxCrashes
  BY <1>1, StreamAssumption DEF IInv, WritersTyped
<1>3. swept' \in [Writers -> BOOLEAN]
  BY <1>1 DEF IInv, WritersTyped
<1> QED
  BY <1>1, <1>2, <1>3, DropStep

\* An append that stops half-way.
LEMMA AppendTearsKeeps ==
    ASSUME IInv, NEW w \in Writers, AppendTears(w)
    PROVE  IInv'
<1>1. /\ pc[w] = "write" /\ Write(w, FALSE) /\ FALSE \in BOOLEAN /\ Drop(w)
      /\ torn < MaxTorn /\ torn' = torn + 1
      /\ UNCHANGED <<day, present, manifest, count, acked, swept, seal, faults, crashes>>
  BY DEF AppendTears
<1>2. UNCHANGED <<day, present, manifest>> /\ UNCHANGED <<count, acked>>
  BY <1>1
<1>3. torn' \in 0 .. MaxTorn /\ torn' # 0 /\ faults' \in 0 .. MaxFaults
      /\ crashes' \in 0 .. MaxCrashes /\ swept' \in [Writers -> BOOLEAN]
      /\ seal' \in {seal, [seal EXCEPT ![w] = NoPass]}
  BY <1>1, StreamAssumption DEF IInv, WritersTyped
<1>4. /\ WritersTyped'
      /\ pc'[w] = "idle" /\ held'[w] = NoSegment /\ from'[w] = NoSegment
      /\ \A v \in Writers : v # w => Rests(v) /\ from'[v] = from[v] /\ seal'[v] = seal[v]
  BY <1>1, <1>2, <1>3, Dropped
<1>5. DOMAIN disk' = DOMAIN disk /\ DirectoryTyped' /\ Topped' /\ NoSequenceGaps'
      /\ Grows(w)
  BY <1>1, <1>2, Written
<1>7. WorkFound(w)'
  BY <1>1, <1>4, <1>5 DEF IInv, WorkFound, Found
<1>8. WriterOK(w)'
  <2>1. count[w] \in Nat
    BY DEF IInv, WritersTyped
  <2>2. ASSUME NEW s \in DOMAIN disk', NEW j \in 1 .. Len(disk'[s]),
               disk'[s][j].writer = w
        PROVE  disk'[s][j].write <= count'[w]
    <3>1. \/ s \in DOMAIN disk /\ j \in 1 .. Len(disk[s]) /\ disk'[s][j] = disk[s][j]
          \/ disk'[s][j] = Piece(w, FALSE)
      BY <1>1, <1>2, PiecesAfterWrite
    <3> QED
      BY <1>2, <2>1, <2>2, <3>1 DEF IInv, WriterOK, Placed, Piece
  <2>3. acked'[w] \subseteq 1 .. count'[w]
    BY <1>2 DEF IInv, WriterOK
  <2> QED
    BY <1>4, <2>2, <2>3, DroppedIsOK
<1> QED
  BY <1>1, <1>4, <1>5, <1>7, <1>8, AppenderStep

\* Midnight.
LEMMA NextDayKeeps ==
    ASSUME IInv, NextDay
    PROVE  IInv'
<1>1. /\ day < MaxDay /\ day' = day + 1
      /\ UNCHANGED <<disk, present, manifest, count, acked, pc, held, target, from,
                     swept, seal, faults, torn, crashes>>
  BY DEF NextDay, directory, writing, bounds
<1>2. day \in 1 .. MaxDay /\ MaxDay \in Nat
  BY StreamAssumption DEF IInv, DirectoryTyped
<1>3. day \in Nat /\ day' \in Nat /\ day' >= day /\ day' \in 1 .. MaxDay
      /\ 1 .. day \subseteq 1 .. day'
  BY <1>1, <1>2
<1>4. DirectoryTyped'
  <2>1. DOMAIN disk' \subseteq (1 .. day') \X (Nat \ {0})
    BY <1>1, <1>3 DEF IInv, DirectoryTyped
  <2> QED
    BY <1>1, <1>3, <2>1 DEF IInv, DirectoryTyped
<1>5. WritersTyped'
  <2>1. seal' = [w \in Writers |-> seal'[w]]
    BY <1>1 DEF IInv, WritersTyped
  <2>2. \A w \in Writers :
           /\ seal'[w] \in Passes(seal'[w].boundary)
           /\ pc'[w] = "baseline" => seal'[w].boundary \in Nat \X Nat
    BY <1>1 DEF IInv, WritersTyped
  <2> QED
    BY <1>1, <2>1, <2>2 DEF IInv, WritersTyped
<1>6. Topped' /\ NoSequenceGaps'
  BY <1>1 DEF IInv, Topped, NoSequenceGaps
<1>7. ASSUME NEW v \in Writers PROVE WriterOK(v)' /\ WorkFound(v)'
  <2>1. WriterOK(v)'
    BY <1>1, <1>3, StillOK DEF IInv
  <2>2. WorkFound(v)'
    BY <1>1 DEF IInv, WorkFound, Found
  <2> QED
    BY <2>1, <2>2
<1> QED
  BY <1>4, <1>5, <1>6, <1>7 DEF IInv

-----------------------------------------------------------------------------
(* The invariant.                                                          *)

\* The directory starts empty and the writers idle.
LEMMA InitIInv == Init => IInv
<1> SUFFICES ASSUME Init PROVE IInv
  OBVIOUS
<1>1. DOMAIN disk = {} /\ Len(manifest) = 0
  BY DEF Init
<1>2. DirectoryTyped
  <2>1. IsFiniteSet({})
    BY FS_EmptySet
  <2>2. disk \in [DOMAIN disk -> Seq(Pieces)]
    <3>1. disk \in Seq(Seq(Pieces))
      BY DEF Init
    <3>2. disk \in [1 .. Len(disk) -> Seq(Pieces)]
      BY <3>1, LenProperties
    <3> QED
      BY <3>2
  <2>3. IsFiniteSet(DOMAIN disk) /\ DOMAIN disk \subseteq (1 .. day) \X (Nat \ {0})
    BY <1>1, <2>1
  <2>4. day \in 1 .. MaxDay /\ present \in BOOLEAN /\ manifest \in Seq(Records)
    <3>1. day = 1 /\ present = FALSE /\ manifest = <<>>
      BY DEF Init
    <3>2. MaxDay \in Nat \ {0}
      BY StreamAssumption
    <3>3. day \in 1 .. MaxDay
      BY <3>1, <3>2
    <3>4. manifest \in Seq(Records)
      BY <3>1
    <3> QED
      BY <3>1, <3>3, <3>4
  <2> QED
    BY <2>2, <2>3, <2>4 DEF DirectoryTyped
<1>3. WritersTyped
  <2>1. NoSegment \in Places /\ NoPass \in Passes(NoPass.boundary) /\ "idle" \in Points
    BY NoPassIsAPass DEF Points
  <2>2. seal = [w \in Writers |-> seal[w]]
    BY DEF Init
  <2>3. \A w \in Writers :
           seal[w] \in Passes(seal[w].boundary) /\ pc[w] # "baseline"
    BY <2>1 DEF Init
  <2>4. MaxFaults \in Nat /\ MaxTorn \in Nat /\ MaxCrashes \in Nat /\ MaxWrites \in Nat
    BY StreamAssumption
  <2> QED
    BY <2>1, <2>2, <2>3, <2>4 DEF Init, WritersTyped
<1>4. Topped /\ NoSequenceGaps
  BY <1>1 DEF Topped, NoSequenceGaps
<1>5. ASSUME NEW w \in Writers PROVE WriterOK(w) /\ WorkFound(w)
  <2>1. pc[w] = "idle" /\ held[w] = NoSegment /\ from[w] = NoSegment
        /\ acked[w] = {} /\ seal[w] = NoPass
    BY DEF Init
  <2> QED
    BY <1>1, <2>1 DEF WriterOK, WorkFound, Found, NoPass, Believes, Landed, Appending
<1> QED
  BY <1>2, <1>3, <1>4, <1>5 DEF IInv

\* Every step keeps it.
LEMMA NextIInv == IInv /\ [Next]_vars => IInv'
<1> SUFFICES ASSUME IInv, [Next]_vars PROVE IInv'
  OBVIOUS
<1>1. CASE NextDay
  BY <1>1, NextDayKeeps
<1>2. ASSUME NEW w \in Writers, WriterStep(w) PROVE IInv'
  BY <1>2, ResolveKeeps, OpenSegmentKeeps, AppendLineKeeps, AcknowledgeKeeps,
     LoadManifestKeeps, AppendBaselineKeeps, MeasureKeeps, AppendClaimKeeps,
     SweepKeeps, EndPassKeeps DEF WriterStep
<1>3. ASSUME NEW w \in Writers, Fault(w) PROVE IInv'
  BY <1>3, FailureKeeps, AppendTearsKeeps, LoadFailsKeeps, SealFailsKeeps DEF Fault
<1>4. CASE UNCHANGED vars
  <2>1. UNCHANGED <<day, disk, present, manifest, count, acked, pc, held, target, from,
                    swept, seal, faults, torn, crashes>>
    BY <1>4 DEF vars
  <2>2. DirectoryTyped' /\ Topped' /\ NoSequenceGaps'
    BY <2>1 DEF IInv, DirectoryTyped, Topped, NoSequenceGaps
  <2>3. WritersTyped'
    BY <2>1 DEF IInv, WritersTyped
  <2>4. ASSUME NEW v \in Writers PROVE WriterOK(v)' /\ WorkFound(v)'
    <3>1. day \in Nat /\ day' \in Nat /\ day' >= day
      BY <2>1, StreamAssumption DEF IInv, DirectoryTyped
    <3>2. WriterOK(v)'
      BY <2>1, <3>1, StillOK DEF IInv
    <3>3. WorkFound(v)'
      BY <2>1 DEF IInv, WorkFound, Found
    <3> QED
      BY <3>2, <3>3
  <2> QED
    BY <2>2, <2>3, <2>4 DEF IInv
<1> QED
  BY <1>1, <1>2, <1>3, <1>4 DEF Next

\* Whatever the writers do, fail at or die of: segments are numbered without a
\* gap, every writer appends behind all it ever wrote, and what it believes of
\* its segment is there.
THEOREM AlwaysIInv == Spec => []IInv
<1>1. Init => IInv
  BY InitIInv
<1>2. IInv /\ [Next]_vars => IInv'
  BY NextIInv
<1> QED
  BY <1>1, <1>2, PTL DEF Spec

-----------------------------------------------------------------------------
(* One writer, alone in its directory.                                     *)

\* The seals behind the append of a record are those before it, and the record
\* if it is one.
LEMMA SealsAfter ==
    ASSUME DirectoryTyped, NEW r \in Records, AppendRecord(r), NEW t \in Seals'
    PROVE  t \in Seals \/ (t = r /\ r.kind = "seal")
<1>1. manifest \in Seq(Records) /\ manifest' = Append(manifest, r)
  BY DEF DirectoryTyped, AppendRecord
<1>2. /\ Len(manifest) \in Nat /\ manifest' \in Seq(Records)
      /\ Len(manifest') = Len(manifest) + 1
      /\ \A i \in 1 .. Len(manifest) : manifest'[i] = manifest[i]
      /\ manifest'[Len(manifest) + 1] = r
  BY <1>1, AppendProperties, LenProperties
<1>3. DOMAIN manifest' = 1 .. Len(manifest') /\ DOMAIN manifest = 1 .. Len(manifest)
  BY <1>1, <1>2
<1>4. t.kind = "seal" /\ t \in Range(manifest')
  BY DEF Seals
<1>5. PICK i \in 1 .. Len(manifest') : t = manifest'[i]
  BY <1>3, <1>4 DEF Range
<1>6. CASE i = Len(manifest) + 1
  BY <1>2, <1>4, <1>5, <1>6
<1>7. CASE i \in 1 .. Len(manifest)
  <2>1. t = manifest[i] /\ i \in DOMAIN manifest
    BY <1>2, <1>3, <1>5, <1>7
  <2>2. t \in Range(manifest)
    BY <2>1 DEF Range
  <2> QED
    BY <1>4, <2>2 DEF Seals
<1> QED
  BY <1>2, <1>5, <1>6, <1>7

\* A step of the sealer keeps what holds of a lone writer if it keeps what is
\* claimed behind it.
LEMMA SealerAlone ==
    ASSUME NEW w \in Writers, Alone(w),
           disk' = disk, held' = held, target' = target,
           pc[w] \notin Appending, pc'[w] \notin Appending,
           pc'[w] \in {"load", "baseline", "seal"} =>
               pc[w] \in {"load", "baseline", "seal"},
           from'[w] # NoSegment => from'[w] = from[w],
           \A i \in 1 .. Len(seal'[w].todo) : Sealable(disk, seal'[w].todo[i].segment),
           seal'[w].claim # NoClaim =>
               /\ Sealable(disk, seal'[w].claim.segment)
               /\ seal'[w].claim.length = Len(disk[seal'[w].claim.segment]),
           \A r \in Seals' : Sealable(disk, r.segment) /\ r.length = Len(disk[r.segment])
    PROVE  Alone(w)'
<1>1. SegmentsBounded'
  BY DEF Alone, SegmentsBounded
<1>2. AtTheEnd(w)'
  BY DEF Alone, AtTheEnd
<1>3. SealingBehind(w)'
  BY DEF Alone, SealingBehind
<1>4. SealsHold'
  BY DEF SealsHold
<1> QED
  BY <1>1, <1>2, <1>3, <1>4 DEF Alone

\* The seals stay when the manifest does, or a record that is none is added.
LEMMA SealsStay ==
    ASSUME DirectoryTyped, SealsHold, disk' = disk,
           \/ manifest' = manifest
           \/ \E r \in Records : r.kind # "seal" /\ AppendRecord(r)
    PROVE  \A r \in Seals' : Sealable(disk, r.segment) /\ r.length = Len(disk[r.segment])
<1>1. CASE manifest' = manifest
  <2>1. Seals' = Seals
    BY <1>1 DEF Seals
  <2> QED
    BY <2>1 DEF SealsHold
<1>2. ASSUME NEW r \in Records, r.kind # "seal", AppendRecord(r)
      PROVE  \A t \in Seals' : t \in Seals
  BY <1>2, SealsAfter
<1> QED
  BY <1>1, <1>2 DEF SealsHold

\* Loading the manifest, initialising it, or failing to.
LEMMA LoadingAlone ==
    ASSUME IInv, NEW w \in Writers, Alone(w),
           LoadManifest(w) \/ AppendBaseline(w) \/ LoadFails(w)
    PROVE  Alone(w)'
<1>1. /\ pc[w] \in {"load", "baseline"} /\ pc'[w] \in {"idle", "baseline", "seal"}
      /\ disk' = disk /\ held' = held /\ target' = target
      /\ from'[w] # NoSegment => from'[w] = from[w]
  <2>1. CASE LoadManifest(w)
    BY <2>1 DEF LoadManifest, directory, IInv, WritersTyped
  <2>2. CASE AppendBaseline(w)
    BY <2>2 DEF AppendBaseline, writing, IInv, WritersTyped
  <2>3. CASE LoadFails(w)
    BY <2>3 DEF LoadFails, IInv, WritersTyped
  <2> QED
    BY <2>1, <2>2, <2>3
<1>2. \A r \in Seals' : Sealable(disk, r.segment) /\ r.length = Len(disk[r.segment])
  <2>1. CASE manifest' = manifest
    BY <1>1, <2>1, SealsStay DEF IInv, Alone
  <2>2. CASE AppendBaseline(w)
    <3>1. seal[w].boundary \in Nat \X Nat
      BY <2>2 DEF AppendBaseline, IInv, WritersTyped
    <3>2. Baseline(seal[w].boundary) \in Records
          /\ Baseline(seal[w].boundary).kind # "seal"
      BY <3>1 DEF Baseline, Records
    <3>3. AppendRecord(Baseline(seal[w].boundary))
      BY <2>2 DEF AppendBaseline
    <3> QED
      BY <1>1, <3>2, <3>3, SealsStay DEF IInv, Alone
  <2>3. CASE AppendRecord(TornRecord)
    BY <1>1, <2>3, TornIsARecord, SealsStay DEF IInv, Alone, TornRecord
  <2> QED
    BY <2>1, <2>2, <2>3 DEF LoadManifest, LoadFails, directory
<1>3. \A i \in 1 .. Len(seal'[w].todo) : Sealable(disk, seal'[w].todo[i].segment)
  <2>1. CASE seal'[w] = seal[w]
    BY <2>1 DEF Alone, SealingBehind
  <2>2. CASE seal'[w] = NoPass
    BY <2>2 DEF NoPass
  <2>3. CASE \E sealed : pc[w] = "load" /\ seal'[w].todo = RotatedWork(w, sealed)
    <3>1. PICK sealed : pc[w] = "load" /\ seal'[w].todo = RotatedWork(w, sealed)
      BY <2>3
    <3>2. from[w] # NoSegment => Sealable(disk, from[w].segment)
      BY <3>1 DEF Alone, SealingBehind, Appending
    <3> QED
      BY <3>1, <3>2 DEF RotatedWork
  <2>4. LoadManifest(w) => seal'[w] = NoPass \/
                           \E sealed : pc[w] = "load" /\ seal'[w].todo = RotatedWork(w, sealed)
    <3> SUFFICES ASSUME LoadManifest(w), seal'[w] # NoPass
                 PROVE  \E sealed : pc[w] = "load" /\ seal'[w].todo = RotatedWork(w, sealed)
      OBVIOUS
    <3> DEFINE sealed == {r.segment : r \in Seals}
    <3>1. PICK b, f :
             seal' = [seal EXCEPT ![w] =
                 IF ~ManifestReadable THEN NoPass
                 ELSE [NoPass EXCEPT !.first = f, !.sealed = sealed, !.boundary = b,
                                     !.todo = RotatedWork(w, sealed)]]
      BY DEF LoadManifest
    <3>2. seal'[w] = IF ~ManifestReadable THEN NoPass
                     ELSE [NoPass EXCEPT !.first = f, !.sealed = sealed, !.boundary = b,
                                         !.todo = RotatedWork(w, sealed)]
      BY <3>1 DEF IInv, WritersTyped
    <3> HIDE DEF sealed
    <3>3. seal'[w].todo = RotatedWork(w, sealed)
      BY <3>2 DEF NoPass
    <3> QED
      BY <3>3 DEF LoadManifest
  <2> QED
    BY <2>1, <2>2, <2>3, <2>4 DEF AppendBaseline, LoadFails, IInv, WritersTyped
<1>4. seal'[w].claim = NoClaim \/ seal'[w].claim = seal[w].claim
  <2>1. CASE LoadManifest(w)
    BY <2>1 DEF LoadManifest, NoPass, IInv, WritersTyped
  <2>2. CASE AppendBaseline(w)
    BY <2>2 DEF AppendBaseline
  <2>3. CASE LoadFails(w)
    BY <2>3 DEF LoadFails, NoPass, IInv, WritersTyped
  <2> QED
    BY <2>1, <2>2, <2>3
<1>5. seal'[w].claim # NoClaim =>
         /\ Sealable(disk, seal'[w].claim.segment)
         /\ seal'[w].claim.length = Len(disk[seal'[w].claim.segment])
  BY <1>4 DEF Alone, SealingBehind
<1> QED
  BY <1>1, <1>2, <1>3, <1>5, SealerAlone DEF Appending

\* What a pass has left to do is sealable if what it had to do was.
LEMMA TailIsSealable ==
    ASSUME NEW b, NEW p \in Passes(b), p.todo # <<>>,
           \A i \in 1 .. Len(p.todo) : Sealable(disk, p.todo[i].segment)
    PROVE  /\ \A i \in 1 .. Len(NextWork(p).todo) :
                 Sealable(disk, NextWork(p).todo[i].segment)
           /\ NextWork(p).claim = NoClaim
<1>1. p.todo \in Seq(Works)
  BY DEF Passes
<1>2. /\ Len(Tail(p.todo)) = Len(p.todo) - 1
      /\ \A i \in 1 .. Len(Tail(p.todo)) :
            i + 1 \in 1 .. Len(p.todo) /\ Tail(p.todo)[i] = p.todo[i + 1]
  BY <1>1
<1>3. NextWork(p).todo = Tail(p.todo) /\ NextWork(p).claim = NoClaim
  BY DEF Passes, NextWork
<1> QED
  BY <1>2, <1>3

\* A step within a pass keeps what holds of a lone writer.
LEMMA PassAlone ==
    ASSUME IInv, NEW w \in Writers, Alone(w), pc[w] = "seal", pc'[w] \in {"seal", "idle"},
           UNCHANGED <<disk, held, target, from>>,
           \A i \in 1 .. Len(seal'[w].todo) : Sealable(disk, seal'[w].todo[i].segment),
           seal'[w].claim # NoClaim =>
               /\ Sealable(disk, seal'[w].claim.segment)
               /\ seal'[w].claim.length = Len(disk[seal'[w].claim.segment]),
           \A r \in Seals' : Sealable(disk, r.segment) /\ r.length = Len(disk[r.segment])
    PROVE  Alone(w)'
BY SealerAlone DEF Appending

\* Measuring claims what the segment holds.
LEMMA MeasureAlone ==
    ASSUME IInv, NEW w \in Writers, Alone(w), Measure(w)
    PROVE  Alone(w)'
<1> DEFINE work == Head(seal[w].todo)
<1>1. /\ pc[w] = "seal" /\ pc' = pc /\ seal[w].todo # <<>> /\ seal[w].todo \in Seq(Works)
      /\ seal[w] \in Passes(seal[w].boundary)
      /\ \A i \in 1 .. Len(seal[w].todo) : Sealable(disk, seal[w].todo[i].segment)
      /\ UNCHANGED <<disk, held, target, from, manifest>>
  BY WriterTyped DEF Measure, Working, directory, writing, Alone, SealingBehind
<1>2. 1 \in 1 .. Len(seal[w].todo) /\ work = seal[w].todo[1]
  BY <1>1
<1>3. Sealable(disk, work.segment)
  BY <1>1, <1>2
<1>4. \A r \in Seals' : Sealable(disk, r.segment) /\ r.length = Len(disk[r.segment])
  BY <1>1, SealsStay DEF IInv, Alone
<1>5. seal'[w] = IF Agrees(work)
                 THEN [seal[w] EXCEPT !.claim = [segment |-> work.segment,
                                                 length |-> Len(disk[work.segment])],
                                      !.attempts = 0]
                 ELSE NextWork(seal[w])
  BY DEF Measure, IInv, WritersTyped
<1>6. /\ \A i \in 1 .. Len(seal'[w].todo) : Sealable(disk, seal'[w].todo[i].segment)
      /\ seal'[w].claim # NoClaim =>
            /\ Sealable(disk, seal'[w].claim.segment)
            /\ seal'[w].claim.length = Len(disk[seal'[w].claim.segment])
  <2>1. CASE Agrees(work)
    <3>1. /\ seal'[w].todo = seal[w].todo
          /\ seal'[w].claim = [segment |-> work.segment, length |-> Len(disk[work.segment])]
      BY <1>1, <1>5, <2>1 DEF Passes
    <3> HIDE DEF work
    <3>2. seal'[w].claim.segment = work.segment
          /\ seal'[w].claim.length = Len(disk[work.segment])
      BY <3>1
    <3> QED
      BY <1>1, <1>3, <3>1, <3>2
  <2>2. CASE ~Agrees(work)
    BY <1>1, <1>5, <2>2, TailIsSealable
  <2> QED
    BY <2>1, <2>2
<1> QED
  BY <1>1, <1>4, <1>6, PassAlone

\* The claim that is appended is what the segment holds.
LEMMA AppendClaimAlone ==
    ASSUME IInv, NEW w \in Writers, Alone(w), AppendClaim(w)
    PROVE  Alone(w)'
<1>1. /\ pc[w] = "seal" /\ pc' = pc /\ seal[w].todo # <<>>
      /\ seal[w] \in Passes(seal[w].boundary) /\ seal[w].claim \in Claims
      /\ \A i \in 1 .. Len(seal[w].todo) : Sealable(disk, seal[w].todo[i].segment)
      /\ UNCHANGED <<disk, held, target, from>>
  BY WriterTyped DEF AppendClaim, Working, writing, Alone, SealingBehind
<1>2. seal'[w].todo = NextWork(seal[w]).todo /\ seal'[w].claim = NextWork(seal[w]).claim
  <2>1. seal'[w] = [NextWork(seal[w]) EXCEPT
                       !.sealed = seal[w].sealed \union {seal[w].claim.segment}]
    BY DEF AppendClaim, IInv, WritersTyped
  <2>2. NextWork(seal[w]) \in Passes(seal[w].boundary)
    BY <1>1, PassesStayPasses
  <2> QED
    BY <2>1, <2>2 DEF Passes
<1>3. SealRecord(w) \in Records
      /\ SealRecord(w).segment = seal[w].claim.segment
      /\ SealRecord(w).length = seal[w].claim.length
  <2>1. (Head(seal[w].todo).expected = -1) \in BOOLEAN
    OBVIOUS
  <2> QED
    BY <1>1, <2>1 DEF SealRecord, Records, Claims
<1>4. Sealable(disk, seal[w].claim.segment)
      /\ seal[w].claim.length = Len(disk[seal[w].claim.segment])
  BY DEF AppendClaim, Alone, SealingBehind
<1>5. \A r \in Seals' : Sealable(disk, r.segment) /\ r.length = Len(disk[r.segment])
  <2> SUFFICES ASSUME NEW r \in Seals'
               PROVE  Sealable(disk, r.segment) /\ r.length = Len(disk[r.segment])
    OBVIOUS
  <2>1. r \in Seals \/ r = SealRecord(w)
    BY <1>3, SealsAfter DEF AppendClaim, IInv
  <2> QED
    BY <1>3, <1>4, <2>1 DEF Alone, SealsHold
<1>6. /\ \A i \in 1 .. Len(NextWork(seal[w]).todo) :
            Sealable(disk, NextWork(seal[w]).todo[i].segment)
      /\ NextWork(seal[w]).claim = NoClaim
  BY <1>1, TailIsSealable
<1> QED
  BY <1>1, <1>2, <1>5, <1>6, PassAlone

\* A failure keeps the claim, or gives it up.
LEMMA SealFailsAlone ==
    ASSUME IInv, NEW w \in Writers, Alone(w), SealFails(w)
    PROVE  Alone(w)'
<1>1. /\ pc[w] = "seal" /\ pc' = pc /\ seal[w].todo # <<>>
      /\ seal[w] \in Passes(seal[w].boundary)
      /\ \A i \in 1 .. Len(seal[w].todo) : Sealable(disk, seal[w].todo[i].segment)
      /\ UNCHANGED <<disk, held, target, from>>
  BY WriterTyped DEF SealFails, Working, writing, Alone, SealingBehind
<1>2. \/ seal'[w] = NextWork(seal[w])
      \/ seal'[w].todo = seal[w].todo /\ seal'[w].claim = seal[w].claim
  <2>1. seal'[w] = Retry(seal[w])
    BY DEF SealFails, IInv, WritersTyped
  <2> QED
    BY <1>1, <2>1 DEF Retry, Passes
<1>3. \A r \in Seals' : Sealable(disk, r.segment) /\ r.length = Len(disk[r.segment])
  <2>1. manifest' = manifest \/ AppendRecord(TornRecord)
    BY DEF SealFails
  <2> QED
    BY <1>1, <2>1, TornIsARecord, SealsStay DEF IInv, Alone, TornRecord
<1>4. /\ \A i \in 1 .. Len(NextWork(seal[w]).todo) :
            Sealable(disk, NextWork(seal[w]).todo[i].segment)
      /\ NextWork(seal[w]).claim = NoClaim
  BY <1>1, TailIsSealable
<1>5. seal[w].claim # NoClaim =>
         /\ Sealable(disk, seal[w].claim.segment)
         /\ seal[w].claim.length = Len(disk[seal[w].claim.segment])
  BY DEF Alone, SealingBehind
<1> QED
  BY <1>1, <1>2, <1>3, <1>4, <1>5, PassAlone

\* A sweep takes segments that lie behind the one the writer holds.
LEMMA SweepAlone ==
    ASSUME IInv, NEW w \in Writers, Alone(w), Sweep(w)
    PROVE  Alone(w)'
<1>1. /\ pc[w] = "seal" /\ pc' = pc /\ seal[w] \in Passes(seal[w].boundary)
      /\ UNCHANGED <<disk, held, target, from, manifest>>
  BY WriterTyped DEF Sweep, directory, writing
<1>2. PICK todo \in Seq(Works) :
         /\ seal' = [seal EXCEPT ![w] = [seal[w] EXCEPT !.first = FALSE,
                                            !.today = day, !.todo = todo]]
         /\ \A i \in 1 .. Len(todo) :
               todo[i].segment \in DOMAIN disk /\ Admits(w, todo[i].segment)
  BY SweepTyped
<1>3. seal'[w] = [seal[w] EXCEPT !.first = FALSE, !.today = day, !.todo = todo]
  BY <1>2 DEF IInv, WritersTyped
<1>4. seal'[w].todo = todo /\ seal'[w].claim = seal[w].claim
  BY <1>1, <1>3 DEF Passes
<1>5. held[w].segment \in DOMAIN disk /\ Highest(disk, held[w].segment)
  <2>1. held[w] # NoSegment /\ Highest(disk, held[w].segment)
    BY <1>1 DEF Alone, AtTheEnd, Appending
  <2> QED
    BY <2>1 DEF IInv, WriterOK, Believes
<1>6. ASSUME NEW s \in DOMAIN disk, Admits(w, s) PROVE Sealable(disk, s)
  <2>1. s # held[w].segment
    BY <1>6 DEF Admits
  <2>2. s \in Nat \X Nat /\ held[w].segment \in Nat \X Nat
    BY <1>5, DiskTyped DEF IInv
  <2>3. Before(s, held[w].segment)
    BY <1>5, <2>1, <2>2, BeforeIsAnOrder DEF Highest
  <2> QED
    BY <1>5, <2>3 DEF Sealable, Highest
<1>7. \A i \in 1 .. Len(seal'[w].todo) : Sealable(disk, seal'[w].todo[i].segment)
  BY <1>2, <1>4, <1>6
<1>8. seal'[w].claim # NoClaim =>
         /\ Sealable(disk, seal'[w].claim.segment)
         /\ seal'[w].claim.length = Len(disk[seal'[w].claim.segment])
  BY <1>4 DEF Alone, SealingBehind
<1>9. \A r \in Seals' : Sealable(disk, r.segment) /\ r.length = Len(disk[r.segment])
  BY <1>1, SealsStay DEF IInv, Alone
<1> QED
  BY <1>1, <1>7, <1>8, <1>9, PassAlone

\* A pass that ends leaves nothing to do.
LEMMA EndPassAlone ==
    ASSUME IInv, NEW w \in Writers, Alone(w), EndPass(w)
    PROVE  Alone(w)'
<1>1. /\ pc[w] = "seal" /\ pc'[w] = "idle" /\ seal'[w] = NoPass
      /\ UNCHANGED <<disk, held, target, from, manifest>>
  BY DEF EndPass, directory, writing, IInv, WritersTyped
<1>2. Len(seal'[w].todo) = 0 /\ seal'[w].claim = NoClaim
  BY <1>1 DEF NoPass
<1>3. \A r \in Seals' : Sealable(disk, r.segment) /\ r.length = Len(disk[r.segment])
  BY <1>1, SealsStay DEF IInv, Alone
<1> QED
  BY <1>1, <1>2, <1>3, PassAlone

\* What is claimed stays claimed and true while the directory grows in front.
LEMMA BehindStays ==
    ASSUME NEW w \in Writers, SealingBehind(w), SealsHold,
           DOMAIN disk \subseteq DOMAIN disk',
           \A s \in DOMAIN disk : Sealable(disk, s) => disk'[s] = disk[s],
           seal'[w] \in {seal[w], NoPass}, manifest' = manifest,
           pc'[w] \notin Appending /\ from'[w] # NoSegment =>
               Sealable(disk', from'[w].segment)
    PROVE  SealingBehind(w)' /\ SealsHold'
<1>1. ASSUME NEW s, Sealable(disk, s) PROVE Sealable(disk', s) /\ disk'[s] = disk[s]
  BY <1>1 DEF Sealable, Highest
<1>2. Seals' = Seals
  BY DEF Seals
<1>3. SealsHold'
  BY <1>1, <1>2 DEF SealsHold
<1>4. \A i \in 1 .. Len(seal'[w].todo) : Sealable(disk', seal'[w].todo[i].segment)
  <2>1. CASE seal'[w] = seal[w]
    BY <1>1, <2>1 DEF SealingBehind
  <2>2. CASE seal'[w] = NoPass
    BY <2>2 DEF NoPass
  <2> QED
    BY <2>1, <2>2
<1>5. seal'[w].claim # NoClaim =>
         /\ Sealable(disk', seal'[w].claim.segment)
         /\ seal'[w].claim.length = Len(disk'[seal'[w].claim.segment])
  <2>1. CASE seal'[w] = seal[w]
    BY <1>1, <2>1 DEF SealingBehind
  <2>2. CASE seal'[w] = NoPass
    BY <2>2 DEF NoPass
  <2> QED
    BY <2>1, <2>2
<1> QED
  BY <1>3, <1>4, <1>5 DEF SealingBehind

\* The current segment of a lone writer is the highest, and as long as it
\* believes.
LEMMA CurrentAlone ==
    ASSUME IInv, NEW w \in Writers, Alone(w), pc[w] = "idle"
    PROVE  /\ Highest(disk, Current(w).segment)
           /\ Current(w).size = LengthIn(disk, Current(w).segment)
<1>1. CASE held[w] # NoSegment
  BY <1>1 DEF Alone, AtTheEnd, Appending, Current
<1>2. CASE held[w] = NoSegment
  <2>1. PICK n \in Nat \ {0} :
              /\ DiscoverActiveSegment = Adopt(<<day, n>>)
              /\ \A s \in DOMAIN disk : ~Before(<<day, n>>, s)
    BY Discovered DEF IInv
  <2>2. day \in Nat
    BY StreamAssumption DEF IInv, DirectoryTyped
  <2>3. Adopt(<<day, n>>).segment = <<day, n>>
        /\ Adopt(<<day, n>>).size = LengthIn(disk, <<day, n>>)
    BY <2>2, Adopted DEF IInv
  <2> QED
    BY <1>2, <2>1, <2>3 DEF Current, Highest
<1> QED
  BY <1>1, <1>2

\* A lone writer appends to the highest segment or to one behind all others.
LEMMA ResolveAlone ==
    ASSUME IInv, NEW w \in Writers, Alone(w), Resolve(w)
    PROVE  Alone(w)'
<1>1. /\ pc[w] = "idle" /\ pc'[w] = "open"
      /\ UNCHANGED <<day, disk, manifest, held, seal>>
  BY DEF Resolve, directory, IInv, WritersTyped
<1>2. /\ target'[w] \in Places /\ from'[w] \in Places
      /\ Fit(w, target'[w])
      /\ \/ target'[w] = Current(w) /\ from'[w] = NoSegment
            /\ Current(w).segment[1] = day /\ Current(w).size < MaxSegment
         \/ from'[w] = Current(w) /\ from'[w].segment \in DOMAIN disk
            /\ target'[w] = NextSegment(from'[w].segment)
            /\ Before(from'[w].segment, target'[w].segment)
  BY <1>1, RotationFits DEF IInv
<1>3. Highest(disk, Current(w).segment)
      /\ Current(w).size = LengthIn(disk, Current(w).segment)
  BY <1>1, CurrentAlone
<1>4. /\ Highest(disk, target'[w].segment)
      /\ target'[w].size = LengthIn(disk, target'[w].segment)
      /\ target'[w].size < MaxSegment
      /\ from'[w] # NoSegment => Before(from'[w].segment, target'[w].segment)
  <2>1. CASE target'[w] = Current(w) /\ from'[w] = NoSegment
             /\ Current(w).segment[1] = day /\ Current(w).size < MaxSegment
    BY <1>3, <2>1
  <2>2. CASE from'[w] = Current(w) /\ from'[w].segment \in DOMAIN disk
             /\ target'[w] = NextSegment(from'[w].segment)
             /\ Before(from'[w].segment, target'[w].segment)
    <3>1. target'[w].segment \in Nat \X Nat /\ from'[w].segment \in Nat \X Nat
          /\ \A t \in DOMAIN disk : t \in Nat \X Nat
      BY <1>2, DiskTyped DEF IInv, Places
    <3>2. Highest(disk, target'[w].segment)
      BY <1>3, <2>2, <3>1, BeforeIsAnOrder DEF Highest
    <3>3. target'[w].segment \notin DOMAIN disk
      BY <1>3, <2>2 DEF Highest
    <3>4. target'[w] = Adopt(target'[w].segment)
      BY <2>2 DEF NextSegment, Adopt
    <3>5. target'[w].size = LengthIn(disk, target'[w].segment)
      BY <3>1, <3>4, Adopted DEF IInv
    <3>6. target'[w].size = 0 /\ MaxSegment \in Nat \ {0}
      BY <3>3, <3>5, StreamAssumption DEF LengthIn
    <3> QED
      BY <2>2, <3>2, <3>5, <3>6
  <2> QED
    BY <1>2, <2>1, <2>2
<1>5. AtTheEnd(w)'
  <2>1. pc'[w] \in Appending /\ pc'[w] # "written"
        /\ pc'[w] \notin {"load", "baseline", "seal"} /\ disk' = disk
    BY <1>1 DEF Appending
  <2> QED
    BY <1>4, <2>1 DEF AtTheEnd
<1>6. SealingBehind(w)' /\ SealsHold'
  BY <1>1, BehindStays DEF Alone, Appending
<1>7. SegmentsBounded'
  BY <1>1 DEF Alone, SegmentsBounded
<1> QED
  BY <1>5, <1>6, <1>7 DEF Alone

\* Opening the highest segment leaves the others alone.
LEMMA OpenSegmentAlone ==
    ASSUME IInv, NEW w \in Writers, Alone(w), OpenSegment(w)
    PROVE  Alone(w)'
<1> DEFINE g == target[w].segment
<1>1. /\ pc[w] = "open" /\ pc'[w] = "write"
      /\ UNCHANGED <<day, manifest, held, seal, from, target>>
  BY DEF OpenSegment, writing, IInv, WritersTyped
<1>2. /\ g \in DOMAIN disk' /\ g \in Nat \X Nat
      /\ g \notin DOMAIN disk => disk'[g] = <<>>
      /\ DOMAIN disk' = DOMAIN disk \cup {g}
      /\ \A s \in DOMAIN disk : disk'[s] = disk[s]
  <2>1. g \in Nat \X Nat
    BY WriterTyped DEF Places
  <2> QED
    BY <2>1, Opened
<1>3. /\ Highest(disk, g) /\ target[w].size = LengthIn(disk, g)
      /\ target[w].size < MaxSegment
      /\ from[w] # NoSegment => Before(from[w].segment, g)
  BY <1>1 DEF Alone, AtTheEnd, Appending
<1>4. Highest(disk', g) /\ LengthIn(disk', g) = LengthIn(disk, g)
  <2>1. ~Before(g, g)
    BY <1>2, BeforeIsAnOrder
  <2>2. Highest(disk', g)
    BY <1>2, <1>3, <2>1 DEF Highest
  <2> QED
    BY <1>2, <2>2 DEF LengthIn
<1>5. AtTheEnd(w)'
  <2>1. pc'[w] \in Appending /\ pc'[w] # "written"
        /\ pc'[w] \notin {"load", "baseline", "seal"}
    BY <1>1 DEF Appending
  <2> QED
    BY <1>1, <1>3, <1>4, <2>1 DEF AtTheEnd
<1>6. SealingBehind(w)' /\ SealsHold'
  <2>1. DOMAIN disk \subseteq DOMAIN disk'
    BY <1>2
  <2>2. pc'[w] \in Appending
    BY <1>1 DEF Appending
  <2> QED
    BY <1>1, <1>2, <2>1, <2>2, BehindStays DEF Alone
<1>7. SegmentsBounded'
  <2>1. \A s \in DOMAIN disk : Len(disk[s]) <= MaxSegment
    BY DEF Alone, SegmentsBounded
  <2>2. MaxSegment \in Nat \ {0}
    BY StreamAssumption
  <2>3. g \notin DOMAIN disk => Len(disk'[g]) <= MaxSegment
    BY <1>2, <2>2
  <2> QED
    BY <1>2, <2>1, <2>3 DEF SegmentsBounded
<1> QED
  BY <1>5, <1>6, <1>7 DEF Alone

\* An append changes only the highest segment, and within the ceiling.
LEMMA WriteAlone ==
    ASSUME IInv, NEW w \in Writers, Alone(w), pc[w] = "write", NEW whole \in BOOLEAN,
           Write(w, whole), UNCHANGED <<day, present, manifest>>
    PROVE  /\ SegmentsBounded' /\ DOMAIN disk' = DOMAIN disk
           /\ \A s \in DOMAIN disk : Sealable(disk, s) => disk'[s] = disk[s]
           /\ LengthIn(disk', target[w].segment) = target[w].size + 1
           /\ Highest(disk', target[w].segment)
<1> DEFINE g == target[w].segment
<1>1. /\ g \in DOMAIN disk /\ DOMAIN disk' = DOMAIN disk
      /\ Len(disk[g]) \in Nat /\ Len(disk'[g]) = Len(disk[g]) + 1
      /\ \A s \in DOMAIN disk : s # g => disk'[s] = disk[s]
  BY Written
<1>2. /\ Highest(disk, g) /\ target[w].size = LengthIn(disk, g)
      /\ target[w].size < MaxSegment /\ SegmentsBounded
  BY DEF Alone, AtTheEnd, Appending
<1>3. target[w].size = Len(disk[g]) /\ LengthIn(disk', g) = Len(disk'[g])
  BY <1>1, <1>2 DEF LengthIn
<1>4. SegmentsBounded'
  <2>1. Len(disk'[g]) <= MaxSegment
    BY <1>1, <1>2, <1>3, StreamAssumption
  <2> HIDE DEF g
  <2> QED
    BY <1>1, <1>2, <2>1 DEF SegmentsBounded
<1>5. \A s \in DOMAIN disk : Sealable(disk, s) => disk'[s] = disk[s]
  BY <1>1, <1>2 DEF Sealable
<1>6. Highest(disk', g)
  BY <1>1, <1>2 DEF Highest
<1> QED
  BY <1>1, <1>3, <1>4, <1>5, <1>6

\* A whole line of a lone writer.
LEMMA AppendLineAlone ==
    ASSUME IInv, NEW w \in Writers, Alone(w), AppendLine(w)
    PROVE  Alone(w)'
<1>1. /\ pc[w] = "write" /\ Write(w, TRUE) /\ TRUE \in BOOLEAN /\ pc'[w] = "written"
      /\ UNCHANGED <<day, present, manifest>> /\ manifest' = manifest
      /\ UNCHANGED <<held, target, from, seal>>
  BY DEF AppendLine, writing, IInv, WritersTyped
<1>2. /\ SegmentsBounded' /\ DOMAIN disk' = DOMAIN disk
      /\ \A s \in DOMAIN disk : Sealable(disk, s) => disk'[s] = disk[s]
      /\ LengthIn(disk', target[w].segment) = target[w].size + 1
      /\ Highest(disk', target[w].segment)
  BY <1>1, WriteAlone
<1>3. from[w] # NoSegment => Before(from[w].segment, target[w].segment)
  BY <1>1 DEF Alone, AtTheEnd, Appending
<1>4. AtTheEnd(w)'
  <2>1. pc'[w] \in Appending /\ pc'[w] \notin {"load", "baseline", "seal"}
    BY <1>1 DEF Appending
  <2> QED
    BY <1>1, <1>2, <1>3, <2>1 DEF AtTheEnd
<1>5. SealingBehind(w)' /\ SealsHold'
  <2>1. pc'[w] \in Appending
    BY <1>1 DEF Appending
  <2> QED
    BY <1>1, <1>2, <2>1, BehindStays DEF Alone
<1> QED
  BY <1>2, <1>4, <1>5 DEF Alone

\* Half a line of a lone writer.
LEMMA AppendTearsAlone ==
    ASSUME IInv, NEW w \in Writers, Alone(w), AppendTears(w)
    PROVE  Alone(w)'
<1>1. /\ pc[w] = "write" /\ Write(w, FALSE) /\ FALSE \in BOOLEAN /\ pc'[w] = "idle"
      /\ UNCHANGED <<day, present, manifest>> /\ manifest' = manifest /\ seal' = seal
      /\ held'[w] = NoSegment /\ from'[w] = NoSegment
  BY DEF AppendTears, Drop, IInv, WritersTyped
<1>2. /\ SegmentsBounded' /\ DOMAIN disk' = DOMAIN disk
      /\ \A s \in DOMAIN disk : Sealable(disk, s) => disk'[s] = disk[s]
  BY <1>1, WriteAlone
<1>3. AtTheEnd(w)'
  BY <1>1 DEF AtTheEnd, Appending
<1>4. SealingBehind(w)' /\ SealsHold'
  BY <1>1, <1>2, BehindStays DEF Alone
<1> QED
  BY <1>2, <1>3, <1>4 DEF Alone

\* The size a lone writer believes after an append is the size there is; the
\* segment it rotated away from lies behind.
LEMMA AcknowledgeAlone ==
    ASSUME IInv, NEW w \in Writers, Alone(w), Acknowledge(w)
    PROVE  Alone(w)'
<1>1. /\ pc[w] = "written" /\ pc'[w] \in {"idle", "load"}
      /\ held'[w] = Grown(target[w])
      /\ UNCHANGED <<day, disk, manifest, from, seal>>
  BY DEF Acknowledge, directory, IInv, WritersTyped
<1>2. target[w] \in Places
  BY WriterTyped
<1>3. Grown(target[w]).segment = target[w].segment
      /\ Grown(target[w]).size = target[w].size + 1 /\ target[w].size + 1 # 0
  BY <1>2 DEF Grown, Places
<1>4. /\ Highest(disk, target[w].segment)
      /\ target[w].size + 1 = LengthIn(disk, target[w].segment)
      /\ from[w] # NoSegment => Before(from[w].segment, target[w].segment)
  BY <1>1 DEF Alone, AtTheEnd, Appending
<1>5. held'[w] # NoSegment
  BY <1>1, <1>3 DEF NoSegment
<1>6. AtTheEnd(w)'
  <2>1. pc'[w] \notin Appending
    BY <1>1 DEF Appending
  <2> QED
    BY <1>1, <1>3, <1>4, <1>5, <2>1 DEF AtTheEnd
<1>7. from[w] # NoSegment => Sealable(disk, from[w].segment)
  <2>1. target[w].segment \in DOMAIN disk
    BY <1>1 DEF IInv, WriterOK, Appending, Aimed
  <2>2. from[w] # NoSegment => from[w].segment \in DOMAIN disk
    BY DEF IInv, WorkFound
  <2> QED
    BY <1>4, <2>1, <2>2 DEF Sealable, Highest
<1>8. SealingBehind(w)' /\ SealsHold'
  BY <1>1, <1>7, BehindStays DEF Alone
<1>9. SegmentsBounded'
  BY <1>1 DEF Alone, SegmentsBounded
<1> QED
  BY <1>6, <1>8, <1>9 DEF Alone

\* Failing and dying forget the segment.
LEMMA FailureAlone ==
    ASSUME IInv, NEW w \in Writers, Alone(w), AppendFails(w) \/ Crash(w)
    PROVE  Alone(w)'
<1>1. /\ pc'[w] = "idle" /\ held'[w] = NoSegment /\ from'[w] = NoSegment
      /\ disk' = disk /\ manifest' = manifest /\ seal'[w] \in {seal[w], NoPass}
  BY DEF AppendFails, Crash, Drop, directory, IInv, WritersTyped
<1>2. AtTheEnd(w)'
  BY <1>1 DEF AtTheEnd, Appending
<1>3. SealingBehind(w)' /\ SealsHold'
  BY <1>1, BehindStays DEF Alone
<1>4. SegmentsBounded'
  BY <1>1 DEF Alone, SegmentsBounded
<1> QED
  BY <1>2, <1>3, <1>4 DEF Alone

\* Midnight changes nothing of it.
LEMMA RestAlone ==
    ASSUME NEW w \in Writers, Alone(w),
           UNCHANGED <<disk, manifest, pc, held, target, from, seal>>
    PROVE  Alone(w)'
<1>1. SegmentsBounded' /\ AtTheEnd(w)' /\ SealingBehind(w)'
  BY DEF Alone, SegmentsBounded, AtTheEnd, SealingBehind
<1>2. SealsHold'
  BY DEF Alone, SealsHold, Seals
<1> QED
  BY <1>1, <1>2 DEF Alone

\* All of it starts out true and stays so.
LEMMA OneAloneStays ==
    /\ Init => OneAlone
    /\ IInv /\ OneAlone /\ [Next]_vars => OneAlone'
<1>1. ASSUME Init, NEW w \in Writers PROVE Alone(w)
  <2>1. DOMAIN disk = {} /\ Len(manifest) = 0 /\ DOMAIN manifest = {}
    BY <1>1 DEF Init
  <2>2. Seals = {}
    BY <2>1 DEF Seals, Range
  <2>3. pc[w] = "idle" /\ held[w] = NoSegment /\ from[w] = NoSegment /\ seal[w] = NoPass
    BY <1>1 DEF Init
  <2>4. SegmentsBounded /\ SealsHold
    BY <2>1, <2>2 DEF SegmentsBounded, SealsHold
  <2>5. AtTheEnd(w)
    BY <2>3 DEF AtTheEnd, Appending
  <2>6. SealingBehind(w)
    BY <2>3 DEF SealingBehind, NoPass
  <2> QED
    BY <2>4, <2>5, <2>6 DEF Alone
<1>2. ASSUME IInv, OneAlone, [Next]_vars, Cardinality(Writers) = 1
      PROVE  \A w \in Writers : Alone(w)'
  <2>1. PICK w : Writers = {w}
    BY <1>2, FS_Singleton, StreamAssumption
  <2>2. w \in Writers /\ Alone(w)
    BY <1>2, <2>1 DEF OneAlone
  <2>3. CASE NextDay \/ UNCHANGED vars
    <3>1. UNCHANGED <<disk, manifest, pc, held, target, from, seal>>
      BY <2>3 DEF NextDay, vars, directory, writing
    <3> QED
      BY <2>1, <2>2, <3>1, RestAlone
  <2>4. CASE WriterStep(w)
    <3>1. Alone(w)'
      BY <1>2, <2>2, <2>4, ResolveAlone, OpenSegmentAlone, AppendLineAlone,
         AcknowledgeAlone, LoadingAlone, MeasureAlone, AppendClaimAlone, SweepAlone,
         EndPassAlone DEF WriterStep
    <3> QED
      BY <2>1, <3>1
  <2>5. CASE Fault(w)
    <3>1. Alone(w)'
      BY <1>2, <2>2, <2>5, FailureAlone, AppendTearsAlone, LoadingAlone,
         SealFailsAlone DEF Fault
    <3> QED
      BY <2>1, <3>1
  <2> QED
    BY <1>2, <2>1, <2>3, <2>4, <2>5 DEF Next
<1> QED
  BY <1>1, <1>2 DEF OneAlone

\* The invariant of a lone writer.
LEMMA AlwaysAlone == Spec => []OneAlone
<1>1. Init => OneAlone
  BY OneAloneStays
<1>2. IInv /\ OneAlone /\ [Next]_vars => OneAlone'
  BY OneAloneStays
<1> QED
  BY <1>1, <1>2, AlwaysIInv, PTL DEF Spec

\* Types; the numbering has no gap; segments stay within the ceiling while one
\* writer is alone; and a writer's cached segment exists and holds what it
\* believes.
THEOREM TypeCorrect == Spec => []TypeOK
<1>1. IInv /\ OneAlone => TypeOK
  <2> SUFFICES ASSUME IInv, OneAlone PROVE TypeOK
    OBVIOUS
  <2>1. /\ day \in 1 .. MaxDay /\ present \in BOOLEAN
        /\ DOMAIN disk \subseteq (1 .. MaxDay) \X (Nat \ {0})
        /\ \A s \in DOMAIN disk : disk[s] \in Seq(Pieces)
    <3>1. day \in 1 .. MaxDay /\ MaxDay \in Nat
      BY StreamAssumption DEF IInv, DirectoryTyped
    <3>2. 1 .. day \subseteq 1 .. MaxDay
      BY <3>1
    <3> QED
      BY <3>1, <3>2 DEF IInv, DirectoryTyped
  <2>2. SegmentsAreBounded
    <3> SUFFICES ASSUME Cardinality(Writers) = 1
                 PROVE  \A s \in DOMAIN disk : Len(disk[s]) <= MaxSegment
      BY DEF SegmentsAreBounded
    <3>1. PICK w : Writers = {w}
      BY FS_Singleton, StreamAssumption
    <3> QED
      BY <3>1 DEF OneAlone, Alone, SegmentsBounded
  <2>3. \A r \in Range(manifest) : r.kind \in {"baseline", "seal", "torn"}
    <3>1. \A i \in 1 .. Len(manifest) : manifest[i] \in Records
      BY ElementOfSeq DEF IInv, DirectoryTyped
    <3>2. DOMAIN manifest = 1 .. Len(manifest)
      BY DEF IInv, DirectoryTyped
    <3> QED
      BY <3>1, <3>2 DEF Range, Records
  <2>4. ASSUME NEW w \in Writers
        PROVE  /\ count[w] \in 0 .. MaxWrites /\ acked[w] \subseteq 1 .. count[w]
               /\ pc[w] \in {"idle", "open", "write", "written", "load", "baseline",
                             "seal"}
               /\ Believes(held[w])
               /\ seal[w].attempts \in 0 .. (MaxSealAttempts - 1)
    BY WriterTyped DEF WriterOK, Points, Passes
  <2>5. /\ swept \in [Writers -> BOOLEAN]
        /\ faults \in 0 .. MaxFaults /\ torn \in 0 .. MaxTorn
        /\ crashes \in 0 .. MaxCrashes
    BY DEF IInv, WritersTyped
  <2> QED
    BY <2>1, <2>2, <2>3, <2>4, <2>5 DEF TypeOK, IInv, Pieces
<1> QED
  BY <1>1, AlwaysIInv, AlwaysAlone, PTL

\* Whatever a lone writer fails at or dies of, every seal it leaves in the
\* manifest says what its segment holds, for good.
THEOREM SealsStayTrue ==
    ASSUME Cardinality(Writers) = 1
    PROVE  Spec => []SealsAreTrue
<1>1. OneAlone => SealsAreTrue
  <2>1. PICK w : Writers = {w}
    BY FS_Singleton, StreamAssumption
  <2> QED
    BY <2>1 DEF OneAlone, Alone, SealsHold, SealsAreTrue
<1> QED
  BY <1>1, AlwaysAlone, PTL

-----------------------------------------------------------------------------
(* The sweep of a lone writer: what its pass knows, and what it leaves.    *)

\* The work a pass still has to do.
Pending(p) == {p.todo[i].segment : i \in 1 .. Len(p.todo)}

SealedSegments == {r.segment : r \in Seals}

\* Each piece of it is of one segment, not sealed so far.
Fresh(p) ==
    /\ \A i \in 1 .. Len(p.todo) : p.todo[i].segment \notin SealedSegments
    /\ \A i, j \in 1 .. Len(p.todo) : p.todo[i].segment = p.todo[j].segment => i = j

\* The sweep of the pass reaches all that earlier days have left, or its cap.
Thorough(w) ==
    \/ \A s \in DOMAIN disk :
          s[1] < seal[w].today /\ s # held[w].segment /\ Before(seal[w].boundary, s) =>
             s \in SealedSegments \cup Pending(seal[w])
    \/ Cardinality(Seals) + Len(seal[w].todo) >= MaxSweepSeals

\* The pass of a lone writer: it knows what is sealed, what is claimed is what
\* it has to do next, and no failure so far has exhausted an attempt.
PassOK(w) ==
    /\ seal[w].attempts <= faults + torn
    /\ seal[w].sealed = SealedSegments
    /\ pc[w] = "seal" => seal[w].boundary = Boundary
    /\ seal[w].claim # NoClaim =>
          seal[w].todo # <<>> /\ seal[w].claim.segment = seal[w].todo[1].segment
    /\ Fresh(seal[w])
    /\ seal[w].today # 0 =>
          /\ ~seal[w].first
          /\ \A i \in 1 .. Len(seal[w].todo) : seal[w].todo[i].expected = -1
          /\ Thorough(w)

Sweeping(w) ==
    IF pc[w] \in {"baseline", "seal"} THEN PassOK(w) ELSE seal[w] = NoPass

-----------------------------------------------------------------------------
\* The pairs of R order S strictly and totally.
Orders(R, S) ==
    /\ \A a \in S : <<a, a>> \notin R
    /\ \A a, b, c \in S : <<a, b>> \in R /\ <<b, c>> \in R => <<a, c>> \in R
    /\ \A a, b \in S : a = b \/ <<a, b>> \in R \/ <<b, a>> \in R

\* A finite set that is ordered, and not empty, has an element above the others.
LEMMA OneIsAbove ==
    ASSUME NEW S, IsFiniteSet(S), S # {}, NEW R, Orders(R, S)
    PROVE  \E m \in S : \A t \in S : t = m \/ <<t, m>> \in R
<1>1. Cardinality(S) \in 1 .. Cardinality(S)
  <2>1. Cardinality(S) \in Nat /\ Cardinality(S) # 0
    BY FS_CardinalityType, FS_EmptySet
  <2> QED
    BY <2>1
<1>2. \A i \in 1 .. Cardinality(S) : \E s \in S : RankIn(S, R, s) = i - 1
  BY RanksAreAll DEF Orders
<1>3. PICK m \in S : RankIn(S, R, m) = Cardinality(S) - 1
  BY <1>1, <1>2
<1>4. IsFiniteSet(S \ {m}) /\ Cardinality(S \ {m}) = Cardinality(S) - 1
  BY FS_RemoveElement
<1>5. {t \in S : <<t, m>> \in R} \subseteq S \ {m}
  BY DEF Orders
<1>6. {t \in S : <<t, m>> \in R} = S \ {m}
  BY <1>3, <1>4, <1>5, FS_Subset DEF RankIn
<1> QED
  BY <1>6

\* A finite set of naturals has a maximum.
LEMMA HasATop ==
    ASSUME NEW S \in SUBSET Nat, IsFiniteSet(S), S # {}
    PROVE  \E m \in S : \A i \in S : i <= m
<1> DEFINE R == {p \in S \X S : p[1] < p[2]}
<1>1. \A a, b \in S : <<a, b>> \in R <=> a < b
  OBVIOUS
<1> HIDE DEF R
<1>2. \A a \in S : <<a, a>> \notin R
  BY <1>1
<1>3. \A a, b, c \in S : <<a, b>> \in R /\ <<b, c>> \in R => <<a, c>> \in R
  <2>1. \A a, b, c \in S : a < b /\ b < c => a < c
    OBVIOUS
  <2> QED
    BY <1>1, <2>1
<1>4. \A a, b \in S : a = b \/ <<a, b>> \in R \/ <<b, a>> \in R
  <2>1. \A a, b \in S : a = b \/ a < b \/ b < a
    OBVIOUS
  <2> QED
    BY <1>1, <2>1
<1>5. \E m \in S : \A t \in S : t = m \/ <<t, m>> \in R
  <2>1. Orders(R, S)
    BY <1>2, <1>3, <1>4 DEF Orders
  <2> QED
    BY <2>1, OneIsAbove
<1>6. PICK m \in S : \A t \in S : t = m \/ <<t, m>> \in R
  BY <1>5
<1>7. \A t \in S : t = m \/ t < m
  BY <1>1, <1>6
<1> QED
  BY <1>7

\* What the append of a record makes of the seals and of the boundary.
LEMMA ManifestGrows ==
    ASSUME DirectoryTyped, NEW r \in Records, AppendRecord(r)
    PROVE  /\ Seals' = IF r.kind = "seal" THEN Seals \cup {r} ELSE Seals
           /\ Boundary' = IF r.kind = "baseline" THEN r.segment ELSE Boundary
<1> DEFINE n == Len(manifest)
<1>1. manifest \in Seq(Records) /\ manifest' = Append(manifest, r)
  BY DEF DirectoryTyped, AppendRecord
<1>2. /\ n \in Nat /\ manifest' \in Seq(Records)
      /\ Len(manifest') = n + 1
      /\ \A i \in 1 .. n : manifest'[i] = manifest[i]
      /\ manifest'[n + 1] = r
  BY <1>1, AppendProperties, LenProperties
<1>3. DOMAIN manifest' = 1 .. n + 1 /\ DOMAIN manifest = 1 .. n
  BY <1>1, <1>2
<1> HIDE DEF n
<1>4. Seals' = IF r.kind = "seal" THEN Seals \cup {r} ELSE Seals
  <2>1. \A t \in Seals' : t \in Seals \/ (t = r /\ r.kind = "seal")
    BY SealsAfter
  <2>2. ASSUME NEW t \in Seals PROVE t \in Seals'
    <3>1. t \in Range(manifest) /\ t.kind = "seal"
      BY DEF Seals
    <3>2. PICK i \in DOMAIN manifest : t = manifest[i]
      BY <3>1 DEF Range
    <3>3. i \in DOMAIN manifest' /\ t = manifest'[i]
      BY <1>2, <1>3, <3>2
    <3>4. t \in Range(manifest')
      BY <3>3 DEF Range
    <3> QED
      BY <3>1, <3>4 DEF Seals
  <2>3. ASSUME r.kind = "seal" PROVE r \in Seals'
    <3>1. n + 1 \in DOMAIN manifest' /\ r = manifest'[n + 1]
      BY <1>2, <1>3
    <3>2. r \in Range(manifest')
      BY <3>1 DEF Range
    <3> QED
      BY <2>3, <3>2 DEF Seals
  <2> QED
    BY <2>1, <2>2, <2>3
<1>5. CASE r.kind = "baseline"
  <2>1. n + 1 \in Baselines' /\ Baselines' \in SUBSET Nat
        /\ \A i \in Baselines' : i <= n + 1
    BY <1>2, <1>3, <1>5 DEF Baselines
  <2>2. Max(Baselines') = n + 1
    BY <2>1, MaxIsTop
  <2>3. Boundary' = manifest'[n + 1].segment
    BY <2>1, <2>2 DEF Boundary, Max
  <2> QED
    BY <1>2, <1>4, <1>5, <2>3
<1>6. CASE r.kind # "baseline"
  <2>1. Baselines' = Baselines
    BY <1>2, <1>3, <1>6 DEF Baselines
  <2>2. ASSUME Baselines # {} PROVE manifest'[Max(Baselines)] = manifest[Max(Baselines)]
    <3>1. Baselines \in SUBSET (1 .. n)
      BY <1>3 DEF Baselines
    <3>2. PICK m \in Baselines : \A i \in Baselines : i <= m
      <4>1. IsFiniteSet(Baselines)
        <5>1. IsFiniteSet(1 .. n)
          BY <1>2, FS_Interval
        <5> QED
          BY <3>1, <5>1, FS_Subset
      <4> QED
        BY <2>2, <3>1, <4>1, HasATop
    <3>3. Max(Baselines) = m
      BY <3>1, <3>2, MaxIsTop
    <3> QED
      BY <1>2, <3>1, <3>2, <3>3
  <2>3. Boundary' = Boundary
    BY <2>1, <2>2 DEF Boundary, Max
  <2> QED
    BY <1>4, <1>6, <2>3
<1> QED
  BY <1>5, <1>6

\* There are finitely many seals.
LEMMA SealsAreFinite ==
    ASSUME DirectoryTyped
    PROVE  IsFiniteSet(Seals)
<1> DEFINE I == 1 .. Len(manifest)
           f == [i \in I |-> manifest[i]]
<1>1. DOMAIN manifest = I /\ Len(manifest) \in Nat
  BY LenProperties DEF DirectoryTyped
<1>2. IsFiniteSet(I)
  BY <1>1, FS_Interval
<1>3. Range(manifest) = {manifest[i] : i \in I}
  BY <1>1 DEF Range
<1> HIDE DEF I
<1>4. f \in Surjection(I, Range(manifest))
  <2>1. f \in [I -> Range(manifest)]
    BY <1>3
  <2>2. \A t \in Range(manifest) : \E i \in I : f[i] = t
    BY <1>3
  <2> HIDE DEF f
  <2> QED
    BY <2>1, <2>2, Fun_IsSurj
<1>5. IsFiniteSet(Range(manifest))
  BY <1>2, <1>4, FS_Surjection
<1> QED
  BY <1>5, FS_Subset DEF Seals

\* The work of a pass, without the first piece.
LEMMA WorkWithoutFirst ==
    ASSUME NEW b, NEW p \in Passes(b), p.todo # <<>>
    PROVE  /\ NextWork(p).todo = Tail(p.todo) /\ NextWork(p).claim = NoClaim
           /\ NextWork(p).attempts = 0 /\ NextWork(p).first = p.first
           /\ NextWork(p).today = p.today /\ NextWork(p).sealed = p.sealed
           /\ NextWork(p).boundary = p.boundary
           /\ Len(p.todo) \in Nat /\ 1 \in 1 .. Len(p.todo)
           /\ Len(Tail(p.todo)) = Len(p.todo) - 1
           /\ \A i \in 1 .. Len(Tail(p.todo)) :
                 i + 1 \in 1 .. Len(p.todo) /\ Tail(p.todo)[i] = p.todo[i + 1]
           /\ \A i \in 1 .. Len(p.todo) :
                 i = 1 \/ (i - 1 \in 1 .. Len(Tail(p.todo))
                           /\ Tail(p.todo)[i - 1] = p.todo[i])
<1>1. p.todo \in Seq(Works)
  BY DEF Passes
<1>2. NextWork(p).todo = Tail(p.todo) /\ NextWork(p).claim = NoClaim
      /\ NextWork(p).attempts = 0 /\ NextWork(p).first = p.first
      /\ NextWork(p).today = p.today /\ NextWork(p).sealed = p.sealed
      /\ NextWork(p).boundary = p.boundary
  BY DEF Passes, NextWork
<1>3. /\ Len(p.todo) \in Nat /\ 1 \in 1 .. Len(p.todo)
      /\ Len(Tail(p.todo)) = Len(p.todo) - 1
      /\ \A i \in 1 .. Len(Tail(p.todo)) :
            i + 1 \in 1 .. Len(p.todo) /\ Tail(p.todo)[i] = p.todo[i + 1]
  BY <1>1
<1>4. ASSUME NEW i \in 1 .. Len(p.todo), i # 1
      PROVE  i - 1 \in 1 .. Len(Tail(p.todo)) /\ Tail(p.todo)[i - 1] = p.todo[i]
  <2>1. i - 1 \in 1 .. Len(Tail(p.todo)) /\ (i - 1) + 1 = i
    BY <1>3, <1>4
  <2> QED
    BY <1>3, <2>1
<1> QED
  BY <1>2, <1>3, <1>4

\* It is still fresh when the first piece has been sealed.
LEMMA RestIsFresh ==
    ASSUME NEW b, NEW p \in Passes(b), p.todo # <<>>, Fresh(p)
    PROVE  /\ \A i \in 1 .. Len(Tail(p.todo)) :
                 Tail(p.todo)[i].segment \notin SealedSegments \cup {p.todo[1].segment}
           /\ \A i, j \in 1 .. Len(Tail(p.todo)) :
                 Tail(p.todo)[i].segment = Tail(p.todo)[j].segment => i = j
<1> DEFINE t == Tail(p.todo)
<1>1. /\ 1 \in 1 .. Len(p.todo) /\ Len(t) \in Int
      /\ \A i \in 1 .. Len(t) : i + 1 \in 1 .. Len(p.todo) /\ t[i] = p.todo[i + 1]
  BY WorkWithoutFirst
<1>2. /\ \A i \in 1 .. Len(p.todo) : p.todo[i].segment \notin SealedSegments
      /\ \A i, j \in 1 .. Len(p.todo) : p.todo[i].segment = p.todo[j].segment => i = j
  BY DEF Fresh
<1> HIDE DEF t
<1>3. ASSUME NEW i \in 1 .. Len(t)
      PROVE  t[i].segment \notin SealedSegments \cup {p.todo[1].segment}
  <2>1. i + 1 \in 1 .. Len(p.todo) /\ t[i] = p.todo[i + 1] /\ i + 1 # 1
    BY <1>1
  <2> QED
    BY <1>1, <1>2, <2>1
<1>4. ASSUME NEW i \in 1 .. Len(t), NEW j \in 1 .. Len(t), t[i].segment = t[j].segment
      PROVE  i = j
  <2>1. /\ i + 1 \in 1 .. Len(p.todo) /\ t[i] = p.todo[i + 1]
        /\ j + 1 \in 1 .. Len(p.todo) /\ t[j] = p.todo[j + 1]
    BY <1>1
  <2>2. i + 1 = j + 1
    BY <1>2, <1>4, <2>1
  <2> QED
    BY <1>1, <2>2
<1> QED
  BY <1>3, <1>4 DEF t

\* A step that seals nothing and keeps the work of the pass.
LEMMA PassContinues ==
    ASSUME NEW w, PassOK(w), pc'[w] \in {"baseline", "seal"},
           Seals' = Seals, disk' = disk, held' = held,
           seal'[w].boundary = seal[w].boundary, seal'[w].sealed = seal[w].sealed,
           seal'[w].first = seal[w].first, seal'[w].today = seal[w].today,
           seal'[w].todo = seal[w].todo, seal'[w].attempts <= faults' + torn',
           pc'[w] = "seal" => seal'[w].boundary = Boundary',
           seal'[w].claim # NoClaim =>
              seal[w].todo # <<>> /\ seal'[w].claim.segment = seal[w].todo[1].segment
    PROVE  PassOK(w)'
<1>1. SealedSegments' = SealedSegments
  BY DEF SealedSegments
<1>2. Fresh(seal[w])'
  BY <1>1 DEF PassOK, Fresh
<1>3. seal[w].today # 0 => Thorough(w)'
  BY <1>1 DEF PassOK, Thorough, Pending
<1> QED
  BY <1>1, <1>2, <1>3 DEF PassOK

\* Loading the manifest starts a pass that knows it, or none.
LEMMA LoadManifestSweeps ==
    ASSUME IInv, NEW w \in Writers, LoadManifest(w)
    PROVE  Sweeping(w)'
<1> DEFINE b == IF present THEN Boundary ELSE HighestSegment(w)
           work == RotatedWork(w, SealedSegments)
<1>1. /\ manifest' = manifest /\ seal'[w] =
           IF ~ManifestReadable THEN NoPass
           ELSE [NoPass EXCEPT !.first = ~swept[w], !.sealed = SealedSegments,
                               !.boundary = b, !.todo = work]
      /\ pc'[w] = IF ~ManifestReadable THEN "idle"
                  ELSE IF present THEN "seal" ELSE "baseline"
  BY DEF LoadManifest, directory, SealedSegments, IInv, WritersTyped
<1>2. CASE ~ManifestReadable
  BY <1>1, <1>2 DEF Sweeping
<1>3. CASE ManifestReadable
  <2>1. /\ seal'[w].attempts = 0 /\ seal'[w].sealed = SealedSegments
        /\ seal'[w].boundary = b /\ seal'[w].claim = NoClaim
        /\ seal'[w].todo = work /\ seal'[w].today = 0
    <3> HIDE DEF b, work
    <3> QED
      BY <1>1, <1>3 DEF NoPass
  <2>2. Seals' = Seals /\ SealedSegments' = SealedSegments /\ Boundary' = Boundary
    BY <1>1 DEF Seals, SealedSegments, Boundary, Baselines
  <2>3. pc'[w] = "seal" => seal'[w].boundary = Boundary'
    BY <1>1, <1>3, <2>1, <2>2
  <2>4. pc'[w] \in {"baseline", "seal"}
    BY <1>1, <1>3
  <2>5. 0 <= faults' + torn'
    BY LoadManifestKeeps DEF IInv, WritersTyped
  <2>6. Fresh(seal[w])'
    <3>1. \A i \in 1 .. Len(work) : i = 1 /\ work[i].segment \notin SealedSegments
      BY DEF RotatedWork
    <3> HIDE DEF work
    <3> QED
      BY <2>1, <2>2, <3>1 DEF Fresh
  <2>7. PassOK(w)'
    BY <2>1, <2>2, <2>3, <2>5, <2>6 DEF PassOK
  <2> QED
    BY <2>4, <2>7 DEF Sweeping
<1> QED
  BY <1>2, <1>3

\* The baseline states the boundary the pass goes by.
LEMMA AppendBaselineSweeps ==
    ASSUME IInv, NEW w \in Writers, AppendBaseline(w), Sweeping(w)
    PROVE  Sweeping(w)'
<1>1. /\ pc[w] = "baseline" /\ pc'[w] = "seal" /\ seal' = seal /\ disk' = disk
      /\ held' = held /\ faults' = faults /\ torn' = torn
      /\ AppendRecord(Baseline(seal[w].boundary))
  BY DEF AppendBaseline, writing, bounds, IInv, WritersTyped
<1>2. Baseline(seal[w].boundary) \in Records
      /\ Baseline(seal[w].boundary).kind = "baseline"
      /\ Baseline(seal[w].boundary).segment = seal[w].boundary
  BY <1>1 DEF IInv, WritersTyped, Baseline, Records
<1>3. Seals' = Seals /\ Boundary' = seal[w].boundary
  BY <1>1, <1>2, ManifestGrows DEF IInv
<1>4. PassOK(w)
  BY <1>1 DEF Sweeping
<1>5. PassOK(w)'
  BY <1>1, <1>3, <1>4, PassContinues DEF PassOK
<1> QED
  BY <1>1, <1>5 DEF Sweeping

\* Measuring claims the first piece of work, or defers it, which a piece of the
\* sweep never is.
LEMMA MeasureSweeps ==
    ASSUME IInv, NEW w \in Writers, Measure(w), Sweeping(w)
    PROVE  Sweeping(w)'
<1> DEFINE work == Head(seal[w].todo)
<1>1. /\ pc[w] = "seal" /\ pc' = pc /\ seal[w].todo # <<>>
      /\ UNCHANGED <<disk, manifest, held, faults, torn>>
      /\ seal[w] \in Passes(seal[w].boundary) /\ PassOK(w)
  BY WriterTyped DEF Measure, Working, directory, writing, bounds, Sweeping
<1>2. seal'[w] = IF Agrees(work)
                 THEN [seal[w] EXCEPT !.claim = [segment |-> work.segment,
                                                 length |-> Len(disk[work.segment])],
                                      !.attempts = 0]
                 ELSE NextWork(seal[w])
  BY DEF Measure, IInv, WritersTyped
<1>3. Seals' = Seals /\ SealedSegments' = SealedSegments /\ Boundary' = Boundary
  BY <1>1 DEF Seals, SealedSegments, Boundary, Baselines
<1>4. faults' + torn' \in Nat /\ work = seal[w].todo[1]
      /\ 1 \in 1 .. Len(seal[w].todo)
  <2>1. work = seal[w].todo[1]
    BY <1>1 DEF Passes
  <2>2. faults' + torn' \in Nat
    BY <1>1 DEF IInv, WritersTyped
  <2> QED
    BY <1>1, <2>1, <2>2, WorkWithoutFirst
<1> HIDE DEF work
<1>5. CASE Agrees(work)
  <2>1. /\ seal'[w].claim.segment = work.segment /\ seal'[w].attempts = 0
        /\ seal'[w].boundary = seal[w].boundary /\ seal'[w].sealed = seal[w].sealed
        /\ seal'[w].first = seal[w].first /\ seal'[w].today = seal[w].today
        /\ seal'[w].todo = seal[w].todo
    BY <1>1, <1>2, <1>5 DEF Passes
  <2>2. PassOK(w)'
    BY <1>1, <1>3, <1>4, <2>1, PassContinues DEF PassOK
  <2> QED
    BY <1>1, <2>2 DEF Sweeping
<1>6. CASE ~Agrees(work)
  <2>1. seal[w].today = 0
    BY <1>1, <1>4, <1>6 DEF PassOK, Agrees
  <2> DEFINE t == Tail(seal[w].todo)
  <2>2. /\ seal'[w].todo = t /\ seal'[w].claim = NoClaim
        /\ seal'[w].attempts = 0 /\ seal'[w].today = 0
        /\ seal'[w].sealed = seal[w].sealed /\ seal'[w].boundary = seal[w].boundary
        /\ \A i \in 1 .. Len(t) :
              i + 1 \in 1 .. Len(seal[w].todo) /\ t[i] = seal[w].todo[i + 1]
    BY <1>1, <1>2, <1>6, <2>1, WorkWithoutFirst
  <2> HIDE DEF t
  <2>3. Fresh(seal[w])'
    <3>1. /\ \A i \in 1 .. Len(t) : t[i].segment \notin SealedSegments
          /\ \A i, j \in 1 .. Len(t) : t[i].segment = t[j].segment => i = j
      BY <1>1, RestIsFresh DEF t, PassOK
    <3> QED
      BY <1>3, <2>2, <3>1 DEF Fresh
  <2>4. PassOK(w)'
    BY <1>1, <1>3, <1>4, <2>2, <2>3 DEF PassOK
  <2> QED
    BY <1>1, <2>4 DEF Sweeping
<1> QED
  BY <1>5, <1>6

\* The claim of the first piece of work is recorded, and no other one is.
LEMMA AppendClaimSweeps ==
    ASSUME IInv, NEW w \in Writers, AppendClaim(w), Sweeping(w)
    PROVE  Sweeping(w)'
<1> DEFINE r == SealRecord(w)
           t == Tail(seal[w].todo)
           g == seal[w].claim.segment
<1>1. /\ pc[w] = "seal" /\ pc' = pc /\ seal[w].todo # <<>> /\ seal[w].claim # NoClaim
      /\ UNCHANGED <<disk, held, faults, torn>> /\ AppendRecord(r)
      /\ seal[w] \in Passes(seal[w].boundary) /\ seal[w].claim \in Claims /\ PassOK(w)
  BY WriterTyped DEF AppendClaim, Working, writing, bounds, Sweeping
<1>2. r \in Records /\ r.segment = g /\ r.kind = "seal"
  <2>1. (Head(seal[w].todo).expected = -1) \in BOOLEAN
    OBVIOUS
  <2> QED
    BY <1>1, <2>1 DEF SealRecord, Records, Claims
<1>3. Seals' = Seals \cup {r} /\ Boundary' = Boundary
  BY <1>1, <1>2, ManifestGrows DEF IInv
<1>4. SealedSegments' = SealedSegments \cup {g}
  BY <1>2, <1>3 DEF SealedSegments
<1>5. g = seal[w].todo[1].segment /\ g \notin SealedSegments /\ r \notin Seals
  <2>1. g = seal[w].todo[1].segment /\ 1 \in 1 .. Len(seal[w].todo)
    BY <1>1, WorkWithoutFirst DEF PassOK
  <2>2. g \notin SealedSegments
    BY <1>1, <2>1 DEF PassOK, Fresh
  <2> QED
    BY <1>2, <2>1, <2>2 DEF SealedSegments
<1>6. /\ seal'[w].todo = t /\ seal'[w].claim = NoClaim
      /\ seal'[w].attempts = 0 /\ seal'[w].today = seal[w].today
      /\ seal'[w].sealed = seal[w].sealed \cup {g} /\ seal'[w].first = seal[w].first
      /\ seal'[w].boundary = seal[w].boundary
  <2>1. seal'[w] = [NextWork(seal[w]) EXCEPT !.sealed = seal[w].sealed \union {g}]
    BY DEF AppendClaim, IInv, WritersTyped
  <2>2. NextWork(seal[w]) \in Passes(seal[w].boundary)
    BY <1>1, PassesStayPasses
  <2>3. /\ seal'[w].todo = NextWork(seal[w]).todo
        /\ seal'[w].claim = NextWork(seal[w]).claim
        /\ seal'[w].attempts = NextWork(seal[w]).attempts
        /\ seal'[w].today = NextWork(seal[w]).today
        /\ seal'[w].first = NextWork(seal[w]).first
        /\ seal'[w].boundary = NextWork(seal[w]).boundary
        /\ seal'[w].sealed = seal[w].sealed \cup {g}
    BY <2>1, <2>2 DEF Passes
  <2> QED
    BY <1>1, <2>3, WorkWithoutFirst
<1>7. /\ Len(seal[w].todo) \in Nat /\ Len(t) = Len(seal[w].todo) - 1
      /\ 1 \in 1 .. Len(seal[w].todo)
      /\ \A i \in 1 .. Len(t) :
            i + 1 \in 1 .. Len(seal[w].todo) /\ t[i] = seal[w].todo[i + 1]
      /\ \A i \in 1 .. Len(seal[w].todo) :
            i = 1 \/ (i - 1 \in 1 .. Len(t) /\ t[i - 1] = seal[w].todo[i])
  BY <1>1, WorkWithoutFirst
<1> HIDE DEF t, r, g
<1>8. Fresh(seal[w])'
  <2>1. /\ \A i \in 1 .. Len(t) :
              t[i].segment \notin SealedSegments \cup {seal[w].todo[1].segment}
        /\ \A i, j \in 1 .. Len(t) : t[i].segment = t[j].segment => i = j
    BY <1>1, RestIsFresh DEF t, PassOK
  <2>2. \A i \in 1 .. Len(t) : t[i].segment \notin SealedSegments'
    BY <1>4, <1>5, <2>1
  <2> QED
    BY <1>6, <2>1, <2>2 DEF Fresh
<1>9. ASSUME seal[w].today # 0
      PROVE  /\ \A i \in 1 .. Len(t) : t[i].expected = -1
             /\ Thorough(w)'
  <2>1. \A i \in 1 .. Len(t) : t[i].expected = -1
    BY <1>1, <1>7, <1>9 DEF PassOK
  <2>2. CASE Cardinality(Seals) + Len(seal[w].todo) >= MaxSweepSeals
    <3>1. IsFiniteSet(Seals) /\ Cardinality(Seals) \in Nat
      BY SealsAreFinite, FS_CardinalityType DEF IInv
    <3>2. Cardinality(Seals') = Cardinality(Seals) + 1
      BY <1>3, <1>5, <3>1, FS_AddElement
    <3>3. Cardinality(Seals') + Len(seal'[w].todo) >= MaxSweepSeals
      <4>1. Len(seal'[w].todo) = Len(seal[w].todo) - 1 /\ MaxSweepSeals \in Nat
        BY <1>6, <1>7, StreamAssumption
      <4> QED
        BY <1>7, <2>2, <3>1, <3>2, <4>1
    <3> QED
      BY <2>1, <3>3 DEF Thorough
  <2>3. CASE \A s \in DOMAIN disk :
                s[1] < seal[w].today /\ s # held[w].segment
                /\ Before(seal[w].boundary, s) =>
                   s \in SealedSegments \cup Pending(seal[w])
    <3>1. ASSUME NEW s \in Pending(seal[w])
          PROVE  s \in SealedSegments' \cup Pending(seal'[w])
      <4>1. PICK i \in 1 .. Len(seal[w].todo) : s = seal[w].todo[i].segment
        BY DEF Pending
      <4>2. CASE i = 1
        BY <1>4, <1>5, <4>1, <4>2
      <4>3. CASE i # 1
        <5>1. i - 1 \in 1 .. Len(t) /\ s = t[i - 1].segment
          BY <1>7, <4>1, <4>3
        <5> QED
          BY <1>6, <5>1 DEF Pending
      <4> QED
        BY <4>2, <4>3
    <3>2. \A s \in DOMAIN disk' :
             s[1] < seal'[w].today /\ s # held'[w].segment
             /\ Before(seal'[w].boundary, s) =>
                s \in SealedSegments' \cup Pending(seal'[w])
      BY <1>1, <1>4, <1>6, <2>3, <3>1
    <3> QED
      BY <2>1, <3>2 DEF Thorough
  <2> QED
    BY <1>1, <1>9, <2>1, <2>2, <2>3 DEF PassOK, Thorough
<1>10. PassOK(w)'
  <2>1. 0 <= faults' + torn'
    BY <1>1 DEF IInv, WritersTyped
  <2> QED
    BY <1>1, <1>3, <1>4, <1>6, <1>8, <1>9, <2>1 DEF PassOK
<1> QED
  BY <1>1, <1>10 DEF Sweeping

\* A failure is made good: so few failures exhaust no attempt.
LEMMA SealFailsSweeps ==
    ASSUME IInv, NEW w \in Writers, SealFails(w), Sweeping(w),
           MaxFaults + MaxTorn < MaxSealAttempts
    PROVE  Sweeping(w)'
<1>1. /\ pc[w] = "seal" /\ pc' = pc /\ seal[w].todo # <<>>
      /\ UNCHANGED <<disk, held>>
      /\ seal[w] \in Passes(seal[w].boundary) /\ PassOK(w)
  BY WriterTyped DEF SealFails, Working, writing, Sweeping
<1>2. /\ faults \in Nat /\ torn \in Nat /\ MaxFaults \in Nat /\ MaxTorn \in Nat
      /\ MaxSealAttempts \in Nat /\ faults <= MaxFaults /\ torn <= MaxTorn
      /\ seal[w].attempts \in Nat /\ seal[w].attempts <= faults + torn
  BY <1>1, StreamAssumption DEF IInv, WritersTyped, Passes, PassOK
<1>3. /\ faults' + torn' = faults + torn + 1
      /\ faults + torn < MaxFaults + MaxTorn
      /\ Seals' = Seals /\ Boundary' = Boundary
  <2>1. CASE faults < MaxFaults /\ faults' = faults + 1 /\ UNCHANGED <<manifest, torn>>
    <3>1. Seals' = Seals /\ Boundary' = Boundary
      BY <2>1 DEF Seals, Boundary, Baselines
    <3> QED
      BY <1>2, <2>1, <3>1
  <2>2. CASE torn < MaxTorn /\ torn' = torn + 1 /\ faults' = faults
             /\ AppendRecord(TornRecord)
    <3>1. TornRecord \in Records /\ TornRecord.kind = "torn"
      BY TornIsARecord DEF TornRecord
    <3>2. Seals' = Seals /\ Boundary' = Boundary
      BY <2>2, <3>1, ManifestGrows DEF IInv
    <3> QED
      BY <1>2, <2>2, <3>2
  <2> QED
    BY <2>1, <2>2 DEF SealFails
<1>4. seal'[w] = [seal[w] EXCEPT !.attempts = @ + 1]
  <2>1. seal'[w] = Retry(seal[w])
    BY DEF SealFails, IInv, WritersTyped
  <2>2. seal[w].attempts + 1 # MaxSealAttempts
    BY <1>2, <1>3
  <2> QED
    BY <2>1, <2>2 DEF Retry
<1>5. /\ seal'[w].attempts = seal[w].attempts + 1 /\ seal'[w].claim = seal[w].claim
      /\ seal'[w].boundary = seal[w].boundary /\ seal'[w].sealed = seal[w].sealed
      /\ seal'[w].first = seal[w].first /\ seal'[w].today = seal[w].today
      /\ seal'[w].todo = seal[w].todo
  BY <1>1, <1>4 DEF Passes
<1>6. seal'[w].attempts <= faults' + torn'
  BY <1>2, <1>3, <1>5
<1>7. PassOK(w)'
  BY <1>1, <1>3, <1>5, <1>6, PassContinues DEF PassOK
<1> QED
  BY <1>1, <1>7 DEF Sweeping

\* A sweep takes on whatever earlier days have left, up to its cap.
LEMMA SweepSweeps ==
    ASSUME IInv, NEW w \in Writers, Sweep(w), Sweeping(w)
    PROVE  Sweeping(w)'
<1>1. /\ pc[w] = "seal" /\ pc' = pc /\ seal[w].todo = <<>> /\ seal[w].first
      /\ UNCHANGED <<disk, manifest, held, faults, torn>>
      /\ seal[w] \in Passes(seal[w].boundary) /\ PassOK(w)
  BY WriterTyped DEF Sweep, directory, writing, bounds, Sweeping
<1>2. PICK todo \in Seq(Works) :
         /\ seal' = [seal EXCEPT ![w] = [seal[w] EXCEPT !.first = FALSE,
                                            !.today = day, !.todo = todo]]
         /\ \A i \in 1 .. Len(todo) :
               todo[i].segment \in DOMAIN disk /\ Admits(w, todo[i].segment)
         /\ \A i \in 1 .. Len(todo) : todo[i].expected = -1
         /\ \A i, j \in 1 .. Len(todo) : todo[i].segment = todo[j].segment => i = j
         /\ \/ \A s \in DOMAIN disk : Admits(w, s) =>
                   \E i \in 1 .. Len(todo) : todo[i].segment = s
            \/ Len(todo) = MaxSweepSeals
  BY SweepTyped
<1>3. seal'[w] = [seal[w] EXCEPT !.first = FALSE, !.today = day, !.todo = todo]
  BY <1>2 DEF IInv, WritersTyped
<1>4. /\ seal'[w].attempts = seal[w].attempts /\ seal'[w].claim = seal[w].claim
      /\ seal'[w].boundary = seal[w].boundary /\ seal'[w].sealed = seal[w].sealed
      /\ seal'[w].first = FALSE /\ seal'[w].today = day /\ seal'[w].todo = todo
  BY <1>1, <1>3 DEF Passes
<1>5. Seals' = Seals /\ SealedSegments' = SealedSegments /\ Boundary' = Boundary
  BY <1>1 DEF Seals, SealedSegments, Boundary, Baselines
<1>6. seal[w].sealed = SealedSegments /\ seal[w].claim = NoClaim
  BY <1>1 DEF PassOK
<1>7. Fresh(seal[w])'
  <2>1. \A i \in 1 .. Len(todo) : todo[i].segment \notin SealedSegments
    BY <1>2, <1>6 DEF Admits
  <2> QED
    BY <1>2, <1>4, <1>5, <2>1 DEF Fresh
<1>8. Thorough(w)'
  <2>1. CASE \A s \in DOMAIN disk : Admits(w, s) =>
                \E i \in 1 .. Len(todo) : todo[i].segment = s
    <3>1. ASSUME NEW s \in DOMAIN disk, s[1] < day, s # held[w].segment,
                 Before(seal[w].boundary, s), s \notin SealedSegments
          PROVE  s \in Pending(seal'[w])
      <4>1. Admits(w, s)
        BY <1>6, <3>1 DEF Admits
      <4> QED
        BY <1>4, <2>1, <4>1 DEF Pending
    <3> QED
      BY <1>1, <1>4, <1>5, <3>1 DEF Thorough
  <2>2. CASE Len(todo) = MaxSweepSeals
    <3>1. Cardinality(Seals) \in Nat
      BY SealsAreFinite, FS_CardinalityType DEF IInv
    <3>2. Cardinality(Seals') + Len(seal'[w].todo) >= MaxSweepSeals
      BY <1>4, <1>5, <2>2, <3>1, StreamAssumption
    <3> QED
      BY <3>2 DEF Thorough
  <2> QED
    BY <1>2, <2>1, <2>2
<1>9. PassOK(w)'
  BY <1>1, <1>2, <1>4, <1>5, <1>6, <1>7, <1>8 DEF PassOK
<1> QED
  BY <1>1, <1>9 DEF Sweeping

\* Outside a pass there is none, and the day may change during one.
LEMMA RestSweeps ==
    ASSUME IInv, NEW w \in Writers, Sweeping(w),
           \/ NextDay \/ UNCHANGED vars
           \/ Resolve(w) \/ OpenSegment(w) \/ AppendLine(w) \/ Acknowledge(w)
           \/ AppendFails(w) \/ AppendTears(w)
           \/ EndPass(w) \/ LoadFails(w) \/ Crash(w)
    PROVE  Sweeping(w)'
<1>1. CASE NextDay \/ UNCHANGED vars
  <2>1. UNCHANGED <<disk, manifest, pc, held, seal, faults, torn>>
    BY <1>1 DEF NextDay, vars, directory, writing, bounds
  <2> QED
    BY <2>1 DEF Sweeping, PassOK, Fresh, Thorough, Pending, SealedSegments, Seals,
                Boundary, Baselines
<1>2. CASE Resolve(w) \/ OpenSegment(w) \/ AppendLine(w) \/ Acknowledge(w)
           \/ AppendFails(w) \/ AppendTears(w)
  <2>1. pc[w] \in {"idle", "open", "write", "written"} /\ seal' = seal
        /\ pc'[w] \in {"idle", "open", "write", "written", "load"}
    BY <1>2 DEF Resolve, OpenSegment, AppendLine, Acknowledge, AppendFails,
                AppendTears, Drop, IInv, WritersTyped
  <2> QED
    BY <2>1 DEF Sweeping
<1>3. CASE EndPass(w) \/ LoadFails(w) \/ Crash(w)
  <2>1. pc'[w] = "idle" /\ seal'[w] = NoPass
    BY <1>3 DEF EndPass, LoadFails, Crash, Drop, IInv, WritersTyped
  <2> QED
    BY <2>1 DEF Sweeping
<1> QED
  BY <1>1, <1>2, <1>3

\* The passes of a lone writer are thorough in every state.
AllSweeping == \A w \in Writers : Sweeping(w)

LEMMA AlwaysSweeping ==
    ASSUME Cardinality(Writers) = 1, MaxFaults + MaxTorn < MaxSealAttempts
    PROVE  Spec => []AllSweeping
<1>1. PICK w : Writers = {w}
  BY FS_Singleton, StreamAssumption
<1>2. Init => AllSweeping
  BY DEF Init, Sweeping, AllSweeping
<1>3. IInv /\ AllSweeping /\ [Next]_vars => AllSweeping'
  <2> SUFFICES ASSUME IInv, AllSweeping, [Next]_vars PROVE Sweeping(w)'
    BY <1>1 DEF AllSweeping
  <2>1. w \in Writers /\ Sweeping(w)
    BY <1>1 DEF AllSweeping
  <2>2. CASE NextDay \/ UNCHANGED vars
    BY <2>1, <2>2, RestSweeps
  <2>3. CASE WriterStep(w)
    BY <2>1, <2>3, RestSweeps, LoadManifestSweeps, AppendBaselineSweeps,
       MeasureSweeps, AppendClaimSweeps, SweepSweeps DEF WriterStep
  <2>4. CASE Fault(w)
    BY <2>1, <2>4, RestSweeps, SealFailsSweeps DEF Fault
  <2> QED
    BY <1>1, <2>2, <2>3, <2>4 DEF Next
<1> QED
  BY <1>2, <1>3, AlwaysIInv, PTL DEF Spec

\* A lone writer whose failures are fewer than its attempts leaves nothing
\* behind: when the pass that swept ends, whatever earlier days left is sealed,
\* precedes the baseline or is its own, unless the sweep met its cap.
THEOREM SweepsAreThorough ==
    ASSUME Cardinality(Writers) = 1, MaxFaults + MaxTorn < MaxSealAttempts
    PROVE  Spec => SweepLeavesNothingBehind
<1>1. ASSUME IInv, AllSweeping, NEW w \in Writers, EndPass(w),
             seal[w].today > 0
      PROVE  \/ {s \in DOMAIN disk :
                    /\ s[1] < seal[w].today
                    /\ s # held[w].segment
                    /\ Before(Boundary, s)
                    /\ \A r \in Seals : r.segment # s} = {}
             \/ Cardinality(Seals) >= MaxSweepSeals
  <2>1. pc[w] = "seal" /\ seal[w].todo = <<>> /\ PassOK(w)
    BY <1>1 DEF EndPass, Sweeping, AllSweeping
  <2>2. Thorough(w) /\ seal[w].boundary = Boundary
    BY <1>1, <2>1 DEF PassOK
  <2>3. Pending(seal[w]) = {} /\ Len(seal[w].todo) = 0
    BY <2>1 DEF Pending
  <2>4. Cardinality(Seals) \in Nat
    BY <1>1, SealsAreFinite, FS_CardinalityType DEF IInv
  <2>5. CASE Cardinality(Seals) + Len(seal[w].todo) >= MaxSweepSeals
    BY <2>3, <2>4, <2>5
  <2>6. CASE \A s \in DOMAIN disk :
                s[1] < seal[w].today /\ s # held[w].segment
                /\ Before(seal[w].boundary, s) =>
                   s \in SealedSegments \cup Pending(seal[w])
    BY <2>2, <2>3, <2>6 DEF SealedSegments
  <2> QED
    BY <2>2, <2>5, <2>6 DEF Thorough
<1>2. IInv /\ AllSweeping /\ [Next]_vars =>
         [\A w \in Writers :
            (EndPass(w) /\ seal[w].today > 0 /\ ManifestReadable) =>
            LET missed == {s \in DOMAIN disk :
                    /\ s[1] < seal[w].today
                    /\ s # held[w].segment
                    /\ Before(Boundary, s)
                    /\ \A r \in Seals : r.segment # s}
            IN  missed = {} \/ Cardinality(Seals) >= MaxSweepSeals]_vars
  BY <1>1
<1> QED
  BY <1>2, AlwaysIInv, AlwaysSweeping, PTL DEF Spec, SweepLeavesNothingBehind

-----------------------------------------------------------------------------
(* The lines of a writer in a directory d, in order.                       *)

Positions == Nat \X Nat \X Nat
Segment(p) == <<p[1], p[2]>>

LinesIn(d, w) ==
    UNION {{<<s[1], s[2], i>> :
                i \in {j \in 1..Len(d[s]) :
                          d[s][j].writer = w /\ d[s][j].whole}}
           : s \in DOMAIN d}

\* How many of the lines L come before p, and the line that i - 1 come before.
Rank(L, p) == Cardinality({q \in L : ReadBefore(q, p)})
Nth(L, i) == CHOOSE p \in L : Rank(L, p) = i - 1

\* The writes at the positions L.
At(d, L) == [i \in 1 .. Cardinality(L) |-> d[Segment(Nth(L, i))][Nth(L, i)[3]].write]

WritesIn(d, w) == At(d, LinesIn(d, w))

\* They are what LinesOf, WrittenBy and ReadBy are, before a step and after it.
LEMMA ReadingIn ==
    ASSUME NEW w
    PROVE  /\ LinesOf(w) = LinesIn(disk, w) /\ LinesOf(w)' = LinesIn(disk', w)
           /\ WrittenBy(w) = WritesIn(disk, w) /\ WrittenBy(w)' = WritesIn(disk', w)
           /\ ReadBy(w) = At(disk, LinesRead(w))
           /\ ReadBy(w)' = At(disk', LinesRead(w)')
<1>1. LinesOf(w) = LinesIn(disk, w)
  BY DEF LinesOf, LinesIn
<1>2. LinesOf(w)' = LinesIn(disk', w)
  BY DEF LinesOf, LinesIn
<1>3. WrittenBy(w) = WritesIn(disk, w)
  BY <1>1 DEF WrittenBy, WritesAt, WritesIn, At, Rank, Nth, Segment
<1>4. WrittenBy(w)' = WritesIn(disk', w)
  BY <1>2 DEF WrittenBy, WritesAt, WritesIn, At, Rank, Nth, Segment
<1>5. ReadBy(w) = At(disk, LinesRead(w))
  BY DEF ReadBy, WritesAt, At, Rank, Nth, Segment
<1>6. ReadBy(w)' = At(disk', LinesRead(w)')
  BY DEF ReadBy, WritesAt, At, Rank, Nth, Segment
<1> QED
  BY <1>1, <1>2, <1>3, <1>4, <1>5, <1>6

Directory(d) ==
    d \in [DOMAIN d -> Seq(Pieces)] /\ DOMAIN d \in SUBSET (Nat \X Nat)

\* A position holds a line of w if its piece is w's and whole.
LineAt(d, w, p) ==
    /\ Segment(p) \in DOMAIN d /\ p[3] \in 1 .. Len(d[Segment(p)])
    /\ d[Segment(p)][p[3]].writer = w
    /\ d[Segment(p)][p[3]].whole

LEMMA LinesAre ==
    ASSUME NEW d, Directory(d), NEW w
    PROVE  /\ LinesIn(d, w) \in SUBSET Positions
           /\ \A p \in Positions : p \in LinesIn(d, w) <=> LineAt(d, w, p)
<1>1. ASSUME NEW s \in DOMAIN d
      PROVE  s = <<s[1], s[2]>> /\ s[1] \in Nat /\ s[2] \in Nat /\ Len(d[s]) \in Nat
  <2>1. s \in Nat \X Nat /\ d[s] \in Seq(Pieces)
    BY DEF Directory
  <2> QED
    BY <2>1, LenProperties
<1>2. ASSUME NEW p \in LinesIn(d, w)
      PROVE  p \in Positions /\ LineAt(d, w, p)
  <2>1. PICK s \in DOMAIN d : \E i \in 1 .. Len(d[s]) :
           p = <<s[1], s[2], i>> /\ d[s][i].writer = w /\ d[s][i].whole
    BY <1>2 DEF LinesIn
  <2>2. PICK i \in 1 .. Len(d[s]) :
           p = <<s[1], s[2], i>> /\ d[s][i].writer = w /\ d[s][i].whole
    BY <2>1
  <2>3. Segment(p) = s /\ p[3] = i
    BY <1>1, <2>2 DEF Segment
  <2>4. p \in Positions
    BY <1>1, <2>2 DEF Positions
  <2> QED
    BY <2>2, <2>3, <2>4 DEF LineAt
<1>3. ASSUME NEW p \in Positions, LineAt(d, w, p)
      PROVE  p \in LinesIn(d, w)
  <2> DEFINE s == Segment(p)
             I == {j \in 1..Len(d[s]) : d[s][j].writer = w /\ d[s][j].whole}
  <2>1. s \in DOMAIN d /\ p[3] \in I /\ p = <<s[1], s[2], p[3]>>
    BY <1>3 DEF LineAt, Segment, Positions
  <2>2. p \in {<<s[1], s[2], i>> : i \in I}
    BY <2>1
  <2> QED
    BY <2>1, <2>2 DEF LinesIn
<1> QED
  BY <1>2, <1>3

\* Positions are read in one order.
LEMMA ReadingIsAnOrder ==
    /\ \A p \in Positions : ~ReadBefore(p, p)
    /\ \A p, q, r \in Positions : ReadBefore(p, q) /\ ReadBefore(q, r) => ReadBefore(p, r)
    /\ \A p, q \in Positions : p = q \/ ReadBefore(p, q) \/ ReadBefore(q, p)
BY DEF ReadBefore, Before, Positions

\* Every rank up to the number of lines is taken, once.
LEMMA RanksAre ==
    ASSUME NEW L \in SUBSET Positions, IsFiniteSet(L)
    PROVE  /\ Cardinality(L) \in Nat
           /\ \A p \in L : Rank(L, p) \in 0 .. Cardinality(L) - 1
           /\ \A i \in 1 .. Cardinality(L) : Nth(L, i) \in L /\ Rank(L, Nth(L, i)) = i - 1
           /\ \A p, q \in L : Rank(L, p) = Rank(L, q) => p = q
           /\ \A p \in L : Rank(L, p) + 1 \in 1 .. Cardinality(L) /\ Nth(L, Rank(L, p) + 1) = p
<1> DEFINE R == {p \in L \X L : ReadBefore(p[1], p[2])}
<1>1. \A a, b \in L : <<a, b>> \in R <=> ReadBefore(a, b)
  OBVIOUS
<1>2. \A a \in L : <<a, a>> \notin R
  BY <1>1, ReadingIsAnOrder
<1>3. \A a, b, c \in L : <<a, b>> \in R /\ <<b, c>> \in R => <<a, c>> \in R
  BY <1>1, ReadingIsAnOrder
<1>4. \A a, b \in L : a = b \/ <<a, b>> \in R \/ <<b, a>> \in R
  BY <1>1, ReadingIsAnOrder
<1> HIDE DEF R
<1>5. /\ Cardinality(L) \in Nat
      /\ \A i \in 1 .. Cardinality(L) : \E s \in L : RankIn(L, R, s) = i - 1
      /\ \A a, b \in L : RankIn(L, R, a) = RankIn(L, R, b) => a = b
  BY <1>2, <1>3, <1>4, RanksAreAll
<1>6. ASSUME NEW p \in L PROVE RankIn(L, R, p) = Rank(L, p)
  <2>1. {t \in L : <<t, p>> \in R} = {t \in L : ReadBefore(t, p)}
    BY <1>1
  <2> QED
    BY <2>1 DEF RankIn, Rank
<1>7. ASSUME NEW p \in L PROVE Rank(L, p) \in 0 .. Cardinality(L) - 1
  <2> DEFINE B == {q \in L : ReadBefore(q, p)}
  <2>1. B \in SUBSET L /\ B # L
    BY ReadingIsAnOrder
  <2> HIDE DEF B
  <2>2. IsFiniteSet(B) /\ Cardinality(B) <= Cardinality(L)
        /\ Cardinality(B) # Cardinality(L)
    BY <2>1, FS_Subset
  <2>3. Cardinality(B) \in Nat
    BY <2>2, FS_CardinalityType
  <2>4. Rank(L, p) = Cardinality(B)
    BY DEF Rank, B
  <2> QED
    BY <1>5, <2>2, <2>3, <2>4
<1>8. \A p, q \in L : Rank(L, p) = Rank(L, q) => p = q
  BY <1>5, <1>6
<1>9. ASSUME NEW i \in 1 .. Cardinality(L)
      PROVE  Nth(L, i) \in L /\ Rank(L, Nth(L, i)) = i - 1
  <2>1. \E p \in L : Rank(L, p) = i - 1
    BY <1>5, <1>6
  <2> QED
    BY <2>1 DEF Nth
<1>10. ASSUME NEW p \in L
       PROVE  Rank(L, p) + 1 \in 1 .. Cardinality(L) /\ Nth(L, Rank(L, p) + 1) = p
  <2> DEFINE i == Rank(L, p) + 1
  <2>1. i \in 1 .. Cardinality(L) /\ i - 1 = Rank(L, p)
    BY <1>5, <1>7
  <2> HIDE DEF i
  <2>2. Nth(L, i) \in L /\ Rank(L, Nth(L, i)) = Rank(L, p)
    BY <1>9, <2>1
  <2>3. Nth(L, i) = p
    BY <1>8, <2>2
  <2> QED
    BY <2>1, <2>3 DEF i
<1> QED
  BY <1>5, <1>7, <1>8, <1>9, <1>10

\* A line read behind all others is the last, and moves none of them.
LEMMA LastLine ==
    ASSUME NEW L \in SUBSET Positions, IsFiniteSet(L), NEW x \in Positions,
           \A q \in L : ReadBefore(q, x)
    PROVE  /\ IsFiniteSet(L \cup {x}) /\ Cardinality(L \cup {x}) = Cardinality(L) + 1
           /\ \A i \in 1 .. Cardinality(L) : Nth(L \cup {x}, i) = Nth(L, i)
           /\ Nth(L \cup {x}, Cardinality(L) + 1) = x
<1> DEFINE M == L \cup {x}
<1>1. x \notin L
  BY ReadingIsAnOrder
<1>2. IsFiniteSet(M) /\ Cardinality(M) = Cardinality(L) + 1 /\ M \in SUBSET Positions
  BY <1>1, FS_AddElement
<1>3. ASSUME NEW p \in L PROVE Rank(M, p) = Rank(L, p)
  <2>1. ~ReadBefore(x, p)
    BY ReadingIsAnOrder
  <2>2. {q \in M : ReadBefore(q, p)} = {q \in L : ReadBefore(q, p)}
    BY <2>1
  <2> QED
    BY <2>2 DEF Rank
<1>4. Rank(M, x) = Cardinality(L)
  <2>1. ~ReadBefore(x, x)
    BY ReadingIsAnOrder
  <2>2. {q \in M : ReadBefore(q, x)} = L
    BY <2>1
  <2> QED
    BY <2>2 DEF Rank
<1>5. x \in M /\ L \subseteq M
  OBVIOUS
<1> HIDE DEF M
<1>6. \A p \in M : Nth(M, Rank(M, p) + 1) = p
  BY <1>2, RanksAre
<1>7. Nth(M, Cardinality(L) + 1) = x
  BY <1>4, <1>5, <1>6
<1>8. ASSUME NEW i \in 1 .. Cardinality(L) PROVE Nth(M, i) = Nth(L, i)
  <2>1. Nth(L, i) \in L /\ Rank(L, Nth(L, i)) = i - 1
    BY RanksAre
  <2>2. Nth(M, (i - 1) + 1) = Nth(L, i)
    BY <1>3, <1>5, <1>6, <2>1
  <2> QED
    BY <2>2
<1> QED
  BY <1>2, <1>7, <1>8 DEF M

\* They are numbers of writes, one for each line.
ReadsAll(d, w) ==
    /\ WritesIn(d, w) \in Seq(1 .. MaxWrites)
    /\ Len(WritesIn(d, w)) = Cardinality(LinesIn(d, w))
    /\ Cardinality(LinesIn(d, w)) \in Nat
    /\ \A i \in 1 .. Cardinality(LinesIn(d, w)) :
          /\ Nth(LinesIn(d, w), i) \in LinesIn(d, w)
          /\ WritesIn(d, w)[i] =
                d[Segment(Nth(LinesIn(d, w), i))][Nth(LinesIn(d, w), i)[3]].write

LEMMA WritesAre ==
    ASSUME NEW d, Directory(d), NEW w, IsFiniteSet(LinesIn(d, w))
    PROVE  ReadsAll(d, w)
<1> DEFINE L == LinesIn(d, w)
           n == Cardinality(L)
           at(p) == d[Segment(p)][p[3]].write
<1>1. L \in SUBSET Positions /\ \A p \in L : LineAt(d, w, p)
  BY LinesAre
<1>2. ASSUME NEW p \in L PROVE at(p) \in 1 .. MaxWrites
  <2>1. Segment(p) \in DOMAIN d /\ p[3] \in 1 .. Len(d[Segment(p)])
    BY <1>1 DEF LineAt
  <2>2. d[Segment(p)] \in Seq(Pieces)
    BY <2>1 DEF Directory
  <2>3. d[Segment(p)][p[3]] \in Pieces
    BY <2>1, <2>2, ElementOfSeq
  <2> QED
    BY <2>3 DEF Pieces
<1>3. WritesIn(d, w) = [i \in 1 .. n |-> at(Nth(L, i))]
  BY DEF WritesIn, At
<1> HIDE DEF L, at
<1>4. n \in Nat /\ \A i \in 1 .. n : Nth(L, i) \in L
  BY <1>1, RanksAre DEF L
<1> HIDE DEF n
<1>5. \A i \in 1 .. n : at(Nth(L, i)) \in 1 .. MaxWrites
  BY <1>2, <1>4
<1>6. WritesIn(d, w) \in Seq(1 .. MaxWrites) /\ Len(WritesIn(d, w)) = n
  BY <1>3, <1>4, <1>5
<1>7. \A i \in 1 .. n : WritesIn(d, w)[i] = at(Nth(L, i))
  BY <1>3
<1> QED
  BY <1>4, <1>6, <1>7 DEF L, n, at, ReadsAll

\* Lines that stay are the same writes.
LEMMA ReadStays ==
    ASSUME NEW d, NEW e, NEW w, Directory(d), IsFiniteSet(LinesIn(d, w)),
           LinesIn(e, w) = LinesIn(d, w),
           \A p \in LinesIn(d, w) : e[Segment(p)][p[3]] = d[Segment(p)][p[3]]
    PROVE  WritesIn(e, w) = WritesIn(d, w)
<1> DEFINE L == LinesIn(d, w)
<1>1. \A i \in 1 .. Cardinality(L) :
         d[Segment(Nth(L, i))][Nth(L, i)[3]].write
            = e[Segment(Nth(L, i))][Nth(L, i)[3]].write
  BY WritesAre DEF ReadsAll
<1> HIDE DEF L
<1>2. [i \in 1 .. Cardinality(L) |-> d[Segment(Nth(L, i))][Nth(L, i)[3]].write]
        = [i \in 1 .. Cardinality(L) |-> e[Segment(Nth(L, i))][Nth(L, i)[3]].write]
  BY <1>1
<1> QED
  BY <1>2 DEF WritesIn, At, L

\* The lines of w in e are those in d, and others behind them.
NewLines(d, e, w) ==
    /\ LinesIn(d, w) \subseteq LinesIn(e, w)
    /\ \A p \in LinesIn(d, w), q \in LinesIn(e, w) :
          q \in LinesIn(d, w) \/ ReadBefore(p, q)

\* A line behind the others is one more write behind theirs.
OneMore(d, e, w, x) ==
    /\ IsFiniteSet(LinesIn(e, w)) /\ NewLines(d, e, w)
    /\ WritesIn(e, w) = Append(WritesIn(d, w), e[Segment(x)][x[3]].write)

LEMMA ReadExtends ==
    ASSUME NEW d, NEW e, NEW w, Directory(d), Directory(e),
           IsFiniteSet(LinesIn(d, w)), NEW x \in Positions,
           LinesIn(e, w) = LinesIn(d, w) \cup {x},
           \A q \in LinesIn(d, w) : ReadBefore(q, x),
           \A p \in LinesIn(d, w) : e[Segment(p)][p[3]] = d[Segment(p)][p[3]]
    PROVE  OneMore(d, e, w, x)
<1> DEFINE L == LinesIn(d, w)
           M == LinesIn(e, w)
           n == Cardinality(L)
<1>1. L \in SUBSET Positions
  BY LinesAre
<1>2. /\ IsFiniteSet(M) /\ Cardinality(M) = n + 1
      /\ \A i \in 1 .. n : Nth(M, i) = Nth(L, i)
      /\ Nth(M, n + 1) = x
  BY <1>1, LastLine
<1>3. /\ WritesIn(d, w) \in Seq(1 .. MaxWrites) /\ Len(WritesIn(d, w)) = n
      /\ n \in Nat
      /\ \A i \in 1 .. n : /\ Nth(L, i) \in L
                           /\ WritesIn(d, w)[i] = d[Segment(Nth(L, i))][Nth(L, i)[3]].write
  BY WritesAre DEF ReadsAll
<1>4. /\ WritesIn(e, w) \in Seq(1 .. MaxWrites) /\ Len(WritesIn(e, w)) = n + 1
      /\ \A i \in 1 .. n + 1 : WritesIn(e, w)[i] = e[Segment(Nth(M, i))][Nth(M, i)[3]].write
  <2>1. IsFiniteSet(LinesIn(e, w))
    BY <1>2
  <2> HIDE DEF L, M, n
  <2>2. ReadsAll(e, w)
    BY <2>1, WritesAre
  <2>3. /\ WritesIn(e, w) \in Seq(1 .. MaxWrites)
        /\ Len(WritesIn(e, w)) = Cardinality(M)
        /\ \A i \in 1 .. Cardinality(M) :
              WritesIn(e, w)[i] = e[Segment(Nth(M, i))][Nth(M, i)[3]].write
    BY <2>2 DEF M, ReadsAll
  <2> QED
    BY <1>2, <2>3
<1>5. \A p \in L : e[Segment(p)][p[3]] = d[Segment(p)][p[3]]
  OBVIOUS
<1> DEFINE y == e[Segment(x)][x[3]].write
           s == WritesIn(d, w)
           t == WritesIn(e, w)
<1> HIDE DEF L, M, n
<1>6. /\ \A i \in 1 .. n : t[i] = s[i]
      /\ t[n + 1] = y
  <2>1. ASSUME NEW i \in 1 .. n PROVE t[i] = s[i]
    <3>1. i \in 1 .. n + 1 /\ Nth(M, i) = Nth(L, i) /\ Nth(L, i) \in L
      BY <1>2, <1>3
    <3> QED
      BY <1>3, <1>4, <1>5, <3>1
  <2>2. n + 1 \in 1 .. n + 1
    BY <1>3
  <2> QED
    BY <1>2, <1>4, <2>1, <2>2
<1>7. y \in 1 .. MaxWrites
  <2>1. n + 1 \in 1 .. n + 1
    BY <1>3
  <2>2. t[n + 1] \in 1 .. MaxWrites
    BY <1>4, <2>1, ElementOfSeq
  <2> QED
    BY <1>6, <2>2
<1>8. t = Append(s, y)
  <2> HIDE DEF s, t, y
  <2>1. /\ s \in Seq(1 .. MaxWrites) /\ Len(s) = n /\ n \in Nat
        /\ t \in Seq(1 .. MaxWrites) /\ Len(t) = n + 1
    BY <1>3, <1>4 DEF s, t
  <2>2. /\ Append(s, y) \in Seq(1 .. MaxWrites) /\ Len(Append(s, y)) = n + 1
        /\ \A i \in 1 .. n : Append(s, y)[i] = s[i]
        /\ Append(s, y)[n + 1] = y
    BY <1>7, <2>1, AppendProperties
  <2>3. ASSUME NEW i \in 1 .. Len(t) PROVE t[i] = Append(s, y)[i]
    <3>1. i \in 1 .. n \/ i = n + 1
      BY <2>1
    <3> QED
      BY <1>6, <2>2, <3>1
  <2> QED
    BY <2>1, <2>2, <2>3, SeqEqual
<1>9. NewLines(d, e, w)
  BY DEF NewLines
<1> QED
  BY <1>2, <1>8, <1>9 DEF M, s, t, y, OneMore

-----------------------------------------------------------------------------
(* What a step makes of the lines.                                         *)

\* What is on disk is a directory.
LEMMA DiskIsADirectory ==
    /\ DirectoryTyped => Directory(disk)
    /\ DirectoryTyped' => Directory(disk')
<1>1. DirectoryTyped => Directory(disk)
  <2> SUFFICES ASSUME DirectoryTyped PROVE Directory(disk)
    OBVIOUS
  <2>1. \A s \in DOMAIN disk : s \in Nat \X Nat
    BY DiskTyped
  <2> QED
    BY <2>1 DEF Directory, DirectoryTyped
<1>2. DirectoryTyped' => Directory(disk')
  <2> SUFFICES ASSUME DirectoryTyped' PROVE Directory(disk')
    OBVIOUS
  <2>1. day' \in 1 .. MaxDay /\ MaxDay \in Nat
    BY StreamAssumption DEF DirectoryTyped
  <2>2. (1 .. day') \X (Nat \ {0}) \in SUBSET (Nat \X Nat)
    BY <2>1
  <2>3. DOMAIN disk' \in SUBSET (Nat \X Nat)
    BY <2>2 DEF DirectoryTyped
  <2> QED
    BY <2>3 DEF Directory, DirectoryTyped
<1> QED
  BY <1>1, <1>2

\* The directory e holds all that d does, where d does.
Extends(d, e) ==
    /\ DOMAIN d \subseteq DOMAIN e
    /\ \A s \in DOMAIN d :
          /\ Len(d[s]) <= Len(e[s])
          /\ \A j \in 1 .. Len(d[s]) : e[s][j] = d[s][j]

\* Whether a piece reads as a line does not change.
LEMMA LinesDoNotChange ==
    ASSUME NEW d, NEW e, Directory(d), Directory(e), Extends(d, e), NEW v,
           NEW p \in Positions, Segment(p) \in DOMAIN d,
           p[3] \in 1 .. Len(d[Segment(p)])
    PROVE  /\ LineAt(e, v, p) <=> LineAt(d, v, p)
           /\ e[Segment(p)][p[3]] = d[Segment(p)][p[3]]
<1> DEFINE s == Segment(p)
           i == p[3]
<1>1. Len(d[s]) \in Nat /\ Len(e[s]) \in Nat /\ Len(d[s]) <= Len(e[s])
      /\ s \in DOMAIN d /\ s \in DOMAIN e /\ i \in 1 .. Len(d[s])
  BY LenProperties DEF Directory, Extends
<1>2. \A j \in 1 .. Len(d[s]) : e[s][j] = d[s][j]
  BY DEF Extends
<1> HIDE DEF s, i
<1>3. i \in 1 .. Len(e[s]) /\ e[s][i] = d[s][i]
  BY <1>1, <1>2
<1>4. LineAt(e, v, p) <=> LineAt(d, v, p)
  BY <1>1, <1>3 DEF LineAt, s, i
<1> QED
  BY <1>3, <1>4 DEF s, i

\* If no new piece reads as a line of v, v's lines stay as they are.
LEMMA LinesStay ==
    ASSUME NEW d, NEW e, Directory(d), Directory(e), Extends(d, e), NEW v,
           IsFiniteSet(LinesIn(d, v)),
           \A p \in Positions : LineAt(e, v, p) =>
               Segment(p) \in DOMAIN d /\ p[3] \in 1 .. Len(d[Segment(p)])
    PROVE  /\ LinesIn(e, v) = LinesIn(d, v)
           /\ WritesIn(e, v) = WritesIn(d, v)
<1>1. \A p \in Positions : LineAt(e, v, p) <=> LineAt(d, v, p)
  <2> SUFFICES ASSUME NEW p \in Positions PROVE LineAt(e, v, p) <=> LineAt(d, v, p)
    OBVIOUS
  <2>1. CASE Segment(p) \in DOMAIN d /\ p[3] \in 1 .. Len(d[Segment(p)])
    BY <2>1, LinesDoNotChange
  <2>2. CASE ~(Segment(p) \in DOMAIN d /\ p[3] \in 1 .. Len(d[Segment(p)]))
    BY <2>2 DEF LineAt
  <2> QED
    BY <2>1, <2>2
<1>2. LinesIn(d, v) \in SUBSET Positions /\ LinesIn(e, v) \in SUBSET Positions
      /\ (\A p \in Positions : p \in LinesIn(d, v) <=> LineAt(d, v, p))
      /\ (\A p \in Positions : p \in LinesIn(e, v) <=> LineAt(e, v, p))
  BY LinesAre
<1>3. LinesIn(e, v) = LinesIn(d, v)
  BY <1>1, <1>2
<1>4. \A p \in LinesIn(d, v) : e[Segment(p)][p[3]] = d[Segment(p)][p[3]]
  <2> SUFFICES ASSUME NEW p \in LinesIn(d, v)
               PROVE  e[Segment(p)][p[3]] = d[Segment(p)][p[3]]
    OBVIOUS
  <2>1. p \in Positions /\ LineAt(d, v, p)
    BY <1>2
  <2> QED
    BY <2>1, LinesDoNotChange DEF LineAt
<1> QED
  BY <1>3, <1>4, ReadStays

\* If one piece at x reads as a new line of v, behind all others, v's log is
\* longer by its write.
LEMMA LinesExtend ==
    ASSUME NEW d, NEW e, Directory(d), Directory(e), Extends(d, e), NEW v,
           IsFiniteSet(LinesIn(d, v)), NEW x \in Positions, LineAt(e, v, x),
           \A p \in Positions : LineAt(e, v, p) =>
               p = x \/ (Segment(p) \in DOMAIN d /\ p[3] \in 1 .. Len(d[Segment(p)])),
           \A q \in LinesIn(d, v) : ReadBefore(q, x)
    PROVE  OneMore(d, e, v, x)
<1>1. \A p \in Positions : LineAt(e, v, p) <=> (LineAt(d, v, p) \/ p = x)
  <2> SUFFICES ASSUME NEW p \in Positions
               PROVE  LineAt(e, v, p) <=> (LineAt(d, v, p) \/ p = x)
    OBVIOUS
  <2>1. CASE Segment(p) \in DOMAIN d /\ p[3] \in 1 .. Len(d[Segment(p)])
    BY <2>1, LinesDoNotChange
  <2>2. CASE ~(Segment(p) \in DOMAIN d /\ p[3] \in 1 .. Len(d[Segment(p)]))
    BY <2>2 DEF LineAt
  <2> QED
    BY <2>1, <2>2
<1>2. LinesIn(d, v) \in SUBSET Positions /\ LinesIn(e, v) \in SUBSET Positions
      /\ (\A p \in Positions : p \in LinesIn(d, v) <=> LineAt(d, v, p))
      /\ (\A p \in Positions : p \in LinesIn(e, v) <=> LineAt(e, v, p))
  BY LinesAre
<1>3. LinesIn(e, v) = LinesIn(d, v) \cup {x}
  BY <1>1, <1>2
<1>4. \A p \in LinesIn(d, v) : e[Segment(p)][p[3]] = d[Segment(p)][p[3]]
  <2> SUFFICES ASSUME NEW p \in LinesIn(d, v)
               PROVE  e[Segment(p)][p[3]] = d[Segment(p)][p[3]]
    OBVIOUS
  <2>1. p \in Positions /\ LineAt(d, v, p)
    BY <1>2
  <2> QED
    BY <2>1, LinesDoNotChange DEF LineAt
<1> QED
  BY <1>3, <1>4, ReadExtends

\* Growing extends.
LEMMA GrowingExtends ==
    ASSUME NEW w, Grows(w)
    PROVE  Extends(disk, disk')
BY DEF Grows, Extends

\* An append that does not tear is its writer's next line, behind all others
\* of his, and changes no other writer's.
LEMMA WriteIsRead ==
    ASSUME IInv, NEW w \in Writers, pc[w] = "write", NEW whole \in BOOLEAN,
           Write(w, whole), UNCHANGED <<day, present, manifest>>,
           NEW v \in Writers, IsFiniteSet(LinesIn(disk, v))
    PROVE  /\ IsFiniteSet(LinesIn(disk', v)) /\ NewLines(disk, disk', v)
           /\ v # w \/ ~whole => WritesIn(disk', v) = WritesIn(disk, v)
           /\ v = w /\ whole =>
                 WritesIn(disk', v) = Append(WritesIn(disk, v), count[w])
<1> DEFINE g == target[w].segment
           n == Len(disk[g])
           x == <<g[1], g[2], n + 1>>
<1>1. /\ g \in DOMAIN disk /\ DOMAIN disk' = DOMAIN disk
      /\ n \in Nat /\ Len(disk'[g]) = n + 1
      /\ \A j \in 1 .. n : disk'[g][j] = disk[g][j]
      /\ disk'[g][n + 1] = Piece(w, whole) /\ Grows(w)
  BY Written
<1>2. Directory(disk) /\ Directory(disk') /\ Extends(disk, disk')
  BY Written, DiskIsADirectory, GrowingExtends DEF IInv
<1>3. x \in Positions /\ Segment(x) = g /\ x[3] = n + 1
  <2>1. g \in Nat \X Nat
    BY <1>1, DiskTyped DEF IInv
  <2> QED
    BY <1>1, <2>1 DEF Positions, Segment
<1>4. \A p \in Positions : LineAt(disk', v, p) =>
         p = x \/ (Segment(p) \in DOMAIN disk /\ p[3] \in 1 .. Len(disk[Segment(p)]))
  <2> SUFFICES ASSUME NEW p \in Positions, LineAt(disk', v, p)
               PROVE  p = x \/ (Segment(p) \in DOMAIN disk
                                /\ p[3] \in 1 .. Len(disk[Segment(p)]))
    OBVIOUS
  <2>1. Segment(p) \in DOMAIN disk' /\ p[3] \in 1 .. Len(disk'[Segment(p)])
    BY DEF LineAt
  <2>2. /\ Segment(p) \in DOMAIN disk
        /\ \/ p[3] \in 1 .. Len(disk[Segment(p)])
           \/ Segment(p) = g /\ p[3] = n + 1
    BY <2>1, PiecesAfterWrite
  <2>3. Segment(p) = g /\ p[3] = n + 1 => p = x
    BY DEF Positions, Segment
  <2> QED
    BY <2>2, <2>3
<1>5. LineAt(disk', v, x) <=> (v = w /\ whole)
  <2>1. Piece(w, whole).writer = w /\ Piece(w, whole).whole = whole
        /\ Piece(w, whole).write = count[w]
    BY DEF Piece
  <2>2. n + 1 \in 1 .. Len(disk'[g])
    BY <1>1
  <2> HIDE DEF g, n, x
  <2> QED
    BY <1>1, <1>3, <2>1, <2>2 DEF LineAt
<1>6. CASE ~LineAt(disk', v, x)
  <2>1. \A p \in Positions : LineAt(disk', v, p) =>
           Segment(p) \in DOMAIN disk /\ p[3] \in 1 .. Len(disk[Segment(p)])
    BY <1>4, <1>6
  <2>2. LinesIn(disk', v) = LinesIn(disk, v) /\ WritesIn(disk', v) = WritesIn(disk, v)
    BY <1>2, <2>1, LinesStay
  <2>3. NewLines(disk, disk', v)
    BY <2>2 DEF NewLines
  <2> QED
    BY <1>5, <1>6, <2>2, <2>3
<1>7. CASE LineAt(disk', v, x)
  <2>1. v = w /\ whole
    BY <1>5, <1>7
  <2>2. \A q \in LinesIn(disk, v) : ReadBefore(q, x)
    <3> SUFFICES ASSUME NEW q \in LinesIn(disk, v) PROVE ReadBefore(q, x)
      OBVIOUS
    <3>1. q \in Positions /\ LineAt(disk, w, q)
      BY <1>2, <2>1, LinesAre
    <3>2. Segment(q) \in DOMAIN disk /\ q[3] \in 1 .. Len(disk[Segment(q)])
          /\ disk[Segment(q)][q[3]].writer = w
      BY <3>1 DEF LineAt
    <3>3. ~Before(g, Segment(q))
      BY <3>2 DEF IInv, WriterOK, Placed, Appending
    <3>4. g = Segment(q) \/ Before(Segment(q), g)
      BY <1>1, <3>2, <3>3, DiskTyped, BeforeIsAnOrder DEF IInv
    <3>5. g = Segment(q) => q[3] < n + 1
      BY <1>1, <3>2
    <3> QED
      BY <1>3, <3>4, <3>5 DEF ReadBefore, Segment
  <2>3. OneMore(disk, disk', v, x)
    BY <1>2, <1>3, <1>4, <1>7, <2>2, LinesExtend
  <2>4. disk'[Segment(x)][x[3]].write = count[w]
    <3> HIDE DEF g, n, x
    <3>1. disk'[Segment(x)][x[3]] = Piece(w, whole)
      BY <1>1, <1>3
    <3>2. Piece(w, whole).write = count[w]
      BY DEF Piece
    <3> QED
      BY <3>1, <3>2
  <2> QED
    BY <2>1, <2>3, <2>4 DEF OneMore
<1> QED
  BY <1>6, <1>7

\* Opening a segment changes no line.
LEMMA OpeningIsNotRead ==
    ASSUME IInv, NEW w \in Writers, OpenSegment(w), NEW v,
           IsFiniteSet(LinesIn(disk, v))
    PROVE  LinesIn(disk', v) = LinesIn(disk, v) /\ WritesIn(disk', v) = WritesIn(disk, v)
<1> DEFINE g == target[w].segment
<1>1. /\ g \notin DOMAIN disk => disk'[g] = <<>>
      /\ DOMAIN disk' = DOMAIN disk \cup {g}
      /\ \A s \in DOMAIN disk : disk'[s] = disk[s]
      /\ Grows(w)
  BY Opened
<1>2. Directory(disk) /\ Directory(disk') /\ Extends(disk, disk')
  BY Opened, DiskIsADirectory, GrowingExtends DEF IInv
<1>3. \A p \in Positions : LineAt(disk', v, p) =>
         Segment(p) \in DOMAIN disk /\ p[3] \in 1 .. Len(disk[Segment(p)])
  <2> SUFFICES ASSUME NEW p \in Positions, LineAt(disk', v, p)
               PROVE  Segment(p) \in DOMAIN disk /\ p[3] \in 1 .. Len(disk[Segment(p)])
    OBVIOUS
  <2>1. Segment(p) \in DOMAIN disk' /\ p[3] \in 1 .. Len(disk'[Segment(p)])
    BY DEF LineAt
  <2>2. Segment(p) \in DOMAIN disk \/ Len(disk'[Segment(p)]) = 0
    BY <1>1, <2>1
  <2> QED
    BY <1>1, <2>1, <2>2
<1> QED
  BY <1>2, <1>3, LinesStay

\* The steps that touch the segments.
LEMMA DiskSteps ==
    ASSUME [Next]_vars, disk' # disk
    PROVE  \E w \in Writers : OpenSegment(w) \/ AppendLine(w) \/ AppendTears(w)
BY DEF Next, vars, NextDay, WriterStep, Fault, Resolve, Acknowledge, LoadManifest,
       AppendBaseline, Measure, AppendClaim, Sweep, EndPass, AppendFails, LoadFails,
       SealFails, Crash, directory

\* Whatever happens, a writer's lines stay, and new ones come behind them.
LEMMA StepIsRead ==
    ASSUME IInv, [Next]_vars, NEW v \in Writers, IsFiniteSet(LinesIn(disk, v))
    PROVE  IsFiniteSet(LinesIn(disk', v)) /\ NewLines(disk, disk', v)
<1>1. CASE LinesIn(disk', v) = LinesIn(disk, v)
  BY <1>1 DEF NewLines
<1>2. ASSUME NEW w \in Writers, OpenSegment(w)
      PROVE  LinesIn(disk', v) = LinesIn(disk, v)
  BY <1>2, OpeningIsNotRead
<1>3. ASSUME NEW w \in Writers, AppendLine(w) \/ AppendTears(w)
      PROVE  IsFiniteSet(LinesIn(disk', v)) /\ NewLines(disk, disk', v)
  <2>1. PICK whole \in BOOLEAN : Write(w, whole)
    BY <1>3 DEF AppendLine, AppendTears
  <2>2. pc[w] = "write" /\ UNCHANGED <<day, present, manifest>>
    BY <1>3 DEF AppendLine, AppendTears
  <2> QED
    BY <2>1, <2>2, WriteIsRead
<1>4. CASE disk' = disk
  BY <1>1, <1>4
<1> QED
  BY <1>1, <1>2, <1>3, <1>4, DiskSteps

LinesFinite == \A w \in Writers : IsFiniteSet(LinesIn(disk, w))

\* A writer has finitely many lines.
LEMMA AlwaysFinite == Spec => [](IInv /\ LinesFinite)
<1>1. Init => LinesFinite
  <2> SUFFICES ASSUME Init, NEW w \in Writers PROVE IsFiniteSet(LinesIn(disk, w))
    BY DEF LinesFinite
  <2>1. DOMAIN disk = {}
    BY DEF Init
  <2>2. LinesIn(disk, w) = {}
    BY <2>1 DEF LinesIn
  <2> QED
    BY <2>2, FS_EmptySet
<1>2. IInv /\ LinesFinite /\ [Next]_vars => LinesFinite'
  <2> SUFFICES ASSUME IInv, LinesFinite, [Next]_vars, NEW w \in Writers
               PROVE  IsFiniteSet(LinesIn(disk', w))
    BY DEF LinesFinite
  <2> QED
    BY StepIsRead DEF LinesFinite
<1> QED
  BY <1>1, <1>2, AlwaysIInv, PTL DEF Spec

-----------------------------------------------------------------------------
(* What read() yields of them.                                             *)

\* The positions B are those of A, and others behind them.
Leads(A, B) ==
    /\ A \subseteq B
    /\ \A p \in A, q \in B : q \in A \/ ReadBefore(p, q)

\* The numbers of writes that d has at the positions L.
Numbers(d, L) == \A p \in L : d[Segment(p)][p[3]].write \in 1 .. MaxWrites

\* A sequence that another begins with is a prefix of it.
LEMMA PrefixIs ==
    ASSUME NEW S, NEW s \in Seq(S), NEW t \in Seq(S), Len(s) <= Len(t),
           \A i \in 1 .. Len(s) : s[i] = t[i]
    PROVE  IsPrefix(s, t)
<1> DEFINE n == Len(s)
<1>1. n \in Nat /\ Len(t) \in Nat
  BY LenProperties
<1>2. 1 \in 1 .. n + 1 /\ 1 \in 1 .. Len(t) + 1 /\ n \in 1 - 1 .. n
      /\ n \in 1 - 1 .. Len(t)
  BY <1>1
<1>3. /\ SubSeq(s, 1, n) \in Seq(S) /\ Len(SubSeq(s, 1, n)) = n - 1 + 1
      /\ \A i \in 1 .. n - 1 + 1 : SubSeq(s, 1, n)[i] = s[1 + i - 1]
  BY <1>1, <1>2, SubSeqProperties
<1>4. /\ SubSeq(t, 1, n) \in Seq(S) /\ Len(SubSeq(t, 1, n)) = n - 1 + 1
      /\ \A i \in 1 .. n - 1 + 1 : SubSeq(t, 1, n)[i] = t[1 + i - 1]
  BY <1>1, <1>2, SubSeqProperties
<1>5. \A i \in 1 .. n : SubSeq(s, 1, n)[i] = SubSeq(t, 1, n)[i]
  BY <1>1, <1>3, <1>4
<1>6. SubSeq(s, 1, n) = SubSeq(t, 1, n)
  BY <1>1, <1>3, <1>4, <1>5, SeqEqual
<1> QED
  BY <1>6 DEF IsPrefix

\* Where positions lead others, and hold the same, so do their writes.
LEMMA PrefixAt ==
    ASSUME NEW d, NEW e, NEW A, NEW B, B \in SUBSET Positions, IsFiniteSet(B),
           Leads(A, B), Numbers(e, B),
           \A p \in A : d[Segment(p)][p[3]] = e[Segment(p)][p[3]]
    PROVE  IsPrefix(At(d, A), At(e, B))
<1> DEFINE n == Cardinality(A)
           m == Cardinality(B)
           s == At(d, A)
           t == At(e, B)
<1>1. A \in SUBSET Positions /\ A \subseteq B /\ IsFiniteSet(A)
  BY FS_Subset DEF Leads
<1>2. n \in Nat /\ m \in Nat /\ n <= m
  BY <1>1, FS_Subset, FS_CardinalityType
<1>3. ASSUME NEW p \in A PROVE Rank(B, p) = Rank(A, p)
  <2>1. \A q \in B : ReadBefore(q, p) => q \in A
    <3> SUFFICES ASSUME NEW q \in B, ReadBefore(q, p), q \notin A PROVE FALSE
      OBVIOUS
    <3>1. ReadBefore(p, q)
      BY DEF Leads
    <3> QED
      BY <1>1, <3>1, ReadingIsAnOrder
  <2>2. {q \in B : ReadBefore(q, p)} = {q \in A : ReadBefore(q, p)}
    BY <1>1, <2>1
  <2> QED
    BY <2>2 DEF Rank
<1>4. /\ \A i \in 1 .. n : Nth(A, i) \in A /\ Rank(A, Nth(A, i)) = i - 1
      /\ \A i \in 1 .. m : Nth(B, i) \in B
      /\ \A p \in B : Nth(B, Rank(B, p) + 1) = p
  BY <1>1, RanksAre
<1>5. ASSUME NEW i \in 1 .. n PROVE Nth(B, i) = Nth(A, i) /\ Nth(A, i) \in A
  <2>1. Nth(A, i) \in A /\ Rank(B, Nth(A, i)) = i - 1
    BY <1>3, <1>4
  <2>2. Nth(B, (i - 1) + 1) = Nth(A, i)
    BY <1>1, <1>4, <2>1
  <2> QED
    BY <1>2, <2>1, <2>2
<1>6. /\ s = [i \in 1 .. n |-> d[Segment(Nth(A, i))][Nth(A, i)[3]].write]
      /\ t = [i \in 1 .. m |-> e[Segment(Nth(B, i))][Nth(B, i)[3]].write]
  BY DEF At
<1> HIDE DEF n, m, s, t
<1>7. \A i \in 1 .. m : e[Segment(Nth(B, i))][Nth(B, i)[3]].write \in 1 .. MaxWrites
  BY <1>4 DEF Numbers
<1>8. \A i \in 1 .. n :
         /\ i \in 1 .. m
         /\ d[Segment(Nth(A, i))][Nth(A, i)[3]].write
              = e[Segment(Nth(B, i))][Nth(B, i)[3]].write
  BY <1>2, <1>5
<1>9. t \in Seq(1 .. MaxWrites) /\ Len(t) = m
  BY <1>2, <1>6, <1>7
<1>10. \A i \in 1 .. n :
          d[Segment(Nth(A, i))][Nth(A, i)[3]].write \in 1 .. MaxWrites
  BY <1>7, <1>8
<1>11. s \in Seq(1 .. MaxWrites) /\ Len(s) = n
  BY <1>2, <1>6, <1>10
<1>12. \A i \in 1 .. n : s[i] = t[i]
  BY <1>6, <1>8
<1>13. IsPrefix(s, t)
  BY <1>2, <1>9, <1>11, <1>12, PrefixIs
<1> QED
  BY <1>13 DEF s, t

\* A writer's lines are numbers of writes.
LEMMA LinesAreNumbers ==
    ASSUME NEW d, Directory(d), NEW w
    PROVE  LinesIn(d, w) \in SUBSET Positions /\ Numbers(d, LinesIn(d, w))
<1>1. LinesIn(d, w) \in SUBSET Positions /\ \A p \in LinesIn(d, w) : LineAt(d, w, p)
  BY LinesAre
<1>2. ASSUME NEW p \in LinesIn(d, w)
      PROVE  d[Segment(p)][p[3]].write \in 1 .. MaxWrites
  <2>1. Segment(p) \in DOMAIN d /\ p[3] \in 1 .. Len(d[Segment(p)])
    BY <1>1 DEF LineAt
  <2>2. d[Segment(p)] \in Seq(Pieces)
    BY <2>1 DEF Directory
  <2>3. d[Segment(p)][p[3]] \in Pieces
    BY <2>1, <2>2, ElementOfSeq
  <2> QED
    BY <2>3 DEF Pieces
<1> QED
  BY <1>1, <1>2 DEF Numbers

\* read() yields the lines that come before anything it does not accept.
LEMMA ReadLeads ==
    ASSUME IInv, NEW w \in Writers
    PROVE  /\ Leads(LinesRead(w), LinesOf(w))
           /\ ReadCompletes => LinesRead(w) = LinesOf(w)
<1>1. Directory(disk) /\ LinesOf(w) = LinesIn(disk, w)
  BY DiskIsADirectory, ReadingIn DEF IInv
<1>2. /\ LinesOf(w) \in SUBSET Positions
      /\ \A p \in LinesOf(w) :
            /\ Segment(p) \in DOMAIN disk /\ p[3] \in 1 .. Len(disk[Segment(p)])
            /\ disk[Segment(p)][p[3]].whole
  BY <1>1, LinesAre DEF LineAt
<1>3. \A p \in LinesOf(w) :
         p \in LinesRead(w) <=>
            Reaches(Segment(p)) /\ \A j \in 1 .. p[3] : disk[Segment(p)][j].whole
  BY DEF LinesRead, Segment
<1>4. \A s \in DOMAIN disk : DOMAIN disk[s] = 1 .. Len(disk[s])
  BY <1>1 DEF Directory
<1>5. ASSUME NEW p \in LinesOf(w), ReadsThrough(Segment(p))
      PROVE  \A j \in 1 .. p[3] : disk[Segment(p)][j].whole
  BY <1>2, <1>4, <1>5 DEF ReadsThrough, LinesParse
<1>6. ASSUME NEW p \in LinesRead(w), NEW q \in LinesOf(w), ReadBefore(q, p)
      PROVE  q \in LinesRead(w)
  <2>1. p \in LinesOf(w) /\ Reaches(Segment(p))
        /\ \A j \in 1 .. p[3] : disk[Segment(p)][j].whole
    BY <1>3 DEF LinesRead
  <2>2. p \in Positions /\ q \in Positions
    BY <1>2, <2>1
  <2>3. CASE Segment(q) = Segment(p) /\ q[3] < p[3]
    <3>1. \A j \in 1 .. q[3] : j \in 1 .. p[3]
      BY <2>2, <2>3 DEF Positions
    <3> QED
      BY <1>3, <2>1, <2>3, <3>1
  <2>4. CASE Before(Segment(q), Segment(p))
    <3>1. Segment(q) \in DOMAIN disk /\ Segment(p) \in DOMAIN disk
      BY <1>2, <2>1
    <3>2. ReadsThrough(Segment(q)) /\ ManifestReadable
      BY <2>1, <2>4, <3>1 DEF Reaches
    <3>3. ASSUME NEW t \in DOMAIN disk, Before(t, Segment(q))
          PROVE  ReadsThrough(t)
      <4>1. t \in Nat \X Nat /\ Segment(q) \in Nat \X Nat /\ Segment(p) \in Nat \X Nat
        BY <1>1, <3>1 DEF Directory
      <4>2. Before(t, Segment(p))
        BY <2>4, <3>3, <4>1, BeforeIsAnOrder
      <4> QED
        BY <2>1, <4>2 DEF Reaches
    <3>4. Reaches(Segment(q))
      BY <3>2, <3>3 DEF Reaches, ReadsThrough
    <3> QED
      BY <1>3, <1>5, <3>2, <3>4
  <2> QED
    BY <1>6, <2>3, <2>4 DEF ReadBefore, Segment
<1>7. Leads(LinesRead(w), LinesOf(w))
  <2>1. LinesRead(w) \subseteq LinesOf(w)
    BY DEF LinesRead
  <2>2. ASSUME NEW p \in LinesRead(w), NEW q \in LinesOf(w), q \notin LinesRead(w)
        PROVE  ReadBefore(p, q)
    <3>1. p \in Positions /\ q \in Positions /\ p # q
      BY <1>2, <2>1, <2>2
    <3>2. ~ReadBefore(q, p)
      BY <1>6, <2>2
    <3> QED
      BY <3>1, <3>2, ReadingIsAnOrder
  <2> QED
    BY <2>1, <2>2 DEF Leads
<1>8. ASSUME ReadCompletes PROVE LinesRead(w) = LinesOf(w)
  <2>1. ManifestReadable /\ \A s \in DOMAIN disk : ReadsThrough(s)
    BY <1>8 DEF ReadCompletes
  <2>2. ASSUME NEW p \in LinesOf(w) PROVE p \in LinesRead(w)
    <3>1. ReadsThrough(Segment(p))
      BY <1>2, <2>1
    <3>2. Reaches(Segment(p))
      BY <2>1, <3>1 DEF Reaches, ReadsThrough
    <3> QED
      BY <1>3, <1>5, <3>1, <3>2
  <2> QED
    BY <2>2 DEF LinesRead
<1> QED
  BY <1>7, <1>8

\* Alone, a writer changes no segment but the highest, and opens none below it.
LEMMA OnlyTheHighestGrows ==
    ASSUME IInv, OneAlone, Cardinality(Writers) = 1, [Next]_vars
    PROVE  /\ Directory(disk') /\ Extends(disk, disk')
           /\ \A s \in DOMAIN disk : Sealable(disk, s) => disk'[s] = disk[s]
           /\ \A t \in DOMAIN disk' : t \in DOMAIN disk \/ \A s \in DOMAIN disk : ~Before(t, s)
<1>1. PICK w : Writers = {w}
  BY FS_Singleton, StreamAssumption
<1>2. w \in Writers /\ Alone(w) /\ Directory(disk)
  BY <1>1, DiskIsADirectory DEF OneAlone, IInv
<1>3. CASE disk' = disk
  <2>1. Extends(disk, disk)
    BY <1>2, LenProperties DEF Extends, Directory
  <2> QED
    BY <1>2, <1>3, <2>1
<1>4. CASE OpenSegment(w)
  <2>1. Directory(disk') /\ Extends(disk, disk')
        /\ (\A s \in DOMAIN disk : disk'[s] = disk[s])
        /\ DOMAIN disk' = DOMAIN disk \cup {target[w].segment}
    BY <1>2, <1>4, Opened, DiskIsADirectory, GrowingExtends
  <2>2. pc[w] \in Appending
    BY <1>4 DEF OpenSegment, Appending
  <2>3. Highest(disk, target[w].segment)
    BY <1>2, <2>2 DEF Alone, AtTheEnd
  <2> QED
    BY <2>1, <2>3 DEF Highest
<1>5. CASE AppendLine(w) \/ AppendTears(w)
  <2>1. PICK whole \in BOOLEAN : Write(w, whole)
    BY <1>5 DEF AppendLine, AppendTears
  <2>2. pc[w] = "write" /\ UNCHANGED <<day, present, manifest>>
    BY <1>5 DEF AppendLine, AppendTears
  <2>3. DirectoryTyped' /\ Grows(w)
    BY <1>2, <2>1, <2>2, Written
  <2>4. Directory(disk') /\ Extends(disk, disk')
    BY <2>3, DiskIsADirectory, GrowingExtends
  <2>5. /\ DOMAIN disk' = DOMAIN disk
        /\ \A s \in DOMAIN disk : Sealable(disk, s) => disk'[s] = disk[s]
    BY <1>2, <2>1, <2>2, WriteAlone
  <2> QED
    BY <2>4, <2>5
<1> QED
  BY <1>1, <1>3, <1>4, <1>5, DiskSteps

\* What a lone writer does takes nothing from what read() yields, as long as it
\* leaves the manifest readable.
LEMMA ReadStaysRead ==
    ASSUME IInv, OneAlone, OneAlone', Cardinality(Writers) = 1, [Next]_vars,
           ManifestReadable', NEW w \in Writers, IsFiniteSet(LinesIn(disk, w))
    PROVE  LinesRead(w) \subseteq LinesRead(w)'
<1> SUFFICES ASSUME NEW p \in LinesRead(w) PROVE p \in LinesRead(w)'
  OBVIOUS
<1> DEFINE s == Segment(p)
<1>1. /\ p \in LinesOf(w) /\ Reaches(s)
      /\ \A j \in 1 .. p[3] : disk[s][j].whole
  BY DEF LinesRead, Segment
<1>2. Directory(disk) /\ LinesOf(w) = LinesIn(disk, w) /\ LinesOf(w)' = LinesIn(disk', w)
  BY DiskIsADirectory, ReadingIn DEF IInv
<1>3. p \in Positions /\ s \in DOMAIN disk /\ p[3] \in 1 .. Len(disk[s])
  BY <1>1, <1>2, LinesAre DEF LineAt
<1>4. p \in LinesOf(w)'
  BY <1>1, <1>2, StepIsRead DEF NewLines
<1> HIDE DEF s
<1>5. /\ Directory(disk') /\ Extends(disk, disk')
      /\ \A t \in DOMAIN disk : Sealable(disk, t) => disk'[t] = disk[t]
      /\ \A t \in DOMAIN disk' : t \in DOMAIN disk \/ \A u \in DOMAIN disk : ~Before(t, u)
  BY OnlyTheHighestGrows
<1>6. \A t : SealHolds(t)'
  <2>1. SealsHold'
    BY DEF OneAlone, Alone
  <2> QED
    BY <2>1 DEF SealHolds, SealsHold
<1>7. ASSUME NEW t \in DOMAIN disk', Before(t, s) PROVE ReadsThrough(t)'
  <2>1. t \in DOMAIN disk
    BY <1>3, <1>5, <1>7
  <2>2. Sealable(disk, t)
    BY <1>3, <1>7, <2>1 DEF Sealable, Highest
  <2>3. disk'[t] = disk[t]
    BY <1>5, <2>1, <2>2
  <2>4. LinesParse(t) /\ EndsWell(t)
    BY <1>1, <1>7, <2>1 DEF Reaches, ReadsThrough
  <2>5. LinesParse(t)'
    BY <2>3, <2>4 DEF LinesParse
  <2>6. disk[t] # <<>> /\ disk[t][Len(disk[t])].whole
    BY <1>3, <1>7, <2>4 DEF EndsWell, IsLastSegment
  <2>7. EndsWell(t)'
    BY <2>3, <2>6 DEF EndsWell
  <2> QED
    BY <1>6, <2>5, <2>7 DEF ReadsThrough
<1>8. Reaches(s)'
  BY <1>6, <1>7 DEF Reaches, s
<1>9. \A j \in 1 .. p[3] : disk'[s][j].whole
  <2>1. \A j \in 1 .. p[3] : j \in 1 .. Len(disk[s])
    BY <1>3
  <2>2. \A j \in 1 .. Len(disk[s]) : disk'[s][j] = disk[s][j]
    BY <1>3, <1>5 DEF Extends
  <2> QED
    BY <1>1, <2>1, <2>2
<1> QED
  BY <1>4, <1>8, <1>9 DEF LinesRead, s, Segment

\* Alone in its directory, a writer never takes from read() an entry it yielded
\* once, nor puts one in front of it, through failures, torn appends and
\* restarts, as long as the manifest can be read.
THEOREM TrailGrows == Spec => TrailOnlyGrows
<1>1. ASSUME IInv, IInv', OneAlone, OneAlone', LinesFinite, LinesFinite', [Next]_vars,
             Cardinality(Writers) = 1, ManifestReadable', NEW w \in Writers
      PROVE  IsPrefix(ReadBy(w), ReadBy(w)')
  <2> DEFINE A == LinesRead(w)
             B == LinesRead(w)'
  <2>1. /\ ReadBy(w) = At(disk, A) /\ ReadBy(w)' = At(disk', B)
        /\ LinesOf(w) = LinesIn(disk, w) /\ LinesOf(w)' = LinesIn(disk', w)
    BY ReadingIn
  <2>2. Directory(disk) /\ Directory(disk') /\ Extends(disk, disk')
    BY <1>1, OnlyTheHighestGrows, DiskIsADirectory DEF IInv
  <2>3. A \subseteq B
    BY <1>1, ReadStaysRead DEF LinesFinite
  <2>4. A \subseteq LinesIn(disk, w) /\ B \subseteq LinesIn(disk', w)
    BY <2>1 DEF LinesRead
  <2>5. Leads(A, LinesIn(disk, w)) /\ NewLines(disk, disk', w)
    BY <1>1, <2>1, ReadLeads, StepIsRead DEF LinesFinite
  <2>6. LinesIn(disk', w) \in SUBSET Positions /\ Numbers(disk', LinesIn(disk', w))
        /\ IsFiniteSet(LinesIn(disk', w))
    BY <1>1, <2>2, LinesAreNumbers DEF LinesFinite
  <2>7. \A p \in LinesIn(disk, w) : disk[Segment(p)][p[3]] = disk'[Segment(p)][p[3]]
    BY <2>2, LinesAre, LinesDoNotChange DEF LineAt
  <2> HIDE DEF A, B
  <2>8. Leads(A, B)
    BY <2>3, <2>4, <2>5 DEF Leads, NewLines
  <2>9. B \in SUBSET Positions /\ IsFiniteSet(B) /\ Numbers(disk', B)
    BY <2>4, <2>6, FS_Subset DEF Numbers
  <2>10. \A p \in A : disk[Segment(p)][p[3]] = disk'[Segment(p)][p[3]]
    BY <2>4, <2>7
  <2>11. IsPrefix(At(disk, A), At(disk', B))
    BY <2>8, <2>9, <2>10, PrefixAt
  <2> QED
    BY <2>1, <2>11
<1>2. IInv /\ IInv' /\ OneAlone /\ OneAlone' /\ LinesFinite /\ LinesFinite' /\ [Next]_vars =>
         [(Cardinality(Writers) = 1 /\ ManifestReadable') =>
             \A w \in Writers : IsPrefix(ReadBy(w), ReadBy(w)')]_vars
  BY <1>1
<1> QED
  BY <1>2, AlwaysFinite, AlwaysAlone, PTL DEF Spec, TrailOnlyGrows

-----------------------------------------------------------------------------
(* The log of a writer.                                                    *)

\* A writer without lines has written nothing.
LEMMA LogInit ==
    Init => /\ [w \in Writers |-> WrittenBy(w)] = [w \in Writers |-> <<>>]
            /\ acked = [w \in Writers |-> {}]
<1> SUFFICES ASSUME Init
             PROVE  /\ [w \in Writers |-> WrittenBy(w)] = [w \in Writers |-> <<>>]
                    /\ acked = [w \in Writers |-> {}]
  OBVIOUS
<1>1. ASSUME NEW w \in Writers PROVE WrittenBy(w) = <<>>
  <2>1. DOMAIN disk = {}
    BY DEF Init
  <2>2. LinesIn(disk, w) = {}
    BY <2>1 DEF LinesIn
  <2>3. IInv
    BY InitIInv
  <2>4. ReadsAll(disk, w)
    BY <2>2, <2>3, FS_EmptySet, DiskIsADirectory, WritesAre DEF IInv
  <2>5. Cardinality(LinesIn(disk, w)) = 0
    BY <2>2, FS_EmptySet
  <2>6. WritesIn(disk, w) \in Seq(1 .. MaxWrites) /\ Len(WritesIn(disk, w)) = 0
    BY <2>4, <2>5 DEF ReadsAll
  <2> QED
    BY <2>6, ReadingIn
<1>2. acked = [w \in Writers |-> {}]
  BY DEF Init
<1> QED
  BY <1>1, <1>2

\* A reading yields a prefix of every log, and all of it if it completes.
LEMMA LogReads == IInv /\ LinesFinite => \A w \in Writers : Log!ReadIsTrue(w)
<1> SUFFICES ASSUME IInv, LinesFinite, NEW w \in Writers PROVE Log!ReadIsTrue(w)
  OBVIOUS
<1>1. /\ ReadBy(w) = At(disk, LinesRead(w)) /\ WrittenBy(w) = At(disk, LinesOf(w))
      /\ LinesOf(w) = LinesIn(disk, w)
  BY ReadingIn DEF WritesIn
<1>2. /\ Leads(LinesRead(w), LinesOf(w))
      /\ ReadCompletes => LinesRead(w) = LinesOf(w)
  BY ReadLeads
<1>3. LinesOf(w) \in SUBSET Positions /\ Numbers(disk, LinesOf(w))
      /\ IsFiniteSet(LinesOf(w))
  BY <1>1, LinesAreNumbers, DiskIsADirectory DEF IInv, LinesFinite
<1>4. IsPrefix(At(disk, LinesRead(w)), At(disk, LinesOf(w)))
  BY <1>2, <1>3, PrefixAt
<1>5. IsPrefix(ReadBy(w), WrittenBy(w)) /\ (ReadCompletes => ReadBy(w) = WrittenBy(w))
  BY <1>1, <1>2, <1>4
<1> QED
  BY <1>5 DEF Log!ReadIsTrue, Log!IsPrefix, IsPrefix

\* What a writer about to append has written are earlier writes.
LEMMA LogIsBehind ==
    ASSUME IInv, NEW w \in Writers, IsFiniteSet(LinesIn(disk, w)),
           pc[w] \in {"open", "write"}
    PROVE  \A i \in 1 .. Len(WrittenBy(w)) : WrittenBy(w)[i] < count[w]
<1> DEFINE L == LinesIn(disk, w)
<1>1. ReadsAll(disk, w) /\ Directory(disk)
  BY WritesAre, DiskIsADirectory DEF IInv
<1>2. ASSUME NEW i \in 1 .. Len(WritesIn(disk, w))
      PROVE  WritesIn(disk, w)[i] < count[w]
  <2>1. /\ Nth(L, i) \in L
        /\ WritesIn(disk, w)[i] = disk[Segment(Nth(L, i))][Nth(L, i)[3]].write
    BY <1>1 DEF ReadsAll
  <2> HIDE DEF L
  <2>2. LineAt(disk, w, Nth(L, i))
    BY <1>1, <2>1, LinesAre DEF L
  <2>3. /\ Segment(Nth(L, i)) \in DOMAIN disk
        /\ Nth(L, i)[3] \in 1 .. Len(disk[Segment(Nth(L, i))])
        /\ disk[Segment(Nth(L, i))][Nth(L, i)[3]].writer = w
    BY <2>2 DEF LineAt
  <2> QED
    BY <2>1, <2>3 DEF IInv, WriterOK, Placed
<1> QED
  BY <1>2, ReadingIn

\* A line on disk that its writer is about to acknowledge is in its log.
LEMMA LandedIsWritten ==
    ASSUME IInv, NEW w \in Writers, IsFiniteSet(LinesIn(disk, w)), pc[w] = "written"
    PROVE  \E i \in 1 .. Len(WrittenBy(w)) : WrittenBy(w)[i] = count[w]
<1> DEFINE L == LinesIn(disk, w)
<1>1. ReadsAll(disk, w) /\ Directory(disk)
  BY WritesAre, DiskIsADirectory DEF IInv
<1>2. PICK s \in DOMAIN disk : \E j \in 1 .. Len(disk[s]) :
         disk[s][j] = [writer |-> w, write |-> count[w], whole |-> TRUE]
  BY DEF IInv, WriterOK, Landed
<1>3. PICK j \in 1 .. Len(disk[s]) :
         disk[s][j] = [writer |-> w, write |-> count[w], whole |-> TRUE]
  BY <1>2
<1> DEFINE p == <<s[1], s[2], j>>
<1>4. p \in Positions /\ Segment(p) = s /\ p[3] = j /\ Len(disk[s]) \in Nat
  BY DiskTyped DEF IInv, Positions, Segment
<1> HIDE DEF p
<1>5. p \in L
  <2>1. LineAt(disk, w, p)
    BY <1>3, <1>4 DEF LineAt
  <2> QED
    BY <1>1, <1>4, <2>1, LinesAre
<1>6. L \in SUBSET Positions
  BY <1>1, LinesAre
<1> HIDE DEF L
<1> DEFINE i == Rank(L, p) + 1
<1>7. i \in 1 .. Cardinality(L) /\ Nth(L, i) = p
  BY <1>5, <1>6, RanksAre DEF L
<1> HIDE DEF i
<1>8. i \in 1 .. Len(WritesIn(disk, w))
      /\ WritesIn(disk, w)[i] = disk[Segment(p)][p[3]].write
  BY <1>1, <1>7 DEF ReadsAll, L
<1>9. WritesIn(disk, w)[i] = count[w]
  BY <1>3, <1>4, <1>8
<1> QED
  BY <1>8, <1>9, ReadingIn

\* Every step is a step of the log, or none.
LEMMA LogNext ==
    ASSUME IInv, LinesFinite, [Next]_vars
    PROVE  Log!Next \/ UNCHANGED <<[w \in Writers |-> WrittenBy(w)], acked>>
<1> DEFINE log == [w \in Writers |-> WrittenBy(w)]
<1>1. CASE \E w \in Writers : AppendLine(w)
  <2>1. PICK w \in Writers : AppendLine(w)
    BY <1>1
  <2>2. pc[w] = "write" /\ Write(w, TRUE) /\ TRUE \in BOOLEAN /\ acked' = acked
        /\ UNCHANGED <<day, present, manifest>>
    BY <2>1 DEF AppendLine, writing
  <2>3. ASSUME NEW v \in Writers
        PROVE  WrittenBy(v)' = IF v = w THEN Append(WrittenBy(v), count[w]) ELSE WrittenBy(v)
    <3>1. IsFiniteSet(LinesIn(disk, v))
      BY DEF LinesFinite
    <3>2. /\ v # w => WritesIn(disk', v) = WritesIn(disk, v)
          /\ v = w => WritesIn(disk', v) = Append(WritesIn(disk, v), count[w])
      BY <2>2, <3>1, WriteIsRead
    <3> QED
      BY <3>2, ReadingIn
  <2>4. log' = [log EXCEPT ![w] = Append(@, count[w])]
    BY <2>3
  <2>5. \A i \in 1 .. Len(log[w]) : log[w][i] < count[w]
    BY <2>2, LogIsBehind DEF LinesFinite
  <2>6. Aimed(w) /\ count[w] \in 0 .. MaxWrites /\ MaxWrites \in Nat
    BY <2>2, StreamAssumption DEF IInv, WriterOK, Appending, WritersTyped
  <2>7. count[w] \in 1 .. MaxWrites /\ \A m \in acked[w] : m < count[w]
    BY <2>6 DEF Aimed
  <2>8. Log!Record(w, count[w])
    BY <2>2, <2>4, <2>5, <2>7 DEF Log!Record
  <2> QED
    BY <2>7, <2>8 DEF Log!Next
<1>2. CASE \E w \in Writers : Acknowledge(w)
  <2>1. PICK w \in Writers : Acknowledge(w)
    BY <1>2
  <2>2. pc[w] = "written" /\ disk' = disk
        /\ acked' = [acked EXCEPT ![w] = @ \union {count[w]}]
    BY <2>1 DEF Acknowledge, directory
  <2>3. log' = log
    BY <2>2, ReadingIn
  <2>4. Aimed(w) /\ count[w] \in 0 .. MaxWrites /\ MaxWrites \in Nat
    BY <2>2, StreamAssumption DEF IInv, WriterOK, Appending, WritersTyped
  <2>5. count[w] \in 1 .. MaxWrites /\ count[w] \notin acked[w]
    BY <2>4 DEF Aimed
  <2>6. \E i \in 1 .. Len(log[w]) : log[w][i] = count[w]
    BY <2>2, LandedIsWritten DEF LinesFinite
  <2>7. Log!Acknowledge(w, count[w])
    BY <2>2, <2>3, <2>5, <2>6 DEF Log!Acknowledge
  <2> QED
    BY <2>5, <2>7 DEF Log!Next
<1>3. CASE ~(\E w \in Writers : AppendLine(w)) /\ ~(\E w \in Writers : Acknowledge(w))
  <2>1. acked' = acked
    BY <1>3 DEF Next, vars, NextDay, writing, WriterStep, Fault, Resolve, OpenSegment,
       LoadManifest, AppendBaseline, Measure, AppendClaim, Sweep, EndPass, AppendFails,
       AppendTears, LoadFails, SealFails, Crash
  <2>2. ASSUME NEW v \in Writers PROVE WritesIn(disk', v) = WritesIn(disk, v)
    <3>1. IsFiniteSet(LinesIn(disk, v))
      BY DEF LinesFinite
    <3>2. CASE disk' = disk
      BY <3>2
    <3>3. ASSUME NEW w \in Writers, OpenSegment(w)
          PROVE  WritesIn(disk', v) = WritesIn(disk, v)
      BY <3>1, <3>3, OpeningIsNotRead
    <3>4. ASSUME NEW w \in Writers, AppendTears(w)
          PROVE  WritesIn(disk', v) = WritesIn(disk, v)
      <4>1. pc[w] = "write" /\ Write(w, FALSE) /\ FALSE \in BOOLEAN
            /\ UNCHANGED <<day, present, manifest>>
        BY <3>4 DEF AppendTears
      <4> QED
        BY <3>1, <4>1, WriteIsRead
    <3> QED
      BY <1>3, <3>2, <3>3, <3>4, DiskSteps
  <2>3. log' = log
    BY <2>2, ReadingIn
  <2> QED
    BY <2>1, <2>3
<1> QED
  BY <1>1, <1>2, <1>3

\* Writers that share a directory, any number of them, each have the log
\* AppendOnlyLog describes: rotation, midnight, torn appends, failed operations
\* and restarts lose, repeat and reorder nothing on disk; and read() yields a
\* prefix of each log, or all of it if it does not throw.
THEOREM ImplementsLog == Spec => StreamImplementsLog
<1>1. Init => Log!Init
  BY LogInit DEF Log!Init
<1>2. IInv /\ LinesFinite /\ [Next]_vars =>
         [Log!Next]_<<[w \in Writers |-> WrittenBy(w)], acked>>
  BY LogNext
<1>3. IInv /\ LinesFinite => \A w \in Writers : Log!ReadIsTrue(w)
  BY LogReads
<1> QED
  BY <1>1, <1>2, <1>3, AlwaysFinite, PTL DEF Spec, StreamImplementsLog, Log!Spec
===============================================================================
