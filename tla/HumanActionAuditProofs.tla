----------------------- MODULE HumanActionAuditProofs -----------------------
(***************************************************************************)
(* What HumanActionAudit guarantees for every set of requests and every    *)
(* number of failures and deaths.  The inductive invariant says, for each  *)
(* place a request's handler may stand at, which of its entries the trail  *)
(* and the index hold by then (Stands), and that the two files never       *)
(* diverge by more than is recorded as missed (Files).                     *)
(***************************************************************************)
EXTENDS HumanActionAudit, SequenceTheorems, TLAPS

Said(r, o) == <<r, o>> \in Range(trail)
Indexed(r, o) == <<r, o>> \in Range(index)

Outcomes == {"allowed", "served", "failed"}

Typed ==
    /\ pc \in [Requests -> {"idle", "append", "index", "act", "over"}]
    /\ outcome \in [Requests -> Outcomes \cup {"none"}]
    /\ answer \in [Requests -> {"none", "ok", "error", "cut"}]
    /\ effects \subseteq Requests /\ unsaid \subseteq Requests
    /\ up \in BOOLEAN
    /\ faults \in 0..MaxFaults /\ restarts \in 0..MaxRestarts
    /\ drops \in 0..MaxDrops

\* The entry a request is about to index.
IsPending(e) == \E r \in Requests : pc[r] = "index" /\ e = <<r, outcome[r]>>

\* Once the server is down and the table empty, the boot repairs it all.
Files ==
    /\ trail \in Seq(Entries) /\ IsInjective(trail)
    /\ index \in Seq(Entries) /\ IsInjective(index)
    /\ Range(index) \subseteq Range(trail) /\ missed \subseteq Range(trail)
    /\ (up \/ index # <<>>) =>
           \A e \in Range(trail) \ Range(index) : e \in missed \/ IsPending(e)

\* Where request r stands, and what has been written of it.
Stands(r) ==
    /\ pc[r] # "over" => answer[r] = "none"
    /\ ~up => pc[r] \in {"idle", "over"}
    /\ pc[r] \in {"append", "index"} =>
           outcome[r] \in IF Phase[r] = "before" THEN {"allowed", "failed"}
                          ELSE {"served"}
    /\ pc[r] = "idle" => \A o \in Outcomes : ~Said(r, o)
    /\ pc[r] = "append" => ~Said(r, outcome[r])
    /\ pc[r] = "index" => Said(r, outcome[r]) /\ ~Indexed(r, outcome[r])
    /\ (pc[r] \in {"append", "index"} /\ outcome[r] = "allowed") =>
           ~Said(r, "failed")
    /\ pc[r] = "act" => /\ ~Said(r, "failed") /\ ~Said(r, "served")
                        /\ Phase[r] = "before" => Said(r, "allowed")
    /\ Phase[r] = "after" => ~Said(r, "allowed")
    /\ Phase[r] = "before" => ~Said(r, "served")

\* What the operators are promised about request r.
Audited(r) ==
    /\ (Phase[r] = "before" /\ r \in effects) => Said(r, "allowed")
    /\ (Phase[r] = "after" /\ answer[r] = "ok") => Said(r, "served")
    /\ (r \notin unsaid /\ answer[r] = "error" /\ Said(r, "allowed")) =>
           Said(r, "failed")

AuditInv == Typed /\ Files /\ \A r \in Requests : Stands(r) /\ Audited(r)

-----------------------------------------------------------------------------
(* Files that grow by an entry.                                            *)

\* Appending a new entry to a file without duplicates.
LEMMA AppendAdds ==
    ASSUME NEW S, NEW s \in Seq(S), NEW e \in S
    PROVE  /\ Append(s, e) \in Seq(S) /\ Append(s, e) # <<>>
           /\ Range(Append(s, e)) = Range(s) \cup {e}
           /\ (IsInjective(s) /\ e \notin Range(s)) => IsInjective(Append(s, e))
<1>1. /\ Append(s, e) \in Seq(S) /\ Len(s) \in Nat
      /\ DOMAIN s = 1..Len(s) /\ DOMAIN Append(s, e) = 1..(Len(s) + 1)
      /\ \A i \in 1..Len(s) : Append(s, e)[i] = s[i]
      /\ Append(s, e)[Len(s) + 1] = e
  BY LenProperties, AppendProperties
<1>2. Append(s, e) # <<>>
  BY <1>1, AppendProperties
<1>3. Range(Append(s, e)) = Range(s) \cup {e}
  <2>1. \A x \in Range(Append(s, e)) : x \in Range(s) \cup {e}
    BY <1>1 DEF Range
  <2>2. \A x \in Range(s) : x \in Range(Append(s, e))
    BY <1>1 DEF Range
  <2>3. e \in Range(Append(s, e))
    BY <1>1 DEF Range
  <2> QED
    BY <2>1, <2>2, <2>3
<1>4. (IsInjective(s) /\ e \notin Range(s)) => IsInjective(Append(s, e))
  BY <1>1 DEF IsInjective, Range
<1> QED
  BY <1>1, <1>2, <1>3, <1>4

\* An empty file.
LEMMA EmptyFile ==
    /\ <<>> \in Seq(Entries) /\ IsInjective(<<>>) /\ Range(<<>>) = {}
  BY EmptySeq DEF IsInjective, Range

-----------------------------------------------------------------------------
(* What a step leaves alone.                                               *)

\* A request keeps where it stands while its state and its entries are what
\* they were.
LEMMA FrameKeeps ==
    ASSUME NEW r \in Requests, Stands(r), Audited(r),
           pc'[r] = pc[r], outcome'[r] = outcome[r], answer'[r] = answer[r],
           up' = up, r \in effects' <=> r \in effects,
           r \in unsaid' <=> r \in unsaid,
           \A o : Said(r, o)' <=> Said(r, o),
           \A o : Indexed(r, o)' <=> Indexed(r, o)
    PROVE  Stands(r)' /\ Audited(r)'
  BY DEF Stands, Audited

RequestStep(r) ==
    \/ Receive(r) \/ AppendEntry(r) \/ AppendFails(r)
    \/ IndexEntry(r) \/ IndexFails(r)
    \/ HandlerReturns(r) \/ HandlerThrows(r)

\* A step of a request changes its own state and entries only.
LEMMA StepIsLocal ==
    ASSUME AuditInv, NEW r \in Requests, RequestStep(r)
    PROVE  /\ \E x, o, a :
                 /\ pc' = [pc EXCEPT ![r] = x]
                 /\ x \in {"append", "index", "act", "over"}
                 /\ outcome' = [outcome EXCEPT ![r] = o]
                 /\ o \in Outcomes \cup {"none"}
                 /\ answer' = [answer EXCEPT ![r] = a]
                 /\ a \in {"none", "ok", "error"}
           /\ effects' \in {effects, effects \cup {r}}
           /\ unsaid' \in {unsaid, unsaid \cup {r}}
           /\ up' = up /\ faults' \in {faults, faults + 1}
           /\ UNCHANGED <<restarts, drops>>
           /\ \/ trail' = trail
              \/ AppendEntry(r)
           /\ \/ index' = index
              \/ IndexEntry(r)
<1>1. /\ pc = [pc EXCEPT ![r] = pc[r]] /\ outcome = [outcome EXCEPT ![r] = outcome[r]]
      /\ answer = [answer EXCEPT ![r] = answer[r]]
      /\ outcome[r] \in Outcomes \cup {"none"}
  BY DEF AuditInv, Typed
<1>2. pc[r] # "over" => answer[r] = "none"
  BY DEF AuditInv, Stands
<1>3. pc[r] = "index" => outcome[r] \in Outcomes
  BY DEF AuditInv, Stands, Outcomes
<1> QED
  BY <1>1, <1>2, <1>3
  DEF RequestStep, Receive, AppendEntry, AppendFails, IndexEntry, IndexFails,
      HandlerReturns, HandlerThrows, Recording, Acting, Answer, AfterEntry,
      Outcomes, bounds

\* The entry a request writes is one of its own, and new to the file.
LEMMA WritesItsOwn ==
    ASSUME AuditInv, NEW r \in Requests
    PROVE  /\ AppendEntry(r) =>
                 /\ <<r, outcome[r]>> \in Entries \ Range(trail)
                 /\ Range(trail') = Range(trail) \cup {<<r, outcome[r]>>}
                 /\ trail' \in Seq(Entries) /\ IsInjective(trail')
           /\ IndexEntry(r) =>
                 /\ <<r, outcome[r]>> \in Range(trail) \ Range(index)
                 /\ Range(index') = Range(index) \cup {<<r, outcome[r]>>}
                 /\ index' \in Seq(Entries) /\ IsInjective(index')
                 /\ index' # <<>>
<1>1. pc[r] \in {"append", "index"} => <<r, outcome[r]>> \in Entries
  BY DEF AuditInv, Stands, Entries
<1>2. trail \in Seq(Entries) /\ IsInjective(trail)
  BY DEF AuditInv, Files
<1>3. index \in Seq(Entries) /\ IsInjective(index)
  BY DEF AuditInv, Files
<1>4. ASSUME AppendEntry(r)
      PROVE  /\ <<r, outcome[r]>> \in Entries \ Range(trail)
             /\ Range(trail') = Range(trail) \cup {<<r, outcome[r]>>}
             /\ trail' \in Seq(Entries) /\ IsInjective(trail')
  <2>1. pc[r] = "append" /\ trail' = Append(trail, <<r, outcome[r]>>)
    BY <1>4 DEF AppendEntry
  <2>2. <<r, outcome[r]>> \notin Range(trail)
    BY <2>1 DEF AuditInv, Stands, Said
  <2> QED
    BY <1>1, <1>2, <2>1, <2>2, AppendAdds
<1>5. ASSUME IndexEntry(r)
      PROVE  /\ <<r, outcome[r]>> \in Range(trail) \ Range(index)
             /\ Range(index') = Range(index) \cup {<<r, outcome[r]>>}
             /\ index' \in Seq(Entries) /\ IsInjective(index')
             /\ index' # <<>>
  <2>1. pc[r] = "index" /\ index' = Append(index, <<r, outcome[r]>>)
    BY <1>5 DEF IndexEntry
  <2>2. <<r, outcome[r]>> \in Range(trail) \ Range(index)
    BY <2>1 DEF AuditInv, Stands, Said, Indexed
  <2>3. /\ index' \in Seq(Entries) /\ index' # <<>>
        /\ Range(index') = Range(index) \cup {<<r, outcome[r]>>}
        /\ IsInjective(index')
    <3> DEFINE e == <<r, outcome[r]>>
    <3>1. e \in Entries /\ e \notin Range(index) /\ index' = Append(index, e)
      BY <1>1, <2>1, <2>2
    <3> HIDE DEF e
    <3>2. /\ Append(index, e) \in Seq(Entries) /\ Append(index, e) # <<>>
          /\ Range(Append(index, e)) = Range(index) \cup {e}
          /\ IsInjective(Append(index, e))
      BY <1>3, <3>1, AppendAdds
    <3> QED
      BY <3>1, <3>2 DEF e
  <2> QED
    BY <2>2, <2>3
<1> QED
  BY <1>4, <1>5

\* A step of r neither moves another request nor writes of it.
LEMMA OthersStay ==
    ASSUME AuditInv, NEW r \in Requests, RequestStep(r),
           NEW q \in Requests, q # r
    PROVE  Stands(q)' /\ Audited(q)'
<1>1. /\ pc'[q] = pc[q] /\ outcome'[q] = outcome[q] /\ answer'[q] = answer[q]
      /\ up' = up /\ (q \in effects' <=> q \in effects)
      /\ (q \in unsaid' <=> q \in unsaid)
  <2>1. /\ pc'[q] = pc[q] /\ outcome'[q] = outcome[q] /\ answer'[q] = answer[q]
    BY StepIsLocal DEF AuditInv, Typed
  <2>2. up' = up
    BY StepIsLocal
  <2>3. /\ effects' \in {effects, effects \cup {r}}
        /\ unsaid' \in {unsaid, unsaid \cup {r}}
    BY StepIsLocal
  <2> QED
    BY <2>1, <2>2, <2>3
<1>2. \A o : Said(q, o)' <=> Said(q, o)
  <2>1. \/ trail' = trail
        \/ Range(trail') = Range(trail) \cup {<<r, outcome[r]>>}
    BY StepIsLocal, WritesItsOwn
  <2> QED
    BY <2>1 DEF Said
<1>3. \A o : Indexed(q, o)' <=> Indexed(q, o)
  <2>1. \/ index' = index
        \/ Range(index') = Range(index) \cup {<<r, outcome[r]>>}
    BY StepIsLocal, WritesItsOwn
  <2> QED
    BY <2>1 DEF Indexed
<1>4. Stands(q) /\ Audited(q)
  BY DEF AuditInv
<1> QED
  BY <1>1, <1>2, <1>3, <1>4, FrameKeeps

-----------------------------------------------------------------------------
(* What a step makes of its own request.                                   *)

\* The request starts to record its outcome, or to act.
LEMMA ReceiveKeeps ==
    ASSUME AuditInv, NEW r \in Requests, Receive(r)
    PROVE  Stands(r)' /\ Audited(r)'
<1>1. /\ pc[r] = "idle" /\ Stands(r) /\ Audited(r) /\ up' = up /\ up
      /\ UNCHANGED <<trail, index, effects, unsaid>>
      /\ Phase[r] \in {"before", "after"}
  BY AuditAssumption DEF AuditInv, Receive
<1>2. /\ answer'[r] = answer[r]
      /\ \/ /\ Phase[r] = "before"
            /\ pc'[r] = "append" /\ outcome'[r] = "allowed"
         \/ Phase[r] = "after" /\ pc'[r] = "act"
  BY <1>1 DEF AuditInv, Typed, Receive, Recording, Acting
<1>3. \A o \in Outcomes : ~Said(r, o)
  BY <1>1 DEF Stands
<1>4. \A o : (Said(r, o)' <=> Said(r, o)) /\ (Indexed(r, o)' <=> Indexed(r, o))
  BY <1>1 DEF Said, Indexed
<1> QED
  BY <1>1, <1>2, <1>3, <1>4 DEF Stands, Audited, Outcomes

\* The entry is appended.
LEMMA AppendEntryKeeps ==
    ASSUME AuditInv, NEW r \in Requests, AppendEntry(r)
    PROVE  Stands(r)' /\ Audited(r)'
<1>1. /\ pc[r] = "append" /\ pc'[r] = "index" /\ Stands(r) /\ Audited(r)
      /\ UNCHANGED <<index, up, outcome, effects, answer, unsaid>>
      /\ Phase[r] \in {"before", "after"}
  BY AuditAssumption DEF AuditInv, Typed, AppendEntry
<1>2. /\ ~Said(r, outcome[r])
      /\ \A o : Said(r, o)' <=> (Said(r, o) \/ o = outcome[r])
  BY WritesItsOwn DEF Said
<1>3. \A o : Indexed(r, o)' <=> Indexed(r, o)
  BY <1>1 DEF Indexed
<1>4. ~Indexed(r, outcome[r])
  BY <1>2 DEF AuditInv, Files, Said, Indexed
<1> QED
  BY <1>1, <1>2, <1>3, <1>4 DEF Stands, Audited

\* The entry cannot be appended: the operator is told.
LEMMA AppendFailsKeeps ==
    ASSUME AuditInv, NEW r \in Requests, AppendFails(r)
    PROVE  Stands(r)' /\ Audited(r)'
<1>1. /\ pc[r] = "append" /\ Stands(r) /\ Audited(r)
      /\ pc'[r] = "over" /\ answer'[r] = "error"
      /\ unsaid' = IF outcome[r] = "failed" THEN unsaid \union {r} ELSE unsaid
      /\ UNCHANGED <<trail, index, up, effects>>
      /\ Phase[r] \in {"before", "after"}
  BY AuditAssumption DEF AuditInv, Typed, AppendFails, Answer
<1>2. \A o : (Said(r, o)' <=> Said(r, o)) /\ (Indexed(r, o)' <=> Indexed(r, o))
  BY <1>1 DEF Said, Indexed
<1> QED
  BY <1>1, <1>2 DEF Stands, Audited

\* The entry is indexed, or is not, and the request goes on.
LEMMA IndexKeeps ==
    ASSUME AuditInv, NEW r \in Requests, IndexEntry(r) \/ IndexFails(r)
    PROVE  Stands(r)' /\ Audited(r)'
<1>1. /\ pc[r] = "index" /\ Stands(r) /\ Audited(r)
      /\ UNCHANGED <<trail, up, effects, unsaid>>
      /\ AfterEntry(r) /\ Phase[r] \in {"before", "after"}
  BY AuditAssumption DEF AuditInv, IndexEntry, IndexFails, bounds
<1>2. /\ answer[r] = "none" /\ Said(r, outcome[r]) /\ up
      /\ outcome[r] = "allowed" => ~Said(r, "failed")
      /\ Phase[r] = "after" => ~Said(r, "allowed")
      /\ Phase[r] = "before" => ~Said(r, "served")
      /\ outcome[r] \in IF Phase[r] = "before" THEN {"allowed", "failed"}
                        ELSE {"served"}
  BY <1>1 DEF Stands
<1>3. \A o : Said(r, o)' <=> Said(r, o)
  BY <1>1 DEF Said
<1>4. CASE outcome[r] = "allowed"
  <2>1. pc'[r] = "act" /\ answer'[r] = answer[r] /\ Phase[r] = "before"
    BY <1>1, <1>2, <1>4 DEF AfterEntry, Acting, AuditInv, Typed
  <2> QED
    BY <1>1, <1>2, <1>3, <1>4, <2>1 DEF Stands, Audited
<1>5. CASE outcome[r] = "served"
  <2>1. pc'[r] = "over" /\ answer'[r] = "ok"
    BY <1>1, <1>5 DEF AfterEntry, Answer, AuditInv, Typed
  <2> QED
    BY <1>1, <1>2, <1>3, <1>5, <2>1 DEF Stands, Audited
<1>6. CASE outcome[r] = "failed"
  <2>1. pc'[r] = "over" /\ answer'[r] = "error"
    BY <1>1, <1>6 DEF AfterEntry, Answer, AuditInv, Typed
  <2> QED
    BY <1>1, <1>2, <1>3, <1>6, <2>1 DEF Stands, Audited
<1> QED
  BY <1>2, <1>4, <1>5, <1>6

\* The handler has returned, or thrown.
LEMMA HandlerKeeps ==
    ASSUME AuditInv, NEW r \in Requests, HandlerReturns(r) \/ HandlerThrows(r)
    PROVE  Stands(r)' /\ Audited(r)'
<1>1. /\ pc[r] = "act" /\ Stands(r) /\ Audited(r)
      /\ UNCHANGED <<trail, index, up, unsaid>>
      /\ effects' = effects \/ effects' = effects \union {r}
      /\ Phase[r] \in {"before", "after"}
  BY AuditAssumption DEF AuditInv, HandlerReturns, HandlerThrows
<1>2. \/ /\ Phase[r] = "before"
         /\ \/ pc'[r] = "over" /\ answer'[r] = "ok"
            \/ /\ pc'[r] = "append" /\ outcome'[r] = "failed"
               /\ answer'[r] = answer[r]
      \/ /\ Phase[r] = "after"
         /\ \/ /\ pc'[r] = "append" /\ outcome'[r] = "served"
               /\ answer'[r] = answer[r]
            \/ pc'[r] = "over" /\ answer'[r] = "error"
  BY <1>1
  DEF HandlerReturns, HandlerThrows, Recording, Answer, AuditInv, Typed
<1>3. \A o : Said(r, o)' <=> Said(r, o)
  BY <1>1 DEF Said
<1> QED
  BY <1>1, <1>2, <1>3 DEF Stands, Audited

-----------------------------------------------------------------------------
(* The files.                                                              *)

\* The files stay within each other, and what the index lacks is about to be
\* indexed or is missed.
LEMMA FilesStayTogether ==
    ASSUME AuditInv, NEW r \in Requests, RequestStep(r)
    PROVE  Files'
<1>1. up
  BY DEF AuditInv, Stands, Typed, RequestStep, Receive, AppendEntry, AppendFails,
         IndexEntry, IndexFails, HandlerReturns, HandlerThrows
<1>2. \A e \in Range(trail) \ Range(index) : e \in missed \/ IsPending(e)
  BY <1>1 DEF AuditInv, Files
<1>3. /\ trail' \in Seq(Entries) /\ IsInjective(trail')
      /\ index' \in Seq(Entries) /\ IsInjective(index')
      /\ Range(trail) \subseteq Range(trail')
      /\ Range(index') \subseteq Range(trail')
  <2>1. trail' = trail \/ AppendEntry(r)
    BY StepIsLocal
  <2>2. index' = index \/ IndexEntry(r)
    BY StepIsLocal
  <2>3. /\ trail' \in Seq(Entries) /\ IsInjective(trail')
        /\ Range(trail) \subseteq Range(trail')
    BY <2>1, WritesItsOwn DEF AuditInv, Files
  <2>4. /\ index' \in Seq(Entries) /\ IsInjective(index')
        /\ Range(index') \subseteq Range(trail)
    BY <2>2, WritesItsOwn DEF AuditInv, Files
  <2> QED
    BY <2>3, <2>4
<1>4. /\ missed' \subseteq Range(trail')
      /\ missed \subseteq missed'
  <2>1. missed' = missed \/ (pc[r] = "index" /\ missed' = missed \union {<<r, outcome[r]>>})
    BY DEF RequestStep, Receive, AppendEntry, AppendFails, IndexEntry,
           IndexFails, HandlerReturns, HandlerThrows
  <2>2. pc[r] = "index" => <<r, outcome[r]>> \in Range(trail)
    BY DEF AuditInv, Stands, Said
  <2> QED
    BY <1>3, <2>1, <2>2 DEF AuditInv, Files
<1>5. ASSUME NEW e \in Range(trail') \ Range(index')
      PROVE  e \in missed' \/ IsPending(e)'
  <2>1. \A q \in Requests : q # r => pc'[q] = pc[q] /\ outcome'[q] = outcome[q]
    BY StepIsLocal DEF AuditInv, Typed
  <2>2. Range(trail') = Range(trail) \/ AppendEntry(r)
    <3>1. trail' = trail \/ AppendEntry(r)
      BY StepIsLocal
    <3> QED
      BY <3>1 DEF Range
  <2>3. Range(index') = Range(index) \/ IndexEntry(r)
    <3>1. index' = index \/ IndexEntry(r)
      BY StepIsLocal
    <3> QED
      BY <3>1 DEF Range
  <2>4. CASE e \notin Range(trail)
    <3>1. AppendEntry(r) /\ e = <<r, outcome[r]>>
      BY <1>5, <2>4, <2>2, WritesItsOwn
    <3>2. pc'[r] = "index" /\ outcome'[r] = outcome[r]
      BY <3>1 DEF AppendEntry, AuditInv, Typed
    <3> QED
      BY <3>1, <3>2 DEF IsPending
  <2>5. CASE e \in Range(trail)
    <3>1. e \notin Range(index)
      BY <1>5, <2>3, WritesItsOwn
    <3>2. CASE e \in missed
      BY <1>4, <3>2
    <3>3. ASSUME NEW q \in Requests, pc[q] = "index", e = <<q, outcome[q]>>, q # r
          PROVE  IsPending(e)'
      BY <2>1, <3>3 DEF IsPending
    <3>4. CASE pc[r] = "index" /\ e = <<r, outcome[r]>>
      <4>1. IndexEntry(r) \/ IndexFails(r)
        BY <3>4 DEF RequestStep, Receive, AppendEntry, AppendFails,
                    HandlerReturns, HandlerThrows
      <4>2. ~IndexEntry(r)
        BY <1>5, <3>4, WritesItsOwn
      <4> QED
        BY <3>4, <4>1, <4>2 DEF IndexFails
    <3> QED
      BY <1>2, <2>5, <3>1, <3>2, <3>3, <3>4 DEF IsPending
  <2> QED
    BY <2>4, <2>5
<1> QED
  BY <1>3, <1>4, <1>5 DEF Files

\* Types of a request's step.
LEMMA TypesStay ==
    ASSUME AuditInv, NEW r \in Requests, RequestStep(r)
    PROVE  Typed'
<1>1. /\ pc' \in [Requests -> {"idle", "append", "index", "act", "over"}]
      /\ outcome' \in [Requests -> Outcomes \cup {"none"}]
      /\ answer' \in [Requests -> {"none", "ok", "error", "cut"}]
  BY StepIsLocal DEF AuditInv, Typed
<1>2. effects' \subseteq Requests /\ unsaid' \subseteq Requests
  BY StepIsLocal DEF AuditInv, Typed
<1>3. faults' \in 0..MaxFaults
  <2>1. faults' = faults \/ (faults < MaxFaults /\ faults' = faults + 1)
    BY DEF RequestStep, Receive, AppendEntry, AppendFails, IndexEntry,
           IndexFails, HandlerReturns, HandlerThrows, bounds
  <2> QED
    BY <2>1, AuditAssumption DEF AuditInv, Typed
<1>4. UNCHANGED <<up, restarts, drops>>
  BY StepIsLocal
<1> QED
  BY <1>1, <1>2, <1>3, <1>4 DEF AuditInv, Typed

-----------------------------------------------------------------------------
(* Death and boot.                                                         *)

\* A death ends the requests in flight; those that were to be indexed are
\* missed.
LEMMA CrashKeepsInv ==
    ASSUME AuditInv, Crash
    PROVE  AuditInv'
<1>1. /\ up /\ ~up' /\ restarts' = restarts + 1 /\ restarts < MaxRestarts
      /\ UNCHANGED <<trail, index, outcome, effects, unsaid, faults, drops>>
      /\ missed' = missed \union
             {<<r, outcome[r]>> : r \in {q \in Requests : pc[q] = "index"}}
      /\ pc' = [r \in Requests |-> IF r \in InFlight THEN "over" ELSE pc[r]]
      /\ answer' = [r \in Requests |-> IF r \in InFlight THEN "cut"
                                       ELSE answer[r]]
  BY DEF Crash
<1>2. Typed'
  <2>1. /\ pc' \in [Requests -> {"idle", "append", "index", "act", "over"}]
        /\ answer' \in [Requests -> {"none", "ok", "error", "cut"}]
    BY <1>1 DEF AuditInv, Typed
  <2>2. restarts' \in 0..MaxRestarts
    BY <1>1, AuditAssumption DEF AuditInv, Typed
  <2>3. up' \in BOOLEAN
    BY DEF Crash
  <2> QED
    BY <1>1, <2>1, <2>2, <2>3 DEF AuditInv, Typed
<1>3. Files'
  <2>1. \A e \in Range(trail) \ Range(index) : e \in missed'
    <3>1. \A e : IsPending(e) => e \in missed'
      BY <1>1 DEF IsPending
    <3> QED
      BY <1>1, <3>1 DEF AuditInv, Files
  <2>2. missed' \subseteq Range(trail)
    <3>1. \A q \in Requests : pc[q] = "index" => <<q, outcome[q]>> \in Range(trail)
      BY DEF AuditInv, Stands, Said
    <3> QED
      BY <1>1, <3>1 DEF AuditInv, Files
  <2>3. trail' = trail /\ index' = index
    BY <1>1
  <2>4. /\ trail \in Seq(Entries) /\ IsInjective(trail)
        /\ index \in Seq(Entries) /\ IsInjective(index)
        /\ Range(index) \subseteq Range(trail)
    BY DEF AuditInv, Files
  <2> QED
    BY <2>1, <2>2, <2>3, <2>4 DEF Files
<1>4. ASSUME NEW r \in Requests PROVE Stands(r)' /\ Audited(r)'
  <2>1. Stands(r) /\ Audited(r)
    BY DEF AuditInv
  <2>2. \A o : (Said(r, o)' <=> Said(r, o)) /\ (Indexed(r, o)' <=> Indexed(r, o))
    BY <1>1 DEF Said, Indexed
  <2>3. pc[r] \in {"idle", "append", "index", "act", "over"}
    BY DEF AuditInv, Typed
  <2>4. CASE r \in InFlight
    <3>1. pc'[r] = "over" /\ answer'[r] = "cut"
      BY <1>1, <2>4
    <3> QED
      BY <1>1, <2>1, <2>2, <3>1 DEF Stands, Audited
  <2>5. CASE r \notin InFlight
    <3>1. pc'[r] = pc[r] /\ answer'[r] = answer[r] /\ pc[r] \in {"idle", "over"}
      BY <1>1, <2>3, <2>5 DEF InFlight
    <3> QED
      BY <1>1, <2>1, <2>2, <3>1 DEF Stands, Audited
  <2> QED
    BY <2>4, <2>5
<1> QED
  BY <1>2, <1>3, <1>4 DEF AuditInv

\* With the server down, no request depends on what the index holds.
LEMMA IndexIsFreeWhenDown ==
    ASSUME AuditInv, ~up, NEW r \in Requests,
           UNCHANGED <<trail, pc, outcome, answer, effects, unsaid>>
    PROVE  Stands(r)' /\ Audited(r)'
<1>1. Stands(r) /\ Audited(r) /\ pc[r] \in {"idle", "over"}
  BY DEF AuditInv, Stands
<1>2. \A o : Said(r, o)' <=> Said(r, o)
  BY DEF Said
<1> QED
  BY <1>1, <1>2 DEF Stands, Audited

\* The table is recreated empty.
LEMMA DropIndexKeepsInv ==
    ASSUME AuditInv, DropIndex
    PROVE  AuditInv'
<1>1. /\ ~up /\ ~up' /\ index' = <<>>
      /\ drops < MaxDrops /\ drops' = drops + 1
      /\ UNCHANGED <<trail, up, pc, outcome, effects, answer, unsaid, missed,
                     faults, restarts>>
  BY DEF DropIndex
<1>2. Typed'
  BY <1>1, AuditAssumption DEF AuditInv, Typed
<1>3. Files'
  BY <1>1, EmptyFile DEF AuditInv, Files, Range, IsInjective
<1> QED
  BY <1>1, <1>2, <1>3, IndexIsFreeWhenDown DEF AuditInv

\* An empty table is rebuilt from the trail; any other is kept.
LEMMA BootKeepsInv ==
    ASSUME AuditInv, Boot \/ BootWithoutRebuild
    PROVE  AuditInv'
<1>1. /\ ~up /\ up'
      /\ UNCHANGED <<trail, pc, outcome, effects, answer, unsaid, restarts,
                     drops>>
      /\ faults' = faults \/ (faults < MaxFaults /\ faults' = faults + 1)
  BY DEF Boot, BootWithoutRebuild, bounds
<1>2. \/ index # <<>> /\ index' = index /\ missed' = missed
      \/ index = <<>> /\ index' = trail /\ missed' = {}
      \/ index = <<>> /\ index' = index /\ missed' = Range(trail)
  BY DEF Boot, Rebuilt, BootWithoutRebuild
<1>3. Typed'
  BY <1>1, AuditAssumption DEF AuditInv, Typed
<1>4. Files'
  <2>1. /\ trail' \in Seq(Entries) /\ IsInjective(trail')
        /\ index' \in Seq(Entries) /\ IsInjective(index')
    BY <1>1, <1>2 DEF AuditInv, Files
  <2>2. Range(trail') = Range(trail) /\ \A e : IsPending(e)' <=> IsPending(e)
    BY <1>1 DEF IsPending
  <2>3. CASE index # <<>> /\ index' = index /\ missed' = missed
    BY <2>1, <2>2, <2>3 DEF AuditInv, Files
  <2>4. CASE index' = trail /\ missed' = {}
    BY <1>1, <2>1, <2>4 DEF Files
  <2>5. CASE index' = index /\ missed' = Range(trail)
    <3>1. Range(index') \subseteq Range(trail')
      BY <1>1, <2>5 DEF AuditInv, Files
    <3> QED
      BY <2>1, <2>2, <2>5, <3>1 DEF Files
  <2> QED
    BY <1>2, <2>3, <2>4, <2>5
<1> QED
  BY <1>1, <1>3, <1>4, IndexIsFreeWhenDown DEF AuditInv

-----------------------------------------------------------------------------
(* The theorems.                                                           *)

\* Every step of a request.
LEMMA RequestKeepsInv ==
    ASSUME AuditInv, NEW r \in Requests, RequestStep(r)
    PROVE  AuditInv'
<1>1. Stands(r)' /\ Audited(r)'
  BY ReceiveKeeps, AppendEntryKeeps, AppendFailsKeeps, IndexKeeps, HandlerKeeps
  DEF RequestStep
<1> QED
  BY <1>1, OthersStay, FilesStayTogether, TypesStay DEF AuditInv

\* The invariant holds in every reachable state.
THEOREM AlwaysAudited == Spec => []AuditInv
<1>1. Init => AuditInv
  <2> SUFFICES ASSUME Init PROVE AuditInv
    OBVIOUS
  <2>1. Typed
    <3>1. up \in BOOLEAN
      BY DEF Init
    <3>2. /\ pc \in [Requests -> {"idle", "append", "index", "act", "over"}]
          /\ outcome \in [Requests -> Outcomes \cup {"none"}]
          /\ answer \in [Requests -> {"none", "ok", "error", "cut"}]
          /\ effects = {} /\ unsaid = {}
          /\ faults \in 0..MaxFaults /\ restarts \in 0..MaxRestarts
          /\ drops \in 0..MaxDrops
      BY AuditAssumption DEF Init
    <3> QED
      BY <3>1, <3>2 DEF Typed
  <2>2. Files
    BY EmptyFile DEF Init, Files
  <2>3. ASSUME NEW r \in Requests PROVE Stands(r) /\ Audited(r)
    <3>1. \A o : ~Said(r, o)
      BY EmptyFile DEF Init, Said
    <3> QED
      BY <3>1 DEF Init, Stands, Audited
  <2> QED
    BY <2>1, <2>2, <2>3 DEF AuditInv
<1>2. ASSUME AuditInv, [Next]_vars PROVE AuditInv'
  <2>1. CASE UNCHANGED vars
    <3>1. Typed'
      BY <1>2, <2>1 DEF vars, AuditInv, Typed
    <3>2. Files'
      BY <1>2, <2>1 DEF vars, AuditInv, Files, IsPending
    <3>3. ASSUME NEW r \in Requests PROVE Stands(r)' /\ Audited(r)'
      <4>1. Stands(r) /\ Audited(r)
        BY <1>2 DEF AuditInv
      <4>2. \A o : (Said(r, o)' <=> Said(r, o)) /\ (Indexed(r, o)' <=> Indexed(r, o))
        BY <2>1 DEF vars, Said, Indexed
      <4> QED
        BY <2>1, <4>1, <4>2, FrameKeeps DEF vars
    <3> QED
      BY <3>1, <3>2, <3>3 DEF AuditInv
  <2>2. CASE \E r \in Requests : RequestStep(r)
    BY <1>2, <2>2, RequestKeepsInv
  <2> QED
    BY <1>2, <2>1, <2>2, CrashKeepsInv, DropIndexKeepsInv, BootKeepsInv
    DEF Next, RequestStep
<1> QED
  BY <1>1, <1>2, PTL DEF Spec

\* Types; an entry is appended once, and the index holds only entries of the
\* trail, each once (boot/audit-index.ts, audit-rebuild.ts).
THEOREM TheIndexIsWithinTheTrail == Spec => []TypeOK
<1>1. AuditInv => TypeOK
  <2> SUFFICES ASSUME AuditInv PROVE TypeOK
    OBVIOUS
  <2>1. Range(trail) \subseteq Entries
    BY LenProperties DEF AuditInv, Files, Range
  <2>2. IndexIsWithinTrail
    BY DEF AuditInv, Files, IndexIsWithinTrail
  <2> QED
    BY <2>1, <2>2 DEF AuditInv, Typed, Files, TypeOK
<1> QED
  BY <1>1, AlwaysAudited, PTL

\* Nothing is done or shown that the trail does not name
\* (boot/human-action-audit.ts), for every set of requests and failures.
THEOREM EverythingIsAudited == Spec => []NothingGoesUnaudited
<1>1. AuditInv => NothingGoesUnaudited
  BY DEF AuditInv, Audited, Said, NothingGoesUnaudited
<1> QED
  BY <1>1, AlwaysAudited, PTL

\* A change the operator was told had failed is not left standing in the
\* trail, unless the compensation failed too (boot/human-action-audit.ts).
THEOREM EveryFailureIsCompensated == Spec => []FailuresAreCompensated
<1>1. AuditInv => FailuresAreCompensated
  BY DEF AuditInv, Audited, Said, FailuresAreCompensated
<1> QED
  BY <1>1, AlwaysAudited, PTL

\* The index of a server that is up lacks only what was missed or is about to
\* be inserted (boot/audit-index.ts).
THEOREM TheIndexLacksOnlyTheMissed == Spec => []IndexLacksOnlyTheMissed
<1>1. AuditInv => IndexLacksOnlyTheMissed
  BY DEF AuditInv, Files, IsPending, IndexLacksOnlyTheMissed
<1> QED
  BY <1>1, AlwaysAudited, PTL
=============================================================================
