--------------------------- MODULE BatchWriteProofs ---------------------------
(***************************************************************************)
(* What BatchWrite guarantees for every input, every limit and every number *)
(* of attempts and faults.  The inductive invariant says of each chunk what *)
(* has become of its items: those that do not remain are confirmed, and     *)
(* those that failed are all that remain of a chunk that has settled.       *)
(***************************************************************************)
EXTENDS BatchWrite, TLAPS

Typed ==
    /\ driver \in {"pulling", "slot", "draining", "reporting", "ok", "error"}
    /\ pulled \in 0..Chunks
    /\ pc \in [1..Chunks -> {"none", "call", "wait", "due", "settled"}]
    /\ attempt \in [1..Chunks -> 0..MaxAttempts]
    /\ remaining \in [1..Chunks -> SUBSET Items]
    /\ confirmed \subseteq Items /\ failed \subseteq Items
    /\ firstError \in BOOLEAN /\ aborted \in BOOLEAN

\* What has become of the items of chunk c.
Accounted(c) ==
    /\ confirmed \cap ItemsOf[c] = ItemsOf[c] \ remaining[c]
    /\ failed \cap ItemsOf[c] \subseteq remaining[c]
    /\ pc[c] # "settled" => failed \cap ItemsOf[c] = {}
    /\ (pc[c] = "settled" /\ ~firstError) => remaining[c] \subseteq failed

\* Chunk c is still to come, or waits for a place.
Pending(c) == c > pulled \/ (driver = "slot" /\ c = pulled)

\* What is pending has not been started; the driver leaves out no chunk it has
\* pulled, unless another has failed.
Started(c) ==
    /\ Pending(c) => pc[c] = "none"
    /\ (pc[c] = "none" /\ ~firstError) => Pending(c)

\* A chunk that may still be sent has an attempt left.
HasAttempts(c) == pc[c] \in {"none", "wait", "due"} => attempt[c] < MaxAttempts

\* What the driver knows at each of its stages.
Staged ==
    /\ driver = "slot" => pulled > 0
    /\ (driver = "draining" /\ ~firstError) => pulled = Chunks
    /\ driver \in {"reporting", "ok"} =>
           ~firstError /\ \A c \in 1..Chunks : pc[c] = "settled"
    /\ driver # "ok" => reported = {}
    /\ driver = "ok" => reported = failed

BatchInv ==
    /\ Typed /\ Staged
    /\ \A c \in 1..Chunks : remaining[c] \subseteq ItemsOf[c]
    /\ \A c \in 1..Chunks : Accounted(c) /\ Started(c) /\ HasAttempts(c)

-----------------------------------------------------------------------------
(* What a chunk does. *)

\* An attempt changes the state of its own chunk only, and no item.
LEMMA AttemptMoves ==
    ASSUME Typed, NEW c \in 1..Chunks, attempt[c] < MaxAttempts, Attempt(c)
    PROVE  /\ pc' \in [1..Chunks -> {"none", "call", "wait", "due", "settled"}]
           /\ attempt' \in [1..Chunks -> 0..MaxAttempts]
           /\ pc'[c] \in {"call", "settled"}
           /\ pc'[c] = "settled" => firstError'
           /\ \A d \in 1..Chunks :
                 d # c => pc'[d] = pc[d] /\ attempt'[d] = attempt[d]
           /\ firstError' \in BOOLEAN /\ (firstError => firstError')
           /\ aborted => pc'[c] = "settled"
<1>1. CASE aborted /\ Rejects(c) /\ UNCHANGED attempt
  BY <1>1 DEF Rejects, Typed
<1>2. CASE ~aborted
  <2>1. /\ pc' = [pc EXCEPT ![c] = "call"]
        /\ attempt' = [attempt EXCEPT ![c] = @ + 1]
        /\ firstError' = firstError
    BY <1>2 DEF Attempt
  <2>2. attempt[c] + 1 \in 0..MaxAttempts
    BY BatchAssumption DEF Typed
  <2> QED
    BY <1>2, <2>1, <2>2 DEF Typed
<1> QED
  BY <1>1, <1>2 DEF Attempt

\* Starting or retrying a chunk that has not settled keeps every account.
LEMMA AttemptKeepsAccounts ==
    ASSUME BatchInv, NEW c \in 1..Chunks, Attempt(c),
           pc[c] \in {"none", "due"},
           UNCHANGED <<remaining, confirmed, failed>>
    PROVE  \A d \in 1..Chunks : Accounted(d)' /\ HasAttempts(d)'
<1> SUFFICES ASSUME NEW d \in 1..Chunks
             PROVE  Accounted(d)' /\ HasAttempts(d)'
  OBVIOUS
<1>1. Typed /\ Accounted(d) /\ HasAttempts(d) /\ attempt[c] < MaxAttempts
  BY DEF BatchInv, HasAttempts
<1>2. CASE d = c
  <2>1. pc[d] # "settled" /\ pc'[d] \in {"call", "settled"}
        /\ (pc'[d] = "settled" => firstError')
    BY <1>1, <1>2, AttemptMoves
  <2> QED
    BY <1>1, <2>1 DEF Accounted, HasAttempts
<1>3. CASE d # c
  <2>1. pc'[d] = pc[d] /\ attempt'[d] = attempt[d]
        /\ (firstError => firstError')
    BY <1>1, <1>3, AttemptMoves
  <2> QED
    BY <1>1, <2>1 DEF Accounted, HasAttempts
<1> QED
  BY <1>2, <1>3

\* The account of a chunk another chunk leaves alone.
LEMMA OthersKeepAccounts ==
    ASSUME NEW d \in 1..Chunks, Accounted(d), HasAttempts(d),
           remaining[d] \subseteq ItemsOf[d],
           pc'[d] = pc[d], attempt'[d] = attempt[d],
           remaining'[d] = remaining[d], firstError => firstError',
           confirmed' \cap ItemsOf[d] = confirmed \cap ItemsOf[d],
           failed' \cap ItemsOf[d] = failed \cap ItemsOf[d]
    PROVE  Accounted(d)' /\ HasAttempts(d)'
BY DEF Accounted, HasAttempts

\* A chunk that rejects keeps its account: it owes nothing any more.
LEMMA RejectsKeepsInv ==
    ASSUME BatchInv, NEW c \in 1..Chunks, pc[c] \in {"call", "wait"}, Rejects(c),
           UNCHANGED <<driver, pulled, attempt, remaining, confirmed, failed,
                       reported, aborted>>
    PROVE  BatchInv'
<1>1. /\ pc' \in [1..Chunks -> {"none", "call", "wait", "due", "settled"}]
      /\ pc'[c] = "settled" /\ firstError' /\ firstError' \in BOOLEAN
      /\ \A d \in 1..Chunks : d # c => pc'[d] = pc[d]
  BY DEF Rejects, BatchInv, Typed
<1>2. Typed'
  BY <1>1 DEF BatchInv, Typed
<1>3. Staged'
  BY <1>1 DEF BatchInv, Staged
<1>4. ASSUME NEW d \in 1..Chunks
      PROVE  Accounted(d)' /\ Started(d)' /\ HasAttempts(d)'
  <2>1. Accounted(d) /\ Started(d) /\ HasAttempts(d)
    BY DEF BatchInv
  <2>2. CASE d = c
    BY <1>1, <2>1, <2>2 DEF Accounted, Started, Pending, HasAttempts
  <2>3. CASE d # c
    BY <1>1, <2>1, <2>3 DEF Accounted, Started, Pending, HasAttempts
  <2> QED
    BY <2>2, <2>3
<1> QED
  BY <1>2, <1>3, <1>4 DEF BatchInv

-----------------------------------------------------------------------------
(* Responses. *)

\* A response moves items of its chunk from remaining to confirmed.
LEMMA CallReturnsKeepsInv ==
    ASSUME BatchInv, NEW c \in 1..Chunks,
           NEW unprocessed \in SUBSET ItemsOf[c], CallReturns(c, unprocessed)
    PROVE  BatchInv'
<1>1. /\ Typed /\ Accounted(c) /\ attempt[c] \in 0..MaxAttempts
      /\ pc[c] = "call" /\ unprocessed \subseteq remaining[c]
      /\ remaining[c] \subseteq ItemsOf[c] /\ MaxAttempts \in Nat
  BY BatchAssumption DEF BatchInv, CallReturns, Typed
<1>2. /\ confirmed' = confirmed \union (remaining[c] \ unprocessed)
      /\ remaining' = [remaining EXCEPT ![c] = unprocessed]
      /\ remaining'[c] = unprocessed
      /\ UNCHANGED <<driver, pulled, attempt, reported, aborted>>
  BY <1>1 DEF CallReturns, Typed
\* The chunk waits for another attempt, gives up, or is done.
<1>3. /\ pc' \in [1..Chunks -> {"none", "call", "wait", "due", "settled"}]
      /\ \A d \in 1..Chunks : d # c => pc'[d] = pc[d]
      /\ firstError' \in BOOLEAN /\ (firstError => firstError')
      /\ \/ pc'[c] = "wait" /\ attempt[c] < MaxAttempts /\ failed' = failed
         \/ pc'[c] = "settled" /\ failed' = failed \union unprocessed
         \/ pc'[c] = "settled" /\ failed' = failed
            /\ (unprocessed = {} \/ firstError')
  <2>1. CASE unprocessed # {} /\ aborted
    BY <1>1, <2>1 DEF CallReturns, Rejects, Typed
  <2>2. CASE unprocessed = {} \/ ~aborted
    <3>1. /\ pc' = [pc EXCEPT ![c] =
                       IF unprocessed # {} /\ attempt[c] < MaxAttempts
                       THEN "wait" ELSE "settled"]
          /\ failed' = IF unprocessed # {} /\ attempt[c] = MaxAttempts
                       THEN failed \union unprocessed ELSE failed
          /\ firstError' = firstError
      BY <1>2, <2>2 DEF CallReturns
    <3>2. CASE unprocessed = {}
      BY <1>1, <3>1, <3>2 DEF Typed
    <3>3. CASE unprocessed # {} /\ attempt[c] < MaxAttempts
      BY <1>1, <3>1, <3>3 DEF Typed
    <3>4. CASE unprocessed # {} /\ attempt[c] = MaxAttempts
      BY <1>1, <3>1, <3>4 DEF Typed
    <3>5. attempt[c] < MaxAttempts \/ attempt[c] = MaxAttempts
      BY <1>1
    <3> QED
      BY <3>2, <3>3, <3>4, <3>5
  <2> QED
    BY <2>1, <2>2
<1>4. ItemsOf[c] \subseteq Items /\ failed' \subseteq failed \union unprocessed
  BY <1>3 DEF Items
<1>5. Typed'
  <2>1. remaining' \in [1..Chunks -> SUBSET Items]
    BY <1>1, <1>2, <1>4 DEF Typed
  <2>2. confirmed' \subseteq Items /\ failed' \subseteq Items
    BY <1>1, <1>2, <1>4 DEF Typed
  <2> QED
    BY <1>1, <1>2, <1>3, <2>1, <2>2 DEF Typed
<1>6. Staged'
  <2>1. driver \notin {"reporting", "ok"}
    BY <1>1 DEF BatchInv, Staged
  <2> QED
    BY <1>2, <1>3, <2>1 DEF BatchInv, Staged
<1>7. ASSUME NEW d \in 1..Chunks
      PROVE  /\ Accounted(d)' /\ Started(d)' /\ HasAttempts(d)'
             /\ remaining'[d] \subseteq ItemsOf[d]
  <2>1. Accounted(d) /\ Started(d) /\ HasAttempts(d)
        /\ remaining[d] \subseteq ItemsOf[d]
    BY DEF BatchInv
  <2>2. CASE d = c
    <3>1. confirmed' \cap ItemsOf[d] = ItemsOf[d] \ remaining'[d]
      BY <1>1, <1>2, <2>2 DEF Accounted
    <3>2. failed \cap ItemsOf[d] = {}
      BY <1>1, <2>2 DEF Accounted
    <3>3. Accounted(d)'
      BY <1>2, <1>3, <1>4, <2>2, <3>1, <3>2 DEF Accounted
    <3> QED
      BY <1>1, <1>2, <1>3, <2>1, <2>2, <3>3 DEF Started, Pending, HasAttempts
  <2>3. CASE d # c
    <3>1. ItemsOf[c] \cap ItemsOf[d] = {}
      BY <2>3, BatchAssumption
    <3>2. /\ confirmed' \cap ItemsOf[d] = confirmed \cap ItemsOf[d]
          /\ failed' \cap ItemsOf[d] = failed \cap ItemsOf[d]
      BY <1>1, <1>2, <1>3, <3>1
    <3>3. pc'[d] = pc[d] /\ attempt'[d] = attempt[d]
          /\ remaining'[d] = remaining[d]
      BY <1>1, <1>2, <1>3, <2>3 DEF Typed
    <3>4. Started(d)'
      BY <1>2, <1>3, <2>1, <3>3 DEF Started, Pending
    <3> QED
      BY <1>3, <2>1, <3>2, <3>3, <3>4, OthersKeepAccounts
  <2> QED
    BY <2>2, <2>3
<1> QED
  BY <1>5, <1>6, <1>7 DEF BatchInv

-----------------------------------------------------------------------------
(* The driver. *)

\* A chunk that is started, by the driver or after its backoff.
LEMMA AttemptKeepsInv ==
    ASSUME BatchInv, NEW c \in 1..Chunks, Attempt(c),
           pc[c] \in {"none", "due"},
           UNCHANGED <<remaining, confirmed, failed, reported, aborted>>,
           driver' \in {driver, "pulling"}, pulled' \in 0..Chunks,
           \A d \in 1..Chunks : d # c => Started(d)',
           ~Pending(c)',
           driver' = "slot" => pulled' > 0,
           driver' = driver => pulled' >= pulled,
           driver' # driver => driver \notin {"reporting", "ok"}
    PROVE  BatchInv'
<1>1. Typed /\ Staged /\ attempt[c] < MaxAttempts
  BY DEF BatchInv, HasAttempts
<1>2. /\ pc' \in [1..Chunks -> {"none", "call", "wait", "due", "settled"}]
      /\ attempt' \in [1..Chunks -> 0..MaxAttempts]
      /\ pc'[c] \in {"call", "settled"}
      /\ firstError' \in BOOLEAN /\ (firstError => firstError')
  BY <1>1, AttemptMoves
<1>3. Typed'
  BY <1>1, <1>2 DEF Typed
<1>4. Staged'
  <2>1. driver \notin {"reporting", "ok"}
    BY <1>1 DEF Staged
  <2>2. driver' = driver \/ driver' = "pulling"
    OBVIOUS
  <2>3. driver' = "draining" => driver = "draining" /\ pulled' >= pulled
    BY <2>2
  <2>4. (driver' = "draining" /\ ~firstError') => pulled' = Chunks
    BY <1>1, <1>2, <2>3, BatchAssumption DEF Staged, Typed
  <2> QED
    BY <1>1, <2>1, <2>2, <2>4 DEF Staged
<1>5. \A d \in 1..Chunks : Started(d)'
  BY <1>2 DEF Started, Pending
<1>6. \A d \in 1..Chunks : Accounted(d)' /\ HasAttempts(d)'
  BY AttemptKeepsAccounts
<1> QED
  BY <1>3, <1>4, <1>5, <1>6 DEF BatchInv

\* Pulling a chunk starts it, makes it wait, or ends the pulling.
LEMMA PullKeepsInv ==
    ASSUME BatchInv, Pull
    PROVE  BatchInv'
<1>1. /\ Typed /\ Staged /\ driver = "pulling" /\ pulled' = pulled + 1
      /\ pulled' \in 1..Chunks /\ pulled \in 0..Chunks
      /\ UNCHANGED <<reported, aborted>>
  BY BatchAssumption DEF BatchInv, Typed, Pull
<1>2. ASSUME NEW d \in 1..Chunks
      PROVE  /\ d > pulled => pc[d] = "none"
             /\ (pc[d] = "none" /\ ~firstError) => d > pulled
  BY <1>1 DEF BatchInv, Started, Pending
<1>3. CASE /\ UNCHANGED chunkVars
           /\ driver' = "slot" \/ (firstError /\ driver' = "draining")
  <2>1. Typed'
    BY <1>1, <1>3 DEF Typed, chunkVars
  <2>2. Staged'
    BY <1>1, <1>3 DEF Staged, chunkVars
  <2>3. \A d \in 1..Chunks :
           Started(d)' /\ Accounted(d)' /\ HasAttempts(d)'
    BY <1>1, <1>2, <1>3
    DEF BatchInv, Started, Pending, Accounted, HasAttempts, chunkVars
  <2> QED
    BY <1>3, <2>1, <2>2, <2>3 DEF BatchInv, chunkVars
<1>4. CASE ~firstError /\ HasPlace /\ Attempt(pulled')
           /\ UNCHANGED <<driver, remaining, confirmed, failed>>
  <2>1. pc[pulled'] = "none"
    BY <1>1, <1>2
  <2>2. ASSUME NEW d \in 1..Chunks, d # pulled' PROVE Started(d)'
    <3>1. pc'[d] = pc[d]
      BY <1>1, <1>4, <2>1, <2>2, AttemptMoves DEF BatchInv, HasAttempts
    <3> QED
      BY <1>1, <1>2, <1>4, <2>2, <3>1 DEF Started, Pending
  <2> QED
    BY <1>1, <1>4, <2>1, <2>2, AttemptKeepsInv DEF Pending
<1> QED
  BY <1>1, <1>3, <1>4 DEF Pull

\* The chunk that waited is started, even if another has failed meanwhile.
LEMMA PlaceFreesKeepsInv ==
    ASSUME BatchInv, PlaceFrees
    PROVE  BatchInv'
<1>1. /\ Typed /\ Staged /\ driver = "slot" /\ driver' = "pulling"
      /\ pulled \in 1..Chunks /\ pulled' = pulled /\ Attempt(pulled)
      /\ UNCHANGED <<remaining, confirmed, failed, reported, aborted>>
  BY BatchAssumption DEF BatchInv, Typed, Staged, PlaceFrees
<1>2. pc[pulled] = "none"
  BY <1>1 DEF BatchInv, Started, Pending
<1>3. ASSUME NEW d \in 1..Chunks, d # pulled PROVE Started(d)'
  <2>1. pc'[d] = pc[d] /\ (firstError => firstError')
    BY <1>1, <1>2, <1>3, AttemptMoves DEF BatchInv, HasAttempts
  <2>2. Started(d)
    BY DEF BatchInv
  <2> QED
    BY <1>1, <1>3, <2>1, <2>2 DEF Started, Pending
<1> QED
  BY <1>1, <1>2, <1>3, AttemptKeepsInv DEF Pending

\* A chunk whose timer has fired is sent again.
LEMMA RetryKeepsInv ==
    ASSUME BatchInv, NEW c \in 1..Chunks, Retry(c)
    PROVE  BatchInv'
<1>1. /\ Typed /\ Staged /\ pc[c] = "due" /\ Attempt(c)
      /\ UNCHANGED <<driver, pulled, remaining, confirmed, failed, reported,
                     aborted>>
  BY DEF BatchInv, Retry
<1>2. ~Pending(c)' /\ pulled \in 0..Chunks /\ pulled' \in 0..Chunks
  BY <1>1 DEF BatchInv, Typed, Started, Pending
<1>3. ASSUME NEW d \in 1..Chunks, d # c PROVE Started(d)'
  <2>1. pc'[d] = pc[d] /\ (firstError => firstError')
    BY <1>1, <1>3, AttemptMoves DEF BatchInv, HasAttempts
  <2>2. Started(d)
    BY DEF BatchInv
  <2> QED
    BY <1>1, <2>1, <2>2 DEF Started, Pending
<1> QED
  BY <1>1, <1>2, <1>3, AttemptKeepsInv DEF Staged

\* The driver's other steps touch no chunk.
LEMMA DriverKeepsInv ==
    ASSUME BatchInv,
           InputEnds \/ InputFails \/ Drained \/ Report \/ ReportFails \/ Abort
    PROVE  BatchInv'
<1>1. UNCHANGED chunkVars /\ pulled' = pulled
  BY DEF InputEnds, InputFails, Drained, Report, ReportFails, Abort
<1>2. driver' # "slot" \/ driver' = driver
  BY DEF InputEnds, InputFails, Drained, Report, ReportFails, Abort
<1>3. driver # "slot" \/ driver' = driver
  BY DEF InputEnds, InputFails, Drained, Report, ReportFails, Abort
<1>4. Typed'
  BY <1>1
  DEF BatchInv, Typed, chunkVars, InputEnds, InputFails, Drained, Report,
      ReportFails, Abort
<1>5. \A c \in 1..Chunks : /\ Accounted(c)' /\ Started(c)' /\ HasAttempts(c)'
                           /\ remaining'[c] \subseteq ItemsOf[c]
  BY <1>1, <1>2, <1>3
  DEF BatchInv, Accounted, Started, Pending, HasAttempts, chunkVars
<1>6. Staged'
  <2>1. CASE InputEnds \/ InputFails \/ Abort
    BY <1>1, <2>1 DEF BatchInv, Staged, chunkVars, InputEnds, InputFails, Abort
  <2>2. CASE Drained
    <3>1. CASE firstError
      BY <1>1, <2>2, <3>1 DEF BatchInv, Staged, chunkVars, Drained
    <3>2. CASE ~firstError
      <4>1. pulled = Chunks /\ driver = "draining"
        BY <2>2, <3>2 DEF BatchInv, Staged, Drained
      <4>2. \A c \in 1..Chunks : pc[c] = "settled"
        BY <2>2, <3>2, <4>1, BatchAssumption
        DEF BatchInv, Typed, Started, Pending, Drained, InFlight
      <4> QED
        BY <1>1, <2>2, <3>2, <4>1, <4>2
        DEF BatchInv, Staged, chunkVars, Drained
    <3> QED
      BY <3>1, <3>2
  <2>3. CASE Report \/ ReportFails
    BY <1>1, <2>3 DEF BatchInv, Staged, chunkVars, Report, ReportFails
  <2> QED
    BY <2>1, <2>2, <2>3
<1> QED
  BY <1>4, <1>5, <1>6 DEF BatchInv

\* Waiting ends.
LEMMA DelayElapsesKeepsInv ==
    ASSUME BatchInv, NEW c \in 1..Chunks, DelayElapses(c)
    PROVE  BatchInv'
<1>1. /\ Typed /\ Staged /\ pc[c] = "wait"
      /\ pc' \in [1..Chunks -> {"none", "call", "wait", "due", "settled"}]
      /\ pc'[c] = "due" /\ \A d \in 1..Chunks : d # c => pc'[d] = pc[d]
      /\ UNCHANGED <<driver, pulled, attempt, remaining, confirmed, failed,
                     reported, firstError, aborted>>
  BY DEF BatchInv, Typed, DelayElapses
<1>2. Typed' /\ Staged'
  BY <1>1 DEF Typed, Staged
<1>3. ASSUME NEW d \in 1..Chunks
      PROVE  Accounted(d)' /\ Started(d)' /\ HasAttempts(d)'
  <2>1. Accounted(d) /\ Started(d) /\ HasAttempts(d)
    BY DEF BatchInv
  <2> QED
    BY <1>1, <2>1 DEF Accounted, Started, Pending, HasAttempts
<1> QED
  BY <1>1, <1>2, <1>3 DEF BatchInv

-----------------------------------------------------------------------------
(* The theorems. *)

\* The invariant holds in every reachable state.
THEOREM AlwaysAccounted == Spec => []BatchInv
<1>1. Init => BatchInv
  <2> SUFFICES ASSUME Init PROVE BatchInv
    OBVIOUS
  <2>1. \A c \in 1..Chunks : ItemsOf[c] \subseteq Items
    BY DEF Items
  <2>2. /\ driver = "pulling" /\ pulled \in 0..Chunks /\ reported = {}
        /\ pc \in [1..Chunks -> {"none", "call", "wait", "due", "settled"}]
        /\ attempt \in [1..Chunks -> 0..MaxAttempts]
        /\ remaining \in [1..Chunks -> SUBSET Items]
        /\ confirmed \subseteq Items /\ failed \subseteq Items
    BY <2>1, BatchAssumption DEF Init
  <2>3. firstError \in BOOLEAN /\ aborted \in BOOLEAN
    BY DEF Init
  <2>4. Typed
    BY <2>2, <2>3 DEF Typed
  <2>5. Staged
    BY <2>2 DEF Staged
  <2> QED
    BY <2>4, <2>5, BatchAssumption
    DEF Init, BatchInv, Accounted, Started, Pending, HasAttempts
<1>2. ASSUME BatchInv, [Next]_vars PROVE BatchInv'
  <2>1. CASE Pull \/ PlaceFrees
    BY <1>2, <2>1, PullKeepsInv, PlaceFreesKeepsInv
  <2>2. CASE InputEnds \/ InputFails \/ Drained \/ Report \/ ReportFails \/ Abort
    BY <1>2, <2>2, DriverKeepsInv
  <2>3. ASSUME NEW c \in 1..Chunks, NEW u \in SUBSET ItemsOf[c],
               CallReturns(c, u)
        PROVE  BatchInv'
    BY <1>2, <2>3, CallReturnsKeepsInv
  <2>4. ASSUME NEW c \in 1..Chunks, CallFails(c) \/ DelayAborted(c)
        PROVE  BatchInv'
    BY <1>2, <2>4, RejectsKeepsInv DEF CallFails, DelayAborted
  <2>5. ASSUME NEW c \in 1..Chunks, DelayElapses(c) \/ Retry(c)
        PROVE  BatchInv'
    BY <1>2, <2>5, DelayElapsesKeepsInv, RetryKeepsInv
  <2>6. CASE UNCHANGED vars
    BY <1>2, <2>6
    DEF vars, BatchInv, Typed, Staged, Accounted, Started, Pending, HasAttempts
  <2> QED
    BY <1>2, <2>1, <2>2, <2>3, <2>4, <2>5, <2>6 DEF Next
<1> QED
  BY <1>1, <1>2, PTL DEF Spec

\* Every item of a run that ends well is confirmed or reported, and not both:
\* for every input, limit and number of attempts.
THEOREM NothingIsLostInBatches == Spec => []EveryItemIsAccountedFor
<1>1. BatchInv => EveryItemIsAccountedFor
  <2> SUFFICES ASSUME BatchInv, driver = "ok"
               PROVE  /\ confirmed \union reported = Items
                      /\ confirmed \cap reported = {}
    BY DEF EveryItemIsAccountedFor
  <2>1. /\ reported = failed /\ ~firstError
        /\ \A c \in 1..Chunks : pc[c] = "settled"
        /\ confirmed \subseteq Items /\ failed \subseteq Items
    BY DEF BatchInv, Staged, Typed
  <2>2. ASSUME NEW c \in 1..Chunks
        PROVE  /\ ItemsOf[c] \subseteq confirmed \union failed
               /\ ItemsOf[c] \cap confirmed \cap failed = {}
    BY <2>1 DEF BatchInv, Accounted
  <2> QED
    BY <2>1, <2>2 DEF Items
<1> QED
  BY <1>1, AlwaysAccounted, PTL

\* After an abort nothing is sent any more.
THEOREM AbortIsFinal == Spec => AbortStopsCalls
<1>1. ASSUME BatchInv, [Next]_vars, aborted, NEW c \in 1..Chunks,
             pc'[c] = "call"
      PROVE  pc[c] = "call"
  <2>1. Typed
    BY <1>1 DEF BatchInv
  <2>2. ASSUME NEW d \in 1..Chunks, Attempt(d) PROVE pc[c] = "call"
    BY <1>1, <2>1, <2>2 DEF Attempt, Rejects, Typed
  <2>3. CASE Pull
    BY <1>1, <2>1, <2>2, <2>3, BatchAssumption DEF Pull, chunkVars, Typed
  <2>4. CASE PlaceFrees
    BY <1>1, <2>1, <2>2, <2>4, BatchAssumption
    DEF PlaceFrees, Typed, Staged, BatchInv
  <2>5. CASE InputEnds \/ InputFails \/ Drained \/ Report \/ ReportFails \/ Abort
    BY <1>1, <2>5
    DEF InputEnds, InputFails, Drained, Report, ReportFails, Abort, chunkVars
  <2>6. ASSUME NEW d \in 1..Chunks, NEW u \in SUBSET ItemsOf[d],
               CallReturns(d, u)
        PROVE  pc[c] = "call"
    BY <1>1, <2>1, <2>6 DEF CallReturns, Rejects, Typed
  <2>7. ASSUME NEW d \in 1..Chunks,
               CallFails(d) \/ DelayAborted(d) \/ DelayElapses(d)
        PROVE  pc[c] = "call"
    BY <1>1, <2>1, <2>7
    DEF CallFails, DelayAborted, DelayElapses, Rejects, Typed
  <2>8. ASSUME NEW d \in 1..Chunks, Retry(d) PROVE pc[c] = "call"
    BY <2>2, <2>8 DEF Retry
  <2>9. CASE UNCHANGED vars
    BY <1>1, <2>9 DEF vars
  <2> QED
    BY <1>1, <2>3, <2>4, <2>5, <2>6, <2>7, <2>8, <2>9 DEF Next
<1>2. BatchInv /\ [Next]_vars =>
          [aborted => \A c \in 1..Chunks : pc'[c] = "call" => pc[c] = "call"]_vars
  BY <1>1
<1> QED
  BY <1>2, AlwaysAccounted, PTL DEF Spec, AbortStopsCalls
=============================================================================
