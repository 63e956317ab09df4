------------------------------ MODULE RunStream ------------------------------
(***************************************************************************)
(* One run's event stream, from the run's events to the browsers watching  *)
(* it: the ring-buffered stream of the hub (stream/event-stream.ts), the   *)
(* sink the orchestrator publishes to (runs/stream-events.ts), the SSE     *)
(* route (http/routes/run-stream.ts), the backpressure-aware writer        *)
(* (http/stream-writer.ts) and the browser's EventSource driven by         *)
(* useRunStream.ts of the web console.                                     *)
(*                                                                         *)
(* The route reads the run's row in one continuation and subscribes in a   *)
(* later one, so the run may end in between.  A connection loses frames    *)
(* two ways: the writer drops them while too much is pending, and the      *)
(* network loses what it carries when it disconnects.                      *)
(***************************************************************************)
EXTENDS Naturals, Sequences

CONSTANTS
    Watchers,     \* browsers watching this run
    BufferSize,   \* events the ring buffer retains
    MaxBacklog,   \* maxPendingBytes, counted in frames
    MaxEvents,    \* bound: events one stream publishes
    MaxDrops,     \* bound: connections the network loses
    MaxRestarts   \* bound: restarts of the server

\* The writer's cap is far above the two control frames that may have to fit
\* into one fresh response.
ASSUME StreamAssumption ==
    /\ BufferSize \in Nat \ {0}
    /\ MaxBacklog \in Nat \ {0, 1}
    /\ MaxEvents \in Nat /\ MaxDrops \in Nat /\ MaxRestarts \in Nat

VARIABLES
    \* the server
    row,        \* the run's row: "active" (queued or running) or "ended"
    stream,     \* "none" until a watcher opens it, "open", or its end reason
    highest,    \* id of the last event published on it
    draining,   \* the drain controller refuses new requests
    \* one response per watcher
    conn,       \* "none", "opening", "live" (subscribed), "finished" (end())
    route,      \* the status the handler of an opening response has read
    wire,       \* frames accepted by the writer and not yet received
    backlog,    \* pendingBytes
    gapDue,     \* gapPending: a frame was dropped since the last gap frame
    saidEnd,    \* this response carries a stream.end frame
    \* the browser
    cursor,     \* Last-Event-ID, 0 before the first event
    gapSeen,    \* a stream.gap frame arrived after the last event
    told,       \* "no", the reason of the stream.end frame, or "lost"
    \* bookkeeping of the bounds
    drops,
    restarts

serverVars == <<row, stream, highest, draining>>
writerVars == <<wire, backlog, gapDue, saidEnd>>
clientVars == <<cursor, gapSeen, told>>
bounds == <<drops, restarts>>
vars == <<row, stream, highest, draining, conn, route, wire, backlog, gapDue,
          saidEnd, cursor, gapSeen, told, drops, restarts>>

Event(n) == [kind |-> "event", id |-> n]
GapFrame == [kind |-> "gap"]
EndFrame(reason) == [kind |-> "end", reason |-> reason]

Reasons == {"completed", "draining"}
Ended == stream \in Reasons

Init ==
    /\ row = "active" /\ stream = "none" /\ highest = 0 /\ draining = FALSE
    /\ conn = [w \in Watchers |-> "none"]
    /\ route = [w \in Watchers |-> "active"]
    /\ wire = [w \in Watchers |-> <<>>]
    /\ backlog = [w \in Watchers |-> 0]
    /\ gapDue = [w \in Watchers |-> FALSE]
    /\ saidEnd = [w \in Watchers |-> FALSE]
    /\ cursor = [w \in Watchers |-> 0]
    /\ gapSeen = [w \in Watchers |-> FALSE]
    /\ told = [w \in Watchers |-> "no"]
    /\ drops = 0 /\ restarts = 0

-----------------------------------------------------------------------------
(* The writer.  A frame the socket cannot take at once counts as pending   *)
(* until the socket drains; once MaxBacklog frames are pending, frames are *)
(* dropped.                                                                *)

\* Of frames fs offered to watcher w, the first n are accepted and k of them
\* become pending.
Accepts(w, fs, n, k) ==
    /\ n <= Len(fs) /\ k <= n
    /\ backlog[w] + k <= MaxBacklog
    /\ n < Len(fs) => backlog[w] + k = MaxBacklog
    /\ n > 0 => backlog[w] < MaxBacklog

\* Every watcher w is offered the frames frames[w] in one turn.
Offer(frames) ==
    \E n \in [Watchers -> 0 .. BufferSize + 2],
       k \in [Watchers -> 0 .. MaxBacklog] :
       /\ \A w \in Watchers : Accepts(w, frames[w], n[w], k[w])
       /\ wire' = [w \in Watchers |-> wire[w] \o SubSeq(frames[w], 1, n[w])]
       /\ backlog' = [w \in Watchers |-> backlog[w] + k[w]]
       /\ gapDue' = [w \in Watchers |-> gapDue[w] \/ n[w] < Len(frames[w])]
       /\ saidEnd' = [w \in Watchers |->
              saidEnd[w] \/ \E i \in 1 .. n[w] : frames[w][i].kind = "end"]

OfferLive(fs) ==
    Offer([w \in Watchers |-> IF conn[w] = "live" THEN fs ELSE <<>>])

\* onEnd: the route's promise resolves and the response is ended.
FinishLive ==
    conn' = [w \in Watchers |->
                IF conn[w] = "live" THEN "finished" ELSE conn[w]]

\* Faulty variant: the gap frame is never written.
SocketDrainsSilently(w) ==
    /\ conn[w] = "live" /\ backlog[w] > 0
    /\ backlog' = [backlog EXCEPT ![w] = 0]
    /\ gapDue' = [gapDue EXCEPT ![w] = FALSE]
    /\ UNCHANGED <<serverVars, conn, route, wire, saidEnd, clientVars, bounds>>

\* The "drain" event of the socket; a response that was ended has no more.
SocketDrains(w) ==
    /\ conn[w] = "live" /\ backlog[w] > 0
    /\ backlog' = [backlog EXCEPT ![w] = 0]
    /\ gapDue' = [gapDue EXCEPT ![w] = FALSE]
    /\ wire' = IF gapDue[w]
               THEN [wire EXCEPT ![w] = Append(@, GapFrame)] ELSE wire
    /\ UNCHANGED <<serverVars, conn, route, saidEnd, clientVars, bounds>>

\* A heartbeat comment may become pending; it carries nothing.
Heartbeat(w) ==
    /\ conn[w] = "live" /\ backlog[w] < MaxBacklog
    /\ backlog' = [backlog EXCEPT ![w] = @ + 1]
    /\ UNCHANGED <<serverVars, conn, route, wire, gapDue, saidEnd, clientVars,
                   bounds>>

-----------------------------------------------------------------------------
(* The run: events of a run nobody watches go nowhere. *)

Publish ==
    /\ row = "active" /\ stream = "open" /\ highest < MaxEvents
    /\ highest' = highest + 1
    /\ OfferLive(<<Event(highest')>>)
    /\ UNCHANGED <<row, stream, draining, conn, route, clientVars, bounds>>

\* The outcome is committed and run.ended published in one turn, which ends
\* the stream.
RunEnds ==
    /\ row = "active"
    /\ row' = "ended"
    /\ \/ /\ stream = "open"
          /\ highest' = highest + 1
          /\ stream' = "completed"
          /\ OfferLive(<<Event(highest'), EndFrame("completed")>>)
          /\ FinishLive
       \/ stream # "open" /\ UNCHANGED <<stream, highest, writerVars, conn>>
    /\ UNCHANGED <<draining, route, clientVars, bounds>>

-----------------------------------------------------------------------------
(* The ring buffer. *)

Oldest == IF highest > BufferSize THEN highest - BufferSize + 1
          ELSE IF highest = 0 THEN 0 ELSE 1

EventsFrom(first) == [i \in 1 .. highest + 1 - first |-> Event(first + i - 1)]

\* Faulty variant: whatever is retained is replayed, however old the cursor.
ResumeWithoutGap(c) ==
    IF c >= highest THEN <<>>
    ELSE EventsFrom(IF c + 1 > Oldest THEN c + 1 ELSE Oldest)

\* resolveResumeDecision and dispatchResume for the cursor c.
Resume(c) ==
    IF c = highest THEN <<>>
    ELSE IF c > highest THEN <<GapFrame>>
    ELSE IF c = 0 THEN EventsFrom(Oldest)
    ELSE IF c < Oldest - 1 THEN <<GapFrame>>
    ELSE EventsFrom(c + 1)

-----------------------------------------------------------------------------
(* A watcher's request. *)

\* The handler reads the row and, for a run still active, opens the stream.
Connect(w) ==
    /\ conn[w] = "none" /\ told[w] = "no" /\ ~draining
    /\ conn' = [conn EXCEPT ![w] = "opening"]
    /\ route' = [route EXCEPT ![w] = row]
    /\ stream' = IF row = "active" /\ stream = "none" THEN "open" ELSE stream
    /\ UNCHANGED <<row, highest, draining, writerVars, clientVars, bounds>>

\* While the server drains, a request is answered 503, which an EventSource
\* takes for good.
Refused(w) ==
    /\ conn[w] = "none" /\ told[w] = "no" /\ draining
    /\ told' = [told EXCEPT ![w] = "lost"]
    /\ UNCHANGED <<serverVars, conn, route, writerVars, cursor, gapSeen, bounds>>

\* Faulty variant: no cursor means live-only even if the stream has ended.
ReplayLiveOnly(w) ==
    IF stream = "none" \/ (route[w] = "active" /\ cursor[w] = 0)
    THEN <<>> ELSE Resume(cursor[w])

\* subscribe without a cursor is live-only unless the stream has ended; the
\* terminal route passes 0 instead.
Replay(w) ==
    IF stream = "none" \/ (route[w] = "active" /\ cursor[w] = 0 /\ ~Ended)
    THEN <<>> ELSE Resume(cursor[w])

\* Faulty variant: a subscriber of an ended stream is not told of the end.
SubscribeQuietly(w) ==
    /\ conn[w] = "opening"
    /\ Offer([v \in Watchers |-> IF v = w THEN Replay(w) ELSE <<>>])
    /\ conn' = [conn EXCEPT ![w] =
                   IF Ended \/ route[w] = "ended" THEN "finished" ELSE "live"]
    /\ UNCHANGED <<serverVars, route, clientVars, bounds>>

\* Faulty variant: the active route does not notice that the stream ended.
SubscribeAndWait(w) ==
    /\ conn[w] = "opening"
    /\ Offer([v \in Watchers |->
                 IF v # w THEN <<>>
                 ELSE Replay(w) \o (IF Ended THEN <<EndFrame(stream)>> ELSE <<>>)])
    /\ conn' = [conn EXCEPT ![w] =
                   IF route[w] = "ended" THEN "finished" ELSE "live"]
    /\ UNCHANGED <<serverVars, route, clientVars, bounds>>

\* open(sink): replay, then the end frame of a stream that has ended.  The
\* terminal route finishes the response whatever the stream's state.
Subscribe(w) ==
    /\ conn[w] = "opening"
    /\ Offer([v \in Watchers |->
                 IF v # w THEN <<>>
                 ELSE Replay(w) \o (IF Ended THEN <<EndFrame(stream)>> ELSE <<>>)])
    /\ conn' = [conn EXCEPT ![w] =
                   IF Ended \/ route[w] = "ended" THEN "finished" ELSE "live"]
    /\ UNCHANGED <<serverVars, route, clientVars, bounds>>

-----------------------------------------------------------------------------
(* The browser. *)

\* The response of watcher w is gone, with everything it still carried.
Hangup(w) ==
    /\ conn' = [conn EXCEPT ![w] = "none"]
    /\ wire' = [wire EXCEPT ![w] = <<>>]
    /\ backlog' = [backlog EXCEPT ![w] = 0]
    /\ gapDue' = [gapDue EXCEPT ![w] = FALSE]
    /\ saidEnd' = [saidEnd EXCEPT ![w] = FALSE]

Receive(w) ==
    /\ wire[w] # <<>>
    /\ LET f == Head(wire[w]) IN
       \/ /\ f.kind = "event"
          /\ cursor' = [cursor EXCEPT ![w] = f.id]
          /\ gapSeen' = [gapSeen EXCEPT ![w] = FALSE]
          /\ wire' = [wire EXCEPT ![w] = Tail(@)]
          /\ UNCHANGED <<told, conn, backlog, gapDue, saidEnd>>
       \/ /\ f.kind = "gap"
          /\ gapSeen' = [gapSeen EXCEPT ![w] = TRUE]
          /\ wire' = [wire EXCEPT ![w] = Tail(@)]
          /\ UNCHANGED <<told, cursor, conn, backlog, gapDue, saidEnd>>
       \/ /\ f.kind = "end"
          /\ told' = [told EXCEPT ![w] = f.reason]
          /\ Hangup(w)
          /\ UNCHANGED <<cursor, gapSeen>>
    /\ UNCHANGED <<serverVars, route, bounds>>

\* The response ends without a stream.end frame: EventSource reconnects.
ResponseEnds(w) ==
    /\ conn[w] = "finished" /\ wire[w] = <<>>
    /\ Hangup(w)
    /\ UNCHANGED <<serverVars, route, clientVars, bounds>>

Disconnect(w) ==
    /\ conn[w] # "none"
    /\ drops < MaxDrops /\ drops' = drops + 1
    /\ Hangup(w)
    /\ UNCHANGED <<serverVars, route, clientVars, restarts>>

-----------------------------------------------------------------------------
(* The server's shutdown and restart. *)

\* endStreams and drain.drain() in one turn of the shutdown sequence.
Shutdown ==
    /\ ~draining /\ draining' = TRUE
    /\ \/ /\ stream = "open"
          /\ stream' = "draining"
          /\ OfferLive(<<EndFrame("draining")>>)
          /\ FinishLive
       \/ stream # "open" /\ UNCHANGED <<stream, writerVars, conn>>
    /\ UNCHANGED <<row, highest, route, clientVars, bounds>>

\* A new process has no streams, and its boot has reconciled the row.
Restart ==
    /\ restarts < MaxRestarts /\ restarts' = restarts + 1
    /\ row' = "ended" /\ stream' = "none" /\ highest' = 0 /\ draining' = FALSE
    /\ conn' = [w \in Watchers |-> "none"]
    /\ wire' = [w \in Watchers |-> <<>>]
    /\ backlog' = [w \in Watchers |-> 0]
    /\ gapDue' = [w \in Watchers |-> FALSE]
    /\ saidEnd' = [w \in Watchers |-> FALSE]
    /\ UNCHANGED <<route, clientVars, drops>>

Next ==
    \/ Publish \/ RunEnds \/ Shutdown \/ Restart
    \/ \E w \in Watchers :
          \/ Connect(w) \/ Refused(w) \/ Subscribe(w)
          \/ SocketDrains(w) \/ Heartbeat(w)
          \/ Receive(w) \/ ResponseEnds(w) \/ Disconnect(w)

Spec == Init /\ [][Next]_vars

\* Requests are served, sockets drain while the client reads, and an
\* EventSource that was not closed reconnects.  Nothing makes a run end.
Fairness ==
    \A w \in Watchers :
        /\ WF_vars(Connect(w)) /\ WF_vars(Refused(w)) /\ WF_vars(Subscribe(w))
        /\ WF_vars(SocketDrains(w))
        /\ WF_vars(Receive(w)) /\ WF_vars(ResponseEnds(w))

FairSpec == Spec /\ Fairness

-----------------------------------------------------------------------------
(* Properties *)

Frames == [kind : {"event"}, id : 1 .. MaxEvents + 1]
          \cup {GapFrame} \cup {EndFrame(r) : r \in Reasons}

\* No watcher waits on a stream that will never end: a response stays open
\* only while its run may still publish, even when the run ends between the
\* handler's reading of the row and the subscription.
LiveWatchersHaveALiveRun ==
    \A w \in Watchers : conn[w] = "live" => stream = "open" /\ row = "active"

\* Every variable keeps its type, and no watcher waits for nothing.
TypeOK ==
    /\ row \in {"active", "ended"}
    /\ stream \in {"none", "open"} \cup Reasons
    /\ highest \in 0 .. MaxEvents + 1 /\ draining \in BOOLEAN
    /\ conn \in [Watchers -> {"none", "opening", "live", "finished"}]
    /\ route \in [Watchers -> {"active", "ended"}]
    /\ wire \in [Watchers -> Seq(Frames)]
    /\ backlog \in [Watchers -> 0 .. MaxBacklog]
    /\ gapDue \in [Watchers -> BOOLEAN] /\ saidEnd \in [Watchers -> BOOLEAN]
    /\ cursor \in [Watchers -> 0 .. MaxEvents + 1]
    /\ gapSeen \in [Watchers -> BOOLEAN]
    /\ told \in [Watchers -> {"no", "lost"} \cup Reasons]
    /\ drops \in 0 .. MaxDrops /\ restarts \in 0 .. MaxRestarts
    /\ LiveWatchersHaveALiveRun

\* No event is lost silently: across drops, disconnects and resumptions a
\* watcher that has seen one event sees its successor next, or a stream.gap
\* frame in between, and never an older one again.
NoSilentLoss ==
    [][\A w \in Watchers : cursor'[w] # cursor[w] =>
          \/ cursor[w] = 0
          \/ cursor'[w] = cursor[w] + 1
          \/ gapSeen[w] /\ cursor'[w] > cursor[w]]_vars

\* A watcher to whom an end frame says that the run completed has the run's
\* last event, or was shown a gap behind the last event it has: no end frame
\* overtakes an event dropped or lost.  With NoSilentLoss, it has seen every
\* event since its cursor (since its first one, if it joined without) or a gap.
CompletedMeansComplete ==
    stream = "completed" =>
        \A w \in Watchers :
            told[w] = "completed" => cursor[w] = highest \/ gapSeen[w]

\* Every watcher of a stream whose run has ended is told so, however often
\* frames are dropped and connections lost, while the process lives.
WatchersAreTold ==
    \A w \in Watchers :
        stream = "completed" ~> told[w] # "no" \/ stream = "none"

\* A live watcher that lost frames to backpressure is told of the gap.
DropsAreAnnounced ==
    \A w \in Watchers :
        conn[w] = "live" /\ gapDue[w] ~> gapSeen[w] \/ conn[w] # "live"

\* Both routes write a stream.end frame before the response ends.
EndFramePrecedesEnd ==
    \A w \in Watchers : conn[w] = "finished" /\ Ended => saidEnd[w]

\* A response that dropped nothing tells the watcher why it ended.
CompleteResponsesSayWhy ==
    \A w \in Watchers : conn[w] = "finished" /\ ~gapDue[w] => saidEnd[w]
=============================================================================
