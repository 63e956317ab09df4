---------------------------- MODULE AppendOnlyLog ----------------------------
(***************************************************************************)
(* What the append-only stream promises: each writer owns an ordered log   *)
(* that only grows at its end, a write is acknowledged only once its entry *)
(* is in the log, a write that failed leaves nothing, and a reading hands  *)
(* over what a log holds up to some entry, all of it if it completes.      *)
(* Segments, rotation, seals, torn lines and restarts do not appear.       *)
(***************************************************************************)
EXTENDS Naturals, SequencesExt

CONSTANTS Writers, MaxWrites

VARIABLES
    log,           \* for each writer, the numbers of the writes on disk
    acknowledged,  \* for each writer, the writes that resolved
    read           \* what a reading begun now would hand over, and whether it
                   \* would complete or throw

Init ==
    /\ log = [w \in Writers |-> <<>>]
    /\ acknowledged = [w \in Writers |-> {}]

\* Write n of w reaches the log, behind every earlier write of w.
Record(w, n) ==
    /\ \A i \in 1..Len(log[w]) : log[w][i] < n
    /\ \A m \in acknowledged[w] : m < n
    /\ log' = [log EXCEPT ![w] = Append(@, n)]
    /\ UNCHANGED acknowledged

Acknowledge(w, n) ==
    /\ n \notin acknowledged[w]
    /\ \E i \in 1..Len(log[w]) : log[w][i] = n
    /\ acknowledged' = [acknowledged EXCEPT ![w] = @ \union {n}]
    /\ UNCHANGED log

Next == \E w \in Writers, n \in 1..MaxWrites : Record(w, n) \/ Acknowledge(w, n)

\* A reading hands over what the log of w begins with, all of it if it completes.
ReadIsTrue(w) ==
    /\ IsPrefix(read.entries[w], log[w])
    /\ read.complete => read.entries[w] = log[w]

Spec ==
    /\ Init
    /\ [][Next]_<<log, acknowledged>>
    /\ [](\A w \in Writers : ReadIsTrue(w))
=============================================================================
