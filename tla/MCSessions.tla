----------------------------- MODULE MCSessions -----------------------------
EXTENDS Sessions, TLC

CONSTANTS s1, s2, q1, q2, q3, q4

\* q1 and q2 add steps, q3 binds to the first two, q4 selects a value of the
\* first; a second session only competes for the open places.
MCSessionIds == {s1, s2}
MCRequests == {q1, q2, q3, q4}
MCSessionOf == [q \in MCRequests |-> s1]
MCBindsTo == [q \in MCRequests |->
    CASE q = q3 -> <<1, 2>> [] q = q4 -> <<1>> [] OTHER -> <<>>]

\* Two steps, the second bound to the first.
MCPair == {q1, q2}
MCPairSessionOf == [q \in MCPair |-> s1]
MCPairBindsTo == [q \in MCPair |-> IF q = q2 THEN <<1>> ELSE <<>>]

\* Two steps without bindings.
MCFree == {q1, q2}
MCFreeSessionOf == [q \in MCFree |-> s1]
MCFreeBindsTo == [q \in MCFree |-> <<>>]
=============================================================================
