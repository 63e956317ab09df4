-------------------------- MODULE MCRunOrchestrator --------------------------
EXTENDS RunOrchestrator, TLC

CONSTANTS r1, r2, r3, r4, r5, a, b

\* Four requests for script a and one for b: a contends with itself for its
\* per-script slots and with b for the global ones.  Two stranded rows and a
\* full queue are as many as the pump lists, and a run is left to be refused.
MCRuns == {r1, r2, r3, r4, r5}
MCScripts == {a, b}
MCScriptOf == r4 :> b @@ [r \in {r1, r2, r3, r5} |-> a]

\* Runs of the same script are interchangeable.
MCSymmetry == Permutations({r1, r2, r3, r5})

\* A smaller instance for the temporal properties.
MCFewRuns == {r1, r2, r4}
MCFewScriptOf == r4 :> b @@ [r \in {r1, r2} |-> a]
=============================================================================
