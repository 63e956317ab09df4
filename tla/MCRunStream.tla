----------------------------- MODULE MCRunStream -----------------------------
EXTENDS RunStream, TLC

CONSTANTS w1, w2

MCWatchers == {w1, w2}
MCOneWatcher == {w1}

\* Watchers are interchangeable.
MCSymmetry == Permutations(MCWatchers)
=============================================================================
