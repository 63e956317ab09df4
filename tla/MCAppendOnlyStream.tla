------------------------- MODULE MCAppendOnlyStream -------------------------
(* Instances of AppendOnlyStream for TLC.                                  *)
EXTENDS AppendOnlyStream

CONSTANTS w1, w2

OneWriter == {w1}
TwoWriters == {w1, w2}

\* Nothing tells the writers apart, in AppendOnlyStream or in AppendOnlyLog,
\* and no property checked with this symmetry is a liveness property.
WriterSymmetry == Permutations(TwoWriters)
=============================================================================
