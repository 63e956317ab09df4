------------------------- MODULE MCCheckpointedScan -------------------------
(* Instances of CheckpointedScan for TLC.                                  *)
EXTENDS CheckpointedScan

\* Two segments; one has an empty page, the other a page of two items, and
\* either may be the one that writes a checkpoint first.
TwoSegments == <<<<1, 0, 1, 1>>, <<2, 1>>>>

\* The smallest table whose segments can interleave on a page.
SmallTable == <<<<1>>, <<2>>>>

SmallTableWithMore == <<<<1, 1>>, <<1, 1>>>>
=============================================================================
