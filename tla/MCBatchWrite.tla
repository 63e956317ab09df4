----------------------------- MODULE MCBatchWrite -----------------------------
(* Three chunks, of which the first has two items, two in flight. *)
EXTENDS BatchWrite

MCItemsOf == <<{"a1", "a2"}, {"b1", "b2"}, {"c1"}>>
=============================================================================
