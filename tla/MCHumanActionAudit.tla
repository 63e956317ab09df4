------------------------- MODULE MCHumanActionAudit -------------------------
(* Instances of HumanActionAudit for TLC.                                  *)
EXTENDS HumanActionAudit

CONSTANTS r1, r2, r3

MCRequests == {r1, r2, r3}
MCPhase == [r \in MCRequests |-> IF r = r3 THEN "after" ELSE "before"]
=============================================================================
