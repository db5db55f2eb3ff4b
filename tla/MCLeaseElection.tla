--------------------------- MODULE MCLeaseElection ---------------------------
(* Small instances of LeaseElection for TLC.                               *)
EXTENDS LeaseElection, TLC

CONSTANTS r1, r2, r3

(* The clock of the first replica is one tick ahead.                       *)
MCAhead == [r \in Replica |-> IF r = r1 THEN 1 ELSE 0]
=============================================================================
