----------------------------- MODULE MCLogIngest -----------------------------
(* Small instances of LogIngest for TLC.                                   *)
EXTENDS LogIngest, TLC

CONSTANTS e1, e2, e3

(* Two events a fetch apart from each other, and one further away than the *)
(* overlap; the last falls on the next day (days of six ticks).            *)
MCTsMidnight == e1 :> 2 @@ e2 :> 3 @@ e3 :> 5

(* Three events of one day, one after the other.                           *)
MCTsOneDay == e1 :> 2 @@ e2 :> 3 @@ e3 :> 4
=============================================================================
