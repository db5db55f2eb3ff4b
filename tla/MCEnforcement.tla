---------------------------- MODULE MCEnforcement ----------------------------
(* Small instances of Enforcement for TLC.                                 *)
EXTENDS Enforcement, TLC

CONSTANTS alpha, beta, r1, r2, r3

(* Project alpha has two roles, beta one.                                  *)
MCTags == r1 :> alpha @@ r2 :> alpha @@ r3 :> beta
MCTagsAlpha == r1 :> alpha @@ r2 :> alpha

(* The two roles of alpha begin alike: either may stand for the other.     *)
MCSymmetry == Permutations({r1, r2})

On(usd) == [budget |-> usd, enforce |-> TRUE]
MCSettings == {On(1), On(2), [budget |-> 1, enforce |-> FALSE], Absent}
MCConfig == [p \in Project |-> On(1)]

NoFaults == [k \in FaultKinds |-> 0]
MCCrashFaults ==
  [NoFaults EXCEPT !["put"] = 1, !["save"] = 1, !["load"] = 1]
MCIamFaults ==
  [NoFaults EXCEPT !["put"] = 1, !["delete"] = 1, !["map"] = 1, !["check"] = 1,
                   !["config"] = 1]
=============================================================================
