-------------------------- MODULE EnforcementProofs --------------------------
(***************************************************************************)
(* What holds of a poll's enforcement for any projects, roles, tags,       *)
(* settings, thresholds and fault budgets: a Deny is remembered, a poll is *)
(* exact, BLOCKED means denied, and an alert repeats only after a loss.    *)
(***************************************************************************)
EXTENDS Enforcement, TLAPS

(* A step that may fail keeps the counters, which only grow; a call of a   *)
(* kind that fails in it counts.                                           *)
LEMMA FailsCounts ==
  ASSUME NEW kinds \in SUBSET FaultKinds, faults \in [FaultKinds -> Nat],
         Fails(kinds)
  PROVE  /\ faults' \in [FaultKinds -> Nat]
         /\ \A k \in FaultKinds : faults'[k] = 0 => faults[k] = 0
         /\ \A k \in kinds : faults'[k] # 0
  BY DEF Fails

(* A step that does not fail leaves the counters of its kinds alone.       *)
LEMMA SucceedsCounts ==
  ASSUME NEW ok \in BOOLEAN, NEW k \in FaultKinds,
         faults \in [FaultKinds -> Nat], Succeeds(ok, k)
  PROVE  /\ faults' \in [FaultKinds -> Nat]
         /\ \A j \in FaultKinds : faults'[j] = 0 => faults[j] = 0
         /\ ~ok => faults'[k] # 0
<1> DEFINE kinds == IF ok THEN {} ELSE {k}
<1>1. kinds \in SUBSET FaultKinds /\ Fails(kinds)
  BY DEF Succeeds
<1>2. ~ok => k \in kinds
  OBVIOUS
<1> HIDE DEF kinds
<1>. QED
  BY <1>1, <1>2, FailsCounts

(* The snapshots: what is saved, and what a start begins with.             *)
LEMMA SnapshotTypes ==
  ASSUME TypeOK
  PROVE  /\ CompactSnapshot \in Snapshot
         /\ EmptySnapshot \in Snapshot
         /\ \A ok \in BOOLEAN : LoadState(ok) \in Snapshot
<1>1. CompactSnapshot \in Snapshot
  BY DEF TypeOK, CompactSnapshot, Snapshot
<1>2. EmptySnapshot \in Snapshot
  BY EnforcementBounds DEF TypeOK, EmptySnapshot, Snapshot, NoSpend, NoneFired
<1>3. ASSUME NEW ok \in BOOLEAN PROVE LoadState(ok) \in Snapshot
  BY <1>2 DEF TypeOK, LoadState
<1>. QED
  BY <1>1, <1>2, <1>3

(* Every step of the poll and of the world keeps every variable typed.     *)
LEMMA TypeStep == ASSUME TypeOK, [Next]_vars PROVE TypeOK'
<1> USE SettingsAssumption, EnforcementBounds
    DEF worldVars, trackerVars, visitVars, historyVars, NoProjects, NoMap
<1>1. CASE Midnight
  BY <1>1 DEF TypeOK, Midnight
<1>2. ASSUME NEW p \in Project, NEW s \in Settings, EditConfig(p, s)
      PROVE  TypeOK'
  BY <1>2 DEF TypeOK, EditConfig
<1>3. ASSUME NEW r \in Role, NEW p \in Project \cup {NoTag}, Retag(r, p)
      PROVE  TypeOK'
  BY <1>3 DEF TypeOK, Retag
<1>4. ASSUME NEW cfgOk \in BOOLEAN, NEW loadOk \in BOOLEAN,
             Boot(cfgOk, loadOk)
      PROVE  TypeOK'
  <2> DEFINE kinds == (IF cfgOk THEN {} ELSE {"config"})
                        \cup (IF loadOk THEN {} ELSE {"load"})
  <2>1. kinds \in SUBSET FaultKinds /\ Fails(kinds)
    BY <1>4 DEF Boot, FaultKinds
  <2> HIDE DEF kinds
  <2>2. faults' \in [FaultKinds -> Nat]
    BY <2>1, FailsCounts DEF TypeOK
  <2>3. /\ dayKey' \in Int /\ spend' \in [Project -> Nat]
        /\ fired' \in [Project -> SUBSET Thresholds] /\ blocked' \subseteq Project
    BY <1>4, SnapshotTypes DEF Boot, Snapshot
  <2>4. setbacks' \in Nat
    BY <1>4 DEF TypeOK, Boot
  <2>. QED
    BY <1>4, <2>2, <2>3, <2>4 DEF TypeOK, Boot
<1>5. ASSUME NEW S \in SUBSET Role, NEW unchecked \in SUBSET S,
             Discover(S, unchecked)
      PROVE  TypeOK'
  <2> DEFINE kinds == (IF S = Role THEN {} ELSE {"map"})
                        \cup (IF unchecked = {} THEN {} ELSE {"check"})
  <2>1. kinds \in SUBSET FaultKinds /\ Fails(kinds)
    BY <1>5 DEF Discover, FaultKinds
  <2> HIDE DEF kinds
  <2>2. faults' \in [FaultKinds -> Nat]
    BY <2>1, FailsCounts DEF TypeOK
  <2>3. known' \in [Role -> Project \cup {NoTag}]
    BY <1>5 DEF TypeOK, Discover
  <2>4. DiscoverBlocked(S \ unchecked) \subseteq Project
    BY <2>3 DEF TypeOK, DiscoverBlocked
  <2>. QED
    BY <1>5, <2>2, <2>3, <2>4 DEF TypeOK, Discover
<1>6. ASSUME NEW ok \in BOOLEAN, Persist(ok) \/ StartPoll(ok) PROVE TypeOK'
  <2>1. faults' \in [FaultKinds -> Nat]
    BY <1>6, SucceedsCounts DEF TypeOK, Persist, StartPoll, FaultKinds
  <2>2. CASE Persist(ok)
    BY <2>1, <2>2, SnapshotTypes DEF TypeOK, Persist
  <2>3. CASE StartPoll(ok)
    BY <2>1, <2>3 DEF TypeOK, StartPoll, NoSpend, NoneFired
  <2>. QED
    BY <1>6, <2>2, <2>3
<1>7. ASSUME NEW S \in SUBSET Role, BeginLiftAll(S) \/ RefreshMap(S)
      PROVE  TypeOK'
  <2>1. faults' \in [FaultKinds -> Nat] /\ known' \in [Role -> Project \cup {NoTag}]
    BY <1>7, SucceedsCounts
       DEF TypeOK, BeginLiftAll, RefreshMap, LoadMap, FaultKinds
  <2>. QED
    BY <1>7, <2>1 DEF TypeOK, BeginLiftAll, RefreshMap
<1>8. CASE FinishLiftAll \/ UseMap
  BY <1>8 DEF TypeOK, FinishLiftAll, UseMap
<1>9. ASSUME NEW total \in [Project -> 0..MaxSpend], Count(total)
      PROVE  TypeOK'
  BY <1>9 DEF TypeOK, Count, Configured
<1>10. ASSUME NEW p \in Project, Visit(p) PROVE TypeOK'
  <2>1. fired' \in [Project -> SUBSET Thresholds]
    BY <1>10 DEF TypeOK, Visit, ThresholdsToFire
  <2>2. alerts' \in [0..MaxDay -> [Project -> [Thresholds -> Nat]]]
    <3> DEFINE counts == [t \in Thresholds |->
                            IF t \in ThresholdsToFire(p)
                            THEN alerts[dayKey][p][t] + 1
                            ELSE alerts[dayKey][p][t]]
    <3>1. alerts' = [alerts EXCEPT ![dayKey][p] = counts]
      BY <1>10 DEF Visit
    <3>2. CASE dayKey \in 0..MaxDay
      <4>1. counts \in [Thresholds -> Nat]
        BY <3>2 DEF TypeOK
      <4> HIDE DEF counts
      <4>. QED
        BY <3>1, <4>1 DEF TypeOK
    <3>3. CASE dayKey \notin 0..MaxDay
      BY <3>1, <3>3 DEF TypeOK
    <3>. QED
      BY <3>2, <3>3
  <2>. QED
    BY <1>10, <2>1, <2>2 DEF TypeOK, Visit, RolesForProject
<1>11. ASSUME NEW r \in Role, NEW ok \in BOOLEAN,
              PutDeny(r, ok) \/ DeleteDeny(r, ok)
       PROVE  TypeOK'
  <2>1. faults' \in [FaultKinds -> Nat]
    BY <1>11, SucceedsCounts DEF TypeOK, PutDeny, DeleteDeny, FaultKinds
  <2>. QED
    BY <1>11, <2>1 DEF TypeOK, PutDeny, DeleteDeny
<1>12. CASE FinishBlock \/ FinishUnblock
  BY <1>12 DEF TypeOK, FinishBlock, FinishUnblock
<1>13. ASSUME ProcessEnds, stored' \in Snapshot, faults' \in [FaultKinds -> Nat]
       PROVE  TypeOK'
  BY <1>13 DEF TypeOK, ProcessEnds, NoDay, NoSpend, NoneFired
<1>14. CASE Kill
  BY <1>13, <1>14 DEF TypeOK, Kill
<1>15. ASSUME NEW ok \in BOOLEAN, Sigterm(ok) PROVE TypeOK'
  <2>1. faults' \in [FaultKinds -> Nat]
    BY <1>15, SucceedsCounts DEF TypeOK, Sigterm, FaultKinds
  <2>2. stored' \in Snapshot
    BY <1>15, SnapshotTypes DEF TypeOK, Sigterm
  <2>. QED
    BY <1>13, <1>15, <2>1, <2>2 DEF Sigterm
<1>16. CASE UNCHANGED vars
  BY <1>16 DEF TypeOK, vars
<1>. QED
  BY <1>1, <1>2, <1>3, <1>4, <1>5, <1>6, <1>7, <1>8, <1>9, <1>10, <1>11,
     <1>12, <1>14, <1>15, <1>16 DEF Next, Start, Poll, World

(* The process is down, with nothing in the state file.                    *)
LEMMA InitTyped == ASSUME Init PROVE TypeOK
<1> USE SettingsAssumption, EnforcementBounds
    DEF Init, NoDay, NoSpend, NoneFired, NoProjects, NoMap
<1>1. stored = [day |-> -1, spend |-> NoSpend, fired |-> NoneFired,
                blocked |-> {}]
  BY DEF EmptySnapshot
<1>2. alerts \in [0..MaxDay -> [Project -> [Thresholds -> Nat]]]
  OBVIOUS
<1>3. /\ today \in 0..MaxDay /\ cfgFile \in [Project -> Settings]
      /\ tag \in [Role -> Project \cup {NoTag}] /\ deny \subseteq Role
      /\ edits \in Nat /\ retags \in Nat /\ stops \in Nat /\ setbacks \in Nat
      /\ faults \in [FaultKinds -> Nat]
  OBVIOUS
<1>4. /\ cfg \in [Project -> Settings \cup {Absent}]
      /\ dayKey \in Int /\ spend \in [Project -> Nat]
      /\ fired \in [Project -> SUBSET Thresholds]
      /\ blocked \subseteq Project
      /\ known \in [Role -> Project \cup {NoTag}]
  OBVIOUS
<1>5. /\ pc = "down" /\ moved = {} /\ lost = {}
      /\ pending = {} /\ current = {} /\ queue = {} /\ denied = {}
  OBVIOUS
<1> HIDE DEF Init
<1>6. stored \in Snapshot
  BY <1>1 DEF Snapshot
<1>. QED
  BY <1>2, <1>3, <1>4, <1>5, <1>6 DEF TypeOK

(* Every state of the guard is typed, for any bounds and settings.         *)
THEOREM TypeCorrect == Spec => []TypeOK
  BY InitTyped, TypeStep, PTL DEF Spec

-----------------------------------------------------------------------------
Kinds == {"put", "delete", "map", "check"}
Seen == {"delete", "map", "check"}  \* those that hide a role or its Deny

(* The role map tells a role that has not been moved its tag, or nothing;  *)
(* with list_roles and list_role_tags healthy it tells every tag.          *)
KnownInv ==
  /\ \A r \in Role \ moved : known[r] \in {tag[r], NoTag}
  /\ Faultless(Seen) /\ pc \notin {"down", "bootMap"} =>
       \A r \in Role \ moved : known[r] = tag[r]
  /\ retags = 0 => moved = {}

(* A role under a Deny has a tag, unless it was moved.                     *)
TaggedInv == \A r \in deny \ moved : tag[r] \in Project

(* Only a visit has a current project and denied roles, and its queue and  *)
(* its denied roles are roles the map gives to that project.               *)
VisitInv ==
  /\ pc \in {"putting", "deleting"} => \E p \in Configured : current = {p}
  /\ pc \notin {"putting", "deleting"} => current = {}
  /\ pc \in {"reconcile", "putting", "deleting"} => pending \subseteq Configured
  /\ pc \in {"putting", "deleting"} => \A r \in queue : known[r] \in current
  /\ pc = "putting" =>
       /\ denied \subseteq deny
       /\ \A r \in denied : known[r] \in current

(* What is lost is a Deny; and with IAM healthy only that of a moved role. *)
LostInv == lost \subseteq deny /\ (Faultless(Kinds) => lost \subseteq moved)

(* Which Denys are accounted for in the middle of a block, an unblock and  *)
(* a lift: by blocked_projects, by the visit, by the roles left to visit,  *)
(* or by "lost" when the visit ends, since the map does not show the role. *)
RememberInv ==
  \A r \in deny \ (moved \cup lost) :
    /\ pc \in {"boot", "idle", "rollMap", "map", "count", "reconcile",
               "deleting"} => tag[r] \in blocked
    /\ pc = "putting" =>
         tag[r] \in blocked \/ (denied # {} /\ tag[r] \in current)
    /\ pc = "deleting" /\ tag[r] \in current => r \in queue \/ known[r] = NoTag
    /\ pc = "rollLift" => r \in queue \/ known[r] = NoTag

(* The projects a poll has visited are as they should be, the one it is at *)
(* has only the roles in the queue to go.                                  *)
ExactInv ==
  Faultless(Kinds) /\ pc \in {"reconcile", "putting", "deleting"} =>
    \A r \in Role \ moved :
      /\ tag[r] \in Configured \ (pending \cup current) =>
           (r \in deny <=> ShouldBlock(tag[r]))
      /\ pc = "putting" /\ tag[r] \in current =>
           ShouldBlock(tag[r]) /\ (r \in deny \/ r \in queue)
      /\ pc = "deleting" /\ tag[r] \in current =>
           ~ShouldBlock(tag[r]) /\ (r \in deny => r \in queue)

(* In a process never stopped, with no role ever moved, only the project   *)
(* whose Deny is being deleted may be blocked without one.                 *)
BlockedInv ==
  stops = 0 /\ retags = 0 =>
    /\ pc = "down" => stored.blocked = {} /\ blocked = {}
    /\ pc # "rollLift" =>
         \A p \in blocked : \/ RolesOf(p) \cap deny # {}
                            \/ pc = "deleting" /\ p \in current

(* A threshold that has not fired in memory, or in the state a restart     *)
(* would load, has alerted no more often than there were losses; no day    *)
(* has alerts before it begins for the tracker.                            *)
AlertInv ==
  /\ pc # "down" => dayKey \in 0..today
  /\ \A d \in 0..MaxDay, p \in Project, t \in Thresholds :
       /\ alerts[d][p][t] <= 1 + setbacks
       /\ d > today \/ (pc # "down" /\ d > dayKey) => alerts[d][p][t] = 0
       /\ pc # "down" /\ d = dayKey =>
            t \in fired[p] \/ alerts[d][p][t] <= setbacks
       /\ pc = "down" /\ d = today =>
            \/ stored.day = today /\ t \in stored.fired[p]
            \/ alerts[d][p][t] <= setbacks

-----------------------------------------------------------------------------
(* Failures are counted and never forgotten.                               *)
LEMMA FaultsStay ==
  ASSUME TypeOK, [Next]_vars, NEW k \in FaultKinds, faults'[k] = 0
  PROVE  faults[k] = 0
<1>1. ASSUME NEW kinds \in SUBSET FaultKinds, Fails(kinds) PROVE faults[k] = 0
  BY <1>1, FailsCounts DEF TypeOK
<1>2. ASSUME NEW ok \in BOOLEAN, NEW j \in FaultKinds, Succeeds(ok, j)
      PROVE  faults[k] = 0
  BY <1>2, SucceedsCounts DEF TypeOK
<1>3. CASE UNCHANGED faults
  BY <1>3
<1>4. ASSUME NEW cfgOk \in BOOLEAN, NEW loadOk \in BOOLEAN,
             Boot(cfgOk, loadOk)
      PROVE  faults[k] = 0
  BY <1>1, <1>4 DEF Boot, FaultKinds
<1>5. ASSUME NEW S \in SUBSET Role, NEW unchecked \in SUBSET S,
             Discover(S, unchecked)
      PROVE  faults[k] = 0
  BY <1>1, <1>5 DEF Discover, FaultKinds
<1>6. ASSUME NEW ok \in BOOLEAN, Persist(ok) \/ StartPoll(ok) \/ Sigterm(ok)
      PROVE  faults[k] = 0
  BY <1>2, <1>6 DEF Persist, StartPoll, Sigterm, FaultKinds
<1>7. ASSUME NEW S \in SUBSET Role, BeginLiftAll(S) \/ RefreshMap(S)
      PROVE  faults[k] = 0
  BY <1>2, <1>7 DEF BeginLiftAll, RefreshMap, LoadMap, FaultKinds
<1>8. ASSUME NEW r \in Role, NEW ok \in BOOLEAN,
             PutDeny(r, ok) \/ DeleteDeny(r, ok)
      PROVE  faults[k] = 0
  BY <1>2, <1>8 DEF PutDeny, DeleteDeny, FaultKinds
<1>. QED
  BY <1>3, <1>4, <1>5, <1>6, <1>7, <1>8
     DEF Next, Start, Poll, World, Midnight, EditConfig, Retag, Kill,
         FinishLiftAll, UseMap, Count, Visit, FinishBlock, FinishUnblock, vars

(* What has not failed by the end of a step had not failed before it.      *)
LEMMA FaultlessStays ==
  ASSUME TypeOK, [Next]_vars, NEW kinds \in SUBSET FaultKinds,
         Faultless(kinds)'
  PROVE  Faultless(kinds)
  BY FaultsStay DEF Faultless

(* What a step that read or changed IAM did if no such call has failed.    *)
LEMMA NothingFailed ==
  ASSUME TypeOK
  PROVE  /\ \A S \in SUBSET Role :
              LoadMap(S) /\ faults'["map"] = 0 => S = Role
         /\ \A S \in SUBSET Role : \A unchecked \in SUBSET S :
              Discover(S, unchecked) =>
                /\ faults'["map"] = 0 => S = Role
                /\ faults'["check"] = 0 => unchecked = {}
         /\ \A r \in Role, ok \in BOOLEAN :
              /\ PutDeny(r, ok) /\ faults'["put"] = 0 => ok
              /\ DeleteDeny(r, ok) /\ faults'["delete"] = 0 => ok
<1>1. ASSUME NEW S \in SUBSET Role, LoadMap(S), faults'["map"] = 0
      PROVE  S = Role
  BY <1>1, SucceedsCounts DEF TypeOK, LoadMap, FaultKinds
<1>2. ASSUME NEW S \in SUBSET Role, NEW unchecked \in SUBSET S,
             Discover(S, unchecked)
      PROVE  /\ faults'["map"] = 0 => S = Role
             /\ faults'["check"] = 0 => unchecked = {}
  <2> DEFINE kinds == (IF S = Role THEN {} ELSE {"map"})
                        \cup (IF unchecked = {} THEN {} ELSE {"check"})
  <2>1. kinds \in SUBSET FaultKinds /\ Fails(kinds)
    BY <1>2 DEF Discover, FaultKinds
  <2>2. /\ S # Role => "map" \in kinds
        /\ unchecked # {} => "check" \in kinds
    OBVIOUS
  <2> HIDE DEF kinds
  <2>. QED
    BY <2>1, <2>2, FailsCounts DEF TypeOK
<1>3. ASSUME NEW r \in Role, NEW ok \in BOOLEAN
      PROVE  /\ PutDeny(r, ok) /\ faults'["put"] = 0 => ok
             /\ DeleteDeny(r, ok) /\ faults'["delete"] = 0 => ok
  BY SucceedsCounts DEF TypeOK, PutDeny, DeleteDeny, FaultKinds
<1>. QED
  BY <1>1, <1>2, <1>3

-----------------------------------------------------------------------------
(* The role map stays what list_role_tags said, but for roles moved since. *)
LEMMA KnownStep ==
  ASSUME TypeOK, KnownInv, [Next]_vars PROVE KnownInv'
<1> USE DEF KnownInv, Seen
<1>1. Faultless(Seen)' => Faultless(Seen) /\ faults'["map"] = 0
  BY FaultlessStays DEF Faultless, FaultKinds
<1>2. CASE \/ Midnight \/ FinishLiftAll \/ UseMap \/ FinishBlock \/ FinishUnblock
           \/ \E p \in Project : Visit(p)
           \/ \E p \in Project, s \in Settings : EditConfig(p, s)
           \/ \E total \in [Project -> 0..MaxSpend] : Count(total)
           \/ UNCHANGED vars
  BY <1>1, <1>2 DEF Midnight, FinishLiftAll, UseMap, FinishBlock, FinishUnblock,
       Visit, EditConfig, Count, vars, worldVars, visitVars, historyVars
<1>3. ASSUME NEW r \in Role, NEW p \in Project \cup {NoTag}, Retag(r, p)
      PROVE  KnownInv'
  BY <1>1, <1>3 DEF TypeOK, Retag
<1>4. ASSUME NEW cfgOk \in BOOLEAN, NEW loadOk \in BOOLEAN,
             Boot(cfgOk, loadOk)
      PROVE  KnownInv'
  BY <1>1, <1>4 DEF Boot, worldVars
<1>5. ASSUME NEW S \in SUBSET Role, NEW unchecked \in SUBSET S,
             Discover(S, unchecked)
      PROVE  KnownInv'
  BY <1>1, <1>5, NothingFailed DEF TypeOK, Discover, worldVars
<1>6. ASSUME NEW ok \in BOOLEAN, Persist(ok) \/ StartPoll(ok)
      PROVE  KnownInv'
  BY <1>1, <1>6 DEF Persist, StartPoll, worldVars, historyVars
<1>7. ASSUME NEW S \in SUBSET Role, BeginLiftAll(S) \/ RefreshMap(S)
      PROVE  KnownInv'
  <2>1. LoadMap(S) /\ tag' = tag /\ retags' = retags /\ moved' \subseteq moved
    BY <1>7 DEF BeginLiftAll, RefreshMap, worldVars, historyVars
  <2>2. known' = [r \in Role |-> IF r \in S THEN tag[r] ELSE NoTag]
    BY <2>1 DEF LoadMap
  <2>3. Faultless(Seen)' => S = Role
    BY <1>1, <2>1, NothingFailed
  <2>. QED
    BY <2>1, <2>2, <2>3 DEF TypeOK
<1>8. ASSUME NEW r \in Role, NEW ok \in BOOLEAN,
             PutDeny(r, ok) \/ DeleteDeny(r, ok)
      PROVE  KnownInv'
  BY <1>1, <1>8 DEF PutDeny, DeleteDeny, worldVars, historyVars
<1>9. CASE ProcessEnds
  BY <1>9 DEF ProcessEnds, NoMap, worldVars
<1>. QED
  BY <1>2, <1>3, <1>4, <1>5, <1>6, <1>7, <1>8, <1>9
     DEF Next, Start, Poll, World, Kill, Sigterm

(* A visit begins and ends with its project and its roles.                 *)
LEMMA VisitStep ==
  ASSUME TypeOK, VisitInv, [Next]_vars PROVE VisitInv'
<1> USE DEF VisitInv, Configured
<1>1. CASE \/ Midnight \/ FinishLiftAll \/ UseMap
           \/ \E r \in Role, p \in Project \cup {NoTag} : Retag(r, p)
           \/ \E p \in Project, s \in Settings : EditConfig(p, s)
           \/ \E total \in [Project -> 0..MaxSpend] : Count(total)
           \/ UNCHANGED vars
  BY <1>1 DEF Midnight, FinishLiftAll, UseMap, Retag, EditConfig, Count, vars,
       visitVars
<1>2. ASSUME NEW cfgOk \in BOOLEAN, NEW loadOk \in BOOLEAN,
             Boot(cfgOk, loadOk)
      PROVE  VisitInv'
  BY <1>2 DEF Boot, visitVars
<1>3. ASSUME NEW S \in SUBSET Role, NEW unchecked \in SUBSET S,
             Discover(S, unchecked)
      PROVE  VisitInv'
  BY <1>3 DEF Discover, visitVars
<1>4. ASSUME NEW ok \in BOOLEAN, Persist(ok) \/ StartPoll(ok)
      PROVE  VisitInv'
  BY <1>4 DEF Persist, StartPoll, visitVars
<1>5. ASSUME NEW S \in SUBSET Role, BeginLiftAll(S) \/ RefreshMap(S)
      PROVE  VisitInv'
  BY <1>5 DEF BeginLiftAll, RefreshMap, visitVars
<1>6. ASSUME NEW p \in Project, Visit(p) PROVE VisitInv'
  BY <1>6 DEF TypeOK, Visit, RolesForProject
<1>7. ASSUME NEW r \in Role, NEW ok \in BOOLEAN, PutDeny(r, ok)
      PROVE  VisitInv'
  BY <1>7 DEF TypeOK, PutDeny
<1>8. ASSUME NEW r \in Role, NEW ok \in BOOLEAN, DeleteDeny(r, ok)
      PROVE  VisitInv'
  BY <1>8 DEF TypeOK, DeleteDeny
<1>9. CASE FinishBlock \/ FinishUnblock
  BY <1>9 DEF FinishBlock, FinishUnblock
<1>10. CASE ProcessEnds
  BY <1>10 DEF ProcessEnds
<1>. QED
  BY <1>1, <1>2, <1>3, <1>4, <1>5, <1>6, <1>7, <1>8, <1>9, <1>10
     DEF Next, Start, Poll, World, Kill, Sigterm

(* put_deny reaches tagged roles only; a role that loses its tag is moved. *)
LEMMA TaggedStep ==
  ASSUME TypeOK, KnownInv, VisitInv, TaggedInv, [Next]_vars PROVE TaggedInv'
<1> USE DEF TaggedInv
<1>1. CASE \/ Midnight \/ FinishLiftAll \/ UseMap \/ FinishBlock \/ FinishUnblock
           \/ \E p \in Project : Visit(p)
           \/ \E p \in Project, s \in Settings : EditConfig(p, s)
           \/ \E total \in [Project -> 0..MaxSpend] : Count(total)
           \/ UNCHANGED vars
  BY <1>1 DEF Midnight, FinishLiftAll, UseMap, FinishBlock, FinishUnblock,
       Visit, EditConfig, Count, vars, worldVars, historyVars
<1>2. ASSUME NEW r \in Role, NEW p \in Project \cup {NoTag}, Retag(r, p)
      PROVE  TaggedInv'
  BY <1>2 DEF TypeOK, Retag
<1>3. ASSUME NEW cfgOk \in BOOLEAN, NEW loadOk \in BOOLEAN,
             Boot(cfgOk, loadOk)
      PROVE  TaggedInv'
  BY <1>3 DEF Boot, worldVars
<1>4. ASSUME NEW S \in SUBSET Role, NEW unchecked \in SUBSET S,
             Discover(S, unchecked)
      PROVE  TaggedInv'
  BY <1>4 DEF TypeOK, Discover, worldVars
<1>5. ASSUME NEW ok \in BOOLEAN, Persist(ok) \/ StartPoll(ok)
      PROVE  TaggedInv'
  BY <1>5 DEF Persist, StartPoll, worldVars, historyVars
<1>6. ASSUME NEW S \in SUBSET Role, BeginLiftAll(S) \/ RefreshMap(S)
      PROVE  TaggedInv'
  BY <1>6 DEF BeginLiftAll, RefreshMap, worldVars, historyVars
<1>7. ASSUME NEW r \in Role, NEW ok \in BOOLEAN, PutDeny(r, ok)
      PROVE  TaggedInv'
  <2>1. known[r] \in Project
    BY <1>7 DEF TypeOK, VisitInv, PutDeny
  <2>2. r \notin moved => tag[r] \in Project
    BY <2>1, SettingsAssumption DEF KnownInv
  <2>. QED
    BY <1>7, <2>2 DEF PutDeny, worldVars, historyVars
<1>8. ASSUME NEW r \in Role, NEW ok \in BOOLEAN, DeleteDeny(r, ok)
      PROVE  TaggedInv'
  BY <1>8 DEF DeleteDeny, worldVars, historyVars
<1>9. CASE ProcessEnds
  BY <1>9 DEF ProcessEnds, worldVars
<1>. QED
  BY <1>1, <1>2, <1>3, <1>4, <1>5, <1>6, <1>7, <1>8, <1>9
     DEF Next, Start, Poll, World, Kill, Sigterm

(* Only a failure loses a Deny whose role keeps its tag.                   *)
LEMMA LostStep ==
  ASSUME TypeOK, KnownInv, TaggedInv, VisitInv, LostInv, [Next]_vars
  PROVE  LostInv'
<1>1. Faultless(Kinds)' =>
        /\ Faultless(Kinds) /\ Faultless(Seen)
        /\ \A k \in Kinds : faults'[k] = 0
  BY FaultlessStays DEF Faultless, Kinds, Seen, FaultKinds
<1> USE DEF LostInv
<1>2. ASSUME UNCHANGED <<deny, lost>>, moved \cap deny \subseteq moved' PROVE LostInv'
  BY <1>1, <1>2
<1>3. CASE \/ Midnight \/ UseMap \/ UNCHANGED vars
           \/ \E p \in Project : Visit(p)
           \/ \E p \in Project, s \in Settings : EditConfig(p, s)
           \/ \E r \in Role, p \in Project \cup {NoTag} : Retag(r, p)
           \/ \E total \in [Project -> 0..MaxSpend] : Count(total)
           \/ \E cfgOk, loadOk \in BOOLEAN : Boot(cfgOk, loadOk)
           \/ \E ok \in BOOLEAN : Persist(ok) \/ StartPoll(ok)
           \/ \E S \in SUBSET Role : BeginLiftAll(S) \/ RefreshMap(S)
           \/ ProcessEnds
  BY <1>2, <1>3 DEF Midnight, UseMap, Visit, EditConfig, Retag, Count, Boot,
       Persist, StartPoll, BeginLiftAll, RefreshMap, ProcessEnds, vars,
       historyVars
<1>4. ASSUME NEW S \in SUBSET Role, NEW unchecked \in SUBSET S,
             Discover(S, unchecked)
      PROVE  LostInv'
  <2>1. Faultless(Kinds)' => S = Role /\ unchecked = {}
    BY <1>1, <1>4, NothingFailed DEF Kinds
  <2>. QED
    BY <1>4, <2>1 DEF TypeOK, Discover
<1>5. CASE FinishLiftAll
  <2>1. Faultless(Kinds)' => \A r \in deny : known[r] = NoTag => r \in moved
    BY <1>1, <1>5, SettingsAssumption DEF TypeOK, KnownInv, TaggedInv, FinishLiftAll
  <2>. QED
    BY <1>1, <1>5, <2>1 DEF FinishLiftAll
<1>6. ASSUME NEW r \in Role, NEW ok \in BOOLEAN, PutDeny(r, ok) PROVE LostInv'
  <2>1. Faultless(Kinds)' => ok
    BY <1>1, <1>6, NothingFailed DEF Kinds
  <2>. QED
    BY <1>1, <1>6, <2>1 DEF PutDeny
<1>7. ASSUME NEW r \in Role, NEW ok \in BOOLEAN, DeleteDeny(r, ok)
      PROVE  LostInv'
  <2>1. Faultless(Kinds)' => deny' = deny \ {r}
    BY <1>1, <1>7, NothingFailed DEF Kinds, DeleteDeny
  <2>2. lost' = (lost \cup {r}) \cap deny' /\ moved' = moved
    BY <1>7 DEF DeleteDeny
  <2>. QED
    BY <1>1, <2>1, <2>2
<1>8. CASE FinishBlock
  BY <1>1, <1>8 DEF FinishBlock
<1>9. CASE FinishUnblock
  <2>1. \A p \in current : p # NoTag
    BY <1>9, SettingsAssumption DEF TypeOK, FinishUnblock
  <2>2. Faultless(Kinds)' =>
          \A r \in deny : tag[r] \in current /\ known[r] = NoTag => r \in moved
    BY <1>1, <1>9, <2>1 DEF TypeOK, KnownInv, FinishUnblock
  <2>. QED
    BY <1>1, <1>9, <2>2 DEF FinishUnblock
<1>. QED
  BY <1>3, <1>4, <1>5, <1>6, <1>7, <1>8, <1>9
     DEF Next, Start, Poll, World, Kill, Sigterm

(* Blocks, unblocks and lifts move a Deny from one account to another, and *)
(* one that leaves them all without being deleted is lost.                 *)
LEMMA RememberStep ==
  ASSUME TypeOK, KnownInv, TaggedInv, VisitInv, RememberInv, [Next]_vars
  PROVE  RememberInv'
<1> USE DEF RememberInv
<1>2. CASE \/ Midnight \/ UseMap
           \/ \E p \in Project, s \in Settings : EditConfig(p, s)
           \/ \E total \in [Project -> 0..MaxSpend] : Count(total)
           \/ UNCHANGED vars
  BY <1>2 DEF Midnight, UseMap, EditConfig, Count, vars, worldVars, visitVars,
       historyVars
<1>3. ASSUME NEW r \in Role, NEW p \in Project \cup {NoTag}, Retag(r, p)
      PROVE  RememberInv'
  BY <1>3 DEF TypeOK, Retag, visitVars
<1>4. ASSUME NEW cfgOk \in BOOLEAN, NEW loadOk \in BOOLEAN,
             Boot(cfgOk, loadOk)
      PROVE  RememberInv'
  BY <1>4 DEF Boot
<1>5. ASSUME NEW S \in SUBSET Role, NEW unchecked \in SUBSET S,
             Discover(S, unchecked)
      PROVE  RememberInv'
  <2>1. /\ known' = [r \in Role |-> IF r \in S THEN tag[r] ELSE NoTag]
        /\ tag' = tag /\ deny' = deny /\ lost' = deny \ (S \ unchecked)
        /\ moved' = {r \in moved : r \in deny /\ known'[r] = NoTag}
        /\ blocked' = blocked \cup DiscoverBlocked(S \ unchecked)
    BY <1>5 DEF Discover, worldVars
  <2>2. ASSUME NEW r \in deny \ (moved' \cup lost') PROVE tag[r] \in blocked'
    <3>1. r \in Role /\ r \in S \ unchecked /\ known'[r] = tag[r]
      BY <2>1, <2>2 DEF TypeOK
    <3>2. tag[r] # NoTag
      BY <2>1, <2>2, <3>1, SettingsAssumption DEF TaggedInv
    <3>. QED
      BY <2>1, <3>1, <3>2 DEF DiscoverBlocked
  <2>. QED
    BY <1>5, <2>1, <2>2 DEF Discover
<1>6. ASSUME NEW ok \in BOOLEAN, Persist(ok) \/ StartPoll(ok)
      PROVE  RememberInv'
  BY <1>6 DEF Persist, StartPoll, worldVars, visitVars, historyVars
<1>7. ASSUME NEW S \in SUBSET Role, BeginLiftAll(S) PROVE RememberInv'
  BY <1>7 DEF TypeOK, BeginLiftAll, worldVars, historyVars
<1>8. ASSUME NEW S \in SUBSET Role, RefreshMap(S) PROVE RememberInv'
  BY <1>8 DEF RefreshMap, worldVars
<1>9. CASE FinishLiftAll
  BY <1>9 DEF FinishLiftAll, worldVars, visitVars
<1>10. ASSUME NEW p \in Project, Visit(p) PROVE RememberInv'
  <2>1. UNCHANGED <<tag, deny, moved, lost, blocked, known>>
    BY <1>10 DEF Visit, worldVars
  <2>2. \A r \in deny \ (moved \cup lost) :
          tag[r] \in blocked /\ known[r] \in {tag[r], NoTag}
    BY <1>10 DEF TypeOK, KnownInv, Visit
  <2>. QED
    BY <1>10, <2>1, <2>2 DEF TypeOK, Visit, RolesForProject
<1>11. ASSUME NEW r \in Role, NEW ok \in BOOLEAN, PutDeny(r, ok)
       PROVE  RememberInv'
  <2>1. r \notin moved => tag[r] \in current
    BY <1>11, SettingsAssumption DEF TypeOK, KnownInv, VisitInv, PutDeny
  <2>2. /\ UNCHANGED <<tag, blocked, current, pc, moved, known>>
        /\ pc = "putting" /\ deny' \subseteq deny \cup {r} /\ lost \subseteq lost'
        /\ denied \subseteq denied'
    BY <1>11 DEF PutDeny, worldVars
  <2>3. CASE ok
    BY <1>11, <2>1, <2>2, <2>3 DEF PutDeny
  <2>4. CASE ~ok
    <3>1. current \subseteq blocked \/ deny' \ deny \subseteq lost'
      BY <1>11, <2>4 DEF PutDeny
    <3>. QED
      BY <2>1, <2>2, <3>1
  <2>. QED
    BY <2>3, <2>4
<1>12. ASSUME NEW r \in Role, NEW ok \in BOOLEAN, DeleteDeny(r, ok)
       PROVE  RememberInv'
  <2>1. /\ UNCHANGED <<tag, blocked, current, pc, moved, known>>
        /\ pc \in {"rollLift", "deleting"} /\ queue' = queue \ {r}
        /\ deny' \subseteq deny /\ lost' = (lost \cup {r}) \cap deny'
    BY <1>12 DEF DeleteDeny, worldVars
  <2>2. \A q \in deny' \ (moved' \cup lost') :
          q \in deny \ (moved \cup lost) /\ q # r
    BY <2>1
  <2>. QED
    BY <2>1, <2>2
<1>13. CASE FinishBlock \/ FinishUnblock
  BY <1>13 DEF FinishBlock, FinishUnblock, worldVars
<1>14. CASE ProcessEnds
  BY <1>14 DEF ProcessEnds
<1>. QED
  BY <1>2, <1>3, <1>4, <1>5, <1>6, <1>7, <1>8, <1>9, <1>10, <1>11, <1>12,
     <1>13, <1>14 DEF Next, Start, Poll, World, Kill, Sigterm

(* A visit leaves the roles of its project with the Deny they should have; *)
(* what it does to other roles they have been moved for.                   *)
LEMMA ExactStep ==
  ASSUME TypeOK, KnownInv, VisitInv, LostInv, RememberInv, ExactInv, [Next]_vars
  PROVE  ExactInv'
<1> SUFFICES ASSUME Faultless(Kinds)'
             PROVE  ExactInv'
  BY DEF ExactInv
<1>1. /\ Faultless(Kinds) /\ Faultless(Seen)
      /\ faults'["put"] = 0 /\ faults'["delete"] = 0
  BY FaultlessStays DEF Faultless, Kinds, Seen, FaultKinds
<1>2. pc \in {"reconcile", "putting", "deleting"} =>
        \A r \in Role \ moved : known[r] = tag[r]
  BY <1>1 DEF KnownInv
<1> USE <1>1 DEF ExactInv, Configured, ShouldBlock
<1>3. CASE \/ Midnight
           \/ \E p \in Project, s \in Settings : EditConfig(p, s)
           \/ UNCHANGED vars
  BY <1>3 DEF Midnight, EditConfig, vars, worldVars, trackerVars, visitVars,
       historyVars
<1>4. ASSUME NEW r \in Role, NEW p \in Project \cup {NoTag}, Retag(r, p)
      PROVE  ExactInv'
  BY <1>4 DEF TypeOK, Retag, trackerVars, visitVars
<1>5. ASSUME NEW total \in [Project -> 0..MaxSpend], Count(total)
      PROVE  ExactInv'
  BY <1>5 DEF VisitInv, Count
<1>6. pc' \notin {"reconcile", "putting", "deleting"} => ExactInv'
  OBVIOUS
<1>7. ASSUME NEW p \in Project, Visit(p) PROVE ExactInv'
  <2>1. /\ UNCHANGED <<tag, deny, moved, cfg, spend, blocked>>
        /\ pending' = pending \ {p} /\ current = {} /\ pc = "reconcile"
    BY <1>7 DEF Visit, VisitInv, worldVars
  <2>2. CASE ShouldBlock(p) /\ pc' = "putting"
    <3>1. current' = {p} /\ queue' = {r \in Role : known[r] = p}
      BY <1>7, <2>2 DEF Visit, RolesForProject
    <3>. QED
      BY <1>2, <2>1, <2>2, <3>1 DEF TypeOK
  <2>3. CASE ~ShouldBlock(p) /\ pc' = "deleting"
    <3>1. current' = {p} /\ queue' = {r \in Role : known[r] = p}
      BY <1>7, <2>3 DEF Visit, RolesForProject
    <3>. QED
      BY <1>2, <2>1, <2>3, <3>1 DEF TypeOK
  <2>4. CASE ~ShouldBlock(p) /\ ~NeedsUnblock(p) /\ UNCHANGED <<pc, current>>
    <3>1. \A r \in Role \ moved : tag[r] = p => r \notin deny
      BY <2>1, <2>4 DEF LostInv, RememberInv, NeedsUnblock
    <3>. QED
      BY <2>1, <2>4, <3>1
  <2>. QED
    BY <1>7, <2>2, <2>3, <2>4 DEF Visit
<1>8. ASSUME NEW r \in Role, NEW ok \in BOOLEAN, PutDeny(r, ok)
      PROVE  ExactInv'
  <2>1. deny' = deny \cup {r} /\ queue' = queue \ {r}
    BY <1>8, NothingFailed DEF PutDeny
  <2>2. r \notin moved => tag[r] \in current
    BY <1>2, <1>8 DEF VisitInv, PutDeny
  <2>. QED
    BY <1>8, <2>1, <2>2 DEF PutDeny, worldVars, trackerVars, historyVars
<1>9. ASSUME NEW r \in Role, NEW ok \in BOOLEAN, DeleteDeny(r, ok)
      PROVE  ExactInv'
  <2>1. deny' = deny \ {r} /\ queue' = queue \ {r}
    BY <1>9, NothingFailed DEF DeleteDeny
  <2>2. pc = "deleting" /\ r \notin moved => tag[r] \in current
    BY <1>2, <1>9 DEF VisitInv, DeleteDeny
  <2>. QED
    BY <1>9, <2>1, <2>2 DEF DeleteDeny, worldVars, trackerVars, historyVars
<1>10. CASE FinishBlock \/ FinishUnblock
  BY <1>10 DEF FinishBlock, FinishUnblock, worldVars, trackerVars, historyVars
<1>11. pc' \in {"reconcile", "putting", "deleting"} =>
         \/ \E total \in [Project -> 0..MaxSpend] : Count(total)
         \/ \E p \in Project : Visit(p)
         \/ \E r \in Role, ok \in BOOLEAN : PutDeny(r, ok) \/ DeleteDeny(r, ok)
         \/ FinishBlock \/ FinishUnblock \/ Midnight
         \/ \E p \in Project, s \in Settings : EditConfig(p, s)
         \/ \E r \in Role, p \in Project \cup {NoTag} : Retag(r, p)
         \/ UNCHANGED vars
  BY DEF Next, Start, Poll, World, Boot, Discover, Persist, StartPoll,
         BeginLiftAll, RefreshMap, FinishLiftAll, UseMap, Kill, Sigterm,
         ProcessEnds
<1>. QED
  BY <1>3, <1>4, <1>5, <1>6, <1>7, <1>8, <1>9, <1>10, <1>11

(* Until the first stop, and with no role moved, blocked_projects gains a  *)
(* project only after a put that succeeded or a Deny found in IAM.         *)
LEMMA BlockedStep ==
  ASSUME TypeOK, KnownInv, VisitInv, BlockedInv, [Next]_vars
  PROVE  BlockedInv'
<1> SUFFICES ASSUME stops' = 0, retags' = 0
             PROVE  BlockedInv'
  BY DEF BlockedInv
<1>1. stops = 0 /\ retags = 0 /\ ~ProcessEnds
  <2>1. ~ProcessEnds
    BY DEF TypeOK, ProcessEnds
  <2>2. ~\E r \in Role, p \in Project \cup {NoTag} : Retag(r, p)
    BY DEF TypeOK, Retag
  <2>3. UNCHANGED <<stops, retags>>
    BY <2>1, <2>2
       DEF Next, Start, Poll, World, Boot, Discover, Persist, StartPoll,
           BeginLiftAll, RefreshMap, FinishLiftAll, UseMap, Count, Visit,
           PutDeny, DeleteDeny, FinishBlock, FinishUnblock, Midnight,
           EditConfig, Kill, Sigterm, vars, worldVars
  <2>. QED
    BY <2>1, <2>3
<1>2. \A r \in Role : known[r] \in {tag[r], NoTag}
  BY <1>1 DEF KnownInv
<1> USE <1>1 DEF BlockedInv, RolesOf
<1>3. CASE \/ Midnight \/ UseMap
           \/ \E p \in Project, s \in Settings : EditConfig(p, s)
           \/ \E total \in [Project -> 0..MaxSpend] : Count(total)
           \/ UNCHANGED vars
  BY <1>3 DEF Midnight, UseMap, EditConfig, Count, vars, worldVars, visitVars
<1>4. ASSUME NEW r \in Role, NEW p \in Project \cup {NoTag}, Retag(r, p)
      PROVE  BlockedInv'
  BY <1>4 DEF TypeOK, Retag
<1>5. ASSUME NEW cfgOk \in BOOLEAN, NEW loadOk \in BOOLEAN,
             Boot(cfgOk, loadOk)
      PROVE  BlockedInv'
  <2>1. blocked' = {} /\ pc' = "bootMap"
    BY <1>5 DEF Boot, LoadState, EmptySnapshot
  <2>. QED
    BY <2>1
<1>6. ASSUME NEW S \in SUBSET Role, NEW unchecked \in SUBSET S,
             Discover(S, unchecked)
      PROVE  BlockedInv'
  <2>1. /\ UNCHANGED <<tag, deny, stored>>
        /\ known' = [r \in Role |-> IF r \in S THEN tag[r] ELSE NoTag]
        /\ pc = "bootMap" /\ pc' = "boot"
        /\ blocked' = blocked \cup DiscoverBlocked(S \ unchecked)
    BY <1>6 DEF Discover, worldVars
  <2>2. ASSUME NEW p \in DiscoverBlocked(S \ unchecked)
        PROVE  \E r \in Role : tag[r] = p /\ r \in deny
    BY <2>1, <2>2 DEF TypeOK, DiscoverBlocked
  <2>. QED
    BY <2>1, <2>2
<1>7. ASSUME NEW ok \in BOOLEAN, Persist(ok) \/ StartPoll(ok)
      PROVE  BlockedInv'
  BY <1>7 DEF Persist, StartPoll, worldVars, visitVars
<1>8. ASSUME NEW S \in SUBSET Role, BeginLiftAll(S) \/ RefreshMap(S)
      PROVE  BlockedInv'
  BY <1>8 DEF BeginLiftAll, RefreshMap, worldVars, visitVars
<1>9. CASE FinishLiftAll
  BY <1>9 DEF FinishLiftAll
<1>10. ASSUME NEW p \in Project, Visit(p) PROVE BlockedInv'
  BY <1>10 DEF Visit, worldVars
<1>11. ASSUME NEW r \in Role, NEW ok \in BOOLEAN, PutDeny(r, ok)
       PROVE  BlockedInv'
  BY <1>11 DEF PutDeny, worldVars
<1>12. ASSUME NEW r \in Role, NEW ok \in BOOLEAN, DeleteDeny(r, ok)
       PROVE  BlockedInv'
  <2>1. CASE pc = "rollLift"
    BY <1>12, <2>1 DEF DeleteDeny, worldVars
  <2>2. CASE pc = "deleting"
    <3>1. tag[r] \in current
      BY <1>2, <1>12, <2>2, SettingsAssumption DEF TypeOK, VisitInv, DeleteDeny
    <3>. QED
      BY <1>12, <2>2, <3>1 DEF DeleteDeny, worldVars
  <2>. QED
    BY <1>12, <2>1, <2>2 DEF DeleteDeny
<1>13. CASE FinishBlock
  <2>1. ASSUME denied # {}, NEW p \in current
        PROVE  \E r \in Role : tag[r] = p /\ r \in deny
    <3>1. PICK r \in denied : r \in deny /\ known[r] \in current
      BY <1>13, <2>1 DEF VisitInv, FinishBlock
    <3>2. known[r] = p /\ p \in Project
      BY <1>13, <2>1, <3>1 DEF TypeOK, VisitInv, FinishBlock
    <3>. QED
      BY <1>2, <3>1, <3>2, SettingsAssumption DEF TypeOK
  <2>. QED
    BY <1>13, <2>1 DEF FinishBlock, worldVars
<1>14. CASE FinishUnblock
  BY <1>14 DEF FinishUnblock, worldVars
<1>. QED
  BY <1>3, <1>4, <1>5, <1>6, <1>7, <1>8, <1>9, <1>10, <1>11, <1>12, <1>13,
     <1>14 DEF Next, Start, Poll, World, Kill, Sigterm

(* What has fired is known to the tracker or to the state a restart loads, *)
(* or its loss is counted.                                                 *)
LEMMA AlertStep ==
  ASSUME TypeOK, AlertInv, [Next]_vars PROVE AlertInv'
<1> USE EnforcementBounds DEF AlertInv
<1>1. /\ today \in 0..MaxDay /\ setbacks \in Nat /\ dayKey \in Int
      /\ \A d \in 0..MaxDay, p \in Project, t \in Thresholds :
           alerts[d][p][t] \in Nat
  <2>1. today \in 0..MaxDay /\ setbacks \in Nat /\ dayKey \in Int
    BY DEF TypeOK
  <2>2. ASSUME NEW d \in 0..MaxDay, NEW p \in Project
        PROVE  alerts[d][p] \in [Thresholds -> Nat]
    <3>1. alerts[d] \in [Project -> [Thresholds -> Nat]]
      BY DEF TypeOK
    <3>. QED
      BY <3>1
  <2>. QED
    BY <2>1, <2>2
<1>2. CASE \/ FinishLiftAll \/ UseMap \/ FinishBlock \/ FinishUnblock
           \/ \E p \in Project, s \in Settings : EditConfig(p, s)
           \/ \E r \in Role, p \in Project \cup {NoTag} : Retag(r, p)
           \/ \E total \in [Project -> 0..MaxSpend] : Count(total)
           \/ \E S \in SUBSET Role : BeginLiftAll(S) \/ RefreshMap(S)
           \/ \E r \in Role, ok \in BOOLEAN : PutDeny(r, ok) \/ DeleteDeny(r, ok)
           \/ UNCHANGED vars
  <2>1. /\ UNCHANGED <<today, dayKey, fired, stored, alerts, setbacks>>
        /\ pc' = "down" <=> pc = "down"
    BY <1>2 DEF FinishLiftAll, UseMap, FinishBlock, FinishUnblock, EditConfig,
         Retag, Count, BeginLiftAll, RefreshMap, PutDeny, DeleteDeny, vars,
         worldVars, trackerVars, historyVars
  <2>. QED
    BY <2>1
<1>3. CASE Midnight
  BY <1>1, <1>3 DEF Midnight, trackerVars, historyVars
<1>4. ASSUME NEW cfgOk \in BOOLEAN, NEW loadOk \in BOOLEAN,
             Boot(cfgOk, loadOk)
      PROVE  AlertInv'
  <2>1. /\ UNCHANGED <<today, alerts, stored>> /\ pc = "down" /\ pc' = "bootMap"
        /\ setbacks' \in {setbacks, setbacks + 1}
    BY <1>4 DEF Boot, worldVars
  <2>2. CASE loadOk /\ stored.day = today
    BY <1>1, <1>4, <2>1, <2>2 DEF Boot, LoadState
  <2>3. CASE ~loadOk /\ stored.day = today
    <3>1. dayKey' = today /\ fired' = NoneFired
      BY <1>4, <2>3 DEF Boot, LoadState, EmptySnapshot
    <3>2. setbacks' = IF stored.fired # NoneFired THEN setbacks + 1 ELSE setbacks
      BY <1>4, <2>3 DEF Boot
    <3>3. \A d \in 0..MaxDay, p \in Project, t \in Thresholds :
            alerts[d][p][t] <= 1 + setbacks
      OBVIOUS
    <3>4. ASSUME NEW p \in Project, NEW t \in Thresholds
          PROVE  alerts[today][p][t] <= setbacks'
      BY <1>1, <2>1, <2>3, <3>2, <3>3, <3>4 DEF NoneFired
    <3>. QED
      BY <1>1, <2>1, <3>1, <3>4
  <2>4. CASE stored.day # today
    <3>1. dayKey' = today /\ fired' = NoneFired
      BY <1>4, <2>4 DEF Boot, LoadState, EmptySnapshot
    <3>. QED
      BY <1>1, <2>1, <2>4, <3>1
  <2>. QED
    BY <2>2, <2>3, <2>4
<1>5. ASSUME NEW S \in SUBSET Role, NEW unchecked \in SUBSET S,
             Discover(S, unchecked)
      PROVE  AlertInv'
  BY <1>5 DEF Discover, worldVars, trackerVars
<1>6. ASSUME NEW ok \in BOOLEAN, Persist(ok) PROVE AlertInv'
  BY <1>6 DEF Persist, worldVars, trackerVars, historyVars
<1>7. ASSUME NEW ok \in BOOLEAN, StartPoll(ok) PROVE AlertInv'
  BY <1>1, <1>7 DEF StartPoll, worldVars, trackerVars, historyVars
<1>8. ASSUME NEW p \in Project, Visit(p) PROVE AlertInv'
  <2>1. /\ UNCHANGED <<today, dayKey, setbacks>>
        /\ pc = "reconcile" /\ pc' # "down" /\ dayKey \in 0..MaxDay
    BY <1>1, <1>8 DEF Visit, worldVars
  <2>2. \A d \in 0..MaxDay, q \in Project, t \in Thresholds :
          alerts'[d][q][t] =
            IF d = dayKey /\ q = p /\ t \in ThresholdsToFire(p)
            THEN alerts[d][q][t] + 1 ELSE alerts[d][q][t]
    <3> DEFINE counts == [t \in Thresholds |->
                            IF t \in ThresholdsToFire(p)
                            THEN alerts[dayKey][p][t] + 1
                            ELSE alerts[dayKey][p][t]]
    <3>1. alerts' = [alerts EXCEPT ![dayKey][p] = counts]
      BY <1>8 DEF Visit
    <3>2. \A t \in Thresholds :
            counts[t] = IF t \in ThresholdsToFire(p)
                        THEN alerts[dayKey][p][t] + 1 ELSE alerts[dayKey][p][t]
      OBVIOUS
    <3> HIDE DEF counts
    <3>. QED
      BY <2>1, <3>1, <3>2 DEF TypeOK
  <2>3. \A q \in Project : fired'[q] = IF q = p THEN fired[q] \cup ThresholdsToFire(p)
                                       ELSE fired[q]
    BY <1>8 DEF TypeOK, Visit
  <2>4. \A t \in ThresholdsToFire(p) : t \notin fired[p]
    BY DEF ThresholdsToFire
  <2>5. ASSUME NEW d \in 0..MaxDay, NEW q \in Project, NEW t \in Thresholds
        PROVE  /\ alerts'[d][q][t] <= 1 + setbacks
               /\ d > dayKey => alerts'[d][q][t] = 0
               /\ d = dayKey =>
                    t \in fired'[q] \/ alerts'[d][q][t] <= setbacks
    <3>1. /\ alerts[d][q][t] \in Nat /\ alerts[d][q][t] <= 1 + setbacks
          /\ d > dayKey => alerts[d][q][t] = 0
          /\ d = dayKey => t \in fired[q] \/ alerts[d][q][t] <= setbacks
      BY <1>1, <2>1
    <3>2. CASE d = dayKey /\ q = p /\ t \in ThresholdsToFire(p)
      <4>1. alerts[d][q][t] <= setbacks /\ alerts'[d][q][t] = alerts[d][q][t] + 1
        BY <2>2, <2>4, <3>1, <3>2
      <4>2. t \in fired'[q]
        BY <2>3, <3>2
      <4>. QED
        BY <1>1, <2>1, <3>1, <3>2, <4>1, <4>2
    <3>3. CASE ~(d = dayKey /\ q = p /\ t \in ThresholdsToFire(p))
      <4>1. alerts'[d][q][t] = alerts[d][q][t] /\ fired[q] \subseteq fired'[q]
        BY <2>2, <2>3, <3>3
      <4>. QED
        BY <3>1, <4>1
    <3>. QED
      BY <3>2, <3>3
  <2>. QED
    BY <1>1, <2>1, <2>5
<1>9. CASE ProcessEnds
  <2>1. /\ UNCHANGED <<today, alerts>> /\ pc # "down" /\ pc' = "down"
        /\ setbacks' = IF \/ fired = NoneFired
                          \/ stored'.day = dayKey /\ stored'.fired = fired
                       THEN setbacks ELSE setbacks + 1
    BY <1>9 DEF ProcessEnds, worldVars
  <2>2. ASSUME NEW p \in Project, NEW t \in Thresholds
        PROVE  \/ stored'.day = today /\ t \in stored'.fired[p]
               \/ alerts[today][p][t] <= setbacks'
    <3>1. CASE dayKey # today
      BY <1>1, <2>1, <3>1
    <3>2. CASE dayKey = today /\ fired = NoneFired
      BY <1>1, <2>1, <3>2 DEF NoneFired
    <3>3. CASE dayKey = today /\ fired # NoneFired
      BY <1>1, <2>1, <3>3
    <3>. QED
      BY <3>1, <3>2, <3>3
  <2>. QED
    BY <1>1, <2>1, <2>2
<1>. QED
  BY <1>2, <1>3, <1>4, <1>5, <1>6, <1>7, <1>8, <1>9
     DEF Next, Start, Poll, World, Kill, Sigterm

-----------------------------------------------------------------------------
(* The inductive invariant: what the map knows, whom a visit is at, and    *)
(* what Denys, blocked projects and alerts owe to each other.              *)
EnforcementInv ==
  /\ TypeOK /\ KnownInv /\ TaggedInv /\ VisitInv
  /\ LostInv /\ RememberInv /\ ExactInv /\ BlockedInv /\ AlertInv

(* The invariants hold of the guard in every order of its steps, its       *)
(* failures, its stops and the world's changes.                            *)
THEOREM EnforcementInvariant == Spec => []EnforcementInv
<1>1. Init => EnforcementInv
  <2> SUFFICES ASSUME Init PROVE EnforcementInv
    OBVIOUS
  <2>1. TypeOK
    BY InitTyped
  <2>2. KnownInv /\ TaggedInv /\ VisitInv /\ LostInv /\ RememberInv /\ ExactInv
    BY DEF Init, NoMap, KnownInv, TaggedInv, VisitInv, LostInv, RememberInv,
           ExactInv
  <2>3. BlockedInv
    BY DEF Init, EmptySnapshot, BlockedInv
  <2>4. AlertInv
    <3>1. pc = "down" /\ setbacks = 0
      BY DEF Init
    <3>2. \A d \in 0..MaxDay, p \in Project, t \in Thresholds :
            alerts[d][p][t] = 0
      BY DEF Init
    <3>. QED
      BY <3>1, <3>2 DEF AlertInv
  <2>. QED
    BY <2>1, <2>2, <2>3, <2>4 DEF EnforcementInv
<1>2. EnforcementInv /\ [Next]_vars => EnforcementInv'
  BY TypeStep, KnownStep, TaggedStep, VisitStep, LostStep, RememberStep,
     ExactStep, BlockedStep, AlertStep DEF EnforcementInv
<1>. QED
  BY <1>1, <1>2, PTL DEF Spec

(* A Deny is never forgotten between the projects of a poll: kills in the  *)
(* middle of a put, restarts and day rolls included, for any fault budget  *)
(* of any kind of call, but for the roles in moved and in lost.            *)
THEOREM DenysAreRemembered == Spec => []DenyIsRemembered
<1>1. EnforcementInv => DenyIsRemembered
  BY DEF EnforcementInv, RememberInv, DenyIsRemembered
<1>. QED
  BY <1>1, EnforcementInvariant, PTL

(* With IAM healthy every poll ends with exactly the Denys that config and *)
(* spend ask for, whatever it began with.                                  *)
THEOREM PollsAreExact == Spec => []PollIsExact
<1>1. EnforcementInv => PollIsExact
  BY DEF EnforcementInv, VisitInv, ExactInv, Kinds, PollIsExact
<1>. QED
  BY <1>1, EnforcementInvariant, PTL

(* Until the first stop a project is called blocked only with a role of it *)
(* under a Deny, however puts, deletes and reads of the role map fail.     *)
THEOREM BlockedIsDenied == Spec => []BlockedMeansDenied
<1>1. EnforcementInv => BlockedMeansDenied
  BY DEF EnforcementInv, BlockedInv, BlockedMeansDenied
<1>. QED
  BY <1>1, EnforcementInvariant, PTL

(* A threshold alerts once per project and day, and once more for each     *)
(* loss of what had fired.                                                 *)
THEOREM AlertsRepeatRarely == Spec => []AlertsRepeatOnlyAfterLoss
<1>1. EnforcementInv => AlertsRepeatOnlyAfterLoss
  BY DEF EnforcementInv, AlertInv, AlertsRepeatOnlyAfterLoss
<1>. QED
  BY <1>1, EnforcementInvariant, PTL
=============================================================================
