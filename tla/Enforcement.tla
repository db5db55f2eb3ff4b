----------------------------- MODULE Enforcement -----------------------------
(***************************************************************************)
(* The enforcing half of a budget-guard poll: config hot reload, the day   *)
(* roll that lifts every managed Deny, threshold alerts, and               *)
(* reconcile_enforcement's put and delete of the inline Deny role by role, *)
(* with IAM, config and state-file failures, kills, SIGTERM and restarts.  *)
(*                                                                         *)
(* Spend enters as numbers that grow during a day (module LogIngest says   *)
(* how they come about).  Leadership is held throughout: the checks of     *)
(* still_leader_fn are left out.                                           *)
(***************************************************************************)
EXTENDS Integers, FiniteSets

CONSTANTS
  Project, Role,
  Thresholds,   \* alert_thresholds, in percent
  Settings,     \* what config.yaml may say of a project, with Absent
  Absent,       \* a project config.yaml does not list
  FirstConfig,  \* config.yaml at the beginning
  FirstTags,    \* the project tags of the roles at the beginning
  NoTag,        \* the tag of a role without one
  MaxSpend,     \* bound: spend of a project in a day
  MaxDay,       \* bound: the last UTC day
  MaxEdits,     \* bound: edits of config.yaml and changes of a role's tag
  MaxStops,     \* bound: kills and SIGTERMs
  MaxFaults     \* bound: MaxFaults[k], failures of kind k

FaultKinds == {"put", "delete", "map", "check", "config", "save", "load"}

ASSUME SettingsAssumption ==
  /\ NoTag \notin Project /\ FirstTags \in [Role -> Project \cup {NoTag}]
  /\ Thresholds \subseteq Nat
  /\ \A s \in Settings \ {Absent} : s \in [budget : Nat, enforce : BOOLEAN]
  /\ FirstConfig \in [Project -> Settings]

ASSUME EnforcementBounds ==
  /\ MaxSpend \in Nat /\ MaxDay \in Nat /\ MaxEdits \in Nat /\ MaxStops \in Nat
  /\ MaxFaults \in [FaultKinds -> Nat]

VARIABLES
  today,    \* the UTC day
  cfgFile,  \* config.yaml on disk
  tag,      \* the project tag of each role in IAM
  deny,     \* the roles that carry BudgetGuardDenyBedrock in IAM
  stored,   \* the state file
  edits, retags, stops, faults,  \* counters under the bounds
  pc,       \* where run_loop is
  cfg,      \* the last good config
  dayKey, spend, fired,  \* the tracker
  blocked,  \* blocked_projects
  known,    \* the cached role map: each role's project, or no tag
  pending,  \* projects reconcile_enforcement has still to visit
  current,  \* the project it is at (as a set: none outside the visit)
  queue,    \* roles the running block, unblock or lift has still to visit
  denied,   \* roles block_project_roles has denied so far
  alerts,   \* history: ALERT lines for each day, project and threshold
  setbacks, \* history: ends and starts that lost fired thresholds
  moved,    \* history: roles retagged since the map was read, or under a
            \* Deny that neither a day roll nor a start has visited since
  lost      \* history: roles under a Deny that a call without an answer,
            \* or a role map or a discovery without the role, left behind

worldVars   == <<today, cfgFile, tag, edits, retags>>
trackerVars == <<dayKey, spend, fired>>
visitVars   == <<pending, current, queue, denied>>
historyVars == <<alerts, setbacks, moved, lost>>
vars == <<worldVars, deny, stored, stops, faults, pc, cfg, trackerVars,
          blocked, known, visitVars, historyVars>>

NoDay     == -1
NoSpend   == [p \in Project |-> 0]
NoneFired == [p \in Project |-> {}]
NoProjects == [p \in Project |-> Absent]
NoMap == [r \in Role |-> NoTag]

(* A step in which calls of these kinds fail; a step whose call may fail.  *)
Fails(kinds) ==
  /\ \A k \in kinds : faults[k] < MaxFaults[k]
  /\ faults' = [k \in FaultKinds |->
                  IF k \in kinds THEN faults[k] + 1 ELSE faults[k]]
Succeeds(ok, k) == Fails(IF ok THEN {} ELSE {k})

RolesOf(p) == {r \in Role : tag[r] = p}
RolesForProject(p) == {r \in Role : known[r] = p}
Configured == {p \in Project : cfg[p] # Absent}

(* Mutant: a project that is blocked already is left out.                  *)
ShouldBlock_Once(p) ==
  /\ p \notin blocked
  /\ cfg[p].enforce /\ cfg[p].budget > 0 /\ spend[p] >= cfg[p].budget

ShouldBlock(p) ==
  cfg[p].enforce /\ cfg[p].budget > 0 /\ spend[p] >= cfg[p].budget

(* Mutants: only enforce: false lifts; only what is tracked is lifted.     *)
NeedsUnblock_OffOnly(p) == ~cfg[p].enforce
NeedsUnblock_Tracked(p) == p \in blocked

(* Of the projects not to block: enforce: false always, others if tracked. *)
NeedsUnblock(p) == ~cfg[p].enforce \/ p \in blocked

(* SpendTracker.thresholds_to_fire *)
ThresholdsToFire(p) ==
  {t \in Thresholds \ fired[p] :
     cfg[p].budget > 0 /\ spend[p] * 100 >= t * cfg[p].budget}

Snapshot == [day : Int, spend : [Project -> Nat],
             fired : [Project -> SUBSET Thresholds], blocked : SUBSET Project]
CompactSnapshot_NotBlocked ==  \* mutant
  [day |-> dayKey, spend |-> spend, fired |-> fired]
CompactSnapshot ==
  [day |-> dayKey, spend |-> spend, fired |-> fired, blocked |-> blocked]
EmptySnapshot ==
  [day |-> today, spend |-> NoSpend, fired |-> NoneFired, blocked |-> {}]

(* Mutant: the fired thresholds are not restored.                          *)
LoadState_NotFired(ok) ==
  [(IF ok /\ stored.day = today THEN stored ELSE EmptySnapshot)
     EXCEPT !.fired = NoneFired]

(* StateStore.load: a wrong day or a failed read is the empty snapshot.    *)
LoadState(ok) == IF ok /\ stored.day = today THEN stored ELSE EmptySnapshot

-----------------------------------------------------------------------------
Init ==
  /\ today = 0 /\ cfgFile = FirstConfig /\ tag = FirstTags /\ deny = {}
  /\ stored = [EmptySnapshot EXCEPT !.day = NoDay]
  /\ edits = 0 /\ retags = 0 /\ stops = 0
  /\ faults = [k \in FaultKinds |-> 0]
  /\ pc = "down" /\ cfg = NoProjects
  /\ dayKey = NoDay /\ spend = NoSpend /\ fired = NoneFired
  /\ blocked = {} /\ known = NoMap
  /\ pending = {} /\ current = {} /\ queue = {} /\ denied = {}
  /\ alerts =
       [d \in 0..MaxDay |-> [p \in Project |-> [t \in Thresholds |-> 0]]]
  /\ setbacks = 0 /\ moved = {} /\ lost = {}

(* The world: midnight UTC, and an operator who edits config.yaml and tags.*)
Midnight ==
  /\ today < MaxDay /\ today' = today + 1
  /\ UNCHANGED <<cfgFile, tag, edits, retags, deny, stored, stops, faults, pc,
                 cfg, trackerVars, blocked, known, visitVars, historyVars>>

EditConfig(p, s) ==
  /\ edits + retags < MaxEdits /\ edits' = edits + 1
  /\ cfgFile[p] # s
  /\ cfgFile' = [cfgFile EXCEPT ![p] = s]
  /\ UNCHANGED <<today, tag, retags, deny, stored, stops, faults, pc, cfg,
                 trackerVars, blocked, known, visitVars, historyVars>>

Retag(r, p) ==
  /\ edits + retags < MaxEdits /\ retags' = retags + 1
  /\ tag[r] # p
  /\ tag' = [tag EXCEPT ![r] = p]
  /\ moved' = moved \cup {r}
  /\ UNCHANGED <<today, cfgFile, edits, deny, stored, stops, faults, pc, cfg,
                 trackerVars, blocked, known, visitVars, alerts, setbacks, lost>>

-----------------------------------------------------------------------------
(* A start: config, then state, before the role map is read.               *)
Boot(cfgOk, loadOk) ==
  /\ pc = "down"
  /\ Fails((IF cfgOk THEN {} ELSE {"config"})
             \cup (IF loadOk THEN {} ELSE {"load"}))
  /\ cfg' = IF cfgOk THEN cfgFile ELSE NoProjects
  /\ LET s == LoadState(loadOk)
     IN  /\ dayKey' = s.day /\ spend' = s.spend
         /\ fired' = s.fired /\ blocked' = s.blocked
  /\ setbacks' = IF ~loadOk /\ stored.day = today /\ stored.fired # NoneFired
                 THEN setbacks + 1 ELSE setbacks
  /\ pc' = "bootMap"
  /\ UNCHANGED <<worldVars, deny, stored, stops, known, visitVars, alerts,
                 moved, lost>>

(* load_role_project_map: a list_roles that fails gives {}, a failed       *)
(* list_role_tags leaves that role out; S is what was read.                *)
LoadMap(S) ==
  /\ Succeeds(S = Role, "map")
  /\ known' = [r \in Role |-> IF r \in S THEN tag[r] ELSE NoTag]

DiscoverBlocked_None(roles) == {}  \* mutant
DiscoverBlocked(roles) == {known'[r] : r \in roles \cap deny} \ {NoTag}

(* discover_blocked_projects merges the Denys found in IAM.  Of a role     *)
(* whose check fails role_has_deny says that it has none.                  *)
Discover(S, unchecked) ==
  /\ pc = "bootMap"
  /\ known' = [r \in Role |-> IF r \in S THEN tag[r] ELSE NoTag]
  /\ Fails((IF S = Role THEN {} ELSE {"map"})
             \cup (IF unchecked = {} THEN {} ELSE {"check"}))
  /\ blocked' = blocked \cup DiscoverBlocked(S \ unchecked)
  /\ moved' = {r \in moved : r \in deny /\ known'[r] = NoTag}
  /\ lost' = deny \ (S \ unchecked)
  /\ pc' = "boot"
  /\ UNCHANGED <<worldVars, deny, stored, stops, cfg, trackerVars, visitVars,
                 alerts, setbacks>>

(* _persist, at the end of the start and of each poll.                     *)
Persist(ok) ==
  /\ pc = "boot" \/ (pc = "reconcile" /\ pending = {})
  /\ Succeeds(ok, "save")
  /\ stored' = IF ok THEN CompactSnapshot ELSE stored
  /\ pc' = "idle"
  /\ UNCHANGED <<worldVars, deny, stops, cfg, trackerVars, blocked, known,
                 visitVars, historyVars>>

-----------------------------------------------------------------------------
(* The head of a poll: reload the config or keep the last good one, and    *)
(* maybe_roll_day.                                                         *)
StartPoll(ok) ==
  /\ pc = "idle"
  /\ Succeeds(ok, "config")
  /\ cfg' = IF ok THEN cfgFile ELSE cfg
  /\ IF dayKey # today
     THEN /\ dayKey' = today /\ spend' = NoSpend /\ fired' = NoneFired
          /\ pc' = "rollMap"
     ELSE UNCHANGED trackerVars /\ pc' = "map"
  /\ UNCHANGED <<worldVars, deny, stored, stops, blocked, known, visitVars,
                 historyVars>>

(* The roll reads the role map anew and lifts the Deny of every known role.*)
BeginLiftAll(S) ==
  /\ pc = "rollMap"
  /\ LoadMap(S) /\ queue' = {r \in Role : known'[r] # NoTag}
  /\ pc' = "rollLift"
  /\ UNCHANGED <<worldVars, deny, stored, stops, cfg, trackerVars, blocked,
                 pending, current, denied, historyVars>>

FinishLiftAll ==
  /\ pc = "rollLift" /\ queue = {}
  /\ blocked' = {}
  /\ moved' = {r \in moved : known[r] # tag[r] \/ r \in deny}
  /\ lost' = lost \cup {r \in deny : known[r] = NoTag}
  /\ pc' = "map"
  /\ UNCHANGED <<worldVars, deny, stored, stops, faults, cfg, trackerVars,
                 known, visitVars, alerts, setbacks>>

(* RoleMapCache.get: the cached map, or a new one once the TTL has passed. *)
UseMap ==
  /\ pc = "map" /\ pc' = "count"
  /\ UNCHANGED <<worldVars, deny, stored, stops, faults, cfg, trackerVars,
                 blocked, known, visitVars, historyVars>>

RefreshMap(S) ==
  /\ pc = "map" /\ pc' = "count"
  /\ LoadMap(S) /\ moved' = moved \cap deny
  /\ UNCHANGED <<worldVars, deny, stored, stops, cfg, trackerVars, blocked,
                 visitVars, alerts, setbacks, lost>>

(* process_events adds the spend of this poll's events, possibly none.     *)
Count(total) ==
  /\ pc = "count"
  /\ \A p \in Project : spend[p] <= total[p]
  /\ spend' = total
  /\ pending' = Configured
  /\ pc' = "reconcile"
  /\ UNCHANGED <<worldVars, deny, stored, stops, faults, cfg, dayKey, fired,
                 blocked, known, current, queue, denied, historyVars>>

-----------------------------------------------------------------------------
(* reconcile_enforcement's turn for a project: alert the thresholds newly  *)
(* crossed, then block, unblock, or leave alone.                           *)
Visit(p) ==
  /\ pc = "reconcile" /\ p \in pending
  /\ fired' = [fired EXCEPT ![p] = @ \cup ThresholdsToFire(p)]
  /\ alerts' = [alerts EXCEPT ![dayKey][p] =
                  [t \in Thresholds |->
                     IF t \in ThresholdsToFire(p) THEN @[t] + 1 ELSE @[t]]]
  /\ pending' = pending \ {p}
  /\ \/ /\ ShouldBlock(p)
        /\ pc' = "putting"
        /\ current' = {p} /\ queue' = RolesForProject(p) /\ denied' = {}
     \/ /\ ~ShouldBlock(p) /\ NeedsUnblock(p)
        /\ pc' = "deleting"
        /\ current' = {p} /\ queue' = RolesForProject(p)
        /\ UNCHANGED denied
     \/ /\ ~ShouldBlock(p) /\ ~NeedsUnblock(p)
        /\ UNCHANGED <<pc, current, queue, denied>>
  /\ UNCHANGED <<worldVars, deny, stored, stops, faults, cfg, dayKey, spend,
                 blocked, known, setbacks, moved, lost>>

(* put_deny: a call that failed may have put the Deny, its answer lost.    *)
PutDeny(r, ok) ==
  /\ pc = "putting" /\ r \in queue
  /\ Succeeds(ok, "put")
  /\ queue' = queue \ {r}
  /\ deny' \in {deny \cup {r}} \cup (IF ok THEN {} ELSE {deny})
  /\ denied' = IF ok THEN denied \cup {r} ELSE denied
  /\ lost' = IF ok \/ current \subseteq blocked THEN lost
             ELSE lost \cup (deny' \ deny)
  /\ UNCHANGED <<worldVars, stored, stops, pc, cfg, trackerVars, blocked,
                 known, pending, current, alerts, setbacks, moved>>

(* Mutant: the project counts as blocked whatever the puts returned.       *)
FinishBlock_Always ==
  /\ pc = "putting" /\ queue = {}
  /\ blocked' = blocked \cup current
  /\ current' = {} /\ denied' = {}
  /\ lost' = IF denied # {} THEN {r \in lost : tag[r] \notin current} ELSE lost
  /\ pc' = "reconcile"
  /\ UNCHANGED <<worldVars, deny, stored, stops, faults, cfg, trackerVars,
                 known, pending, queue, alerts, setbacks, moved>>

(* The project is blocked only if a put succeeded.                         *)
FinishBlock ==
  /\ pc = "putting" /\ queue = {}
  /\ blocked' = IF denied # {} THEN blocked \cup current ELSE blocked
  /\ current' = {} /\ denied' = {}
  /\ lost' = IF denied # {} THEN {r \in lost : tag[r] \notin current} ELSE lost
  /\ pc' = "reconcile"
  /\ UNCHANGED <<worldVars, deny, stored, stops, faults, cfg, trackerVars,
                 known, pending, queue, alerts, setbacks, moved>>

(* delete_deny, for the day roll and for unblock_project_roles: a call     *)
(* that failed may have deleted the Deny all the same.                     *)
DeleteDeny(r, ok) ==
  /\ pc \in {"rollLift", "deleting"} /\ r \in queue
  /\ Succeeds(ok, "delete")
  /\ queue' = queue \ {r}
  /\ deny' \in {deny \ {r}} \cup (IF ok THEN {} ELSE {deny})
  /\ lost' = (lost \cup {r}) \cap deny'
  /\ UNCHANGED <<worldVars, stored, stops, pc, cfg, trackerVars, blocked,
                 known, pending, current, denied, alerts, setbacks, moved>>

(* The project is forgotten whatever unblock_project_roles returned.       *)
FinishUnblock ==
  /\ pc = "deleting" /\ queue = {}
  /\ blocked' = blocked \ current
  /\ lost' = lost \cup {r \in deny : tag[r] \in current /\ known[r] = NoTag}
  /\ current' = {}
  /\ pc' = "reconcile"
  /\ UNCHANGED <<worldVars, deny, stored, stops, faults, cfg, trackerVars,
                 known, pending, queue, denied, alerts, setbacks, moved>>

-----------------------------------------------------------------------------
(* The process ends: at once, or by SIGTERM with a flush of the live state *)
(* (none before the first _persist set the save context).                  *)
ProcessEnds ==
  /\ stops < MaxStops /\ stops' = stops + 1
  /\ pc # "down" /\ pc' = "down"
  /\ cfg' = NoProjects
  /\ dayKey' = NoDay /\ spend' = NoSpend /\ fired' = NoneFired
  /\ blocked' = {} /\ known' = NoMap
  /\ pending' = {} /\ current' = {} /\ queue' = {} /\ denied' = {}
  /\ setbacks' = IF \/ fired = NoneFired
                    \/ stored'.day = dayKey /\ stored'.fired = fired
                 THEN setbacks ELSE setbacks + 1
  /\ UNCHANGED <<worldVars, deny, alerts, moved, lost>>

Kill == UNCHANGED <<stored, faults>> /\ ProcessEnds

Sigterm(ok) ==
  /\ pc \notin {"bootMap", "boot"}
  /\ Succeeds(ok, "save")
  /\ stored' = IF ok THEN CompactSnapshot ELSE stored
  /\ ProcessEnds

-----------------------------------------------------------------------------
Start ==
  \/ \E cfgOk, loadOk \in BOOLEAN : Boot(cfgOk, loadOk)
  \/ \E S \in SUBSET Role : \E unchecked \in SUBSET S : Discover(S, unchecked)

Poll ==
  \/ \E ok \in BOOLEAN : Persist(ok) \/ StartPoll(ok)
  \/ \E S \in SUBSET Role : BeginLiftAll(S) \/ RefreshMap(S)
  \/ FinishLiftAll \/ UseMap
  \/ \E total \in [Project -> 0..MaxSpend] : Count(total)
  \/ \E p \in Project : Visit(p)
  \/ \E r \in Role, ok \in BOOLEAN : PutDeny(r, ok) \/ DeleteDeny(r, ok)
  \/ FinishBlock \/ FinishUnblock

World ==
  \/ Midnight
  \/ \E p \in Project, s \in Settings : EditConfig(p, s)
  \/ \E r \in Role, p \in Project \cup {NoTag} : Retag(r, p)
  \/ Kill \/ \E ok \in BOOLEAN : Sigterm(ok)

Next == Start \/ Poll \/ World

Spec == Init /\ [][Next]_vars

(* Compose restarts the process, polls go on, and the cached map lasts no  *)
(* longer than its TTL.  That calls fail only finitely often is the bound. *)
FairSpec ==
  Spec /\ WF_vars(Start) /\ WF_vars(Poll) /\ SF_vars(RefreshMap(Role))

-----------------------------------------------------------------------------
TypeOK ==
  /\ today \in 0..MaxDay /\ cfgFile \in [Project -> Settings]
  /\ tag \in [Role -> Project \cup {NoTag}]
  /\ deny \subseteq Role /\ stored \in Snapshot
  /\ edits \in Nat /\ retags \in Nat /\ stops \in Nat
  /\ faults \in [FaultKinds -> Nat]
  /\ pc \in {"down", "bootMap", "boot", "idle", "rollMap", "rollLift", "map",
             "count", "reconcile", "putting", "deleting"}
  /\ cfg \in [Project -> Settings \cup {Absent}]
  /\ dayKey \in Int /\ spend \in [Project -> Nat]
  /\ fired \in [Project -> SUBSET Thresholds]
  /\ blocked \subseteq Project /\ known \in [Role -> Project \cup {NoTag}]
  /\ pending \subseteq Project /\ current \subseteq Project
  /\ queue \subseteq Role /\ denied \subseteq Role
  /\ alerts \in [0..MaxDay -> [Project -> [Thresholds -> Nat]]]
  /\ setbacks \in Nat /\ moved \subseteq Role /\ lost \subseteq Role

Faultless(kinds) == \A k \in kinds : faults[k] = 0

(* A Deny is never forgotten: whenever the loop is between projects, the   *)
(* project of each denied role is in blocked_projects, so a later poll can *)
(* lift it; across kills in mid-put, restarts and day rolls.  Forgotten is *)
(* only the Deny of a role that changed hands under it, until the next day *)
(* roll or start (for good, if it has lost its tag), and that of a role in *)
(* "lost": its put landed without an answer while the project was not yet  *)
(* blocked, its delete was not carried out, or the role map or discovery   *)
(* missed it; until a put for its project is answered, a delete succeeds   *)
(* or a start sees the Deny.                                               *)
DenyIsRemembered ==
  pc \in {"boot", "idle", "map", "count", "reconcile"}
    => \A r \in deny \ (moved \cup lost) : tag[r] \in blocked

(* At the end of a poll with IAM healthy so far, the Denys are exactly     *)
(* those config and spend call for, for every configured project: whatever *)
(* the kills, failed saves and midnights before it left behind, and again  *)
(* after the map, and a day roll or a start, have seen a role change hands.*)
PollIsExact ==
  (/\ Faultless({"put", "delete", "map", "check"})
   /\ pc = "reconcile" /\ pending = {})
    => \A r \in Role \ moved : tag[r] \in Configured =>
         (r \in deny <=> ShouldBlock(tag[r]))

(* A process that has not been stopped calls a project blocked only while  *)
(* a role of it is denied (DESIGN.md: BLOCKED only when a put succeeds),   *)
(* unless it has lost a role to another project.                           *)
BlockedMeansDenied ==
  stops = 0 /\ retags = 0 /\ pc \notin {"deleting", "rollLift"}
    => \A p \in blocked : RolesOf(p) \cap deny # {}

(* A threshold alerts once per project and day; each loss of the fired set *)
(* (a kill before the save, a state file that cannot be read) may cost one *)
(* repetition and no more.                                                 *)
AlertsRepeatOnlyAfterLoss ==
  \A d \in 0..MaxDay, p \in Project, t \in Thresholds :
    alerts[d][p][t] <= 1 + setbacks

(* DESIGN.md on alerts: they "fire once per project per threshold per UTC  *)
(* day (persisted across restarts within the same UTC day)".               *)
AlertsOncePerDay ==
  \A d \in 0..MaxDay, p \in Project, t \in Thresholds : alerts[d][p][t] <= 1

(* What config.yaml asks of p, however long the guard takes to notice.     *)
Over(p) ==
  /\ cfgFile[p] # Absent /\ cfgFile[p].enforce /\ cfgFile[p].budget > 0
  /\ pc # "down" /\ dayKey = today /\ spend[p] >= cfgFile[p].budget
Off(p) == cfgFile[p] # Absent /\ ~cfgFile[p].enforce

(* A project that stays over budget ends with the Deny on all its roles,   *)
(* whichever puts and reads failed on the way.                             *)
OverBudgetIsBlocked ==
  \A p \in Project : <>[]Over(p) => <>[](RolesOf(p) \subseteq deny)

(* enforce: false lifts every Deny of the project for good, failed deletes *)
(* included, and without a restart remembering that it was blocked.        *)
EnforceOffLifts ==
  \A p \in Project : <>[]Off(p) => <>[](RolesOf(p) \cap deny = {})
=============================================================================
