--------------------------- MODULE RoleAttribution ----------------------------
(***************************************************************************)
(* Whose spend an invocation is: the IAM roles' project tags, which change *)
(* and are read one role at a time (roles.py), the map of them that        *)
(* RoleMapCache keeps for a TTL (main.py), the price list of the last good *)
(* config.yaml, and process_events, which decides about an event once and  *)
(* for all.                                                                *)
(*                                                                         *)
(* There is no clock: what matters of a past moment is how many ticks ago  *)
(* it was, and beyond the horizon of the properties not even that.  Which  *)
(* events a fetch returns is the matter of LogIngest.                      *)
(***************************************************************************)
EXTENDS Integers

CONSTANTS
  Role, Project, Model,
  NoTag,     \* the tag of a role that has no project tag
  Nobody,    \* the caller of an event whose ARN names no role
  Skipped,   \* the verdict on an event that is not priced
  TTL,       \* ROLE_MAP_TTL_S
  PollSpan   \* longest time from the start of a poll to its process_events

ASSUME AttributionAssumption ==
  /\ TTL \in Nat \ {0} /\ PollSpan \in Nat
  /\ NoTag \notin Project /\ Skipped \notin Project /\ Nobody \notin Role

Tag     == Project \cup {NoTag}
Event   == [role : Role \cup {Nobody}, model : Model]
Horizon == TTL + PollSpan
Ago     == 0..Horizon

VARIABLES
  tag,       \* the project tag of each role in IAM
  prices,    \* models priced in config.yaml
  backlog,   \* events logged that no poll has processed
  stage,     \* where the loop is
  cfg,       \* models priced in the last good config
  map, age,  \* the cached map, and the ticks since its _loaded_at
  fresh,     \* the map that a load is building
  toRead,    \* roles whose tags this load has still to read
  loading,   \* ticks since the load began
  polling,   \* ticks since the poll began
  verdict,   \* what the last process_events decided
  tagged,    \* history: ticks since each role had each tag
  unread,    \* history: ticks since a read of each role's tags failed
  unpriced   \* history: ticks since each model had no known price

world   == <<tag, prices, backlog>>
load    == <<fresh, toRead, loading>>
cache   == <<map, age>>
history == <<tagged, unread, unpriced>>
vars == <<world, stage, cfg, cache, load, polling, verdict, history>>

Stages == {"off", "booting", "idle", "forcing", "get", "loading", "fetching"}
Loads  == {"booting", "forcing", "loading"}
InPoll == {"forcing", "get", "loading", "fetching"}

NoMap     == [r \in Role |-> NoTag]
NoVerdict == [e \in {} |-> Skipped]

Init ==
  /\ tag = NoMap /\ prices = {} /\ backlog = {}
  /\ stage = "off" /\ cfg = {} /\ map = NoMap /\ age = 0
  /\ fresh = NoMap /\ toRead = {} /\ loading = 0 /\ polling = 0
  /\ verdict = NoVerdict
  /\ tagged = [r \in Role |-> [p \in Tag |-> IF p = NoTag THEN 0 ELSE Horizon]]
  /\ unread = [r \in Role |-> Horizon]
  /\ unpriced = [m \in Model |-> 0]

-----------------------------------------------------------------------------
Later(t, bound) == IF t < bound THEN t + 1 ELSE bound

(* Time passes: a poll takes at most PollSpan to reach process_events.     *)
Tick ==
  /\ stage \in InPoll => polling < PollSpan
  /\ age' = Later(age, TTL) /\ loading' = Later(loading, TTL)
  /\ polling' = IF stage \in InPoll THEN polling + 1 ELSE 0
  /\ tagged' = [r \in Role |-> [p \in Tag |->
       IF p = tag[r] THEN 0 ELSE Later(tagged[r][p], Horizon)]]
  /\ unread' = [r \in Role |-> Later(unread[r], Horizon)]
  /\ unpriced' = [m \in Model |->
       IF m \notin prices THEN 0 ELSE Later(unpriced[m], PollSpan + 1)]
  /\ UNCHANGED <<world, stage, cfg, map, fresh, toRead, verdict>>

Retag(r, p) ==
  /\ p # tag[r] /\ tag' = [tag EXCEPT ![r] = p]
  /\ tagged' = [tagged EXCEPT ![r][p] = 0]
  /\ UNCHANGED <<prices, backlog, stage, cfg, cache, load, polling, verdict,
                 unread, unpriced>>

(* A model enters or leaves the price list of config.yaml.                 *)
Reprice(m) ==
  /\ prices' = IF m \in prices THEN prices \ {m} ELSE prices \cup {m}
  /\ unpriced' = [unpriced EXCEPT ![m] = 0]
  /\ UNCHANGED <<tag, backlog, stage, cfg, cache, load, polling, verdict,
                 tagged, unread>>

Invoke(e) ==
  /\ e \notin backlog /\ backlog' = backlog \cup {e}
  /\ UNCHANGED <<tag, prices, stage, cfg, cache, load, polling, verdict,
                 history>>

World ==
  \/ \E r \in Role, p \in Tag : Retag(r, p)
  \/ \E m \in Model : Reprice(m)
  \/ \E e \in Event : Invoke(e)

-----------------------------------------------------------------------------
(* Mutant: a config that cannot be read is replaced by the default.        *)
LoadConfig_Default(old) ==
  \/ cfg' = prices /\ UNCHANGED unpriced
  \/ /\ cfg' = {}
     /\ unpriced' = [m \in Model |-> IF m \in old THEN unpriced[m] ELSE 0]

(* load_config: the file, or nothing; then the caller keeps old.           *)
LoadConfig(old) ==
  \/ cfg' = prices /\ UNCHANGED unpriced
  \/ /\ cfg' = old
     /\ unpriced' = [m \in Model |-> IF m \in old THEN unpriced[m] ELSE 0]

BeginLoad == fresh' = NoMap /\ toRead' = Role /\ loading' = 0

(* The start of run_loop, with a map read whatever its age.                *)
Boot ==
  /\ stage = "off" /\ stage' = "booting"
  /\ LoadConfig({}) /\ BeginLoad
  /\ UNCHANGED <<world, cache, polling, verdict, tagged, unread>>

(* load_role_project_map.  list_roles fails both ways: an empty map.       *)
ListFails ==
  /\ stage \in Loads /\ toRead = Role /\ Role # {} /\ toRead' = {}
  /\ unread' = [r \in Role |-> 0]
  /\ UNCHANGED <<world, stage, cfg, cache, fresh, loading, polling, verdict,
                 tagged, unpriced>>

(* list_role_tags of a role: it is in the map if it has a project tag.     *)
ReadTags(r) ==
  /\ stage \in Loads /\ r \in toRead /\ toRead' = toRead \ {r}
  /\ fresh' = [fresh EXCEPT ![r] = tag[r]]
  /\ UNCHANGED <<world, stage, cfg, cache, loading, polling, verdict, history>>

(* It fails: the role is left out of the map.                              *)
ReadFails(r) ==
  /\ stage \in Loads /\ r \in toRead /\ toRead' = toRead \ {r}
  /\ unread' = [unread EXCEPT ![r] = 0]
  /\ UNCHANGED <<world, stage, cfg, cache, fresh, loading, polling, verdict,
                 tagged, unpriced>>

(* Mutant: _loaded_at is the time at which the load ended.                 *)
MapAge_AtEnd == 0

(* _loaded_at is the time at which get was called.                         *)
MapAge == loading

EndLoad ==
  /\ stage \in Loads /\ toRead = {}
  /\ map' = fresh /\ age' = MapAge
  /\ stage' = CASE stage = "booting" -> "idle"
                [] stage = "forcing" -> "get"
                [] stage = "loading" -> "fetching"
  /\ fresh' = NoMap /\ loading' = 0
  /\ UNCHANGED <<world, cfg, toRead, polling, verdict, history>>

(* A poll begins; on the first one of a day the map is read anew.          *)
StartPoll ==
  /\ stage = "idle" /\ polling' = 0 /\ verdict' = NoVerdict
  /\ LoadConfig(cfg)
  /\ \/ stage' = "forcing" /\ BeginLoad
     \/ stage' = "get" /\ UNCHANGED load
  /\ UNCHANGED <<world, cache, tagged, unread>>

(* Mutant: a map that holds something is kept.                             *)
StillGood_Holds == age < TTL \/ map # NoMap

(* RoleMapCache.get: the cached map is young enough.                       *)
StillGood == age < TTL

Get ==
  /\ stage = "get"
  /\ IF StillGood THEN stage' = "fetching" /\ UNCHANGED load
                  ELSE stage' = "loading" /\ BeginLoad
  /\ UNCHANGED <<world, cfg, cache, polling, verdict, history>>

(* Mutant: the project is looked up, and not asked for.                    *)
Verdict_NoGuard(e) ==
  IF e.role = Nobody \/ e.model \notin cfg THEN Skipped ELSE map[e.role]

(* process_events on one event: no role in its ARN, no project, no price,  *)
(* or a cost that is added to the project, configured or not.              *)
Verdict(e) ==
  IF e.role = Nobody \/ e.model \notin cfg THEN Skipped
  ELSE IF map[e.role] = NoTag THEN Skipped ELSE map[e.role]

(* Each event is seen now, and not looked at again.                        *)
ProcessEvents ==
  /\ stage = "fetching" /\ stage' = "idle"
  /\ verdict' = [e \in backlog |-> Verdict(e)] /\ backlog' = {}
  /\ polling' = 0
  /\ UNCHANGED <<tag, prices, cfg, cache, load, history>>

FetchFails ==
  /\ stage = "fetching" /\ stage' = "idle" /\ polling' = 0
  /\ UNCHANGED <<world, cfg, cache, load, verdict, history>>

(* The process ends and is started again.                                  *)
Stop ==
  /\ stage # "off" /\ stage' = "off"
  /\ cfg' = {} /\ map' = NoMap /\ age' = 0
  /\ fresh' = NoMap /\ toRead' = {} /\ loading' = 0 /\ polling' = 0
  /\ verdict' = NoVerdict
  /\ UNCHANGED <<world, history>>

-----------------------------------------------------------------------------
Loop ==
  \/ Boot \/ StartPoll \/ Get \/ EndLoad
  \/ ListFails \/ \E r \in Role : ReadTags(r) \/ ReadFails(r)
  \/ ProcessEvents \/ FetchFails

Next == Tick \/ World \/ Loop \/ Stop

Spec == Init /\ [][Next]_vars

(* Time passes, the loop goes on, and of the reads of a role's tags not    *)
(* every one fails.                                                        *)
FairSpec ==
  /\ Spec
  /\ WF_vars(Tick) /\ WF_vars(Loop)
  /\ \A r \in Role : SF_vars(ReadTags(r))

-----------------------------------------------------------------------------
TypeOK ==
  /\ tag \in [Role -> Tag] /\ prices \subseteq Model /\ backlog \subseteq Event
  /\ stage \in Stages /\ cfg \subseteq Model
  /\ map \in [Role -> Tag] /\ age \in 0..TTL
  /\ fresh \in [Role -> Tag] /\ toRead \subseteq Role
  /\ loading \in 0..TTL /\ polling \in 0..PollSpan
  /\ DOMAIN verdict \subseteq Event
  /\ \A e \in DOMAIN verdict : verdict[e] \in Project \cup {Skipped}
  /\ tagged \in [Role -> [Tag -> Ago]] /\ unread \in [Role -> Ago]
  /\ unpriced \in [Model -> 0..PollSpan + 1]

Decided(e) == e \in DOMAIN verdict' /\ verdict' # verdict

(* However the tags change while the map is read and kept, an invocation   *)
(* is billed to a project that its role had as its tag less than a TTL and *)
(* a poll ago.                                                             *)
PricedAsTagged ==
  [][\A e \in Event : Decided(e) /\ verdict'[e] # Skipped =>
       tagged[e.role][verdict'[e]] < Horizon]_vars

(* The cost of an invocation is lost only if its caller is no role, or the *)
(* role had no tag or could not be read less than a TTL and a poll ago, or *)
(* its model had no price in this poll: a failure is forgotten after that. *)
SkippedForCause ==
  [][\A e \in Event : Decided(e) /\ verdict'[e] = Skipped =>
       \/ e.role = Nobody
       \/ tagged[e.role][NoTag] < Horizon \/ unread[e.role] < Horizon
       \/ unpriced[e.model] <= PollSpan]_vars

(* A role that keeps its tag comes to be billed by it.                     *)
RetagIsSeen ==
  \A r \in Role, p \in Project :
    <>[](tag[r] = p /\ stage # "off") => []<>(map[r] = p)
=============================================================================
