------------------------ MODULE RoleAttributionProofs -------------------------
(***************************************************************************)
(* Proofs about RoleAttribution for all sets of roles, projects and        *)
(* models, every TTL and every length of a poll, whatever fails and        *)
(* whenever the process ends.                                              *)
(***************************************************************************)
EXTENDS RoleAttribution, TLAPS

(* A counter of ticks stays in its range.                                  *)
LEMMA LaterType ==
  ASSUME NEW bound \in Nat, NEW t \in 0..bound
  PROVE  Later(t, bound) \in 0..bound
  BY DEF Later

(* Init and every step of the loop, the clock and the operator keep every  *)
(* variable in its type; what is billed is billed to a project.            *)
THEOREM TypeCorrect == Spec => []TypeOK
<1> USE AttributionAssumption
<1>0. NoMap \in [Role -> Tag] /\ 0 \in Ago
  BY DEF NoMap, Tag, Ago, Horizon
<1>1. Init => TypeOK
  BY DEF Init, TypeOK, Stages, NoMap, NoVerdict, Tag, Ago, Horizon
<1>2. TypeOK /\ [Next]_vars => TypeOK'
  <2> SUFFICES ASSUME TypeOK, [Next]_vars PROVE TypeOK'
    OBVIOUS
  <2> USE <1>0 DEF TypeOK, Stages, world, load, cache, history
  <2>1. CASE Tick
    <3>1. polling' \in 0..PollSpan
      BY <2>1 DEF Tick
    <3>2. age' \in 0..TTL /\ loading' \in 0..TTL
      BY <2>1, LaterType DEF Tick
    <3>3. ASSUME NEW r \in Role
          PROVE  /\ unread'[r] \in Ago
                 /\ \A p \in Tag : tagged'[r][p] \in Ago
      BY <2>1, LaterType DEF Tick, Ago, Horizon
    <3>4. ASSUME NEW m \in Model PROVE unpriced'[m] \in 0..(PollSpan + 1)
      <4>1. /\ unpriced[m] \in 0..(PollSpan + 1) /\ PollSpan + 1 \in Nat
        OBVIOUS
      <4>2. Later(unpriced[m], PollSpan + 1) \in 0..(PollSpan + 1)
        BY <4>1, LaterType
      <4>. QED
        BY <2>1, <4>2 DEF Tick
    <3>5. /\ tagged' \in [Role -> [Tag -> Ago]]
          /\ unread' \in [Role -> Ago]
          /\ unpriced' \in [Model -> 0..(PollSpan + 1)]
      BY <2>1, <3>3, <3>4 DEF Tick
    <3>. QED
      BY <2>1, <3>1, <3>2, <3>5 DEF Tick
  <2>2. ASSUME NEW r \in Role, NEW p \in Tag, Retag(r, p)
        PROVE  TypeOK'
    <3>1. ASSUME NEW q \in Role
          PROVE  tagged'[q] \in [Tag -> Ago]
      <4>1. CASE q = r
        BY <2>2, <4>1 DEF Retag
      <4>2. CASE q # r
        BY <2>2, <4>2 DEF Retag
      <4>. QED
        BY <4>1, <4>2
    <3>2. tagged' \in [Role -> [Tag -> Ago]]
      BY <2>2, <3>1 DEF Retag
    <3>. QED
      BY <2>2, <3>2 DEF Retag
  <2>3. ASSUME NEW m \in Model, Reprice(m) PROVE TypeOK'
    BY <2>3 DEF Reprice
  <2>4. ASSUME NEW e \in Event, Invoke(e) PROVE TypeOK'
    BY <2>4 DEF Invoke
  <2>5. CASE Boot
    BY <2>5 DEF Boot, LoadConfig, BeginLoad
  <2>6. CASE StartPoll
    <3>1. cfg' \subseteq Model /\ unpriced' \in [Model -> 0..(PollSpan + 1)]
      BY <2>6 DEF StartPoll, LoadConfig
    <3>2. DOMAIN verdict' = {}
      BY <2>6 DEF StartPoll, NoVerdict
    <3>3. /\ fresh' \in [Role -> Tag] /\ toRead' \subseteq Role
          /\ loading' \in 0..TTL
      BY <2>6 DEF StartPoll, BeginLoad
    <3>. QED
      BY <2>6, <3>1, <3>2, <3>3 DEF StartPoll
  <2>7. CASE Get
    BY <2>7 DEF Get, BeginLoad
  <2>8. CASE EndLoad
    BY <2>8 DEF EndLoad, Loads, MapAge
  <2>9. CASE ListFails
    BY <2>9 DEF ListFails
  <2>10. ASSUME NEW r \in Role, ReadTags(r) PROVE TypeOK'
    BY <2>10 DEF ReadTags
  <2>11. ASSUME NEW r \in Role, ReadFails(r) PROVE TypeOK'
    BY <2>11 DEF ReadFails
  <2>12. CASE ProcessEvents
    <3>1. \A e \in backlog : Verdict(e) \in Project \cup {Skipped}
      BY DEF Verdict, Event, Tag
    <3>2. DOMAIN verdict' = backlog /\ \A e \in backlog : verdict'[e] = Verdict(e)
      BY <2>12 DEF ProcessEvents
    <3>. QED
      BY <2>12, <3>1, <3>2 DEF ProcessEvents
  <2>13. CASE FetchFails
    BY <2>13 DEF FetchFails
  <2>14. CASE Stop
    BY <2>14 DEF Stop, NoVerdict
  <2>15. CASE UNCHANGED vars
    BY <2>15 DEF vars
  <2>. QED
    BY <2>1, <2>2, <2>3, <2>4, <2>5, <2>6, <2>7, <2>8, <2>9, <2>10, <2>11,
       <2>12, <2>13, <2>14, <2>15 DEF Next, World, Loop
<1>. QED
  BY <1>1, <1>2, PTL DEF Spec

-----------------------------------------------------------------------------
(* What a map says of a role was so, or could not be read, within n ticks. *)
Basis(r, p, n) ==
  \/ tagged[r][p] <= n
  \/ p = NoTag /\ unread[r] <= n

(* The tag of a role is the one it has now.                                *)
TagInv == \A r \in Role : tagged[r][tag[r]] = 0

(* What a load has read it has read since it began; within a poll, since   *)
(* the poll began.                                                         *)
LoadInv ==
  stage \in Loads =>
    /\ \A r \in toRead : fresh[r] = NoTag
    /\ \A r \in Role \ toRead :
         /\ loading < TTL => Basis(r, fresh[r], loading)
         /\ stage = "loading" => Basis(r, fresh[r], polling)

(* A map that may be used was read within its age.                         *)
CacheInv ==
  stage \notin {"off", "booting"} /\ age < TTL =>
    \A r \in Role : Basis(r, map[r], age)

(* The map that is used was young enough when the poll took it.            *)
FetchInv ==
  stage = "fetching" => \A r \in Role : Basis(r, map[r], TTL - 1 + polling)

(* A model that the poll's config does not price lacked its price since    *)
(* the poll began.                                                         *)
PriceInv ==
  \A m \in Model :
    /\ m \notin prices => unpriced[m] = 0
    /\ stage \in InPoll /\ m \notin cfg => unpriced[m] <= polling

AttributionInv == TagInv /\ LoadInv /\ CacheInv /\ FetchInv /\ PriceInv

(* A tick makes what is known of the past a tick older, and no more.       *)
LEMMA BasisAges ==
  ASSUME TypeOK, Tick, NEW r \in Role, NEW p \in Tag, NEW n \in Nat,
         Basis(r, p, n)
  PROVE  Basis(r, p, n + 1)'
<1>1. Horizon \in Nat
  BY AttributionAssumption DEF Horizon
<1>2. tagged'[r][p] <= tagged[r][p] + 1
  BY <1>1 DEF Tick, TypeOK, Later, Ago
<1>3. unread'[r] <= unread[r] + 1
  BY <1>1 DEF Tick, TypeOK, Later, Ago
<1>4. /\ tagged[r][p] \in Nat /\ unread[r] \in Nat
      /\ tagged'[r][p] \in Int /\ unread'[r] \in Int
  BY <1>1 DEF TypeOK, Tick, Later, Ago
<1>. QED
  BY <1>2, <1>3, <1>4 DEF Basis

(* The passing of time keeps the invariant.                                *)
LEMMA TickKeepsAttribution ==
  ASSUME TypeOK, AttributionInv, Tick PROVE AttributionInv'
<1> USE AttributionAssumption
<1>0. UNCHANGED <<fresh, map>>
  BY DEF Tick
<1>1. TagInv'
  BY DEF TagInv, Tick, TypeOK, world
<1>2. LoadInv'
  <2> SUFFICES ASSUME stage' \in Loads, NEW r \in Role PROVE
        /\ r \in toRead' => fresh'[r] = NoTag
        /\ r \notin toRead' =>
             /\ loading' < TTL => Basis(r, fresh[r], loading)'
             /\ stage' = "loading" => Basis(r, fresh[r], polling)'
    BY DEF LoadInv, Tick, TypeOK
  <2>1. r \in toRead => fresh[r] = NoTag
    BY DEF AttributionInv, LoadInv, Tick
  <2>2. ASSUME r \notin toRead, loading' < TTL
        PROVE  Basis(r, fresh[r], loading)'
    <3>1. loading \in Nat /\ loading < TTL /\ loading' = loading + 1
      BY <2>2 DEF Tick, Later, TypeOK
    <3>2. Basis(r, fresh[r], loading) /\ fresh[r] \in Tag
      BY <2>2, <3>1 DEF AttributionInv, LoadInv, Tick, TypeOK
    <3>3. tagged'[r][fresh[r]] <= loading + 1
          \/ (fresh[r] = NoTag /\ unread'[r] <= loading + 1)
      BY <3>1, <3>2, BasisAges DEF Basis
    <3>. QED
      BY <1>0, <3>1, <3>3 DEF Basis
  <2>3. ASSUME r \notin toRead, stage' = "loading"
        PROVE  Basis(r, fresh[r], polling)'
    <3>1. polling \in Nat /\ polling' = polling + 1
      BY <2>3 DEF Tick, InPoll, TypeOK
    <3>2. Basis(r, fresh[r], polling) /\ fresh[r] \in Tag
      BY <2>3 DEF AttributionInv, LoadInv, Tick, TypeOK
    <3>3. tagged'[r][fresh[r]] <= polling + 1
          \/ (fresh[r] = NoTag /\ unread'[r] <= polling + 1)
      BY <3>1, <3>2, BasisAges DEF Basis
    <3>. QED
      BY <1>0, <3>1, <3>3 DEF Basis
  <2>. QED
    BY <2>1, <2>2, <2>3 DEF Tick
<1>3. CacheInv'
  <2> SUFFICES ASSUME stage' \notin {"off", "booting"}, age' < TTL,
                      NEW r \in Role
               PROVE  Basis(r, map[r], age)'
    BY DEF CacheInv
  <2>1. age \in Nat /\ age < TTL /\ age' = age + 1
    BY DEF Tick, Later, TypeOK
  <2>2. Basis(r, map[r], age) /\ map[r] \in Tag
    BY <2>1 DEF AttributionInv, CacheInv, Tick, TypeOK
  <2>3. tagged'[r][map[r]] <= age + 1
        \/ (map[r] = NoTag /\ unread'[r] <= age + 1)
    BY <2>1, <2>2, BasisAges DEF Basis
  <2>. QED
    BY <1>0, <2>1, <2>3 DEF Basis
<1>4. FetchInv'
  <2> SUFFICES ASSUME stage' = "fetching", NEW r \in Role
               PROVE  Basis(r, map[r], TTL - 1 + polling)'
    BY DEF FetchInv
  <2> DEFINE n == TTL - 1 + polling
  <2>1. n \in Nat /\ TTL - 1 + polling' = n + 1
    BY DEF Tick, InPoll, TypeOK
  <2>2. Basis(r, map[r], n) /\ map[r] \in Tag
    BY DEF AttributionInv, FetchInv, Tick, TypeOK
  <2>3. tagged'[r][map[r]] <= n + 1
        \/ (map[r] = NoTag /\ unread'[r] <= n + 1)
    <3> HIDE DEF n
    <3>. QED
      BY <2>1, <2>2, BasisAges DEF Basis
  <2>. QED
    BY <1>0, <2>1, <2>3 DEF Basis
<1>5. PriceInv'
  BY DEF AttributionInv, PriceInv, Tick, TypeOK, Later, InPoll, world
<1>. QED
  BY <1>1, <1>2, <1>3, <1>4, <1>5 DEF AttributionInv

(* Every other step keeps it: a load only adds what it has just read, and  *)
(* a map is used only when its age allows it.                              *)
LEMMA StepKeepsAttribution ==
  ASSUME TypeOK, AttributionInv, World \/ Loop \/ Stop \/ UNCHANGED vars
  PROVE  AttributionInv'
<1> USE AttributionAssumption
    DEF AttributionInv, TagInv, LoadInv, CacheInv, FetchInv, PriceInv, Basis,
        TypeOK, Ago, Horizon, world, load, cache, history
<1>1. ASSUME NEW r \in Role, NEW p \in Tag, Retag(r, p) PROVE AttributionInv'
  BY <1>1 DEF Retag
<1>2. ASSUME NEW m \in Model, Reprice(m) PROVE AttributionInv'
  BY <1>2 DEF Reprice
<1>3. ASSUME NEW e \in Event, Invoke(e) PROVE AttributionInv'
  BY <1>3 DEF Invoke
<1>4. CASE Boot
  BY <1>4 DEF Boot, LoadConfig, BeginLoad, Loads, InPoll, NoMap
<1>5. CASE StartPoll
  BY <1>5 DEF StartPoll, LoadConfig, BeginLoad, Loads, NoMap
<1>6. CASE Get
  BY <1>6 DEF Get, StillGood, BeginLoad, Loads, InPoll, NoMap
<1>7. CASE EndLoad
  <2>1. /\ fresh' = NoMap /\ toRead = {} /\ toRead' = {} /\ map' = fresh
        /\ age' = loading /\ loading' = 0
        /\ UNCHANGED <<tag, prices, cfg, polling, tagged, unread, unpriced>>
    BY <1>7 DEF EndLoad, MapAge
  <2>2. CASE stage = "booting" /\ stage' = "idle"
    BY <2>1, <2>2 DEF Loads, InPoll
  <2>3. CASE stage = "forcing" /\ stage' = "get"
    BY <2>1, <2>3 DEF Loads, InPoll
  <2>4. CASE stage = "loading" /\ stage' = "fetching"
    BY <2>1, <2>4 DEF Loads, InPoll
  <2>. QED
    BY <1>7, <2>2, <2>3, <2>4 DEF EndLoad, Loads
<1>8. CASE ListFails
  BY <1>8 DEF ListFails, Loads
<1>9. ASSUME NEW r \in Role, ReadTags(r) PROVE AttributionInv'
  BY <1>9 DEF ReadTags, Loads
<1>10. ASSUME NEW r \in Role, ReadFails(r) PROVE AttributionInv'
  BY <1>10 DEF ReadFails, Loads
<1>11. CASE ProcessEvents
  BY <1>11 DEF ProcessEvents, Loads, InPoll
<1>12. CASE FetchFails
  BY <1>12 DEF FetchFails, Loads, InPoll
<1>13. CASE Stop
  BY <1>13 DEF Stop, Loads, InPoll
<1>14. CASE UNCHANGED vars
  BY <1>14 DEF vars
<1>. QED
  BY <1>1, <1>2, <1>3, <1>4, <1>5, <1>6, <1>7, <1>8, <1>9, <1>10, <1>11,
     <1>12, <1>13, <1>14 DEF World, Loop

(* What ties the map in use to the tags of the last TTL and poll holds     *)
(* through every load, failure, day and restart.                           *)
THEOREM AttributionInvariant == Spec => []AttributionInv
<1>1. Init => AttributionInv
  BY AttributionAssumption
  DEF Init, AttributionInv, TagInv, LoadInv, CacheInv, FetchInv, PriceInv,
      Loads, InPoll, NoMap, Tag
<1>2. TypeOK /\ AttributionInv /\ [Next]_vars => AttributionInv'
  BY TickKeepsAttribution, StepKeepsAttribution DEF Next
<1>. QED
  BY <1>1, <1>2, TypeCorrect, PTL DEF Spec

(* A verdict is new only where process_events gave it.                     *)
LEMMA DecidedByProcessing ==
  ASSUME [Next]_vars, NEW e \in Event, Decided(e)
  PROVE  ProcessEvents /\ e \in backlog /\ verdict'[e] = Verdict(e)
<1>1. DOMAIN NoVerdict = {}
  BY DEF NoVerdict
<1>2. ProcessEvents
  BY <1>1 DEF Decided, Next, World, Loop, Tick, Retag, Reprice, Invoke, Boot,
              ListFails, ReadTags, ReadFails, EndLoad, StartPoll, Get,
              FetchFails, Stop, vars
<1>. QED
  BY <1>2 DEF Decided, ProcessEvents

(* process_events bills an invocation to a project its role was tagged     *)
(* with less than a TTL and a poll ago.                                    *)
THEOREM BilledToItsTag == Spec => PricedAsTagged
<1>1. ASSUME TypeOK, AttributionInv, [Next]_vars, NEW e \in Event, Decided(e),
             verdict'[e] # Skipped
      PROVE  tagged[e.role][verdict'[e]] < Horizon
  <2>1. ProcessEvents /\ verdict'[e] = Verdict(e)
    BY <1>1, DecidedByProcessing
  <2>2. e.role \in Role /\ verdict'[e] = map[e.role] /\ map[e.role] # NoTag
    BY <1>1, <2>1 DEF Verdict, Event
  <2>3. tagged[e.role][map[e.role]] <= TTL - 1 + polling
    BY <1>1, <2>1, <2>2 DEF AttributionInv, FetchInv, Basis, ProcessEvents
  <2>4. tagged[e.role][map[e.role]] \in Int /\ polling \in 0..PollSpan
    BY <1>1, <2>2 DEF TypeOK, Ago
  <2>. QED
    BY <2>2, <2>3, <2>4, AttributionAssumption DEF Horizon
<1>2. TypeOK /\ AttributionInv /\ [Next]_vars =>
        [\A e \in Event : Decided(e) /\ verdict'[e] # Skipped =>
           tagged[e.role][verdict'[e]] < Horizon]_vars
  BY <1>1
<1>. QED
  BY <1>2, TypeCorrect, AttributionInvariant, PTL DEF Spec, PricedAsTagged

(* process_events drops the cost of an invocation only for a cause that is *)
(* less than a TTL and a poll old.                                         *)
THEOREM LostForCause == Spec => SkippedForCause
<1> DEFINE Cause(e) == \/ e.role = Nobody
                       \/ tagged[e.role][NoTag] < Horizon
                       \/ unread[e.role] < Horizon
                       \/ unpriced[e.model] <= PollSpan
<1>1. ASSUME TypeOK, AttributionInv, [Next]_vars, NEW e \in Event, Decided(e),
             verdict'[e] = Skipped
      PROVE  Cause(e)
  <2>1. ProcessEvents /\ Verdict(e) = Skipped
    BY <1>1, DecidedByProcessing
  <2>2. polling \in 0..PollSpan /\ stage = "fetching"
    BY <1>1, <2>1 DEF TypeOK, ProcessEvents
  <2>3. CASE e.role # Nobody /\ e.model \notin cfg
    <3>1. e.model \in Model
      BY DEF Event
    <3>2. unpriced[e.model] <= polling /\ unpriced[e.model] \in Int
      BY <1>1, <2>2, <2>3, <3>1 DEF AttributionInv, PriceInv, InPoll, TypeOK
    <3>. QED
      BY <2>2, <3>2, AttributionAssumption
  <2>4. CASE e.role # Nobody /\ e.model \in cfg
    <3>1. e.role \in Role
      BY <2>4 DEF Event
    <3>2. map[e.role] = NoTag
      BY <1>1, <2>1, <2>4, <3>1, AttributionAssumption
      DEF Verdict, TypeOK, Tag
    <3>3. Basis(e.role, NoTag, TTL - 1 + polling)
      BY <1>1, <2>2, <3>1, <3>2 DEF AttributionInv, FetchInv
    <3>4. tagged[e.role][NoTag] \in Int /\ unread[e.role] \in Int
      BY <1>1, <3>1 DEF TypeOK, Ago, Tag
    <3>. QED
      BY <2>2, <3>3, <3>4, AttributionAssumption DEF Basis, Horizon
  <2>. QED
    BY <2>3, <2>4
<1>2. TypeOK /\ AttributionInv /\ [Next]_vars =>
        [\A e \in Event : Decided(e) /\ verdict'[e] = Skipped =>
           \/ e.role = Nobody
           \/ tagged[e.role][NoTag] < Horizon \/ unread[e.role] < Horizon
           \/ unpriced[e.model] <= PollSpan]_vars
  BY <1>1
<1>. QED
  BY <1>2, TypeCorrect, AttributionInvariant, PTL DEF Spec, SkippedForCause
=============================================================================
