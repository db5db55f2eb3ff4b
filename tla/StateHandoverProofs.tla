-------------------------- MODULE StateHandoverProofs --------------------------
(***************************************************************************)
(* Proofs about StateHandover for any replicas, days, events, terms and    *)
(* failures: no order of loads, saves and flushes bills an event twice or  *)
(* skips one, but for the flushes that torn and crossed count.             *)
(***************************************************************************)
EXTENDS StateHandover, TLAPS

(* A fetch adds to the spend of the events it has not read and moves the   *)
(* watermark to the end of the log.                                        *)
LEMMA PricedIs ==
  ASSUME TypeOK, NEW r \in Replica
  PROVE  /\ Priced(live[r]) \in Snapshot
         /\ Priced(live[r]).day = live[r].day
         /\ Priced(live[r]).since = live[r].since
         /\ Priced(live[r]).wm = Len(log)
         /\ \A e \in Event :
              Priced(live[r]).spend[e] = IF e \in Unread(live[r])
                                         THEN live[r].spend[e] + 1
                                         ELSE live[r].spend[e]
<1> DEFINE bill == [e \in Event |-> IF e \in Unread(live[r])
                                    THEN live[r].spend[e] + 1
                                    ELSE live[r].spend[e]]
<1>1. live[r] \in Snapshot /\ Len(log) \in 0..MaxEvents
  BY DEF TypeOK
<1>2. Priced(live[r]) = [live[r] EXCEPT !.wm = Len(log), !.spend = bill]
  BY DEF Priced
<1>3. bill \in [Event -> Nat]
  BY <1>1 DEF Snapshot
<1>4. \A e \in Event : bill[e] = IF e \in Unread(live[r])
                                  THEN live[r].spend[e] + 1
                                  ELSE live[r].spend[e]
  OBVIOUS
<1> HIDE DEF bill
<1>. QED
  BY <1>1, <1>2, <1>3, <1>4 DEF Snapshot

(* What a tracker begins with and what a flush takes are snapshots.        *)
LEMMA SnapshotTypes ==
  ASSUME TypeOK
  PROVE  /\ Blank \in Snapshot /\ NoSave.body = Blank
         /\ NoSave \in [step : {"idle", "writing", "again"}, body : Snapshot]
         /\ Fresh(day, Len(log)) \in Snapshot
         /\ Fresh(day, LookBackMark) \in Snapshot
         /\ \A r \in Replica : Context(r) \in Snapshot
<1>1. ASSUME NEW d \in 0..LastDay, NEW n \in 0..MaxEvents
      PROVE  Fresh(d, n) \in Snapshot
  BY DEF Fresh, Snapshot, Unpriced
<1>2. Blank \in Snapshot
  BY <1>1, HandoverAssumption DEF Blank
<1>3. Len(log) \in 0..MaxEvents /\ day \in 0..LastDay
  BY DEF TypeOK
<1>4. LookBackMark \in 0..MaxEvents
  BY <1>3, HandoverAssumption DEF LookBackMark
<1>5. ASSUME NEW r \in Replica PROVE Context(r) \in Snapshot
  BY DEF TypeOK, Context, Snapshot
<1>. QED
  BY <1>1, <1>2, <1>3, <1>4, <1>5 DEF NoSave

(* A save fixes its body when it begins and keeps it until it ends.        *)
LEMMA FlushTypes ==
  ASSUME TypeOK, NEW t \in Thread, Flush(t)
  PROVE  /\ save' \in [Thread -> [step : {"idle", "writing", "again"},
                                 body : Snapshot]]
         /\ current' \subseteq Thread /\ torn' \in Nat /\ crossed' \in BOOLEAN
<1>1. t[1] \in Replica
  BY DEF Thread
<1>2. torn' \in Nat /\ crossed' \in BOOLEAN
  BY DEF TypeOK, Flush
<1>3. Context(t[1]) \in Snapshot
  BY <1>1, SnapshotTypes
<1>. QED
  BY <1>2, <1>3 DEF TypeOK, Flush, BeginSave

(* A container that starts again finds typed variables.                    *)
LEMMA RestartTypes ==
  ASSUME TypeOK, NEW r \in Replica, Restart(r), faults' \in Nat PROVE TypeOK'
<1>1. save' \in [Thread -> [step : {"idle", "writing", "again"},
                           body : Snapshot]]
  BY SnapshotTypes DEF TypeOK, Restart
<1>. QED
  BY <1>1, SnapshotTypes
     DEF TypeOK, Restart, MainGoto, WorkerGoto, MainStages, WorkerStages, history

(* Every step of the pods, of the API server and of the world keeps every  *)
(* variable in its type.                                                   *)
LEMMA TypeStep == ASSUME TypeOK, [Next]_vars PROVE TypeOK'
<1> USE HandoverAssumption
    DEF process, history, counters, MainGoto, WorkerGoto, Fault
<1>1. CASE Log \/ Midnight
  <2>1. CASE Log
    <3>1. log' \in Seq(1..LastDay) /\ Len(log') = Len(log) + 1
      BY <2>1 DEF TypeOK, Log
    <3>2. Len(log) \in Nat /\ Len(log) < MaxEvents
      BY <2>1 DEF TypeOK, Log
    <3>. QED
      BY <2>1, <3>1, <3>2 DEF TypeOK, Log
  <2>2. CASE Midnight
    BY <2>2 DEF TypeOK, Midnight
  <2>. QED
    BY <1>1, <2>1, <2>2
<1>2. ASSUME NEW t \in Thread, Store(t) PROVE TypeOK'
  <2>1. save' \in [Thread -> [step : {"idle", "writing", "again"},
                             body : Snapshot]]
    BY <1>2, SnapshotTypes
       DEF TypeOK, Store, Replace, Conflict, SaveFails, EndSave
  <2>2. /\ cm' \in Snapshot /\ current' \subseteq Thread /\ booked' \subseteq Event
        /\ faults' \in Nat
    BY <1>2 DEF TypeOK, Store, Replace, Conflict, SaveFails, Lands
  <2>. QED
    BY <1>2, <2>1, <2>2
       DEF TypeOK, Store, Replace, Conflict, SaveFails, SaveUnchanged
<1>3. ASSUME NEW r \in Replica, Acquire(r) PROVE TypeOK'
  BY <1>3 DEF TypeOK, Acquire, MainStages, WorkerStages
<1>4. ASSUME NEW r \in Replica, OnStopped(r) PROVE TypeOK'
  <2>1. Main(r) \in Thread
    BY DEF Main, Thread
  <2>. QED
    BY <1>4, <2>1, FlushTypes DEF TypeOK, OnStopped, MainStages
<1>5. ASSUME NEW r \in Replica, Join(r) PROVE TypeOK'
  BY <1>5, RestartTypes DEF TypeOK, Join, MainStages
<1>6. ASSUME NEW r \in Replica, Sigterm(r) PROVE TypeOK'
  <2>1. Main(r) \in Thread
    BY DEF Main, Thread
  <2>2. CASE Context(r) = Blank
    BY <1>6, <2>2, SnapshotTypes DEF TypeOK, Sigterm, EndSave, MainStages
  <2>3. CASE Context(r) # Blank
    BY <1>6, <2>1, <2>3, FlushTypes DEF TypeOK, Sigterm, MainStages
  <2>. QED
    BY <2>2, <2>3
<1>7. ASSUME NEW r \in Replica, Exit(r) \/ Kill(r) PROVE TypeOK'
  BY <1>7, RestartTypes DEF TypeOK, Exit, Kill
<1>8. ASSUME NEW r \in Replica, Load(r) PROVE TypeOK'
  BY <1>8, SnapshotTypes
     DEF TypeOK, Load, WorkerUnchanged, NoSaveBegins, WorkerStages
<1>9. ASSUME NEW r \in Replica, Attach(r) PROVE TypeOK'
  <2>1. attached' \in [Replica -> BOOLEAN]
    BY Zenon, <1>9 DEF TypeOK, Attach
  <2>. QED
    BY <1>9, <2>1 DEF TypeOK, Attach, WorkerUnchanged, NoSaveBegins, WorkerStages
<1>10. ASSUME NEW r \in Replica, Persist(r) PROVE TypeOK'
  <2>1. Work(r) \in Thread /\ live[r] \in Snapshot
    BY DEF TypeOK, Work, Thread
  <2>. QED
    BY <1>10, <2>1
       DEF TypeOK, Persist, WorthSaving, BeginSave, WorkerUnchanged, WorkerStages
<1>11. ASSUME NEW r \in Replica, RollDay(r) PROVE TypeOK'
  BY <1>11, SnapshotTypes
     DEF TypeOK, RollDay, WorkerUnchanged, NoSaveBegins, WorkerStages
<1>12. ASSUME NEW r \in Replica, Fetch(r) PROVE TypeOK'
  <2>1. live' \in [Replica -> Snapshot]
    BY <1>12, PricedIs DEF TypeOK, Fetch
  <2>2. faults' \in Nat
    BY <1>12 DEF TypeOK, Fetch
  <2>3. worker' \in [Replica -> WorkerStages]
    BY <1>12 DEF TypeOK, Fetch, WorkerStages
  <2>. QED
    BY <1>12, <2>1, <2>2, <2>3
       DEF TypeOK, Fetch, WorkerUnchanged, NoSaveBegins
<1>13. ASSUME NEW r \in Replica, Leave(r) PROVE TypeOK'
  <2>1. Work(r) \in Thread
    BY DEF Work, Thread
  <2>. QED
    BY <1>13, <2>1, FlushTypes DEF TypeOK, Leave, WorkerUnchanged, WorkerStages
<1>14. ASSUME NEW r \in Replica, WorkerEnds(r) PROVE TypeOK'
  <2>1. attached' \in [Replica -> BOOLEAN]
    BY Zenon, <1>14 DEF TypeOK, WorkerEnds
  <2>. QED
    BY <1>14, <2>1, SnapshotTypes
       DEF TypeOK, WorkerEnds, WorkerUnchanged, NoSaveBegins, WorkerStages
<1>15. CASE UNCHANGED vars
  BY <1>15 DEF TypeOK, vars
<1>. QED
  BY <1>1, <1>2, <1>3, <1>4, <1>5, <1>6, <1>7, <1>8, <1>9, <1>10, <1>11,
     <1>12, <1>13, <1>14, <1>15 DEF Next, MainThread, WorkerThread

(* The first state is typed.                                               *)
LEMMA InitTyped == ASSUME Init PROVE TypeOK
<1> USE HandoverAssumption DEF Init
<1>1. Blank \in Snapshot
  BY DEF Blank, Fresh, Snapshot, Unpriced
<1>2. attached \in [Replica -> BOOLEAN] /\ crossed \in BOOLEAN
  BY Zenon
<1>3. log \in Seq(1..LastDay) /\ Len(log) = 0
  OBVIOUS
<1>4. save \in [Thread -> [step : {"idle", "writing", "again"},
                          body : Snapshot]]
  BY <1>1 DEF NoSave
<1>5. /\ main \in [Replica -> MainStages] /\ worker \in [Replica -> WorkerStages]
      /\ live \in [Replica -> Snapshot] /\ ctx \in [Replica -> Snapshot]
  BY <1>1 DEF MainStages, WorkerStages
<1>. QED
  BY <1>1, <1>2, <1>3, <1>4, <1>5 DEF TypeOK

(* Every state of the replicas is typed, for any bounds.                   *)
THEOREM TypeCorrect == Spec => []TypeOK
  BY InitTyped, TypeStep, PTL DEF Spec

-----------------------------------------------------------------------------
(* A snapshot that may be loaded or saved, with lg logged and n torn       *)
(* flushes behind it: no event is priced more often than these explain,    *)
(* nor one beyond the watermark, which the next fetch prices again; and    *)
(* unless c, no event up to the watermark is missing.                      *)
Sound(s, lg, n, c) ==
  /\ s.wm <= Len(lg)
  /\ \A e \in Event : s.spend[e] <= 1 + n
  /\ \A e \in Event : e > s.wm => s.spend[e] <= n
  /\ ~c => \A e \in 1..Len(lg) :
             s.since < e /\ e <= s.wm /\ lg[e] = s.day => s.spend[e] > 0

(* So is whatever may yet be loaded, saved or flushed: the ConfigMap, the  *)
(* trackers, the save contexts, the bodies of saves in flight and, while a *)
(* worker is in its finally block, what it has just flushed.               *)
SnapshotsInv ==
  /\ Sound(cm, log, torn, crossed)
  /\ \A r \in Replica : /\ Sound(live[r], log, torn, crossed)
                        /\ Sound(ctx[r], log, torn, crossed)
                        /\ worker[r] = "leaving" =>
                             Sound(Context(r), log, torn, crossed)
  /\ \A t \in Thread : Sound(save[t].body, log, torn, crossed)

(* A tracker that begins after what is logged has nothing to answer for.   *)
LEMMA FreshIsSound ==
  ASSUME NEW d, NEW n \in 0..Len(log), NEW k \in Nat, NEW c, Len(log) \in Nat
  PROVE  Sound(Fresh(d, n), log, k, c)
  BY DEF Sound, Fresh, Unpriced, Event

(* So is the snapshot of a ConfigMap that is not there, or not of today.   *)
LEMMA BlankIsSound ==
  ASSUME TypeOK, NEW k \in Nat, NEW c PROVE Sound(Blank, log, k, c)
<1>1. Len(log) \in Nat /\ 0 \in 0..Len(log)
  BY DEF TypeOK
<1>. QED
  BY <1>1, FreshIsSound DEF Blank

(* More torn flushes, or one that crossed, explain no less.                *)
LEMMA SoundGrows ==
  ASSUME NEW s \in Snapshot, NEW n \in Nat, NEW m \in Nat, n <= m,
         NEW b \in BOOLEAN, NEW c \in BOOLEAN, b => c, NEW lg, Sound(s, lg, n, b)
  PROVE  Sound(s, lg, m, c)
<1>1. ASSUME NEW e \in Event
      PROVE  s.spend[e] <= 1 + m /\ (e > s.wm => s.spend[e] <= m)
  <2>1. s.spend[e] \in Nat /\ s.wm \in Nat
    BY DEF Snapshot
  <2>. QED
    BY <2>1 DEF Sound
<1>. QED
  BY <1>1 DEF Sound

(* An event logged is beyond every watermark.                              *)
LEMMA SoundLogs ==
  ASSUME TypeOK, NEW s \in Snapshot, NEW n \in Nat, NEW c \in BOOLEAN,
         Sound(s, log, n, c), NEW d \in 1..LastDay
  PROVE  Sound(s, Append(log, d), n, c)
<1>1. /\ Len(log) \in Nat /\ Len(Append(log, d)) = Len(log) + 1
      /\ \A e \in 1..Len(log) : Append(log, d)[e] = log[e]
  BY DEF TypeOK
<1>2. s.wm \in Nat /\ s.wm <= Len(log)
  BY DEF Sound, Snapshot
<1>. QED
  BY <1>1, <1>2 DEF Sound

(* What a flush saves is explained once the flush is counted: a watermark  *)
(* behind the tracker's makes it torn, one ahead of it makes it crossed.   *)
LEMMA ContextIsSound ==
  ASSUME TypeOK, NEW r \in Replica,
         Sound(live[r], log, torn, crossed), Sound(ctx[r], log, torn, crossed)
  PROVE  Sound(Context(r), log,
               IF attached[r] /\ ctx[r].wm < live[r].wm THEN torn + 1 ELSE torn,
               crossed \/ (attached[r] /\ ctx[r].wm > live[r].wm))
<1>1. /\ live[r] \in Snapshot /\ ctx[r] \in Snapshot
      /\ torn \in Nat /\ crossed \in BOOLEAN /\ Len(log) \in Nat
  BY DEF TypeOK
<1>2. CASE ~attached[r]
  BY <1>1, <1>2 DEF Context
<1>3. CASE attached[r]
  <2> DEFINE s == Context(r)
             n == IF ctx[r].wm < live[r].wm THEN torn + 1 ELSE torn
             c == crossed \/ ctx[r].wm > live[r].wm
  <2>1. /\ s.wm = ctx[r].wm /\ s.spend = live[r].spend
        /\ s.day = live[r].day /\ s.since = live[r].since
    BY <1>1, <1>3 DEF Context, Snapshot
  <2>2. /\ live[r].wm \in Nat /\ ctx[r].wm \in Nat /\ ctx[r].wm <= Len(log)
        /\ \A e \in Event : live[r].spend[e] \in Nat
    BY <1>1 DEF Snapshot, Sound
  <2>3. ASSUME NEW e \in Event
        PROVE  s.spend[e] <= 1 + n /\ (e > s.wm => s.spend[e] <= n)
    BY <1>1, <2>1, <2>2 DEF Sound, Event
  <2>4. ASSUME ~c, NEW e \in 1..Len(log),
               s.since < e, e <= s.wm, log[e] = s.day
        PROVE  s.spend[e] > 0
    BY <1>1, <2>1, <2>2, <2>4 DEF Sound
  <2> HIDE DEF s, n, c
  <2>5. Sound(s, log, n, c)
    BY <2>1, <2>2, <2>3, <2>4 DEF Sound
  <2>. QED
    BY <1>3, <2>5 DEF s, n, c
<1>. QED
  BY <1>2, <1>3

(* A fetch prices each event beyond the watermark once, and has priced all *)
(* of its day up to the new one.                                           *)
LEMMA PricedIsSound ==
  ASSUME TypeOK, NEW r \in Replica, Sound(live[r], log, torn, crossed)
  PROVE  Sound(Priced(live[r]), log, torn, crossed)
<1>1. /\ live[r].wm \in Nat /\ live[r].since \in Nat
      /\ \A e \in Event : live[r].spend[e] \in Nat
  BY DEF TypeOK, Snapshot
<1>2. /\ torn \in Nat /\ Len(log) \in Nat /\ Len(log) <= MaxEvents /\ MaxEvents \in Nat
  BY HandoverAssumption DEF TypeOK
<1>3. ASSUME NEW e \in Event
      PROVE  /\ Priced(live[r]).spend[e] <= 1 + torn
             /\ e > Len(log) => Priced(live[r]).spend[e] <= torn
  <2>1. CASE e \in Unread(live[r])
    <3>1. e <= Len(log) /\ e > live[r].wm
      BY <1>2, <2>1 DEF Unread
    <3>2. Priced(live[r]).spend[e] = live[r].spend[e] + 1
      BY <2>1, PricedIs
    <3>3. live[r].spend[e] <= torn
      BY <3>1 DEF Sound
    <3>. QED
      BY <1>1, <1>2, <3>1, <3>2, <3>3 DEF Event
  <2>2. CASE e \notin Unread(live[r])
    <3>1. Priced(live[r]).spend[e] = live[r].spend[e]
      BY <2>2, PricedIs
    <3>2. e > Len(log) => e > live[r].wm
      BY <1>1, <1>2 DEF Sound, Event
    <3>. QED
      BY <3>1, <3>2 DEF Sound
  <2>. QED
    BY <2>1, <2>2
<1>4. ASSUME ~crossed, NEW e \in 1..Len(log), live[r].since < e,
             log[e] = live[r].day
      PROVE  Priced(live[r]).spend[e] > 0
  <2>1. e \in Event
    BY <1>2 DEF Event
  <2>2. CASE e <= live[r].wm
    <3>1. live[r].spend[e] > 0
      BY <1>4, <2>2 DEF Sound
    <3>. QED
      BY <1>1, <2>1, <3>1, PricedIs
  <2>3. CASE e > live[r].wm
    <3>1. e \in Unread(live[r])
      BY <1>4, <2>3 DEF Unread
    <3>. QED
      BY <1>1, <2>1, <3>1, PricedIs
  <2>. QED
    BY <1>1, <2>2, <2>3
<1>. QED
  BY <1>2, <1>3, <1>4, PricedIs DEF Sound

-----------------------------------------------------------------------------
(* A flush saves an explained snapshot and unexplains no other.            *)
LEMMA FlushIsSound ==
  ASSUME TypeOK, SnapshotsInv, NEW t \in Thread, Flush(t)
  PROVE  /\ \A s \in Snapshot :
              Sound(s, log, torn, crossed) => Sound(s, log, torn', crossed')
         /\ \A u \in Thread : Sound(save'[u].body, log, torn', crossed')
         /\ Sound(Context(t[1]), log, torn', crossed')
<1>1. /\ t[1] \in Replica /\ torn \in Nat /\ crossed \in BOOLEAN
      /\ \A r \in Replica : live[r] \in Snapshot /\ ctx[r] \in Snapshot
      /\ \A u \in Thread : save[u].body \in Snapshot
  BY DEF TypeOK, Thread
<1>2. torn' \in Nat /\ torn <= torn' /\ crossed' \in BOOLEAN /\ (crossed => crossed')
  BY <1>1 DEF Flush
<1>3. \A s \in Snapshot :
        Sound(s, log, torn, crossed) => Sound(s, log, torn', crossed')
  BY <1>1, <1>2, SoundGrows
<1>4. Sound(Context(t[1]), log, torn', crossed')
  <2>1. Sound(live[t[1]], log, torn, crossed) /\ Sound(ctx[t[1]], log, torn, crossed)
    BY <1>1 DEF SnapshotsInv
  <2>2. /\ torn' = IF attached[t[1]] /\ ctx[t[1]].wm < live[t[1]].wm
                   THEN torn + 1 ELSE torn
        /\ crossed' = (crossed \/ (attached[t[1]] /\ ctx[t[1]].wm > live[t[1]].wm))
    BY DEF Flush
  <2>. QED
    BY <1>1, <2>1, <2>2, ContextIsSound
<1>5. ASSUME NEW u \in Thread PROVE Sound(save'[u].body, log, torn', crossed')
  <2>1. Sound(save[u].body, log, torn', crossed')
    BY <1>1, <1>3 DEF SnapshotsInv
  <2>2. save'[u].body \in {save[u].body, Context(t[1])}
    BY DEF TypeOK, Flush, BeginSave
  <2>. QED
    BY <1>4, <2>1, <2>2
<1>. QED
  BY <1>3, <1>4, <1>5

(* A container that starts again holds nothing.                            *)
LEMMA RestartIsSound ==
  ASSUME TypeOK, SnapshotsInv, NEW r \in Replica, Restart(r)
  PROVE  SnapshotsInv'
<1>1. Sound(Blank, log, torn, crossed) /\ NoSave.body = Blank
  BY BlankIsSound DEF TypeOK, NoSave
<1>2. UNCHANGED <<log, cm, torn, crossed>>
  BY DEF Restart, history
<1>3. ASSUME NEW t \in Thread PROVE save'[t].body \in {save[t].body, Blank}
  BY <1>1 DEF Restart
<1>4. ASSUME NEW q \in Replica
      PROVE  /\ Sound(live'[q], log, torn, crossed)
             /\ Sound(ctx'[q], log, torn, crossed)
             /\ worker'[q] = "leaving" => Sound(Context(q)', log, torn, crossed)
  <2>1. CASE q = r
    BY <1>1, <2>1 DEF TypeOK, Restart, WorkerGoto
  <2>2. CASE q # r
    <3>1. /\ live'[q] = live[q] /\ ctx'[q] = ctx[q] /\ attached'[q] = attached[q]
          /\ worker'[q] = worker[q]
      BY <2>2 DEF TypeOK, Restart, WorkerGoto
    <3>. QED
      BY <3>1 DEF SnapshotsInv, Context
  <2>. QED
    BY <2>1, <2>2
<1>. QED
  BY <1>1, <1>2, <1>3, <1>4 DEF SnapshotsInv

(* Steps of a worker change its own tracker and context only.              *)
LEMMA OthersStay ==
  ASSUME TypeOK, SnapshotsInv, NEW r \in Replica,
         UNCHANGED <<log, cm, torn, crossed>>,
         \A q \in Replica \ {r} : /\ live'[q] = live[q] /\ ctx'[q] = ctx[q]
                                  /\ attached'[q] = attached[q]
                                  /\ worker'[q] = worker[q],
         Sound(live'[r], log, torn, crossed), Sound(ctx'[r], log, torn, crossed),
         worker'[r] # "leaving",
         \A t \in Thread : Sound(save'[t].body, log, torn, crossed)
  PROVE  SnapshotsInv'
  BY DEF SnapshotsInv, Context

(* No step leaves a snapshot unexplained.                                  *)
LEMMA SnapshotsStep ==
  ASSUME TypeOK, SnapshotsInv, [Next]_vars PROVE SnapshotsInv'
<1> USE DEF process, history, counters
<1>1. /\ torn \in Nat /\ crossed \in BOOLEAN /\ cm \in Snapshot
      /\ \A r \in Replica : /\ live[r] \in Snapshot /\ ctx[r] \in Snapshot
                             /\ Context(r) \in Snapshot
      /\ \A t \in Thread : save[t].body \in Snapshot
  BY SnapshotTypes DEF TypeOK
<1>2. CASE Log
  <2>1. log' = Append(log, day) /\ day \in 1..LastDay
    BY <1>2 DEF Log, TypeOK
  <2>2. ASSUME NEW s \in Snapshot, Sound(s, log, torn, crossed)
        PROVE  Sound(s, log', torn, crossed)
    BY <1>1, <2>1, <2>2, SoundLogs
  <2>3. UNCHANGED <<cm, live, ctx, attached, worker, save, torn, crossed>>
    BY <1>2 DEF Log
  <2>. QED
    BY <1>1, <2>2, <2>3 DEF SnapshotsInv, Context
<1>3. CASE Midnight \/ UNCHANGED vars
  <2>1. UNCHANGED <<log, cm, live, ctx, attached, worker, save, torn, crossed>>
    BY <1>3 DEF Midnight, vars
  <2>. QED
    BY <2>1 DEF SnapshotsInv, Context
<1>4. ASSUME NEW t \in Thread, Store(t) PROVE SnapshotsInv'
  <2>1. UNCHANGED <<log, live, ctx, attached, worker, torn, crossed>>
    BY <1>4 DEF Store, Replace, Conflict, SaveFails, SaveUnchanged
  <2>2. cm' \in {cm, save[t].body}
    BY <1>4 DEF Store, Replace, Conflict, SaveFails, Lands
  <2>3. ASSUME NEW u \in Thread PROVE save'[u].body \in {save[u].body, Blank}
    BY <1>4 DEF TypeOK, Store, Replace, Conflict, SaveFails, EndSave, NoSave
  <2>4. Sound(Blank, log, torn, crossed)
    BY <1>1, BlankIsSound
  <2>. QED
    BY <2>1, <2>2, <2>3, <2>4 DEF SnapshotsInv, Context
<1>5. ASSUME NEW r \in Replica, Acquire(r) PROVE SnapshotsInv'
  <2>1. /\ UNCHANGED <<log, cm, live, ctx, attached, save, torn, crossed>>
        /\ worker' = [worker EXCEPT ![r] = "loading"]
    BY <1>5 DEF Acquire, WorkerGoto
  <2>. QED
    BY <2>1, OthersStay DEF TypeOK, SnapshotsInv
<1>6. ASSUME NEW r \in Replica, NEW t \in Thread, t[1] = r, Flush(t),
             UNCHANGED <<log, cm, live, ctx, attached>>,
             \A q \in Replica \ {r} : worker'[q] = worker[q]
      PROVE  SnapshotsInv'
  BY <1>1, <1>6, FlushIsSound DEF SnapshotsInv, Context
<1>7. ASSUME NEW r \in Replica, OnStopped(r) PROVE SnapshotsInv'
  BY <1>6, <1>7 DEF OnStopped, Main, Thread
<1>8. ASSUME NEW r \in Replica, Join(r) PROVE SnapshotsInv'
  <2>1. CASE main[r] = "ending"
    BY <1>8, <2>1, RestartIsSound DEF Join
  <2>2. CASE main[r] # "ending"
    BY <1>8, <2>2 DEF Join, SnapshotsInv, Context
  <2>. QED
    BY <2>1, <2>2
<1>9. ASSUME NEW r \in Replica, Sigterm(r) PROVE SnapshotsInv'
  <2>1. CASE Context(r) = Blank
    <3>1. UNCHANGED <<log, cm, live, ctx, attached, worker, torn, crossed>>
      BY <1>9, <2>1 DEF Sigterm
    <3>2. save' = [save EXCEPT ![Main(r)] = NoSave]
      BY <1>9, <2>1 DEF Sigterm, EndSave
    <3>3. ASSUME NEW u \in Thread PROVE save'[u].body \in {save[u].body, Blank}
      BY <3>2 DEF TypeOK, NoSave
    <3>4. Sound(Blank, log, torn, crossed)
      BY <1>1, BlankIsSound
    <3>. QED
      BY <3>1, <3>3, <3>4 DEF SnapshotsInv, Context
  <2>2. CASE Context(r) # Blank
    BY <1>6, <1>9, <2>2 DEF Sigterm, Main, Thread
  <2>. QED
    BY <2>1, <2>2
<1>10. ASSUME NEW r \in Replica, Exit(r) \/ Kill(r) PROVE SnapshotsInv'
  BY <1>10, RestartIsSound DEF Exit, Kill
<1>11. ASSUME NEW r \in Replica, Load(r) PROVE SnapshotsInv'
  <2>1. LookBackMark \in 0..Len(log) /\ Len(log) \in Nat
    BY HandoverAssumption DEF TypeOK, LookBackMark
  <2>2. Sound(Fresh(day, LookBackMark), log, torn, crossed)
    BY <1>1, <2>1, FreshIsSound
  <2>3. Sound(live'[r], log, torn, crossed)
    BY <1>11, <2>2 DEF TypeOK, Load, SnapshotsInv
  <2>. QED
    BY <1>11, <2>3, OthersStay
       DEF TypeOK, Load, WorkerGoto, WorkerUnchanged, NoSaveBegins, SnapshotsInv
<1>12. ASSUME NEW r \in Replica, Attach(r) PROVE SnapshotsInv'
  BY <1>12, OthersStay
     DEF TypeOK, Attach, WorkerGoto, WorkerUnchanged, NoSaveBegins, SnapshotsInv
<1>13. ASSUME NEW r \in Replica, Persist(r) PROVE SnapshotsInv'
  <2>1. ASSUME NEW t \in Thread PROVE save'[t].body \in {save[t].body, live[r]}
    BY <1>13 DEF TypeOK, Persist, WorthSaving, BeginSave
  <2>2. Sound(ctx'[r], log, torn, crossed)
    BY <1>13 DEF TypeOK, Persist, SnapshotsInv
  <2>3. \A t \in Thread : Sound(save'[t].body, log, torn, crossed)
    BY <2>1 DEF SnapshotsInv
  <2>. QED
    BY <1>13, <2>2, <2>3, OthersStay
       DEF TypeOK, Persist, WorkerGoto, WorkerUnchanged, SnapshotsInv
<1>14. ASSUME NEW r \in Replica, RollDay(r) PROVE SnapshotsInv'
  <2>1. Len(log) \in Nat /\ Len(log) \in 0..Len(log)
    BY DEF TypeOK
  <2>2. Sound(Fresh(day, Len(log)), log, torn, crossed)
    BY <1>1, <2>1, FreshIsSound
  <2>3. Sound(live'[r], log, torn, crossed)
    BY <1>14, <2>2 DEF TypeOK, RollDay
  <2>. QED
    BY <1>14, <2>3, OthersStay
       DEF TypeOK, RollDay, WorkerGoto, WorkerUnchanged, NoSaveBegins, SnapshotsInv
<1>15. ASSUME NEW r \in Replica, Fetch(r) PROVE SnapshotsInv'
  <2>1. live' \in {live, [live EXCEPT ![r] = Priced(live[r])]}
    BY <1>15 DEF Fetch
  <2>2. /\ Sound(live'[r], log, torn, crossed)
        /\ \A q \in Replica \ {r} : live'[q] = live[q]
    BY <2>1, PricedIsSound DEF TypeOK, SnapshotsInv
  <2>3. /\ UNCHANGED <<log, cm, torn, crossed, ctx, attached, save>>
        /\ worker' = [worker EXCEPT ![r] = "persisting"]
    BY <1>15 DEF Fetch, WorkerGoto, WorkerUnchanged, NoSaveBegins
  <2>. QED
    BY <2>2, <2>3, OthersStay DEF TypeOK, SnapshotsInv
<1>16. ASSUME NEW r \in Replica, Leave(r) PROVE SnapshotsInv'
  BY <1>6, <1>16
     DEF TypeOK, Leave, WorkerGoto, WorkerUnchanged, Work, Thread
<1>17. ASSUME NEW r \in Replica, WorkerEnds(r) PROVE SnapshotsInv'
  <2>1. Sound(Context(r), log, torn, crossed)
    BY <1>17 DEF WorkerEnds, SnapshotsInv
  <2>2. Sound(Blank, log, torn, crossed)
    BY <1>1, BlankIsSound
  <2>3. ctx'[r] = Context(r) /\ live'[r] = Blank
    BY <1>17 DEF TypeOK, WorkerEnds
  <2>. QED
    BY <1>17, <2>1, <2>2, <2>3, OthersStay
       DEF TypeOK, WorkerEnds, WorkerGoto, WorkerUnchanged, NoSaveBegins,
           SnapshotsInv
<1>. QED
  BY <1>2, <1>3, <1>4, <1>5, <1>7, <1>8, <1>9, <1>10, <1>11, <1>12, <1>13,
     <1>14, <1>15, <1>16, <1>17 DEF Next, MainThread, WorkerThread

(* Every snapshot there is in a replica or in the ConfigMap is explained   *)
(* by the torn and the crossed flushes so far.                             *)
THEOREM HandoverInvariant == Spec => [](TypeOK /\ SnapshotsInv)
<1>1. Init => TypeOK /\ SnapshotsInv
  <2> SUFFICES ASSUME Init PROVE TypeOK /\ SnapshotsInv
    OBVIOUS
  <2>1. TypeOK
    BY InitTyped
  <2>2. Sound(Blank, log, torn, crossed)
    BY <2>1, BlankIsSound DEF Init
  <2>. QED
    BY <2>1, <2>2 DEF Init, NoSave, SnapshotsInv
<1>2. TypeOK /\ SnapshotsInv /\ [Next]_vars => (TypeOK /\ SnapshotsInv)'
  BY TypeStep, SnapshotsStep
<1>. QED
  BY <1>1, <1>2, PTL DEF Spec

(* No order of loads, saves, flushes and failures of any number of         *)
(* replicas bills an event more than once, but for one time per torn flush.*)
THEOREM EventsAreBilledOnce == Spec => []BilledOnce
<1>1. SnapshotsInv => BilledOnce
  BY DEF SnapshotsInv, Sound, BilledOnce, Trackers
<1>. QED
  BY <1>1, HandoverInvariant, PTL

(* Nor does it skip an event between a tracker's beginning and its         *)
(* watermark, unless a flush crossed two trackers.                         *)
THEOREM NoEventIsSkipped == Spec => []SpendIsComplete
<1>1. SnapshotsInv => SpendIsComplete
  BY DEF SnapshotsInv, Sound, SpendIsComplete, Trackers
<1>. QED
  BY <1>1, HandoverInvariant, PTL
=============================================================================
