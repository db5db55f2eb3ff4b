-------------------------- MODULE LogIngestProofs --------------------------
(***************************************************************************)
(* Proofs about LogIngest for every set of events, every overlap, day and  *)
(* fetch length, and every bound.                                          *)
(***************************************************************************)
EXTENDS LogIngest, TLAPS

(* A day number is an integer.                                             *)
LEMMA DayOfType == ASSUME NEW t \in Nat PROVE DayOf(t) \in Int
  BY TimesAssumption DEF DayOf

(* What pagination returns was asked for.                                  *)
LEMMA PagesAreMatching ==
  ASSUME NEW M, NEW S \in Pages(M) PROVE S \subseteq M
  BY DEF Pages

(* Every state of the process, the log and the state file has the shape    *)
(* TypeOK says, over all polls, crashes, flushes and restarts.             *)
THEOREM TypeCorrect == Spec => []TypeOK
<1>1. Init => TypeOK
  BY TimesAssumption DEF Init, TypeOK, Stages, Nothing, NoDay, Snapshot
<1>2. TypeOK /\ [Next]_vars => TypeOK'
  <2> SUFFICES ASSUME TypeOK, [Next]_vars PROVE TypeOK'
    OBVIOUS
  <2> USE TimesAssumption, BoundsAssumption DEF TypeOK, Stages
  <2>1. CASE Tick
    BY <2>1 DEF Tick, trackerVars, fetchVars, faultVars, historyVars
  <2>2. ASSUME NEW e \in Event, Deliver(e) PROVE TypeOK'
    BY <2>2 DEF Deliver, trackerVars, fetchVars, faultVars, historyVars
  <2>3. ASSUME NEW readable \in BOOLEAN, Boot(readable) PROVE TypeOK'
    <3>1. DayOf(now) \in Int
      BY DayOfType
    <3>2. billed' \in [Event -> Nat] /\ watermark' \in Int /\ floor' \in Int
      BY <2>3 DEF Boot, Resumed, Fresh, Nothing, Snapshot
    <3>. QED
      BY <2>3, <3>1, <3>2 DEF Boot, environment, fetchVars
  <2>4. ASSUME NEW ok \in BOOLEAN, Save(ok), UNCHANGED fetchVars PROVE TypeOK'
    BY <2>4 DEF Save, CompactSnapshot, Snapshot, environment, trackerVars,
                fetchVars, faultVars, historyVars
  <2>5. CASE RollDay
    BY <2>5, DayOfType DEF RollDay, Nothing, environment, fetchVars, faultVars,
                           historyVars
  <2>6. CASE RollWatermark
    BY <2>6 DEF RollWatermark, environment, trackerVars, fetchVars, faultVars,
                historyVars
  <2>7. CASE BeginFetch
    BY <2>7 DEF BeginFetch, environment, trackerVars, faultVars, historyVars
  <2>8. CASE FetchOk
    <3>1. PICK late \in SUBSET (log \ visible) :
            \E page \in Pages({e \in visible \cup late : InWindow(e)}) :
              raw' = page /\ todo' = page
      BY <2>8 DEF FetchOk
    <3>2. raw' \subseteq Event /\ todo' \subseteq Event
      BY <3>1, PagesAreMatching
    <3>. QED
      BY <2>8, <3>2 DEF FetchOk, environment, trackerVars, faultVars, historyVars
  <2>9. CASE FetchFail
    BY <2>9 DEF FetchFail, environment, trackerVars, faultVars, historyVars
  <2>10. ASSUME NEW e \in Event, ProcessEvent(e) PROVE TypeOK'
    BY <2>10 DEF ProcessEvent, environment, faultVars
  <2>11. CASE Advance
    BY <2>11 DEF Advance, NewestOf, environment, faultVars, historyVars
  <2>12. ASSUME ProcessEnds, stored' \in Snapshot, torn' \in Nat,
                crashes' \in Nat, sigterms' \in Nat, loadFaults' \in Nat
         PROVE  TypeOK'
    BY <2>12 DEF ProcessEnds, Nothing, NoDay, environment
  <2>13. CASE Crash
    BY <2>12, <2>13 DEF Crash
  <2>14. ASSUME NEW ok \in BOOLEAN, Sigterm(ok) PROVE TypeOK'
    <3>1. stored' \in Snapshot /\ torn' \in Nat
      BY <2>14 DEF Sigterm, FlushState, CompactSnapshot, Snapshot
    <3>. QED
      BY <2>12, <2>14, <3>1 DEF Sigterm
  <2>15. CASE UNCHANGED vars
    BY <2>15 DEF vars, environment, trackerVars, fetchVars, faultVars, historyVars
  <2>. QED
    BY <2>1, <2>2, <2>3, <2>4, <2>5, <2>6, <2>7, <2>8, <2>9, <2>10, <2>11,
       <2>13, <2>14, <2>15
    DEF Next, Start, Poll, Stop, FirstPersist, Persist
<1>. QED
  BY <1>1, <1>2, PTL DEF Spec

-----------------------------------------------------------------------------
(***************************************************************************)
(* An event is priced once.  BilledOnce is not inductive: that the next    *)
(* fetch does not price an event again depends on what it can return.  An  *)
(* event priced torn + 1 times must be out of its reach, which is to say   *)
(* seen, or below the window; in the file it must be at or below the saved *)
(* watermark, where the next process puts its floor.                       *)
(***************************************************************************)
Spent(n, e) == n[e] = torn + 1

(* The file bills nothing torn + 1 times that a restart fetches again.     *)
FileInv ==
  \A e \in Event :
    /\ stored.billed[e] <= torn + 1
    /\ Spent(stored.billed, e) => ts[e] <= stored.wm

(* What the process has priced it has seen or can no longer fetch, and the *)
(* watermark will cover it by the next save.                               *)
PricedInv ==
  \A e \in Event :
    /\ billed[e] <= torn + 1
    /\ Spent(billed, e) => e \in seen \/ ~InWindow(e)
    /\ Spent(billed, e) => ts[e] <= watermark \/ e \in raw

(* The seen set never empties behind the watermark: an id at or above it   *)
(* survives every prune, and without ids the floor is no lower.            *)
WindowInv ==
  pc \notin {"down", "rolling"} =>
    IF seen = {} THEN floor >= watermark ELSE \E x \in seen : ts[x] >= watermark

(* The raw events of a poll: fetched from the window, seen once processed. *)
RawInv ==
  /\ \A e \in raw : InWindow(e)
  /\ todo \subseteq raw /\ raw \ todo \subseteq seen
  /\ pc # "processing" => raw = {}

(* Nothing is priced while the tracker is down or being reset.             *)
ResetInv == pc \in {"down", "rolling"} => seen = {} /\ billed = Nothing

BillingInv == FileInv /\ PricedInv /\ WindowInv /\ RawInv /\ ResetInv

(* What BillingInv speaks of, the program counter aside.                   *)
billingVars == <<billed, seen, watermark, floor, raw, todo, stored, torn>>

(* An empty tracker has priced nothing.                                    *)
LEMMA NothingPriced ==
  ASSUME TypeOK', billed' = Nothing
  PROVE  PricedInv'
<1>1. \A e \in Event : billed'[e] = 0
  BY DEF Nothing
<1>2. torn' \in Nat
  BY DEF TypeOK
<1>. QED
  BY <1>1, <1>2 DEF PricedInv, Spent

(* The start of the window, once ids are seen: not below the overlap, and  *)
(* it only moves up with the watermark.                                    *)
LEMMA WindowStart ==
  ASSUME NEW t \in Nat, NEW fl \in Int, NEW wm \in Int, NEW wm2 \in Int
  PROVE  /\ t < wm - Overlap => ~(t >= Later(fl, wm - Overlap))
         /\ wm <= wm2 /\ ~(t >= Later(fl, wm - Overlap))
              => ~(t >= Later(fl, wm2 - Overlap))
         /\ t >= fl /\ ~(t >= Later(fl, wm - Overlap)) => t < wm - Overlap
  BY TimesAssumption DEF Later

(* What is at or above the watermark survives prune_seen, and what does    *)
(* not is below the overlap.                                               *)
LEMMA KeepAfterBounds ==
  ASSUME NEW wm \in Int, NEW t \in Nat
  PROVE  /\ t >= wm => t >= KeepAfter(wm)
         /\ ~(t >= KeepAfter(wm)) => t < wm - Overlap
  BY TimesAssumption DEF KeepAfter, Later

(* A step that leaves all of it alone and neither ends nor starts a stage  *)
(* BillingInv tells apart keeps the invariant.                             *)
LEMMA BillingUnchanged ==
  ASSUME TypeOK, BillingInv, UNCHANGED billingVars,
         pc \notin {"down", "rolling"}, pc' \notin {"down", "rolling"},
         raw = {}
  PROVE  BillingInv'
  BY DEF BillingInv, billingVars, FileInv, PricedInv, WindowInv, RawInv, ResetInv,
         Spent, InWindow, FetchStart

(* A save leaves nothing priced torn + 1 times above the saved watermark.  *)
LEMMA BillingSave ==
  ASSUME TypeOK, BillingInv, NEW ok \in BOOLEAN, Save(ok), UNCHANGED fetchVars,
         pc \in {"boot", "persisting"}
  PROVE  BillingInv'
<1>1. FileInv'
  <2>1. raw = {}
    BY DEF BillingInv, RawInv
  <2>. QED
    BY <2>1 DEF Save, CompactSnapshot, BillingInv, FileInv, PricedInv, Spent,
                TypeOK, trackerVars, historyVars
<1>2. PricedInv' /\ WindowInv' /\ RawInv' /\ ResetInv'
  BY DEF Save, BillingInv, PricedInv, WindowInv, RawInv, ResetInv, Spent,
         InWindow, FetchStart, trackerVars, fetchVars, historyVars
<1>. QED
  BY <1>1, <1>2 DEF BillingInv

(* A start: the floor stands above everything the file bills torn + 1      *)
(* times.                                                                  *)
LEMMA BillingBoot ==
  ASSUME TypeOK, TypeOK', BillingInv, NEW readable \in BOOLEAN, Boot(readable)
  PROVE  BillingInv'
<1>. USE TimesAssumption
<1>1. FileInv'
  BY DEF Boot, BillingInv, FileInv, Spent
<1>2. raw' = {} /\ todo' = {} /\ seen' = {} /\ torn' = torn /\ pc' = "boot"
  BY DEF Boot, BillingInv, RawInv, fetchVars
<1>3. floor' >= watermark'
  BY DEF Boot, Resumed, Fresh, TypeOK, Snapshot
<1>4. PricedInv'
  <2> SUFFICES ASSUME NEW e \in Event
               PROVE  /\ billed'[e] <= torn + 1
                      /\ billed'[e] = torn + 1 => ts[e] <= watermark' /\ ts[e] < floor'
    BY <1>2 DEF PricedInv, Spent, InWindow, FetchStart, TypeOK
  <2>1. CASE readable /\ stored.day = DayOf(now)
    BY <2>1 DEF Boot, Resumed, BillingInv, FileInv, Spent, TypeOK, Snapshot
  <2>2. CASE ~(readable /\ stored.day = DayOf(now))
    BY <2>2 DEF Boot, Fresh, Nothing, TypeOK
  <2>. QED
    BY <2>1, <2>2
<1>5. WindowInv' /\ RawInv' /\ ResetInv'
  BY <1>2, <1>3 DEF WindowInv, RawInv, ResetInv
<1>. QED
  BY <1>1, <1>4, <1>5 DEF BillingInv

(* The day roll: nothing is priced from the reset to the new floor.        *)
LEMMA BillingRoll ==
  ASSUME TypeOK, TypeOK', BillingInv, RollDay \/ RollWatermark
  PROVE  BillingInv'
<1>1. FileInv' /\ RawInv'
  BY DEF RollDay, RollWatermark, BillingInv, FileInv, RawInv, Spent, fetchVars,
         historyVars
<1>2. billed' = Nothing /\ seen' = {}
  BY DEF RollDay, RollWatermark, BillingInv, ResetInv, trackerVars
<1>3. PricedInv'
  BY <1>2, NothingPriced
<1>4. WindowInv' /\ ResetInv'
  BY <1>2 DEF RollDay, RollWatermark, WindowInv, ResetInv, TypeOK
<1>. QED
  BY <1>1, <1>3, <1>4 DEF BillingInv

(* A fetch returns events of the window.                                   *)
LEMMA BillingFetch ==
  ASSUME TypeOK, TypeOK', BillingInv, FetchOk
  PROVE  BillingInv'
<1>1. \A e \in raw' : InWindow(e)
  BY PagesAreMatching DEF FetchOk
<1>2. todo' = raw' /\ pc = "fetching" /\ pc' = "processing"
  BY DEF FetchOk
<1>3. UNCHANGED <<billed, seen, watermark, floor, stored, torn>>
  BY DEF FetchOk, trackerVars, historyVars
<1>4. FileInv' /\ WindowInv' /\ ResetInv'
  BY <1>2, <1>3 DEF BillingInv, FileInv, WindowInv, ResetInv, Spent
<1>5. PricedInv'
  BY <1>2, <1>3 DEF BillingInv, PricedInv, RawInv, Spent, InWindow, FetchStart
<1>6. RawInv'
  BY <1>1, <1>2, <1>3 DEF RawInv, InWindow, FetchStart
<1>. QED
  BY <1>4, <1>5, <1>6 DEF BillingInv

(* process_events prices only what it may: an event of the window that is  *)
(* not seen has not been priced torn + 1 times.                            *)
LEMMA UnseenMayBePriced ==
  ASSUME TypeOK, BillingInv, NEW e \in Event, e \in todo, pc = "processing",
         e \notin seen
  PROVE  billed[e] <= torn
<1>1. InWindow(e)
  BY DEF BillingInv, RawInv
<1>2. billed[e] <= torn + 1 /\ billed[e] # torn + 1
  BY <1>1 DEF BillingInv, PricedInv, Spent
<1>. QED
  BY <1>2 DEF TypeOK

(* Pricing an event: it was in the window and not seen, hence not priced   *)
(* torn + 1 times.  The window does not move when the first id comes in.   *)
LEMMA BillingProcess ==
  ASSUME TypeOK, TypeOK', BillingInv, NEW e \in Event, ProcessEvent(e)
  PROVE  BillingInv'
<1>. USE TimesAssumption
<1>1. UNCHANGED <<watermark, floor, raw, stored, torn, pc>> /\ pc = "processing"
  BY DEF ProcessEvent, historyVars
<1>2. e \in raw /\ InWindow(e) /\ todo' = todo \ {e}
  BY DEF ProcessEvent, BillingInv, RawInv
<1>3. seen' = seen \cup {e}
  BY DEF ProcessEvent
<1>4. FetchStart' = FetchStart
  <2>1. CASE seen = {}
    BY <1>1, <1>3, <2>1 DEF FetchStart, Later, BillingInv, WindowInv, TypeOK
  <2>2. CASE seen # {}
    BY <1>1, <1>3, <2>2 DEF FetchStart
  <2>. QED
    BY <2>1, <2>2
<1>5. FileInv' /\ ResetInv'
  BY <1>1 DEF BillingInv, FileInv, ResetInv, Spent
<1>6. RawInv'
  BY <1>1, <1>2, <1>3, <1>4 DEF BillingInv, RawInv, InWindow
<1>7. WindowInv'
  <2>1. CASE seen = {}
    <3>1. ts[e] >= floor /\ floor >= watermark
      BY <1>1, <1>2, <2>1 DEF InWindow, FetchStart, BillingInv, WindowInv
    <3>. QED
      BY <1>1, <1>3, <3>1 DEF WindowInv, TypeOK
  <2>2. CASE seen # {}
    BY <1>1, <1>3, <2>2 DEF BillingInv, WindowInv
  <2>. QED
    BY <2>1, <2>2
<1>8. PricedInv'
  <2>1. ASSUME NEW f \in Event
        PROVE  billed'[f] = billed[f] \/ (f = e /\ e \notin seen /\ billed'[f] = billed[f] + 1)
    BY DEF ProcessEvent, TypeOK
  <2>2. e \notin seen => billed[e] <= torn
    BY UnseenMayBePriced DEF ProcessEvent
  <2>. QED
    BY <1>1, <1>2, <1>3, <1>4, <2>1, <2>2
    DEF BillingInv, PricedInv, Spent, InWindow, TypeOK
<1>. QED
  BY <1>5, <1>6, <1>7, <1>8 DEF BillingInv

(* The watermark advances and ids below the overlap are dropped: an event  *)
(* whose id is dropped has left the window, because an id at the watermark *)
(* stays and keeps the window from falling back to the floor.              *)
LEMMA BillingAdvance ==
  ASSUME TypeOK, TypeOK', BillingInv, Advance
  PROVE  BillingInv'
<1>. USE TimesAssumption
<1>1. UNCHANGED <<billed, floor, todo, stored, torn>>
      /\ pc = "processing" /\ pc' = "persisting" /\ raw' = {} /\ todo = {}
  BY DEF Advance, historyVars
<1>2. /\ watermark' \in NewestOf(watermark)
      /\ \A t \in NewestOf(watermark) : t <= watermark'
      /\ seen' = {x \in seen : ts[x] >= KeepAfter(watermark')}
  BY DEF Advance
<1>3. watermark <= watermark' /\ \A x \in raw : ts[x] <= watermark'
  BY <1>2 DEF NewestOf
<1>4. raw \subseteq seen
  BY <1>1 DEF BillingInv, RawInv
<1>5. ASSUME NEW x \in seen, ts[x] >= watermark' PROVE x \in seen'
  <2>1. watermark' \in Int /\ ts[x] \in Nat
    BY DEF TypeOK
  <2>. QED
    BY <1>2, <1>5, <2>1, KeepAfterBounds
<1>6. seen # {} => \E x \in seen' : ts[x] >= watermark'
  <2> SUFFICES ASSUME seen # {} PROVE \E x \in seen : ts[x] >= watermark'
    BY <1>5
  <2>1. CASE watermark' = watermark
    BY <1>1, <2>1 DEF BillingInv, WindowInv
  <2>2. CASE watermark' # watermark
    <3>1. PICK x \in raw : watermark' = ts[x]
      BY <1>2, <2>2 DEF NewestOf
    <3>. QED
      BY <1>4, <3>1 DEF TypeOK
  <2>. QED
    BY <2>1, <2>2
<1>7. seen = {} => watermark' = watermark /\ seen' = {}
  BY <1>2, <1>4 DEF NewestOf
<1>8. FileInv' /\ RawInv' /\ ResetInv'
  BY <1>1 DEF BillingInv, FileInv, RawInv, ResetInv, Spent
<1>9. WindowInv'
  BY <1>1, <1>6, <1>7 DEF BillingInv, WindowInv
<1>10. ASSUME NEW f \in Event, f \in seen, f \notin seen' PROVE ~InWindow(f)'
  <2>1. watermark' \in Int /\ floor' \in Int /\ ts[f] \in Nat
    BY DEF TypeOK
  <2>2. ~(ts[f] >= KeepAfter(watermark'))
    BY <1>2, <1>10
  <2>3. ts[f] < watermark' - Overlap
    BY <2>1, <2>2, KeepAfterBounds
  <2>4. seen' # {}
    BY <1>6, <1>10
  <2>. QED
    BY <2>1, <2>3, <2>4, WindowStart DEF InWindow, FetchStart
<1>11. ASSUME NEW f \in Event, ~InWindow(f) PROVE ~InWindow(f)'
  <2>1. watermark' \in Int /\ watermark \in Int /\ floor \in Int /\ ts[f] \in Nat
    BY DEF TypeOK
  <2>2. seen = {} <=> seen' = {}
    BY <1>2, <1>6
  <2>. QED
    BY <1>1, <1>3, <1>11, <2>1, <2>2, WindowStart DEF InWindow, FetchStart
<1>12. PricedInv'
  BY <1>1, <1>3, <1>10, <1>11 DEF BillingInv, PricedInv, Spent, TypeOK
<1>. QED
  BY <1>8, <1>9, <1>12 DEF BillingInv

(* The process ends.  A flush that saves spend above its watermark counts  *)
(* as torn, one that does not leaves the file's promise as it is.          *)
LEMMA BillingStop ==
  ASSUME TypeOK, TypeOK', BillingInv, Stop
  PROVE  BillingInv'
<1>1. /\ pc' = "down" /\ billed' = Nothing /\ seen' = {}
      /\ raw' = {} /\ todo' = {}
  BY DEF Stop, Crash, Sigterm, ProcessEnds
<1>2. FileInv'
  <2>1. CASE UNCHANGED <<stored, torn>>
    BY <2>1 DEF BillingInv, FileInv, Spent
  <2>2. CASE stored' = CompactSnapshot(ctx) /\ Ahead(ctx) /\ torn' = torn + 1
    BY <2>2 DEF CompactSnapshot, BillingInv, FileInv, PricedInv, Spent, TypeOK
  <2>3. CASE stored' = CompactSnapshot(ctx) /\ ~Ahead(ctx) /\ torn' = torn
    BY <2>3, TimesAssumption
    DEF CompactSnapshot, Ahead, BillingInv, FileInv, PricedInv, Spent, TypeOK
  <2>. QED
    BY <2>1, <2>2, <2>3 DEF Stop, Crash, Sigterm, FlushState
<1>3. PricedInv'
  BY <1>1, NothingPriced
<1>4. WindowInv' /\ RawInv' /\ ResetInv'
  BY <1>1 DEF WindowInv, RawInv, ResetInv, Nothing
<1>. QED
  BY <1>2, <1>3, <1>4 DEF BillingInv

(* Every step of the specification keeps BillingInv.                       *)
LEMMA BillingStep ==
  ASSUME TypeOK, TypeOK', BillingInv, [Next]_vars
  PROVE  BillingInv'
<1>1. CASE UNCHANGED <<billingVars, pc>>
  BY <1>1 DEF billingVars, BillingInv, FileInv, PricedInv, WindowInv, RawInv,
              ResetInv, Spent, InWindow, FetchStart
<1>2. CASE Tick
  BY <1>1, <1>2 DEF Tick, trackerVars, fetchVars, historyVars, billingVars
<1>3. ASSUME NEW e \in Event, Deliver(e) PROVE BillingInv'
  BY <1>1, <1>3 DEF Deliver, trackerVars, fetchVars, historyVars, billingVars
<1>4. CASE Start
  BY <1>4, BillingBoot, BillingSave DEF Start, FirstPersist
<1>5. CASE BeginFetch \/ FetchFail
  <2>1. raw = {}
    BY <1>5 DEF BeginFetch, FetchFail, BillingInv, RawInv
  <2>. QED
    BY <1>5, <2>1, BillingUnchanged
    DEF BeginFetch, FetchFail, trackerVars, historyVars, billingVars
<1>6. CASE \E ok \in BOOLEAN : Persist(ok)
  BY <1>6, BillingSave DEF Persist
<1>7. CASE \E e \in Event : ProcessEvent(e)
  BY <1>7, BillingProcess
<1>8. CASE Stop
  BY <1>8, BillingStop
<1>9. CASE UNCHANGED vars
  BY <1>1, <1>9 DEF vars, trackerVars, fetchVars, historyVars, billingVars
<1>. QED
  BY <1>2, <1>3, <1>4, <1>5, <1>6, <1>7, <1>8, <1>9, BillingRoll, BillingFetch,
     BillingAdvance
  DEF Next, Poll

(* The inductive invariant holds in every run.                             *)
THEOREM BillingInvariant == Spec => []BillingInv
<1>1. Init => BillingInv
  BY TimesAssumption
  DEF Init, BillingInv, FileInv, PricedInv, WindowInv, RawInv, ResetInv, Spent,
      Nothing
<1>. QED
  BY <1>1, BillingStep, TypeCorrect, PTL DEF Spec

(* No event is priced more often than once plus once for each torn flush:  *)
(* for every set of events, overlap, page cap and order of deliveries,     *)
(* fetches, failures, crashes, flushes, restarts and day rolls.            *)
THEOREM PricedOnce == Spec => []BilledOnce
<1>1. BillingInv => BilledOnce
  BY DEF BillingInv, FileInv, PricedInv, BilledOnce
<1>. QED
  BY <1>1, BillingInvariant, PTL

(* Without a torn flush a restart fetches nothing the file bills.          *)
THEOREM FileIsCoherent == Spec => []SnapshotCoherent
<1>1. TypeOK /\ BillingInv => SnapshotCoherent
  BY TimesAssumption
  DEF BillingInv, FileInv, Spent, SnapshotCoherent, TypeOK, Snapshot
<1>. QED
  BY <1>1, BillingInvariant, TypeCorrect, PTL

-----------------------------------------------------------------------------
(***************************************************************************)
(* Days.  The tracker, the file and the day roll keep the spend of a day   *)
(* apart from that of every other day.                                     *)
(***************************************************************************)

(* The tracker prices events of its day, and every save and flush takes    *)
(* the day of the tracker along: for every length of a day, also when a    *)
(* fetch, a save or a flush straddles midnight.                            *)
THEOREM SpendHasItsDay == Spec => []SpendIsOfItsDay
<1>1. Init => SpendIsOfItsDay
  BY DEF Init, SpendIsOfItsDay, Nothing
<1>2. TypeOK /\ SpendIsOfItsDay /\ [Next]_vars => SpendIsOfItsDay'
  <2> SUFFICES ASSUME TypeOK, SpendIsOfItsDay, [Next]_vars
               PROVE  SpendIsOfItsDay'
    OBVIOUS
  <2> USE DEF SpendIsOfItsDay
  <2>1. CASE UNCHANGED <<dayKey, billed, stored>>
    BY <2>1
  <2>2. CASE \/ Tick \/ RollWatermark \/ BeginFetch \/ FetchOk \/ FetchFail \/ Advance
             \/ \E e \in Event : Deliver(e)
             \/ UNCHANGED vars
    BY <2>1, <2>2 DEF Tick, RollWatermark, BeginFetch, FetchOk, FetchFail,
       Advance, Deliver, vars, trackerVars
  <2>3. ASSUME NEW readable \in BOOLEAN, Boot(readable) PROVE SpendIsOfItsDay'
    BY <2>3 DEF Boot, Resumed, Fresh, Nothing
  <2>4. ASSUME NEW ok \in BOOLEAN, Save(ok) PROVE SpendIsOfItsDay'
    BY <2>4 DEF Save, CompactSnapshot, trackerVars
  <2>5. CASE RollDay
    BY <2>5 DEF RollDay, Nothing
  <2>6. ASSUME NEW e \in Event, ProcessEvent(e) PROVE SpendIsOfItsDay'
    BY <2>6 DEF TypeOK, ProcessEvent
  <2>7. CASE Stop
    BY <2>7 DEF Stop, Crash, Sigterm, FlushState, CompactSnapshot, ProcessEnds,
                Nothing
  <2>. QED
    BY <2>2, <2>3, <2>4, <2>5, <2>6, <2>7
    DEF Next, Start, Poll, FirstPersist, Persist
<1>. QED
  BY <1>1, <1>2, TypeCorrect, PTL DEF Spec

(* Days do not go back with the clock.                                     *)
LEMMA DaysGrow ==
  ASSUME NEW t \in Nat, NEW u \in Nat, t <= u PROVE DayOf(t) <= DayOf(u)
<1>1. DayLength \in Nat /\ DayLength > 0
  BY TimesAssumption
<1>2. /\ DayOf(t) \in Int /\ DayLength * DayOf(t) <= t
      /\ DayOf(u) \in Int /\ u < DayLength * (DayOf(u) + 1)
  BY <1>1 DEF DayOf
<1>3. DayLength * DayOf(t) < DayLength * (DayOf(u) + 1)
  BY <1>1, <1>2
<1>. QED
  BY <1>1, <1>2, <1>3

(* The tracker is never behind the file's day nor ahead of the clock's.    *)
DaysInv ==
  /\ stored.day <= DayOf(now)
  /\ pc # "down" => stored.day <= dayKey /\ dayKey <= DayOf(now)
  /\ pc = "rolling" => stored.day < dayKey

(* Unless a start could not read it, the file of the tracker's day has     *)
(* nothing that the tracker, its watermark and the save context have not.  *)
AheadInv ==
  loadFaults = 0 /\ pc # "down" /\ stored.day = dayKey =>
    /\ watermark >= stored.wm /\ (pc # "boot" => ctx >= stored.wm)
    /\ \A e \in Event : billed[e] >= stored.billed[e]

(* The days of tracker and file follow the clock, never the other way.     *)
LEMMA DaysStep ==
  ASSUME TypeOK, DaysInv, [Next]_vars PROVE DaysInv'
<1> USE DEF DaysInv
<1>1. DayOf(now) \in Int /\ stored.day \in Int /\ dayKey \in Int
  BY DayOfType DEF TypeOK, Snapshot
<1>2. CASE Tick
  <2>1. DayOf(now) <= DayOf(now') /\ DayOf(now') \in Int
    BY <1>2, DaysGrow, DayOfType DEF TypeOK, Tick
  <2>. QED
    BY <1>1, <1>2, <2>1 DEF Tick, trackerVars
<1>3. CASE \/ RollWatermark \/ BeginFetch \/ FetchOk \/ FetchFail \/ Advance
           \/ \E e \in Event : Deliver(e) \/ ProcessEvent(e)
           \/ UNCHANGED vars
  <2>1. /\ UNCHANGED <<now, stored, dayKey>> /\ (pc' = "down" <=> pc = "down")
        /\ pc' = "rolling" => pc = "rolling"
    BY <1>3 DEF RollWatermark, BeginFetch, FetchOk, FetchFail, Advance, Deliver,
       ProcessEvent, vars, trackerVars, environment
  <2>. QED
    BY <2>1
<1>4. ASSUME NEW readable \in BOOLEAN, Boot(readable) PROVE DaysInv'
  BY <1>1, <1>4 DEF Boot, environment
<1>5. ASSUME NEW ok \in BOOLEAN, Save(ok), pc # "down" PROVE DaysInv'
  BY <1>1, <1>5 DEF Save, CompactSnapshot, trackerVars, environment
<1>6. CASE RollDay
  BY <1>1, <1>6 DEF RollDay, environment
<1>7. CASE Stop
  BY <1>1, <1>7 DEF Stop, Crash, Sigterm, FlushState, CompactSnapshot,
     ProcessEnds, environment
<1>. QED
  BY <1>2, <1>3, <1>4, <1>5, <1>6, <1>7
  DEF Next, Start, Poll, FirstPersist, Persist

(* Spend and watermark in memory stay ahead of the file's: every step      *)
(* that changes the tracker adds to it, a roll or a start takes it anew.   *)
LEMMA AheadStep ==
  ASSUME TypeOK, TypeOK', DaysInv, AheadInv, [Next]_vars PROVE AheadInv'
<1> SUFFICES ASSUME loadFaults' = 0, pc' # "down", stored'.day = dayKey'
             PROVE  /\ watermark' >= stored'.wm
                    /\ pc' # "boot" => ctx' >= stored'.wm
                    /\ \A e \in Event : billed'[e] >= stored'.billed[e]
  BY DEF AheadInv
<1>1. /\ watermark \in Int /\ ctx \in Int /\ stored.wm \in Int
      /\ \A e \in Event : billed[e] \in Nat /\ stored.billed[e] \in Nat
  BY DEF TypeOK, Snapshot
<1>2. CASE \/ Tick \/ BeginFetch \/ FetchOk \/ FetchFail
           \/ \E e \in Event : Deliver(e)
           \/ UNCHANGED vars
  <2>1. /\ UNCHANGED <<loadFaults, stored, dayKey, watermark, ctx, billed>>
        /\ pc # "down" /\ (pc' = "boot" <=> pc = "boot")
    BY <1>2 DEF Tick, BeginFetch, FetchOk, FetchFail, Deliver, vars,
       trackerVars, faultVars
  <2>. QED
    BY <2>1 DEF AheadInv
<1>3. ASSUME NEW readable \in BOOLEAN, Boot(readable)
      PROVE  /\ watermark' >= stored'.wm /\ pc' = "boot"
             /\ \A e \in Event : billed'[e] >= stored'.billed[e]
  <2>1. readable
    BY <1>3 DEF TypeOK, Boot
  <2>2. watermark' = stored.wm /\ billed' = stored.billed /\ stored' = stored
    BY <1>3, <2>1 DEF Boot, Resumed
  <2>. QED
    BY <1>1, <1>3, <2>2 DEF Boot
<1>4. ASSUME NEW ok \in BOOLEAN, Save(ok), pc # "down"
      PROVE  /\ watermark' >= stored'.wm /\ ctx' >= stored'.wm
             /\ \A e \in Event : billed'[e] >= stored'.billed[e]
  BY <1>1, <1>4 DEF Save, CompactSnapshot, trackerVars, faultVars, AheadInv
<1>5. ~RollDay /\ ~RollWatermark
  BY DEF TypeOK, Snapshot, DaysInv, RollDay, RollWatermark, trackerVars
<1>6. ASSUME NEW e \in Event, ProcessEvent(e)
      PROVE  /\ watermark' >= stored'.wm /\ ctx' >= stored'.wm
             /\ \A f \in Event : billed'[f] >= stored'.billed[f]
  <2>1. /\ UNCHANGED <<loadFaults, stored, dayKey, watermark, ctx>>
        /\ pc = "processing"
    BY <1>6 DEF ProcessEvent, faultVars
  <2>2. ASSUME NEW f \in Event PROVE billed'[f] >= billed[f]
    BY <1>1, <1>6 DEF TypeOK, ProcessEvent
  <2>3. \A f \in Event : billed'[f] \in Nat
    BY DEF TypeOK
  <2>. QED
    BY <1>1, <2>1, <2>2, <2>3 DEF AheadInv
<1>7. CASE Advance
  <2>1. /\ UNCHANGED <<loadFaults, stored, dayKey, ctx, billed>>
        /\ pc = "processing" /\ watermark <= watermark'
    BY <1>7 DEF Advance, NewestOf, faultVars
  <2>2. watermark' \in Int
    BY DEF TypeOK
  <2>. QED
    BY <1>1, <2>1, <2>2 DEF AheadInv
<1>8. ~Stop
  BY DEF Stop, Crash, Sigterm, ProcessEnds
<1>. QED
  BY <1>2, <1>3, <1>4, <1>5, <1>6, <1>7, <1>8
  DEF Next, Start, Poll, FirstPersist, Persist

(* What the file says of the tracker's day is behind the tracker in every  *)
(* run.                                                                    *)
THEOREM FileFollowsTracker == Spec => [](DaysInv /\ AheadInv)
<1>1. Init => DaysInv /\ AheadInv
  <2> SUFFICES ASSUME Init PROVE DaysInv /\ AheadInv
    OBVIOUS
  <2>1. DayOf(now) \in Int /\ DayOf(now) >= 0
    BY TimesAssumption DEF Init, DayOf
  <2>. QED
    BY <2>1 DEF Init, NoDay, DaysInv, AheadInv
<1>2. TypeOK /\ TypeOK' /\ DaysInv /\ AheadInv /\ [Next]_vars
        => DaysInv' /\ AheadInv'
  BY DaysStep, AheadStep
<1>. QED
  BY <1>1, <1>2, TypeCorrect, PTL DEF Spec

(* As long as every start could read the file, no write, flush or restart  *)
(* takes back a day's saved spend or moves its saved watermark down.       *)
THEOREM SavedSpendGrows == Spec => SavedSpendOnlyGrows
<1>1. ASSUME TypeOK, DaysInv, AheadInv, [Next]_vars,
             loadFaults' = 0, stored'.day = stored.day
      PROVE  /\ stored'.wm >= stored.wm
             /\ \A e \in Event : stored'.billed[e] >= stored.billed[e]
  <2>1. stored.wm \in Int /\ \A e \in Event : stored.billed[e] \in Nat
    BY <1>1 DEF TypeOK, Snapshot
  <2>2. CASE stored' = stored
    BY <2>1, <2>2
  <2>3. ASSUME NEW ok \in BOOLEAN, Save(ok), pc # "down", stored' # stored
        PROVE  /\ stored'.wm >= stored.wm
               /\ \A e \in Event : stored'.billed[e] >= stored.billed[e]
    BY <1>1, <2>3 DEF Save, CompactSnapshot, faultVars, AheadInv
  <2>4. ASSUME NEW ok \in BOOLEAN, Sigterm(ok), stored' # stored
        PROVE  /\ stored'.wm >= stored.wm
               /\ \A e \in Event : stored'.billed[e] >= stored.billed[e]
    BY <1>1, <2>4 DEF Sigterm, FlushState, ProcessEnds, CompactSnapshot, AheadInv
  <2>5. \/ stored' = stored
        \/ \E ok \in BOOLEAN : Save(ok) /\ pc # "down"
        \/ \E ok \in BOOLEAN : Sigterm(ok)
    BY <1>1 DEF Next, Tick, Deliver, Start, Boot, FirstPersist, Poll, RollDay,
       RollWatermark, BeginFetch, FetchOk, FetchFail, ProcessEvent, Advance,
       Persist, Stop, Crash, vars
  <2>. QED
    BY <2>2, <2>3, <2>4, <2>5
<1>2. TypeOK /\ DaysInv /\ AheadInv /\ [Next]_vars
        => [(loadFaults' = 0 /\ stored'.day = stored.day) =>
              /\ stored'.wm >= stored.wm
              /\ \A e \in Event : stored'.billed[e] >= stored.billed[e]]_vars
  BY <1>1
<1>. QED
  BY <1>2, FileFollowsTracker, TypeCorrect, PTL DEF Spec, SavedSpendOnlyGrows

-----------------------------------------------------------------------------
(***************************************************************************)
(* The overlap.  OnlyLaggardsAreMissed speaks of the moment an event drops *)
(* out of the window, long after the fetch that moved the watermark beyond *)
(* it.  Until then the raw events of that fetch have to remember what it   *)
(* left out, and why.                                                      *)
(***************************************************************************)

(* Nothing happens before its time: events, watermarks, fetches.           *)
ClockInv ==
  /\ watermark <= now /\ ctx <= now /\ stored.wm <= now
  /\ \A e \in log : ts[e] <= now
  /\ raw \subseteq log /\ visible \subseteq log /\ seen \subseteq handled
  /\ pc = "fetching" =>
       /\ fetchAt <= now /\ now <= fetchAt + FetchSpan
       /\ \A e \in log \ visible : arrivedAt[e] >= fetchAt

(* What a fetch did not return of its window either is no older than what  *)
(* it returned (the page cap), or came too late for it.                    *)
LeftOutInv ==
  \A e \in log \ (raw \cup handled), x \in raw :
    InWindow(e) => ts[x] <= ts[e] \/ ts[x] <= arrivedAt[e] + FetchSpan

(* Steps take times from the clock or from what is logged already.         *)
LEMMA ClockStep ==
  ASSUME TypeOK, TypeOK', ClockInv, [Next]_vars PROVE ClockInv'
<1> USE TimesAssumption DEF ClockInv
<1>1. /\ now \in Nat /\ watermark \in Int /\ ctx \in Int /\ stored.wm \in Int
      /\ fetchAt \in Nat /\ \A e \in Event : ts[e] \in Nat /\ arrivedAt[e] \in Nat
      /\ log \subseteq Event
  BY DEF TypeOK, Snapshot
<1>2. CASE Tick
  BY <1>1, <1>2 DEF Tick, trackerVars, fetchVars, historyVars
<1>3. ASSUME NEW e \in Event, Deliver(e) PROVE ClockInv'
  <2>1. /\ log' = log \cup {e} /\ arrivedAt'[e] = now /\ ts[e] <= now
        /\ \A f \in log : arrivedAt'[f] = arrivedAt[f]
        /\ UNCHANGED <<now, pc, watermark, ctx, stored, raw, visible, seen,
                      handled, fetchAt>>
    BY <1>3 DEF TypeOK, Deliver, trackerVars, fetchVars, historyVars
  <2>. QED
    BY <1>1, <2>1
<1>4. ASSUME NEW readable \in BOOLEAN, Boot(readable) PROVE ClockInv'
  BY <1>1, <1>4 DEF Boot, Resumed, Fresh, environment, fetchVars
<1>5. ASSUME NEW ok \in BOOLEAN, Save(ok), UNCHANGED fetchVars
      PROVE  ClockInv'
  BY <1>1, <1>5
  DEF Save, CompactSnapshot, environment, trackerVars, fetchVars, historyVars
<1>6. CASE RollDay \/ RollWatermark \/ BeginFetch \/ FetchFail
  BY <1>1, <1>6 DEF RollDay, RollWatermark, BeginFetch, FetchFail, environment,
     trackerVars, fetchVars, historyVars
<1>7. CASE FetchOk
  <2>1. raw' \subseteq log
    BY <1>7, PagesAreMatching DEF FetchOk, ClockInv
  <2>. QED
    BY <1>1, <1>7, <2>1 DEF FetchOk, environment, trackerVars, historyVars
<1>8. ASSUME NEW e \in Event, ProcessEvent(e) PROVE ClockInv'
  BY <1>1, <1>8 DEF ProcessEvent, environment
<1>9. CASE Advance
  BY <1>1, <1>9 DEF TypeOK, Advance, NewestOf, environment, historyVars
<1>10. CASE Stop
  BY <1>1, <1>10
  DEF Stop, Crash, Sigterm, FlushState, CompactSnapshot, ProcessEnds, environment
<1>11. CASE UNCHANGED vars
  BY <1>11 DEF vars, environment, trackerVars, fetchVars, historyVars
<1>. QED
  BY <1>2, <1>3, <1>4, <1>5, <1>6, <1>7, <1>8, <1>9, <1>10, <1>11
  DEF Next, Start, Poll, FirstPersist, Persist

(* A fetch leaves out of its window what it was cut short of and what      *)
(* arrived after it began; an event in the log when it ends is not of the  *)
(* future.                                                                 *)
LEMMA LeftOutFetch ==
  ASSUME TypeOK, ClockInv, FetchOk PROVE LeftOutInv'
<1>1. PICK late \in SUBSET (log \ visible) :
        raw' \in Pages({e \in visible \cup late : InWindow(e)})
  BY DEF FetchOk
<1>2. /\ UNCHANGED <<log, arrivedAt, handled, seen, watermark, floor, now>>
      /\ pc = "fetching"
  BY DEF FetchOk, environment, trackerVars, historyVars
<1>3. SUFFICES ASSUME NEW e \in log \ (raw' \cup handled), NEW x \in raw',
                      InWindow(e)
               PROVE  ts[x] <= ts[e] \/ ts[x] <= arrivedAt[e] + FetchSpan
  BY <1>2 DEF LeftOutInv, InWindow, FetchStart
<1>4. CASE e \in visible \cup late
  BY <1>1, <1>3, <1>4 DEF Pages
<1>5. CASE e \notin visible \cup late
  <2>1. arrivedAt[e] >= fetchAt /\ now <= fetchAt + FetchSpan
    BY <1>2, <1>5 DEF ClockInv
  <2>2. x \in log /\ ts[x] <= now
    BY <1>1, PagesAreMatching DEF ClockInv
  <2>3. /\ ts[x] \in Nat /\ arrivedAt[e] \in Nat /\ now \in Nat /\ fetchAt \in Nat
        /\ FetchSpan \in Nat
    BY <2>2, TimesAssumption DEF TypeOK
  <2>. QED
    BY <2>1, <2>2, <2>3
<1>. QED
  BY <1>4, <1>5

(* The first id that comes in does not move the window.                    *)
LEMMA ProcessKeepsWindow ==
  ASSUME TypeOK, BillingInv, NEW e \in Event, ProcessEvent(e)
  PROVE  \A f \in Event : InWindow(f)' <=> InWindow(f)
<1>1. /\ watermark' = watermark /\ floor' = floor /\ pc = "processing"
      /\ seen' # {}
  BY DEF ProcessEvent
<1>2. FetchStart' = FetchStart
  BY <1>1, TimesAssumption
  DEF FetchStart, Later, BillingInv, WindowInv, TypeOK
<1>. QED
  BY <1>2 DEF InWindow

(* Until the watermark moves, what a fetch left out stays explained by     *)
(* its page cap or by the moment the event arrived.                        *)
LEMMA LeftOutStep ==
  ASSUME TypeOK, TypeOK', BillingInv, ClockInv, LeftOutInv, [Next]_vars
  PROVE  LeftOutInv'
<1>1. CASE raw' = {}
  BY <1>1 DEF LeftOutInv
<1>2. CASE raw' # {} /\ ~FetchOk
  <2>1. /\ pc = "processing" /\ raw' = raw
        /\ UNCHANGED <<watermark, floor>> /\ handled \subseteq handled'
        /\ UNCHANGED seen \/ \E e \in Event : ProcessEvent(e)
        /\ UNCHANGED <<log, arrivedAt>> \/ \E e \in Event : Deliver(e)
    BY <1>2
    DEF Next, Tick, Deliver, Start, Boot, FirstPersist, Save, Poll, RollDay,
        RollWatermark, BeginFetch, FetchFail, ProcessEvent, Advance, Persist,
        Stop, Crash, Sigterm, ProcessEnds, vars, environment, trackerVars,
        fetchVars, historyVars, BillingInv, RawInv
  <2>2. \A f \in Event : InWindow(f)' <=> InWindow(f)
    BY <2>1, ProcessKeepsWindow DEF InWindow, FetchStart
  <2>3. ASSUME NEW e \in Event, Deliver(e), NEW x \in raw
        PROVE  ts[x] <= arrivedAt'[e] + FetchSpan
    <3>1. arrivedAt'[e] = now /\ ts[x] <= now
      BY <2>3 DEF TypeOK, Deliver, ClockInv
    <3>2. now \in Nat /\ ts[x] \in Nat /\ FetchSpan \in Nat
      BY TimesAssumption DEF TypeOK
    <3>. QED
      BY <3>1, <3>2
  <2>4. ASSUME NEW f \in log' \ log
        PROVE  \A x \in raw : ts[x] <= arrivedAt'[f] + FetchSpan
    BY <2>1, <2>3, <2>4 DEF Deliver
  <2>5. \A f \in log : f \in log' /\ arrivedAt'[f] = arrivedAt[f]
    BY <2>1 DEF TypeOK, Deliver
  <2>. QED
    BY <2>1, <2>2, <2>4, <2>5 DEF TypeOK, LeftOutInv
<1>. QED
  BY <1>1, <1>2, LeftOutFetch

(* Only an advance of the watermark or a delivery can make a laggard: one  *)
(* delivered behind the window, or one left out of the fetch that moved it.*)
LEMMA LaggardStep ==
  ASSUME TypeOK, TypeOK', BillingInv, BillingInv', ClockInv, LeftOutInv,
         OnlyLaggardsAreMissed, [Next]_vars
  PROVE  OnlyLaggardsAreMissed'
<1> USE TimesAssumption
<1>1. SUFFICES ASSUME NEW e \in Event, Missed(e)'
               PROVE  arrivedAt'[e] + FetchSpan >= ts[e] + Overlap
  BY DEF OnlyLaggardsAreMissed
<1>2. /\ pc' # "down" /\ e \in log' /\ e \notin handled'
      /\ seen' # {} /\ ts[e] < watermark' - Overlap
  <2>1. /\ pc' # "down" /\ e \in log' /\ e \notin handled'
        /\ ts[e] >= floor' /\ ~(ts[e] >= FetchStart')
    BY <1>1 DEF Missed, InWindow
  <2>2. ts[e] \in Nat /\ watermark' \in Int /\ floor' \in Int
    BY DEF TypeOK
  <2>3. seen' # {}
    BY <2>1 DEF FetchStart
  <2>4. FetchStart' = Later(floor', watermark' - Overlap)
    BY <2>3 DEF FetchStart
  <2>5. ts[e] < watermark' - Overlap
    BY <2>1, <2>2, <2>4, WindowStart
  <2>. QED
    BY <2>1, <2>3, <2>5
<1>3. CASE Missed(e) /\ arrivedAt'[e] = arrivedAt[e]
  BY <1>3 DEF OnlyLaggardsAreMissed
<1>4. CASE Deliver(e)
  <2>1. arrivedAt'[e] = now /\ watermark' = watermark
    BY <1>4 DEF TypeOK, Deliver
  <2>. QED
    BY <1>2, <2>1 DEF TypeOK, ClockInv
<1>5. CASE Advance
  <2>1. /\ pc = "processing" /\ todo = {}
        /\ UNCHANGED <<log, arrivedAt, handled, floor>>
        /\ watermark' \in NewestOf(watermark)
        /\ seen' \subseteq seen
    BY <1>5 DEF Advance, environment, historyVars
  <2>2. CASE ~InWindow(e)
    <3>1. Missed(e)
      BY <1>1, <2>1, <2>2 DEF Missed
    <3>. QED
      BY <1>3, <2>1, <3>1
  <2>3. CASE InWindow(e)
    <3>1. ts[e] >= watermark - Overlap
      BY <1>2, <2>1, <2>3 DEF TypeOK, InWindow, FetchStart, Later
    <3>2. PICK x \in raw : watermark' = ts[x]
      BY <1>2, <2>1, <3>1 DEF TypeOK, NewestOf
    <3>3. e \notin raw
      BY <1>2, <2>1 DEF BillingInv, RawInv, ClockInv
    <3>4. ts[x] <= ts[e] \/ ts[x] <= arrivedAt[e] + FetchSpan
      BY <1>2, <2>1, <2>3, <3>3 DEF LeftOutInv
    <3>. QED
      BY <1>2, <2>1, <3>2, <3>4 DEF TypeOK
  <2>. QED
    BY <2>2, <2>3
<1>6. CASE ~Advance /\ ~Deliver(e)
  <2>1. /\ pc # "down" /\ e \in log /\ arrivedAt'[e] = arrivedAt[e]
        /\ handled \subseteq handled' /\ UNCHANGED <<watermark, floor>>
        /\ UNCHANGED seen \/ \E f \in Event : ProcessEvent(f)
    BY <1>2, <1>6
    DEF TypeOK, Next, Tick, Deliver, Start, Boot, FirstPersist, Save, Poll, RollDay,
        RollWatermark, BeginFetch, FetchOk, FetchFail, ProcessEvent, Persist,
        Stop, Crash, Sigterm, ProcessEnds, vars, environment, trackerVars,
        fetchVars, historyVars, BillingInv, ResetInv
  <2>2. InWindow(e)' <=> InWindow(e)
    BY <2>1, ProcessKeepsWindow DEF InWindow, FetchStart
  <2>3. Missed(e)
    BY <1>1, <1>2, <2>1, <2>2 DEF Missed
  <2>. QED
    BY <1>3, <2>1, <2>3
<1>. QED
  BY <1>4, <1>5, <1>6

(* Whatever the page cap, the failures, restarts and day rolls: an event   *)
(* above the floor that leaves the window unread had reached CloudWatch    *)
(* later than the overlap less the time of a fetch.                        *)
THEOREM OverlapSuffices == Spec => []OnlyLaggardsAreMissed
<1> DEFINE Inv == ClockInv /\ LeftOutInv /\ OnlyLaggardsAreMissed
<1>1. Init => Inv
  BY TimesAssumption
  DEF Init, ClockInv, LeftOutInv, OnlyLaggardsAreMissed, Missed
<1>2. /\ TypeOK /\ TypeOK' /\ BillingInv /\ BillingInv' /\ Inv /\ [Next]_vars
      => Inv'
  BY ClockStep, LeftOutStep, LaggardStep
<1>3. Inv => OnlyLaggardsAreMissed
  OBVIOUS
<1> HIDE DEF Inv
<1>. QED
  BY <1>1, <1>2, <1>3, TypeCorrect, BillingInvariant, PTL DEF Spec

-----------------------------------------------------------------------------
(***************************************************************************)
(* LogIngest implements SpendLedger.                                       *)
(***************************************************************************)

(* Steps the ledger does not see.                                          *)
LEMMA LedgerStutter ==
  ASSUME UNCHANGED <<dayKey, billed, stored, torn>>, pc # "down", pc' # "down"
  PROVE  UNCHANGED Ledger!vars
  BY DEF Ledger!vars

(* Every step of the loop, the log and the file is a step of the ledger or *)
(* leaves the ledger alone.                                                *)
LEMMA LedgerStep ==
  ASSUME TypeOK, TypeOK', BillingInv, [Next]_vars
  PROVE  [Ledger!Next]_(Ledger!vars)
<1>. USE TimesAssumption
<1>1. CASE Tick \/ (\E e \in Event : Deliver(e)) \/ UNCHANGED vars
  BY <1>1 DEF Tick, Deliver, vars, trackerVars, historyVars, Ledger!vars
<1>2. ASSUME NEW readable \in BOOLEAN, Boot(readable) PROVE Ledger!Resume
  <2>1. dayKey' \in Int
    BY DEF TypeOK
  <2>2. billed' = Nothing \/ (stored.day = dayKey' /\ billed' = stored.billed)
    BY <1>2 DEF Boot, Resumed, Fresh
  <2>3. pc = "down" /\ pc' = "boot" /\ UNCHANGED <<stored, torn>>
    BY <1>2 DEF Boot
  <2>. QED
    BY <2>1, <2>2, <2>3 DEF Ledger!Resume, Ledger!Empty, Nothing
<1>3. ASSUME NEW ok \in BOOLEAN, Save(ok), pc # "down"
      PROVE  [Ledger!Next]_(Ledger!vars)
  <2>1. pc' # "down" /\ UNCHANGED <<dayKey, billed, torn>>
    BY <1>3 DEF Save, trackerVars, historyVars
  <2>2. CASE stored' = stored
    BY <1>3, <2>1, <2>2, LedgerStutter
  <2>3. CASE stored' = CompactSnapshot(watermark)
    BY <1>3, <2>1, <2>3 DEF CompactSnapshot, Ledger!Next, Ledger!Save
  <2>. QED
    BY <1>3, <2>2, <2>3 DEF Save
<1>4. CASE RollDay
  <2>1. dayKey' \in Int /\ dayKey' # dayKey
    BY <1>4 DEF RollDay, TypeOK
  <2>. QED
    BY <1>4, <2>1
    DEF RollDay, historyVars, Ledger!Next, Ledger!NewDay, Ledger!Empty, Nothing
<1>5. CASE RollWatermark \/ BeginFetch \/ FetchOk \/ FetchFail \/ Advance
  <2>1. UNCHANGED <<dayKey, billed, stored, torn>> /\ pc # "down" /\ pc' # "down"
    BY <1>5 DEF RollWatermark, BeginFetch, FetchOk, FetchFail, Advance,
                trackerVars, historyVars
  <2>. QED
    BY <2>1, LedgerStutter
<1>6. ASSUME NEW e \in Event, ProcessEvent(e) PROVE [Ledger!Next]_(Ledger!vars)
  <2>1. UNCHANGED <<dayKey, stored, torn, pc>> /\ pc = "processing" /\ e \in todo
    BY <1>6 DEF ProcessEvent
  <2>2. CASE billed' = billed
    BY <2>1, <2>2, LedgerStutter
  <2>3. CASE e \notin seen /\ DayOf(ts[e]) = dayKey
             /\ billed' = [billed EXCEPT ![e] = @ + 1]
    <3>1. billed[e] <= torn
      BY <2>1, <2>3, UnseenMayBePriced
    <3>2. Ledger!Price(e)
      BY <2>1, <2>3, <3>1 DEF Ledger!Price
    <3>. QED
      BY <3>2 DEF Ledger!Next
  <2>. QED
    BY <1>6, <2>2, <2>3 DEF ProcessEvent
<1>7. CASE Stop
  <2>1. /\ pc # "down" /\ pc' = "down"
        /\ dayKey' = NoDay /\ billed' = Nothing
    BY <1>7 DEF Stop, Crash, Sigterm, ProcessEnds
  <2>2. \/ UNCHANGED <<stored, torn>>
        \/ stored' = CompactSnapshot(ctx) /\ torn' \in {torn, torn + 1}
    BY <1>7 DEF Stop, Crash, Sigterm, FlushState
  <2>. QED
    BY <2>1, <2>2
    DEF CompactSnapshot, Ledger!Next, Ledger!End, Ledger!Empty, Ledger!Unset,
        NoDay, Nothing
<1>. QED
  BY <1>1, <1>2, <1>3, <1>4, <1>5, <1>6, <1>7
  DEF Next, Start, Poll, FirstPersist, Persist, Ledger!Next

(* The poll loop with its windows, watermark, seen ids, state file and     *)
(* flush implements the ledger that prices an event once.                  *)
THEOREM ImplementsLedger == Spec => LedgerSpec
<1>1. Init => Ledger!Init
  BY DEF Init, Ledger!Init, Ledger!Empty, Ledger!Unset, NoDay, Nothing
<1>. QED
  BY <1>1, LedgerStep, BillingInvariant, TypeCorrect, PTL
  DEF Spec, LedgerSpec, Ledger!Spec
=============================================================================
