------------------------------ MODULE LogIngest ------------------------------
(***************************************************************************)
(* How one budget-guard process turns CloudWatch log events into billed    *)
(* spend: run_loop of main.py with the SpendTracker, the watermark, the    *)
(* overlap window, the in-memory set of seen event ids, the state file and *)
(* SIGTERM's flush.  Leader election is off (the Compose deployment), so   *)
(* run_loop runs in the main thread and a signal may interrupt any step.   *)
(*                                                                         *)
(* Enforcement takes no part in what is billed: module Enforcement models  *)
(* the part of the poll that comes between Advance and Persist.            *)
(***************************************************************************)
EXTENDS Integers, FiniteSets

CONSTANTS
  Event,         \* log events, told apart by their _dedup_key
  ts,            \* ts[e]: the CloudWatch timestamp of e
  Billable,      \* events whose role is tagged and whose model is priced
  Overlap,       \* WATERMARK_OVERLAP_MS
  Lookback,      \* the 60 s a process without usable state looks back
  DayLength,     \* length of a UTC day
  FetchSpan,     \* longest time a (paginated) FilterLogEvents takes
  StartTime,     \* the clock when the model starts
  MaxTime,       \* bound: the clock stops here
  MaxCrashes,    \* bound: SIGKILL, power loss
  MaxSigterms,   \* bound: SIGTERM, SIGINT or an exception that ends run_loop
  MaxLoadFaults  \* bound: starts at which the state file cannot be read

ASSUME TimesAssumption ==
  /\ ts \in [Event -> Nat]
  /\ Overlap \in Nat /\ Lookback \in Nat /\ FetchSpan \in Nat
  /\ StartTime \in Nat /\ MaxTime \in Nat
  /\ DayLength \in Nat \ {0}

ASSUME BoundsAssumption ==
  /\ Billable \subseteq Event
  /\ MaxCrashes \in Nat /\ MaxSigterms \in Nat /\ MaxLoadFaults \in Nat

VARIABLES
  now,        \* time.time()
  log,        \* the events CloudWatch holds
  arrivedAt,  \* when each of them arrived (0: not yet)
  pc,         \* where run_loop is
  dayKey,     \* tracker.day_key
  billed,     \* tracker.spend_usd: how often the cost of each event is in it
  seen,       \* tracker.seen_event_ids
  watermark,  \* watermark_ms
  floor,      \* fetch_floor_ms
  fetchAt,    \* when the running fetch began
  visible,    \* what the log held at that moment
  todo,       \* raw events process_events has still to look at
  raw,        \* the raw events of this poll
  ctx,        \* _save_ctx.watermark_ms
  stored,     \* state.json
  crashes, sigterms, loadFaults,  \* counters under the bounds
  handled,    \* history: events this process has marked seen
  torn        \* history: flushes that saved spend above their watermark

environment == <<now, log, arrivedAt>>
trackerVars == <<dayKey, billed, seen>>
fetchVars   == <<fetchAt, visible, raw, todo>>
faultVars   == <<crashes, sigterms, loadFaults>>
historyVars == <<handled, torn>>
vars == <<environment, pc, trackerVars, watermark, floor, fetchVars, ctx,
          stored, faultVars, historyVars>>

Stages == {"down", "boot", "idle", "rolling", "rolled", "fetching",
           "processing", "persisting"}

DayOf(t) == t \div DayLength
NoDay    == -1            \* the day of a state file that is not there
Nothing  == [e \in Event |-> 0]
Later(a, b) == IF a >= b THEN a ELSE b

Snapshot == [day : Int, billed : [Event -> Nat], wm : Int]

-----------------------------------------------------------------------------
(* Mutant: the overlap is not fetched again.                               *)
FetchStart_NoOverlap == IF seen # {} THEN Later(floor, watermark) ELSE floor

(* fetch_start_ms: within a process the overlap is fetched again, after a  *)
(* start or a day roll nothing below the floor is.                         *)
FetchStart == IF seen # {} THEN Later(floor, watermark - Overlap) ELSE floor

InWindow(e) == ts[e] >= FetchStart

(* Mutants: the day of the wall clock; the watermark forgotten.            *)
CompactSnapshot_ClockDay(wm) == [day |-> DayOf(now), billed |-> billed, wm |-> wm]
CompactSnapshot_NoMark(wm) == [day |-> dayKey, billed |-> billed]

(* compact_snapshot: the live tracker with the watermark it is given.      *)
CompactSnapshot(wm) == [day |-> dayKey, billed |-> billed, wm |-> wm]

(* Spend above the watermark it would be saved with.                       *)
Ahead(wm) == \E e \in Event : billed[e] > 0 /\ ts[e] > wm

(* Mutant: the nextToken is never followed.                                *)
Pages_FirstOnly(matching) ==
  {S \in SUBSET matching :
     /\ Cardinality(S) <= 1
     /\ \A e \in S, f \in matching \ S : ts[e] <= ts[f]}

(* What a fetch that does not fail may return of the events that match: the *)
(* oldest of them.  Pagination ends at the last page, at the page cap, and  *)
(* at an empty page although it carries a nextToken: then the rest, or all  *)
(* of them, stay unread and the fetch still counts as a good one.           *)
Pages(matching) ==
  {S \in SUBSET matching : \A e \in S, f \in matching \ S : ts[e] <= ts[f]}

-----------------------------------------------------------------------------
Init ==
  /\ now = StartTime
  /\ log = {} /\ arrivedAt = Nothing
  /\ pc = "down"
  /\ dayKey = NoDay /\ billed = Nothing /\ seen = {}
  /\ watermark = 0 /\ floor = 0
  /\ fetchAt = 0 /\ visible = {} /\ raw = {} /\ todo = {}
  /\ ctx = 0
  /\ stored = [day |-> NoDay, billed |-> Nothing, wm |-> 0]
  /\ crashes = 0 /\ sigterms = 0 /\ loadFaults = 0
  /\ handled = {} /\ torn = 0

(* The clock.  A fetch takes at most FetchSpan.                            *)
Tick ==
  /\ now < MaxTime
  /\ pc = "fetching" => now < fetchAt + FetchSpan
  /\ now' = now + 1
  /\ UNCHANGED <<log, arrivedAt, pc, trackerVars, watermark, floor, fetchVars,
                 ctx, stored, faultVars, historyVars>>

(* CloudWatch ingests an event, any time after the event's own timestamp.  *)
Deliver(e) ==
  /\ e \notin log /\ ts[e] <= now
  /\ log' = log \cup {e}
  /\ arrivedAt' = [arrivedAt EXCEPT ![e] = now]
  /\ UNCHANGED <<now, pc, trackerVars, watermark, floor, fetchVars, ctx,
                 stored, faultVars, historyVars>>

-----------------------------------------------------------------------------
(* What a process starts from: 60 s ago with no spend, or the saved spend  *)
(* and everything after its watermark.                                     *)
Fresh == [billed |-> Nothing, wm |-> now - Lookback, floor |-> now - Lookback]

(* Mutants: the floor on the watermark; the saved watermark not used.      *)
Resumed_AtMark == [billed |-> stored.billed, wm |-> stored.wm, floor |-> stored.wm]
Resumed_NoMark == [Fresh EXCEPT !.billed = stored.billed]

Resumed ==
  [billed |-> stored.billed, wm |-> stored.wm, floor |-> stored.wm + 1]

(* run_loop up to its first _persist: store.load, apply_state, and the     *)
(* watermark and floor that follow from what was loaded.  A missing, other-*)
(* day or unreadable state file is an empty snapshot.                      *)
Boot(readable) ==
  /\ pc = "down"
  /\ IF readable THEN UNCHANGED loadFaults
     ELSE loadFaults < MaxLoadFaults /\ loadFaults' = loadFaults + 1
  /\ dayKey' = DayOf(now)
  /\ LET s == IF readable /\ stored.day = DayOf(now) THEN Resumed ELSE Fresh
     IN  billed' = s.billed /\ watermark' = s.wm /\ floor' = s.floor
  /\ seen' = {} /\ handled' = {}
  /\ pc' = "boot"
  /\ UNCHANGED <<environment, fetchVars, ctx, stored, crashes, sigterms, torn>>

(* Mutant: the watermark of the save before.                               *)
Save_OldMark(ok) ==
  /\ ctx' = watermark
  /\ stored' = IF ok THEN CompactSnapshot(ctx) ELSE stored
  /\ pc' = "idle"
  /\ UNCHANGED <<environment, trackerVars, watermark, floor, faultVars,
                 historyVars>>

(* _persist: the save context always, the file when the write succeeds.    *)
(* Its four stores to the context are one step: the signal handler runs in *)
(* this thread and CPython delivers no signal between plain attribute      *)
(* stores.  StateHandover, where another thread writes, splits them.       *)
Save(ok) ==
  /\ ctx' = watermark
  /\ stored' = IF ok THEN CompactSnapshot(watermark) ELSE stored
  /\ pc' = "idle"
  /\ UNCHANGED <<environment, trackerVars, watermark, floor, faultVars,
                 historyVars>>

FirstPersist(ok) == pc = "boot" /\ Save(ok) /\ UNCHANGED fetchVars

(* maybe_roll_day resets the tracker first; the watermark and the floor    *)
(* move only after the IAM calls of the roll.                              *)
RollDay ==
  /\ pc = "idle" /\ dayKey # DayOf(now)
  /\ dayKey' = DayOf(now) /\ billed' = Nothing /\ seen' = {}
  /\ pc' = "rolling"
  /\ UNCHANGED <<environment, watermark, floor, fetchVars, ctx, stored,
                 faultVars, historyVars>>

RollWatermark ==
  /\ pc = "rolling"
  /\ watermark' = now /\ floor' = now
  /\ pc' = "rolled"
  /\ UNCHANGED <<environment, trackerVars, fetchVars, ctx, stored, faultVars,
                 historyVars>>

BeginFetch ==
  /\ pc = "rolled" \/ (pc = "idle" /\ dayKey = DayOf(now))
  /\ fetchAt' = now /\ visible' = log
  /\ pc' = "fetching"
  /\ UNCHANGED <<environment, trackerVars, watermark, floor, raw, todo, ctx,
                 stored, faultVars, historyVars>>

(* fetch_log_events: of the events that were there when it began and of    *)
(* some that arrive between two pages it returns as many as Pages admits.  *)
FetchOk ==
  /\ pc = "fetching"
  /\ \E late \in SUBSET (log \ visible) :
       \E page \in Pages({e \in visible \cup late : InWindow(e)}) :
         raw' = page /\ todo' = page
  /\ visible' = {} /\ fetchAt' = 0
  /\ pc' = "processing"
  /\ UNCHANGED <<environment, trackerVars, watermark, floor, ctx, stored,
                 faultVars, historyVars>>

(* A fetch that comes back with all that was there when it began.          *)
FetchWhole == FetchOk /\ {e \in visible : InWindow(e)} \subseteq raw'

(* A page that fails fails the fetch: spend and watermark stay.            *)
FetchFail ==
  /\ pc = "fetching"
  /\ visible' = {} /\ fetchAt' = 0
  /\ pc' = "persisting"
  /\ UNCHANGED <<environment, trackerVars, watermark, floor, raw, todo, ctx,
                 stored, faultVars, historyVars>>

(* One turn of process_events' loop.                                       *)
ProcessEvent(e) ==
  /\ pc = "processing" /\ e \in todo
  /\ todo' = todo \ {e}
  /\ IF e \in seen THEN UNCHANGED <<billed, seen, handled>>
     ELSE /\ seen' = seen \cup {e}
          /\ handled' = handled \cup {e}
          /\ billed' = IF e \in Billable /\ DayOf(ts[e]) = dayKey
                       THEN [billed EXCEPT ![e] = @ + 1] ELSE billed
  /\ UNCHANGED <<environment, pc, dayKey, watermark, floor, fetchAt, visible,
                 raw, ctx, stored, faultVars, torn>>

(* Mutant: ids are dropped as soon as they are below the watermark.        *)
KeepAfter_Mark(wm) == wm

(* run_loop's argument to prune_seen.                                      *)
KeepAfter(wm) == Later(0, wm - Overlap)

(* advance_watermark, then prune_seen.                                     *)
NewestOf(wm) == {wm} \cup {ts[e] : e \in raw}

Advance ==
  /\ pc = "processing" /\ todo = {}
  /\ \E wm \in NewestOf(watermark) :
       /\ \A t \in NewestOf(watermark) : t <= wm
       /\ watermark' = wm
       /\ seen' = {e \in seen : ts[e] >= KeepAfter(wm)}
  /\ raw' = {}
  /\ pc' = "persisting"
  /\ UNCHANGED <<environment, dayKey, billed, floor, fetchAt, visible, todo,
                 ctx, stored, faultVars, historyVars>>

Persist(ok) == pc = "persisting" /\ Save(ok) /\ UNCHANGED fetchVars

-----------------------------------------------------------------------------
(* The process ends; what it held in memory is gone.                       *)
ProcessEnds ==
  /\ pc # "down" /\ pc' = "down"
  /\ dayKey' = NoDay /\ billed' = Nothing /\ seen' = {}
  /\ watermark' = 0 /\ floor' = 0
  /\ fetchAt' = 0 /\ visible' = {} /\ raw' = {} /\ todo' = {}
  /\ ctx' = 0 /\ handled' = {}
  /\ UNCHANGED environment

Crash ==
  /\ crashes < MaxCrashes /\ crashes' = crashes + 1
  /\ ProcessEnds
  /\ UNCHANGED <<stored, sigterms, loadFaults, torn>>

(* _flush_state: the live tracker with the watermark of the last _persist. *)
(* Before the first _persist there is no save context and no flush.        *)
FlushState(ok) ==
  IF ok /\ pc # "boot"
  THEN /\ stored' = CompactSnapshot(ctx)
       /\ torn' = IF Ahead(ctx) THEN torn + 1 ELSE torn
  ELSE UNCHANGED <<stored, torn>>

(* _handle_signal, and the finally of _run_as_leader for an exception.     *)
Sigterm(ok) ==
  /\ sigterms < MaxSigterms /\ sigterms' = sigterms + 1
  /\ FlushState(ok)
  /\ ProcessEnds
  /\ UNCHANGED <<crashes, loadFaults>>

-----------------------------------------------------------------------------
Poll ==
  \/ RollDay \/ RollWatermark \/ BeginFetch \/ FetchOk \/ FetchFail
  \/ \E e \in Event : ProcessEvent(e)
  \/ Advance
  \/ \E ok \in BOOLEAN : Persist(ok)

Start ==
  \/ \E readable \in BOOLEAN : Boot(readable)
  \/ \E ok \in BOOLEAN : FirstPersist(ok)

Stop == Crash \/ \E ok \in BOOLEAN : Sigterm(ok)

Next == Tick \/ (\E e \in Event : Deliver(e)) \/ Start \/ Poll \/ Stop

Spec == Init /\ [][Next]_vars

(* Compose restarts the process (restart: unless-stopped) and run_loop     *)
(* keeps polling; CloudWatch neither fails every fetch for ever nor cuts   *)
(* every one short.                                                        *)
Fairness ==
  /\ WF_vars(Start) /\ WF_vars(Poll)
  /\ SF_vars(FetchWhole)

FairSpec == Spec /\ Fairness

-----------------------------------------------------------------------------
(* The promise: a ledger that prices an event once.                        *)
Ledger == INSTANCE SpendLedger WITH
            dayOf  <- [e \in Event |-> DayOf(ts[e])],
            up     <- pc # "down",
            day    <- dayKey,
            ledger <- billed,
            saved  <- [day |-> stored.day, ledger |-> stored.billed],
            tears  <- torn

-----------------------------------------------------------------------------
TypeOK ==
  /\ now \in Nat /\ log \subseteq Event /\ arrivedAt \in [Event -> Nat]
  /\ pc \in Stages
  /\ dayKey \in Int /\ billed \in [Event -> Nat] /\ seen \subseteq Event
  /\ watermark \in Int /\ floor \in Int
  /\ fetchAt \in Nat /\ visible \subseteq Event
  /\ todo \subseteq Event /\ raw \subseteq Event
  /\ ctx \in Int /\ stored \in Snapshot
  /\ crashes \in Nat /\ sigterms \in Nat /\ loadFaults \in Nat
  /\ handled \subseteq Event /\ torn \in Nat

(* No event is priced twice, over any number of overlapping fetches, page  *)
(* caps, failed writes, crashes, restarts and day rolls, except that each  *)
(* flush that saved spend above its watermark may cost one repetition      *)
(* (tracker.py: overlapping windows do not double-count).                  *)
BilledOnce ==
  \A e \in Event : billed[e] <= torn + 1 /\ stored.billed[e] <= torn + 1

(* Without such a flush, the state file never holds spend that a restart   *)
(* would fetch again: what it bills is at or below its watermark.          *)
SnapshotCoherent ==
  torn = 0 => \A e \in Event : stored.billed[e] > 0 => ts[e] <= stored.wm

(* Spend belongs to the day it is filed under, in memory and in the file,  *)
(* also when a fetch or a flush straddles midnight.                        *)
SpendIsOfItsDay ==
  \A e \in Event :
    /\ billed[e] > 0 => DayOf(ts[e]) = dayKey
    /\ stored.billed[e] > 0 => DayOf(ts[e]) = stored.day

(* An event that has arrived, lies at or above the floor and will never be *)
(* fetched again although this process has not looked at it.               *)
Missed(e) ==
  /\ pc # "down" /\ e \in log \ handled
  /\ ts[e] >= floor /\ ~InWindow(e)

(* The overlap does its job: only an event that reached CloudWatch later   *)
(* than the overlap, less the time a fetch takes, is ever missed.          *)
OnlyLaggardsAreMissed ==
  \A e \in Event : Missed(e) => arrivedAt[e] + FetchSpan >= ts[e] + Overlap

(* The poll loop, the state file and the flush implement the ledger:       *)
(* every step of theirs is one of its steps or leaves it alone.            *)
LedgerSpec == Ledger!Spec

(* While the day lasts the file's record only grows: no write, flush or    *)
(* restart takes back saved spend or moves the saved watermark down, as    *)
(* long as every start could read the file.                                *)
SavedSpendOnlyGrows ==
  [][(loadFaults' = 0 /\ stored'.day = stored.day) =>
       /\ stored'.wm >= stored.wm
       /\ \A e \in Event : stored'.billed[e] >= stored.billed[e]]_vars

(* What an idle process can see in its window it looks at, unless the      *)
(* process stops or the day rolls first: no fetch that failed, or ended at *)
(* an empty page or at the page cap and was taken for a good one, moves    *)
(* the window past an event it left unread.                                *)
WindowIsRead ==
  \A e \in Event :
    (pc = "idle" /\ e \in log /\ InWindow(e))
      ~> (e \in handled \/ pc = "down" \/ dayKey # DayOf(now))

(* main.py: "avoids double-counting spend that was already restored".      *)
NeverPricedTwice == \A e \in Event : billed[e] <= 1
=============================================================================
