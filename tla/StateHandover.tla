---------------------------- MODULE StateHandover ----------------------------
(***************************************************************************)
(* The state that the replicas of the Kubernetes deployment hand to one    *)
(* another: a ConfigMap with the spend and the watermark of the day        *)
(* (k8s_state.py), which the worker of each term loads once and writes at  *)
(* the end of each poll (main.py, run_loop), and which the main threads    *)
(* flush when a lease is lost or the pod is stopped.  No save asks who     *)
(* leads.                                                                  *)
(*                                                                         *)
(* Events are numbered as they are logged; a watermark is the number of    *)
(* the last one fetched.  Late events are the matter of LogIngest, flags   *)
(* and joins of GuardThreads, the lease of LeaseElection.                  *)
(***************************************************************************)
EXTENDS Integers, Sequences

CONSTANTS
  Replica,    \* pods
  LookBack,   \* events of a last minute, from which an empty start begins
  LastDay,    \* bound: days
  MaxEvents,  \* bound: events logged
  MaxTerms,   \* bound: elections won
  MaxFaults   \* bound: pods stopped, API calls and workers that fail

ASSUME HandoverAssumption ==
  /\ LookBack \in Nat
  /\ LastDay \in Nat \ {0} /\ MaxEvents \in Nat /\ MaxTerms \in Nat
  /\ MaxFaults \in Nat

Event  == 1..MaxEvents
Thread == Replica \X {"main", "worker"}

VARIABLES
  day,       \* the UTC day
  log,       \* the day of each event logged
  cm,        \* the snapshot in the ConfigMap
  current,   \* threads whose copy has the ConfigMap's resourceVersion
  main,      \* where the main thread of each replica is
  worker,    \* where its worker is
  live,      \* the worker's tracker and its watermark_ms
  ctx,       \* _save_ctx as the last _persist left it
  attached,  \* _save_ctx.tracker is the tracker of the current worker
  save,      \* the save each thread is in
  torn,      \* history: flushes of a tracker with a watermark behind its own
  crossed,   \* history: a tracker was flushed with a watermark ahead of it
  booked,    \* history: events whose cost has been in the ConfigMap
  terms, faults  \* counters under the bounds

history == <<torn, crossed, booked>>
counters == <<terms, faults>>
process  == <<main, worker, live, ctx, attached>>
vars == <<day, log, cm, current, process, save, history, counters>>

MainStages == {"standing", "leading", "signalled", "stopping", "ending",
               "exiting"}
WorkerStages == {"none", "loading", "attaching", "check", "rolled",
                 "persisting", "leaving"}

Unpriced == [e \in Event |-> 0]

(* A tracker with a watermark; since is history: the watermark its spend   *)
(* was begun at, by an empty start or a day roll.                          *)
Fresh(d, n) == [day |-> d, spend |-> Unpriced, wm |-> n, since |-> n]
Blank == Fresh(0, 0)
Snapshot == [day : 0..LastDay, spend : [Event -> Nat],
             wm : 0..MaxEvents, since : 0..MaxEvents]

NoSave == [step |-> "idle", body |-> Blank]
Idle(t) == save[t].step = "idle"

Fault == faults < MaxFaults /\ faults' = faults + 1

Init ==
  /\ day = 1 /\ log = <<>> /\ cm = Blank /\ current = {}
  /\ main = [r \in Replica |-> "standing"]
  /\ worker = [r \in Replica |-> "none"]
  /\ live = [r \in Replica |-> Blank] /\ ctx = [r \in Replica |-> Blank]
  /\ attached = [r \in Replica |-> FALSE]
  /\ save = [t \in Thread |-> NoSave]
  /\ torn = 0 /\ crossed = FALSE /\ booked = {} /\ terms = 0 /\ faults = 0

-----------------------------------------------------------------------------
(* An invocation is logged; a day ends.                                    *)
Log ==
  /\ Len(log) < MaxEvents /\ log' = Append(log, day)
  /\ UNCHANGED <<day, cm, current, process, save, history, counters>>

Midnight ==
  /\ day < LastDay /\ day' = day + 1
  /\ UNCHANGED <<log, cm, current, process, save, history, counters>>

-----------------------------------------------------------------------------
(* ConfigMapStateStore.save of a body fixed when it begins: _write reads   *)
(* the ConfigMap, then replaces it.  Without a ConfigMap it creates one,   *)
(* which conflicts as a replace does.                                      *)
BeginSave(t, body) ==
  /\ save' = [save EXCEPT ![t] = [step |-> "writing", body |-> body]]
  /\ current' = current \cup {t}

EndSave(t) == save' = [save EXCEPT ![t] = NoSave]

SaveUnchanged == UNCHANGED <<day, log, process, torn, crossed, terms>>

(* Mutant: the payload has no watermark.                                   *)
Lands_NoMark(t) ==
  /\ t \in current
  /\ cm' = [day |-> save[t].body.day, spend |-> save[t].body.spend]
  /\ current' = {} /\ UNCHANGED booked

(* A replace by optimistic concurrency: the copy must be current.          *)
Lands(t) ==
  /\ t \in current
  /\ cm' = save[t].body /\ current' = {}
  /\ booked' = booked \cup {e \in Event : save[t].body.spend[e] > 0}

Replace(t) ==
  /\ ~Idle(t) /\ Lands(t) /\ EndSave(t)
  /\ SaveUnchanged /\ UNCHANGED faults

(* 409: the same body is tried once more, on a copy read again.            *)
Conflict(t) ==
  /\ ~Idle(t) /\ t \notin current
  /\ IF save[t].step = "writing"
     THEN /\ save' = [save EXCEPT ![t].step = "again"]
          /\ current' = current \cup {t}
     ELSE EndSave(t) /\ UNCHANGED current
  /\ SaveUnchanged /\ UNCHANGED <<cm, booked, faults>>

(* Another failure ends the save; a replace may have landed all the same.  *)
SaveFails(t) ==
  /\ ~Idle(t) /\ Fault /\ EndSave(t)
  /\ Lands(t) \/ (current' = current \ {t} /\ UNCHANGED <<cm, booked>>)
  /\ SaveUnchanged

Store(t) == Replace(t) \/ Conflict(t) \/ SaveFails(t)

-----------------------------------------------------------------------------
(* Mutant: _persist sets the watermark before the tracker.                 *)
Context_MarkFirst(r) ==
  IF attached[r] THEN [live[r] EXCEPT !.wm = ctx[r].wm]
  ELSE IF worker[r] = "attaching" THEN [ctx[r] EXCEPT !.wm = live[r].wm]
  ELSE ctx[r]

(* What a flush finds in _save_ctx: the worker's tracker as it is now with *)
(* the watermark of the last _persist, or what a former term left.         *)
Context(r) ==
  IF attached[r] THEN [live[r] EXCEPT !.wm = ctx[r].wm] ELSE ctx[r]

(* _flush_state; nothing to do before the first _persist of the process.   *)
Flush(t) ==
  LET r == t[1] IN
  /\ IF Context(r) = Blank THEN UNCHANGED <<save, current>>
                           ELSE BeginSave(t, Context(r))
  /\ torn' = IF attached[r] /\ ctx[r].wm < live[r].wm THEN torn + 1 ELSE torn
  /\ crossed' = (crossed \/ (attached[r] /\ ctx[r].wm > live[r].wm))

Main(r) == <<r, "main">>
Work(r) == <<r, "worker">>

MainGoto(r, stage) == main' = [main EXCEPT ![r] = stage]
WorkerGoto(r, stage) == worker' = [worker EXCEPT ![r] = stage]

(* The lease is won and a worker starts, with a tracker of its own.        *)
Acquire(r) ==
  /\ main[r] = "standing" /\ \A q \in Replica : main[q] # "leading"
  /\ terms < MaxTerms /\ terms' = terms + 1
  /\ MainGoto(r, "leading") /\ WorkerGoto(r, "loading")
  /\ UNCHANGED <<day, log, cm, current, live, ctx, attached, save, history,
                 faults>>

(* _on_stopped_leading: the lease is lost, the worker has raised, or the   *)
(* signal handler has flushed before.                                      *)
OnStopped(r) ==
  /\ main[r] \in {"leading", "signalled"} /\ Idle(Main(r))
  /\ MainGoto(r, IF main[r] = "leading" THEN "stopping" ELSE "ending")
  /\ Flush(Main(r))
  /\ UNCHANGED <<day, log, cm, worker, live, ctx, attached, booked, counters>>

(* The process ends, with what its threads were doing, and the container   *)
(* starts again.                                                           *)
Restart(r) ==
  /\ MainGoto(r, "standing") /\ WorkerGoto(r, "none")
  /\ live' = [live EXCEPT ![r] = Blank] /\ ctx' = [ctx EXCEPT ![r] = Blank]
  /\ attached' = [attached EXCEPT ![r] = FALSE]
  /\ save' = [t \in Thread |-> IF t[1] = r THEN NoSave ELSE save[t]]
  /\ current' = {t \in current : t[1] # r}
  /\ UNCHANGED <<day, log, cm, history, terms>>

(* Main waits for the worker, then stands again or ends.                   *)
Join(r) ==
  /\ main[r] \in {"stopping", "ending"} /\ Idle(Main(r)) /\ worker[r] = "none"
  /\ IF main[r] = "ending" THEN Restart(r) /\ UNCHANGED faults
     ELSE /\ MainGoto(r, "standing")
          /\ UNCHANGED <<day, log, cm, current, worker, live, ctx, attached,
                         save, history, counters>>

(* _handle_signal in the main thread, whatever it was doing: an unfinished *)
(* flush of its own is abandoned for the handler's.                        *)
Sigterm(r) ==
  /\ main[r] \in {"standing", "leading", "stopping"} /\ Fault
  /\ MainGoto(r, IF main[r] = "leading" THEN "signalled" ELSE "exiting")
  /\ IF Context(r) = Blank
     THEN /\ EndSave(Main(r)) /\ current' = current \ {Main(r)}
          /\ UNCHANGED <<torn, crossed>>
     ELSE Flush(Main(r))
  /\ UNCHANGED <<day, log, cm, worker, live, ctx, attached, booked, terms>>

Exit(r) ==
  /\ main[r] = "exiting" /\ Idle(Main(r)) /\ Restart(r) /\ UNCHANGED faults

Kill(r) == Fault /\ Restart(r)

-----------------------------------------------------------------------------
WorkerUnchanged == UNCHANGED <<day, log, cm, main, booked, terms>>
NoSaveBegins == UNCHANGED <<save, current, torn, crossed>>

LookBackMark == IF Len(log) > LookBack THEN Len(log) - LookBack ELSE 0

(* ConfigMapStateStore.load and apply_state: the snapshot of today, or an  *)
(* empty one from a minute ago on, if there is none or the read fails.     *)
Load(r) ==
  /\ worker[r] = "loading" /\ WorkerGoto(r, "attaching")
  /\ \/ /\ cm.day = day /\ live' = [live EXCEPT ![r] = cm]
        /\ UNCHANGED faults
     \/ /\ (cm.day # day /\ UNCHANGED faults) \/ Fault
        /\ live' = [live EXCEPT ![r] = Fresh(day, LookBackMark)]
  /\ WorkerUnchanged /\ NoSaveBegins /\ UNCHANGED <<ctx, attached>>

(* _persist: the context gets the tracker, then the watermark, and both    *)
(* are saved.                                                              *)
Attach(r) ==
  /\ worker[r] = "attaching" /\ WorkerGoto(r, "persisting")
  /\ attached' = [attached EXCEPT ![r] = TRUE]
  /\ WorkerUnchanged /\ NoSaveBegins /\ UNCHANGED <<live, ctx, faults>>

(* Mutant: a poll that changed nothing is not saved.                       *)
WorthSaving_Changed(r) == live[r] # ctx[r]

(* Every poll is saved.                                                    *)
WorthSaving(r) == TRUE

Persist(r) ==
  /\ worker[r] = "persisting" /\ WorkerGoto(r, "check")
  /\ ctx' = [ctx EXCEPT ![r] = live[r]]
  /\ IF WorthSaving(r) THEN BeginSave(Work(r), live[r])
                       ELSE UNCHANGED <<save, current>>
  /\ WorkerUnchanged /\ UNCHANGED <<live, attached, torn, crossed, faults>>

(* The loop goes on while the stop event is not set.  First the day may    *)
(* roll, with IAM calls before the fetch.                                  *)
MayPoll(r) == worker[r] = "check" /\ Idle(Work(r)) /\ main[r] = "leading"

RollDay(r) ==
  /\ MayPoll(r) /\ live[r].day # day
  /\ WorkerGoto(r, "rolled")
  /\ live' = [live EXCEPT ![r] = Fresh(day, Len(log))]
  /\ WorkerUnchanged /\ NoSaveBegins /\ UNCHANGED <<ctx, attached, faults>>

(* Mutant: the first fetch after a load begins at the watermark.           *)
Unread_FromMark(t) ==
  {e \in 1..Len(log) : e >= t.wm /\ e > t.since /\ log[e] = t.day}

(* The events a fetch finds and process_events prices.                     *)
Unread(t) == {e \in 1..Len(log) : e > t.wm /\ log[e] = t.day}

(* The tracker once process_events has priced them.                        *)
Priced(t) ==
  [t EXCEPT !.wm = Len(log),
            !.spend = [e \in Event |-> IF e \in Unread(t) THEN t.spend[e] + 1
                                       ELSE t.spend[e]]]

(* Fetched, priced, and the watermark advanced; or the fetch failed.       *)
Fetch(r) ==
  /\ worker[r] = "rolled" \/ (MayPoll(r) /\ live[r].day = day)
  /\ WorkerGoto(r, "persisting")
  /\ \/ live' = [live EXCEPT ![r] = Priced(@)] /\ UNCHANGED faults
     \/ Fault /\ UNCHANGED live
  /\ WorkerUnchanged /\ NoSaveBegins /\ UNCHANGED <<ctx, attached>>

(* The loop is told to stop, or something raises; then the finally of      *)
(* _run_as_leader flushes.                                                 *)
Leave(r) ==
  /\ \/ worker[r] = "check" /\ main[r] # "leading" /\ UNCHANGED faults
     \/ worker[r] \in {"loading", "attaching", "rolled", "persisting"} /\ Fault
  /\ Idle(Work(r)) /\ WorkerGoto(r, "leaving")
  /\ Flush(Work(r))
  /\ WorkerUnchanged /\ UNCHANGED <<live, ctx, attached>>

WorkerEnds(r) ==
  /\ worker[r] = "leaving" /\ Idle(Work(r)) /\ WorkerGoto(r, "none")
  /\ ctx' = [ctx EXCEPT ![r] = Context(r)]
  /\ live' = [live EXCEPT ![r] = Blank]
  /\ attached' = [attached EXCEPT ![r] = FALSE]
  /\ WorkerUnchanged /\ NoSaveBegins /\ UNCHANGED faults

-----------------------------------------------------------------------------
(* What the main thread does when nobody takes its lease or stops it.      *)
MainThread(r) ==
  \/ main[r] = "leading" /\ worker[r] = "none" /\ OnStopped(r)
  \/ main[r] = "signalled" /\ OnStopped(r)
  \/ Join(r) \/ Exit(r)

WorkerThread(r) ==
  \/ Load(r) \/ Attach(r) \/ Persist(r) \/ RollDay(r) \/ Fetch(r)
  \/ Leave(r) \/ WorkerEnds(r)

Next ==
  \/ Log \/ Midnight
  \/ \E r \in Replica : \/ MainThread(r) \/ WorkerThread(r)
                        \/ Acquire(r) \/ OnStopped(r) \/ Sigterm(r) \/ Kill(r)
  \/ \E t \in Thread : Store(t)

Spec == Init /\ [][Next]_vars

(* Threads are scheduled and their calls end.  A lease that is won or lost *)
(* is nobody's promise.                                                    *)
FairSpec ==
  /\ Spec
  /\ \A r \in Replica : /\ WF_vars(MainThread(r) \/ Store(Main(r)))
                        /\ WF_vars(WorkerThread(r) \/ Store(Work(r)))

-----------------------------------------------------------------------------
TypeOK ==
  /\ day \in 1..LastDay /\ log \in Seq(1..LastDay) /\ Len(log) <= MaxEvents
  /\ cm \in Snapshot /\ current \subseteq Thread
  /\ main \in [Replica -> MainStages] /\ worker \in [Replica -> WorkerStages]
  /\ live \in [Replica -> Snapshot] /\ ctx \in [Replica -> Snapshot]
  /\ attached \in [Replica -> BOOLEAN]
  /\ save \in [Thread -> [step : {"idle", "writing", "again"},
                          body : Snapshot]]
  /\ torn \in Nat /\ crossed \in BOOLEAN /\ booked \subseteq Event
  /\ terms \in Nat /\ faults \in Nat

Trackers == {cm} \cup {live[r] : r \in Replica}

(* Whatever order the replicas load and save in, with whatever failures,   *)
(* no event is priced twice, but for once per flush that caught a tracker  *)
(* between two of its worker's polls.                                      *)
BilledOnce == \A s \in Trackers, e \in Event : s.spend[e] <= 1 + torn

(* No handover skips an event: between the point its spend was begun at    *)
(* and its watermark every event of its day is priced.                     *)
SpendIsComplete ==
  ~crossed => \A s \in Trackers : \A e \in 1..Len(log) :
    s.since < e /\ e <= s.wm /\ log[e] = s.day => s.spend[e] > 0

(* A leader that stays is not undone by the saves of the one before it: at *)
(* last its own spend, up to the last event, is what the ConfigMap holds.  *)
LeaderHasTheLastWord ==
  \A r \in Replica :
    <>[](main[r] = "leading") =>
      <>[](cm = live[r] /\ cm.day = day /\ cm.wm = Len(log))

(* DESIGN.md: a mid-day restart or failover resumes from the watermark.    *)
(* What a term loads holds the cost of every event of today that was once  *)
(* saved, or has its watermark below the event.                            *)
FailoverResumes ==
  [][\A r \in Replica, e \in booked :
       worker[r] = "loading" /\ worker'[r] = "attaching" /\ log[e] = day =>
         live'[r].spend[e] > 0 \/ e > live'[r].wm]_vars
=============================================================================
