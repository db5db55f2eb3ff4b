# A verification project for Bedrock Budget Guard

Bedrock Budget Guard polls CloudWatch for Bedrock invocation logs, prices them,
adds the cost to the project that the calling IAM role is tagged with, alerts at
fractions of the project's daily budget, and attaches an inline Deny policy to
the project's roles once the budget is spent. This directory holds TLA+ models
of that program, the TLC configurations that check them, and proofs for TLAPS.
Paths below are relative to the repository; `main.py` and its neighbours live in
`budget-guard/`.

## 1. The system

### Components

| Component | Source | State it keeps | Operations |
|---|---|---|---|
| Log ingestion | `main.py` `run_loop`, `fetch_log_events`, `process_events`, `advance_watermark`, `fetch_start_ms`; `tracker.py` | day key, spend, seen ids, watermark, fetch floor | start, poll (roll, fetch, process, advance, prune, persist) |
| Enforcement | `main.py` `reconcile_enforcement`, `lift_all_managed_denys`; `enforce.py` | `blocked_projects`, fired thresholds; the Deny policies in IAM | alert, put, delete, discover |
| Role map | `roles.py`, `RoleMapCache` | role → project, its age | refresh, force, attribute an event |
| State file | `state.py` | `state.json` | load, save (write a temporary file, rename) |
| ConfigMap store | `k8s_state.py` | the same JSON in etcd | load, save (read, replace, retry once on 409) |
| Leader election | `leader.py` | the Lease: holder, renew time | acquire, renew, expire, step down |
| Process and signals | `main.py` `main`, `_run_as_leader`, `_on_stopped_leading`, `_handle_signal` | `_leader`, `_loop_stop`, `_shutdown`, `_save_ctx` | start, lose the lease, SIGTERM, flush |
| Pricing | `cost.py` | none | tokens → USD |
| Alerts | `alert.py` | Slack settings | print a line, post it from a daemon thread |
| Status and metrics | `httpapi.py`, `metrics.py` | a snapshot behind a lock | update, serve |
| Traffic generator | `generator/` | last minute emitted | put a minute's events with retries, leave out roles that are denied |
| Seed, smoke test, manifests | `seed/`, `smoke/`, `deploy/`, `docker-compose*.yaml` | none | one-shot |

### How they interact

Everything that matters happens in one loop. A poll reloads `config.yaml`
(keeping the last good one), rolls the day if midnight has passed (reset the
tracker, lift every Deny, move watermark and floor to the current time), reads
the role map, fetches the log from `fetch_start_ms` on, prices the events it has
not seen, moves the watermark to the newest event, drops seen ids older than the
overlap, reconciles the Denys project by project, and saves. The loop shares the
tracker, the blocked set and the save context with the signal handler, which
flushes the *live* tracker with the *saved* watermark and exits. In Kubernetes a
second thread renews the Lease, and the loop asks it before each group of IAM
calls whether it still leads. Each term of a replica is a new `run_loop` with a
tracker of its own, loaded from the ConfigMap; the save context is shared by all
terms and by the main thread's flushes. In the demo the guard's input comes from
the generator, which asks IAM for the Denys the guard has put.

### What is hard

* Seen ids live in memory only, spend and watermark in the file: every stop
  makes a new process resume from a pair that must still agree.
* The fetch window, the pruning of ids and the floor are three formulas over the
  same watermark; a mismatch prices an event twice or skips it.
* Events arrive late, between pages, or while the day changes.
* IAM calls fail one by one in the middle of a sequence; the process may be
  killed between any two of them; what a delete returned is ignored.
* In-memory marks (fired thresholds, blocked projects) become durable only at
  the end of the poll.
* With two replicas: a deposed leader's thread that is still in a call, a second
  worker beside it, writers of one ConfigMap that do not ask who leads.
* Whose spend an event is, is decided once, by a map that is read role by role,
  kept for a minute, and may lack roles it failed to read.
* The generator's retries, and what an emulator forgets when it restarts.

`PROJECT.json` lists the hazards line by line, with the properties that speak of
each.

## 2. Modules

| Module | Models |
|---|---|
| `LogIngest` | one process's ingestion: clock, log, poll loop, file, crashes, SIGTERM, restarts |
| `SpendLedger` | abstract specification: a ledger that prices an event once |
| `LogIngestProofs` | theorems about `LogIngest` |
| `MCLogIngest` | event times for TLC |
| `Enforcement` | enforcing half of the poll: config, day roll, alerts, Denys, restarts |
| `EnforcementProofs` | theorems about `Enforcement` |
| `MCEnforcement` | projects, roles, settings, failure bounds for TLC |
| `LeaseElection` | the replicas' election over one Lease, with time, clock skew, slow and failing API calls |
| `LeaseElectionProofs` | theorems about `LeaseElection` |
| `MCLeaseElection` | replicas and clock offsets for TLC |
| `GuardThreads` | inside one replica: the main thread, a worker per term, their shared events, SIGTERM, what the status page says |
| `GuardThreadsProofs` | theorems about `GuardThreads` |
| `StateHandover` | the ConfigMap between two replicas: loads, saves, conflicts, flushes, terms |
| `StateHandoverProofs` | theorems about `StateHandover` |
| `RoleAttribution` | tags, role map and price list deciding whose spend an event is |
| `RoleAttributionProofs` | theorems about `RoleAttribution` |
| `Generator` | the demo's traffic: minutes, retries, IAM checks, an emulator that restarts |
| `GeneratorProofs` | theorems about `Generator` |

They meet along interfaces that each module names. `LeaseElection` says when a
lease is won and lost, which is free in `GuardThreads` and, with at most one
replica leading, in `StateHandover`. `GuardThreads` says when a worker stops and
when a join gives up; in `StateHandover` it never does. `LogIngest` has the
steps of a fetch and late events, which are one step of `StateHandover`; what is
`Billable` there is `RoleAttribution`'s verdict; its spend is a number that grows
in `Enforcement`.

Operators whose names end in a suffix such as `KeepAfter_Mark` or
`ShouldBlock_Once`, marked *mutant* where they stand, are deliberately wrong
variants of the operator defined after them. Nothing in the specifications uses
them; each exists to show that a property notices that mistake.

### LogIngest

One deployment, Compose: no election, `run_loop` in the main thread, so a signal
may interrupt any step.

| In the model | In the code |
|---|---|
| `log`, `arrivedAt`, `Deliver` | what CloudWatch holds; an event may arrive any time after its timestamp, late ones included (external) |
| `billed[e]` | `spend_usd`, event by event: how often the cost of `e` is in it. A sum hides a repetition, this does not |
| `seen`, `watermark`, `floor` | `seen_event_ids`, `watermark_ms`, `fetch_floor_ms` |
| `ctx` | `_save_ctx.watermark_ms` |
| `stored` | `state.json`; a day that is not today is ignored at load |
| `Boot`, `FirstPersist` | the start up to and including the `_persist` before the loop |
| `RollDay`, `RollWatermark` | `maybe_roll_day`; then, after the IAM calls of the roll, the new watermark and floor |
| `BeginFetch`, `FetchOk`, `FetchFail` | the request and its answer: of the events there at the start, and of some that arrive meanwhile, any oldest part: `Pages` is where pagination may end, at the last page, at the page cap, or at an empty page that still carries a `nextToken` (`main.py:169`) |
| `FetchWhole` | a fetch that returns all that was there when it began |
| `ProcessEvent` | one turn of `process_events`' loop, in any order |
| `Advance` | `advance_watermark` and `prune_seen` |
| `Persist(ok)` | `_persist`; a failed write is a metric and the loop goes on |
| `Sigterm(ok)` | `_handle_signal` and `_flush_state`: the live tracker with the old watermark |
| `Crash` | a kill without a flush |

`handled`, `since` and `torn` are history variables: what this process has
marked as seen, the floor it started from, and how many flushes saved spend
above their watermark.

Abstractions. A tick stands for the granularity that the properties compare
(timestamps, overlap, day). The clock does not run backwards. Whether an event
is billable (role tagged, model priced) is a property of the event. `FetchSpan`
names the longest time a fetch may take; only `OnlyLaggardsAreMissed` depends on
it. FilterLogEvents returns events in timestamp order, which is how a fetch that ends
early cuts. A write of the state file is atomic (temporary file and rename,
`state.py:156-159`). The four stores of `_persist` to the save context
(`main.py:382-385`) are one step, since the signal handler runs in the same
thread and no signal is delivered between plain attribute stores;
`StateHandover`, where another thread writes, splits them. The two flushes of one SIGTERM (handler and `finally`)
write the same content and are one step.

### SpendLedger

What ingestion promises: a ledger for a day, `Price(e)` allowed while `e` has
been priced at most as often as there were tears, a saved copy, a new day, an
end with or without a last save, a restart that resumes from the copy or with
nothing. Windows, watermarks, overlaps and seen ids do not occur.
`LogIngest!LedgerSpec` is the instance under `day <- dayKey`,
`ledger <- billed`, `saved <-` the file without its watermark, `tears <- torn`.

### Enforcement

| In the model | In the code |
|---|---|
| `deny` | roles that carry `BudgetGuardDenyBedrock` in IAM; survives the process |
| `blocked`, `fired`, `spend` | `blocked_projects`, the tracker's fired thresholds and spend |
| `cfgFile`, `cfg` | `config.yaml`, and the last good copy of it |
| `known` | the cached role map |
| `Boot`, `Discover`, `Persist` | config and state, then role map and `discover_blocked_projects`, then the first save |
| `StartPoll` | config reload and `maybe_roll_day` |
| `BeginLiftAll`, `DeleteDeny`, `FinishLiftAll` | forced refresh and `lift_all_managed_denys`, a role at a time |
| `UseMap`, `RefreshMap` | `RoleMapCache.get`, within the TTL or past it |
| `Count` | the ingestion of this poll, seen as spend that grows |
| `Visit`, `PutDeny`/`DeleteDeny`, `FinishBlock`/`FinishUnblock` | one project's turn in `reconcile_enforcement`; a put or delete that fails may have landed, its answer lost |
| `Kill`, `Sigterm` | the process ends, without or with a flush |

Projects are visited in any order (the code sorts them). A role whose check
fails counts as not denied in `discover_blocked_projects`, as in the code.
`tag` may change at any time (`Retag`), and `known`, the cached map, then differs
from it. `alerts` counts ALERT lines; `setbacks` counts ends of a process whose
fired thresholds are not in the file, and starts that could not read them;
`moved` holds the roles that changed hands since the map was read, or under a
Deny that neither a day roll nor a start has visited since; `lost` holds the roles
under a Deny that the loop does not know of: a put landed without an answer while
the project was not blocked, a delete was not carried out, or the map or the
discovery missed the role. An answered put for the project, a delete or a
successful check at a start takes a role out. Leadership is held throughout.

### LeaseElection

| In the model | In the code |
|---|---|
| `lease` | `holder_identity` and `renew_time` of the Lease; a Lease that is not there has the holder `Nobody` |
| `current` | the replicas whose copy carries the Lease's resourceVersion: a read joins the set, a write empties it |
| `BeginTry`, `Read`, `Write`, `WriteConflicts` | `try_acquire_or_renew`: read the clock, read the Lease (or 404), replace (or create) it, 409 |
| `ReadFails`, `WriteFails` | calls that raise; a write may have landed all the same |
| `plan` | acquire loop, between rounds of renewal, within a round |
| `deadline`, `MissedDeadline` | `renew_deadline_s`, looked at between two tries only |
| `OnStopped` | `on_stopped`, the join (up to `JoinSpan`) and main's `sleep(2)` |
| `Stop`, `Start` | a kill or SIGTERM of a replica; the container starts again under the same `POD_NAME` |

Time is explicit: `Tick` waits for every thread whose sleep or call is due, so a
sleep ends on time and an API call ends within `CallSpan`, at any moment of it.
The code sets no request timeout; `CallSpan` is therefore a parameter and not a
fact, and `Timely` says how large it may be. `offset` is each node's UTC clock
against true time; deadlines use the monotonic clock, which all share. An
elector's `_client` is taken to be there, and nobody deletes the Lease.

`Timely`, `2 * RetryPeriod + RenewDeadline + 4 * CallSpan + Skew <=
LeaseDuration`, follows the longest way from the stamp of a good renewal to
`on_stopped`: its own read and write, a sleep, a round of failing tries whose
last begins just before the deadline, and a sleep. With the constants of
`leader.py:21-23` this is 14 s, four calls and the skew, within 15 s. The
instances are tight: one tick less of `LeaseDuration` and `LeaderHoldsLease`
fails.

### GuardThreads

| In the model | In the code |
|---|---|
| `leader`, `loopStop`, `shutdown` | the events `_leader`, `_loop_stop`, `_shutdown` |
| `shown` | what `/status` and the metric say of the flag (`STATUS.set_leader`, `metrics.set_leader`, one step) |
| `main` | standing for election, renewing, the three steps of `_on_stopped_leading`, the join, `sleep(2)`, the two steps before the next election, exited |
| `worker[w]` | where the thread of term `w` is; threads of former terms may still run |
| `Enter`, `ClearStop`, `Announce`, `Show` | the first steps of `_run_as_leader`: look at `_shutdown`, clear `_loop_stop`, set `_leader`, show it |
| `FlushRaises` | the flush of `_on_stopped_leading` while the worker changes what `compact_snapshot` iterates over: `run_election` raises instead of joining |
| `BeginPoll`, `EndLoop`, `Count`, `Save` | `run_loop`: its loop condition; what is done without asking who leads |
| `BeginBatch`, `CallIam` | a fence that is open, and the puts or deletes it stands for, one at a time |
| `Join`, `MayGiveUp` | `work.join(timeout=...)`, which may return without the worker |
| `Raise`, `Blame` | an exception in the worker, caught by `_work` and left in `leading_failed` |
| `Sigterm`, `Exit` | `_handle_signal` in the main thread; the daemon threads die with the process |

`Lose` may happen at any time, for `LeaseElection` says when a lease is lost.
`PromptStart` makes one exception: a worker that was just started gets to
`run_loop` before the lease can be lost, which takes the renew deadline. The
three reads of `still_leader` are one step. `stray` counts the IAM calls made
since `on_stopped` began, up to one more than a batch.

### StateHandover

| In the model | In the code |
|---|---|
| `cm`, `current` | the ConfigMap's `state.json`; the threads whose copy carries its resourceVersion |
| `save[t]`, `BeginSave`, `Replace`, `Conflict`, `SaveFails` | `ConfigMapStateStore.save`: the body is fixed first, `_write` reads and replaces (or creates), a 409 reads and tries once more, anything else ends it, landed or not |
| `live`, `ctx`, `attached` | the worker's tracker and `watermark_ms`; `_save_ctx`, whose tracker is a reference to the live one and whose watermark is a value |
| `Context`, `Flush` | what `_flush_state` finds and saves |
| `Load`, `Attach`, `Persist` | `store.load` and `apply_state`; the two halves of `_persist`'s assignments, then its save |
| `RollDay`, `Fetch`, `Priced` | the day roll; fetch, process and advance as one step, and the tracker they leave |
| `Leave`, `WorkerEnds` | the loop ends or raises, and the `finally` of `_run_as_leader` flushes |
| `OnStopped`, `Join` | `_on_stopped_leading` and the join of `run_election` |
| `Sigterm`, `Exit`, `Kill` | the signal handler, on top of whatever the main thread was doing; the container starts again and stands |

Events are numbered in the order they are logged and a watermark is a number, so
a fetch from `watermark + 1` is exact. `live.since` is the watermark at which the
spend was begun, by an empty start (`LookBack` events back: the last 60 s) or a
day roll. History: `torn` counts flushes that caught a tracker ahead of the
watermark they saved with it, `crossed` says that one was caught behind it (a
tracker that was just attached, with the watermark of the term before it), and
`booked` holds the events whose cost was ever in the ConfigMap. The read of
`_write` and the start of its save are one step, for the body is fixed and the
resourceVersion counts only from the read on.

### RoleAttribution

| In the model | In the code |
|---|---|
| `tag`, `prices` | the `project` tags in IAM; `pricing_per_million_usd` in `config.yaml` |
| `map`, `age` | `RoleMapCache._map`, and how long ago its `_loaded_at` is |
| `fresh`, `toRead`, `loading` | a `load_role_project_map` in progress, and how long ago it began |
| `ListFails`, `ReadTags`, `ReadFails` | `list_roles` fails both ways; `list_role_tags` answers, or fails and leaves the role out |
| `StartPoll`, `Get` | reload of the config, forced load at the day roll; `get` within the TTL or past it |
| `Verdict`, `ProcessEvents` | `process_events`: no role, no project, no price, or billed; seen in every case |

`tagged`, `unread` and `unpriced` are history: how many ticks ago each role had
each tag, a read of its tags failed, and a model had no price the loop knew of.
Instead of a clock the module keeps such distances, none larger than the
properties ask for (`Horizon`), so that time goes on for ever in a finite state
space. `PollSpan` is the longest time from the start of a poll to its
`process_events`.

### Generator

| In the model | In the code |
|---|---|
| `group`, `stream`, `roles`, `grants` | the emulator's log group and stream, its roles, and the policies of a role that speak of invoking: where each stands (managed, inline) and what it says |
| `next`, `due` | `emitted_through + 1` and `current_minute`, as minutes of the clock |
| `EnsureStream`, `StartupFails` | the attempts at the startup |
| `BeginMinute`, `EndChecks` | `events_for_minute`; all roles of the minute are checked |
| `ReadManaged`, `ListInline`, `Judge` | `role_is_blocked` of one role: the managed policies, the names of the inline ones, then their documents and the verdict |
| `CheckFails`, `Gone` | its except clause: a call that fails, or asks for a role or policy that is gone by then |
| `Put`, `AnswerLost`, `PutFails`, `NoStream`, `Recreate`, `RecreateFails`, `Retry` | `_put_with_retry`: its attempts, what the except clause does and what escapes it; botocore's own repetition of a request |
| `Exits`, `Restart` | an exception leaves `main`; `restart: unless-stopped` |
| `Grant`, `Wipe`, `Seed` | the guard or another tool changes the policies; the emulator restarts with nothing; `seed.py` runs again |

A tick is a minute and a role's traffic of a minute is one unit. `docs`
is what has been read of the role in `reading`. `owed`, `copies`, `denied` (which
cause has blocked whom since the minute was begun), `misjudged`, `repeats` and
`orphaned` are history. A policy's document does not change under its name, so
that a listed inline policy that is still there says what it said; the managed
policies of a role are read at one instant, for with the one that `seed.py`
attaches there is no second to change in between. A process
that starts again begins with the minute it starts in; what passed meanwhile is
not emitted, as in the code.

## 3. Runs

| Run | Checks | Bounds |
|---|---|---|
| `ingest_midnight` | `TypeOK`, `BilledOnce`, `SnapshotCoherent`, `SpendIsOfItsDay`, `OnlyLaggardsAreMissed`, `SavedSpendOnlyGrows`, `LedgerSpec`, `WindowIsRead` | 3 events, at 2 and 3 in one day and at the next midnight, an overlap of 2 and fetches of up to 1 tick that may end anywhere; a crash, a SIGTERM, an unreadable file; fair |
| `ingest_torn_flush` | refutes `NeverPricedTwice` | one SIGTERM |
| `enforce_crash` | `TypeOK`, `PollIsExact`, `BlockedMeansDenied`, `AlertsRepeatOnlyAfterLoss` | 2 projects with 2 roles and 1, 2 thresholds, 2 days, a stop, a failed put (landed or not), save and load, a change of the config or of a tag; symmetric in the 2 roles that begin under the same tag |
| `enforce_live` | `DenyIsRemembered`, `OverBudgetIsBlocked`, `EnforceOffLifts` | a project with 2 roles; one failed put and delete (landed or not), map read, discovery check and config read; a stop; a change of the config or of a tag; a threshold that is never reached; fair |
| `enforce_realert` | refutes `AlertsOncePerDay` | a project with 2 roles, 2 thresholds, one kill or SIGTERM, no failure |
| `lease_elect` | `TypeOK`, `LeaderHoldsLease`, `LapseIsShort`, `LeadershipIsKept` | 2 replicas, one clock a tick ahead, 20 ticks, 2 failures, a stop |
| `threads_terms` | `TypeOK`, `StrayCallsAreOneBatch`, `FenceIsTrue`, `ShutdownEnds`, `HolderEnforces`, `StandbyIsQuiet` | 3 terms, a join that gives up or is skipped, an exception, SIGTERM, batches of 2; fair |
| `handover_days` | `BilledOnce`, `SpendIsComplete` | 2 replicas, 2 days, 2 events, 2 terms, an empty start that looks back one event |
| `handover_settles` | `TypeOK`, `BilledOnce`, `SpendIsComplete`, `LeaderHasTheLastWord` | 2 replicas, 1 day, 1 event, 2 terms, a fault of any kind; fair |
| `handover_stale_flush` | refutes `FailoverResumes` | 3 terms, no failure |
| `attribution` | `TypeOK`, `PricedAsTagged`, `SkippedForCause`, `RetagIsSeen` | 1 role, 2 projects, 1 model, a TTL of 2 ticks, polls of up to 1; no bound on time, changes, failures or stops; fair |
| `generator` | `TypeOK`, `LoggedOnce`, `BlockedIsSuppressed`, `CatchesUp`, `ComesBack` | 2 roles, 3 minutes, 2 attempts, 3 faults, a managed Allow and an inline Deny; fair |

**What the passing runs show.**

*Ingestion.* Nothing is priced twice across overlapping fetches, failed writes,
crashes and restarts, except once per torn flush (`BilledOnce`); without a torn
flush the file's spend lies below its watermark (`SnapshotCoherent`), which is
what makes `watermark + 1` a safe floor; spend is filed under its own day even
when a fetch or a flush straddles midnight (`SpendIsOfItsDay`); the file's record
of a day only grows (`SavedSpendOnlyGrows`); an event is left unread only if it
arrived later than the overlap less the length of a fetch
(`OnlyLaggardsAreMissed`); and what an idle process can see in its window it
reads (`WindowIsRead`), as long as it is not every fetch that fails or ends short.

*Enforcement.* Between the projects of a poll a Deny has its project in
`blocked_projects`, unless the role changed hands under it, or a failed call has
hidden it and nothing has brought it back since (`DenyIsRemembered`, `lost`:
discovery at the start is what makes this true after a kill in mid-put, and the
roll, which visits every tagged role and not only those of blocked projects, makes
it true again after a change of hands). It is checked where every IAM call may
fail once. At the end of
each poll with IAM healthy the Denys are exactly those config and spend call for
(`PollIsExact`); BLOCKED is claimed only with a Deny (`BlockedMeansDenied`); an
alert is repeated at most once per loss of the fired set
(`AlertsRepeatOnlyAfterLoss`; the mark is durable only with the save at the end
of the poll, so one loss does repeat it, and `enforce_realert` shows it). A project that stays over budget ends
with the Deny on all its roles, and `enforce: false` lifts them
(`OverBudgetIsBlocked`, `EnforceOffLifts`).

*Election.* If calls are as short as `Timely` asks, whoever leads holds a Lease
that is expired by nobody's clock, whatever fails (`LeaderHoldsLease`, hence one
leader); without a failure nobody loses it (`LeadershipIsKept`); and a Lease left
behind is taken a retry and its calls after it expires (`LapseIsShort`, for a lease
that is no shorter than a read and a replace: a shorter one may be expired by the
time its holder has it).

*Threads.* A deposed leader finishes at most the batch it was in
(`StrayCallsAreOneBatch`, for workers that get to `run_loop` before their lease
can be lost); the flags and the status page agree with who leads in
every order of sets and clears (`FenceIsTrue`); SIGTERM ends the process
(`ShutdownEnds`); a worker's exception is noticed rather than leaving a leader
without a loop (`HolderEnforces`); and in a replica that stands by for good every
worker ends, one that a join left behind included (`StandbyIsQuiet`: the next
term clears the stop event under that worker, but sets it again when it ends).
The first two and `HolderEnforces` speak of processes in which no join gives up
or is skipped.

*Handover.* Whatever order two replicas load and save in, no event is priced
twice but for once per torn flush (`BilledOnce`): a worker loads once, saves
spend and watermark as one body, and begins behind the watermark it loaded. No
tracker skips an event between its beginning and its watermark
(`SpendIsComplete`), as long as no flush fell between the two assignments of
`_persist`. And the saves of a deposed replica, which ask nobody, do not win in
the end against a leader that stays, because every poll is saved, whether it
changed anything or not (`LeaderHasTheLastWord`). Until that next save they do:
see `handover_stale_flush`.

*Attribution.* An invocation is billed only to a tag its role had less than a TTL
and a poll ago, though the map is read role by role while tags change
(`PricedAsTagged`; it needs `_loaded_at` to be the time before the reads). Its
cost is lost for good only for a cause as recent: no tag, a failed read, no known
price (`SkippedForCause`). A tag that stays comes to be in the map (`RetagIsSeen`).

*Generator.* Traffic is logged twice only when an answer was lost, and never
before its minute has passed (`LoggedOnce`). A role that
one cause, its Deny or the want of an Allow, kept from invoking from the beginning
of a minute to its put is not in it, unless a read of its policies failed, however
other policies change between those reads (`BlockedIsSuppressed`). A minute that
passes while the process is up is put or suppressed as a whole in the end, unless
the process ends first (`CatchesUp`): the minutes a process owes when it ends, and those that
pass while it is down, are never emitted. And the generator is again and again up
with no passed minute left to begin, unless a start found the log group gone
(`ComesBack`).

**Bounds.** Three events give an event before, inside and beyond the overlap,
and two of a day beside one of the next; two crashes of either kind are enough
to stop a process, resume from its file, and stop again before the next save. A
second day is needed for the roll and a third adds nothing, since nothing of a
day survives the second roll. Two roles distinguish a partly denied project from
a denied one; two projects distinguish the roles of one from those of the other,
and give a role that changes hands somewhere to go. One failure of each kind
puts the failure at every point of the sequence; a failed put of the project with
one role leaves it without a Deny. For the election, 20 ticks hold two full
leases (acquire, fail, expire, take over); a third replica only adds another
standby. Three terms let a worker of the first term meet the second and the
third. In the handover two terms give a leader and its successor, on the same
replica or on the other; a stale flush can only be of the term before, or of an
older one of the same replica, which two terms show too. Days and looking back
are in one run, faults and fairness in the other, for their product is too large.
A role is enough for the attribution: the reads of other roles only take time,
and time passes at any point of a load. Three faults let a generator lose an
answer, find the stream gone and fail in making it again; two attempts leave a
retry between a failure and giving up; one managed and one inline policy are the
two that this repository attaches (`seed.py:94`, `enforce.py:34`), and each may
come and go between the calls of a check. A fetch may end after any number of
events, so no page cap is a bound. `Lease*`, `Threads*` and
`Handover*` configurations turn the deadlock check off: the clock stops at
`MaxTime`, a process exits, and without terms left no replica leads.

**Fairness.** `WF(Start)`: Compose restarts the guard (`restart: unless-stopped`,
`docker-compose.yaml`). `WF(Poll)`: the loop has no step that blocks for ever;
boto3 calls end in an answer or an exception. `SF(FetchWhole)`: CloudWatch
neither fails every fetch for ever nor cuts every one short; this leaves out an
overlap that holds more events than the page cap, in which later events starve.
`SF(RefreshMap(Role))`: the cached map expires after `ROLE_MAP_TTL_S`, and from
some refresh on it is complete. `WF(MainThread)`, `WF(Work(w))`, and the same for
the threads of `StateHandover`: threads are scheduled and calls end (the code sets
no timeout on calls to the Kubernetes API, so this is an assumption about the
client and the server); winning or losing the lease by itself is not fair, nor are
SIGTERM and exceptions. `SF(BeginBatch(w))`: a loop that polls for ever and
finds its fence open again and again has something to enforce now and then.
`RoleAttribution`: `WF(Tick)`, time passes; `WF(Loop)`; `SF(ReadTags(r))`, not
every read of a role's tags fails. `Generator`: `WF(Process)`, which includes the
restart by Compose. Where failures are counted they are finite by their bounds.
Nothing is assumed of deliveries, of the operator or of when a process stops.

### Where code and documentation part

Three of these are runs that expect a violation. The others showed while the
models were written, and the passing properties state them as their conditions.

* **A flush in mid-poll prices events twice.** `_flush_state` saves the live
  spend with the watermark of the previous poll. `ingest_torn_flush` stops the
  guard after `ProcessEvent` and before `Persist`; the next process fetches the
  event again. `DESIGN.md` says already-counted spend is not priced twice.
* **A deposed replica overwrites its successor's spend.** `handover_stale_flush`:
  a replica loses its lease while its worker starts; the other one takes over,
  prices and saves; the first one's start-up save puts an empty snapshot in its
  place, with a watermark above the events; the next term resumes from that.
  `DESIGN.md` says a failover resumes from the watermark. A standby that once led
  does the same when it is stopped, by the flush of its signal handler.
* **Spend right after midnight is lost.** The roll moves watermark and floor to
  the time of the roll, up to a poll interval after midnight; what was logged
  between is never fetched. `DESIGN.md` says the guard tracks spend of the UTC
  day. (`OnlyLaggardsAreMissed` speaks of events at or above the floor.)
* **An alert repeats after a kill.** `DESIGN.md:102-104` says a threshold fires once
  per project and UTC day, across restarts. The alert is printed in the visit
  (`main.py:294`), the mark saved at the end of the poll: `enforce_realert` stops
  the guard in between. (`AlertsRepeatOnlyAfterLoss`: one repetition per loss.)
* **An empty page ends a fetch.** `main.py:132` says AWS paginates fully, but
  FilterLogEvents may return an empty page with a `nextToken`, and `main.py:169`
  stops there with `ok=True`. What is unread stays in the overlap for a later
  fetch, if one comes in time. (`Pages`; the fairness of `WindowIsRead`.)
* **A Deny whose put lost its answer is not known.** If no put of the project is
  answered (`main.py:311-321`), `blocked_projects` does not hold the project, and
  when its budget is raised `main.py:331` does not lift the Deny until the next
  roll or a restart. (`lost` in `DenyIsRemembered`.)
* **A role that is blocked by changing means may have traffic.** `role_is_blocked`
  reads the managed policies and then the inline ones: an Allow that is detached
  and a Deny that is deleted between the reads show an Allow and no Deny.
  (`BlockedIsSuppressed`: one and the same cause.)
* **A delete that fails is not repeated** after a raised budget: the project is
  dropped from `blocked_projects` whatever `delete_deny` returned. The day roll
  does the same. A restart's discovery, or `enforce: false`, finds the Deny
  again. (`lost` in `DenyIsRemembered`.)
* **A role that loses its tag under a Deny keeps it.** It is in no role map, so
  no poll, roll or discovery visits it. A role that is retagged to another
  project keeps the Deny until the roll or a restart. (`moved` in
  `DenyIsRemembered` and `PollIsExact`.)
* **Two leaders when API calls are slow.** Nothing bounds a Lease call, and the
  renew deadline is looked at between calls only; the margin between 14 s and
  15 s has to hold four of them. (`Timely`.)
* **The fence is a check before a batch, not before a call**: Denys of the batch
  are still put after the lease is lost, while `DESIGN.md` says a slow poll
  cannot Deny then. (`StrayCallsAreOneBatch`: up to `Batch`.)
* **A worker outlives its term.** If the join gives up, or a flush that raises
  skips it, and the replica is elected again, an old worker that ends then clears
  `_leader`, which the new term has set: the replica renews the lease and
  enforces nothing. (`HolderEnforces`: no such join.)
* **The generator does not survive every restart of the emulator.**
  `generator.py:8-10` says it does. What `create_log_group` or `_ensure_stream`
  raise within the except clause is caught by nobody, and a process that starts
  over an emulator without the log group makes none: it exits, again and again,
  until the seed runs. (`orphaned` in `ComesBack`.)

## 4. Proofs

Every invariant of the passing runs, every action property among their
properties and the refinement are theorems, for all values of the constants that
the named assumptions of the modules admit. Those say that bounds and spans are
naturals, that a day, a batch, a TTL, a renew deadline, the last day
and the number of attempts are not zero, that `Nobody`, `NoTag` and `Skipped`
are not among what they stand beside, and that settings and offsets are typed.
Nothing relates the timing constants to each other, and no set needs to be
finite. `Timely` and `PromptStart` are hypotheses that stand in the properties
themselves.

All proofs go the same way: the type invariant first; then what the property
leaves unsaid and its induction needs, in named parts; a lemma per part, with a
step per action, that every step keeps it; and the property from the parts.

### LogIngest

`LogIngestProofs` proves, for every set of events, every overlap, look-back, day
and fetch length and every bound (`TimesAssumption`, `BoundsAssumption`: naturals,
a day that is not zero):

* `TypeCorrect`: `Spec => []TypeOK`.
* `BillingInvariant`: `Spec => []BillingInv`, the inductive invariant below.
* `PricedOnce`, `FileIsCoherent`: `BilledOnce` and `SnapshotCoherent`.
* `SpendHasItsDay`, `SavedSpendGrows`, `OverlapSuffices`: `SpendIsOfItsDay`,
  `SavedSpendOnlyGrows` and `OnlyLaggardsAreMissed`.
* `ImplementsLedger`: `Spec => LedgerSpec`.

`BilledOnce` is not inductive: nothing in it says why an event that is priced
already will not be priced again. `BillingInv` says it, with "spent" for priced
`torn + 1` times, in five parts. `FileInv`: an event that is spent in the file is
at or below the file's watermark, so a start, whose floor is the watermark plus
one, does not fetch it. `PricedInv`: a spent event has been seen, or lies outside
the window; and the watermark has passed it or will at the end of this poll. `WindowInv`: the seen set never empties behind the watermark. Either no id is
seen and the floor is not below the watermark, or some seen id is at or above it;
this is what `prune_seen` could break, and `KeepAfterBounds` with `WindowStart`
are the two facts about the formulas that keep it. `RawInv`: what this poll
fetched was in the window and still is, and what has been looked at is seen.
`ResetInv`: between the two halves of a day roll, and while the process is down,
nothing is priced. A step of `process_events` prices only an event that is unseen and in the
window, hence not spent; a flush that writes spend above its watermark raises
`torn`, which makes "spent" a stronger demand. The refinement needs the same
invariant in one place: `Price` of the ledger demands `ledger[e] <= tears`.

The other three have invariants of their own. `SpendIsOfItsDay` is inductive
given the types. `SavedSpendOnlyGrows` compares two states of the file; a save
writes the tracker, so `AheadInv` says that the tracker, its watermark and the
save context have all the file of their day has, and `DaysInv` that the file is
never of a later day than the tracker nor the tracker of a later one than the
clock, which is what makes a file of the same day the one it resumed from.
`OnlyLaggardsAreMissed` speaks of the moment an event drops out of the window,
polls after the fetch that should have returned it. `LeftOutInv` carries the
reason from the fetch to `Advance`: an event in the window that was not returned
is no older than what was (pagination ended early), or had not arrived when the
fetch began.
`ClockInv` bounds every time in the state by the clock, `OverlapSuffices` adds
the two up. `LeftOutInv` leaves no room for a gap: it is checked by TLC on the
ingest configurations, as all the invariants here were on theirs.

### RoleAttribution

`RoleAttributionProofs` proves, for all roles, projects and models, every TTL and
every length of a poll (`AttributionAssumption`):

* `TypeCorrect`: `Spec => []TypeOK`.
* `AttributionInvariant`: `Spec => []AttributionInv`, inductive.
* `BilledToItsTag`, `LostForCause`: `Spec => PricedAsTagged` and
  `Spec => SkippedForCause`.

The two action properties bound how old the cause of a verdict may be, and the
verdict comes from a map that was read by a load that began some time before. So
the invariant follows an age along that way. `TagInv`: the tag a role has now was
had zero ticks ago. `LoadInv`: what a load has read of a role was true, or failed,
no longer ago than the load began. `CacheInv`: what the map says was true, or
failed, no longer ago than the map's `age`, which ends up capped at the TTL; a
load hands its own age over (`MapAge`), which is why `_loaded_at` must be taken
first. `FetchInv`: in a poll past `get` the map was younger than the TTL when `get`
looked, plus what the poll has taken since. `PriceInv`: the same for prices and
the age of the poll. A tick adds one to both sides of each comparison, until the
cap (`TickKeepsAttribution`); every other step keeps ages and may only reset
(`StepKeepsAttribution`); `process_events` reads the sum of TTL and poll off
`FetchInv` (`DecidedByProcessing`).

### Enforcement

`EnforcementProofs` proves, for any projects, roles, first tags, settings and
thresholds and any budgets of faults, stops and edits (`SettingsAssumption`,
`EnforcementBounds`):

* `TypeCorrect`: `Spec => []TypeOK`; `EnforcementInvariant`:
  `Spec => []EnforcementInv`.
* `DenysAreRemembered`, `PollsAreExact`, `BlockedIsDenied`, `AlertsRepeatRarely`:
  `DenyIsRemembered`, `PollIsExact`, `BlockedMeansDenied` and
  `AlertsRepeatOnlyAfterLoss`.

The properties speak of the ends of polls, the proof of every IAM call within
one. `VisitInv` says whom a visit is at and whose roles are in its queue.
`KnownInv` ties the cached role map to the tags: it tells the tag of every role
that has not been moved, or none, and with a healthy IAM it tells the tag.
`RememberInv` says what accounts for a Deny in the middle: while a project is
being blocked, the visit's own `denied` may, before `blocked_projects` does;
while one is unblocked or a day roll lifts, the roles still in the queue do, or
`lost` will at its end, since the map does not show the role. It has no condition
on failures: a call that failed moves its role into `lost`. `LostInv` says that
only Denys are lost, and none but those of moved roles while IAM is healthy.
A kill between any two calls drops the memory, and `discover` makes it anew from
IAM: the step out of the start is where `KnownInv` is used. `ExactInv` does the
same for `PollIsExact`: done with the projects visited, on the way with the one
at hand. `AlertInv` gives `alerts <= 1 + setbacks` what it lacks: a threshold
that has not fired, in memory or in the file a start would load, has at most
`setbacks` alerts. Since failed calls only count up, a step before which no call
of a kind had failed is what `FaultlessStays` lets what is said of a healthy IAM suppose, and
`NothingFailed` says what such a step did.

### LeaseElection

`LeaseElectionProofs` proves, for any number of replicas, any offsets within
`Skew` and any durations, pauses and call lengths (`LeaseAssumption`):

* `TypeCorrect`: `Spec => []TypeOK`; `ElectionInvariant`: `Spec => []ElectionInv`.
* `LeaderIsSafe`: `LeaderHoldsLease`; `OneLeader`: no two replicas lead.
* `LeadersStay`, `LapseIsBounded`: `LeadershipIsKept` and `LapseIsShort`.

`LeaderHoldsLease` compares the clock of others with the Lease and says nothing
of the wait that will end later. `LeadInv` follows the sum that `Timely` is:
before a round the leader sleeps until `RetryPeriod` after its read and replace;
within one, its deadline is that plus `RenewDeadline`, and a call that began
before the deadline may end two calls, and a sleep, after it. `CallInv` bounds
each call from the stamp it was begun with. `CopyInv` is the compare and set: a
replace whose resourceVersion is current may still be made by the reason it was
begun for. With these, nobody but the leader writes the Lease
(`OnlyTheLeaderWrites`) and it outlasts every wait of its (`LeaseOutlastsLeader`).
`KeepInv` adds that without a failure the leader's copy is current, so its first
try of a round succeeds. `LapseInv` follows a standby: at every stage of a try,
the Lease it found held covers a time that lies a retry and so many calls before
the stage is due; and a replace that met a 409 was overtaken by one that is as
recent as its own calls (`ConflictInv`).

### GuardThreads

`GuardThreadsProofs` proves, for any number of terms and any length of a batch
(`ThreadsAssumption`):

* `TypeCorrect`: `Spec => [](TypeOK /\ BatchInv)`; `ThreadsInvariant`:
  `Spec => []ThreadsInv`.
* `StrayIsOneBatch`, `FenceTellsTheTruth`: `StrayCallsAreOneBatch` and
  `FenceIsTrue`.

As long as no join has given up, only the worker of the current term runs, and
none does once main stands again (`AloneInv`). The events are then set and
cleared by two threads in turn, and the rest says what each of them may find:
until the loss, the worker opens the fence and nobody closes it (`OpenInv`); from
the step-down on it stays closed, or a shutdown is under way (`ClosedInv`); a
worker that had not entered `run_loop` at the step-down is held off by that
shutdown (`ShutdownInv`). `StrayInv` counts the calls made with those to be made.

### StateHandover

`StateHandoverProofs` proves, for any replicas, days, events, terms, look-back
and any number of faults (`HandoverAssumption`):

* `TypeCorrect`: `Spec => []TypeOK`; `HandoverInvariant`:
  `Spec => [](TypeOK /\ SnapshotsInv)`.
* `EventsAreBilledOnce`, `NoEventIsSkipped`: `BilledOnce` and `SpendIsComplete`.

Nothing orders the writers of the ConfigMap: a snapshot of long ago may land over
any other. So the invariant cannot compare snapshots; it asks of each one, where
it may lie (ConfigMap, tracker, save context, body of a save in flight, what a
flush took), that it is `Sound` by itself: an event is priced at most `1 + torn`
times, at most `torn` times beyond the snapshot's own watermark, and, until a
flush crossed two trackers, at least once between its beginning and its
watermark. Loading, saving, conflicts, retries and lost answers only move
snapshots about; pricing from the watermark on keeps them sound
(`PricedIsSound`); a flush joins a tracker with a watermark that may be another's
(`ContextIsSound`), and `torn` and `crossed` count just the cases in which the
join is not as good as its parts. More events and higher counts leave a snapshot
sound (`SoundLogs`, `SoundGrows`).

### Generator

`GeneratorProofs` proves, for any roles, minutes, attempts and failures
(`GeneratorAssumption`):

* `TypeCorrect`: `Spec => [](TypeOK /\ CursorInv /\ HandInv)`;
  `GeneratorInvariant`: `Spec => []GeneratorInv`.
* `TrafficLoggedOnce`, `DeniedRolesAreQuiet`: `LoggedOnce` and
  `BlockedIsSuppressed`.
* `MinutesAreFinished`: `MinutesAreAccounted`, which is what `CatchesUp` says of a
  process that is ready, without the promise that it comes to be so.

`CopiesInv` separates the minutes: one not begun has no copies, the one at hand
has those of lost answers, and a finished one at most one more. `OwedInv` keeps
what the process owes within what it has still to check or put. `DeniedInv` says,
for each cause by itself, that whoever it has blocked since the minute was begun it
blocks still, and that no such role is among those to be put, unless a read failed.
Its part `ReadingInv` speaks of the middle of a check: a Deny that was there all
along is in what has been read of its kind of policy, and where no Allow was there
all along none has been read. A verdict from several moments is thus right for
each cause that lasted through all of them, and only for those.

### What the proofs changed

Two properties held in their runs and were not true in general; both were found
when the induction did not close, and TLC gave the counterexample on other
constants. `LapseIsShort` is false of a lease shorter than a read and a replace
(three replicas, `LeaseDuration` 1, `CallSpan` 2); it now says so, and its bound
is a tick tighter. `StrayCallsAreOneBatch` is false without `PromptStart`: a
worker that enters late opens the fence of a lease that is lost already, until
`_loop_stop` is set. Every inductive invariant was checked by TLC as an invariant
of its run before it was proved.

### Model-checked only

The liveness properties: `WindowIsRead`, `OverBudgetIsBlocked`, `EnforceOffLifts`,
`ShutdownEnds`, `HolderEnforces`, `StandbyIsQuiet`, `LeaderHasTheLastWord`,
`RetagIsSeen`, `CatchesUp` and `ComesBack`. They rest on fairness, and `ENABLED` is out of the
prover's reach. The runs that expect a violation are counterexamples and need no
proof.

## 5. Not modelled

* Pricing arithmetic (`cost.py`): floating point, and a single formula.
* The Slack threads (`alert.py`): their posts are never read back or retried, and
  nothing in the program depends on them.
* The status page beyond the leader's flag, and the metrics: copies of the
  loop's state behind one lock.
* Strings: the ARN patterns, the parsing of policy documents and the synthesized
  key of an event without an id.
* `smoke_test.py` and the manifests; `seed.py` is one action of `Generator`.
* IAM calls of two replicas side by side, and two loops of one process over one
  ConfigMap.

## 6. Plan

1. `LogIngest`, `SpendLedger`, `Enforcement`, `LeaseElection`, `GuardThreads` and
   their runs, with the proofs about `LogIngest`: done.
2. `StateHandover`, `RoleAttribution` with its proofs, `Generator`; tags that
   change in `Enforcement`, the status flag and flushes that raise in
   `GuardThreads`: done.
3. Proofs of every invariant and every action property of the runs, for all
   seven modules: done.
4. Abstract specifications of the other components, and their refinement: a lock
   that at most one replica holds for `LeaseElection`; for `Enforcement`, per
   project, what a poll may make of its Denys.
5. Stronger forms of what is proved: `DenyIsRemembered` within a poll,
   `BlockedMeansDenied` across restarts.
