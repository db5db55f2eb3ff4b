---------------------------- MODULE GuardThreads ----------------------------
(***************************************************************************)
(* The threads of one replica in the Kubernetes deployment: the main       *)
(* thread, which runs for election, renews and steps down (main.py,        *)
(* run_election), a worker thread for each term it was elected for         *)
(* (_run_as_leader, run_loop), the three events they share, and SIGTERM.   *)
(*                                                                         *)
(* When the lease is won or lost is free here: module LeaseElection says   *)
(* when it can be.                                                         *)
(***************************************************************************)
EXTENDS Integers, FiniteSets

CONSTANTS
  Batch,       \* IAM calls between two checks of the fence, at most
  PromptStart, \* a worker enters run_loop before its lease can be lost
  MaxTerms,    \* bound: elections won
  MaxTimeouts, \* bound: joins that leave a worker behind before a shutdown
  MaxFaults    \* bound: workers that raise

ASSUME ThreadsAssumption ==
  /\ Batch \in Nat \ {0} /\ PromptStart \in BOOLEAN
  /\ MaxTerms \in Nat /\ MaxTimeouts \in Nat /\ MaxFaults \in Nat

Term == 1..MaxTerms

VARIABLES
  leader, loopStop, shutdown,  \* _leader, _loop_stop, _shutdown
  shown,     \* what /status and the metric say of the leader's flag
  main,      \* where the main thread is
  term,      \* elections won so far
  worker,    \* where the worker of each term is
  batch,     \* IAM calls it has still to make before the next check
  failed,    \* terms whose worker raised (leading_failed)
  timeouts,  \* joins that gave up, or that a failed flush skipped
  faults,    \* counter under its bound
  stray      \* history: IAM calls since on_stopped began, up to Batch + 1

flags == <<leader, loopStop, shutdown, shown>>
vars == <<flags, main, term, worker, batch, failed, timeouts, faults, stray>>

MainStages == {"standing", "renewing", "stopping", "hiding", "halting",
               "joining", "pausing", "clearing", "exited"}

Unborn == {"unborn"}
Ended  == {"done", "killed"}
Loop   == {"check", "polling", "fence", "mutating", "saving"}
Leaving == {"leaving", "hiding", "flushing"}
Starting == {"entering", "clearing", "announcing", "showing"}
WorkerStages == Unborn \cup Ended \cup Loop \cup Leaving
                  \cup Starting \cup {"loading"}

still_leader == leader /\ ~loopStop /\ ~shutdown

Goto(w, stage) == worker' = [worker EXCEPT ![w] = stage]

Init ==
  /\ leader = FALSE /\ loopStop = FALSE /\ shutdown = FALSE /\ shown = FALSE
  /\ main = "standing" /\ term = 0
  /\ worker = [w \in Term |-> "unborn"] /\ batch = [w \in Term |-> 0]
  /\ failed = {} /\ timeouts = 0 /\ faults = 0 /\ stray = 0

-----------------------------------------------------------------------------
(* run_election: the lease is won and the worker of the new term starts.   *)
Acquire ==
  /\ main = "standing" /\ term < MaxTerms
  /\ main' = "renewing" /\ term' = term + 1
  /\ Goto(term + 1, "entering")
  /\ stray' = 0
  /\ UNCHANGED <<flags, batch, failed, timeouts, faults>>

(* The lease is lost, or the worker of this term has raised.               *)
Lose ==
  /\ main = "renewing"
  /\ PromptStart => worker[term] \notin Starting
  /\ main' = "stopping"
  /\ UNCHANGED <<flags, term, worker, batch, failed, timeouts, faults, stray>>

(* _on_stopped_leading clears the flag and what is shown of it, then sets  *)
(* the stop event and flushes.                                             *)
ClearLeader ==
  /\ main = "stopping" /\ main' = "hiding"
  /\ leader' = FALSE
  /\ UNCHANGED <<loopStop, shutdown, shown, term, worker, batch, failed,
                 timeouts, faults, stray>>

HideLeader ==
  /\ main = "hiding" /\ main' = "halting"
  /\ shown' = FALSE
  /\ UNCHANGED <<leader, loopStop, shutdown, term, worker, batch, failed,
                 timeouts, faults, stray>>

StopLoop_Not == UNCHANGED loopStop  \* mutant
StopLoop == loopStop' = TRUE

OnStopped ==
  /\ main = "halting" /\ main' = "joining"
  /\ StopLoop
  /\ UNCHANGED <<leader, shutdown, shown, term, worker, batch, failed,
                 timeouts, faults, stray>>

(* The process ends and takes its daemon threads with it.                  *)
Exit ==
  /\ main' = "exited"
  /\ worker' = [w \in Term |-> IF worker[w] \in Unborn \cup {"done"}
                                 THEN worker[w] ELSE "killed"]

(* Main waits for the worker, but not for ever: the join has a timeout.    *)
MayGiveUp_Never == FALSE  \* mutant
MayGiveUp == timeouts < MaxTimeouts \/ shutdown

(* The flush of on_stopped reads tracker and blocked set while the worker  *)
(* changes them: if it raises, run_election raises too and joins nobody.   *)
FlushRaises ==
  /\ main = "halting" /\ worker[term] \in {"polling", "fence", "mutating"}
  /\ MayGiveUp /\ timeouts' = timeouts + 1
  /\ StopLoop
  /\ IF shutdown THEN Exit ELSE main' = "pausing" /\ UNCHANGED worker
  /\ UNCHANGED <<leader, shutdown, shown, term, batch, failed, faults, stray>>

(* Then the process ends or, after a pause, stands again.                  *)
Join ==
  /\ main = "joining"
  /\ \/ worker[term] = "done" /\ UNCHANGED timeouts
     \/ worker[term] # "done" /\ MayGiveUp /\ timeouts' = timeouts + 1
  /\ IF shutdown THEN Exit ELSE main' = "pausing" /\ UNCHANGED worker
  /\ UNCHANGED <<flags, term, batch, failed, faults, stray>>

StandAgain ==
  /\ main = "pausing" /\ main' = "clearing"
  /\ leader' = FALSE
  /\ UNCHANGED <<loopStop, shutdown, shown, term, worker, batch, failed,
                 timeouts, faults, stray>>

Stand ==
  /\ main = "clearing" /\ main' = "standing"
  /\ shown' = FALSE
  /\ UNCHANGED <<leader, loopStop, shutdown, term, worker, batch, failed,
                 timeouts, faults, stray>>

(* _handle_signal in the main thread: set both events, flush, SystemExit.  *)
(* While the lease is held run_election still steps down and waits.        *)
Sigterm ==
  /\ main # "exited" /\ ~shutdown
  /\ shutdown' = TRUE /\ loopStop' = TRUE
  /\ IF main = "renewing" THEN main' = "stopping" /\ UNCHANGED worker ELSE Exit
  /\ UNCHANGED <<leader, shown, term, batch, failed, timeouts, faults, stray>>

-----------------------------------------------------------------------------
(* _run_as_leader looks for a shutdown, clears the stop event if there is  *)
(* none, sets the leader's flag, and shows it: four steps.                 *)
AllowLoop_Never == FALSE  \* mutant: the stop event is not cleared
AllowLoop == ~shutdown

Enter(w) ==
  /\ worker[w] = "entering"
  /\ Goto(w, IF AllowLoop THEN "clearing" ELSE "announcing")
  /\ UNCHANGED <<flags, main, term, batch, failed, timeouts, faults, stray>>

ClearStop(w) ==
  /\ worker[w] = "clearing" /\ Goto(w, "announcing")
  /\ loopStop' = FALSE
  /\ UNCHANGED <<leader, shutdown, shown, main, term, batch, failed, timeouts,
                 faults, stray>>

Announce(w) ==
  /\ worker[w] = "announcing" /\ Goto(w, "showing")
  /\ leader' = TRUE
  /\ UNCHANGED <<loopStop, shutdown, shown, main, term, batch, failed,
                 timeouts, faults, stray>>

Show(w) ==
  /\ worker[w] = "showing" /\ Goto(w, "loading")
  /\ shown' = TRUE
  /\ UNCHANGED <<leader, loopStop, shutdown, main, term, batch, failed,
                 timeouts, faults, stray>>

(* run_loop's start, up to its first _persist.                             *)
Load(w) ==
  /\ worker[w] = "loading" /\ Goto(w, "check")
  /\ UNCHANGED <<flags, main, term, batch, failed, timeouts, faults, stray>>

(* while not stop_event.is_set()                                           *)
BeginPoll(w) ==
  /\ worker[w] = "check" /\ ~loopStop /\ Goto(w, "polling")
  /\ UNCHANGED <<flags, main, term, batch, failed, timeouts, faults, stray>>

EndLoop(w) ==
  /\ worker[w] = "check" /\ loopStop /\ Goto(w, "leaving")
  /\ UNCHANGED <<flags, main, term, batch, failed, timeouts, faults, stray>>

(* Fetching and pricing, which ask nobody who leads.                       *)
Count(w) ==
  /\ worker[w] = "polling" /\ Goto(w, "fence")
  /\ UNCHANGED <<flags, main, term, batch, failed, timeouts, faults, stray>>

(* The fence before a project's puts or deletes, or before the day roll's  *)
(* deletes; a project with nothing to do passes on to the next.            *)
Fence_Open == TRUE  \* mutant
Fence == still_leader

BeginBatch(w) ==
  /\ worker[w] = "fence" /\ Fence
  /\ \E n \in 1..Batch : batch' = [batch EXCEPT ![w] = n]
  /\ Goto(w, "mutating")
  /\ UNCHANGED <<flags, main, term, failed, timeouts, faults, stray>>

EndReconcile(w) ==
  /\ worker[w] = "fence" /\ Goto(w, "saving")
  /\ UNCHANGED <<flags, main, term, batch, failed, timeouts, faults, stray>>

(* Mutant: one call too many.                                              *)
Remaining_OffByOne(w) == batch[w] + 1

(* Calls of the batch, this one included.                                  *)
Remaining(w) == batch[w]

(* One put_role_policy or delete_role_policy.                              *)
CallIam(w) ==
  /\ worker[w] = "mutating"
  /\ batch' = [batch EXCEPT ![w] = @ - 1]
  /\ Goto(w, IF Remaining(w) = 1 THEN "fence" ELSE "mutating")
  /\ stray' = IF main \in {"renewing", "stopping"} \/ stray > Batch
              THEN stray ELSE stray + 1
  /\ UNCHANGED <<flags, main, term, failed, timeouts, faults>>

Save(w) ==
  /\ worker[w] = "saving" /\ Goto(w, "check")
  /\ UNCHANGED <<flags, main, term, batch, failed, timeouts, faults, stray>>

(* Mutant: leading_failed is not set.                                      *)
Blame_Nobody(w) == UNCHANGED failed

(* _work catches the exception for the election loop to notice.            *)
Blame(w) == failed' = failed \cup {w}

(* An exception ends the loop at any point of it.                          *)
Raise(w) ==
  /\ worker[w] \in Loop \cup {"loading"}
  /\ faults < MaxFaults /\ faults' = faults + 1
  /\ Blame(w)
  /\ Goto(w, "leaving")
  /\ batch' = [batch EXCEPT ![w] = 0]
  /\ UNCHANGED <<flags, main, term, timeouts, stray>>

(* The finally of _run_as_leader: clear the flag, show it, flush.          *)
Leave(w) ==
  /\ worker[w] = "leaving" /\ Goto(w, "hiding")
  /\ leader' = FALSE
  /\ UNCHANGED <<loopStop, shutdown, shown, main, term, batch, failed,
                 timeouts, faults, stray>>

Hide(w) ==
  /\ worker[w] = "hiding" /\ Goto(w, "flushing")
  /\ shown' = FALSE
  /\ UNCHANGED <<leader, loopStop, shutdown, main, term, batch, failed,
                 timeouts, faults, stray>>

Flush(w) ==
  /\ worker[w] = "flushing" /\ Goto(w, "done")
  /\ UNCHANGED <<flags, main, term, batch, failed, timeouts, faults, stray>>

-----------------------------------------------------------------------------
MainThread ==
  \/ ClearLeader \/ HideLeader \/ OnStopped \/ FlushRaises \/ Join
  \/ StandAgain \/ Stand
  \/ main = "renewing" /\ term \in failed /\ Lose

Work(w) ==
  \/ Enter(w) \/ ClearStop(w) \/ Announce(w) \/ Show(w) \/ Load(w)
  \/ BeginPoll(w) \/ EndLoop(w) \/ Count(w)
  \/ BeginBatch(w) \/ EndReconcile(w) \/ CallIam(w) \/ Save(w)
  \/ Leave(w) \/ Hide(w) \/ Flush(w)

Next ==
  \/ MainThread \/ Acquire \/ Lose \/ Sigterm
  \/ \E w \in Term : Work(w) \/ Raise(w)

Spec == Init /\ [][Next]_vars

(* Threads are scheduled and their calls end.  A loop that polls for ever  *)
(* has something to enforce now and then.                                  *)
FairSpec ==
  /\ Spec /\ WF_vars(MainThread)
  /\ \A w \in Term : WF_vars(Work(w)) /\ SF_vars(BeginBatch(w))

-----------------------------------------------------------------------------
TypeOK ==
  /\ leader \in BOOLEAN /\ loopStop \in BOOLEAN /\ shutdown \in BOOLEAN
  /\ shown \in BOOLEAN /\ main \in MainStages /\ term \in 0..MaxTerms
  /\ worker \in [Term -> WorkerStages] /\ batch \in [Term -> 0..Batch]
  /\ failed \subseteq Term
  /\ timeouts \in Nat /\ faults \in Nat /\ stray \in 0..Batch + 1

(* After the lease is given up, and before it is won again, the replica    *)
(* makes at most the IAM calls it was about to make: one batch, the roles  *)
(* of a project or of a day roll, as long as no join has given up and no   *)
(* worker opens the fence of a lease that was lost before it began.        *)
StrayCallsAreOneBatch == timeouts = 0 /\ PromptStart => stray <= Batch

(* The flags tell the truth to whoever does lead: the fence of the current *)
(* worker is open while its lease is held, and closed to every worker once *)
(* main has stepped down, whatever the order of the threads' sets and      *)
(* clears; and who asks /status or the metrics is told the same.           *)
FenceIsTrue ==
  timeouts = 0 /\ PromptStart =>
    /\ main = "renewing" /\ worker[term] \in Loop => still_leader /\ shown
    /\ main \in {"hiding", "halting", "joining", "pausing", "clearing",
                "standing"} => ~still_leader
    /\ main \in {"halting", "joining", "pausing", "clearing", "standing"} =>
         ~shown \/ shutdown

(* SIGTERM ends the process, whatever its workers are doing, and even if   *)
(* it falls between a worker's look at the shutdown and its clear of the   *)
(* stop event, after which that worker polls for ever.                     *)
ShutdownEnds == shutdown ~> main = "exited"

(* A replica that keeps the lease enforces again and again, in a process   *)
(* where no join gives up.                                                 *)
HolderEnforces ==
  [](timeouts = 0) /\ <>[](main = "renewing")
    => []<>(\E w \in Term : worker[w] = "mutating")

(* A replica that stands by for good polls nothing in the end: a worker    *)
(* that a join left behind, and that another term has gone on beside, ends *)
(* too.                                                                    *)
StandbyIsQuiet ==
  PromptStart /\ <>[](main = "standing")
    => <>[](\A w \in Term : worker[w] \in Unborn \cup Ended)
=============================================================================
