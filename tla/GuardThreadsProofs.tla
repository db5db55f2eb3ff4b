-------------------------- MODULE GuardThreadsProofs --------------------------
(***************************************************************************)
(* Proofs about GuardThreads for every number of terms and of IAM calls in *)
(* a batch, in every order of the steps of main, workers and SIGTERM.      *)
(***************************************************************************)
EXTENDS GuardThreads, TLAPS

(* A worker that makes IAM calls has one still to make.                    *)
BatchInv == \A w \in Term : worker[w] = "mutating" => batch[w] \in 1..Batch

(* Every step of main, of a worker and of the signal handler keeps every   *)
(* variable in its type; the calls of a batch are counted down to none.    *)
LEMMA TypeStep ==
  ASSUME TypeOK, BatchInv, [Next]_vars PROVE TypeOK' /\ BatchInv'
<1> USE ThreadsAssumption
    DEF TypeOK, BatchInv, Term, MainStages, WorkerStages, Unborn, Ended, Loop,
        Leaving, Starting, Goto, flags
<1>1. CASE Acquire
  BY <1>1 DEF Acquire
<1>2. CASE Lose
  BY <1>2 DEF Lose
<1>3. CASE ClearLeader \/ HideLeader \/ OnStopped \/ StandAgain \/ Stand
  BY <1>3 DEF ClearLeader, HideLeader, OnStopped, StopLoop, StandAgain, Stand
<1>4. CASE FlushRaises
  BY <1>4 DEF FlushRaises, StopLoop, Exit
<1>5. CASE Join
  BY <1>5 DEF Join, Exit
<1>6. CASE Sigterm
  BY <1>6 DEF Sigterm, Exit
<1>7. ASSUME NEW w \in Term,
             \/ Enter(w) \/ ClearStop(w) \/ Announce(w) \/ Show(w) \/ Load(w)
             \/ BeginPoll(w) \/ EndLoop(w) \/ Count(w)
      PROVE  TypeOK' /\ BatchInv'
  BY <1>7 DEF Enter, ClearStop, Announce, Show, Load, BeginPoll, EndLoop, Count
<1>8. ASSUME NEW w \in Term, BeginBatch(w) PROVE TypeOK' /\ BatchInv'
  BY <1>8 DEF BeginBatch
<1>9. ASSUME NEW w \in Term, CallIam(w) PROVE TypeOK' /\ BatchInv'
  <2>1. batch[w] \in 1..Batch
    BY <1>9 DEF CallIam
  <2>2. batch' \in [Term -> 0..Batch] /\ worker' \in [Term -> WorkerStages]
    BY <1>9, <2>1 DEF CallIam
  <2>3. stray' \in 0..Batch + 1
    BY <1>9 DEF CallIam
  <2>4. ASSUME NEW v \in Term, worker'[v] = "mutating"
        PROVE  batch'[v] \in 1..Batch
    <3>1. CASE v = w
      BY <1>9, <2>1, <2>4, <3>1 DEF CallIam, Remaining
    <3>2. CASE v # w
      BY <1>9, <2>4, <3>2 DEF CallIam
    <3>. QED
      BY <3>1, <3>2
  <2>. QED
    BY <1>9, <2>2, <2>3, <2>4 DEF CallIam
<1>10. ASSUME NEW w \in Term, EndReconcile(w) \/ Save(w)
       PROVE  TypeOK' /\ BatchInv'
  BY <1>10 DEF EndReconcile, Save
<1>11. ASSUME NEW w \in Term, Raise(w) PROVE TypeOK' /\ BatchInv'
  <2>1. TypeOK'
    BY <1>11 DEF Raise, Blame
  <2>2. BatchInv'
    BY <1>11 DEF Raise
  <2>. QED
    BY <2>1, <2>2
<1>12. ASSUME NEW w \in Term, Leave(w) \/ Hide(w) \/ Flush(w)
       PROVE  TypeOK' /\ BatchInv'
  BY <1>12 DEF Leave, Hide, Flush
<1>13. CASE UNCHANGED vars
  BY <1>13 DEF vars
<1>. QED
  BY <1>1, <1>2, <1>3, <1>4, <1>5, <1>6, <1>7, <1>8, <1>9, <1>10, <1>11,
     <1>12, <1>13 DEF Next, MainThread, Work

(* The types, and with them the count of a batch, hold in every run.       *)
THEOREM TypeCorrect == Spec => [](TypeOK /\ BatchInv)
<1>1. Init => TypeOK
  <2> SUFFICES ASSUME Init PROVE TypeOK
    OBVIOUS
  <2>1. /\ leader \in BOOLEAN /\ loopStop \in BOOLEAN
        /\ shutdown \in BOOLEAN /\ shown \in BOOLEAN
    BY Zenon DEF Init
  <2>2. /\ main \in MainStages /\ worker \in [Term -> WorkerStages]
        /\ batch \in [Term -> 0..Batch] /\ term \in 0..MaxTerms
        /\ timeouts \in Nat /\ faults \in Nat /\ stray \in 0..Batch + 1
    BY ThreadsAssumption DEF Init, MainStages, WorkerStages, Unborn
  <2>. QED
    BY <2>1, <2>2 DEF Init, TypeOK
<1>2. Init => BatchInv
  BY DEF Init, BatchInv
<1>. QED
  BY <1>1, <1>2, TypeStep, PTL DEF Spec

-----------------------------------------------------------------------------
Quiet == Unborn \cup Ended

(* Where main is when there is a term whose worker may run, and where it   *)
(* is once it has cleared the leader's flag.                               *)
InTerm == {"renewing", "stopping", "hiding", "halting", "joining"}
Standby == {"standing", "pausing", "clearing"}
SteppedDown == {"hiding", "halting", "joining"} \cup Standby

(* As long as no join has given up, only the current term has a worker     *)
(* that runs, and that only until main stands by or exits.                 *)
AloneInv ==
  /\ main \in InTerm => term \in Term
  /\ \A w \in Term : w # term \/ main \notin InTerm => worker[w] \in Quiet

(* A shutdown is on its way to the exit.  A worker that has not entered    *)
(* run_loop when main steps down is held off by it.                        *)
ShutdownInv ==
  /\ main \in {"renewing"} \cup Standby => ~shutdown
  /\ main \in InTerm \ {"renewing"} /\ worker[term] \in Starting => shutdown

(* While the lease is held the worker of the term opens its fence step by  *)
(* step, and nobody closes it.                                             *)
OpenInv ==
  main = "renewing" =>
    /\ worker[term] \in {"announcing", "showing", "loading"} \cup Loop
         => ~loopStop
    /\ worker[term] \in {"showing", "loading"} \cup Loop => leader
    /\ worker[term] \in {"loading"} \cup Loop => shown

(* Once main has stepped down nobody opens it again.                       *)
ClosedInv ==
  /\ main \in SteppedDown => ~leader \/ shutdown
  /\ main \in SteppedDown \ {"hiding"} => ~shown \/ shutdown

(* Of the batch that was begun before, the calls made and to be made.      *)
StrayInv ==
  /\ main \in {"renewing", "stopping"} => stray = 0
  /\ stray <= Batch
  /\ main \in InTerm /\ worker[term] = "mutating" => stray + batch[term] <= Batch

ThreadsInv ==
  timeouts = 0 /\ PromptStart =>
    AloneInv /\ ShutdownInv /\ OpenInv /\ ClosedInv /\ StrayInv

(* No step undoes a timeout of a join.                                     *)
LEMMA TimeoutsStay ==
  ASSUME TypeOK, [Next]_vars, timeouts' = 0 PROVE timeouts = 0
  BY DEF TypeOK, Next, MainThread, Work, Acquire, Lose, ClearLeader, HideLeader,
         OnStopped, FlushRaises, Join, StandAgain, Stand, Sigterm, Enter,
         ClearStop, Announce, Show, Load, BeginPoll, EndLoop, Count,
         BeginBatch, EndReconcile, CallIam, Save, Raise, Leave, Hide, Flush,
         vars

(* The steps of main and of the signal handler.                            *)
LEMMA MainStep ==
  ASSUME TypeOK, BatchInv, ThreadsInv, timeouts = 0, timeouts' = 0, PromptStart,
         \/ Acquire \/ Lose \/ ClearLeader \/ HideLeader \/ OnStopped
         \/ FlushRaises \/ Join \/ StandAgain \/ Stand \/ Sigterm
  PROVE  ThreadsInv'
<1> USE ThreadsAssumption
    DEF TypeOK, BatchInv, ThreadsInv, AloneInv, ShutdownInv, OpenInv,
        ClosedInv, StrayInv, InTerm, Standby, SteppedDown, Quiet, Term,
        Unborn, Ended, Loop, Starting, Goto, flags
<1>1. CASE Acquire
  BY <1>1 DEF Acquire
<1>2. CASE Lose
  BY <1>2 DEF Lose
<1>3. CASE ClearLeader
  BY <1>3 DEF ClearLeader
<1>4. CASE HideLeader
  BY <1>4 DEF HideLeader
<1>5. CASE OnStopped
  BY <1>5 DEF OnStopped, StopLoop
<1>6. CASE FlushRaises
  BY <1>6 DEF FlushRaises
<1>7. CASE Join
  BY <1>7 DEF Join, Exit
<1>8. CASE StandAgain \/ Stand
  BY <1>8 DEF StandAgain, Stand
<1>9. CASE Sigterm
  BY <1>9 DEF Sigterm, Exit
<1>. QED
  BY <1>1, <1>2, <1>3, <1>4, <1>5, <1>6, <1>7, <1>8, <1>9

(* The steps of a worker: of the current term, while main is in it.        *)
LEMMA WorkerStep ==
  ASSUME TypeOK, BatchInv, ThreadsInv, timeouts = 0, PromptStart,
         NEW w \in Term, Work(w) \/ Raise(w)
  PROVE  ThreadsInv'
<1> USE ThreadsAssumption
    DEF TypeOK, BatchInv, ThreadsInv, AloneInv, ShutdownInv, OpenInv,
        ClosedInv, StrayInv, InTerm, Standby, SteppedDown, Term, Goto, flags
<1>1. w = term /\ main \in InTerm
  BY DEF Work, Enter, ClearStop, Announce, Show, Load, BeginPoll, EndLoop,
         Count, BeginBatch, EndReconcile, CallIam, Save, Raise, Leave, Hide,
         Flush, Quiet, Unborn, Ended, Loop
<1> USE <1>1 DEF Loop, Starting
<1>2. CASE Enter(w)
  BY <1>2 DEF Enter, AllowLoop
<1>3. CASE ClearStop(w)
  BY <1>3 DEF ClearStop
<1>4. CASE Announce(w)
  BY <1>4 DEF Announce
<1>5. CASE Show(w)
  BY <1>5 DEF Show
<1>6. CASE Load(w) \/ Count(w) \/ BeginPoll(w) \/ EndLoop(w)
  BY <1>6 DEF Load, Count, BeginPoll, EndLoop
<1>7. CASE BeginBatch(w)
  <2>1. main \in {"renewing", "stopping"}
    BY <1>7 DEF BeginBatch, Fence, still_leader
  <2>. QED
    BY <1>7, <2>1 DEF BeginBatch
<1>8. CASE CallIam(w)
  BY <1>8 DEF CallIam, Remaining
<1>9. CASE EndReconcile(w) \/ Save(w) \/ Raise(w)
  BY <1>9 DEF EndReconcile, Save, Raise
<1>10. CASE Leave(w) \/ Hide(w) \/ Flush(w)
  BY <1>10 DEF Leave, Hide, Flush, Quiet, Unborn, Ended
<1>. QED
  BY <1>2, <1>3, <1>4, <1>5, <1>6, <1>7, <1>8, <1>9, <1>10 DEF Work

(* In every order of the threads' sets and clears, no join having given    *)
(* up, the flags agree with where main and the worker of the term are.     *)
THEOREM ThreadsInvariant == Spec => []ThreadsInv
<1>1. Init => ThreadsInv
  BY ThreadsAssumption
  DEF Init, ThreadsInv, AloneInv, ShutdownInv, OpenInv, ClosedInv, StrayInv,
      InTerm, Standby, SteppedDown, Quiet, Unborn
<1>2. TypeOK /\ BatchInv /\ ThreadsInv /\ [Next]_vars => ThreadsInv'
  <2> SUFFICES ASSUME TypeOK, BatchInv, ThreadsInv, [Next]_vars,
                      timeouts' = 0, PromptStart
               PROVE  ThreadsInv'
    BY DEF ThreadsInv
  <2>1. timeouts = 0
    BY TimeoutsStay
  <2>2. CASE UNCHANGED vars
    BY <2>2 DEF vars, flags, ThreadsInv, AloneInv, ShutdownInv, OpenInv,
                ClosedInv, StrayInv
  <2>. QED
    BY <2>1, <2>2, MainStep, WorkerStep DEF Next, MainThread
<1>. QED
  BY <1>1, <1>2, TypeCorrect, PTL DEF Spec

(* Between the loss of the lease and its next win the replica makes at     *)
(* most the calls of the batch it was in.                                  *)
THEOREM StrayIsOneBatch == Spec => []StrayCallsAreOneBatch
<1>1. ThreadsInv => StrayCallsAreOneBatch
  BY DEF ThreadsInv, StrayInv, StrayCallsAreOneBatch
<1>. QED
  BY <1>1, ThreadsInvariant, PTL

(* The fence is open to the worker of a lease that is held, closed to      *)
(* everyone after the step-down, and /status says so.                      *)
THEOREM FenceTellsTheTruth == Spec => []FenceIsTrue
<1>1. TypeOK /\ ThreadsInv => FenceIsTrue
  <2> SUFFICES ASSUME TypeOK, ThreadsInv, timeouts = 0, PromptStart
               PROVE  FenceIsTrue
    BY DEF FenceIsTrue
  <2>1. main = "renewing" /\ worker[term] \in Loop => still_leader /\ shown
    BY DEF ThreadsInv, OpenInv, ShutdownInv, still_leader
  <2>2. main \in SteppedDown => ~still_leader
    BY DEF ThreadsInv, ClosedInv, still_leader
  <2>3. main \in SteppedDown \ {"hiding"} => ~shown \/ shutdown
    BY DEF ThreadsInv, ClosedInv
  <2>. QED
    BY <2>1, <2>2, <2>3 DEF FenceIsTrue, SteppedDown, Standby
<1>. QED
  BY <1>1, TypeCorrect, ThreadsInvariant, PTL
=============================================================================
