---------------------------- MODULE LeaseElection ----------------------------
(***************************************************************************)
(* The Kubernetes deployment's leader election: replicas that acquire and  *)
(* renew one Lease object by read and replace (leader.py), with API calls  *)
(* that take time, fail, lose their answers or meet a conflict, clocks     *)
(* that differ, worker threads that fail, and replicas that stop and start *)
(* again.                                                                  *)
(*                                                                         *)
(* Time is explicit.  A thread's sleep ends when it is due and an API call *)
(* ends within CallSpan: the clock waits for both.                         *)
(***************************************************************************)
EXTENDS Integers, FiniteSets

CONSTANTS
  Replica,        \* pods, told apart by POD_NAME
  Nobody,         \* the holder of a Lease that is not there
  offset,         \* offset[r]: how far the UTC clock of r is ahead
  Skew,           \* the largest offset
  LeaseDuration,  \* LEASE_DURATION_S
  RenewDeadline,  \* RENEW_DEADLINE_S
  RetryPeriod,    \* RETRY_PERIOD_S
  MainPause,      \* main's sleep before it runs for election again
  JoinSpan,       \* the longest wait for the worker after a lost lease
  CallSpan,       \* the longest read or replace of the Lease
  MaxTime,        \* bound: the clock stops here
  MaxFaults,      \* bound: API calls and workers that fail
  MaxStops        \* bound: replicas that stop

ASSUME LeaseAssumption ==
  /\ Nobody \notin Replica
  /\ Skew \in Nat /\ offset \in [Replica -> 0..Skew]
  /\ LeaseDuration \in Nat /\ RenewDeadline \in Nat \ {0}
  /\ RetryPeriod \in Nat /\ MainPause \in Nat
  /\ JoinSpan \in Nat /\ CallSpan \in Nat
  /\ MaxTime \in Nat /\ MaxFaults \in Nat /\ MaxStops \in Nat

VARIABLES
  now,       \* the time
  lease,     \* the Lease: holder_identity and renew_time
  current,   \* replicas whose copy has the Lease's resourceVersion
  pc,        \* what the election thread of each replica is in
  plan,      \* what it does when it next wakes
  due,       \* when its sleep or its API call ends
  stamp,     \* "now" of its try_acquire_or_renew
  deadline,  \* end of its renewal round
  waiting,   \* history: since when it is a standby
  faults, stops  \* counters under the bounds

vars == <<now, lease, current, pc, plan, due, stamp, deadline, waiting,
          faults, stops>>

Stages == {"down", "asleep", "reading", "writing"}
Plans  == {"acquire", "renew", "retry"}

Clock(r) == now + offset[r]

(* Between acquiring the Lease and on_stopped the replica leads.           *)
Leads(r) == pc[r] # "down" /\ plan[r] # "acquire"
Stands(r) == pc[r] # "down" /\ plan[r] = "acquire"

Awake(r) == pc[r] = "asleep" /\ due[r] <= now
Fault == faults < MaxFaults /\ faults' = faults + 1

Init ==
  /\ now = 0
  /\ lease = [holder |-> Nobody, renew |-> 0] /\ current = {}
  /\ pc = [r \in Replica |-> "asleep"] /\ plan = [r \in Replica |-> "acquire"]
  /\ due = [r \in Replica |-> 0] /\ stamp = [r \in Replica |-> 0]
  /\ deadline = [r \in Replica |-> 0] /\ waiting = [r \in Replica |-> 0]
  /\ faults = 0 /\ stops = 0

Tick ==
  /\ now < MaxTime
  /\ \A r \in Replica : pc[r] # "down" => now < due[r]
  /\ now' = now + 1
  /\ UNCHANGED <<lease, current, pc, plan, due, stamp, deadline, waiting,
                 faults, stops>>

-----------------------------------------------------------------------------
(* lease_is_expired, by the clock reading stamp                            *)
Expired(at) == at - lease.renew > LeaseDuration

(* Mutants: one's own lease is not recognised; an expired lease is not     *)
(* taken.                                                                  *)
MayTake_Stranger(r) == lease.holder = Nobody \/ Expired(stamp[r])
MayTake_Never(r) == lease.holder \in {Nobody, r}

(* The Lease is missing, ours, or expired.                                 *)
MayTake(r) == lease.holder \in {Nobody, r} \/ Expired(stamp[r])

(* The thread wakes: a standby tries to acquire; a leader starts a round   *)
(* of renewal, or goes on with it until the deadline.                      *)
BeginTry(r) ==
  /\ Awake(r)
  /\ plan[r] = "retry" => now < deadline[r]
  /\ IF plan[r] = "renew"
     THEN /\ plan' = [plan EXCEPT ![r] = "retry"]
          /\ deadline' = [deadline EXCEPT ![r] = now + RenewDeadline]
     ELSE UNCHANGED <<plan, deadline>>
  /\ stamp' = [stamp EXCEPT ![r] = Clock(r)]
  /\ pc' = [pc EXCEPT ![r] = "reading"]
  /\ due' = [due EXCEPT ![r] = now + CallSpan]
  /\ UNCHANGED <<now, lease, current, waiting, faults, stops>>

Sleep(r, span) ==
  /\ pc' = [pc EXCEPT ![r] = "asleep"]
  /\ due' = [due EXCEPT ![r] = now + span]

(* try_acquire_or_renew returned False.                                    *)
TryFails(r) == Sleep(r, RetryPeriod) /\ UNCHANGED <<plan, waiting>>

(* read_namespaced_lease, and what follows from what it returned.          *)
Read(r) ==
  /\ pc[r] = "reading" /\ MayTake(r)
  /\ current' = current \cup {r}
  /\ pc' = [pc EXCEPT ![r] = "writing"]
  /\ due' = [due EXCEPT ![r] = now + CallSpan]
  /\ UNCHANGED <<now, lease, plan, stamp, deadline, waiting, faults, stops>>

ReadHeldByOther(r) ==
  /\ pc[r] = "reading" /\ ~MayTake(r)
  /\ TryFails(r)
  /\ UNCHANGED <<now, lease, current, stamp, deadline, faults, stops>>

ReadFails(r) ==
  /\ pc[r] = "reading" /\ Fault
  /\ TryFails(r)
  /\ UNCHANGED <<now, lease, current, stamp, deadline, stops>>

(* Mutants: the write does not depend on the resourceVersion; the holder   *)
(* is written without a renew_time.                                        *)
Lands_NoStamp(r) ==
  /\ r \in current
  /\ lease' = [holder |-> r]
  /\ current' = {}
Lands_Blind(r) ==
  /\ lease' = [holder |-> r, renew |-> stamp[r]]
  /\ current' = {}

(* create or replace, by optimistic concurrency: the copy must be current. *)
Lands(r) ==
  /\ r \in current
  /\ lease' = [holder |-> r, renew |-> stamp[r]]
  /\ current' = {}

(* The write succeeds: a standby is elected and renews at once, a leader   *)
(* sleeps before its next round.                                           *)
Write(r) ==
  /\ pc[r] = "writing" /\ Lands(r)
  /\ Sleep(r, IF plan[r] = "acquire" THEN 0 ELSE RetryPeriod)
  /\ plan' = [plan EXCEPT ![r] = "renew"]
  /\ UNCHANGED <<now, stamp, deadline, waiting, faults, stops>>

(* The Lease has changed since the read: 409.                              *)
WriteConflicts(r) ==
  /\ pc[r] = "writing" /\ r \notin current
  /\ TryFails(r)
  /\ UNCHANGED <<now, lease, current, stamp, deadline, faults, stops>>

(* The write fails, or lands and its answer is lost.                       *)
WriteFails(r) ==
  /\ pc[r] = "writing" /\ Fault
  /\ Lands(r) \/ (lease' = lease /\ current' = current \ {r})
  /\ TryFails(r)
  /\ UNCHANGED <<now, stamp, deadline, stops>>

-----------------------------------------------------------------------------
(* on_stopped clears the leader's flags; the thread then waits for the     *)
(* worker, and main for a moment, before the replica stands again.         *)
OnStopped(r) ==
  /\ plan' = [plan EXCEPT ![r] = "acquire"]
  /\ \E wait \in 0..JoinSpan :
       /\ Sleep(r, wait + MainPause)
       /\ waiting' = [waiting EXCEPT ![r] = now + wait + MainPause]
  /\ UNCHANGED <<now, lease, current, stamp, deadline, stops>>

(* The round ended without a renewal.                                      *)
MissedDeadline(r) ==
  /\ Awake(r) /\ plan[r] = "retry" /\ now >= deadline[r]
  /\ OnStopped(r) /\ UNCHANGED faults

(* The worker raised; noticed before the next round.                       *)
WorkerFailed(r) ==
  /\ Awake(r) /\ plan[r] = "renew" /\ Fault
  /\ OnStopped(r)

(* A kill or SIGTERM at any point: the Lease is left to expire.            *)
Stop(r) ==
  /\ pc[r] # "down" /\ stops < MaxStops /\ stops' = stops + 1
  /\ pc' = [pc EXCEPT ![r] = "down"]
  /\ plan' = [plan EXCEPT ![r] = "acquire"]
  /\ due' = [due EXCEPT ![r] = 0] /\ stamp' = [stamp EXCEPT ![r] = 0]
  /\ deadline' = [deadline EXCEPT ![r] = 0]
  /\ current' = current \ {r}
  /\ UNCHANGED <<now, lease, waiting, faults>>

(* The container starts again, in the same pod.                            *)
Start(r) ==
  /\ pc[r] = "down"
  /\ Sleep(r, 0)
  /\ waiting' = [waiting EXCEPT ![r] = now]
  /\ UNCHANGED <<now, lease, current, plan, stamp, deadline, faults, stops>>

-----------------------------------------------------------------------------
Elect(r) ==
  \/ BeginTry(r)
  \/ Read(r) \/ ReadHeldByOther(r) \/ ReadFails(r)
  \/ Write(r) \/ WriteConflicts(r) \/ WriteFails(r)
  \/ MissedDeadline(r) \/ WorkerFailed(r)

Next == Tick \/ \E r \in Replica : Elect(r) \/ Stop(r) \/ Start(r)

Spec == Init /\ [][Next]_vars

-----------------------------------------------------------------------------
TypeOK ==
  /\ now \in Nat
  /\ lease \in [holder : Replica \cup {Nobody}, renew : Nat]
  /\ current \subseteq Replica
  /\ pc \in [Replica -> Stages] /\ plan \in [Replica -> Plans]
  /\ due \in [Replica -> Nat] /\ stamp \in [Replica -> Nat]
  /\ deadline \in [Replica -> Nat] /\ waiting \in [Replica -> Nat]
  /\ faults \in Nat /\ stops \in Nat

(* The constants leave room for the calls: from the stamp of a renewal to  *)
(* the end of a round that never succeeds.                                 *)
Timely ==
  2 * RetryPeriod + RenewDeadline + 4 * CallSpan + Skew <= LeaseDuration

(* Whoever leads holds the Lease, unexpired by everyone's clock: it steps  *)
(* down before another may take over, whatever calls fail, whatever        *)
(* answers are lost, and whichever replicas stop.                          *)
LeaderHoldsLease ==
  Timely =>
    \A r \in Replica : Leads(r) =>
      lease.holder = r /\ \A s \in Replica : ~Expired(Clock(s))

(* Leadership does not flap: a leader goes on leading as long as no call   *)
(* and no worker has failed and it is not stopped.                         *)
LeadershipIsKept ==
  [][\A r \in Replica :
       Timely /\ Leads(r) /\ faults' = 0 /\ pc'[r] # "down" => Leads(r)']_vars

(* A Lease nobody renews is taken: with a standby that tries all along and *)
(* no call failing, the Lease lapses no longer than a retry and its calls. *)
(* (A lease shorter than a read and a replace may be expired by the time   *)
(* its holder has it.)                                                     *)
LapseIsShort ==
  2 * CallSpan <= LeaseDuration =>
    \A r \in Replica :
      (Stands(r) /\ faults = 0 /\ now > waiting[r] + RetryPeriod + 3 * CallSpan)
        => /\ lease.holder # Nobody
           /\ now <= lease.renew + LeaseDuration + RetryPeriod + 3 * CallSpan
=============================================================================
