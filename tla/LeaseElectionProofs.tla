------------------------- MODULE LeaseElectionProofs --------------------------
(***************************************************************************)
(* Proofs about LeaseElection for all sets of replicas, all settings of    *)
(* the lease and all spans of calls, clocks and pauses.                    *)
(***************************************************************************)
EXTENDS LeaseElection, TLAPS

(* Every step of a replica and of the clock keeps the variables in their   *)
(* types: a Lease always has a holder and a renew_time.                    *)
THEOREM TypeCorrect == Spec => []TypeOK
<1> USE LeaseAssumption DEF TypeOK, Stages, Plans
<1>1. Init => TypeOK
  BY DEF Init
<1>2. TypeOK /\ [Next]_vars => TypeOK'
  <2> SUFFICES ASSUME TypeOK, [Next]_vars PROVE TypeOK'
    OBVIOUS
  <2>1. CASE Tick
    BY <2>1 DEF Tick
  <2>2. ASSUME NEW r \in Replica, BeginTry(r) PROVE TypeOK'
    <3>1. Clock(r) \in Nat
      BY DEF Clock
    <3>. QED
      BY <2>2, <3>1 DEF BeginTry
  <2>3. ASSUME NEW r \in Replica, Read(r) PROVE TypeOK'
    BY <2>3 DEF Read
  <2>4. ASSUME NEW r \in Replica, ReadHeldByOther(r) PROVE TypeOK'
    BY <2>4 DEF ReadHeldByOther, TryFails, Sleep
  <2>5. ASSUME NEW r \in Replica, ReadFails(r) PROVE TypeOK'
    BY <2>5 DEF ReadFails, TryFails, Sleep, Fault
  <2>6. ASSUME NEW r \in Replica, Write(r) PROVE TypeOK'
    BY <2>6 DEF Write, Lands, Sleep
  <2>7. ASSUME NEW r \in Replica, WriteConflicts(r) PROVE TypeOK'
    BY <2>7 DEF WriteConflicts, TryFails, Sleep
  <2>8. ASSUME NEW r \in Replica, WriteFails(r) PROVE TypeOK'
    BY <2>8 DEF WriteFails, Lands, TryFails, Sleep, Fault
  <2>9. ASSUME NEW r \in Replica, OnStopped(r), faults' \in Nat PROVE TypeOK'
    BY <2>9 DEF OnStopped, Sleep
  <2>10. ASSUME NEW r \in Replica, MissedDeadline(r) \/ WorkerFailed(r)
         PROVE  TypeOK'
    BY <2>9, <2>10 DEF MissedDeadline, WorkerFailed, Fault
  <2>11. ASSUME NEW r \in Replica, Stop(r) PROVE TypeOK'
    BY <2>11 DEF Stop
  <2>12. ASSUME NEW r \in Replica, Start(r) PROVE TypeOK'
    BY <2>12 DEF Start, Sleep
  <2>13. CASE UNCHANGED vars
    BY <2>13 DEF vars
  <2>. QED
    BY <2>1, <2>2, <2>3, <2>4, <2>5, <2>6, <2>7, <2>8, <2>10, <2>11, <2>12,
       <2>13 DEF Next, Elect
<1>. QED
  BY <1>1, <1>2, PTL DEF Spec

-----------------------------------------------------------------------------
(* A replica has seen no later time than its clock shows, and the thread   *)
(* of one that runs wakes, or has its answer, when it is due: a read ends  *)
(* within CallSpan of the stamp, a replace within twice that.              *)
CallInv ==
  \A r \in Replica :
    /\ stamp[r] <= Clock(r)
    /\ pc[r] # "down" => now <= due[r]
    /\ pc[r] \in {"reading", "writing"} => due[r] <= now + CallSpan
    /\ pc[r] = "reading" => due[r] <= stamp[r] + CallSpan
    /\ pc[r] = "writing" => due[r] <= stamp[r] + 2 * CallSpan

(* A replace whose resourceVersion is still current is still justified by  *)
(* the Lease it was read from.                                             *)
CopyInv ==
  \A r \in Replica : pc[r] = "writing" /\ r \in current => MayTake(r)

(* A leader that is about to renew, and one whose round has not succeeded. *)
RenewsInTime(r) ==
  pc[r] = "asleep" /\ due[r] <= lease.renew + 2 * CallSpan + RetryPeriod

RetriesInTime(r) ==
  /\ deadline[r] <= lease.renew + 2 * CallSpan + RetryPeriod + RenewDeadline
  /\ pc[r] = "reading" => due[r] < deadline[r] + CallSpan
  /\ pc[r] = "writing" => due[r] < deadline[r] + 2 * CallSpan
  /\ pc[r] = "asleep"  => due[r] < deadline[r] + 2 * CallSpan + RetryPeriod

(* The Lease is a leader's, and every wait of it is bounded by renew_time. *)
LeadInv ==
  Timely =>
    \A r \in Replica : Leads(r) =>
      /\ lease.holder = r
      /\ lease.renew <= stamp[r]
      /\ plan[r] = "renew" => RenewsInTime(r)
      /\ plan[r] = "retry" => RetriesInTime(r)

(* A replica that is stopped starts as a standby.                          *)
DownInv == \A r \in Replica : pc[r] = "down" => plan[r] = "acquire"

ElectionInv == CallInv /\ CopyInv /\ DownInv /\ LeadInv

(* While a replica leads, its Lease is expired by no replica's clock.      *)
LEMMA LeaseOutlastsLeader ==
  ASSUME TypeOK, ElectionInv, Timely, NEW r \in Replica, Leads(r)
  PROVE  lease.holder = r /\ now + Skew <= lease.renew + LeaseDuration
<1> USE LeaseAssumption DEF TypeOK
<1>1. now <= due[r] /\ pc[r] \in {"asleep", "reading", "writing"}
  BY DEF ElectionInv, CallInv, Leads, Stages
<1>2. CASE plan[r] = "renew"
  BY <1>1, <1>2 DEF ElectionInv, LeadInv, RenewsInTime, Timely
<1>3. CASE plan[r] = "retry"
  <2>1. due[r] < deadline[r] + 2 * CallSpan + RetryPeriod
    BY <1>1, <1>3 DEF ElectionInv, LeadInv, RetriesInTime
  <2>. QED
    BY <1>1, <1>3, <2>1 DEF ElectionInv, LeadInv, RetriesInTime, Timely
<1>. QED
  BY <1>2, <1>3 DEF Leads, Plans

(* So no other replica's replace can land.                                 *)
LEMMA OnlyTheLeaderWrites ==
  ASSUME TypeOK, ElectionInv, Timely, NEW r \in Replica, Leads(r),
         NEW s \in Replica, pc[s] = "writing", s \in current
  PROVE  s = r
<1> USE LeaseAssumption DEF TypeOK
<1>1. lease.holder = r /\ now + Skew <= lease.renew + LeaseDuration
  BY LeaseOutlastsLeader
<1>2. stamp[s] <= now + Skew
  BY DEF ElectionInv, CallInv, Clock
<1>3. MayTake(s)
  BY DEF ElectionInv, CopyInv
<1>. QED
  BY <1>1, <1>2, <1>3 DEF MayTake, Expired

(* A replace that lands, whether its answer arrives or not, leaves the     *)
(* Lease to the replica that wrote it: nobody else leads.                  *)
LEMMA LandingIsExclusive ==
  ASSUME TypeOK, ElectionInv, Timely, NEW s \in Replica,
         pc[s] = "writing", Lands(s), NEW r \in Replica, Leads(r)
  PROVE  r = s
  BY OnlyTheLeaderWrites DEF Lands

(* The waits of a thread, whatever woke it.                                *)
LEMMA CallStep ==
  ASSUME TypeOK, CallInv, [Next]_vars PROVE CallInv'
<1> USE LeaseAssumption DEF TypeOK, Stages, CallInv, Clock
<1>1. CASE Tick
  BY <1>1 DEF Tick
<1>2. ASSUME NEW s \in Replica, BeginTry(s) PROVE CallInv'
  BY <1>2 DEF BeginTry
<1>3. ASSUME NEW s \in Replica, Read(s) PROVE CallInv'
  BY <1>3 DEF Read
<1>4. ASSUME NEW s \in Replica, NEW span \in Nat, Sleep(s, span),
             UNCHANGED <<now, stamp>>
      PROVE  CallInv'
  BY <1>4 DEF Sleep
<1>5. ASSUME NEW s \in Replica,
             ReadHeldByOther(s) \/ ReadFails(s) \/ WriteConflicts(s)
               \/ WriteFails(s)
      PROVE  CallInv'
  BY <1>4, <1>5
     DEF ReadHeldByOther, ReadFails, WriteConflicts, WriteFails, TryFails
<1>6. ASSUME NEW s \in Replica, Write(s) PROVE CallInv'
  BY <1>4, <1>6 DEF Write
<1>7. ASSUME NEW s \in Replica, MissedDeadline(s) \/ WorkerFailed(s)
      PROVE  CallInv'
  BY <1>4, <1>7 DEF MissedDeadline, WorkerFailed, OnStopped
<1>8. ASSUME NEW s \in Replica, Stop(s) PROVE CallInv'
  BY <1>8 DEF Stop
<1>9. ASSUME NEW s \in Replica, Start(s) PROVE CallInv'
  BY <1>4, <1>9 DEF Start
<1>10. CASE UNCHANGED vars
  BY <1>10 DEF vars
<1>. QED
  BY <1>1, <1>2, <1>3, <1>5, <1>6, <1>7, <1>8, <1>9, <1>10 DEF Next, Elect

(* What a replace was justified by stays so until the Lease changes, and   *)
(* then its resourceVersion is no longer current.                          *)
LEMMA CopyStep ==
  ASSUME TypeOK, CopyInv, [Next]_vars PROVE CopyInv'
<1> USE LeaseAssumption DEF TypeOK, Stages, CopyInv, MayTake, Expired
<1>1. CASE Tick
  BY <1>1 DEF Tick
<1>2. ASSUME NEW s \in Replica, BeginTry(s) PROVE CopyInv'
  BY <1>2 DEF BeginTry
<1>3. ASSUME NEW s \in Replica, Read(s) PROVE CopyInv'
  BY <1>3 DEF Read
<1>4. ASSUME NEW s \in Replica,
             ReadHeldByOther(s) \/ ReadFails(s) \/ WriteConflicts(s)
      PROVE  CopyInv'
  BY <1>4 DEF ReadHeldByOther, ReadFails, WriteConflicts, TryFails, Sleep
<1>5. ASSUME NEW s \in Replica, Write(s) \/ WriteFails(s) PROVE CopyInv'
  BY <1>5 DEF Write, WriteFails, Lands, TryFails, Sleep
<1>6. ASSUME NEW s \in Replica, MissedDeadline(s) \/ WorkerFailed(s)
      PROVE  CopyInv'
  BY <1>6 DEF MissedDeadline, WorkerFailed, OnStopped, Sleep
<1>7. ASSUME NEW s \in Replica, Stop(s) \/ Start(s) PROVE CopyInv'
  BY <1>7 DEF Stop, Start, Sleep
<1>8. CASE UNCHANGED vars
  BY <1>8 DEF vars
<1>. QED
  BY <1>1, <1>2, <1>3, <1>4, <1>5, <1>6, <1>7, <1>8 DEF Next, Elect

(* A leader renews or steps down in time: every step of its own keeps its  *)
(* waits within the Lease, and no step of another changes the Lease.       *)
LEMMA LeadStep ==
  ASSUME TypeOK, ElectionInv, [Next]_vars PROVE LeadInv'
<1> USE LeaseAssumption DEF TypeOK, Stages, Plans
<1> SUFFICES ASSUME Timely, NEW r \in Replica, Leads(r)'
             PROVE  /\ lease'.holder = r
                    /\ lease'.renew <= stamp'[r]
                    /\ plan'[r] = "renew" => RenewsInTime(r)'
                    /\ plan'[r] = "retry" => RetriesInTime(r)'
  BY DEF LeadInv, Timely
<1> USE DEF LeadInv, Leads, RenewsInTime, RetriesInTime
<1>1. CASE Tick
  BY <1>1 DEF Tick, ElectionInv
<1>2. ASSUME NEW s \in Replica, BeginTry(s) PROVE LeadInv'
  BY <1>2 DEF BeginTry, Awake, Clock, ElectionInv, CallInv
<1>3. ASSUME NEW s \in Replica, Read(s) PROVE LeadInv'
  BY <1>3 DEF Read, ElectionInv, CallInv
<1>4. ASSUME NEW s \in Replica,
             ReadHeldByOther(s) \/ ReadFails(s) \/ WriteConflicts(s)
      PROVE  LeadInv'
  BY <1>4 DEF ReadHeldByOther, ReadFails, WriteConflicts, TryFails, Sleep,
              ElectionInv, CallInv
<1>5. ASSUME NEW s \in Replica, Write(s) PROVE LeadInv'
  BY <1>5, LandingIsExclusive DEF Write, Lands, Sleep, ElectionInv, CallInv
<1>6. ASSUME NEW s \in Replica, WriteFails(s) PROVE LeadInv'
  BY <1>6, LandingIsExclusive
     DEF WriteFails, Lands, TryFails, Sleep, ElectionInv, CallInv
<1>7. ASSUME NEW s \in Replica, MissedDeadline(s) \/ WorkerFailed(s)
      PROVE  LeadInv'
  BY <1>7 DEF MissedDeadline, WorkerFailed, OnStopped, Sleep, ElectionInv
<1>8. ASSUME NEW s \in Replica, Stop(s) \/ Start(s) PROVE LeadInv'
  BY <1>8 DEF Stop, Start, Sleep, ElectionInv, DownInv
<1>9. CASE UNCHANGED vars
  BY <1>9 DEF vars, ElectionInv
<1>. QED
  BY <1>1, <1>2, <1>3, <1>4, <1>5, <1>6, <1>7, <1>8, <1>9 DEF Next, Elect, Timely

(* A stop makes the replica a standby, whatever it was.                    *)
LEMMA DownStep ==
  ASSUME TypeOK, DownInv, [Next]_vars PROVE DownInv'
  BY DEF TypeOK, DownInv, Next, Elect, Tick, BeginTry, Read, ReadHeldByOther,
         ReadFails, Write, WriteConflicts, WriteFails, MissedDeadline,
         WorkerFailed, OnStopped, TryFails, Sleep, Stop, Start, vars

(* The lease, the calls that are under way and the waits of whoever leads  *)
(* agree throughout: elections, failures, lost answers, stops and starts.  *)
THEOREM ElectionInvariant == Spec => []ElectionInv
<1>1. Init => ElectionInv
  BY LeaseAssumption
  DEF Init, ElectionInv, CallInv, CopyInv, DownInv, LeadInv, Leads, Clock
<1>2. TypeOK /\ ElectionInv /\ [Next]_vars => ElectionInv'
  BY CallStep, CopyStep, DownStep, LeadStep DEF ElectionInv
<1>. QED
  BY <1>1, <1>2, TypeCorrect, PTL DEF Spec

(* Whoever leads holds the Lease, and no replica's clock, ahead as it may  *)
(* be, has it expired: leader.py's deadline ends before its lease does.    *)
THEOREM LeaderIsSafe == Spec => []LeaderHoldsLease
<1>1. TypeOK /\ ElectionInv => LeaderHoldsLease
  <2> SUFFICES ASSUME TypeOK, ElectionInv, Timely, NEW r \in Replica, Leads(r)
               PROVE  /\ lease.holder = r
                      /\ \A s \in Replica : ~Expired(Clock(s))
    BY DEF LeaderHoldsLease
  <2>1. lease.holder = r /\ now + Skew <= lease.renew + LeaseDuration
    BY LeaseOutlastsLeader
  <2>. QED
    BY <2>1, LeaseAssumption DEF TypeOK, Expired, Clock
<1>. QED
  BY <1>1, TypeCorrect, ElectionInvariant, PTL

(* Hence no two replicas lead at once.                                     *)
THEOREM OneLeader ==
  Spec => [](Timely => \A r, s \in Replica : Leads(r) /\ Leads(s) => r = s)
<1>1. LeaderHoldsLease =>
        (Timely => \A r, s \in Replica : Leads(r) /\ Leads(s) => r = s)
  BY DEF LeaderHoldsLease
<1>. QED
  BY <1>1, LeaderIsSafe, PTL

-----------------------------------------------------------------------------
(* Without a failure so far a renewal succeeds at its first try: the       *)
(* leader is in it, and its copy of the Lease is current.                  *)
KeepInv ==
  Timely /\ faults = 0 =>
    \A r \in Replica : Leads(r) /\ plan[r] = "retry" =>
      /\ pc[r] \in {"reading", "writing"}
      /\ pc[r] = "writing" => r \in current

(* Nobody else writes the Lease while a leader holds it, so its copy       *)
(* stays current between its read and its replace.                         *)
LEMMA KeepStep ==
  ASSUME TypeOK, ElectionInv, KeepInv, [Next]_vars PROVE KeepInv'
<1> USE LeaseAssumption DEF TypeOK, Stages, Plans
<1> SUFFICES ASSUME Timely, faults' = 0 PROVE KeepInv'
  BY DEF KeepInv, Timely
<1> USE DEF KeepInv, Leads
<1>0. faults = 0
  BY DEF Next, Elect, Tick, BeginTry, Read, ReadHeldByOther, ReadFails, Write,
         WriteConflicts, WriteFails, MissedDeadline, WorkerFailed, OnStopped,
         Fault, Stop, Start, vars
<1>1. \A r \in Replica : Leads(r) => lease.holder = r
  BY DEF ElectionInv, LeadInv
<1>2. CASE Tick
  BY <1>0, <1>2 DEF Tick
<1>3. ASSUME NEW s \in Replica, BeginTry(s) PROVE KeepInv'
  BY <1>0, <1>3 DEF BeginTry
<1>4. ASSUME NEW s \in Replica, Read(s) PROVE KeepInv'
  BY <1>0, <1>4 DEF Read
<1>5. ASSUME NEW s \in Replica, ReadHeldByOther(s) PROVE KeepInv'
  BY <1>0, <1>1, <1>5 DEF ReadHeldByOther, TryFails, Sleep, MayTake
<1>6. ASSUME NEW s \in Replica, WriteConflicts(s) PROVE KeepInv'
  BY <1>0, <1>6 DEF WriteConflicts, TryFails, Sleep
<1>7. ASSUME NEW s \in Replica, Write(s) PROVE KeepInv'
  BY <1>0, <1>7, LandingIsExclusive DEF Write, Lands, Sleep
<1>8. ASSUME NEW s \in Replica,
             ReadFails(s) \/ WriteFails(s) \/ WorkerFailed(s)
      PROVE  KeepInv'
  BY <1>8 DEF ReadFails, WriteFails, WorkerFailed, Fault
<1>9. ASSUME NEW s \in Replica, MissedDeadline(s) PROVE KeepInv'
  BY <1>0, <1>9 DEF MissedDeadline, OnStopped, Sleep
<1>10. ASSUME NEW s \in Replica, Stop(s) \/ Start(s) PROVE KeepInv'
  BY <1>0, <1>10 DEF Stop, Start, Sleep, ElectionInv, DownInv
<1>11. CASE UNCHANGED vars
  BY <1>11 DEF vars
<1>. QED
  BY <1>2, <1>3, <1>4, <1>5, <1>6, <1>7, <1>8, <1>9, <1>10, <1>11
     DEF Next, Elect

(* Leadership does not flap: of the ways a leader can cease to lead, all   *)
(* but a stop need a failed call or worker.                                *)
THEOREM LeadersStay == Spec => LeadershipIsKept
<1>1. Init => KeepInv
  BY DEF Init, KeepInv, Leads
<1>2. TypeOK /\ ElectionInv /\ KeepInv /\ [Next]_vars => KeepInv'
  BY KeepStep
<1>3. ASSUME TypeOK, ElectionInv, KeepInv, [Next]_vars, NEW r \in Replica,
             Timely, Leads(r), faults' = 0, pc'[r] # "down"
      PROVE  Leads(r)'
  <2>1. faults \in Nat /\ plan[r] \in Plans
    BY <1>3 DEF TypeOK
  <2>2. ASSUME NEW s \in Replica, MissedDeadline(s) PROVE s # r
    BY <1>3, <2>1, <2>2 DEF MissedDeadline, KeepInv, Awake
  <2>3. ASSUME NEW s \in Replica PROVE ~WorkerFailed(s)
    BY <1>3, <2>1 DEF WorkerFailed, Fault
  <2>4. plan'[r] # "acquire"
    BY <1>3, <2>2, <2>3
    DEF TypeOK, Plans, Leads, Next, Elect, Tick, BeginTry, Read,
        ReadHeldByOther, ReadFails, Write, WriteConflicts, WriteFails,
        MissedDeadline, OnStopped, TryFails, Sleep, Stop, Start, vars
  <2>. QED
    BY <1>3, <2>4 DEF Leads
<1>4. TypeOK /\ ElectionInv /\ KeepInv /\ [Next]_vars =>
        [\A r \in Replica :
           Timely /\ Leads(r) /\ faults' = 0 /\ pc'[r] # "down" => Leads(r)']_vars
  BY <1>3 DEF Timely
<1>. QED
  BY <1>1, <1>2, <1>4, TypeCorrect, ElectionInvariant, PTL
  DEF Spec, LeadershipIsKept

-----------------------------------------------------------------------------
(* Nothing a replica has written in the Lease is later than its clock, nor *)
(* than the stamp of the call it is making.                                *)
RenewInv ==
  \A r \in Replica : lease.holder = r =>
    /\ lease.renew <= Clock(r)
    /\ pc[r] \in {"reading", "writing"} => lease.renew <= stamp[r]

(* There is a Lease, not expired at the time t but for the spans of calls. *)
Covers(t) == lease.holder # Nobody /\ t <= lease.renew + LeaseDuration

(* The Lease that a conflicting replace left is as new as its calls let it *)
(* be.                                                                     *)
ConflictInv ==
  \A r \in Replica : pc[r] = "writing" /\ r \notin current =>
    lease.holder # Nobody /\ due[r] <= lease.renew + 3 * CallSpan

(* A standby that has tried since it began to stand has found the Lease    *)
(* held: each stage of a try is due so much later than that.               *)
StandbyInv ==
  2 * CallSpan <= LeaseDuration /\ faults = 0 =>
    \A r \in Replica : Stands(r) =>
      /\ pc[r] = "asleep" => \/ due[r] <= waiting[r]
                             \/ Covers(due[r] - RetryPeriod - CallSpan)
      /\ pc[r] = "reading" => \/ due[r] - CallSpan <= waiting[r]
                              \/ Covers(due[r] - RetryPeriod - 2 * CallSpan)
      /\ pc[r] = "writing" => \/ due[r] - 2 * CallSpan <= waiting[r]
                              \/ Covers(due[r] - RetryPeriod - 3 * CallSpan)

LapseInv == RenewInv /\ ConflictInv /\ StandbyInv

(* A replace that lands never takes the Lease back in time, and is as new  *)
(* as its calls let it be.                                                 *)
LEMMA LandingIsLater ==
  ASSUME TypeOK, CallInv, CopyInv, RenewInv, NEW s \in Replica,
         pc[s] = "writing", Lands(s)
  PROVE  /\ lease'.holder = s /\ lease'.renew \in Nat
         /\ lease.holder # Nobody => lease.renew <= lease'.renew
         /\ now <= lease'.renew + 2 * CallSpan
  BY LeaseAssumption
  DEF TypeOK, CallInv, CopyInv, RenewInv, Lands, MayTake, Expired

(* A replace that lands writes the stamp of its own try.                   *)
LEMMA RenewStep ==
  ASSUME TypeOK, CallInv, RenewInv, [Next]_vars PROVE RenewInv'
<1> USE LeaseAssumption DEF TypeOK, Stages, RenewInv, Clock
<1>1. CASE Tick
  BY <1>1 DEF Tick
<1>2. ASSUME NEW s \in Replica, BeginTry(s) PROVE RenewInv'
  BY <1>2 DEF BeginTry
<1>3. ASSUME NEW s \in Replica, Read(s) PROVE RenewInv'
  BY <1>3 DEF Read
<1>4. ASSUME NEW s \in Replica,
             ReadHeldByOther(s) \/ ReadFails(s) \/ WriteConflicts(s)
      PROVE  RenewInv'
  BY <1>4 DEF ReadHeldByOther, ReadFails, WriteConflicts, TryFails, Sleep
<1>5. ASSUME NEW s \in Replica, Write(s) \/ WriteFails(s) PROVE RenewInv'
  BY <1>5 DEF Write, WriteFails, Lands, TryFails, Sleep, CallInv
<1>6. ASSUME NEW s \in Replica, MissedDeadline(s) \/ WorkerFailed(s)
      PROVE  RenewInv'
  BY <1>6 DEF MissedDeadline, WorkerFailed, OnStopped, Sleep
<1>7. ASSUME NEW s \in Replica, Stop(s) \/ Start(s) PROVE RenewInv'
  BY <1>7 DEF Stop, Start, Sleep
<1>8. CASE UNCHANGED vars
  BY <1>8 DEF vars
<1>. QED
  BY <1>1, <1>2, <1>3, <1>4, <1>5, <1>6, <1>7, <1>8 DEF Next, Elect

(* Whatever makes a copy stale is a replace that lands meanwhile.          *)
LEMMA ConflictStep ==
  ASSUME TypeOK, CallInv, CopyInv, RenewInv, ConflictInv, [Next]_vars
  PROVE  ConflictInv'
<1> USE LeaseAssumption DEF TypeOK, Stages, ConflictInv
<1>1. CASE Tick
  BY <1>1 DEF Tick
<1>2. ASSUME NEW s \in Replica, BeginTry(s) \/ Read(s) PROVE ConflictInv'
  BY <1>2 DEF BeginTry, Read
<1>3. ASSUME NEW s \in Replica,
             ReadHeldByOther(s) \/ ReadFails(s) \/ WriteConflicts(s)
      PROVE  ConflictInv'
  BY <1>3 DEF ReadHeldByOther, ReadFails, WriteConflicts, TryFails, Sleep
<1>4. ASSUME NEW s \in Replica, Write(s) \/ WriteFails(s) PROVE ConflictInv'
  <2>1. ASSUME NEW r \in Replica, pc'[r] = "writing"
        PROVE  pc[r] = "writing" /\ due'[r] = due[r] /\ r # s
    BY <1>4, <2>1 DEF Write, WriteFails, TryFails, Sleep
  <2>2. CASE Lands(s)
    <3>1. pc[s] = "writing"
      BY <1>4 DEF Write, WriteFails
    <3>2. /\ lease'.holder = s /\ now <= lease'.renew + 2 * CallSpan
          /\ lease'.renew \in Nat
      BY <2>2, <3>1, LandingIsLater
    <3>. QED
      BY <2>1, <3>2 DEF CallInv
  <2>3. CASE lease' = lease /\ current' = current \ {s}
    BY <2>1, <2>3
  <2>. QED
    BY <1>4, <2>2, <2>3 DEF Write, WriteFails
<1>5. ASSUME NEW s \in Replica, MissedDeadline(s) \/ WorkerFailed(s)
      PROVE  ConflictInv'
  BY <1>5 DEF MissedDeadline, WorkerFailed, OnStopped, Sleep
<1>6. ASSUME NEW s \in Replica, Stop(s) \/ Start(s) PROVE ConflictInv'
  BY <1>6 DEF Stop, Start, Sleep
<1>7. CASE UNCHANGED vars
  BY <1>7 DEF vars
<1>. QED
  BY <1>1, <1>2, <1>3, <1>4, <1>5, <1>6, <1>7 DEF Next, Elect

(* Each stage of a standby's try is bounded by the one before it; it ends  *)
(* with a Lease that is held and not yet expired, or was just written.     *)
LEMMA StandbyStep ==
  ASSUME TypeOK, CallInv, CopyInv, RenewInv, ConflictInv, StandbyInv,
         [Next]_vars
  PROVE  StandbyInv'
<1> USE LeaseAssumption DEF TypeOK, Stages, Plans
<1> SUFFICES ASSUME 2 * CallSpan <= LeaseDuration, faults' = 0
             PROVE  StandbyInv'
  BY DEF StandbyInv
<1>0. faults = 0
  BY DEF Next, Elect, Tick, BeginTry, Read, ReadHeldByOther, ReadFails, Write,
         WriteConflicts, WriteFails, MissedDeadline, WorkerFailed, OnStopped,
         Fault, Stop, Start, vars
<1> USE <1>0 DEF StandbyInv, Stands, Covers
<1>1. CASE Tick
  BY <1>1 DEF Tick
<1>2. ASSUME NEW s \in Replica, BeginTry(s) PROVE StandbyInv'
  BY <1>2 DEF BeginTry, Awake, CallInv
<1>3. ASSUME NEW s \in Replica, Read(s) PROVE StandbyInv'
  BY <1>3 DEF Read, CallInv
<1>4. ASSUME NEW s \in Replica, ReadHeldByOther(s) PROVE StandbyInv'
  BY <1>4 DEF ReadHeldByOther, TryFails, Sleep, MayTake, Expired, CallInv
<1>5. ASSUME NEW s \in Replica, WriteConflicts(s) PROVE StandbyInv'
  BY <1>5 DEF WriteConflicts, TryFails, Sleep, CallInv, ConflictInv
<1>6. ASSUME NEW s \in Replica, Write(s) PROVE StandbyInv'
  <2>1. /\ lease'.holder = s /\ lease'.renew \in Nat
        /\ lease.holder # Nobody => lease.renew <= lease'.renew
    BY <1>6, LandingIsLater DEF Write
  <2>. QED
    BY <1>6, <2>1 DEF Write, Sleep
<1>7. ASSUME NEW s \in Replica,
             ReadFails(s) \/ WriteFails(s) \/ WorkerFailed(s)
      PROVE  StandbyInv'
  BY <1>7 DEF ReadFails, WriteFails, WorkerFailed, Fault
<1>8. ASSUME NEW s \in Replica, MissedDeadline(s) PROVE StandbyInv'
  BY <1>8 DEF MissedDeadline, OnStopped, Sleep
<1>9. ASSUME NEW s \in Replica, Stop(s) \/ Start(s) PROVE StandbyInv'
  BY <1>9 DEF Stop, Start, Sleep
<1>10. CASE UNCHANGED vars
  BY <1>10 DEF vars
<1>. QED
  BY <1>1, <1>2, <1>3, <1>4, <1>5, <1>6, <1>7, <1>8, <1>9, <1>10
     DEF Next, Elect

(* A standby and no failed call suffice for the Lease to be taken within a *)
(* retry and its calls of its expiry; conflicts between standbys included. *)
THEOREM LapseIsBounded == Spec => []LapseIsShort
<1>1. Init => LapseInv
  BY LeaseAssumption
  DEF Init, LapseInv, RenewInv, ConflictInv, StandbyInv, Stands, Clock
<1>2. TypeOK /\ ElectionInv /\ LapseInv /\ [Next]_vars => LapseInv'
  BY RenewStep, ConflictStep, StandbyStep DEF ElectionInv, LapseInv
<1>3. TypeOK /\ ElectionInv /\ LapseInv => LapseIsShort
  <2> SUFFICES ASSUME TypeOK, ElectionInv, LapseInv,
                      2 * CallSpan <= LeaseDuration, NEW r \in Replica,
                      Stands(r), faults = 0,
                      now > waiting[r] + RetryPeriod + 3 * CallSpan
               PROVE  Covers(now - RetryPeriod - 3 * CallSpan)
    BY LeaseAssumption DEF LapseIsShort, Covers, TypeOK
  <2>1. now <= due[r] /\ pc[r] \in {"asleep", "reading", "writing"}
    BY DEF ElectionInv, CallInv, Stands, TypeOK, Stages
  <2>. QED
    BY <2>1, LeaseAssumption DEF LapseInv, StandbyInv, Covers, TypeOK
<1>. QED
  BY <1>1, <1>2, <1>3, TypeCorrect, ElectionInvariant, PTL DEF Spec
=============================================================================
