--------------------------- MODULE GeneratorProofs ----------------------------
(***************************************************************************)
(* Proofs about Generator for all sets of roles, every number of minutes,  *)
(* attempts and failures, and every moment of a restart.                   *)
(***************************************************************************)
EXTENDS Generator, TLAPS

(* The minutes in hand are in the past, and lost answers are failures.     *)
CursorInv == next <= due /\ due <= now /\ repeats <= faults

(* What a step that gives up an attempt, or the process, leaves behind.    *)
LEMMA FailedAttemptResult ==
  ASSUME TypeOK, NEW retry \in Stages, FailedAttempt(retry)
  PROVE  /\ stage' \in {retry, "exited"} /\ attempt' \in 1..MaxAttempts
         /\ \/ stage' = "exited" /\ unchecked' = {} /\ kept' = {} /\ owed' = {}
               /\ reading' = {} /\ docs' = {} /\ denied' = {} /\ misjudged' = {}
            \/ stage' = retry /\ GoesOn
  BY GeneratorAssumption DEF TypeOK, FailedAttempt, Exits, GoesOn

(* A batch counts once more for each of its roles, and no other minute is  *)
(* touched.                                                                *)
LEMMA LandsOnce ==
  ASSUME TypeOK, Lands, next >= 1
  PROVE  /\ copies' \in [Minute -> [Role -> Nat]]
         /\ \A m \in Minute, r \in Role :
              copies'[m][r] = IF m = next - 1 /\ r \in kept
                              THEN copies[m][r] + 1 ELSE copies[m][r]
<1>1. next - 1 \in Minute
  BY GeneratorAssumption DEF TypeOK, Minute
<1>2. ASSUME NEW m \in Minute
      PROVE  copies'[m] = IF m = next - 1
                          THEN [r \in Role |-> IF r \in kept
                                               THEN copies[m][r] + 1
                                               ELSE copies[m][r]]
                          ELSE copies[m]
  BY <1>1 DEF TypeOK, Lands
<1>3. DOMAIN copies' = Minute /\ copies' = [m \in Minute |-> copies'[m]]
  BY <1>1 DEF TypeOK, Lands
<1>4. ASSUME NEW m \in Minute PROVE copies'[m] \in [Role -> Nat]
  <2>1. copies[m] \in [Role -> Nat]
    BY DEF TypeOK
  <2>2. CASE m = next - 1
    <3>1. \A r \in Role :
            (IF r \in kept THEN copies[m][r] + 1 ELSE copies[m][r]) \in Nat
      BY <2>1
    <3>2. copies'[m] = [r \in Role |-> IF r \in kept THEN copies[m][r] + 1
                                                    ELSE copies[m][r]]
      BY <1>2, <2>2
    <3>. QED
      BY <3>1, <3>2
  <2>3. CASE m # next - 1
    BY <1>2, <2>1, <2>3
  <2>. QED
    BY <2>2, <2>3
<1>. QED
  BY <1>2, <1>3, <1>4 DEF TypeOK

(* Stages in which a minute is at hand.                                    *)
Reading == {"managedRead", "inlineListed"}
AtHand  == {"checking", "putting", "recreating", "waiting"} \cup Reading

HandInv == stage \in AtHand => next >= 1

(* The seed's policy is one of those there are.                            *)
LEMMA AccessIsAPolicy == BedrockInvokeAccess \in Policy
  BY PolicyAssumption DEF BedrockInvokeAccess, Policy, ManagedPolicy

(* Every step of the generator and of its world keeps types and cursors.   *)
LEMMA TypeStep ==
  ASSUME TypeOK, CursorInv, HandInv, [Next]_vars
  PROVE  TypeOK' /\ CursorInv' /\ HandInv'
<1> USE GeneratorAssumption
    DEF TypeOK, CursorInv, HandInv, AtHand, Reading, Stages, Minute, emulator,
        cursor, minute, verdicts, history
<1> DEFINE Good == TypeOK' /\ CursorInv' /\ HandInv'
<1>1. CASE Tick
  BY <1>1 DEF Tick
<1>2. CASE Wipe
  <2>1. group' \in BOOLEAN /\ stream' \in BOOLEAN
    BY <1>2, Zenon DEF Wipe
  <2>. QED
    BY <1>2, <2>1 DEF Wipe, Fault
<1>3. CASE Seed
  <2>1. BedrockInvokeAccess \in Policy
    BY AccessIsAPolicy
  <2>. QED
    BY <1>3, <2>1 DEF Seed, StillDenied
<1>4. ASSUME NEW r \in Role, NEW policy \in Policy, Grant(r, policy)
      PROVE  Good
  BY <1>4 DEF Grant, StillDenied
<1>5. CASE EnsureStream
  BY <1>5 DEF EnsureStream
<1>6. CASE StartupFails
  <2>1. orphaned' \in BOOLEAN
    BY <1>6, Zenon DEF StartupFails
  <2>2. faults' \in {faults, faults + 1} /\ faults' \in 0..MaxFaults
    BY <1>6 DEF StartupFails, Fault
  <2>3. /\ stage' \in {"starting", "exited"} /\ attempt' \in 1..MaxAttempts
        /\ unchecked' \subseteq Role /\ kept' \subseteq Role
        /\ reading' \subseteq Role /\ docs' \subseteq Policy
        /\ owed' \subseteq Role /\ denied' \subseteq Role \X Cause
        /\ misjudged' \subseteq Role
    BY <1>6, FailedAttemptResult DEF StartupFails, GoesOn
  <2>. QED
    BY <1>6, <2>1, <2>2, <2>3 DEF StartupFails
<1>7. CASE Look
  BY <1>7 DEF Look, Completed
<1>8. ASSUME NEW busy \in SUBSET Role, BeginMinute(busy) PROVE Good
  BY <1>8 DEF BeginMinute, MoreDue
<1>9. ASSUME NEW r \in Role, ReadManaged(r) \/ ListInline(r) PROVE Good
  BY <1>9 DEF ReadManaged, ListInline, Policy
<1>20. ASSUME NEW r \in Role, Judge(r) PROVE Good
  BY <1>20 DEF Judge, Checked
<1>21. ASSUME NEW r \in Role, CheckFails(r) PROVE Good
  <2>1. faults' \in {faults, faults + 1} /\ faults' \in 0..MaxFaults
    BY <1>21 DEF CheckFails, Fault
  <2>2. stage \in {"checking", "managedRead", "inlineListed"}
    BY <1>21 DEF CheckFails, Gone
  <2>. QED
    BY <1>21, <2>1, <2>2 DEF CheckFails, Checked
<1>10. CASE EndChecks
  BY <1>10 DEF EndChecks
<1>11. CASE Put
  <2>1. copies' \in [Minute -> [Role -> Nat]]
    BY <1>11, LandsOnce DEF Put, Lands
  <2>. QED
    BY <1>11, <2>1 DEF Put
<1>12. CASE AnswerLost
  <2>1. copies' \in [Minute -> [Role -> Nat]]
    BY <1>12, LandsOnce DEF AnswerLost, Lands
  <2>. QED
    BY <1>12, <2>1, FailedAttemptResult DEF AnswerLost, Lands, Fault, GoesOn
<1>13. CASE PutFails
  BY <1>13, FailedAttemptResult DEF PutFails, Fault, GoesOn
<1>14. CASE NoStream \/ Retry
  BY <1>14 DEF NoStream, Retry
<1>15. CASE Recreate
  BY <1>15, FailedAttemptResult DEF Recreate, GoesOn
<1>16. CASE RecreateFails
  <2>1. group' \in BOOLEAN
    BY <1>16, Zenon DEF RecreateFails
  <2>. QED
    BY <1>16, <2>1 DEF RecreateFails, Fault, Exits
<1>17. CASE Kill
  BY <1>17 DEF Kill, Fault, Exits
<1>18. CASE Restart
  BY <1>18 DEF Restart
<1>19. CASE UNCHANGED vars
  BY <1>19 DEF vars
<1>. QED
  BY <1>1, <1>2, <1>3, <1>4, <1>5, <1>6, <1>7, <1>8, <1>9, <1>10, <1>11,
     <1>12, <1>13, <1>14, <1>15, <1>16, <1>17, <1>18, <1>19, <1>20, <1>21
     DEF Next, Process, Environment

(* Every variable keeps its type; among them the counters, which no number *)
(* of failures takes past their bounds, and minutes, which never exceed    *)
(* the clock's.                                                            *)
THEOREM TypeCorrect == Spec => [](TypeOK /\ CursorInv /\ HandInv)
<1>1. Init => TypeOK
  <2> SUFFICES ASSUME Init PROVE TypeOK
    OBVIOUS
  <2>1. group \in BOOLEAN /\ stream \in BOOLEAN /\ orphaned \in BOOLEAN
    BY Zenon DEF Init
  <2>2. [r \in Role |-> {BedrockInvokeAccess}] \in [Role -> SUBSET Policy]
    BY AccessIsAPolicy
  <2>. QED
    BY <2>1, <2>2, GeneratorAssumption DEF Init, TypeOK, Minute, Stages
<1>2. Init => CursorInv /\ HandInv
  BY DEF Init, CursorInv, HandInv, AtHand, Reading
<1>. QED
  BY <1>1, <1>2, TypeStep, PTL DEF Spec

-----------------------------------------------------------------------------
(* What this process owes of the minute at hand is traffic it has yet to   *)
(* check or to put; between minutes it owes nothing.                       *)
OwedInv ==
  /\ stage \in {"starting", "ready", "exited"} => owed = {}
  /\ stage \in {"checking"} \cup Reading => owed \subseteq unchecked \cup kept
  /\ stage \in {"putting", "recreating", "waiting"} => owed \subseteq kept

(* A minute not begun has not been put; the one at hand only by attempts   *)
(* whose answers were lost; every other one at most once more than that.   *)
CopiesInv ==
  \A m \in Minute, r \in Role :
    /\ m >= next => copies[m][r] = 0
    /\ stage \in AtHand /\ m = next - 1 => copies[m][r] <= repeats
    /\ copies[m][r] <= 1 + repeats

(* One role is read at a time.  What has been read of it holds every Deny  *)
(* that was there all along, and no Allow if there was none all along.     *)
ReadingInv ==
  /\ \A p, q \in reading : p = q
  /\ \A r \in reading, cause \in Cause :
       <<r, cause>> \in denied =>
         /\ stage \in Reading /\ cause \notin Policy => ~Says(docs, "Allow")
         /\ stage \in Reading /\ cause \in ManagedPolicy => cause \in docs
         /\ stage = "inlineListed" /\ cause \in InlinePolicy => cause \in docs

(* What blocked a role since the minute was begun still does; what is to   *)
(* be put is of no such role, unless a read of it failed.                  *)
DeniedInv ==
  /\ \A r \in Role, cause \in Cause :
       <<r, cause>> \in denied =>
         /\ Blocks(cause, grants[r])
         /\ r \in kept => r \in misjudged
  /\ ReadingInv

(* A cause that is a policy is a managed or an inline Deny.                *)
LEMMA CausesApart ==
  /\ ManagedPolicy \cap InlinePolicy = {}
  /\ \A cause \in Cause \cap Policy :
       cause[2] = "Deny" /\ cause \in ManagedPolicy \cup InlinePolicy
  BY DEF Cause, Policy, ManagedPolicy, InlinePolicy

(* A minute ends only when nothing of it is owed; a check or a put         *)
(* settles what it takes off.                                              *)
LEMMA OwedStep ==
  ASSUME TypeOK, OwedInv, [Next]_vars PROVE OwedInv'
<1> USE DEF TypeOK, OwedInv, Reading, Stages, emulator, cursor, minute,
            verdicts, history
<1>1. CASE StartupFails
  BY <1>1, FailedAttemptResult DEF StartupFails, GoesOn
<1>2. ASSUME NEW busy \in SUBSET Role, BeginMinute(busy) PROVE OwedInv'
  BY <1>2 DEF BeginMinute
<1>3. ASSUME NEW r \in Role,
             ReadManaged(r) \/ ListInline(r) \/ Judge(r) \/ CheckFails(r)
      PROVE  OwedInv'
  BY <1>3 DEF ReadManaged, ListInline, Judge, CheckFails, Checked, Gone
<1>4. CASE EndChecks
  BY <1>4 DEF EndChecks
<1>5. CASE Put
  BY <1>5 DEF Put, Lands
<1>6. CASE AnswerLost
  BY <1>6, FailedAttemptResult DEF AnswerLost, Lands, GoesOn
<1>7. CASE PutFails \/ Recreate
  BY <1>7, FailedAttemptResult DEF PutFails, Recreate, GoesOn
<1>8. CASE RecreateFails \/ Kill
  BY <1>8 DEF RecreateFails, Kill, Exits
<1>9. CASE EnsureStream \/ Look \/ NoStream \/ Retry \/ Restart
  BY <1>9 DEF EnsureStream, Look, NoStream, Retry, Restart
<1>10. CASE \/ Tick \/ Wipe \/ Seed
            \/ \E r \in Role, policy \in Policy : Grant(r, policy)
  BY <1>10 DEF Tick, Wipe, Seed, Grant
<1>11. CASE UNCHANGED vars
  BY <1>11 DEF vars
<1>. QED
  BY <1>1, <1>2, <1>3, <1>4, <1>5, <1>6, <1>7, <1>8, <1>9, <1>10, <1>11
     DEF Next, Process, Environment

(* A put adds a copy of the minute at hand only; a lost answer counts.     *)
LEMMA CopiesStep ==
  ASSUME TypeOK, CursorInv, HandInv, CopiesInv, [Next]_vars
  PROVE  CopiesInv'
<1> USE GeneratorAssumption
    DEF TypeOK, CursorInv, HandInv, CopiesInv, AtHand, Reading, Stages, Minute,
        emulator, cursor, minute, verdicts, history
<1>1. CASE StartupFails
  BY <1>1, FailedAttemptResult DEF StartupFails, GoesOn
<1>2. ASSUME NEW busy \in SUBSET Role, BeginMinute(busy) PROVE CopiesInv'
  BY <1>2 DEF BeginMinute
<1>3. ASSUME NEW r \in Role,
             ReadManaged(r) \/ ListInline(r) \/ Judge(r) \/ CheckFails(r)
      PROVE  CopiesInv'
  BY <1>3 DEF ReadManaged, ListInline, Judge, CheckFails, Checked, Gone
<1>4. CASE EndChecks
  BY <1>4 DEF EndChecks
<1>5. ASSUME NEW m \in Minute, NEW r \in Role, Lands, next >= 1
      PROVE  copies'[m][r] = IF m = next - 1 /\ r \in kept
                             THEN copies[m][r] + 1 ELSE copies[m][r]
  BY <1>5, LandsOnce
<1>6. CASE Put
  <2>1. Lands /\ next >= 1 /\ stage' = "ready" /\ UNCHANGED <<next, repeats>>
    BY <1>6 DEF Put, Lands
  <2>. QED
    BY <1>5, <2>1 DEF Lands
<1>7. CASE AnswerLost
  <2>1. Lands /\ next >= 1 /\ repeats' = repeats + 1 /\ next' = next
    BY <1>7 DEF AnswerLost, Lands
  <2>. QED
    BY <1>5, <2>1 DEF Lands
<1>8. CASE PutFails \/ Recreate
  BY <1>8, FailedAttemptResult DEF PutFails, Recreate, GoesOn
<1>9. CASE RecreateFails \/ Kill
  BY <1>9 DEF RecreateFails, Kill, Exits
<1>10. CASE EnsureStream \/ Look \/ NoStream \/ Retry \/ Restart
  BY <1>10 DEF EnsureStream, Look, NoStream, Retry, Restart
<1>11. CASE \/ Tick \/ Wipe \/ Seed
            \/ \E r \in Role, policy \in Policy : Grant(r, policy)
  <2>1. UNCHANGED <<stage, next, copies, repeats>>
    BY <1>11 DEF Tick, Wipe, Seed, Grant
  <2>. QED
    BY <2>1
<1>12. CASE UNCHANGED vars
  BY <1>12 DEF vars
<1>. QED
  BY <1>1, <1>2, <1>3, <1>4, <1>6, <1>7, <1>8, <1>9, <1>10, <1>11, <1>12
     DEF Next, Process, Environment

(* Who is let in again is no longer in denied; a verdict keeps no role     *)
(* that one cause blocked during all of its reads but for a failed one.    *)
LEMMA DeniedStep ==
  ASSUME TypeOK, DeniedInv, [Next]_vars PROVE DeniedInv'
<1> USE DEF DeniedInv, ReadingInv, Reading, emulator, cursor, minute,
            verdicts, history
<1>1. CASE StartupFails
  BY <1>1, FailedAttemptResult DEF StartupFails, GoesOn, Stages
<1>2. ASSUME NEW busy \in SUBSET Role, BeginMinute(busy) PROVE DeniedInv'
  BY <1>2 DEF BeginMinute
<1>3. ASSUME NEW r \in Role, ReadManaged(r) PROVE DeniedInv'
  <2>1. UNCHANGED <<denied, grants, kept, misjudged>>
    BY <1>3 DEF ReadManaged
  <2>2. ASSUME NEW cause \in Cause, <<r, cause>> \in denied'
        PROVE  /\ cause \notin Policy => ~Says(docs', "Allow")
               /\ cause \in ManagedPolicy => cause \in docs'
    <3>1. Blocks(cause, grants[r]) /\ docs' = grants[r] \cap ManagedPolicy
      BY <1>3, <2>1, <2>2 DEF ReadManaged
    <3>. QED
      BY <3>1 DEF Blocks, Says, Policy
  <2>. QED
    BY <1>3, <2>1, <2>2 DEF ReadManaged
<1>4. ASSUME NEW r \in Role, ListInline(r) PROVE DeniedInv'
  <2>1. UNCHANGED <<denied, grants, kept, misjudged, reading>>
    BY <1>4 DEF ListInline
  <2>2. ASSUME NEW q \in reading, NEW cause \in Cause, <<q, cause>> \in denied
        PROVE  /\ cause \notin Policy => ~Says(docs', "Allow")
               /\ cause \in ManagedPolicy \cup InlinePolicy => cause \in docs'
    <3>1. docs' = docs \cup (grants[r] \cap InlinePolicy) /\ q = r
      BY <1>4, <2>2 DEF ListInline
    <3>2. Blocks(cause, grants[r])
      BY <2>2, <3>1
    <3>3. /\ cause \notin Policy => ~Says(docs, "Allow")
          /\ cause \in ManagedPolicy => cause \in docs
      BY <1>4, <2>2 DEF ListInline
    <3>. QED
      BY <3>1, <3>2, <3>3 DEF Blocks, Says, Policy
  <2>. QED
    BY <1>4, <2>1, <2>2 DEF ListInline
<1>5. ASSUME NEW r \in Role, Judge(r) PROVE DeniedInv'
  BY <1>5, CausesApart DEF Judge, Checked, Blocked, Says
<1>6. ASSUME NEW r \in Role, CheckFails(r) PROVE DeniedInv'
  BY <1>6 DEF CheckFails, Checked
<1>7. ASSUME NEW r \in Role, NEW policy \in Policy, Grant(r, policy)
      PROVE  DeniedInv'
  BY <1>7 DEF Grant, StillDenied
<1>8. CASE Wipe
  BY <1>8 DEF Wipe
<1>9. CASE Seed
  BY <1>9 DEF Seed, StillDenied
<1>10. CASE AnswerLost
  BY <1>10, FailedAttemptResult DEF AnswerLost, Lands, GoesOn, Stages
<1>11. CASE PutFails \/ Recreate
  BY <1>11, FailedAttemptResult DEF PutFails, Recreate, GoesOn, Stages
<1>12. CASE RecreateFails \/ Kill
  BY <1>12 DEF RecreateFails, Kill, Exits
<1>13. CASE \/ EnsureStream \/ Look \/ EndChecks \/ Put \/ NoStream
            \/ Retry \/ Restart \/ Tick
  BY <1>13 DEF EnsureStream, Look, EndChecks, Put, Lands, NoStream, Retry,
               Restart, Tick
<1>14. CASE UNCHANGED vars
  BY <1>14 DEF vars
<1>. QED
  BY <1>1, <1>2, <1>3, <1>4, <1>5, <1>6, <1>7, <1>8, <1>9, <1>10, <1>11,
     <1>12, <1>13, <1>14 DEF Next, Process, Environment

GeneratorInv == OwedInv /\ CopiesInv /\ DeniedInv

(* What the process owes, what is logged and who is denied agree at every  *)
(* step of catching up, retrying, dying and starting again.                *)
THEOREM GeneratorInvariant == Spec => []GeneratorInv
<1>1. Init => GeneratorInv
  BY DEF Init, GeneratorInv, OwedInv, CopiesInv, DeniedInv, ReadingInv, AtHand,
         Reading
<1>2. TypeOK /\ CursorInv /\ HandInv /\ GeneratorInv /\ [Next]_vars
        => GeneratorInv'
  BY OwedStep, CopiesStep, DeniedStep DEF GeneratorInv
<1>. QED
  BY <1>1, <1>2, TypeCorrect, PTL DEF Spec

(* Traffic is logged once, after its minute, and once more for each lost   *)
(* answer at most, however the process retries, dies and starts again.     *)
THEOREM TrafficLoggedOnce == Spec => []LoggedOnce
<1>1. TypeOK /\ CursorInv /\ GeneratorInv => LoggedOnce
  BY DEF TypeOK, CursorInv, GeneratorInv, CopiesInv, LoggedOnce, Minute
<1>. QED
  BY <1>1, TypeCorrect, GeneratorInvariant, PTL

(* No minute is left before all of its traffic was put or suppressed,      *)
(* whichever attempts fail.                                                *)
THEOREM MinutesAreFinished == Spec => []MinutesAreAccounted
<1>1. GeneratorInv => MinutesAreAccounted
  BY DEF GeneratorInv, OwedInv, MinutesAreAccounted
<1>. QED
  BY <1>1, GeneratorInvariant, PTL

(* What a put logs is of no role that one cause blocked all along and that *)
(* could be checked, whatever changed between the reads of its policies.   *)
THEOREM DeniedRolesAreQuiet == Spec => BlockedIsSuppressed
<1>1. ASSUME TypeOK, HandInv, DeniedInv, [Next]_vars,
             NEW m \in Minute, NEW r \in Role, copies'[m][r] > copies[m][r]
      PROVE  r \in misjudged \/ \A cause \in Cause : <<r, cause>> \notin denied
  <2>1. copies[m][r] \in Nat
    BY <1>1 DEF TypeOK
  <2>2. copies' # copies
    BY <1>1, <2>1
  <2>3. Lands
    BY <1>1, <2>2
    DEF Next, Process, Environment, EnsureStream, StartupFails, Look,
        BeginMinute, ReadManaged, ListInline, Judge, CheckFails, Checked, EndChecks, Put, AnswerLost, PutFails, NoStream,
        Recreate, RecreateFails, Retry, Kill, Restart, Tick, Grant, Wipe, Seed,
        vars, history
  <2>4. r \in kept
    BY <1>1, <2>1, <2>3, LandsOnce DEF Lands, HandInv, AtHand
  <2>. QED
    BY <1>1, <2>4 DEF DeniedInv
<1>2. TypeOK /\ HandInv /\ DeniedInv /\ [Next]_vars =>
        [\A m \in Minute, r \in Role :
           copies'[m][r] > copies[m][r] =>
             r \in misjudged \/ \A cause \in Cause : <<r, cause>> \notin denied]_vars
  BY <1>1
<1>3. GeneratorInv => DeniedInv
  BY DEF GeneratorInv
<1>. QED
  BY <1>2, <1>3, TypeCorrect, GeneratorInvariant, PTL
  DEF Spec, BlockedIsSuppressed
=============================================================================
