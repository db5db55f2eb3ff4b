------------------------------ MODULE Generator -------------------------------
(***************************************************************************)
(* The demo's load generator (generator.py, denycheck.py) over an emulator *)
(* that may restart and lose everything: minutes of traffic, put into      *)
(* CloudWatch Logs with retries once they have passed, except for roles    *)
(* that IAM keeps from invoking.                                           *)
(*                                                                         *)
(* A tick is a minute.  What engine.py makes of a minute is a set of roles *)
(* that have traffic in it; a minute is named by when it was, not by its   *)
(* number since the process began.                                         *)
(***************************************************************************)
EXTENDS Integers

CONSTANTS
  Role,
  Managed,      \* what attached managed policies may say of invoking
  Inline,       \* what inline policies may say of it
  MaxAttempts,  \* MAX_ATTEMPTS
  LastMinute,   \* bound: minutes
  MaxFaults     \* bound: calls that fail, restarts of emulator and generator

Effect == {"Allow", "Deny"}

ASSUME PolicyAssumption ==
  Managed \subseteq Effect /\ Inline \subseteq Effect /\ "Allow" \in Managed

ASSUME GeneratorAssumption ==
  /\ MaxAttempts \in Nat \ {0} /\ LastMinute \in Nat /\ MaxFaults \in Nat

VARIABLES
  now,        \* the minute that is passing
  group,      \* the emulator has the log group
  stream,     \* and in it the log stream
  roles,      \* the roles IAM has
  grants,     \* the policies of each that speak of invoking
  stage,      \* where the generator is
  attempt,    \* of the startup, or of the put
  next,       \* the first minute this process has not begun to emit
  due,        \* the minutes it set out to emit: those before this one
  unchecked,  \* roles with traffic in the minute at hand, not checked yet
  kept,       \* roles of it whose traffic is to be put
  reading,    \* the role whose policies are being read (as a set)
  docs,       \* what has been read of them
  owed,       \* history: traffic this process has neither put nor suppressed
  copies,     \* history: how often a role's traffic of a minute was put
  denied,     \* history: who is blocked by what since the minute was begun
  misjudged,  \* history: roles of this minute that could not be checked
  repeats,    \* history: puts that landed without an answer
  orphaned,   \* history: the startup has found no log group
  faults      \* counter under its bound

emulator == <<group, stream, roles, grants>>
cursor   == <<next, due>>
minute   == <<unchecked, kept, reading, docs>>
verdicts == <<denied, misjudged>>
history  == <<owed, copies, repeats, orphaned>>
vars == <<now, emulator, stage, attempt, cursor, minute, verdicts, history,
          faults>>

Stages == {"starting", "ready", "checking", "managedRead", "inlineListed",
           "putting", "recreating", "waiting", "exited"}
Minute == 0..LastMinute

(* A policy is told by where it stands and what it says; under one name it *)
(* always says the same.                                                   *)
ManagedPolicy == {"managed"} \X Managed
InlinePolicy  == {"inline"} \X Inline
Policy        == ManagedPolicy \cup InlinePolicy
Says(policies, effect) == \E p \in policies : p[2] = effect

(* Mutant: only an explicit Deny blocks.                                   *)
Blocked_DenyOnly(policies) == Says(policies, "Deny")

(* role_is_blocked, of the documents it has read.                          *)
Blocked(policies) == Says(policies, "Deny") \/ ~Says(policies, "Allow")

(* What may keep a role from invoking: a Deny, or that no Allow is left.   *)
Cause == {p \in Policy : p[2] = "Deny"} \cup {<<"none", "Allow">>}
Blocks(cause, policies) ==
  IF cause \in Policy THEN cause \in policies ELSE ~Says(policies, "Allow")

(* The policy that lets a role invoke.                                     *)
BedrockInvokeAccess == <<"managed", "Allow">>

Init ==
  /\ now = 0 /\ group = TRUE /\ stream = FALSE
  /\ roles = Role /\ grants = [r \in Role |-> {BedrockInvokeAccess}]
  /\ stage = "starting" /\ attempt = 1 /\ next = 0 /\ due = 0
  /\ unchecked = {} /\ kept = {} /\ reading = {} /\ docs = {}
  /\ owed = {} /\ denied = {} /\ misjudged = {}
  /\ copies = [m \in Minute |-> [r \in Role |-> 0]]
  /\ repeats = 0 /\ orphaned = FALSE /\ faults = 0

-----------------------------------------------------------------------------
Fault == faults < MaxFaults /\ faults' = faults + 1

Tick ==
  /\ now < LastMinute /\ now' = now + 1
  /\ UNCHANGED <<emulator, stage, attempt, cursor, minute, verdicts, history,
                 faults>>

StillDenied == {d \in denied : Blocks(d[2], grants'[d[1]])}

(* The guard puts or deletes its Deny, another tool attaches or detaches.  *)
Grant(r, policy) ==
  /\ r \in roles
  /\ grants' = [grants EXCEPT ![r] = IF policy \in @ THEN @ \ {policy}
                                     ELSE @ \cup {policy}]
  /\ denied' = StillDenied
  /\ UNCHANGED <<now, group, stream, roles, stage, attempt, cursor, minute,
                 misjudged, history, faults>>

(* ministack restarts with nothing; roles come back by the seed only.      *)
Wipe ==
  /\ Fault /\ group' = FALSE /\ stream' = FALSE
  /\ roles' = {} /\ grants' = [r \in Role |-> {}] /\ denied' = {}
  /\ UNCHANGED <<now, stage, attempt, cursor, minute, misjudged, history>>

(* The seed runs again, where it has something to restore.                 *)
Seed ==
  /\ ~group \/ \E r \in Role : BedrockInvokeAccess \notin grants[r]
  /\ group' = TRUE /\ roles' = Role
  /\ grants' = [r \in Role |-> grants[r] \cup {BedrockInvokeAccess}]
  /\ denied' = StillDenied
  /\ UNCHANGED <<now, stream, stage, attempt, cursor, minute, misjudged,
                 history, faults>>

-----------------------------------------------------------------------------
(* An exception leaves main, and Compose starts the container again.       *)
Exits ==
  /\ stage' = "exited" /\ unchecked' = {} /\ kept' = {} /\ owed' = {}
  /\ reading' = {} /\ docs' = {} /\ denied' = {} /\ misjudged' = {}

GoesOn == UNCHANGED <<minute, verdicts, owed>>

(* Mutant: giving up is logged, and the loop goes on.                      *)
FailedAttempt_Quietly(retry) ==
  IF attempt = MaxAttempts
  THEN /\ stage' = "ready" /\ unchecked' = {} /\ kept' = {}
       /\ UNCHANGED <<attempt, reading, docs, verdicts, owed>>
  ELSE attempt' = attempt + 1 /\ stage' = retry /\ GoesOn

(* Mutant: one attempt more than there are.                                *)
FailedAttempt_OneMore(retry) ==
  IF attempt > MaxAttempts THEN Exits /\ UNCHANGED attempt
  ELSE attempt' = attempt + 1 /\ stage' = retry /\ GoesOn

(* An attempt has failed: another one after a pause, or the exception.     *)
FailedAttempt(retry) ==
  IF attempt = MaxAttempts THEN Exits /\ UNCHANGED attempt
  ELSE attempt' = attempt + 1 /\ stage' = retry /\ GoesOn

(* Mutant: a stream that is there already is an error like any other.      *)
EnsureStream_Fresh ==
  /\ stage = "starting" /\ group /\ ~stream /\ stream' = TRUE
  /\ stage' = "ready" /\ next' = now /\ due' = now
  /\ UNCHANGED <<now, group, roles, grants, attempt, minute, verdicts,
                 history, faults>>

(* _ensure_stream at the startup: it needs the group, and makes none.      *)
EnsureStream ==
  /\ stage = "starting" /\ group /\ stream' = TRUE
  /\ stage' = "ready" /\ next' = now /\ due' = now
  /\ UNCHANGED <<now, group, roles, grants, attempt, minute, verdicts,
                 history, faults>>

StartupFails ==
  /\ stage = "starting" /\ FailedAttempt("starting")
  /\ \/ ~group /\ orphaned' = TRUE /\ UNCHANGED faults
     \/ Fault /\ UNCHANGED orphaned
  /\ UNCHANGED <<now, emulator, cursor, copies, repeats>>

(* Mutant: the minute that is passing is emitted too.                      *)
Completed_Passing == now + 1

(* Minutes strictly before the current one.                                *)
Completed == now

(* The outer loop, every few seconds.                                      *)
Look ==
  /\ stage = "ready" /\ next = due /\ due' = Completed
  /\ UNCHANGED <<now, emulator, stage, attempt, next, minute, verdicts,
                 history, faults>>

MoreDue == next < due

BeginMinute(busy) ==
  /\ stage = "ready" /\ MoreDue /\ next' = next + 1
  /\ unchecked' = busy /\ kept' = {} /\ attempt' = 1 /\ misjudged' = {}
  /\ denied' = {d \in (busy \cap roles) \X Cause : Blocks(d[2], grants[d[1]])}
  /\ owed' = owed \cup busy
  /\ stage' = IF busy = {} THEN "ready" ELSE "checking"
  /\ UNCHANGED <<now, emulator, due, reading, docs, copies, repeats, orphaned,
                 faults>>

(* role_is_blocked reads a role's policies one call after the other: first *)
(* the managed ones attached to it,                                        *)
ReadManaged(r) ==
  /\ stage = "checking" /\ r \in unchecked /\ r \in roles
  /\ reading' = {r} /\ docs' = grants[r] \cap ManagedPolicy
  /\ stage' = "managedRead"
  /\ UNCHANGED <<now, emulator, attempt, cursor, unchecked, kept, verdicts,
                 history, faults>>

(* then the names of the inline ones,                                      *)
ListInline(r) ==
  /\ stage = "managedRead" /\ r \in reading /\ r \in roles
  /\ docs' = docs \cup (grants[r] \cap InlinePolicy)
  /\ stage' = "inlineListed"
  /\ UNCHANGED <<now, emulator, attempt, cursor, unchecked, kept, reading,
                 verdicts, history, faults>>

Checked(r) ==
  /\ unchecked' = unchecked \ {r} /\ reading' = {} /\ docs' = {}
  /\ stage' = "checking"
  /\ UNCHANGED <<now, emulator, attempt, cursor, denied, copies, repeats,
                 orphaned>>

(* then each of those, while they are there; and it judges what it read.   *)
Judge(r) ==
  /\ stage = "inlineListed" /\ r \in reading
  /\ docs \cap InlinePolicy \subseteq grants[r]
  /\ IF Blocked(docs) THEN owed' = owed \ {r} /\ UNCHANGED kept
     ELSE kept' = kept \cup {r} /\ UNCHANGED owed
  /\ Checked(r) /\ UNCHANGED <<misjudged, faults>>

(* Something the next call asks for is gone: the role, a managed policy    *)
(* that was detached and deleted, an inline policy that was listed.        *)
Gone(r) ==
  \/ stage = "checking" /\ r \in unchecked \ roles
  \/ stage = "managedRead" /\ r \in reading
       /\ (r \notin roles \/ ~(docs \subseteq grants[r]))
  \/ stage = "inlineListed" /\ r \in reading
       /\ ~(docs \cap InlinePolicy \subseteq grants[r])

(* A role whose policies cannot be read counts as not blocked.             *)
CheckFails(r) ==
  /\ \/ Gone(r) /\ UNCHANGED faults
     \/ stage = "checking" /\ r \in unchecked /\ Fault
     \/ stage \in {"managedRead", "inlineListed"} /\ r \in reading /\ Fault
  /\ kept' = kept \cup {r} /\ misjudged' = misjudged \cup {r}
  /\ Checked(r) /\ UNCHANGED owed

EndChecks ==
  /\ stage = "checking" /\ unchecked = {}
  /\ stage' = IF kept = {} THEN "ready" ELSE "putting"
  /\ UNCHANGED <<now, emulator, attempt, cursor, minute, verdicts, history,
                 faults>>

Lands ==
  /\ stage = "putting" /\ stream
  /\ copies' = [copies EXCEPT ![next - 1] =
                  [r \in Role |-> IF r \in kept THEN @[r] + 1 ELSE @[r]]]

Put ==
  /\ Lands /\ stage' = "ready" /\ owed' = owed \ kept
  /\ UNCHANGED <<now, emulator, attempt, cursor, minute, verdicts, repeats,
                 orphaned, faults>>

(* The answer is lost: the client library sends the batch once more, or    *)
(* the attempt has failed.                                                 *)
AnswerLost ==
  /\ Lands /\ Fault /\ repeats' = repeats + 1
  /\ \/ UNCHANGED <<stage, attempt>> /\ GoesOn
     \/ FailedAttempt("waiting")
  /\ UNCHANGED <<now, emulator, cursor, orphaned>>

PutFails ==
  /\ stage = "putting" /\ Fault /\ FailedAttempt("waiting")
  /\ UNCHANGED <<now, emulator, cursor, copies, repeats, orphaned>>

(* ResourceNotFoundException.                                              *)
NoStream ==
  /\ stage = "putting" /\ ~stream /\ stage' = "recreating"
  /\ UNCHANGED <<now, emulator, attempt, cursor, minute, verdicts, history,
                 faults>>

(* create_log_group and _ensure_stream, within the except clause.          *)
Recreate ==
  /\ stage = "recreating" /\ FailedAttempt("waiting")
  /\ group' = TRUE /\ stream' = TRUE
  /\ UNCHANGED <<now, roles, grants, cursor, copies, repeats, orphaned, faults>>

(* What either call raises is caught by nobody.                            *)
RecreateFails ==
  /\ stage = "recreating" /\ Fault /\ Exits
  /\ group' \in {group, TRUE}
  /\ UNCHANGED <<now, stream, roles, grants, attempt, cursor, copies, repeats,
                 orphaned>>

Retry ==
  /\ stage = "waiting" /\ stage' = "putting"
  /\ UNCHANGED <<now, emulator, attempt, cursor, minute, verdicts, history,
                 faults>>

Kill ==
  /\ stage # "exited" /\ Fault /\ Exits
  /\ UNCHANGED <<now, emulator, attempt, cursor, copies, repeats, orphaned>>

Restart ==
  /\ stage = "exited" /\ stage' = "starting" /\ attempt' = 1
  /\ UNCHANGED <<now, emulator, cursor, minute, verdicts, history, faults>>

-----------------------------------------------------------------------------
Process ==
  \/ EnsureStream \/ StartupFails \/ Look
  \/ \E busy \in SUBSET Role : BeginMinute(busy)
  \/ \E r \in Role : ReadManaged(r) \/ ListInline(r) \/ Judge(r) \/ CheckFails(r)
  \/ EndChecks
  \/ Put \/ AnswerLost \/ PutFails \/ NoStream \/ Recreate \/ RecreateFails
  \/ Retry \/ Restart

Environment ==
  \/ Tick \/ Wipe \/ Seed \/ Kill
  \/ \E r \in Role, policy \in Policy : Grant(r, policy)

Next == Process \/ Environment

(* The process runs and is restarted.  Nothing is promised of the rest.    *)
Spec == Init /\ [][Next]_vars /\ WF_vars(Process)

-----------------------------------------------------------------------------
TypeOK ==
  /\ now \in Minute /\ group \in BOOLEAN /\ stream \in BOOLEAN
  /\ roles \subseteq Role /\ grants \in [Role -> SUBSET Policy]
  /\ stage \in Stages /\ attempt \in 1..MaxAttempts
  /\ next \in Minute /\ due \in Minute
  /\ unchecked \subseteq Role /\ kept \subseteq Role /\ owed \subseteq Role
  /\ reading \subseteq Role /\ docs \subseteq Policy
  /\ denied \subseteq Role \X Cause /\ misjudged \subseteq Role
  /\ copies \in [Minute -> [Role -> Nat]]
  /\ repeats \in 0..MaxFaults /\ orphaned \in BOOLEAN /\ faults \in 0..MaxFaults

(* Across retries, catching up and restarts, no traffic is logged before   *)
(* its minute has passed, and none twice, but for once per lost answer.    *)
LoggedOnce ==
  \A m \in Minute, r \in Role :
    /\ copies[m][r] > 0 => m < now
    /\ copies[m][r] <= 1 + repeats

(* While the process lives it goes to the next minute only when all of the *)
(* last one's traffic was put or suppressed.                               *)
MinutesAreAccounted == stage = "ready" => owed = {}

(* The traffic of a role that one and the same cause (its Deny, or that no *)
(* Allow was left) kept from invoking since the minute was begun is not    *)
(* put, whatever else changed between the reads of its policies and the    *)
(* attempts, unless a read failed.  One that was blocked all along, but by *)
(* one cause after the other, may be put: the reads are of several moments.*)
BlockedIsSuppressed ==
  [][\A m \in Minute, r \in Role :
       copies'[m][r] > copies[m][r] =>
         r \in misjudged \/ \A cause \in Cause : <<r, cause>> \notin denied]_vars

(* Every minute that passes while the process is up it comes to finish,    *)
(* with all of its traffic put or suppressed, unless an exception or a     *)
(* kill ends it first: then the minutes it still owed are never emitted.   *)
CatchesUp ==
  \A m \in 0..(LastMinute - 1) :
    (stage \notin {"starting", "exited"} /\ next <= m /\ m < now)
      ~> (stage = "exited" \/ (stage = "ready" /\ next > m /\ owed = {}))

(* Whatever fails, kills and emulator restarts included, the generator is  *)
(* again and again up with no passed minute left to begin, unless a        *)
(* startup once found the log group gone.                                  *)
ComesBack == [](~orphaned) => []<>(stage = "ready" /\ next = now)
=============================================================================
