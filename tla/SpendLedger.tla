---------------------------- MODULE SpendLedger ----------------------------
(***************************************************************************)
(* What budget-guard promises about spend, without windows, watermarks or  *)
(* seen ids: a ledger for one UTC day in which an event is priced once,    *)
(* a saved copy, and restarts that resume from the copy.  The one way an   *)
(* event is priced again is a copy torn while the process stopped: each    *)
(* tear admits one repetition.  LogIngest implements this specification.   *)
(***************************************************************************)
EXTENDS Integers

CONSTANTS
  Event,  \* what can be priced
  dayOf   \* dayOf[e]: the UTC day of e

VARIABLES
  up,      \* the process runs
  day,     \* the day of the ledger
  ledger,  \* how often each event is in the spend
  saved,   \* the copy: its day and its ledger
  tears    \* copies torn so far

vars == <<up, day, ledger, saved, tears>>

Empty == [e \in Event |-> 0]
Unset == -1

Init ==
  /\ up = FALSE /\ day = Unset /\ ledger = Empty
  /\ saved = [day |-> Unset, ledger |-> Empty]
  /\ tears = 0

(* SpendTracker.add_spend, guarded by already_seen and the day of the event *)
Price(e) ==
  /\ up /\ dayOf[e] = day
  /\ ledger[e] <= tears
  /\ ledger' = [ledger EXCEPT ![e] = @ + 1]
  /\ UNCHANGED <<up, day, saved, tears>>

(* SpendTracker.reset_for_new_day *)
NewDay ==
  /\ up /\ day' \in Int \ {day}
  /\ ledger' = Empty
  /\ UNCHANGED <<up, saved, tears>>

(* StateStore.save *)
Save ==
  /\ up
  /\ saved' = [day |-> day, ledger |-> ledger]
  /\ UNCHANGED <<up, day, ledger, tears>>

(* The process ends: killed, or after a last save that may be torn. *)
End ==
  /\ up /\ up' = FALSE
  /\ day' = Unset /\ ledger' = Empty
  /\ \/ UNCHANGED <<saved, tears>>
     \/ saved' = [day |-> day, ledger |-> ledger] /\ tears' \in {tears, tears + 1}

(* A start resumes a saved ledger of the same day; it begins with nothing  *)
(* on another day, or when the copy cannot be read.                        *)
Resume ==
  /\ ~up /\ up' = TRUE
  /\ day' \in Int
  /\ ledger' \in {Empty} \cup (IF saved.day = day' THEN {saved.ledger} ELSE {})
  /\ UNCHANGED <<saved, tears>>

Next ==
  \/ \E e \in Event : Price(e)
  \/ NewDay \/ Save \/ End \/ Resume

Spec == Init /\ [][Next]_vars
=============================================================================
