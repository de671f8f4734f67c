----------------------------- MODULE MCReminders -----------------------------
(***************************************************************************)
(* Small instances of ReminderScan and Inbox, the two ends of the path of  *)
(* a reminder, for one run of TLC.  Neither reads what the other writes,   *)
(* so each behaviour takes steps of one part only.                         *)
(***************************************************************************)
EXTENDS ReminderScan, Inbox, TLC

CONSTANTS c1, alice, ALICE, bob

Dates == {3, 4}

SignedIn == c1 :> alice

LowerCase == [u \in {alice, ALICE, bob} |-> IF u = ALICE THEN alice ELSE u]

VARIABLE part  \* the part that takes steps

RemindersInit ==
  /\ ScanInit /\ InboxInit
  /\ \/ part = "scan"
     \/ part = "inbox" /\ row = [t \in Tasks |-> [assignee |-> Null, due |-> Null, open |-> FALSE]]

(* Bound: of the notifications, one at most is for bob or spelt ALICE. *)
OneOther == Cardinality({n \in Ids : spelt[n] \in {ALICE, bob}}) <= 1

RemindersNext ==
  \/ part = "scan"  /\ ScanNext  /\ UNCHANGED <<part, inboxVars>>
  \/ part = "inbox" /\ InboxNext /\ OneOther' /\ UNCHANGED <<part, vars>>

RemindersSpec == RemindersInit /\ [][RemindersNext]_<<part, vars, inboxVars>>

(* The columns, jobs and locals of both keep their types. *)
RemindersTypeOK == ScanTypeOK /\ InboxTypeOK

(* Scans, rows and instances are interchangeable. *)
Symmetry == Permutations(Scans) \cup Permutations(Ids) \cup Permutations(Instances)

=============================================================================
