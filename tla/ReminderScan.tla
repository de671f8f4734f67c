---------------------------- MODULE ReminderScan ----------------------------
(***************************************************************************)
(* TaskSchedulerService over time: every few minutes each running instance *)
(* looks for the tasks due within the hour and adds a reminder for each,   *)
(* under a job id made of the task and the hour of the clock.              *)
(*                                                                         *)
(* A scan may start at any time, or not at all while an instance is down;  *)
(* scans of several instances interleave with each other and with changes  *)
(* of the tasks.  Ids are taken to stay known to the queue: what follows   *)
(* when it forgets them is in NotificationQueue.                           *)
(***************************************************************************)
EXTENDS Integers, FiniteSets

CONSTANTS Tasks, Users,
          Scans,        \* scans that can be under way at a time
          DueTimes,     \* bound: the due dates tasks can have
          Hour,         \* ticks of the clock in an hour
          MaxTime,      \* bound: the last tick
          MaxChanges,   \* bound: changes of tasks
          Null

ASSUME ScanAssumption ==
  /\ Hour \in Nat \ {0} /\ MaxTime \in Nat /\ MaxChanges \in Nat
  /\ DueTimes \subseteq Nat
  /\ Null \notin Users \cup DueTimes /\ Null \notin Nat /\ Null # {}

VARIABLES now,        \* the clock
          row,        \* the columns of each task the scan reads
          reminders,  \* the reminders the queue accepted
          from,       \* the time each scan read first; Null between scans
          todo,       \* the tasks it found and has yet to queue; Null before find
          since,      \* history: when each task last changed
          changes     \* history: how many changes there were

scans   == <<from, todo>>
history == <<since, changes>>
vars    == <<now, row, reminders, scans, history>>

(* open: status TODO or IN_PROGRESS, and not deleted. *)
Row == [assignee : Users \cup {Null}, due : DueTimes \cup {Null}, open : BOOLEAN]

(* The payload: the task, its assignee and due date as the scan found them. *)
Payload == [task : Tasks, assignee : Users, due : DueTimes]

(* A job, with the time its scan started. *)
Reminder == [task : Tasks, assignee : Users, due : DueTimes, scanned : 0 .. MaxTime]

(* hourWindow, the hour of the clock a scan started in. *)
HourOf(time) == time \div Hour

ScanTypeOK ==
  /\ now \in 0 .. MaxTime
  /\ row \in [Tasks -> Row]
  /\ reminders \subseteq Reminder
  /\ from \in [Scans -> 0 .. MaxTime \cup {Null}]
  /\ \A s \in Scans : from[s] # Null => from[s] <= now
  /\ DOMAIN todo = Scans
  /\ \A s \in Scans : todo[s] # Null => todo[s] \subseteq Payload /\ from[s] # Null
  /\ since \in [Tasks -> -1 .. now]
  /\ changes \in 0 .. MaxChanges

ScanInit ==
  /\ now = 0
  /\ row \in [Tasks -> Row]
  /\ reminders = {}
  /\ from = [s \in Scans |-> Null] /\ todo = [s \in Scans |-> Null]
  /\ since = [t \in Tasks |-> -1] /\ changes = 0

-----------------------------------------------------------------------------

Tick ==
  /\ now < MaxTime
  /\ now' = now + 1
  /\ UNCHANGED <<row, reminders, scans, history>>

(* A request creates, updates or deletes a task. *)
ChangeTask(t) ==
  /\ changes < MaxChanges
  /\ \E new \in Row \ {row[t]} : row' = [row EXCEPT ![t] = new]
  /\ since' = [since EXCEPT ![t] = now]
  /\ changes' = changes + 1
  /\ UNCHANGED <<now, reminders, scans>>

(* The cron fires on an instance, and the scan reads the clock. *)
ScanStart(s) ==
  /\ from[s] = Null
  /\ from' = [from EXCEPT ![s] = now]
  /\ UNCHANGED <<now, row, reminders, todo, history>>

(* Mutant: only tasks due in less than an hour. *)
InReachShort(time, due) == due # Null /\ time <= due /\ due < time + Hour

(* dueAt: Between(now, inOneHour), both ends included. *)
InReach(time, due) == due # Null /\ time <= due /\ due <= time + Hour

(* Mutant: no condition on the status. *)
DueSoonAnyStatus(time) ==
  {t \in Tasks : InReach(time, row[t].due) /\ row[t].assignee # Null}

(* The tasks find returns, with the filter on the assignee. *)
DueSoon(time) ==
  {t \in Tasks : InReach(time, row[t].due) /\ row[t].open /\ row[t].assignee # Null}

ScanFind(s) ==
  /\ from[s] # Null /\ todo[s] = Null
  /\ todo' = [todo EXCEPT ![s] =
       {[task |-> t, assignee |-> row[t].assignee, due |-> row[t].due] : t \in DueSoon(from[s])}]
  /\ UNCHANGED <<now, row, reminders, from, history>>

(* The queue has a job with the id due_reminder:{task}:{hour}. *)
Known(t, time) == \E r \in reminders : r.task = t /\ HourOf(r.scanned) = HourOf(time)

(* One turn of the loop: add, which the queue ignores if it knows the id. *)
ScanQueue(s) ==
  /\ todo[s] # Null
  /\ \E p \in todo[s] :
       /\ todo' = [todo EXCEPT ![s] = @ \ {p}]
       /\ reminders' =
            IF Known(p.task, from[s]) THEN reminders
            ELSE reminders \cup {[task |-> p.task, assignee |-> p.assignee, due |-> p.due,
                                  scanned |-> from[s]]}
  /\ UNCHANGED <<now, row, from, history>>

Stop(s) ==
  /\ from' = [from EXCEPT ![s] = Null]
  /\ todo' = [todo EXCEPT ![s] = Null]

ScanEnd(s) ==
  /\ todo[s] = {}
  /\ Stop(s)
  /\ UNCHANGED <<now, row, reminders, history>>

(* find or an add rejects, or the instance dies; nothing is retried. *)
ScanAbort(s) ==
  /\ from[s] # Null
  /\ Stop(s)
  /\ UNCHANGED <<now, row, reminders, history>>

ScanStep(s) == ScanStart(s) \/ ScanFind(s) \/ ScanQueue(s) \/ ScanEnd(s) \/ ScanAbort(s)

ScanNext ==
  \/ Tick
  \/ \E t \in Tasks : ChangeTask(t)
  \/ \E s \in Scans : ScanStep(s)

ScanSpec == ScanInit /\ [][ScanNext]_vars

-----------------------------------------------------------------------------

(* Reminder r is about the task as it is. *)
Current(r) ==
  LET t == row[r.task] IN t.open /\ t.assignee = r.assignee /\ t.due = r.due

(***************************************************************************)
(* One scan that gets to its end within the hour before a task is due is   *)
(* enough: its assignee has a reminder, whatever happened to other scans.  *)
(* The exception is a task changed earlier in that hour of the clock and   *)
(* after a reminder: its id is taken, so the new assignee, or the new      *)
(* date, is not told of in that hour.                                      *)
(***************************************************************************)
RemindedInTime ==
  \A s \in Scans, t \in Tasks :
    /\ todo[s] = {}
    /\ since[t] < from[s]
    /\ row[t].open /\ row[t].assignee # Null /\ row[t].due \in from[s] .. from[s] + Hour
    => \E r \in reminders :
         /\ r.task = t
         /\ Current(r) \/ (HourOf(r.scanned) = HourOf(from[s]) /\ r.scanned <= since[t])

(***************************************************************************)
(* A reminder is wrong only if the task changed after its scan started:    *)
(* nobody is reminded of what was finished, or somebody else's, before.    *)
(***************************************************************************)
WrongOnlyIfChanged ==
  \A r \in reminders : since[r.task] < r.scanned => Current(r)

=============================================================================
