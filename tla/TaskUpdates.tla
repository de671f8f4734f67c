---------------------------- MODULE TaskUpdates ----------------------------
(***************************************************************************)
(* PATCH of a task's status and assignee (TasksService.update), with the   *)
(* activity rows and the queue jobs that report it, for one task of a      *)
(* workspace whose members come and go (Members).  A request is one action *)
(* per statement; requests interleave at each, and any of them may stop    *)
(* between two statements.                                                 *)
(*                                                                         *)
(* The URL of a patch names a workspace, a project and the task, but the   *)
(* task is looked up by itself and its project: the workspace can also be  *)
(* another one, whose members are not modelled.  The guard and update look *)
(* for members in the workspace of the URL, and file the activity rows and *)
(* the jobs under it.                                                      *)
(*                                                                         *)
(* Ids in a body are as the database spells them; that they need not be is *)
(* in Comments and Inbox.                                                  *)
(*                                                                         *)
(* Each patch is made once and is its own time stamp: two completions have *)
(* different times.  repo.save is as in TaskTree: a SELECT, then an UPDATE *)
(* of the columns in which the entity differs from the selected row, or an *)
(* INSERT.  The other columns, and TASK_UPDATED, which only reports them,  *)
(* are left out.                                                           *)
(***************************************************************************)
EXTENDS Members, Naturals, Sequences, FiniteSets

CONSTANTS NoUser,     \* assigneeId: null
          Patches,    \* bound: the requests that PATCH the task
          Statuses,   \* the values of TaskStatus
          Never,      \* completedAt: null
          Undefined   \* JavaScript undefined: the field is not in the body

ASSUME UpdatesAssumption ==
  /\ Creator \in Users /\ NoUser \notin Users
  /\ Never \notin Patches
  /\ "DONE" \in Statuses
  /\ Undefined \notin Statuses \cup Users \cup {NoUser}

VARIABLES task,       \* the row; kept when it is deleted
          alive,      \* whether it is in the table
          at,         \* the statement each patch executes next
          locals,     \* its local variables
          events,     \* the activity rows it recorded
          jobs,       \* the notification jobs it queued
          created,    \* history: the row that was created
          raced,      \* history: a patch ran next to another writer
          vouched     \* history: users a patch found in another workspace

patchVars == <<task, alive, at, locals, events, jobs, created, raced, vouched>>
team      == <<current, former>>
vars      == <<team, patchVars>>

Row == [status : Statuses, completedAt : Patches \cup {Never}, assignee : Users \cup {NoUser}]

Events == [type : {"STATUS_CHANGED", "COMPLETED", "ASSIGNED"},
           from : Statuses \cup Users \cup {NoUser},
           to   : Statuses \cup Users \cup {NoUser}]

Jobs == [name : {"task_assigned", "status_changed"}, recipient : Users]

BeforeWrite == {"check", "select", "write"}
AfterWrite  == {"record", "queueAssigned", "queueStatus"}
InFlight(x) == at[x] \in BeforeWrite \cup AfterWrite

(***************************************************************************)
(* status, assignee  the fields of dto                                     *)
(* prev              the row findById returned: prevStatus, prevAssigneeId *)
(* entity            the entity in memory                                  *)
(* base              the row save's SELECT returned, if any                *)
(* todo              the events not yet recorded                           *)
(***************************************************************************)
PatchLocals == [status : Statuses \cup {Undefined}, assignee : Users \cup {NoUser, Undefined},
                prev : Row, entity : Row, base : Row \cup {Undefined}, todo : Seq(Events)]

UpdatesTypeOK ==
  /\ current \subseteq former /\ former \subseteq Users
  /\ task \in Row /\ created \in Row
  /\ alive \in BOOLEAN /\ raced \in BOOLEAN /\ vouched \subseteq Users
  /\ at \in [Patches -> {"new", "rejected", "lost", "done"} \cup BeforeWrite \cup AfterWrite]
  /\ \A x \in Patches :
       /\ locals[x] \in IF InFlight(x) \/ at[x] = "lost" THEN PatchLocals ELSE {Undefined}
       /\ events[x] \subseteq Events /\ jobs[x] \subseteq Jobs

(* TasksService.create: any status, never a completion time, a member. *)
UpdatesInit ==
  /\ MembersInit
  /\ task \in {row \in Row : row.completedAt = Never
                               /\ row.assignee \in current \cup {NoUser}}
  /\ created = task
  /\ alive = TRUE
  /\ at = [x \in Patches |-> "new"]
  /\ locals = [x \in Patches |-> Undefined]
  /\ events = [x \in Patches |-> {}]
  /\ jobs = [x \in Patches |-> {}]
  /\ raced = FALSE /\ vouched = {}

-----------------------------------------------------------------------------

Continue(x, step) == at' = [at EXCEPT ![x] = step]

(* The handler returns or throws; its local variables are gone. *)
Finish(x, outcome) ==
  /\ Continue(x, outcome)
  /\ locals' = [locals EXCEPT ![x] = Undefined]

EditedAssignee(x, dto, row) == IF dto.assignee = Undefined THEN row.assignee ELSE dto.assignee

(* Mutant: a task that is reopened keeps its completion time. *)
EditedTimeKept(x, dto, row) == IF dto.status = "DONE" THEN x ELSE row.completedAt

EditedTime(x, dto, row) ==
  CASE dto.status = Undefined -> row.completedAt
    [] dto.status = "DONE"    -> x
    [] OTHER                  -> Never

(* The entity after the assignments of update. *)
Edited(x, dto, row) ==
  [status      |-> IF dto.status = Undefined THEN row.status ELSE dto.status,
   completedAt |-> EditedTime(x, dto, row),
   assignee    |-> EditedAssignee(x, dto, row)]

(* Mutant: the previous assignee is looked up in the entity after the edit. *)
AssigneeChangedLate(l) == l.assignee # Undefined /\ l.assignee # l.entity.assignee

AssigneeChanged(l) == l.assignee # Undefined /\ l.assignee # l.prev.assignee

(* Mutant: a change to DONE is only reported as TASK_COMPLETED. *)
StatusChangedUnlessDone(l) == l.status \notin {Undefined, l.prev.status, "DONE"}

StatusChanged(l) == l.status \notin {Undefined, l.prev.status}

Event(type, from, to) == <<[type |-> type, from |-> from, to |-> to]>>

EventsOf(l) ==
  LET status    == IF StatusChanged(l)
                   THEN Event("STATUS_CHANGED", l.prev.status, l.status) ELSE <<>>
      completed == IF StatusChanged(l) /\ l.status = "DONE"
                   THEN Event("COMPLETED", l.prev.status, l.status) ELSE <<>>
      assigned  == IF AssigneeChanged(l)
                   THEN Event("ASSIGNED", l.prev.assignee, l.assignee) ELSE <<>>
  IN  status \o completed \o assigned

(* The row the UPDATE of the differing columns makes of row. *)
Merged(entity, base, row) ==
  [c \in DOMAIN row |-> IF entity[c] = base[c] THEN row[c] ELSE entity[c]]

-----------------------------------------------------------------------------

(* findById, and the edits that need no further query. *)
PatchStart(x) ==
  /\ at[x] = "new" /\ alive
  /\ \E s \in Statuses \cup {Undefined}, a \in Users \cup {NoUser, Undefined} :
       /\ locals' = [locals EXCEPT ![x] =
            [status |-> s, assignee |-> a, prev |-> task, base |-> Undefined, todo |-> <<>>,
             entity |-> Edited(x, [status |-> s, assignee |-> a], task)]]
       /\ Continue(x, IF a \in Users THEN "check" ELSE "select")
  /\ raced' = (raced \/ \E y \in Patches : InFlight(y))
  /\ UNCHANGED <<task, alive, events, jobs, created, vouched>>

(* Mutant: any user may be the assignee. *)
PatchCheckNothing(x) ==
  /\ at[x] = "check"
  /\ Continue(x, "select")
  /\ UNCHANGED <<task, alive, locals, events, jobs, created, raced, vouched>>

(***************************************************************************)
(* Assignee must be a workspace member: of the workspace of the URL, be it *)
(* the task's own or another one, which may have this member or not.       *)
(***************************************************************************)
PatchCheck(x) ==
  /\ at[x] = "check"
  /\ LET u == locals[x].assignee
     IN  \E own, member \in BOOLEAN :
           /\ own => (member <=> u \in current)
           /\ vouched' = IF member /\ ~ own THEN vouched \cup {u} ELSE vouched
           /\ IF member THEN Continue(x, "select") /\ UNCHANGED locals
                        ELSE Finish(x, "rejected")
  /\ UNCHANGED <<task, alive, events, jobs, created, raced>>

PatchSelect(x) ==
  /\ at[x] = "select"
  /\ locals' = [locals EXCEPT ![x].base = IF alive THEN task ELSE Undefined]
  /\ Continue(x, "write")
  /\ UNCHANGED <<task, alive, events, jobs, created, raced, vouched>>

(***************************************************************************)
(* The INSERT fails when the row is back by now; the UPDATE of a row that  *)
(* is gone matches nothing, and the handler goes on.                       *)
(***************************************************************************)
PatchWrite(x) ==
  /\ at[x] = "write"
  /\ LET l      == locals[x]
         insert == l.base = Undefined
     IN  IF insert /\ alive
         THEN Finish(x, "rejected") /\ UNCHANGED <<task, alive>>
         ELSE /\ task' = CASE insert -> l.entity
                           [] ~ insert /\ alive -> Merged(l.entity, l.base, task)
                           [] OTHER -> task
              /\ alive' = (insert \/ alive)
              /\ locals' = [locals EXCEPT ![x].todo = EventsOf(l), ![x].base = Undefined]
              /\ Continue(x, "record")
  /\ UNCHANGED <<events, jobs, created, raced, vouched>>

(* activities.record, one INSERT per event. *)
PatchRecord(x) ==
  /\ at[x] = "record"
  /\ IF locals[x].todo = <<>>
     THEN /\ Continue(x, "queueAssigned")
          /\ UNCHANGED <<locals, events>>
     ELSE /\ events' = [events EXCEPT ![x] = @ \cup {Head(locals[x].todo)}]
          /\ locals' = [locals EXCEPT ![x].todo = Tail(@)]
          /\ UNCHANGED at
  /\ UNCHANGED <<task, alive, jobs, created, raced, vouched>>

(* queue.add(name), when there is a reason to. *)
Queue(x, reason, name, recipient) ==
  /\ jobs' = [jobs EXCEPT ![x] =
                IF reason THEN @ \cup {[name |-> name, recipient |-> recipient]} ELSE @]
  /\ UNCHANGED <<task, alive, events, created, raced, vouched>>

PatchQueueAssigned(x) ==
  /\ at[x] = "queueAssigned"
  /\ LET l == locals[x]
     IN  Queue(x, AssigneeChanged(l) /\ l.assignee # NoUser, "task_assigned", l.assignee)
  /\ Continue(x, "queueStatus") /\ UNCHANGED locals

PatchQueueStatus(x) ==
  /\ at[x] = "queueStatus"
  /\ LET l == locals[x]
     IN  Queue(x, StatusChanged(l) /\ l.entity.assignee # NoUser,
               "status_changed", l.entity.assignee)
  /\ Finish(x, "done")

(***************************************************************************)
(* Any await rejects, or the process dies: before the row was written, or  *)
(* after it, when what was still to be reported is lost.                   *)
(***************************************************************************)
PatchReject(x) ==
  /\ at[x] \in BeforeWrite
  /\ Finish(x, "rejected")
  /\ UNCHANGED <<task, alive, events, jobs, created, raced, vouched>>

PatchLose(x) ==
  /\ at[x] \in AfterWrite
  /\ Continue(x, "lost")
  /\ UNCHANGED <<task, alive, locals, events, jobs, created, raced, vouched>>

(* DELETE of the task. *)
Remove ==
  /\ alive
  /\ alive' = FALSE
  /\ raced' = (raced \/ \E y \in Patches : InFlight(y))
  /\ UNCHANGED <<task, at, locals, events, jobs, created, vouched>>

PatchStep(x) ==
  \/ PatchStart(x) \/ PatchCheck(x) \/ PatchSelect(x) \/ PatchWrite(x)
  \/ PatchRecord(x) \/ PatchQueueAssigned(x) \/ PatchQueueStatus(x)
  \/ PatchReject(x) \/ PatchLose(x)

UpdatesNext ==
  \/ ((\E x \in Patches : PatchStep(x)) \/ Remove) /\ UNCHANGED team
  \/ MembersNext /\ UNCHANGED patchVars

UpdatesSpec == UpdatesInit /\ [][UpdatesNext]_vars

-----------------------------------------------------------------------------

(***************************************************************************)
(* "Service methods additionally include `workspaceId` in every WHERE      *)
(* clause" (ARCHITECTURE.md:46): nobody is made the assignee who was never *)
(* a member of the task's workspace.                                       *)
(***************************************************************************)
AssigneeWasMember == task.assignee \in former \cup {NoUser}

(***************************************************************************)
(* Nobody else is but a user whom a patch that came under another work-    *)
(* space's URL found to be a member of that one, whatever stale entities   *)
(* are written back.  (A member who is removed stays the assignee:         *)
(* removeMember does not touch tasks.)                                     *)
(***************************************************************************)
AssigneeWasVouched == task.assignee \in former \cup vouched \cup {NoUser}

(***************************************************************************)
(* The assignee knows: who was not assigned at creation (create queues     *)
(* nothing) was sent task_assigned by a patch that made the assignment, or *)
(* such a patch is still to send it, or was lost after its write.          *)
(* Concurrent patches and write-backs never assign anybody silently.       *)
(***************************************************************************)
AssigneeNotified ==
  task.assignee \notin {NoUser, created.assignee} =>
    \E x \in Patches :
      \/ [name |-> "task_assigned", recipient |-> task.assignee] \in jobs[x]
      \/ /\ at[x] \in {"record", "queueAssigned", "lost"}
         /\ locals[x].assignee = task.assignee
         /\ locals[x].prev.assignee # task.assignee

(***************************************************************************)
(* As long as writers do not overlap, a task has a completion time only    *)
(* while it is DONE, and a task that became DONE has one: only a task      *)
(* created as DONE has none.  (Two overlapping writes of differing columns *)
(* can leave a completion time on an open task.)                           *)
(***************************************************************************)
StampedWhenDone ==
  ~ raced =>
    /\ task.completedAt # Never => task.status = "DONE"
    /\ task.status = "DONE" /\ task.completedAt = Never => created.status = "DONE"

(* The patches with an event of the type that goes from, or to, the value. *)
From(type, v) == {x \in Patches : \E e \in events[x] : e.type = type /\ e.from = v}
To(type, v)   == {x \in Patches : \E e \in events[x] : e.type = type /\ e.to = v}

(* The events lead from the value at creation to the value now. *)
Accounts(type, values, before, now) ==
  \A v \in values :
    Cardinality(To(type, v)) + (IF v = before THEN 1 ELSE 0) =
      Cardinality(From(type, v)) + (IF v = now THEN 1 ELSE 0)

(***************************************************************************)
(* The activity log accounts for the task: as long as writers do not       *)
(* overlap and none was lost, the recorded changes of status and of the    *)
(* assignee lead from the task as created to the task as it is, whichever  *)
(* workspaces they are filed under.                                        *)
(***************************************************************************)
LogAccounts ==
  ~ raced /\ (\A x \in Patches : ~ InFlight(x) /\ at[x] # "lost") =>
    /\ Accounts("STATUS_CHANGED", Statuses, created.status, task.status)
    /\ Accounts("ASSIGNED", Users \cup {NoUser}, created.assignee, task.assignee)

=============================================================================
