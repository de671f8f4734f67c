-------------------------- MODULE WorkspaceProofs --------------------------
(***************************************************************************)
(* What holds of a workspace for any users, projects, tasks, texts and     *)
(* number of requests in flight: of the patches of a task, whom it is      *)
(* given to and who is told, and, while no two patches overlap, what the   *)
(* completion time and the activity log say; of projects, that the guard   *)
(* keeps them to members; and of both side by side.                        *)
(***************************************************************************)
EXTENDS MCWorkspace, FiniteSetTheorems, TLAPS

(* What the UPDATE of save leaves in the columns.                          *)
LEMMA MergedRow ==
  ASSUME NEW entity \in Row, NEW base \in Row, NEW row \in Row
  PROVE  /\ Merged(entity, base, row) \in Row
         /\ Merged(entity, base, row).status =
              IF entity.status = base.status THEN row.status ELSE entity.status
         /\ Merged(entity, base, row).completedAt =
              IF entity.completedAt = base.completedAt
              THEN row.completedAt ELSE entity.completedAt
         /\ Merged(entity, base, row).assignee =
              IF entity.assignee = base.assignee THEN row.assignee ELSE entity.assignee
<1>1. DOMAIN row = {"status", "completedAt", "assignee"}
  BY DEF Row
<1>2. Merged(entity, base, row) =
        [c \in {"status", "completedAt", "assignee"} |->
           IF entity[c] = base[c] THEN row[c] ELSE entity[c]]
  BY <1>1 DEF Merged
<1>3. Merged(entity, base, row) =
        [status |-> IF entity.status = base.status THEN row.status ELSE entity.status,
         completedAt |-> IF entity.completedAt = base.completedAt
                         THEN row.completedAt ELSE entity.completedAt,
         assignee |-> IF entity.assignee = base.assignee
                      THEN row.assignee ELSE entity.assignee]
  BY <1>2
<1> QED
  BY <1>3 DEF Row

LEMMA EditedRow ==
  ASSUME NEW x \in Patches, NEW dto, dto.status \in Statuses \cup {Undefined},
         dto.assignee \in Users \cup {NoUser, Undefined}, NEW row \in Row
  PROVE  Edited(x, dto, row) \in Row
BY UpdatesAssumption DEF Edited, EditedTime, EditedAssignee, Row

LEMMA EventType ==
  ASSUME NEW type \in {"STATUS_CHANGED", "COMPLETED", "ASSIGNED"},
         NEW from \in Statuses \cup Users \cup {NoUser},
         NEW to \in Statuses \cup Users \cup {NoUser}
  PROVE  Event(type, from, to) \in Seq(Events)
<1>1. [type |-> type, from |-> from, to |-> to] \in Events
  BY DEF Events
<1> QED
  BY <1>1 DEF Event

(* The members of a sequence.                                              *)
Listed(s) == {s[i] : i \in 1..Len(s)}

LEMMA ListedFew == Listed(<<>>) = {} /\ \A e : Listed(<<e>>) = {e}
BY DEF Listed

LEMMA ListedConcat ==
  ASSUME NEW S, NEW s \in Seq(S), NEW t \in Seq(S)
  PROVE  Listed(s \o t) = Listed(s) \cup Listed(t)
<1>1. Listed(s \o t) \subseteq Listed(s) \cup Listed(t)
  BY DEF Listed
<1>2. Listed(s) \subseteq Listed(s \o t)
  BY DEF Listed
<1>3. ASSUME NEW i \in 1..Len(t) PROVE t[i] \in Listed(s \o t)
  <2>1. Len(s) + i \in 1..Len(s \o t) /\ (s \o t)[Len(s) + i] = t[i]
    OBVIOUS
  <2> QED
    BY <2>1 DEF Listed
<1> QED
  BY <1>1, <1>2, <1>3 DEF Listed

LEMMA ListedHead ==
  ASSUME NEW S, NEW s \in Seq(S), s # <<>>
  PROVE  /\ Head(s) \in S /\ Tail(s) \in Seq(S)
         /\ Listed(s) = {Head(s)} \cup Listed(Tail(s))
<1>1. Head(s) \in S /\ Tail(s) \in Seq(S)
  OBVIOUS
<1>2. Head(s) \in Listed(s)
  BY DEF Listed
<1>3. Listed(Tail(s)) \subseteq Listed(s)
  BY DEF Listed
<1>4. ASSUME NEW i \in 1..Len(s) PROVE s[i] \in {Head(s)} \cup Listed(Tail(s))
  <2>1. CASE i = 1
    BY <2>1
  <2>2. CASE i > 1
    <3>1. i - 1 \in 1..Len(Tail(s)) /\ Tail(s)[i - 1] = s[i]
      BY <2>2
    <3> QED
      BY <3>1 DEF Listed
  <2> QED
    BY <2>1, <2>2
<1> QED
  BY <1>1, <1>2, <1>3, <1>4 DEF Listed

(* What a patch reports, in whichever order.                               *)
LEMMA EventsListed ==
  ASSUME NEW l \in PatchLocals
  PROVE  /\ EventsOf(l) \in Seq(Events)
         /\ Listed(EventsOf(l)) =
           (IF StatusChanged(l)
            THEN {[type |-> "STATUS_CHANGED", from |-> l.prev.status, to |-> l.status]} ELSE {})
           \cup (IF StatusChanged(l) /\ l.status = "DONE"
                 THEN {[type |-> "COMPLETED", from |-> l.prev.status, to |-> l.status]} ELSE {})
           \cup (IF AssigneeChanged(l)
                 THEN {[type |-> "ASSIGNED", from |-> l.prev.assignee, to |-> l.assignee]} ELSE {})
<1> DEFINE status    == IF StatusChanged(l)
                        THEN Event("STATUS_CHANGED", l.prev.status, l.status) ELSE <<>>
           completed == IF StatusChanged(l) /\ l.status = "DONE"
                        THEN Event("COMPLETED", l.prev.status, l.status) ELSE <<>>
           assigned  == IF AssigneeChanged(l)
                        THEN Event("ASSIGNED", l.prev.assignee, l.assignee) ELSE <<>>
<1>1. /\ l.prev.status \in Statuses /\ l.prev.assignee \in Users \cup {NoUser}
      /\ StatusChanged(l) => l.status \in Statuses
      /\ AssigneeChanged(l) => l.assignee \in Users \cup {NoUser}
  BY DEF PatchLocals, Row, StatusChanged, AssigneeChanged
<1>2. status \in Seq(Events)
  BY <1>1, EventType
<1>3. completed \in Seq(Events)
  BY <1>1, EventType
<1>4. assigned \in Seq(Events)
  BY <1>1, EventType
<1>5. EventsOf(l) = status \o completed \o assigned
  BY DEF EventsOf
<1>6. /\ Listed(status) = IF StatusChanged(l)
         THEN {[type |-> "STATUS_CHANGED", from |-> l.prev.status, to |-> l.status]} ELSE {}
      /\ Listed(completed) = IF StatusChanged(l) /\ l.status = "DONE"
         THEN {[type |-> "COMPLETED", from |-> l.prev.status, to |-> l.status]} ELSE {}
      /\ Listed(assigned) = IF AssigneeChanged(l)
         THEN {[type |-> "ASSIGNED", from |-> l.prev.assignee, to |-> l.assignee]} ELSE {}
  BY ListedFew DEF Event
<1> HIDE DEF status, completed, assigned
<1>7. status \o completed \in Seq(Events) /\ EventsOf(l) \in Seq(Events)
  BY <1>2, <1>3, <1>4, <1>5
<1>8. Listed(EventsOf(l)) = Listed(status \o completed) \cup Listed(assigned)
  BY <1>4, <1>5, <1>7, ListedConcat
<1>9. Listed(status \o completed) = Listed(status) \cup Listed(completed)
  BY <1>2, <1>3, ListedConcat
<1> QED
  BY <1>6, <1>7, <1>8, <1>9

-----------------------------------------------------------------------------
(* The assignees somebody was told of, or needs not be told of.            *)
Sends(x, u) ==
  \/ [name |-> "task_assigned", recipient |-> u] \in jobs[x]
  \/ /\ at[x] \in {"record", "queueAssigned", "lost"}
     /\ locals[x].assignee = u /\ locals[x].prev.assignee # u

Known(u) == u \in {NoUser, created.assignee} \/ \E x \in Patches : Sends(x, u)

(* What a patch in flight holds: an assignee who is or was a member, here  *)
(* or in another workspace, and an entity whose assignee is known when it  *)
(* is written.                                                             *)
PatchSound(x) ==
  /\ at[x] = "check" => locals[x].assignee \in Users
  /\ at[x] \in {"select", "write"} =>
       locals[x].assignee \in former \cup vouched \cup {NoUser, Undefined}
  /\ at[x] \in BeforeWrite =>
       /\ locals[x].prev.assignee \in former \cup vouched \cup {NoUser}
       /\ Known(locals[x].prev.assignee)
       /\ locals[x].entity = Edited(x, locals[x], locals[x].prev)
       /\ locals[x].todo = <<>> /\ events[x] = {}
  /\ at[x] = "new" => events[x] = {}

PatchesInv ==
  /\ UpdatesTypeOK
  /\ locals = [x \in Patches |-> locals[x]]
  /\ events = [x \in Patches |-> events[x]]
  /\ jobs = [x \in Patches |-> jobs[x]]
  /\ task.assignee \in former \cup vouched \cup {NoUser}
  /\ Known(task.assignee)
  /\ \A x \in Patches : PatchSound(x)

Steps == {"new", "rejected", "lost", "done"} \cup BeforeWrite \cup AfterWrite

LEMMA PatchesInitInv == UpdatesInit => PatchesInv
<1> SUFFICES ASSUME UpdatesInit PROVE PatchesInv
  OBVIOUS
<1>1. UpdatesTypeOK
  BY UpdatesAssumption
     DEF UpdatesInit, UpdatesTypeOK, MembersInit, InFlight, BeforeWrite, AfterWrite
<1> QED
  BY <1>1 DEF UpdatesInit, PatchesInv, PatchSound, Known, BeforeWrite, MembersInit

(* A step of one patch that writes neither the row nor a job.              *)
LEMMA PatchesLocal ==
  ASSUME PatchesInv, NEW x \in Patches, NEW s \in Steps, NEW c, NEW es,
         UNCHANGED <<task, alive, jobs, created, team>>,
         raced' \in BOOLEAN, vouched \subseteq vouched', vouched' \subseteq Users,
         at' = [at EXCEPT ![x] = s], locals' = [locals EXCEPT ![x] = c],
         events' = [events EXCEPT ![x] = es], es \subseteq Events,
         c \in IF s \in BeforeWrite \cup AfterWrite \cup {"lost"} THEN PatchLocals ELSE {Undefined},
         at[x] \in {"record", "queueAssigned", "lost"} =>
           /\ s \in {"record", "queueAssigned", "lost"}
           /\ c.assignee = locals[x].assignee /\ c.prev = locals[x].prev,
         s = "check" => c.assignee \in Users,
         s \in {"select", "write"} =>
           c.assignee \in former \cup vouched' \cup {NoUser, Undefined},
         s \in BeforeWrite =>
           /\ c.prev.assignee \in former \cup vouched \cup {NoUser} /\ Known(c.prev.assignee)
           /\ c.entity = Edited(x, c, c.prev) /\ c.todo = <<>> /\ es = {},
         s # "new"
  PROVE  PatchesInv'
<1>1. /\ \A y \in Patches : y # x =>
           at'[y] = at[y] /\ locals'[y] = locals[y] /\ events'[y] = events[y]
      /\ at'[x] = s /\ locals'[x] = c /\ events'[x] = es
      /\ at' \in [Patches -> Steps]
  BY DEF PatchesInv, UpdatesTypeOK, Steps
<1>2. UpdatesTypeOK'
  BY <1>1 DEF PatchesInv, UpdatesTypeOK, InFlight, team, Steps
<1>3. \A u : \A y \in Patches : Sends(y, u) => Sends(y, u)'
  BY <1>1 DEF Sends
<1>4. \A u : Known(u) => Known(u)'
  BY <1>3 DEF Known
<1>5. ASSUME NEW y \in Patches PROVE PatchSound(y)'
  <2>1. CASE y = x
    BY <1>1, <1>4, <2>1 DEF PatchSound, team, BeforeWrite
  <2>2. CASE y # x
    BY <1>1, <1>4, <2>2 DEF PatchSound, team, PatchesInv
  <2> QED
    BY <2>1, <2>2
<1> QED
  BY <1>2, <1>4, <1>5 DEF PatchesInv, team

LEMMA PatchStartInv ==
  ASSUME PatchesInv, NEW x \in Patches, PatchStart(x), UNCHANGED team
  PROVE  PatchesInv'
<1> PICK s \in Statuses \cup {Undefined}, a \in Users \cup {NoUser, Undefined} :
      /\ locals' = [locals EXCEPT ![x] =
           [status |-> s, assignee |-> a, prev |-> task, base |-> Undefined, todo |-> <<>>,
            entity |-> Edited(x, [status |-> s, assignee |-> a], task)]]
      /\ Continue(x, IF a \in Users THEN "check" ELSE "select")
  BY DEF PatchStart
<1> DEFINE c == [status |-> s, assignee |-> a, prev |-> task, base |-> Undefined, todo |-> <<>>,
                 entity |-> Edited(x, [status |-> s, assignee |-> a], task)]
           step == IF a \in Users THEN "check" ELSE "select"
<1>1. task \in Row /\ at[x] = "new" /\ events[x] = {}
  BY DEF PatchStart, PatchesInv, UpdatesTypeOK, PatchSound
<1>2. c.entity \in Row
  BY <1>1, EditedRow
<1>3. c \in PatchLocals
  BY <1>1, <1>2 DEF PatchLocals
<1>4. c.entity = Edited(x, c, c.prev)
  BY DEF Edited, EditedTime, EditedAssignee
<1>5. /\ c.prev.assignee \in former \cup vouched \cup {NoUser} /\ Known(c.prev.assignee)
      /\ c.todo = <<>> /\ c.assignee = a /\ (a \notin Users => a \in {NoUser, Undefined})
  BY DEF PatchesInv
<1>6. step \in Steps /\ step \in {"check", "select"} /\ (step = "check" <=> a \in Users)
  BY DEF Steps, BeforeWrite
<1>7. raced' \in BOOLEAN /\ vouched' = vouched /\ vouched \subseteq Users
  BY DEF PatchStart, PatchesInv, UpdatesTypeOK
<1>8. events' = [events EXCEPT ![x] = {}] /\ UNCHANGED <<task, alive, jobs, created>>
  BY <1>1 DEF PatchStart, PatchesInv
<1>9. locals' = [locals EXCEPT ![x] = c] /\ at' = [at EXCEPT ![x] = step]
  BY DEF Continue
<1> HIDE DEF c, step
<1> QED
  BY <1>1, <1>3, <1>4, <1>5, <1>6, <1>7, <1>8, <1>9, PatchesLocal DEF BeforeWrite

(* The handler stops before its write, or after all of its reports.        *)
LEMMA FinishInv ==
  ASSUME PatchesInv, NEW x \in Patches, NEW outcome \in {"rejected", "done"},
         Finish(x, outcome),
         at[x] \in BeforeWrite,
         UNCHANGED <<team, task, alive, events, jobs, created, raced, vouched>>
  PROVE  PatchesInv'
<1>1. /\ events' = [events EXCEPT ![x] = events[x]] /\ events[x] \subseteq Events
      /\ vouched' = vouched /\ vouched \subseteq Users
  BY DEF PatchesInv, UpdatesTypeOK
<1>2. at' = [at EXCEPT ![x] = outcome] /\ locals' = [locals EXCEPT ![x] = Undefined]
  BY DEF Finish, Continue
<1>3. /\ outcome \in Steps /\ outcome \notin BeforeWrite \cup AfterWrite \cup {"lost", "new"}
      /\ at[x] \notin {"record", "queueAssigned", "lost"} /\ raced' \in BOOLEAN
  BY DEF Steps, BeforeWrite, AfterWrite, PatchesInv, UpdatesTypeOK
<1>4. outcome # "check" /\ outcome \notin {"select", "write"}
  OBVIOUS
<1> QED
  BY <1>1, <1>2, <1>3, <1>4, PatchesLocal

(* Whom a patch may have assigned is a member of the workspace of its URL. *)
LEMMA PatchCheckInv ==
  ASSUME PatchesInv, NEW x \in Patches, PatchCheck(x), UNCHANGED team
  PROVE  PatchesInv'
<1> PICK own \in BOOLEAN, member \in BOOLEAN :
      /\ own => (member <=> locals[x].assignee \in current)
      /\ vouched' = IF member /\ ~ own THEN vouched \cup {locals[x].assignee} ELSE vouched
      /\ IF member THEN Continue(x, "select") /\ UNCHANGED locals
                   ELSE Finish(x, "rejected")
  BY DEF PatchCheck
<1>1. CASE member
  <2>1. /\ locals' = [locals EXCEPT ![x] = locals[x]]
        /\ events' = [events EXCEPT ![x] = events[x]]
        /\ at' = [at EXCEPT ![x] = "select"] /\ at[x] = "check" /\ events[x] \subseteq Events
        /\ locals[x] \in PatchLocals /\ PatchSound(x)
    BY <1>1 DEF PatchCheck, PatchesInv, UpdatesTypeOK, Continue, InFlight, BeforeWrite
  <2>2. locals[x].assignee \in Users
    BY <2>1 DEF PatchSound
  <2>3. /\ vouched \subseteq vouched' /\ vouched' \subseteq Users
        /\ locals[x].assignee \in former \cup vouched'
    BY <1>1, <2>2 DEF PatchesInv, UpdatesTypeOK
  <2>4. raced' \in BOOLEAN /\ UNCHANGED <<task, alive, jobs, created>>
    BY DEF PatchCheck, PatchesInv, UpdatesTypeOK
  <2>5. /\ locals[x].prev.assignee \in former \cup vouched \cup {NoUser}
        /\ Known(locals[x].prev.assignee)
        /\ locals[x].entity = Edited(x, locals[x], locals[x].prev)
        /\ locals[x].todo = <<>> /\ events[x] = {}
    BY <2>1 DEF PatchSound, BeforeWrite
  <2>6. "select" \in Steps /\ "select" \in BeforeWrite
    BY DEF Steps, BeforeWrite
  <2> QED
    BY <2>1, <2>3, <2>4, <2>5, <2>6, PatchesLocal
<1>2. CASE ~ member
  BY <1>2, FinishInv DEF PatchCheck, BeforeWrite
<1> QED
  BY <1>1, <1>2

LEMMA PatchSelectInv ==
  ASSUME PatchesInv, NEW x \in Patches, PatchSelect(x), UNCHANGED team
  PROVE  PatchesInv'
<1> DEFINE l == locals[x]
           c == [l EXCEPT !.base = IF alive THEN task ELSE Undefined]
<1>1. /\ locals' = [locals EXCEPT ![x] = c] /\ events' = [events EXCEPT ![x] = events[x]]
      /\ at' = [at EXCEPT ![x] = "write"] /\ at[x] = "select" /\ events[x] \subseteq Events
      /\ l \in PatchLocals /\ PatchSound(x) /\ task \in Row
  BY DEF PatchSelect, PatchesInv, UpdatesTypeOK, Continue, InFlight, BeforeWrite
<1>2. c \in PatchLocals
  BY <1>1 DEF PatchLocals
<1>3. /\ c.assignee = l.assignee /\ c.status = l.status /\ c.prev = l.prev
      /\ c.entity = l.entity /\ c.todo = l.todo
  BY <1>1 DEF PatchLocals
<1>4. c.entity = Edited(x, c, c.prev)
  BY <1>1, <1>3 DEF PatchSound, Edited, EditedTime, EditedAssignee, BeforeWrite
<1>5. /\ c.assignee \in former \cup vouched \cup {NoUser, Undefined}
      /\ c.todo = <<>> /\ events[x] = {}
      /\ c.prev.assignee \in former \cup vouched \cup {NoUser} /\ Known(c.prev.assignee)
  BY <1>1, <1>3 DEF PatchSound, BeforeWrite
<1>6. /\ "write" \in Steps /\ "write" \in BeforeWrite /\ raced' \in BOOLEAN
      /\ vouched' = vouched /\ vouched \subseteq Users
  BY DEF PatchSelect, Steps, BeforeWrite, PatchesInv, UpdatesTypeOK
<1> HIDE DEF c, l
<1> QED
  BY <1>1, <1>2, <1>4, <1>5, <1>6, PatchesLocal DEF PatchSelect

LEMMA PatchRecordInv ==
  ASSUME PatchesInv, NEW x \in Patches, PatchRecord(x), UNCHANGED team
  PROVE  PatchesInv'
<1>1. /\ at[x] = "record" /\ events[x] \subseteq Events /\ locals[x] \in PatchLocals
      /\ at = [at EXCEPT ![x] = "record"]
  BY DEF PatchRecord, PatchesInv, UpdatesTypeOK, InFlight, AfterWrite
<1>2. CASE locals[x].todo = <<>>
  <2>1. /\ locals' = [locals EXCEPT ![x] = locals[x]]
        /\ events' = [events EXCEPT ![x] = events[x]]
        /\ at' = [at EXCEPT ![x] = "queueAssigned"]
    BY <1>2 DEF PatchRecord, PatchesInv, Continue
  <2> QED
    BY <1>1, <2>1, PatchesLocal
       DEF PatchRecord, Steps, BeforeWrite, AfterWrite, PatchesInv, UpdatesTypeOK
<1>3. CASE locals[x].todo # <<>>
  <2> DEFINE l == locals[x]
             c == [l EXCEPT !.todo = Tail(l.todo)]
             es == events[x] \cup {Head(l.todo)}
  <2>1. /\ locals' = [locals EXCEPT ![x] = c] /\ events' = [events EXCEPT ![x] = es]
        /\ at' = [at EXCEPT ![x] = "record"]
    BY <1>1, <1>3 DEF PatchRecord, PatchesInv
  <2>2. l.todo \in Seq(Events)
    BY <1>1 DEF PatchLocals
  <2>3. Head(l.todo) \in Events /\ Tail(l.todo) \in Seq(Events)
    BY <1>3, <2>2
  <2>4. c \in PatchLocals /\ c.assignee = l.assignee /\ c.prev = l.prev
    BY <1>1, <2>3 DEF PatchLocals
  <2>5. es \subseteq Events
    BY <1>1, <2>3
  <2> HIDE DEF c, es
  <2> QED
    BY <1>1, <2>1, <2>4, <2>5, PatchesLocal
       DEF PatchRecord, Steps, BeforeWrite, AfterWrite, PatchesInv, UpdatesTypeOK
<1> QED
  BY <1>2, <1>3

LEMMA PatchRejectInv ==
  ASSUME PatchesInv, NEW x \in Patches, PatchReject(x), UNCHANGED team
  PROVE  PatchesInv'
BY FinishInv DEF PatchReject

LEMMA PatchLoseInv ==
  ASSUME PatchesInv, NEW x \in Patches, PatchLose(x), UNCHANGED team
  PROVE  PatchesInv'
<1>1. /\ at' = [at EXCEPT ![x] = "lost"] /\ locals' = [locals EXCEPT ![x] = locals[x]]
      /\ events' = [events EXCEPT ![x] = events[x]] /\ events[x] \subseteq Events
      /\ locals[x] \in PatchLocals /\ raced' \in BOOLEAN
      /\ vouched' = vouched /\ vouched \subseteq Users
  BY DEF PatchLose, PatchesInv, UpdatesTypeOK, Continue, InFlight
<1>2. "lost" \in Steps /\ "lost" \notin BeforeWrite
  BY DEF Steps, BeforeWrite
<1> QED
  BY <1>1, <1>2, PatchesLocal DEF PatchLose

(* The write makes nobody the assignee but one who was a member, and whom  *)
(* this patch or an earlier one tells.                                     *)
LEMMA PatchWriteInv ==
  ASSUME PatchesInv, NEW x \in Patches, PatchWrite(x), UNCHANGED team
  PROVE  PatchesInv'
<1> PICK l : l = locals[x]
  OBVIOUS
<1> DEFINE insert == l.base = Undefined
           c      == [l EXCEPT !.todo = EventsOf(l), !.base = Undefined]
<1>1. /\ at[x] = "write" /\ l \in PatchLocals /\ PatchSound(x) /\ task \in Row
      /\ events[x] \subseteq Events
      /\ UNCHANGED <<events, jobs, created, raced, vouched>>
  BY DEF PatchWrite, PatchesInv, UpdatesTypeOK, InFlight, BeforeWrite
<1>2. CASE insert /\ alive
  BY <1>1, <1>2, FinishInv DEF PatchWrite, BeforeWrite
<1>3. CASE ~ (insert /\ alive)
  <2>1. /\ task' = CASE insert -> l.entity
                      [] ~ insert /\ alive -> Merged(l.entity, l.base, task)
                      [] OTHER -> task
        /\ alive' = (insert \/ alive)
        /\ locals' = [locals EXCEPT ![x] = c]
        /\ at' = [at EXCEPT ![x] = "record"]
    BY <1>3 DEF PatchWrite, Continue
  <2>2. EventsOf(l) \in Seq(Events)
    BY <1>1, EventsListed
  <2>3. /\ c \in PatchLocals /\ c.assignee = l.assignee /\ c.prev = l.prev
        /\ c.todo = EventsOf(l)
    BY <1>1, <2>2 DEF PatchLocals
  <2> HIDE DEF c
  <2>4. /\ \A y \in Patches : y # x => at'[y] = at[y] /\ locals'[y] = locals[y]
        /\ at'[x] = "record" /\ locals'[x] = c /\ at' \in [Patches -> Steps]
        /\ locals' = [y \in Patches |-> locals'[y]]
    BY <2>1 DEF PatchesInv, UpdatesTypeOK, Steps, AfterWrite
  <2>5. \A u : \A y \in Patches : Sends(y, u) => Sends(y, u)'
    BY <1>1, <2>4 DEF Sends
  <2>6. \A u : Known(u) => Known(u)'
    BY <1>1, <2>5 DEF Known
  <2>7. task' \in Row /\ task'.assignee \in {task.assignee, l.entity.assignee}
    <3>1. l.entity \in Row /\ (~ insert => l.base \in Row)
      BY <1>1 DEF PatchLocals
    <3> QED
      BY <1>1, <2>1, <3>1, MergedRow
  <2>8. l.entity.assignee = EditedAssignee(x, l, l.prev)
    BY <1>1 DEF PatchSound, BeforeWrite, Edited
  <2>9. l.entity.assignee \in former \cup vouched \cup {NoUser} /\ Known(l.entity.assignee)'
    <3>1. CASE l.assignee \in {Undefined, l.prev.assignee}
      BY <1>1, <2>6, <2>8, <3>1 DEF PatchSound, BeforeWrite, EditedAssignee
    <3>2. CASE l.assignee \notin {Undefined, l.prev.assignee}
      <4>1. l.entity.assignee = l.assignee /\ l.assignee \in former \cup vouched \cup {NoUser}
        BY <1>1, <2>8, <3>2 DEF EditedAssignee, PatchSound
      <4>2. Sends(x, l.assignee)'
        BY <2>3, <2>4, <3>2 DEF Sends
      <4> QED
        BY <4>1, <4>2 DEF Known
    <3> QED
      BY <3>1, <3>2
  <2>10. task'.assignee \in former' \cup vouched' \cup {NoUser} /\ Known(task.assignee)'
    BY <1>1, <2>6, <2>7, <2>9 DEF PatchesInv, team
  <2>11. UpdatesTypeOK'
    <3>1. alive' \in BOOLEAN
      BY <2>1 DEF PatchesInv, UpdatesTypeOK
    <3>2. \A y \in Patches : locals'[y] \in IF InFlight(y)' \/ at'[y] = "lost"
                                           THEN PatchLocals ELSE {Undefined}
      BY <2>3, <2>4 DEF PatchesInv, UpdatesTypeOK, InFlight, AfterWrite
    <3> QED
      BY <1>1, <2>4, <2>7, <3>1, <3>2 DEF PatchesInv, UpdatesTypeOK, team, Steps
  <2>12. ASSUME NEW y \in Patches PROVE PatchSound(y)'
    <3>1. CASE y = x
      BY <2>4, <3>1 DEF PatchSound, BeforeWrite
    <3>2. CASE y # x
      BY <1>1, <2>4, <2>6, <3>2 DEF PatchSound, team, PatchesInv
    <3> QED
      BY <3>1, <3>2
  <2> QED
    BY <1>1, <2>4, <2>10, <2>11, <2>12 DEF PatchesInv
<1> QED
  BY <1>2, <1>3

(* What a job is queued for stays reported.                                *)
LEMMA PatchesQueue ==
  ASSUME PatchesInv, NEW x \in Patches, NEW js, NEW c, NEW s \in Steps,
         UNCHANGED <<task, alive, events, created, raced, vouched, team>>,
         at' = [at EXCEPT ![x] = s], locals' = [locals EXCEPT ![x] = c],
         jobs' = [jobs EXCEPT ![x] = js], jobs[x] \subseteq js, js \subseteq Jobs,
         \/ /\ at[x] = "queueAssigned" /\ s = "queueStatus" /\ c = locals[x]
            /\ locals[x].assignee \in Users /\ locals[x].prev.assignee # locals[x].assignee =>
                 [name |-> "task_assigned", recipient |-> locals[x].assignee] \in js
         \/ at[x] = "queueStatus" /\ s = "done" /\ c = Undefined
  PROVE  PatchesInv'
<1>1. /\ \A y \in Patches : y # x => at'[y] = at[y] /\ locals'[y] = locals[y] /\ jobs'[y] = jobs[y]
      /\ at'[x] = s /\ locals'[x] = c /\ jobs'[x] = js
      /\ at' \in [Patches -> Steps]
  BY DEF PatchesInv, UpdatesTypeOK, Steps
<1>2. UpdatesTypeOK'
  <2>1. c \in IF s \in BeforeWrite \cup AfterWrite \cup {"lost"} THEN PatchLocals ELSE {Undefined}
    BY DEF PatchesInv, UpdatesTypeOK, InFlight, BeforeWrite, AfterWrite
  <2> QED
    BY <1>1, <2>1 DEF PatchesInv, UpdatesTypeOK, InFlight, team, Steps
<1>3. \A y \in Patches, u \in Users : Sends(y, u) => Sends(y, u)'
  BY <1>1 DEF Sends
<1>4. \A u \in Users \cup {NoUser} : Known(u) => Known(u)'
  BY <1>3 DEF Known
<1>5. ASSUME NEW y \in Patches PROVE PatchSound(y)'
  <2>1. CASE y = x
    BY <1>1, <2>1 DEF PatchSound, BeforeWrite
  <2>2. CASE y # x
    BY <1>1, <1>4, <2>2 DEF PatchSound, team, PatchesInv, UpdatesTypeOK
  <2> QED
    BY <2>1, <2>2
<1>6. task.assignee \in Users \cup {NoUser}
  BY DEF PatchesInv, UpdatesTypeOK, Row
<1> QED
  BY <1>1, <1>2, <1>4, <1>5, <1>6 DEF PatchesInv, team

LEMMA PatchQueueAssignedInv ==
  ASSUME PatchesInv, NEW x \in Patches, PatchQueueAssigned(x), UNCHANGED team
  PROVE  PatchesInv'
<1> PICK l : l = locals[x]
  OBVIOUS
<1> DEFINE reason == AssigneeChanged(l) /\ l.assignee # NoUser
           js == IF reason
                 THEN jobs[x] \cup {[name |-> "task_assigned", recipient |-> l.assignee]}
                 ELSE jobs[x]
<1>1. at[x] = "queueAssigned" /\ l \in PatchLocals /\ jobs[x] \subseteq Jobs
  BY DEF PatchQueueAssigned, PatchesInv, UpdatesTypeOK, InFlight, AfterWrite
<1>2. /\ at' = [at EXCEPT ![x] = "queueStatus"] /\ locals' = [locals EXCEPT ![x] = locals[x]]
      /\ jobs' = [jobs EXCEPT ![x] = js]
      /\ UNCHANGED <<task, alive, events, created, raced, vouched>>
  BY DEF PatchQueueAssigned, Queue, Continue, PatchesInv
<1>3. reason => l.assignee \in Users
  BY <1>1 DEF AssigneeChanged, PatchLocals
<1>4. js \subseteq Jobs /\ jobs[x] \subseteq js
  BY <1>1, <1>3 DEF Jobs
<1>5. l.assignee \in Users /\ l.prev.assignee # l.assignee =>
        [name |-> "task_assigned", recipient |-> l.assignee] \in js
  BY UpdatesAssumption DEF AssigneeChanged
<1>6. "queueStatus" \in Steps
  BY DEF Steps, AfterWrite
<1> HIDE DEF js
<1> QED
  BY <1>1, <1>2, <1>4, <1>5, <1>6, PatchesQueue

LEMMA PatchQueueStatusInv ==
  ASSUME PatchesInv, NEW x \in Patches, PatchQueueStatus(x), UNCHANGED team
  PROVE  PatchesInv'
<1> PICK l : l = locals[x]
  OBVIOUS
<1> DEFINE reason == StatusChanged(l) /\ l.entity.assignee # NoUser
           js == IF reason
                 THEN jobs[x] \cup {[name |-> "status_changed",
                                    recipient |-> l.entity.assignee]}
                 ELSE jobs[x]
<1>1. at[x] = "queueStatus" /\ l \in PatchLocals /\ jobs[x] \subseteq Jobs
  BY DEF PatchQueueStatus, PatchesInv, UpdatesTypeOK, InFlight, AfterWrite
<1>2. /\ at' = [at EXCEPT ![x] = "done"] /\ locals' = [locals EXCEPT ![x] = Undefined]
      /\ jobs' = [jobs EXCEPT ![x] = js]
      /\ UNCHANGED <<task, alive, events, created, raced, vouched>>
  BY DEF PatchQueueStatus, Queue, Finish, Continue
<1>3. reason => l.entity.assignee \in Users
  BY <1>1 DEF PatchLocals, Row
<1>4. js \subseteq Jobs /\ jobs[x] \subseteq js
  BY <1>1, <1>3 DEF Jobs
<1>5. "done" \in Steps
  BY DEF Steps
<1> HIDE DEF js
<1> QED
  BY <1>1, <1>2, <1>4, <1>5, PatchesQueue

LEMMA RemoveTaskInv ==
  ASSUME PatchesInv, Remove, UNCHANGED team
  PROVE  PatchesInv'
<1> USE DEF Remove, team
<1>1. UpdatesTypeOK'
  BY DEF PatchesInv, UpdatesTypeOK, InFlight
<1>2. \A u : Known(u)' <=> Known(u)
  BY DEF Known, Sends
<1>3. \A x \in Patches : PatchSound(x)'
  BY <1>2 DEF PatchesInv, PatchSound
<1> QED
  BY <1>1, <1>2, <1>3 DEF PatchesInv

LEMMA MembersStepInv ==
  ASSUME PatchesInv, MembersNext, UNCHANGED patchVars
  PROVE  PatchesInv'
<1> USE DEF patchVars
<1>1. current' \subseteq former' /\ former' \subseteq Users /\ former \subseteq former'
  BY DEF MembersNext, Join, Leave, PatchesInv, UpdatesTypeOK
<1>2. UpdatesTypeOK'
  BY <1>1 DEF PatchesInv, UpdatesTypeOK, InFlight
<1>3. \A u : Known(u)' <=> Known(u)
  BY DEF Known, Sends
<1>4. \A x \in Patches : PatchSound(x)'
  BY <1>1, <1>3 DEF PatchesInv, PatchSound
<1> QED
  BY <1>1, <1>2, <1>3, <1>4 DEF PatchesInv

LEMMA PatchesNextInv == PatchesInv /\ [UpdatesNext]_vars => PatchesInv'
<1> SUFFICES ASSUME PatchesInv, [UpdatesNext]_vars PROVE PatchesInv'
  OBVIOUS
<1>1. ASSUME NEW x \in Patches, PatchStep(x), UNCHANGED team PROVE PatchesInv'
  BY <1>1, PatchStartInv, PatchCheckInv, PatchSelectInv, PatchWriteInv, PatchRecordInv,
     PatchQueueAssignedInv, PatchQueueStatusInv, PatchRejectInv, PatchLoseInv DEF PatchStep
<1>2. CASE UNCHANGED vars
  BY <1>2
     DEF vars, team, patchVars, PatchesInv, UpdatesTypeOK, InFlight, Known, Sends,
         PatchSound
<1> QED
  BY <1>1, <1>2, RemoveTaskInv, MembersStepInv DEF UpdatesNext

-----------------------------------------------------------------------------
(* While writers do not overlap.                                           *)

Started == {x \in Patches : at[x] # "new"}

(* What a patch recorded or is about to.                                   *)
Reported(x) == events[x] \cup (IF at[x] = "record" THEN Listed(locals[x].todo) ELSE {})

ReportedFrom(type, v) == {x \in Patches : \E e \in Reported(x) : e.type = type /\ e.from = v}
ReportedTo(type, v)   == {x \in Patches : \E e \in Reported(x) : e.type = type /\ e.to = v}

(* Every value the column took was reported on the way in, and every value *)
(* it left on the way out; the first and the present value make the        *)
(* difference.                                                             *)
Balanced(type, values, before, now) ==
  \A v \in values :
    Cardinality(ReportedTo(type, v)) + (IF v = before THEN 1 ELSE 0) =
      Cardinality(ReportedFrom(type, v)) + (IF v = now THEN 1 ELSE 0)

AllBalanced ==
  /\ Balanced("STATUS_CHANGED", Statuses, created.status, task.status)
  /\ Balanced("ASSIGNED", Users \cup {NoUser}, created.assignee, task.assignee)

(* While no patch ran next to another writer, the one in flight has the    *)
(* row as it is in its locals.                                             *)
SoleWriter ==
  /\ \A x, y \in Patches : InFlight(x) /\ InFlight(y) => x = y
  /\ \A x \in Patches : at[x] \in BeforeWrite =>
       alive /\ locals[x].prev = task /\ (at[x] = "write" => locals[x].base = task)

SerialInv ==
  /\ IsFiniteSet(Started)
  /\ StampedWhenDone
  /\ ~ raced => SoleWriter
  /\ ~ raced /\ (\A x \in Patches : at[x] # "lost") => AllBalanced

LEMMA SerialInitInv == UpdatesInit => SerialInv
<1> SUFFICES ASSUME UpdatesInit PROVE SerialInv
  OBVIOUS
<1>1. Started = {}
  BY DEF Started, UpdatesInit
<1>2. StampedWhenDone
  BY DEF UpdatesInit, StampedWhenDone
<1>3. SoleWriter
  BY DEF UpdatesInit, SoleWriter, InFlight, BeforeWrite, AfterWrite
<1>4. \A type, v : ReportedFrom(type, v) = {} /\ ReportedTo(type, v) = {}
  BY DEF UpdatesInit, ReportedFrom, ReportedTo, Reported
<1>5. AllBalanced
  BY <1>4, FS_EmptySet DEF AllBalanced, Balanced, UpdatesInit
<1> QED
  BY <1>1, <1>2, <1>3, <1>5, FS_EmptySet DEF SerialInv

LEMMA SerialFrame ==
  ASSUME SerialInv, UNCHANGED <<task, created, raced>>, alive => alive',
         Started' = Started,
         \A y \in Patches :
           /\ Reported(y)' = Reported(y)
           /\ InFlight(y)' => InFlight(y)
           /\ at[y] = "lost" => at'[y] = "lost"
           /\ at'[y] \in BeforeWrite =>
                /\ at[y] \in BeforeWrite /\ locals'[y].prev = locals[y].prev
                /\ at'[y] = "write" /\ ~ raced => locals'[y].base = task
  PROVE  SerialInv'
<1>1. StampedWhenDone'
  BY DEF SerialInv, StampedWhenDone
<1>2. ~ raced' => SoleWriter'
  BY DEF SerialInv, SoleWriter
<1>3. \A type, v : /\ ReportedFrom(type, v)' = ReportedFrom(type, v)
                   /\ ReportedTo(type, v)' = ReportedTo(type, v)
  BY DEF ReportedFrom, ReportedTo
<1>4. AllBalanced <=> AllBalanced'
  BY <1>3 DEF AllBalanced, Balanced
<1> QED
  BY <1>1, <1>2, <1>4 DEF SerialInv

(* A step of a started patch other than its write.                         *)
LEMMA SerialLocal ==
  ASSUME PatchesInv, SerialInv, NEW x \in Patches, NEW s, NEW c,
         UNCHANGED <<task, alive, created, raced>>,
         \A y \in Patches : y # x => events'[y] = events[y],
         at' = [at EXCEPT ![x] = s], locals' = [locals EXCEPT ![x] = c],
         at[x] \in BeforeWrite \cup AfterWrite, s # "new", Reported(x)' = Reported(x),
         s \in BeforeWrite =>
           /\ at[x] \in BeforeWrite /\ c.prev = locals[x].prev
           /\ s = "write" /\ alive => c.base = task
  PROVE  SerialInv'
<1>1. /\ \A y \in Patches : y # x => at'[y] = at[y] /\ locals'[y] = locals[y]
      /\ at'[x] = s /\ locals'[x] = c /\ at[x] \notin {"new", "lost"}
  BY DEF PatchesInv, UpdatesTypeOK, BeforeWrite, AfterWrite
<1>2. Started' = Started
  BY <1>1 DEF Started
<1>3. ASSUME NEW y \in Patches
      PROVE  /\ Reported(y)' = Reported(y)
             /\ InFlight(y)' => InFlight(y)
             /\ at[y] = "lost" => at'[y] = "lost"
             /\ at'[y] \in BeforeWrite =>
                  /\ at[y] \in BeforeWrite /\ locals'[y].prev = locals[y].prev
                  /\ at'[y] = "write" /\ ~ raced => locals'[y].base = task
  <2>1. ~ raced /\ at[y] \in BeforeWrite => alive /\ (at[y] = "write" => locals[y].base = task)
    BY DEF SerialInv, SoleWriter
  <2>2. CASE y = x
    BY <1>1, <2>1, <2>2 DEF InFlight
  <2>3. CASE y # x
    BY <1>1, <2>1, <2>3 DEF InFlight, Reported
  <2> QED
    BY <2>2, <2>3
<1> QED
  BY <1>2, <1>3, SerialFrame

LEMMA PatchStartSerial ==
  ASSUME PatchesInv, SerialInv, NEW x \in Patches, PatchStart(x)
  PROVE  SerialInv'
<1> PICK s \in Statuses \cup {Undefined}, a \in Users \cup {NoUser, Undefined} :
      /\ locals' = [locals EXCEPT ![x] =
           [status |-> s, assignee |-> a, prev |-> task, base |-> Undefined, todo |-> <<>>,
            entity |-> Edited(x, [status |-> s, assignee |-> a], task)]]
      /\ Continue(x, IF a \in Users THEN "check" ELSE "select")
  BY DEF PatchStart
<1>1. /\ \A y \in Patches : y # x => at'[y] = at[y] /\ locals'[y] = locals[y]
      /\ locals'[x].prev = task /\ at[x] = "new" /\ at'[x] \in {"check", "select"} /\ alive
      /\ UNCHANGED <<task, alive, events, jobs, created>>
      /\ raced' = (raced \/ \E y \in Patches : InFlight(y))
  BY DEF PatchStart, PatchesInv, UpdatesTypeOK, Continue
<1>2. IsFiniteSet(Started')
  <2>1. Started' = Started \cup {x}
    BY <1>1 DEF Started
  <2> QED
    BY <2>1, FS_AddElement DEF SerialInv
<1>3. \A y \in Patches : Reported(y)' = Reported(y)
  BY <1>1 DEF Reported
<1>4. \A type, v : /\ ReportedFrom(type, v)' = ReportedFrom(type, v)
                   /\ ReportedTo(type, v)' = ReportedTo(type, v)
  BY <1>3 DEF ReportedFrom, ReportedTo
<1>5. AllBalanced <=> AllBalanced'
  BY <1>1, <1>4 DEF AllBalanced, Balanced
<1>6. StampedWhenDone'
  BY <1>1 DEF SerialInv, StampedWhenDone
<1>7. ~ raced' => SoleWriter'
  <2> SUFFICES ASSUME ~ raced' PROVE SoleWriter'
    OBVIOUS
  <2>1. \A y \in Patches : ~ InFlight(y)
    BY <1>1
  <2>2. \A y \in Patches : InFlight(y)' => y = x
    BY <1>1, <2>1 DEF InFlight
  <2>3. \A y \in Patches : at'[y] \in BeforeWrite => y = x
    BY <2>2 DEF InFlight
  <2> QED
    BY <1>1, <2>2, <2>3 DEF SoleWriter
<1>8. (\A y \in Patches : at'[y] # "lost") => \A y \in Patches : at[y] # "lost"
  BY <1>1
<1> QED
  BY <1>1, <1>2, <1>5, <1>6, <1>7, <1>8 DEF SerialInv

LEMMA FinishSerial ==
  ASSUME PatchesInv, SerialInv, NEW x \in Patches, NEW outcome \in {"rejected", "done"},
         Finish(x, outcome),
         at[x] \in BeforeWrite \cup AfterWrite, at[x] # "record",
         UNCHANGED <<task, alive, events, created, raced>>
  PROVE  SerialInv'
<1>1. at' = [at EXCEPT ![x] = outcome] /\ locals' = [locals EXCEPT ![x] = Undefined]
  BY DEF Finish, Continue
<1>2. Reported(x)' = Reported(x)
  BY <1>1 DEF Reported, PatchesInv, UpdatesTypeOK
<1> QED
  BY <1>1, <1>2, SerialLocal DEF BeforeWrite

LEMMA PatchCheckSerial ==
  ASSUME PatchesInv, SerialInv, NEW x \in Patches, PatchCheck(x)
  PROVE  SerialInv'
<1>1. CASE Continue(x, "select") /\ UNCHANGED locals
  <2>1. /\ locals' = [locals EXCEPT ![x] = locals[x]]
        /\ at' = [at EXCEPT ![x] = "select"] /\ at[x] = "check"
    BY <1>1 DEF PatchCheck, PatchesInv, Continue
  <2>2. Reported(x)' = Reported(x)
    BY <2>1 DEF Reported, PatchCheck, PatchesInv, UpdatesTypeOK
  <2> QED
    BY <2>1, <2>2, SerialLocal DEF PatchCheck, BeforeWrite
<1>2. CASE Finish(x, "rejected")
  BY <1>2, FinishSerial DEF PatchCheck, BeforeWrite
<1> QED
  BY <1>1, <1>2 DEF PatchCheck

LEMMA PatchSelectSerial ==
  ASSUME PatchesInv, SerialInv, NEW x \in Patches, PatchSelect(x)
  PROVE  SerialInv'
<1> DEFINE c == [locals[x] EXCEPT !.base = IF alive THEN task ELSE Undefined]
<1>1. /\ locals' = [locals EXCEPT ![x] = c]
      /\ at' = [at EXCEPT ![x] = "write"] /\ at[x] = "select" /\ locals[x] \in PatchLocals
  BY DEF PatchSelect, PatchesInv, UpdatesTypeOK, Continue, InFlight, BeforeWrite
<1>2. c.prev = locals[x].prev /\ (alive => c.base = task)
  BY <1>1 DEF PatchLocals
<1>3. Reported(x)' = Reported(x)
  BY <1>1 DEF Reported, PatchSelect, PatchesInv, UpdatesTypeOK
<1> HIDE DEF c
<1> QED
  BY <1>1, <1>2, <1>3, SerialLocal DEF PatchSelect, BeforeWrite

(* Recording the next event leaves what is reported the same.              *)
LEMMA PatchRecordSerial ==
  ASSUME PatchesInv, SerialInv, NEW x \in Patches, PatchRecord(x)
  PROVE  SerialInv'
<1> PICK l : l = locals[x]
  OBVIOUS
<1>1. at[x] = "record" /\ l \in PatchLocals /\ l.todo \in Seq(Events)
  BY DEF PatchRecord, PatchesInv, UpdatesTypeOK, InFlight, AfterWrite, PatchLocals
<1>2. CASE l.todo = <<>>
  <2>1. /\ locals' = [locals EXCEPT ![x] = l] /\ events' = events
        /\ at' = [at EXCEPT ![x] = "queueAssigned"]
    BY <1>2 DEF PatchRecord, PatchesInv, Continue
  <2>2. Reported(x)' = Reported(x)
    BY <1>1, <1>2, <2>1, ListedFew DEF Reported, PatchesInv, UpdatesTypeOK
  <2> QED
    BY <1>1, <2>1, <2>2, SerialLocal DEF PatchRecord, BeforeWrite, AfterWrite
<1>3. CASE l.todo # <<>>
  <2> DEFINE c == [l EXCEPT !.todo = Tail(l.todo)]
  <2>1. /\ locals' = [locals EXCEPT ![x] = c]
        /\ events' = [events EXCEPT ![x] = events[x] \cup {Head(l.todo)}]
        /\ at' = [at EXCEPT ![x] = "record"]
    BY <1>1, <1>3 DEF PatchRecord, PatchesInv, UpdatesTypeOK
  <2>2. c.todo = Tail(l.todo)
    BY <1>1 DEF PatchLocals
  <2> HIDE DEF c
  <2>3. Listed(l.todo) = {Head(l.todo)} \cup Listed(Tail(l.todo))
    BY <1>1, <1>3, ListedHead
  <2>4. /\ events'[x] = events[x] \cup {Head(l.todo)} /\ locals'[x].todo = Tail(l.todo)
        /\ at'[x] = "record"
        /\ \A y \in Patches : y # x => events'[y] = events[y]
    BY <2>1, <2>2 DEF PatchesInv, UpdatesTypeOK
  <2>5. Reported(x)' = Reported(x)
    BY <1>1, <2>3, <2>4 DEF Reported
  <2> QED
    BY <1>1, <2>1, <2>4, <2>5, SerialLocal DEF PatchRecord, BeforeWrite, AfterWrite
<1> QED
  BY <1>2, <1>3

LEMMA PatchQueueAssignedSerial ==
  ASSUME PatchesInv, SerialInv, NEW x \in Patches, PatchQueueAssigned(x)
  PROVE  SerialInv'
<1>1. /\ at' = [at EXCEPT ![x] = "queueStatus"] /\ locals' = [locals EXCEPT ![x] = locals[x]]
      /\ at[x] = "queueAssigned" /\ UNCHANGED <<task, alive, events, created, raced>>
  BY DEF PatchQueueAssigned, Queue, Continue, PatchesInv
<1>2. Reported(x)' = Reported(x)
  BY <1>1 DEF Reported, PatchesInv, UpdatesTypeOK
<1> QED
  BY <1>1, <1>2, SerialLocal DEF BeforeWrite, AfterWrite

LEMMA PatchQueueStatusSerial ==
  ASSUME PatchesInv, SerialInv, NEW x \in Patches, PatchQueueStatus(x)
  PROVE  SerialInv'
BY FinishSerial DEF PatchQueueStatus, Queue, AfterWrite

LEMMA PatchRejectSerial ==
  ASSUME PatchesInv, SerialInv, NEW x \in Patches, PatchReject(x)
  PROVE  SerialInv'
BY FinishSerial DEF PatchReject, BeforeWrite

LEMMA PatchLoseSerial ==
  ASSUME PatchesInv, SerialInv, NEW x \in Patches, PatchLose(x)
  PROVE  SerialInv'
<1>1. /\ \A y \in Patches : y # x => at'[y] = at[y] /\ locals'[y] = locals[y]
      /\ at'[x] = "lost" /\ at[x] \in AfterWrite
      /\ UNCHANGED <<task, alive, created, raced, events>>
  BY DEF PatchLose, Continue, PatchesInv, UpdatesTypeOK
<1>2. Started' = Started
  BY <1>1 DEF Started, AfterWrite
<1>3. StampedWhenDone'
  BY <1>1 DEF SerialInv, StampedWhenDone
<1>4. ~ raced' => SoleWriter'
  BY <1>1 DEF SerialInv, SoleWriter, InFlight, BeforeWrite
<1> QED
  BY <1>1, <1>2, <1>3, <1>4 DEF SerialInv

LEMMA RemoveSerial == ASSUME SerialInv, Remove PROVE SerialInv'
<1>1. /\ UNCHANGED <<task, at, locals, events, jobs, created>>
      /\ raced' = (raced \/ \E y \in Patches : InFlight(y))
  BY DEF Remove
<1>2. StampedWhenDone'
  BY <1>1 DEF SerialInv, StampedWhenDone
<1>3. ~ raced' => SoleWriter'
  BY <1>1 DEF SoleWriter, InFlight
<1>4. AllBalanced <=> AllBalanced'
  BY <1>1 DEF AllBalanced, Balanced, ReportedFrom, ReportedTo, Reported
<1> QED
  BY <1>1, <1>2, <1>3, <1>4 DEF SerialInv, Started

(* A change reported by its writer keeps the account balanced.             *)
LEMMA BalancedStep ==
  ASSUME NEW type, NEW values, NEW before, NEW now, NEW after, NEW x \in Patches,
         IsFiniteSet(Started), \A y \in Patches : Reported(y) # {} => y \in Started,
         \A y \in Patches : y # x => Reported(y)' = Reported(y),
         Reported(x) = {},
         \A e : (e \in Reported(x)' /\ e.type = type) <=>
                 (now # after /\ e = [type |-> type, from |-> now, to |-> after]),
         Balanced(type, values, before, now)
  PROVE  Balanced(type, values, before, after)'
<1> SUFFICES ASSUME NEW v \in values
             PROVE  Cardinality(ReportedTo(type, v)') + (IF v = before THEN 1 ELSE 0) =
                      Cardinality(ReportedFrom(type, v)') + (IF v = after THEN 1 ELSE 0)
  BY DEF Balanced
<1> DEFINE F == ReportedFrom(type, v)
           T == ReportedTo(type, v)
<1>1. F \subseteq Started /\ T \subseteq Started
  BY DEF ReportedFrom, ReportedTo
<1>2. IsFiniteSet(F) /\ IsFiniteSet(T) /\ Cardinality(F) \in Nat /\ Cardinality(T) \in Nat
  BY <1>1, FS_Subset, FS_CardinalityType
<1>3. x \notin F /\ x \notin T
  BY DEF ReportedFrom, ReportedTo
<1>4. ReportedFrom(type, v)' = IF now # after /\ v = now THEN F \cup {x} ELSE F
  <2>1. ASSUME NEW e \in Reported(x)', e.type = type, e.from = v PROVE now # after /\ v = now
    BY <2>1
  <2>2. ASSUME now # after, v = now PROVE \E e \in Reported(x)' : e.type = type /\ e.from = v
    <3>1. [type |-> type, from |-> now, to |-> after] \in Reported(x)'
      BY <2>2
    <3> QED
      BY <2>2, <3>1
  <2> QED
    BY <1>3, <2>1, <2>2 DEF ReportedFrom
<1>5. ReportedTo(type, v)' = IF now # after /\ v = after THEN T \cup {x} ELSE T
  <2>1. ASSUME NEW e \in Reported(x)', e.type = type, e.to = v PROVE now # after /\ v = after
    BY <2>1
  <2>2. ASSUME now # after, v = after PROVE \E e \in Reported(x)' : e.type = type /\ e.to = v
    <3>1. [type |-> type, from |-> now, to |-> after] \in Reported(x)'
      BY <2>2
    <3> QED
      BY <2>2, <3>1
  <2> QED
    BY <1>3, <2>1, <2>2 DEF ReportedTo
<1>6. /\ Cardinality(F \cup {x}) = Cardinality(F) + 1
      /\ Cardinality(T \cup {x}) = Cardinality(T) + 1
  BY <1>2, <1>3, FS_AddElement
<1>7. Cardinality(T) + (IF v = before THEN 1 ELSE 0) = Cardinality(F) + (IF v = now THEN 1 ELSE 0)
  BY DEF Balanced
<1> HIDE DEF F, T
<1> QED
  BY <1>2, <1>4, <1>5, <1>6, <1>7

LEMMA PatchWriteSerial ==
  ASSUME PatchesInv, SerialInv, NEW x \in Patches, PatchWrite(x)
  PROVE  SerialInv'
<1> PICK l : l = locals[x]
  OBVIOUS
<1> DEFINE insert == l.base = Undefined
           c      == [l EXCEPT !.todo = EventsOf(l), !.base = Undefined]
<1>1. /\ at[x] = "write" /\ l \in PatchLocals /\ task \in Row /\ events[x] = {}
      /\ l.entity = Edited(x, l, l.prev) /\ UNCHANGED <<events, jobs, created, raced>>
  BY DEF PatchWrite, PatchesInv, UpdatesTypeOK, InFlight, BeforeWrite, PatchSound
<1>2. CASE insert /\ alive
  BY <1>1, <1>2, FinishSerial DEF PatchWrite, BeforeWrite
<1>3. CASE ~ (insert /\ alive)
  <2>1. /\ task' = CASE insert -> l.entity
                      [] ~ insert /\ alive -> Merged(l.entity, l.base, task)
                      [] OTHER -> task
        /\ alive' = (insert \/ alive)
        /\ locals' = [locals EXCEPT ![x] = c]
        /\ at' = [at EXCEPT ![x] = "record"]
    BY <1>3 DEF PatchWrite, Continue
  <2>2. c.todo = EventsOf(l)
    BY <1>1 DEF PatchLocals
  <2> HIDE DEF c
  <2>3. /\ \A y \in Patches : y # x => at'[y] = at[y] /\ locals'[y] = locals[y]
        /\ at'[x] = "record" /\ locals'[x].todo = EventsOf(l)
    BY <2>1, <2>2 DEF PatchesInv, UpdatesTypeOK
  <2>4. Started' = Started
    BY <1>1, <2>3 DEF Started
  <2>5. CASE raced
    BY <1>1, <2>4, <2>5 DEF SerialInv, StampedWhenDone
  <2>6. CASE ~ raced
    <3>1. alive /\ l.prev = task /\ l.base = task /\ alive'
      BY <1>1, <2>1, <2>6 DEF SerialInv, SoleWriter, BeforeWrite
    <3>2. task' = Merged(l.entity, task, task) /\ l.entity \in Row
      BY <1>1, <1>3, <2>1, <3>1 DEF PatchLocals
    <3>3. /\ task' \in Row /\ task'.status = l.entity.status
          /\ task'.completedAt = l.entity.completedAt /\ task'.assignee = l.entity.assignee
      BY <1>1, <3>2, MergedRow
    <3>4. /\ task'.status = IF l.status = Undefined THEN task.status ELSE l.status
          /\ task'.completedAt = EditedTime(x, l, task)
          /\ task'.assignee = IF l.assignee = Undefined THEN task.assignee ELSE l.assignee
      BY <1>1, <3>1, <3>3 DEF Edited, EditedAssignee
    <3>5. SoleWriter'
      <4>1. \A y \in Patches : InFlight(y)' => y = x
        BY <1>1, <2>3, <2>6 DEF SerialInv, SoleWriter, InFlight, BeforeWrite
      <4>2. \A y \in Patches : at'[y] \notin BeforeWrite
        BY <2>3, <4>1 DEF InFlight, BeforeWrite
      <4> QED
        BY <4>1, <4>2 DEF SoleWriter
    <3>6. StampedWhenDone'
      BY <1>1, <2>6, <3>4, UpdatesAssumption DEF SerialInv, StampedWhenDone, EditedTime
    <3>7. AllBalanced => AllBalanced'
      <4> SUFFICES ASSUME AllBalanced PROVE AllBalanced'
        OBVIOUS
      <4>1. \A y \in Patches : y # x => Reported(y)' = Reported(y)
        BY <1>1, <2>3 DEF Reported
      <4>2. Reported(x) = {} /\ Reported(x)' = Listed(EventsOf(l))
        BY <1>1, <2>3 DEF Reported
      <4>3. \A y \in Patches : Reported(y) # {} => y \in Started
        BY DEF Reported, Started, PatchesInv, PatchSound
      <4>4. IsFiniteSet(Started)
        BY DEF SerialInv
      <4> PICK t : t = task'
        OBVIOUS
      <4>5. ASSUME NEW e
            PROVE  (e \in Reported(x)' /\ e.type = "STATUS_CHANGED") <=>
                     (task.status # t.status /\
                      e = [type |-> "STATUS_CHANGED", from |-> task.status, to |-> t.status])
        BY <1>1, <3>1, <3>4, <4>2, EventsListed DEF StatusChanged
      <4>6. ASSUME NEW e
            PROVE  (e \in Reported(x)' /\ e.type = "ASSIGNED") <=>
                     (task.assignee # t.assignee /\
                      e = [type |-> "ASSIGNED", from |-> task.assignee, to |-> t.assignee])
        BY <1>1, <3>1, <3>4, <4>2, EventsListed DEF AssigneeChanged
      <4> PICK b : b = created
        OBVIOUS
      <4> PICK n : n = task
        OBVIOUS
      <4>7. Balanced("STATUS_CHANGED", Statuses, b.status, t.status)'
        BY <4>1, <4>2, <4>3, <4>4, <4>5, BalancedStep DEF AllBalanced
      <4>8. Balanced("ASSIGNED", Users \cup {NoUser}, b.assignee, t.assignee)'
        BY <4>1, <4>2, <4>3, <4>4, <4>6, BalancedStep DEF AllBalanced
      <4> QED
        BY <1>1, <4>7, <4>8 DEF AllBalanced
    <3>8. (\A y \in Patches : at'[y] # "lost") => \A y \in Patches : at[y] # "lost"
      BY <1>1, <2>3
    <3> QED
      BY <1>1, <2>4, <3>5, <3>6, <3>7, <3>8 DEF SerialInv
  <2> QED
    BY <2>5, <2>6
<1> QED
  BY <1>2, <1>3

LEMMA SerialNextInv == PatchesInv /\ SerialInv /\ [UpdatesNext]_vars => SerialInv'
<1> SUFFICES ASSUME PatchesInv, SerialInv, [UpdatesNext]_vars PROVE SerialInv'
  OBVIOUS
<1>1. ASSUME NEW x \in Patches, PatchStep(x) PROVE SerialInv'
  BY <1>1, PatchStartSerial, PatchCheckSerial, PatchSelectSerial, PatchWriteSerial,
     PatchRecordSerial, 
     PatchQueueAssignedSerial, PatchQueueStatusSerial, PatchRejectSerial, PatchLoseSerial
     DEF PatchStep
<1>2. CASE UNCHANGED patchVars
  <2> USE <1>2 DEF patchVars
  <2>1. /\ Started' = Started
        /\ \A y \in Patches : Reported(y)' = Reported(y) /\ (InFlight(y)' <=> InFlight(y))
    BY DEF Started, Reported, InFlight
  <2>2. \A y \in Patches : at[y] = "write" /\ ~ raced => locals[y].base = task
    BY DEF SerialInv, SoleWriter, BeforeWrite
  <2> QED
    BY <2>1, <2>2, SerialFrame
<1> QED
  BY <1>1, <1>2, RemoveSerial DEF UpdatesNext, vars

-----------------------------------------------------------------------------
(* The strengthening, of which every property below is a consequence.      *)
UpdatesIInv == PatchesInv /\ SerialInv

LEMMA UpdatesInvariant == UpdatesSpec => []UpdatesIInv
<1>1. UpdatesInit => UpdatesIInv
  BY PatchesInitInv, SerialInitInv DEF UpdatesIInv
<1>2. UpdatesIInv /\ [UpdatesNext]_vars => UpdatesIInv'
  BY PatchesNextInv, SerialNextInv DEF UpdatesIInv
<1> QED
  BY <1>1, <1>2, PTL DEF UpdatesSpec

(***************************************************************************)
(* The row, the locals of the patches, the activity rows and the jobs keep *)
(* their types, and everybody who is a member has been one.                *)
(***************************************************************************)
THEOREM UpdatesTypesCorrect == UpdatesSpec => []UpdatesTypeOK
<1>1. UpdatesIInv => UpdatesTypeOK
  BY DEF UpdatesIInv, PatchesInv
<1> QED
  BY <1>1, UpdatesInvariant, PTL

(***************************************************************************)
(* A task is given only to somebody who is, or was when the service asked, *)
(* a member of the workspace the URL names (tasks.service.ts, the assignee *)
(* check of update): of the task's own, or of another one in which a patch *)
(* under that one's URL found him.                                         *)
(***************************************************************************)
THEOREM AssigneesVouchedFor == UpdatesSpec => []AssigneeWasVouched
<1>1. UpdatesIInv => AssigneeWasVouched
  BY DEF UpdatesIInv, PatchesInv, AssigneeWasVouched
<1> QED
  BY <1>1, UpdatesInvariant, PTL

(***************************************************************************)
(* Whoever is the assignee was so when the task was created, or a          *)
(* task_assigned job was queued for him by the patch that made him so, or  *)
(* that patch is about to, or died between its write and its job.          *)
(***************************************************************************)
THEOREM AssigneesNotified == UpdatesSpec => []AssigneeNotified
<1>1. UpdatesIInv => AssigneeNotified
  BY DEF UpdatesIInv, PatchesInv, AssigneeNotified, Known, Sends
<1> QED
  BY <1>1, UpdatesInvariant, PTL

(***************************************************************************)
(* Unless two writers raced, a task has a completion time exactly          *)
(* when its status is DONE.                                                *)
(***************************************************************************)
THEOREM CompletionStamped == UpdatesSpec => []StampedWhenDone
<1>1. UpdatesIInv => StampedWhenDone
  BY DEF UpdatesIInv, SerialInv
<1> QED
  BY <1>1, UpdatesInvariant, PTL

(***************************************************************************)
(* Unless two writers raced or a process died after its write, the         *)
(* activity rows account for every change of status and of assignee: what  *)
(* left a value and what came to it differ by the first and the present    *)
(* value only.                                                             *)
(***************************************************************************)
THEOREM LogComplete == UpdatesSpec => []LogAccounts
<1>1. ASSUME UpdatesIInv PROVE LogAccounts
  <2> SUFFICES ASSUME ~ raced, \A x \in Patches : ~ InFlight(x) /\ at[x] # "lost"
               PROVE  /\ Accounts("STATUS_CHANGED", Statuses, created.status, task.status)
                      /\ Accounts("ASSIGNED", Users \cup {NoUser}, created.assignee, task.assignee)
    BY DEF LogAccounts
  <2>1. \A x \in Patches : Reported(x) = events[x]
    BY DEF Reported, InFlight, AfterWrite
  <2>2. \A type, v : ReportedFrom(type, v) = From(type, v) /\ ReportedTo(type, v) = To(type, v)
    BY <2>1 DEF ReportedFrom, ReportedTo, From, To
  <2>3. AllBalanced
    BY <1>1 DEF UpdatesIInv, SerialInv
  <2>4. Accounts("STATUS_CHANGED", Statuses, created.status, task.status)
    BY <2>2, <2>3 DEF AllBalanced, Balanced, Accounts
  <2>5. Accounts("ASSIGNED", Users \cup {NoUser}, created.assignee, task.assignee)
    BY <2>2, <2>3 DEF AllBalanced, Balanced, Accounts
  <2> QED
    BY <2>4, <2>5
<1> QED
  BY <1>1, UpdatesInvariant, PTL

-----------------------------------------------------------------------------

HandedOut == {p \in ProjectIds : createdBy[p] # Nothing}

(* The history is kept per id; ids handed out keep their creator, and only *)
(* they are deleted.                                                       *)
HistorySound ==
  /\ asked = [p \in ProjectIds |-> asked[p]]
  /\ \A p \in HandedOut : createdBy[p] \in former
  /\ removed \subseteq HandedOut

(* What the guard and the route gave a request.                            *)
Given(s, c) ==
  /\ s = "insert" => c.user \in former /\ c.dto \in ProjectRow
  /\ s \in {"find", "delete"} \cup EditSteps => c.id \in HandedOut

LocalsSound ==
  /\ held = [r \in Editors |-> held[r]]
  /\ \A r \in Editors : Given(doing[r], held[r])

Edits(r, p) == doing[r] \in EditSteps /\ held[r].id = p

(* Of a project never edited while being edited or deleted at most one     *)
(* request holds an entity, and what it read is still in the table.        *)
EditsAlone ==
  \A p \in ProjectIds \ crossed : \A q, r \in Editors : Edits(q, p) /\ Edits(r, p) => q = r

EditsCurrent ==
  \A p \in ProjectIds \ crossed, r \in Editors : Edits(r, p) =>
    /\ p \in projects
    /\ held[r].entity = Assigned(column[p], held[r].dto)
    /\ doing[r] = "write" => held[r].base = column[p]

RowsInv == ProjectsTypeOK /\ HistorySound /\ LocalsSound

EditsInv == EditsAlone /\ EditsCurrent /\ AsLastAsked /\ RemovedForGood

ProjectsIInv == RowsInv /\ EditsInv

USE DEF EditSteps

-----------------------------------------------------------------------------

LEMMA ProjectsInitInv == ProjectsInit => ProjectsIInv
<1> SUFFICES ASSUME ProjectsInit PROVE ProjectsIInv
  OBVIOUS
<1>1. ProjectsTypeOK
  BY ProjectsAssumption DEF ProjectsInit, MembersInit, ProjectsTypeOK
<1>2. HistorySound /\ LocalsSound
  BY DEF ProjectsInit, HistorySound, HandedOut, LocalsSound, Given
<1>3. EditsAlone /\ EditsCurrent /\ AsLastAsked /\ RemovedForGood
  BY DEF ProjectsInit, EditsAlone, EditsCurrent, AsLastAsked, RemovedForGood, Edits
<1> QED
  BY <1>1, <1>2, <1>3 DEF ProjectsIInv, RowsInv, EditsInv

(* Object.assign leaves an entity an entity.                               *)
LEMMA AssignedEntity ==
  ASSUME NEW row \in ProjectRow, NEW dto \in Patch PROVE Assigned(row, dto) \in Entity
<1>1. row \in Entity
  BY DEF ProjectRow
<1>2. \A f \in Fields : dto[f] # Absent => dto[f] \in Texts \cup {Nothing}
  BY DEF Patch
<1>3. \A f \in Fields : row[f] \in Texts \cup {Nothing}
  BY <1>1 DEF Entity
<1> QED
  BY <1>2, <1>3 DEF Assigned, Entity

(* A step of one request that leaves the tables alone.                     *)
LEMMA RowsLocal ==
  ASSUME RowsInv, NEW r \in Editors, NEW s, NEW c,
         UNCHANGED <<current, former, projectRows, asked, removed>>,
         doing' = [doing EXCEPT ![r] = s], held' = [held EXCEPT ![r] = c],
         \/ s = "idle" /\ c = Nothing
         \/ /\ s \in {"insert", "find", "delete"} \cup EditSteps /\ c \in Held /\ Given(s, c)
            /\ s = "insert" => c.user # Nothing
            /\ s \in EditSteps => c.entity \in Entity
  PROVE  RowsInv'
<1> USE DEF projectRows
<1>1. /\ \A q \in Editors : q # r => doing'[q] = doing[q] /\ held'[q] = held[q]
      /\ doing'[r] = s /\ held'[r] = c
      /\ held' = [q \in Editors |-> held'[q]]
      /\ doing' \in [Editors -> {"idle", "insert", "find", "delete"} \cup EditSteps]
  BY DEF RowsInv, ProjectsTypeOK, LocalsSound
<1>2. ProjectsTypeOK'
  BY <1>1 DEF RowsInv, ProjectsTypeOK
<1>3. \A q \in Editors : Given(doing[q], held[q])'
  <2>1. HandedOut' = HandedOut
    BY DEF HandedOut
  <2> QED
    BY <1>1, <2>1 DEF RowsInv, LocalsSound, Given
<1>4. HistorySound'
  BY DEF RowsInv, HistorySound, HandedOut
<1> QED
  BY <1>1, <1>2, <1>3, <1>4 DEF RowsInv, LocalsSound

LEMMA EditsFrame ==
  ASSUME RowsInv, EditsInv, UNCHANGED <<projects, column, asked, removed>>, crossed \subseteq crossed',
         \A q \in Editors, p \in ProjectIds : Edits(q, p)' =>
           Edits(q, p) /\ doing'[q] = doing[q] /\ held'[q] = held[q]
  PROVE  EditsInv'
<1> USE DEF EditsInv
<1>1. EditsAlone'
  BY DEF EditsAlone
<1>2. EditsCurrent'
  BY DEF EditsCurrent
<1>3. AsLastAsked' /\ RemovedForGood'
  BY DEF AsLastAsked, RemovedForGood
<1> QED
  BY <1>1, <1>2, <1>3

(* The guard lets members pass, who were members.                          *)
LEMMA StartInv == ASSUME ProjectsIInv, NEW r \in Editors, ProjectStart(r) PROVE ProjectsIInv'
<1> USE DEF ProjectsIInv
<1> PICK step \in {"insert", "find", "delete"}, p \in ProjectIds \cup {Nothing}, dto \in Patch :
      /\ Guarded(r, step, p, dto)
      /\ step = "insert" => dto \in ProjectRow
      /\ step # "insert" => p \in HandedOut
  <2>1. ProjectRow \subseteq Patch /\ NoPatch \in Patch
    BY DEF ProjectRow, Entity, Patch, NoPatch
  <2> QED
    BY <2>1 DEF ProjectStart, HandedOut
<1> PICK u \in Users :
      /\ u \in current
      /\ held' = [held EXCEPT ![r] =
           [user |-> IF step = "insert" THEN u ELSE Nothing, id |-> p, dto |-> dto,
            entity |-> Nothing, base |-> Nothing]]
  BY DEF Guarded, IsMember
<1> DEFINE c == [user |-> IF step = "insert" THEN u ELSE Nothing, id |-> p, dto |-> dto,
                 entity |-> Nothing, base |-> Nothing]
<1>1. c \in Held
  BY DEF Held
<1>2. Given(step, c) /\ (step = "insert" => c.user # Nothing)
  BY ProjectsAssumption DEF Given, RowsInv, ProjectsTypeOK
<1>3. /\ doing' = [doing EXCEPT ![r] = step] /\ held' = [held EXCEPT ![r] = c]
      /\ UNCHANGED <<current, former, projectRows, hist>>
  BY DEF Guarded, Then
<1> HIDE DEF c
<1>4. RowsInv'
  BY <1>1, <1>2, <1>3, RowsLocal DEF hist
<1>5. EditsInv'
  <2>1. \A q \in Editors : q # r => doing'[q] = doing[q] /\ held'[q] = held[q]
    BY <1>3 DEF RowsInv, ProjectsTypeOK, LocalsSound
  <2>2. doing'[r] = step
    BY <1>3 DEF RowsInv, ProjectsTypeOK
  <2> QED
    BY <1>3, <2>1, <2>2, EditsFrame DEF Edits, hist, projectRows
<1> QED
  BY <1>4, <1>5

(* A request that ends without having written.                             *)
LEMMA AnswerInv ==
  ASSUME ProjectsIInv, NEW r \in Editors, Answer(r),
         UNCHANGED <<current, former, projectRows, asked, removed>>, crossed \subseteq crossed'
  PROVE  ProjectsIInv'
<1> USE DEF ProjectsIInv
<1>1. doing' = [doing EXCEPT ![r] = "idle"] /\ held' = [held EXCEPT ![r] = Nothing]
  BY DEF Answer, Then
<1>2. RowsInv'
  BY <1>1, RowsLocal
<1>3. /\ doing'[r] = "idle"
      /\ \A q \in Editors : q # r => doing'[q] = doing[q] /\ held'[q] = held[q]
  BY <1>1 DEF RowsInv, ProjectsTypeOK, LocalsSound
<1>4. EditsInv'
  BY <1>3, EditsFrame DEF Edits, projectRows
<1> QED
  BY <1>2, <1>4

(* Nobody edits a project before it is there.                              *)
LEMMA InsertInv == ASSUME ProjectsIInv, NEW r \in Editors, ProjectInsert(r) PROVE ProjectsIInv'
<1> USE DEF ProjectsIInv
<1>1. CASE UNCHANGED <<projectRows, asked>>
  BY <1>1, AnswerInv DEF ProjectInsert
<1>2. ASSUME NEW p \in ProjectIds, createdBy[p] = Nothing,
             projects' = projects \cup {p},
             column' = [column EXCEPT ![p] = held[r].dto],
             createdBy' = [createdBy EXCEPT ![p] = held[r].user],
             asked' = [asked EXCEPT ![p] = held[r].dto]
      PROVE  ProjectsIInv'
  <2>1. /\ doing[r] = "insert" /\ held[r].user \in former /\ held[r].dto \in ProjectRow
        /\ held[r].user \in Users /\ held[r].user # Nothing
    BY ProjectsAssumption DEF ProjectInsert, RowsInv, ProjectsTypeOK, LocalsSound, Given
  <2>2. /\ doing' = [doing EXCEPT ![r] = "idle"] /\ held' = [held EXCEPT ![r] = Nothing]
        /\ UNCHANGED <<current, former, removed, crossed>>
    BY DEF ProjectInsert, Answer, Then
  <2>3. /\ doing'[r] = "idle" /\ held'[r] = Nothing
        /\ held' = [q \in Editors |-> held'[q]]
        /\ \A q \in Editors : q # r => doing'[q] = doing[q] /\ held'[q] = held[q]
    BY <2>2 DEF RowsInv, ProjectsTypeOK, LocalsSound
  <2>4. /\ column'[p] = held[r].dto /\ createdBy'[p] = held[r].user /\ asked'[p] = held[r].dto
        /\ asked' = [n \in ProjectIds |-> asked'[n]]
        /\ \A n \in ProjectIds : n # p =>
             column'[n] = column[n] /\ createdBy'[n] = createdBy[n] /\ asked'[n] = asked[n]
    BY <1>2 DEF RowsInv, ProjectsTypeOK, HistorySound
  <2>5. HandedOut' = HandedOut \cup {p} /\ p \notin HandedOut /\ p \notin projects
    BY <1>2, <2>1, <2>4, ProjectsAssumption DEF HandedOut, RowsInv, ProjectsTypeOK
  <2>6. ProjectsTypeOK'
    BY <1>2, <2>1, <2>2, <2>3, <2>4 DEF RowsInv, ProjectsTypeOK
  <2>7. HistorySound' /\ LocalsSound'
    <3>1. HistorySound'
      BY <2>1, <2>2, <2>4, <2>5 DEF RowsInv, HistorySound, HandedOut
    <3>2. LocalsSound'
      BY <2>2, <2>3, <2>5 DEF RowsInv, LocalsSound, Given
    <3> QED
      BY <3>1, <3>2
  <2>8. \A q \in Editors, n \in ProjectIds : Edits(q, n)' => q # r /\ Edits(q, n) /\ n # p
    BY <2>3, <2>5 DEF Edits, RowsInv, LocalsSound, Given
  <2>9. EditsAlone'
    BY <2>2, <2>8 DEF EditsInv, EditsAlone
  <2>10. EditsCurrent'
    <3> SUFFICES ASSUME NEW n \in ProjectIds \ crossed, NEW q \in Editors, Edits(q, n)'
                 PROVE  /\ n \in projects'
                        /\ held'[q].entity = Assigned(column'[n], held'[q].dto)
                        /\ doing'[q] = "write" => held'[q].base = column'[n]
      BY <2>2 DEF EditsCurrent, Assigned
    <3>1. q # r /\ Edits(q, n) /\ n # p
      BY <2>8
    <3> QED
      BY <3>1, <1>2, <2>3, <2>4 DEF EditsInv, EditsCurrent
  <2>11. AsLastAsked' /\ RemovedForGood'
    <3>1. AsLastAsked'
      BY <1>2, <2>2, <2>4 DEF EditsInv, AsLastAsked, RowsInv, ProjectsTypeOK
    <3>2. RemovedForGood'
      BY <1>2, <2>2, <2>5 DEF EditsInv, RemovedForGood, RowsInv, HistorySound
    <3> QED
      BY <3>1, <3>2
  <2> QED
    BY <2>6, <2>7, <2>9, <2>10, <2>11 DEF RowsInv, EditsInv
<1> QED
  BY <1>1, <1>2 DEF ProjectInsert

(* The entity is read; if another request holds one, they cross.           *)
LEMMA FindInv == ASSUME ProjectsIInv, NEW r \in Editors, ProjectFind(r) PROVE ProjectsIInv'
<1> USE DEF ProjectsIInv
<1>1. CASE Answer(r) /\ UNCHANGED crossed
  BY <1>1, AnswerInv DEF ProjectFind
<1>2. CASE /\ held[r].id \in projects
           /\ held' = [held EXCEPT ![r].entity = Assigned(column[held[r].id], held[r].dto)]
           /\ Then(r, "select")
           /\ crossed' = IF Editing(r, held[r].id) = {} THEN crossed ELSE crossed \cup {held[r].id}
  <2> PICK p \in ProjectIds : p = held[r].id
    BY DEF ProjectFind, RowsInv, LocalsSound, Given, HandedOut
  <2> PICK c : c = [held[r] EXCEPT !.entity = Assigned(column[p], held[r].dto)]
    OBVIOUS
  <2>1. doing[r] = "find" /\ held[r] \in Held /\ p \in projects /\ column[p] \in ProjectRow
    BY <1>2 DEF ProjectFind, RowsInv, ProjectsTypeOK
  <2>2. /\ c \in Held /\ c.id = p /\ c.dto = held[r].dto /\ c.entity \in Entity
        /\ c.entity = Assigned(column[p], held[r].dto)
    BY <2>1, AssignedEntity DEF Held
  <2>3. /\ held' = [held EXCEPT ![r] = c] /\ doing' = [doing EXCEPT ![r] = "select"]
        /\ UNCHANGED <<current, former, projectRows, asked, removed>>
    BY <1>2 DEF ProjectFind, Then
  <2>4. Given("select", c)
    BY <2>1, <2>2 DEF Given, RowsInv, LocalsSound
  <2>5. RowsInv'
    BY <2>2, <2>3, <2>4, RowsLocal
  <2>6. /\ doing'[r] = "select" /\ held'[r] = c
        /\ \A q \in Editors : q # r => doing'[q] = doing[q] /\ held'[q] = held[q]
    BY <2>3 DEF RowsInv, ProjectsTypeOK, LocalsSound
  <2>7. /\ crossed \subseteq crossed'
        /\ p \notin crossed' => \A q \in Editors : q # r => ~ Edits(q, p)
    BY <1>2 DEF Editing, Edits
  <2>8. /\ \A q \in Editors, n \in ProjectIds : q # r => (Edits(q, n)' <=> Edits(q, n))
        /\ \A n \in ProjectIds : Edits(r, n)' <=> n = p
    BY <2>2, <2>6 DEF Edits
  <2>9. EditsAlone'
    BY <2>7, <2>8 DEF EditsInv, EditsAlone
  <2>10. EditsCurrent'
    <3> SUFFICES ASSUME NEW n \in ProjectIds \ crossed', NEW q \in Editors, Edits(q, n)'
                 PROVE  /\ n \in projects
                        /\ held'[q].entity = Assigned(column[n], held'[q].dto)
                        /\ doing'[q] = "write" => held'[q].base = column[n]
      BY <2>3 DEF EditsCurrent, Assigned, projectRows
    <3>1. CASE q = r
      BY <3>1, <2>1, <2>2, <2>6, <2>8
    <3>2. CASE q # r
      BY <3>2, <2>6, <2>7, <2>8 DEF EditsInv, EditsCurrent
    <3> QED
      BY <3>1, <3>2
  <2>11. AsLastAsked' /\ RemovedForGood'
    BY <2>3, <2>7 DEF EditsInv, AsLastAsked, RemovedForGood, projectRows
  <2> QED
    BY <2>5, <2>9, <2>10, <2>11 DEF EditsInv
<1> QED
  BY <1>1, <1>2 DEF ProjectFind, Found

(* The SELECT of save reads what the first query read.                     *)
LEMMA SelectInv == ASSUME ProjectsIInv, NEW r \in Editors, ProjectSelect(r) PROVE ProjectsIInv'
<1> USE DEF ProjectsIInv
<1> PICK p \in ProjectIds : p = held[r].id
  BY DEF ProjectSelect, RowsInv, LocalsSound, Given, HandedOut
<1> PICK row : row = IF p \in projects THEN column[p] ELSE Nothing
  OBVIOUS
<1> PICK c : c = [held[r] EXCEPT !.base = row]
  OBVIOUS
<1>1. doing[r] = "select" /\ held[r] \in Held /\ held[r].entity \in Entity
  BY DEF ProjectSelect, RowsInv, ProjectsTypeOK
<1>2. row \in ProjectRow \cup {Nothing}
  BY DEF RowsInv, ProjectsTypeOK
<1>3. /\ c \in Held /\ c.id = p /\ c.dto = held[r].dto /\ c.entity = held[r].entity
      /\ c.base = row
  BY <1>1, <1>2 DEF Held
<1>4. /\ held' = [held EXCEPT ![r] = c] /\ doing' = [doing EXCEPT ![r] = "write"]
      /\ UNCHANGED <<current, former, projectRows, hist>>
  BY DEF ProjectSelect, Then
<1>5. Given("write", c)
  BY <1>1, <1>3 DEF Given, RowsInv, LocalsSound
<1>6. RowsInv'
  BY <1>1, <1>3, <1>4, <1>5, RowsLocal DEF hist
<1>7. /\ doing'[r] = "write" /\ held'[r] = c
      /\ \A q \in Editors : q # r => doing'[q] = doing[q] /\ held'[q] = held[q]
  BY <1>4 DEF RowsInv, ProjectsTypeOK, LocalsSound
<1>8. \A q \in Editors, n \in ProjectIds : Edits(q, n)' <=> Edits(q, n)
  <2>1. \A n \in ProjectIds : (Edits(r, n)' <=> n = p) /\ (Edits(r, n) <=> n = p)
    BY <1>1, <1>3, <1>7 DEF Edits
  <2>2. \A q \in Editors, n \in ProjectIds : q # r => (Edits(q, n)' <=> Edits(q, n))
    BY <1>7 DEF Edits
  <2> QED
    BY <2>1, <2>2
<1>9. EditsAlone'
  BY <1>4, <1>8 DEF EditsInv, EditsAlone, hist
<1>10. EditsCurrent'
  <2> SUFFICES ASSUME NEW n \in ProjectIds \ crossed, NEW q \in Editors, Edits(q, n)'
               PROVE  /\ n \in projects
                      /\ held'[q].entity = Assigned(column[n], held'[q].dto)
                      /\ doing'[q] = "write" => held'[q].base = column[n]
    BY <1>4 DEF EditsCurrent, Assigned, projectRows, hist
  <2>1. /\ n \in projects /\ held[q].entity = Assigned(column[n], held[q].dto)
        /\ doing[q] = "write" => held[q].base = column[n]
    BY <1>8 DEF EditsInv, EditsCurrent
  <2>2. CASE q = r
    <3>1. n = p
      BY <2>2, <1>3, <1>7 DEF Edits
    <3> QED
      BY <3>1, <2>1, <2>2, <1>3, <1>7
  <2>3. CASE q # r
    BY <2>1, <2>3, <1>7
  <2> QED
    BY <2>2, <2>3
<1>11. AsLastAsked' /\ RemovedForGood'
  BY <1>4 DEF EditsInv, AsLastAsked, RemovedForGood, projectRows, hist
<1> QED
  BY <1>6, <1>9, <1>10, <1>11 DEF EditsInv

(* The only request that edits a project nobody crossed writes what it was *)
(* asked to over what is in the table.                                     *)
LEMMA WriteInv == ASSUME ProjectsIInv, NEW r \in Editors, ProjectWrite(r) PROVE ProjectsIInv'
<1> USE DEF ProjectsIInv
<1> PICK p \in HandedOut : p = held[r].id
  BY DEF ProjectWrite, RowsInv, LocalsSound, Given
<1> DEFINE c == held[r]
           inserts == c.base = Nothing /\ p \notin projects
           updates == c.base # Nothing /\ p \in projects
           new == IF inserts THEN c.entity
                  ELSE [f \in Fields |-> IF c.entity[f] = c.base[f] THEN column[p][f] ELSE c.entity[f]]
           want == [f \in Fields |-> IF c.dto[f] = Absent THEN asked[p][f] ELSE c.dto[f]]
<1>1. /\ doing[r] = "write" /\ c \in Held /\ c.entity \in Entity /\ p \in ProjectIds
      /\ Edits(r, p)
  BY DEF ProjectWrite, Edits, RowsInv, ProjectsTypeOK, HandedOut
<1>2. CASE UNCHANGED <<projectRows, asked>>
  BY <1>2, AnswerInv DEF ProjectWrite
<1>3. CASE /\ inserts \/ updates
           /\ c.entity \in ProjectRow
           /\ projects' = projects \cup {p}
           /\ column' = [column EXCEPT ![p] = new]
           /\ asked' = [asked EXCEPT ![p] = want]
           /\ UNCHANGED createdBy
  <2>1. new \in ProjectRow
    <3>1. CASE inserts
      BY <3>1, <1>3
    <3>2. CASE updates
      <4>1. column[p] \in ProjectRow
        BY <3>2 DEF RowsInv, ProjectsTypeOK
      <4>2. "name" \in Fields
        BY DEF Fields
      <4>3. new = [f \in Fields |-> IF c.entity[f] = c.base[f] THEN column[p][f] ELSE c.entity[f]]
        BY <3>2
      <4> HIDE DEF new
      <4> QED
        BY <4>1, <4>2, <4>3, <1>3 DEF ProjectRow, Entity
    <3> QED
      BY <1>3, <3>1, <3>2
  <2>2. p \notin crossed =>
          /\ p \in projects /\ c.base = column[p] /\ c.entity = Assigned(column[p], c.dto)
          /\ asked[p] = column[p]
    BY <1>1 DEF EditsInv, EditsCurrent, AsLastAsked
  <2>3. p \notin crossed => new = want
    <3> SUFFICES ASSUME p \notin crossed PROVE new = want
      OBVIOUS
    <3>1. \A f \in Fields :
            (IF c.entity[f] = c.base[f] THEN column[p][f] ELSE c.entity[f]) =
            IF c.dto[f] = Absent THEN asked[p][f] ELSE c.dto[f]
      BY <2>2 DEF Assigned
    <3> QED
      BY <3>1, <2>2
  <2> HIDE DEF new, want
  <2>4. /\ doing' = [doing EXCEPT ![r] = "idle"] /\ held' = [held EXCEPT ![r] = Nothing]
        /\ UNCHANGED <<current, former, removed, crossed>>
    BY DEF ProjectWrite, Answer, Then
  <2>5. /\ doing'[r] = "idle" /\ held'[r] = Nothing
        /\ held' = [q \in Editors |-> held'[q]]
        /\ \A q \in Editors : q # r => doing'[q] = doing[q] /\ held'[q] = held[q]
    BY <2>4 DEF RowsInv, ProjectsTypeOK, LocalsSound
  <2>6. /\ column'[p] = new /\ asked'[p] = want
        /\ asked' = [n \in ProjectIds |-> asked'[n]]
        /\ \A n \in ProjectIds : n # p => column'[n] = column[n] /\ asked'[n] = asked[n]
    BY <1>1, <1>3 DEF RowsInv, ProjectsTypeOK, HistorySound
  <2>7. HandedOut' = HandedOut
    BY <1>3 DEF HandedOut
  <2>8. ProjectsTypeOK'
    <3>1. column' \in [ProjectIds -> ProjectRow \cup {Nothing}]
      BY <1>3, <2>1 DEF RowsInv, ProjectsTypeOK
    <3>2. \A n \in projects' : n \in ProjectIds /\ createdBy[n] \in former /\ column'[n] \in ProjectRow
      BY <1>1, <1>3, <2>1, <2>6 DEF RowsInv, ProjectsTypeOK, HistorySound
    <3>3. /\ doing' \in [Editors -> {"idle", "insert", "find", "delete"} \cup EditSteps]
          /\ \A q \in Editors : IF doing'[q] = "idle" THEN held'[q] = Nothing ELSE held'[q] \in Held
          /\ \A q \in Editors : doing'[q] = "insert" => held'[q].user # Nothing
          /\ \A q \in Editors : doing'[q] \in EditSteps => held'[q].entity \in Entity
      BY <2>4, <2>5 DEF RowsInv, ProjectsTypeOK
    <3> QED
      BY <3>1, <3>2, <3>3, <1>3, <2>4 DEF RowsInv, ProjectsTypeOK
  <2>9. HistorySound' /\ LocalsSound'
    BY <1>3, <2>4, <2>5, <2>6, <2>7 DEF RowsInv, HistorySound, LocalsSound, Given
  <2>10. \A q \in Editors, n \in ProjectIds \ crossed : Edits(q, n)' => q # r /\ Edits(q, n) /\ n # p
    <3> SUFFICES ASSUME NEW q \in Editors, NEW n \in ProjectIds \ crossed, Edits(q, n)'
                 PROVE  q # r /\ Edits(q, n) /\ n # p
      OBVIOUS
    <3>1. q # r /\ Edits(q, n)
      BY <2>5 DEF Edits
    <3> QED
      BY <3>1, <1>1 DEF EditsInv, EditsAlone
  <2>11. EditsAlone'
    BY <2>4, <2>10 DEF EditsInv, EditsAlone
  <2>12. EditsCurrent'
    <3> SUFFICES ASSUME NEW n \in ProjectIds \ crossed, NEW q \in Editors, Edits(q, n)'
                 PROVE  /\ n \in projects'
                        /\ held'[q].entity = Assigned(column'[n], held'[q].dto)
                        /\ doing'[q] = "write" => held'[q].base = column'[n]
      BY <2>4 DEF EditsCurrent, Assigned
    <3>1. q # r /\ Edits(q, n) /\ n # p
      BY <2>10
    <3> QED
      BY <3>1, <1>3, <2>5, <2>6 DEF EditsInv, EditsCurrent
  <2>13. AsLastAsked'
    <3> SUFFICES ASSUME NEW n \in projects' \ crossed PROVE column'[n] = asked'[n]
      BY <2>4 DEF AsLastAsked
    <3>1. CASE n = p
      BY <3>1, <2>3, <2>6
    <3>2. CASE n # p
      BY <3>2, <1>3, <2>6 DEF EditsInv, AsLastAsked, RowsInv, ProjectsTypeOK
    <3> QED
      BY <3>1, <3>2
  <2>14. RemovedForGood'
    BY <1>3, <2>2, <2>4 DEF EditsInv, RemovedForGood
  <2> QED
    BY <2>8, <2>9, <2>11, <2>12, <2>13, <2>14 DEF RowsInv, EditsInv
<1> QED
  BY <1>2, <1>3 DEF ProjectWrite

(* Unless it crosses an edit, nobody holds the row that is deleted.        *)
LEMMA DeleteInv == ASSUME ProjectsIInv, NEW r \in Editors, ProjectDelete(r) PROVE ProjectsIInv'
<1> USE DEF ProjectsIInv
<1> PICK p \in HandedOut : p = held[r].id
  BY DEF ProjectDelete, RowsInv, LocalsSound, Given
<1>1. /\ doing[r] = "delete" /\ projects' = projects \ {p} /\ removed' = removed \cup {p}
      /\ crossed' = IF Editing(r, p) = {} THEN crossed ELSE crossed \cup {p}
      /\ UNCHANGED <<current, former, column, createdBy, asked>>
      /\ doing' = [doing EXCEPT ![r] = "idle"] /\ held' = [held EXCEPT ![r] = Nothing]
  BY DEF ProjectDelete, Answer, Then
<1>2. /\ doing'[r] = "idle" /\ held'[r] = Nothing
      /\ held' = [q \in Editors |-> held'[q]]
      /\ \A q \in Editors : q # r => doing'[q] = doing[q] /\ held'[q] = held[q]
  BY <1>1 DEF RowsInv, ProjectsTypeOK, LocalsSound
<1>3. ProjectsTypeOK'
  BY <1>1, <1>2 DEF RowsInv, ProjectsTypeOK
<1>4. HistorySound' /\ LocalsSound'
  <2>1. HandedOut' = HandedOut
    BY <1>1 DEF HandedOut
  <2> QED
    BY <1>1, <1>2, <2>1 DEF RowsInv, HistorySound, LocalsSound, Given
<1>5. /\ crossed \subseteq crossed'
      /\ \A q \in Editors, n \in ProjectIds \ crossed' : Edits(q, n)' => q # r /\ Edits(q, n) /\ n # p
  BY <1>1, <1>2 DEF Editing, Edits
<1>6. EditsAlone'
  BY <1>5 DEF EditsInv, EditsAlone
<1>7. EditsCurrent'
  <2> SUFFICES ASSUME NEW n \in ProjectIds \ crossed', NEW q \in Editors, Edits(q, n)'
               PROVE  /\ n \in projects'
                      /\ held'[q].entity = Assigned(column[n], held'[q].dto)
                      /\ doing'[q] = "write" => held'[q].base = column[n]
    BY <1>1 DEF EditsCurrent, Assigned
  <2> QED
    BY <1>1, <1>2, <1>5 DEF EditsInv, EditsCurrent
<1>8. AsLastAsked' /\ RemovedForGood'
  BY <1>1, <1>5 DEF EditsInv, AsLastAsked, RemovedForGood
<1> QED
  BY <1>3, <1>4, <1>6, <1>7, <1>8 DEF RowsInv, EditsInv

LEMMA MembersInv ==
  ASSUME ProjectsIInv, MembersNext \/ UNCHANGED <<current, former>>,
         UNCHANGED <<projectRows, doing, held, hist>>
  PROVE  ProjectsIInv'
<1> USE DEF ProjectsIInv, projectRows, hist
<1>1. current' \subseteq former' /\ former \subseteq former' /\ former' \subseteq Users
  BY DEF MembersNext, Join, Leave, RowsInv, ProjectsTypeOK
<1>2. ProjectsTypeOK'
  BY <1>1 DEF RowsInv, ProjectsTypeOK
<1>3. HistorySound' /\ LocalsSound'
  BY <1>1 DEF RowsInv, HistorySound, LocalsSound, Given, HandedOut
<1>4. EditsInv'
  BY EditsFrame DEF Edits
<1> QED
  BY <1>2, <1>3, <1>4 DEF RowsInv

LEMMA ProjectsNextInv == ProjectsIInv /\ [ProjectsNext]_projectVars => ProjectsIInv'
<1> SUFFICES ASSUME ProjectsIInv, [ProjectsNext]_projectVars PROVE ProjectsIInv'
  OBVIOUS
<1>1. ASSUME NEW r \in Editors, ProjectFails(r) PROVE ProjectsIInv'
  BY <1>1, AnswerInv DEF ProjectFails, hist
<1>2. CASE UNCHANGED projectVars
  BY <1>2, MembersInv DEF projectVars
<1> QED
  BY <1>1, <1>2, StartInv, InsertInv, FindInv, SelectInv, WriteInv, DeleteInv, MembersInv
     DEF ProjectsNext

-----------------------------------------------------------------------------

(* The inductive invariant of the projects.                                *)
THEOREM ProjectsInvariance == ProjectsSpec => []ProjectsIInv
  BY ProjectsInitInv, ProjectsNextInv, PTL DEF ProjectsSpec

(* update (projects.service.ts): for any number of edits, a field keeps    *)
(* what its last edit asked for unless requests about it crossed.          *)
THEOREM EditsStay == ProjectsSpec => []AsLastAsked
<1>1. ProjectsIInv => AsLastAsked
  BY DEF ProjectsIInv, EditsInv
<1> QED
  BY <1>1, ProjectsInvariance, PTL

(* remove: a project no edit crossed does not come back.                   *)
THEOREM RemovalStays == ProjectsSpec => []RemovedForGood
<1>1. ProjectsIInv => RemovedForGood
  BY DEF ProjectsIInv, EditsInv
<1> QED
  BY <1>1, ProjectsInvariance, PTL

-----------------------------------------------------------------------------
(***************************************************************************)
(* Side by side, patches and projects are what each of them is alone.  The *)
(* steps of the members are steps of both.                                 *)
(***************************************************************************)

LEMMA WorkspaceParts == WorkspaceSpec => UpdatesSpec /\ ProjectsSpec
<1>1. WorkspaceInit => UpdatesInit /\ ProjectsInit
  BY DEF WorkspaceInit
<1>2. [WorkspaceNext]_<<part, vars, projectVars>> => [UpdatesNext]_vars
  <2>1. ASSUME ProjectsNext, UNCHANGED patchVars PROVE [UpdatesNext]_vars
    <3>1. MembersNext \/ UNCHANGED <<current, former>>
      BY <2>1
         DEF ProjectsNext, ProjectStart, ProjectInsert, ProjectFind, ProjectSelect,
             ProjectWrite, ProjectDelete, ProjectFails, Guarded
    <3> QED
      BY <2>1, <3>1 DEF UpdatesNext, vars, team
  <2> QED
    BY <2>1 DEF WorkspaceNext, vars
<1>3. [WorkspaceNext]_<<part, vars, projectVars>> => [ProjectsNext]_projectVars
  BY DEF WorkspaceNext, UpdatesNext, ProjectsNext, projectVars, team, vars
<1> QED
  BY <1>1, <1>2, <1>3, PTL DEF WorkspaceSpec, UpdatesSpec, ProjectsSpec

(* No request leaves a column, a job or a local of either part with a      *)
(* value of another type, or a project that no member ever created.        *)
THEOREM WorkspaceTypeCorrect == WorkspaceSpec => []WorkspaceTypeOK
<1>1. ProjectsIInv => ProjectsTypeOK
  BY DEF ProjectsIInv, RowsInv
<1> QED
  BY <1>1, WorkspaceParts, UpdatesTypesCorrect, ProjectsInvariance, PTL DEF WorkspaceTypeOK

=============================================================================
