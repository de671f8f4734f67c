# TaskFlow: TLA+ models and proofs

TaskFlow is a task manager: a NestJS API over PostgreSQL (TypeORM), a BullMQ
queue on Redis, and Socket.IO for pushes. This directory holds TLA+ models of
its stateful parts, the TLC configurations that check them, and TLAPS proofs.
Paths below are relative to the repository root (`src/tasks/...` is code of the
application).

Two facts about the runtime shape every model:

* A request handler runs alone between two `await`s and interleaves with other
  handlers at each of them. Several application instances may run
  (ARCHITECTURE.md:119). So a handler is modelled with **one action per
  statement it sends**, together with the code up to the next `await`.
* `repo.save(entity)` of an entity with an id is a SELECT by primary key followed
  by an UPDATE of the columns that differ from the selected row, or by an INSERT
  of the whole entity if the row is gone. Nothing locks or versions a row. No
  code of the repository opens a transaction except workspace creation.

## Inventory

| Part | State | Operations | Talks to | Hard behaviour | Correct when |
|---|---|---|---|---|---|
| Subtask tree (`src/tasks/tasks.service.ts`, `task-entity.ts`, migration CreateTasks) | rows of `tasks` with `parentTaskId`, `projectId`; cascading foreign keys | create, update (move), remove, getSubtree; helpers getDepth, isAncestor | projects (cascade) | checks and write are separate statements; `save` writes back what it read; recursive queries without a visited set | a forest; parents in the same project; depth at most 5; queries end and answer right |
| Task fields (`tasks.service.ts` 228-379) | status, completedAt, assigneeId, ... | create, update | members (check), activities, queue | two snapshots merged column by column; row saved, then events, then queue | DONE iff completedAt; every change of assignee notified once |
| Projects (`src/projects`, its `WorkspaceMemberGuard`) | rows of `projects` | create, list, update, remove | members (guard), tasks (cascade) | guard and handler are separate statements; `save` writes back what it read; deletion under requests in flight | only members create; edits stay, deletions are final; no task without project |
| Workspaces and members (`src/workspaces`) | workspaces, memberships with roles | create (transaction), addMember, updateMemberRole, removeMember | every guarded route; assignees | check-then-write; resurrection by `save` | one OWNER for ever; one membership per user; removed stays removed |
| Comments (`src/comments`) | comments, one level of replies | create, update, remove | tasks (cascade), queue (mentions), activities | parent or task deleted under a reply; a stale save brings a comment back; create dies half way | replies one level deep; one notification per mention; only authors take a comment away |
| Notification queue and processor (`src/app.module.ts`, `src/queues`, `src/notifications`) | BullMQ lists, locks, attempts; `notifications` rows | add; process = store row, push; retry | gateway, all producers | crashes, lost locks, retries, retention limits | no job lost, each ends; copies only with a cause |
| Due reminders (`src/scheduler`) | none; the clock and the job ids | scan every 5 minutes | tasks, queue | several instances, missed and dying scans, tasks that change; de-duplication by job id | a completed scan in the last hour is enough; wrong only if the task changed since |
| Auth (`src/auth`, `src/users`) | users, refresh tokens | register, login, refresh, logout, logoutAll | every route | rotation in two statements; requests with one token at a time | a session has one valid token; logout ends it; nothing else does |
| Notification lists, gateway, activity log (`src/notifications`, `src/gateway`, `src/activities`) | `notifications` and `activities` rows; sockets in rooms per instance | list pages, mark read; connect, disconnect, emitToUser; record | processor, clients | rows that come in or are marked between two pages; connecting while something is pushed | a reader of all pages misses nothing; stored before pushed |
| Health, configuration, DTOs | none | | | | not modelled |

`PROJECT.json` lists the hazards of these parts line by line.

## Modules

| Module | What it is |
|---|---|
| `Forest` | Operators over the adjacency list of the `tasks` table. The recursive queries are closed forms: least fixpoints over sets of rows, total on cyclic tables. |
| `TreeQueries` | The three `WITH RECURSIVE` queries evaluated level by level on any table, against the closed forms of `Forest`. |
| `TaskForest` | The abstract service: each request is one indivisible step. |
| `TaskTree` | The service as it runs: `pc[r]` is the next statement of request `r` and `ctx[r]` its locals. |
| `ForestProofs` | Lemmas about the operators of `Forest`, and induction over numbers; the other proofs use them. |
| `TaskTreeProofs`, `TreeQueriesProofs`, `AccountsProofs`, `WorkspaceProofs`, `CommentsProofs`, `NotificationQueueProofs`, `RemindersProofs` | Theorems (below), for the modules their name says. |
| `Members` | What the rest relies on about members: the creator stays, others come and go. |
| `Membership` | WorkspacesService over the rows of `workspace_members`; implements `Members`. |
| `TaskUpdates` | Patches of one task's status and assignee with their activity rows and jobs, over `Members`. |
| `Projects` | ProjectsService behind the guard, over the rows of `projects` and `Members`. |
| `Comments` | CommentsService: threads, mentions, activity rows; `Forest` with one level for the cascade. |
| `RefreshTokens` | Registration, and the refresh tokens of a session: issue, rotate, revoke, expire. |
| `NotificationQueue` | The BullMQ queue as configured in `app.module.ts`, and `NotificationsProcessor.process`. |
| `ReminderScan` | The scans of `TaskSchedulerService` over a clock, while tasks change. |
| `Inbox` | How rows reach readers: pages of the lists, read marks, sockets and pushes of several instances. |
| `MCTaskTree`, `MCTaskTreeHistory`, `MCComments`, `MCNotificationQueue` | Values and symmetry sets for TLC; the second adds to `TaskTree` what requests so far asked of `parentTaskId` (`asked`), and whether a `save` brought back a deleted task (`revived`). |
| `MCAccounts`, `MCWorkspace`, `MCReminders` | Two modules in one run each: `RefreshTokens` and `Membership`; `TaskUpdates` and `Projects`; `ReminderScan` and `Inbox`. |
| `MCComponents` | Three in one run: `TaskTree` with one request, `TreeQueries` on a snapshot of its own, and `NotificationQueue`. |

In the last four no part reads what another writes, so interleaving them would show
nothing: the constant variable `part` picks the part whose steps a behaviour takes. What
does interact is composed: `Membership` implements `Members`, and `TaskUpdates` and
`Projects` run over `Members`, so what holds there holds over `Membership`. `TaskTree`
contains the cascade of projects, and `Comments` what `TaskTree` may do to a task.

Operators whose comment starts with "Mutant" are no part of the system: each is a
plausible bug of the definition that follows it, and some property of a run fails
when it takes that definition's place.

### The tree

`TaskForest.tasks`, `parent`, `project` and `projects` are the rows and columns of
the two tables. A deleted row keeps its last column values, so that a request in
flight that still holds the entity can be compared with it; `project[t] = Null`
marks an id that was never handed out (ids are UUIDs and never reused).
`RemoveTask` and `RemoveProject` are the DELETE with its `ON DELETE CASCADE`.

| Action of `TaskTree` | Code |
|---|---|
| `CreateStart`, `CreateFindParent`, `CreateCheckDepth`, `CreateInsert` | `TasksService.create`: 131-148, 149-154, 155-160, 163-175 |
| `UpdateStart` | `update`: findById at 235; the self-parent check at 257 |
| `UpdateFindParent`, `UpdateCheckCycle`, `UpdateCheckDepth` | 260-267, 269-273, 274-280 |
| `SaveSelect`, `SaveWrite` | the two statements of `save` at 297 |
| `DeleteTask`, `DeleteProject` | `remove`: 381-384, and projects.service.ts 55-58 |
| `Abort` | any await rejects, or the process dies |

A failed check replies and forgets the locals (`Check`, `Reply`). `hung` is a request
whose `isAncestor` query walks a cycle for ever. Foreign keys are checked by the
writing statement itself (`ForeignKeysHold`). Title, status and the other columns are
left out: no condition on the tree reads them. A PATCH without `parentTaskId`
(`Undefined`) is in, because its `save` writes the column too.

### Members

`members`, `user` and `role` are the rows and columns of `workspace_members`; deleted rows
keep their values as in the tree. `AddStart/Find/Insert`, `RoleStart/Find/Select/Write` and
`RemoveStart/Find/Delete` are the statements of `addMember` (76-108), `updateMemberRole`
(118-140) and `removeMember` (142-158). A caller who may not manage members changes
nothing, so only the others' requests start. `UniqueHolds` is the index
`UQ_workspace_user`. The transaction of `create` is the initial state.

### Patches of a task

`task` is the row, `at[x]` the next statement of patch `x`: `PatchStart` (findById, the
edits), `PatchCheck` (the assignee's membership), `PatchSelect` and `PatchWrite` (`save`),
`PatchRecord` (one activity row), `PatchQueueAssigned`, `PatchQueueStatus` (`queue.add`).
`PatchReject` and `PatchLose` end a patch before and after its write. `Remove` deletes the
task; a later `save` may bring it back. `created`, `raced` and `vouched` are history: what the
task was at first, whether a patch ever ran next to another writer, and whom a patch found to
be a member of another workspace. For the URL names a workspace, a project and a task, and
`update` finds the task by the last two (235) but the assignee's membership by the first (243):
`PatchCheck` therefore asks either the task's own workspace, whose members are modelled, or
another, which may answer anything. The members are
those of `Members`, which `Membership` implements, so what holds here holds of the two
together.

### The queue

`waiting`, `delayed`, `active`, `completed` and `failed` are BullMQ's lists; its
behaviour is modelled from the documented semantics of the version the repository
uses (external in the map). `step[w]` is what the handler of instance `w` does next:
`save` (the INSERT), `push` (emitToUser), then the queue is told `complete` or
`fail`. `Crash` ends a handler anywhere; `LoseLock` lets its lock expire while it
goes on; `Save` may commit and yet fail for the handler. The processor's early return for a job
without a recipient (60-65) is left out: every producer names one. An event job has an id of
its own; a reminder's id can be added again by every scan of the hour.

### Projects

A request is the guard's query (`ProjectStart`, workspace-member.guard.ts 21-46), then
`ProjectInsert` (`create`), `ProjectFind`, `ProjectSelect`, `ProjectWrite` (`update`), or
`ProjectDelete` (`remove`). A field of a body is `Absent`, null (`Nothing`) or a text:
`@IsOptional` lets null pass, `Object.assign` (51) copies it, and the database refuses it for
the name. `MembersNext` lets members go between them. `asked`, `removed`
and `crossed` are history: what was last asked of each field, what was deleted, and which
projects were ever edited while another request edited or deleted them. A project that a
stale save brings back is not in `TaskTree`, where a deleted project stays deleted; it has no tasks.

### Comments

| Action of `Comments` | Code (comments.service.ts) |
|---|---|
| `CreateStart`, `FindParent`, `Insert` | `create`: 49-58, 58-69, 71-77 |
| `Record`, `Mention` | the activity row 79-88; one `queue.add` of the loop 90-108; the handler returns after the last |
| `ChangeStart` | `findOne` and the check of the author, in `update` and `remove` |
| `EditSelect`, `EditWrite` | `save` at 130 |
| `Delete` | 139, with the cascade to replies |
| `RemoveTask`, `RestoreTask` | what `TaskTree` does to the task |
| `Abort` | any await rejects, or the process dies |

Bodies are sequences of mentions, a mention a user in one of two spellings: the pattern
matches both cases. `posted` and `lost` are history.

### Sessions

`email` and `owner`, `revoked`, `expired` are columns of `users` and `refresh_tokens`.
`RegisterFind`, `RegisterInsert`, `IssueFirst` are registration, `Login` and `IssueFirst` a
login, `Find`, `RevokeOld`, `IssueNext` a refresh, `Find` and `Revoke` a logout.
`LogoutAll` is in the service but no route calls it. A *session* is a first token and its
successors; `loggedOut`, `died` and `overlapped` are its history. Anybody may present any
token that was issued, also an old one.

### Reminders

`now` is the clock; a scan reads it (`ScanStart`), runs its query (`ScanFind`), adds one
job per task (`ScanQueue`) and ends. It may die anywhere (`ScanAbort`), several scans are
under way at a time, and the cron need not fire. `Known` is the de-duplication by
`due_reminder:{task}:{hour}`; that BullMQ forgets ids is in `NotificationQueue`.
`ChangeTask` is anything a request may do to the columns the scan reads.

### Lists, sockets and pushes

`rows` is the common order by `createdAt`, in which a row may turn up second when it was
begun earlier and committed later; no two rows have the same `createdAt` (with equal ones the
order of a list is not determined, and pages could overlap or leave rows out). `FirstPage` and
`FurtherPage` are the query for the rows of a page, `CountRows` the query for the `total`, after
which the client asks for another page or has all; `walk` is what it saw. A list is a set of rows; the place of
one in it (`Place`) is the number of those that are not older, and a page is the places
`skip + 1` to `skip + take`. `Store`, `Push` and `Die` are the
processor seen from the readers. A job spells its recipient as the request did: the row holds
`Uuid` of the spelling, as the column's type makes it, the push goes to the room of the spelling
itself. `room[c]` is the instance client `c` is connected to,
since `emitToUser` reaches only sockets of its own instance (ARCHITECTURE.md:119).

## Runs

| Run | Question | Bounds | Result |
|---|---|---|---|
| `components` | Is one tree request at a time correct and answered, with any move? Do the queries compute the closed forms, and end exactly when they should? Is a job kept once, have duplicates a cause, how many can there be, does every job end, and when does the job id de-duplicate? | tree: 4 ids, 1 request, depth limit 2; queries: all 11,642 tables of up to 5 rows, every query about one row (ids are interchangeable), depth limit 2; queue: 1 event, 1 reminder, 2 adds, 2 instances, 2 attempts, 3 faults, one finished job kept; fairness | holds; the tree implements `TaskForest`; at most attempts + 1 stall copies |
| `tree_concurrent` | What survives any interleaving of any requests, and what until somebody moves a task? | 3 ids, 2 projects, 2 requests, depth limit 1 | scoping always; a forest until a move; depth until a PATCH of `parentTaskId` or a deleted task comes back |
| `tree_cycle` | "cycle prevention" (README.md:11) under concurrency | 2 ids, 2 requests | **violated** |
| `tree_depth` | "depth limit 5" (README.md:11) and "Throws if path > MAX" (tasks.service.ts:51), one request at a time | 3 ids, depth limit 1 | **violated** |
| `accounts` | One OWNER and one membership per user? One account per e-mail, one valid token per session, and an end of it only for a reason? | 3 users, 3 row ids, 2 requests; 2 accounts, 1 e-mail, 4 tokens, 2 requests | holds; implements `Members` |
| `workspace` | Who can be the assignee, and is he told? Do the completion time and the log agree with the row? Do edits of projects stay, and deletions? | 2 users; 2 patches, 3 statuses; 1 project, 2 requests, a description that is a text or null | holds |
| `assignee_elsewhere` | "`workspaceId` in every WHERE clause" (ARCHITECTURE.md:46): was the assignee a member of the task's workspace? | 2 users, 1 patch | **violated** |
| `comments` | One level of replies, one job per mention, no comment lost to others? | 3 ids, 2 tasks, 2 users, 2 requests, 1 create that dies after its INSERT | holds |
| `mention_cases` | "Same user mentioned twice still gets one notification" (comments.service.ts:45) | as `comments`, one id, one request | **violated** |
| `queue_evicted` | "never queue two reminders ... within the same hour" (task-scheduler.service.ts:32) | 2 reminders, one finished job kept | **violated** |
| `reminders` | Who is reminded, and rightly? What may a reader of pages miss? | 1 task, 2 users, 2 scans, hour of 2 ticks, clock to 4, due dates 3 and 4, 2 changes; 3 rows, one of them at most for another recipient or in another spelling, 2 recipients, 1 client, 2 instances, pages of 2 | holds |
| `pushed_spelling` | `notification` is sent "Whenever a notification is created for the connected user" (README.md:101) | as `reminders`, 2 rows | **violated** |

What the violations show:

* `tree_cycle`: A moves under B and B under A; both pass `isAncestor`, both save.
  The tasks then hang off no root, `listInProject` never shows them, and a later
  move under one of them makes `isAncestor` walk for ever (`hung`).
* `tree_depth`: only the new parent's depth is checked, so a task that has children
  takes them below the limit. No concurrency is needed. `getDepth` of such a task returns
  its depth, although its comment says "Throws if path > MAX" (tasks.service.ts:51): it
  counts up to `MaxDepth + 5`, also on a cycle, and 0 for a row that is gone. `getSubtree`
  stops one level below the limit, so after two such moves it leaves rows out, where
  ARCHITECTURE.md:54 says that it "traverses all levels in one query"
  (`SubtreeUntilAskedHolds` says when it does). `AnswersAgree` says what the two queries do
  return, not what is said of them.
* `mention_cases`: the pattern has the flag `i`, the `Set` compares strings: `@A...` and
  `@a...` are two mentions of one user. By the same slip an author who writes his own id
  in upper case is notified by himself.
* `queue_evicted`: with `removeOnComplete: { count: 500 }` the id of a delivered
  reminder is forgotten after 500 more jobs; the next scan in the hour adds it again.
  The run keeps one finished job instead of 500.
* `assignee_elsewhere`: `update` finds the task by its id and the project of the URL, and the
  assignee's membership by the workspace of the URL; nothing says that the project is one of
  that workspace. A patch under the URL of another workspace assigns the task to somebody who
  never was a member of its own, against ARCHITECTURE.md:46. `AssigneeWasVouched` is what is left:
  there is no third way to be assigned.
* `pushed_spelling`: the column `userId` is a uuid, so the row of a mention or assignment in
  upper case is its user's; the room is made of the string in the job, and nobody is in it.
  A client that had read its list before does not hear of the row. `ListedOrHeard` is what
  holds for the other spelling, and `CompletedIsDelivered` speaks of the emit, not of who is in the room.

What the passing runs show beside their properties, by the exceptions these need (without
the exception TLC finds a counterexample):

* Two overlapping patches can leave a completion time on an open task (each writes only
  the columns in which its snapshot differs), and a removed member stays the assignee.
* A `create` whose parent is deleted after it was found reads depth 0 (`?? 0`,
  tasks.service.ts:69). If a stale save brings the parent back before the INSERT, the
  foreign key is content and the task is below the limit: `DepthUntilAsked` excepts it
  (`revived`). It takes three requests, one more than the run has; the proof without the
  exception failed on it, and TLC confirms it with three.
* An edit of a project undoes an overlapping edit of another field, or a deletion.
* Two refreshes with one token give the session two valid tokens, and a refresh under way
  survives a logout. A process that dies between revoke and issue ends the session.
* A task reassigned in the hour of the clock in which its old assignee was reminded is not
  announced to the new one in that hour: the job id does not name the assignee.
* Marks between two pages of the unread list hide rows, at most one for each mark; pages of
  more than 100 activities leave rows out; a client is not pushed what the handler of another
  instance stored.

These contradict no document that we know of; the sentences that are contradicted are quoted
above and in the findings of `PROJECT.json`.

**Why these bounds are enough.** A cycle through two requests needs two ids; a longer
one, or one through a stale write-back, needs three. A tree one level too deep needs
`MaxDepth + 2` ids, so a depth limit of 1 (5 in the code) leaves room for it within three. An
incomplete subtree takes `MaxDepth + 3`, four, and two requests with four ids are too many
states: that subtrees are whole until somebody touches a parent is proved and not run. Two
projects are needed to cross them. A chain that `getSubtree` cuts off has `MaxDepth + 3` rows:
the five of `components`. The walks of `getDepth` go to `MaxDepth + 5`, which in that run only
cyclic tables reach. Three row ids are the creator's and two for a user who is removed, added again and brought
back; a stale snapshot of a task or project needs two requests. Three comments are a thread
and a reply too deep, two tasks a reply in the wrong place. Two refreshes that overlap and
one that follows use four tokens. The clock runs over two hours, so that a due date can be
met by scans before and after the full hour; two scans suffice for a duplicate. Three rows
make two pages of two with one row that shifts them, or hides one; that at most one of the
rows is for somebody else, or in another spelling (`OneOther`), leaves each of these its turn
and two rows for the page it disturbs. Two instances are needed for two handlers of one job; the
queue's limits (attempts, stalls, retention) are constants, set to the smallest values
at which each takes effect, and three faults are enough for a copy more than the attempts and
stall allow. With one text a description is that text or null, so an edit that is lost or
misread shows; the name is assigned and saved by the same code. `MaxAdds`, `MaxFaults`, `MaxLost`,
`MaxChanges` and `MaxTime` bound the counters (the others are bounded by the ids, which are
used once).

Deadlock checking is off in every run: a queue with no job, a service whose projects are
all deleted and whose ids are used up, and a task whose patches are all made really stop.

**Fairness.** `FairTreeSpec`: a statement sent to the database is answered, so a
request that can take its next step does (weak fairness of `Step(r)`); requests need
not arrive. A statement that never ends (`hung`) gets no such promise. `FairQueueSpec` of
`NotificationQueue`: delays expire, the stalled check runs periodically (BullMQ does
both while a worker is up), and an instance's worker goes on. `QuerySpec`: a query that can go on
does. Crashes, lost locks and
new jobs have no fairness. Runs that check liveness use no symmetry.

## Proofs

Every invariant and every action property of the passing runs is a theorem, and so are the
two refinements; of what the runs check only liveness is not proved. The theorems hold for
every set of ids, projects, users, comment bodies, due dates, jobs and page sizes, every
number of requests, scans, workers, clients and faults, every depth limit, retention and
length of the reminders' hour. They assume only the named ASSUMEs - the task ids are a finite
set without `Null`, `PatchTargets` are ids or `Null`, `Undefined` is neither; the creator is
a user, `NoUser` is none, and the creator's row has an id; bodies are sequences of mentions;
times are numbers, the hour at least one tick; limits of the queue and of pages are at least
one; `NoJob` is no job and `NoWorker` no worker; a client is signed in as a recipient, whose
id is one of the spellings and its own `Uuid`, and an activity goes to none; and `Null`, `Nothing`, `None`,
`Absent` and `Undefined` are no ids, users, e-mails, texts, numbers or dates, and differ where a
field can hold two of them - and the condition a row of the table names.

| Theorem | Statement | Argument |
|---|---|---|
| `TaskTreeProofs!TypeCorrect` | `Spec => []TypeOK` (of `TaskForest`) | action by action |
| `TaskTreeProofs!ScopingHolds`, `ForestHolds` | `Spec => []ParentInProject`, `Spec => []NoCycles` | `IInv`, their conjunction with `TypeOK`: an insert keeps the forest because nothing points to a new id, which needs scoping |
| `TaskTreeProofs!TreeInvariance`, `TreeTypeCorrect`, `TreeScoping`, `TreeLocalsScoped` | `TreeSpec => []TreeIInv`, and its conjuncts `TreeTypeOK`, `ParentInProject`, `RequestsConsistent` | one lemma per statement |
| `TaskTreeProofs!SerialImplementsForest`, `SerialNoCycles`, `SerialOnlyMovesMove` | if at most one request runs, `TreeSpec => ImplementsForest`, `[]NoCycles`, `OnlyMovesMove` | `LocalsCurrent`: what the checks found is still so at the write |
| `TaskTreeProofs!DetachingNoCycles` | if `PatchTargets` contains no id, `TreeSpec => []NoCycles` | `EdgesInv`: the parents that requests remember count as edges |
| `TaskTreeProofs!ForestUntilMovedHolds` | `HistorySpec => []ForestUntilMoved` | `EdgesInv` until somebody asks for a move |
| `TaskTreeProofs!DepthUntilAskedHolds`, `SubtreeUntilAskedHolds` | `HistorySpec => []DepthUntilAsked`, `[]SubtreeUntilAsked` | `Calm`: a save writes back what is there, a checked parent still has room |
| `TreeQueriesProofs!QueriesAgree` | `QuerySpec => []AnswersAgree` | `QueryIInv`: what each level of each query has collected |
| `AccountsProofs!MemberTypeCorrect`, `OwnerStays`, `MembershipOnce` | `MemberSpec => []MemberTypeOK`, `[]OneOwner`, `[]OneMembership` | `MemberIInv` |
| `AccountsProofs!MembersImplemented` | `MemberSpec => ImplementsMembers` | the same invariant; each write is a `Join`, a `Leave` or a stutter |
| `AccountsProofs!RotationHolds`, `LogoutIsFinal`, `NobodyLoggedOut` | `TokensSpec => []OneValidToken`, `[]LogoutEnds`, `[]EndedForAReason` | `SessionsIInv`: what the only request of a session found is still so |
| `WorkspaceProofs!AssigneesVouchedFor`, `AssigneesNotified` | `UpdatesSpec => []AssigneeWasVouched`, `[]AssigneeNotified` | `PatchesInv`: what a patch checked, and the events and jobs it still owes |
| `WorkspaceProofs!CompletionStamped`, `LogComplete` | `UpdatesSpec => []StampedWhenDone`, `[]LogAccounts` | `SerialInv`: what the only patch read is still so; changes out of and into a value are counted against each other |
| `WorkspaceProofs!EditsStay`, `RemovalStays` | `ProjectsSpec => []AsLastAsked`, `[]RemovedForGood` | `ProjectsIInv`: what the only editor of a project read is still there |
| `CommentsProofs!RepliesOneLevelDeep` | `CommentsSpec => []OneLevelDeep` | `ThreadsIInv`, of ids and not of rows |
| `CommentsProofs!MentionsToldOnce`, `OnlyAuthorsTakeAway` | `CommentsSpec => []MentionedOnce`, `TakenAwayByAuthor` | `CommentsIInv`: where each row and job of a comment still is |
| `NotificationQueueProofs!QueueOneState` | `QueueSpec => []OneState` | `QueueInv`: each job in one list, once, with attempts and stalls left |
| `NotificationQueueProofs!QueueCopiesBounded`, `QueueCompletedIsDelivered` | `QueueSpec => []CopiesBounded`, `[]CompletedIsDelivered` | `CopiesInv`, an account of rows stored and runs left; `DeliveredInv` |
| `NotificationQueueProofs!QueueRepeats` | if the jobs are finitely many, `QueueSpec => []RepeatedAfterEviction` | `MadeWayInv`: how many others finished since an id did |
| `RemindersProofs!OneScanIsEnough`, `RemindersRight` | `ScanSpec => []RemindedInTime`, `[]WrongOnlyIfChanged` | `ScanIInv`: what a scan under way still has to queue |
| `RemindersProofs!WalksComplete`, `MarksHideFew`, `NothingUnheard` | `InboxSpec => []WalkComplete`, `[]HiddenByMarks`, `[]ListedOrHeard` | `InboxIInv`: what a reader of pages is past |
| `AccountsTypeCorrect`, `WorkspaceTypeCorrect`, `CommentsTypesCorrect`, `RemindersTypeCorrect` | the type invariants of the runs | conjuncts of the invariants above |

* **Acyclic without induction.** `Acyclic(T, par)` says that every non-empty set of tasks
  has a member whose parent is outside it. A move of `t` under `q` that closed a cycle `S`
  would make `S \cap Ancestors(q)` closed under the *old* parents, since `t` is not in it
  (`MoveAcyclic`).
* **Why `ParentInProject` needs strengthening.** It speaks of the tables, but the row written
  was checked statements ago. `RequestsConsistent` says that what the checks found about
  projects is still true. It is, because a row's project never changes and an id is never
  handed out twice; existence, which does go stale, is left to the foreign key.
* **Why cycles need one of three conditions.** Acyclicity of the ancestor walk does go stale,
  and no key guards it: `tree_cycle` is the counterexample. One request at a time removes
  the staleness; without moves every edge, also one written back or brought back with a
  deleted row, points to an id handed out before. The third is the second with a history:
  until somebody has asked for a move, there were none.
* **Why `DepthUntilAsked` needs strengthening.** The depth of the parent that `create` found
  is old at the INSERT. It does not grow while no row gets a new parent (`Harmless`), unless
  the parent was gone when it was measured and is there again (`revived`). A task's depth is
  the cardinality of the walk up from it (`ShortWalks`), which is what `getDepth` returns where
  there are no cycles, and an insert adds one to its parent's. Whole
  subtrees follow from the depth: a row that `getSubtree` does not reach has more ancestors
  than the limit allows.
* **Why `OneOwner` needs strengthening.** The role a request found is old when it writes.
  `Held` says that past its check a request holds neither the OWNER's row nor the role
  OWNER, and that never goes stale: no write gives or takes that role. A resurrected row is
  kept from being a second membership by the index, not by the check of `addMember`.
* **Why `OneLevelDeep` needs strengthening.** The parent that `create` found may be gone, or
  its task, when the reply is inserted. `ThreadsSound` therefore speaks of every id ever
  handed out: nothing changes a comment's task and parent, so what the check found about
  them stays true (`LocalsSound`), also through an edit that brings a deleted comment back.
  That the parent still exists is left to the foreign key (`KeysHold`).
* **Why `MentionedOnce` needs strengthening.** `NothingForgotten` says of a comment whose
  create did not die that each of its rows and jobs is there or its request is on the way
  to it, and `JobsSound` that no job is there for anything else.
* **Why `AsLastAsked`, `OneValidToken` and `LogAccounts` need strengthening.** They except what
  overlapped, so the proof has to show that nothing else goes stale: a project that is not
  `crossed`, a session that is not `overlapped`, or the task has at most one request past its
  first query (`EditsAlone`, `OneHolder`, `SerialInv`), and for it the row, or the one valid
  token, is as that query found it. A token belongs to its session's user for ever
  (`SessionsRooted`), so `logoutAll` leaves no token of a session behind.
* **Why `CopiesBounded` needs strengthening.** A row may be owed: `CopiesInv` adds to the rows
  of a job the handlers that are about to store one, workers without the lock among them,
  and the runs its attempts and stalls leave it; each step moves one from here to there.
* **Why `RepeatedAfterEviction` needs strengthening.** Between two acceptances the id moves
  through a list of finished jobs. `MadeWayInv` says of each place in the list that as many
  others finished since as came in behind it. That its sum, a recursive definition, is a
  number and grows with its terms is proved by induction over the size of the set (`SumGrows`).
* **Why `RemindedInTime` needs strengthening.** It speaks of ended scans. `NoneDropped` says of
  a scan under way that a task due is in its list or covered, and `PayloadsCurrent` that the
  list is right about tasks unchanged since it started, so that the job it adds, or the one
  whose id was taken, covers the task.
* **Why `WalkComplete` and `HiddenByMarks` need strengthening.** They speak of readers who are
  done. `Passed` is what a reader under way is past: the rows before the next page as the list
  is *now*. A row that comes in, wherever it does, pushes one out of it and never one in
  (`PlaceInserted`), so what he is past of his first rows he has seen. A row marked read lifts
  the later ones by one place, so at most one row is newly past him for each mark
  (`TopLifted`), which is what `FewMissed` counts.
* **Induction.** The library's induction theorems take an operator, which no prover here can
  supply. `ForestProofs` has the least number principle and induction over the *set* of numbers
  for which something holds (`LeastNat`, `NatSetInduction`), from the well-foundedness of
  inclusion among finite sets.

Only model-checked: liveness, that is `RequestsFinish`, `QueriesEnd` and `JobsSettle` (the
prover has no rules for fairness and ENABLED). The runs that show a violation are TLC's alone.

## Plan

Done: all modules of the table above, with eight proof modules. Next, in this order:

1. The event of `create` of a task, and TASK_UPDATED.
2. Composing `Comments` with `TaskTree`, and the producers with `NotificationQueue`.

Not modelled and why: HTTP, JWT and password hashing (library calls), DTO validation (inputs
are assumed to have passed it), list and search queries over columns no rule depends on
(`listForEntity` is one query), the lists of workspaces and projects, the activity row of a
new task, health checks and deployment.
