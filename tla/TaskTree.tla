------------------------------ MODULE TaskTree ------------------------------
(***************************************************************************)
(* The subtask tree as TasksService maintains it: a request is a sequence  *)
(* of statements with an await between each two, so the statements of      *)
(* concurrent requests interleave.  Each action is one statement and the   *)
(* code up to the next await.                                              *)
(*                                                                         *)
(* repo.save(entity) of an entity with an id is two statements: a SELECT   *)
(* by primary key, then an UPDATE of the columns in which the entity       *)
(* differs from the selected row, or an INSERT of the entity when there    *)
(* was none.  An update therefore writes back the parentTaskId it read,    *)
(* also when the client did not ask to change it.                          *)
(*                                                                         *)
(* A request whose first query finds nothing replies 404 and changes       *)
(* nothing, so only those that pass it are started.  The assignee check,   *)
(* the activity log and the queue touch none of these columns; a request   *)
(* they reject stops like any other failing await (Abort).                 *)
(***************************************************************************)
EXTENDS TaskForest

CONSTANTS Requests,      \* requests the server can have in flight
          PatchTargets,  \* the parentTaskId values clients PATCH a task with
          Undefined      \* JavaScript undefined: the field is not in the body

ASSUME RequestAssumption ==
  /\ PatchTargets \subseteq TaskIds \cup {Null}
  /\ Undefined \notin TaskIds \cup {Null}

VARIABLES pc,    \* the statement each request executes next
          ctx    \* its local variables

vars == <<table, pc, ctx>>

CreateSteps == {"createFindParent", "createCheckDepth", "createInsert"}
CheckSteps  == {"updateFindParent", "updateCheckCycle", "updateCheckDepth"}
SaveSteps   == {"saveSelect", "saveWrite"}
UpdateSteps == CheckSteps \cup SaveSteps \cup {"hung"}

(***************************************************************************)
(* id, proj    the path parameters                                         *)
(* target      dto.parentTaskId                                            *)
(* row         task.parentTaskId of the entity in memory                   *)
(* base        the parentTaskId save's SELECT returned, Undefined if none  *)
(***************************************************************************)
Context == [id     : TaskIds \cup {Null},
            proj   : Projects \cup {Null},
            target : TaskIds \cup {Null, Undefined},
            row    : TaskIds \cup {Null},
            base   : TaskIds \cup {Null, Undefined}]

NoContext == [id |-> Null, proj |-> Null, target |-> Undefined,
              row |-> Null, base |-> Undefined]

(* The locals a statement s uses are there when it is reached. *)
Defined(s, c) ==
  /\ s # "idle" => c.proj \in Projects
  /\ s \in CreateSteps => c.target # Undefined
  /\ s \in {"createFindParent", "createCheckDepth"} \cup CheckSteps => c.target \in TaskIds
  /\ s \in UpdateSteps => c.id \in TaskIds

RequestsTypeOK ==
  /\ pc \in [Requests -> {"idle"} \cup CreateSteps \cup UpdateSteps]
  /\ ctx \in [Requests -> Context]
  /\ \A r \in Requests : Defined(pc[r], ctx[r])

TreeTypeOK == TypeOK /\ RequestsTypeOK

TreeInit ==
  /\ Init
  /\ pc = [r \in Requests |-> "idle"]
  /\ ctx = [r \in Requests |-> NoContext]

-----------------------------------------------------------------------------

Goto(r, step) == pc' = [pc EXCEPT ![r] = step]

(* The handler returns or throws; its local variables are gone. *)
Reply(r) == Goto(r, "idle") /\ ctx' = [ctx EXCEPT ![r] = NoContext]

(* The next statement if the check succeeds, an exception otherwise. *)
Check(r, succeeds, step) ==
  /\ IF succeeds THEN Goto(r, step) /\ UNCHANGED ctx ELSE Reply(r)
  /\ UNCHANGED table

(* Mutant: where: { id: dto.parentTaskId }, without the project. *)
TargetFoundAnywhere(c) == c.target \in tasks

(* findOne({ id: dto.parentTaskId, projectId }) returns a row. *)
TargetFound(c) == c.target \in tasks /\ project[c.target] = c.proj

(* Mutant: parentDepth > MAX_SUBTASK_DEPTH throws, one level too late. *)
TargetOffByOne(c) == GetDepth(tasks, parent, c.target) <= MaxDepth

TargetNotTooDeep(c) == GetDepth(tasks, parent, c.target) < MaxDepth

(* Mutant: a schema without the foreign key on parentTaskId. *)
ProjectKeyHolds(proj, par) == proj \in projects

(* The foreign keys a written row must satisfy. *)
ForeignKeysHold(proj, par) == proj \in projects /\ par \in tasks \cup {Null}

-----------------------------------------------------------------------------
(* POST tasks: TasksService.create *)

CreateStart(r) ==
  /\ pc[r] = "idle"
  /\ \E p \in projects, q \in TaskIds \cup {Null} :
       /\ ctx' = [ctx EXCEPT ![r] = [NoContext EXCEPT !.proj = p, !.target = q]]
       /\ Goto(r, IF q = Null THEN "createInsert" ELSE "createFindParent")
  /\ UNCHANGED table

CreateFindParent(r) ==
  /\ pc[r] = "createFindParent"
  /\ Check(r, TargetFound(ctx[r]), "createCheckDepth")

CreateCheckDepth(r) ==
  /\ pc[r] = "createCheckDepth"
  /\ Check(r, TargetNotTooDeep(ctx[r]), "createInsert")

(* Mutant: a key of a deleted row is handed out again. *)
ReusedIds == TaskIds \ tasks

(* uuid_generate_v4() *)
FreshIds == {t \in TaskIds : project[t] = Null}

(***************************************************************************)
(* The INSERT under a fresh id, or the exception of a violated foreign     *)
(* key.  TaskIds bounds the ids: when all are used the INSERT fails.       *)
(***************************************************************************)
CreateInsert(r) ==
  /\ pc[r] = "createInsert"
  /\ LET c == ctx[r]
     IN  IF ForeignKeysHold(c.proj, c.target) /\ FreshIds # {}
         THEN \E t \in FreshIds :
                /\ tasks' = tasks \cup {t}
                /\ parent' = [parent EXCEPT ![t] = c.target]
                /\ project' = [project EXCEPT ![t] = c.proj]
                /\ UNCHANGED projects
         ELSE UNCHANGED table
  /\ Reply(r)

-----------------------------------------------------------------------------
(* PATCH tasks/:id: TasksService.update *)

(* Mutant: task.parentTaskId = dto.parentTaskId ?? null in every PATCH. *)
RowAfterPatchDefaulted(t, q) == IF q \in {Null, Undefined} THEN Null ELSE parent[t]

(* task.parentTaskId when no query has to confirm the target first. *)
RowAfterPatch(t, q) == IF q = Null THEN Null ELSE parent[t]

(***************************************************************************)
(* findById loads the row.  The body may leave parentTaskId out, set it to *)
(* null, or name a task other than the task itself.                        *)
(***************************************************************************)
UpdateStart(r) ==
  /\ pc[r] = "idle"
  /\ \E t \in tasks, q \in PatchTargets \cup {Undefined} :
       /\ q # t
       /\ ctx' = [ctx EXCEPT ![r] =
                    [NoContext EXCEPT !.id = t, !.proj = project[t], !.target = q,
                                      !.row = RowAfterPatch(t, q)]]
       /\ Goto(r, IF q \in TaskIds THEN "updateFindParent" ELSE "saveSelect")
  /\ UNCHANGED table

UpdateFindParent(r) ==
  /\ pc[r] = "updateFindParent"
  /\ Check(r, TargetFound(ctx[r]), "updateCheckCycle")

(* Mutant: isAncestor(dto.parentTaskId, id), the arguments swapped. *)
UpdateCheckSwapped(r) ==
  /\ pc[r] = "updateCheckCycle"
  /\ LET c == ctx[r]
     IN  IF IsAncestorEnds(tasks, parent, c.target, c.id)
         THEN Check(r, ~ IsAncestor(tasks, parent, c.target, c.id), "updateCheckDepth")
         ELSE Goto(r, "hung") /\ UNCHANGED <<table, ctx>>

(* On a cycle that does not contain the task the query never returns. *)
UpdateCheckCycle(r) ==
  /\ pc[r] = "updateCheckCycle"
  /\ LET c == ctx[r]
     IN  IF IsAncestorEnds(tasks, parent, c.id, c.target)
         THEN Check(r, ~ IsAncestor(tasks, parent, c.id, c.target), "updateCheckDepth")
         ELSE Goto(r, "hung") /\ UNCHANGED <<table, ctx>>

(* Mutant: no depth check in update. *)
UpdateSkipDepth(r) ==
  /\ pc[r] = "updateCheckDepth"
  /\ Goto(r, "saveSelect")
  /\ ctx' = [ctx EXCEPT ![r].row = ctx[r].target]
  /\ UNCHANGED table

UpdateCheckDepth(r) ==
  /\ pc[r] = "updateCheckDepth"
  /\ IF TargetNotTooDeep(ctx[r])
     THEN /\ Goto(r, "saveSelect")
          /\ ctx' = [ctx EXCEPT ![r].row = ctx[r].target]
     ELSE Reply(r)
  /\ UNCHANGED table

SaveSelect(r) ==
  /\ pc[r] = "saveSelect"
  /\ ctx' = [ctx EXCEPT ![r].base =
               IF ctx[r].id \in tasks THEN parent[ctx[r].id] ELSE Undefined]
  /\ Goto(r, "saveWrite")
  /\ UNCHANGED table

(***************************************************************************)
(* INSERT of the whole entity when SELECT found no row, UPDATE of the      *)
(* changed column otherwise.  The UPDATE of a row deleted since matches    *)
(* nothing; a violated key makes either statement fail.                    *)
(***************************************************************************)
SaveWrite(r) ==
  /\ pc[r] = "saveWrite"
  /\ LET c       == ctx[r]
         inserts == c.base = Undefined /\ c.id \notin tasks
         updates == c.base \notin {Undefined, c.row} /\ c.id \in tasks
     IN  IF (inserts \/ updates) /\ ForeignKeysHold(c.proj, c.row)
         THEN /\ tasks' = tasks \cup {c.id}
              /\ parent' = [parent EXCEPT ![c.id] = c.row]
              /\ UNCHANGED <<project, projects>>
         ELSE UNCHANGED table
  /\ Reply(r)

-----------------------------------------------------------------------------
(* The remaining requests: one write whose preceding reads it does not use. *)

(***************************************************************************)
(* DELETE tasks/:id and DELETE projects/:id.  findById only decides        *)
(* between 404 and the DELETE by primary key, which on a row already gone  *)
(* does nothing, so the request is the one step of its DELETE.             *)
(***************************************************************************)
DeleteTask(r) ==
  /\ pc[r] = "idle"
  /\ \E t \in tasks : RemoveTask(t)
  /\ UNCHANGED <<pc, ctx>>

DeleteProject(r) ==
  /\ pc[r] = "idle"
  /\ \E p \in projects : RemoveProject(p)
  /\ UNCHANGED <<pc, ctx>>

(* Any await may reject, or the process die: nothing was written yet. *)
Abort(r) ==
  /\ pc[r] # "idle"
  /\ Reply(r)
  /\ UNCHANGED table

-----------------------------------------------------------------------------

Step(r) ==
  \/ CreateFindParent(r) \/ CreateCheckDepth(r) \/ CreateInsert(r)
  \/ UpdateFindParent(r) \/ UpdateCheckCycle(r) \/ UpdateCheckDepth(r)
  \/ SaveSelect(r) \/ SaveWrite(r)

TreeNext ==
  \E r \in Requests :
    \/ CreateStart(r) \/ UpdateStart(r)
    \/ DeleteTask(r) \/ DeleteProject(r)
    \/ Step(r)
    \/ Abort(r)

TreeSpec == TreeInit /\ [][TreeNext]_vars

(* A statement sent to the database is answered; clients may do nothing. *)
FairTreeSpec == TreeSpec /\ \A r \in Requests : WF_vars(Step(r))

-----------------------------------------------------------------------------
(***************************************************************************)
(* The depth limit (README.md:11, tasks.service.ts:277), as getDepth       *)
(* measures it: "Returns the depth of `taskId` (root = 0).  Throws if      *)
(* path > MAX." (tasks.service.ts:51), that is, a depth it returns for a   *)
(* task is at most MAX.  The code has no throw: it returns what it counts, *)
(* up to DepthCap, so the limit is only as good as the checks at the       *)
(* writes.                                                                 *)
(***************************************************************************)
DepthBounded == \A t \in tasks : GetDepth(tasks, parent, t) <= MaxDepth

(***************************************************************************)
(* GET tasks/:id/subtree returns everything below the task                 *)
(* (tasks.service.ts:97; "traverses all levels in one query",              *)
(* ARCHITECTURE.md:54), although the query stops MaxDepth + 1 levels down. *)
(* It is true of trees within the depth limit only.                        *)
(***************************************************************************)
SubtreeComplete ==
  \A t \in tasks : Descendants(tasks, parent, {t}) \subseteq GetSubtree(tasks, parent, t)

(* At statement s the tasks in the locals c are tasks of project c.proj. *)
Scoped(column, s, c) ==
  /\ s \in {"createCheckDepth", "createInsert", "updateCheckCycle", "updateCheckDepth"}
       /\ c.target # Null => column[c.target] = c.proj
  /\ s \in UpdateSteps => column[c.id] = c.proj
  /\ s \in UpdateSteps /\ c.row # Null => column[c.row] = c.proj

(***************************************************************************)
(* What a request established about projects stays true while it waits:    *)
(* a task never changes its project, so the project check of a parent      *)
(* cannot go stale, neither in the request that will write the parent nor  *)
(* in one that only writes back the parent it read.                        *)
(***************************************************************************)
RequestsConsistent == \A r \in Requests : Scoped(project, pc[r], ctx[r])

(***************************************************************************)
(* The tables are scoped, and what the requests remember of them is true.  *)
(* ParentInProject alone is not inductive: a write is only as good as the  *)
(* check its request made some statements earlier.                         *)
(***************************************************************************)
TreeIInv == TreeTypeOK /\ ParentInProject /\ RequestsConsistent

(***************************************************************************)
(* A task changes its parent only in the write of a request that asked for *)
(* that parent: a PATCH of the other fields leaves it where it is.         *)
(***************************************************************************)
OnlyMovesMove ==
  [][\A t \in tasks \cap tasks' :
       parent'[t] # parent[t] =>
         \E r \in Requests : ctx[r].id = t /\ ctx[r].target = parent'[t]]_vars

(***************************************************************************)
(* Every request is answered: no handler waits for ever on one of its      *)
(* queries, isAncestor included.                                           *)
(***************************************************************************)
RequestsFinish == \A r \in Requests : pc[r] # "idle" ~> pc[r] = "idle"

(* One request at a time, the service is the abstract one. *)
Abstract == INSTANCE TaskForest
ImplementsForest == Abstract!Spec

=============================================================================
