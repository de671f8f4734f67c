----------------------------- MODULE TaskForest -----------------------------
(***************************************************************************)
(* What TasksService promises about the subtask tree, with every request   *)
(* taken as one indivisible step: the checks of create and update are      *)
(* evaluated in the state in which the row is written.  Module TaskTree is *)
(* the same service with a step for each await.                            *)
(***************************************************************************)
EXTENDS Forest

CONSTANTS TaskIds,   \* ids the database can hand out
          Projects   \* project ids

ASSUME IdsAssumption == /\ IsFiniteSet(TaskIds)
                        /\ Null \notin TaskIds \cup Projects

VARIABLES tasks,     \* ids of the rows in table tasks
          parent,    \* column parentTaskId; a deleted row keeps its last value
          project,   \* column projectId; Null for an id not yet handed out
          projects   \* ids of the rows in table projects

table == <<tasks, parent, project, projects>>

TypeOK ==
  /\ tasks \subseteq TaskIds
  /\ parent \in [TaskIds -> TaskIds \cup {Null}]
  /\ project \in [TaskIds -> Projects \cup {Null}]
  /\ projects \subseteq Projects

Init ==
  /\ tasks = {}
  /\ parent = [t \in TaskIds |-> Null]
  /\ project = [t \in TaskIds |-> Null]
  /\ projects = Projects

(* q may get a child of project p: it is a task of p that is not too deep. *)
MayHoldChild(q, p) ==
  /\ q \in tasks
  /\ project[q] = p
  /\ GetDepth(tasks, parent, q) < MaxDepth

Create(t, p, q) ==
  /\ project[t] = Null
  /\ p \in projects
  /\ q = Null \/ MayHoldChild(q, p)
  /\ tasks' = tasks \cup {t}
  /\ parent' = [parent EXCEPT ![t] = q]
  /\ project' = [project EXCEPT ![t] = p]
  /\ UNCHANGED projects

Move(t, q) ==
  /\ t \in tasks
  /\ q = Null \/ (/\ MayHoldChild(q, project[t])
                  /\ ~ IsAncestor(tasks, parent, t, q))
  /\ parent' = [parent EXCEPT ![t] = q]
  /\ UNCHANGED <<tasks, project, projects>>

RemoveTask(t) ==
  /\ t \in tasks
  /\ tasks' = tasks \ Descendants(tasks, parent, {t})
  /\ UNCHANGED <<parent, project, projects>>

RemoveProject(p) ==
  /\ p \in projects
  /\ projects' = projects \ {p}
  /\ tasks' = tasks \ Descendants(tasks, parent, {t \in tasks : project[t] = p})
  /\ UNCHANGED <<parent, project>>

Next ==
  \/ \E t \in TaskIds, p \in Projects, q \in TaskIds \cup {Null} : Create(t, p, q)
  \/ \E t \in TaskIds, q \in TaskIds \cup {Null} : Move(t, q)
  \/ \E t \in TaskIds : RemoveTask(t)
  \/ \E p \in Projects : RemoveProject(p)

Spec == Init /\ [][Next]_table

-----------------------------------------------------------------------------

(***************************************************************************)
(* A task's project exists, and its parent exists and is in that project:  *)
(* the scoping that create and update check one row at a time, over a      *)
(* schema whose foreign key says nothing about the project.                *)
(***************************************************************************)
ParentInProject ==
  \A t \in tasks :
    /\ project[t] \in projects
    /\ parent[t] # Null => /\ parent[t] \in tasks
                           /\ project[parent[t]] = project[t]

(* Cycle prevention: the tasks form a forest (README.md:11). *)
NoCycles == Acyclic(tasks, parent)

=============================================================================
