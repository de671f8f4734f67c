--------------------------- MODULE TaskTreeProofs ---------------------------
(***************************************************************************)
(* The correctness of the abstract service, and what holds of the          *)
(* interleaved service whatever the ids, the projects, the number of       *)
(* requests and the depth limit.                                           *)
(***************************************************************************)
EXTENDS MCTaskTreeHistory, ForestProofs

-----------------------------------------------------------------------------
(***************************************************************************)
(* The abstract service: its tasks always form a forest whose trees do not *)
(* cross projects.                                                         *)
(***************************************************************************)

(* Every variable keeps its type. *)
THEOREM TypeCorrect == Spec => []TypeOK
<1>1. Init => TypeOK
  BY DEF Init, TypeOK
<1>2. TypeOK /\ [Next]_table => TypeOK'
  <2> SUFFICES ASSUME TypeOK, [Next]_table PROVE TypeOK'
    OBVIOUS
  <2> USE DEF TypeOK
  <2>1. ASSUME NEW t \in TaskIds, NEW p \in Projects, NEW q \in TaskIds \cup {Null},
               Create(t, p, q)
        PROVE  TypeOK'
    BY <2>1 DEF Create
  <2>2. ASSUME NEW t \in TaskIds, NEW q \in TaskIds \cup {Null}, Move(t, q)
        PROVE  TypeOK'
    BY <2>2 DEF Move
  <2>3. ASSUME NEW t \in TaskIds, RemoveTask(t) PROVE TypeOK'
    BY <2>3 DEF RemoveTask
  <2>4. ASSUME NEW p \in Projects, RemoveProject(p) PROVE TypeOK'
    BY <2>4 DEF RemoveProject
  <2>5. CASE UNCHANGED table
    BY <2>5 DEF table
  <2> QED
    BY <2>1, <2>2, <2>3, <2>4, <2>5 DEF Next
<1> QED
  BY <1>1, <1>2, PTL DEF Spec

(* What the next three theorems need of each other. *)
IInv == TypeOK /\ ParentInProject /\ NoCycles

LEMMA InitIInv == Init => IInv
  BY DEF Init, IInv, TypeOK, ParentInProject, NoCycles, Acyclic

LEMMA CreateIInv ==
  ASSUME IInv, NEW t \in TaskIds, NEW p \in Projects, NEW q \in TaskIds \cup {Null},
         Create(t, p, q)
  PROVE  ParentInProject' /\ NoCycles'
<1> USE IdsAssumption DEF IInv, TypeOK
<1>1. t \notin tasks
  BY DEF Create, ParentInProject
<1>2. /\ tasks' = tasks \cup {t}
      /\ parent'[t] = q /\ project'[t] = p
      /\ \A u \in tasks : parent'[u] = parent[u] /\ project'[u] = project[u]
      /\ projects' = projects
  BY <1>1 DEF Create
<1>3. p \in projects /\ (q # Null => q \in tasks /\ project[q] = p)
  BY DEF Create, MayHoldChild
<1>4. ParentInProject'
  BY <1>2, <1>3 DEF ParentInProject
<1>5. NoCycles'
  <2>1. \A u \in tasks : parent[u] # t
    BY <1>1 DEF ParentInProject
  <2>2. q # t
    BY <1>1, <1>3
  <2>3. Acyclic(tasks, parent')
    BY <1>2, SameParentsAcyclic DEF NoCycles
  <2>4. parent'[t] # t /\ \A u \in tasks : parent'[u] # t
    BY <1>2, <2>1, <2>2
  <2>5. Acyclic(tasks \cup {t}, parent')
    BY <2>3, <2>4, InsertAcyclic
  <2> QED
    BY <1>2, <2>5 DEF NoCycles
<1> QED
  BY <1>4, <1>5

LEMMA MoveIInv ==
  ASSUME IInv, NEW t \in TaskIds, NEW q \in TaskIds \cup {Null}, Move(t, q)
  PROVE  ParentInProject' /\ NoCycles'
<1> USE IdsAssumption DEF IInv, TypeOK
<1>1. /\ t \in tasks
      /\ tasks' = tasks /\ project' = project /\ projects' = projects
      /\ parent'[t] = q
      /\ \A u \in tasks \ {t} : parent'[u] = parent[u]
  BY DEF Move
<1>2. ParentInProject'
  <2>1. q # Null => q \in tasks /\ project[q] = project[t]
    BY DEF Move, MayHoldChild
  <2> QED
    BY <1>1, <2>1 DEF ParentInProject
<1>3. NoCycles'
  <2>1. q \in tasks => ~ IsAncestor(tasks, parent, t, q)
    BY DEF Move
  <2> QED
    BY <1>1, <2>1, MoveAcyclic DEF NoCycles
<1> QED
  BY <1>2, <1>3

(* Both deletions: the rows of D and everything below them go. *)
LEMMA CascadeScoping ==
  ASSUME TypeOK, ParentInProject, NEW D \in SUBSET tasks,
         tasks' = tasks \ Descendants(tasks, parent, D),
         UNCHANGED <<parent, project>>,
         \A t \in tasks \ D : project[t] \in projects'
  PROVE  ParentInProject'
<1>1. /\ D \subseteq Descendants(tasks, parent, D)
      /\ ClosedDownward(tasks, parent, Descendants(tasks, parent, D))
  BY DescendantsClosed
<1> QED
  BY <1>1 DEF ParentInProject, ClosedDownward

LEMMA RemoveTaskScoping ==
  ASSUME TypeOK, ParentInProject, NEW t \in TaskIds, RemoveTask(t)
  PROVE  ParentInProject' /\ tasks' \subseteq tasks /\ UNCHANGED <<parent, project>>
  BY CascadeScoping DEF RemoveTask, ParentInProject

LEMMA RemoveProjectScoping ==
  ASSUME TypeOK, ParentInProject, NEW p \in Projects, RemoveProject(p)
  PROVE  ParentInProject' /\ tasks' \subseteq tasks /\ UNCHANGED <<parent, project>>
<1> DEFINE D == {t \in tasks : project[t] = p}
<1>1. \A t \in tasks \ D : project[t] \in projects'
  BY DEF RemoveProject, ParentInProject
<1> QED
  BY <1>1, CascadeScoping DEF RemoveProject

LEMMA NextIInv == TypeOK' /\ IInv /\ [Next]_table => IInv'
<1> SUFFICES ASSUME TypeOK', IInv, [Next]_table PROVE ParentInProject' /\ NoCycles'
    BY DEF IInv
<1>1. ASSUME NEW t \in TaskIds, RemoveTask(t) PROVE ParentInProject' /\ NoCycles'
  BY <1>1, RemoveTaskScoping, SubsetAcyclic DEF IInv, NoCycles
<1>2. ASSUME NEW p \in Projects, RemoveProject(p) PROVE ParentInProject' /\ NoCycles'
  BY <1>2, RemoveProjectScoping, SubsetAcyclic DEF IInv, NoCycles
<1>3. CASE UNCHANGED table
  BY <1>3 DEF table, IInv, ParentInProject, NoCycles
<1> QED
  BY <1>1, <1>2, <1>3, CreateIInv, MoveIInv DEF Next

LEMMA Invariance == Spec => []IInv
<1>1. TypeOK' /\ IInv /\ [Next]_table => IInv'
  BY NextIInv
<1> QED
  BY InitIInv, <1>1, TypeCorrect, PTL DEF Spec

(* The tree never crosses projects, and no reference dangles. *)
THEOREM ScopingHolds == Spec => []ParentInProject
  BY Invariance, PTL DEF IInv

(* With the checks of a request and its write in one step, the ancestor    *)
(* check is enough: the tasks always form a forest.                        *)
THEOREM ForestHolds == Spec => []NoCycles
  BY Invariance, PTL DEF IInv

-----------------------------------------------------------------------------
(***************************************************************************)
(* The interleaved service: what any number of requests keep.              *)
(***************************************************************************)

Statements == {"idle"} \cup CreateSteps \cup UpdateSteps

RequestsOK == RequestsTypeOK /\ RequestsConsistent

USE DEF Statements, CreateSteps, CheckSteps, SaveSteps, UpdateSteps

-----------------------------------------------------------------------------
(***************************************************************************)
(* The requests' part.  A step of a request brings it to statement s with  *)
(* locals c and lets every id keep the project it was handed out in.       *)
(***************************************************************************)

ProjectsKept == \A t \in TaskIds : project[t] \in Projects => project'[t] = project[t]

LEMMA RequestStep ==
  ASSUME TypeOK, RequestsOK, ProjectsKept, NEW r \in Requests,
         NEW s \in Statements, NEW c \in Context,
         pc' = [pc EXCEPT ![r] = s], ctx' = [ctx EXCEPT ![r] = c],
         Defined(s, c), Scoped(project', s, c)
  PROVE  RequestsOK'
<1>1. RequestsTypeOK'
  BY DEF RequestsOK, RequestsTypeOK
<1>2. ASSUME NEW i \in Requests, i # r PROVE Scoped(project', pc'[i], ctx'[i])
  <2>1. /\ pc'[i] = pc[i] /\ ctx'[i] = ctx[i]
        /\ ctx[i] \in Context /\ Defined(pc[i], ctx[i])
        /\ Scoped(project, pc[i], ctx[i])
    BY <1>2 DEF RequestsOK, RequestsTypeOK, RequestsConsistent
  <2> QED
    BY <2>1 DEF Scoped, Defined, ProjectsKept, Context
<1>3. Scoped(project', pc'[r], ctx'[r])
  BY DEF RequestsOK, RequestsTypeOK
<1> QED
  BY <1>1, <1>2, <1>3 DEF RequestsOK, RequestsConsistent

LEMMA ReplyStep ==
  ASSUME TypeOK, RequestsOK, ProjectsKept, NEW r \in Requests, Reply(r)
  PROVE  RequestsOK'
<1>1. NoContext \in Context /\ Defined("idle", NoContext) /\ Scoped(project', "idle", NoContext)
  BY DEF NoContext, Context, Defined, Scoped
<1> QED
  BY <1>1, RequestStep DEF Reply, Goto

LEMMA GotoStep ==
  ASSUME TypeOK, RequestsOK, ProjectsKept, NEW r \in Requests,
         NEW s \in Statements, Goto(r, s), UNCHANGED ctx,
         Defined(s, ctx[r]), Scoped(project', s, ctx[r])
  PROVE  RequestsOK'
<1>1. ctx[r] \in Context /\ ctx' = [ctx EXCEPT ![r] = ctx[r]]
  BY DEF RequestsOK, RequestsTypeOK
<1> QED
  BY <1>1, RequestStep DEF Goto

LEMMA CheckStep ==
  ASSUME TypeOK, RequestsOK, NEW r \in Requests, NEW b, NEW s \in Statements,
         Check(r, b, s),
         b => Defined(s, ctx[r]) /\ Scoped(project, s, ctx[r])
  PROVE  RequestsOK' /\ UNCHANGED table
<1>1. UNCHANGED table /\ ProjectsKept /\ project' = project
  BY DEF Check, table, ProjectsKept
<1>2. CASE b
  BY <1>1, <1>2, GotoStep DEF Check
<1>3. CASE ~ b
  BY <1>1, <1>3, ReplyStep DEF Check
<1> QED
  BY <1>1, <1>2, <1>3

-----------------------------------------------------------------------------
(***************************************************************************)
(* The tables' part.  CreateInsert and SaveWrite are the only statements   *)
(* that write a parent; the foreign key vouches for its existence and the  *)
(* locals for its project.                                                 *)
(***************************************************************************)

TablesOK == TypeOK /\ ParentInProject

LEMMA TablesUnchanged == TablesOK /\ UNCHANGED table => TablesOK'
  BY DEF TablesOK, TypeOK, ParentInProject, table

LEMMA LocalsOf ==
  ASSUME RequestsOK, NEW r \in Requests
  PROVE  /\ pc[r] \in Statements /\ ctx[r] \in Context
         /\ Defined(pc[r], ctx[r]) /\ Scoped(project, pc[r], ctx[r])
  BY DEF RequestsOK, RequestsTypeOK, RequestsConsistent

LEMMA InsertTables ==
  ASSUME TablesOK, RequestsOK, NEW r \in Requests, CreateInsert(r)
  PROVE  TablesOK' /\ ProjectsKept
<1> DEFINE c == ctx[r]
<1>1. /\ c.proj \in Projects /\ c.target \in TaskIds \cup {Null}
      /\ c.target # Null => project[c.target] = c.proj
  BY LocalsOf DEF CreateInsert, Defined, Scoped, Context
<1>2. CASE UNCHANGED table
  BY <1>2, TablesUnchanged DEF ProjectsKept, table
<1>3. ASSUME NEW t \in FreshIds, ForeignKeysHold(c.proj, c.target),
             tasks' = tasks \cup {t},
             parent' = [parent EXCEPT ![t] = c.target],
             project' = [project EXCEPT ![t] = c.proj],
             UNCHANGED projects
      PROVE  TablesOK' /\ ProjectsKept
  <2>1. t \in TaskIds /\ project[t] = Null /\ t \notin tasks
    BY IdsAssumption DEF FreshIds, TablesOK, TypeOK, ParentInProject
  <2>2. TypeOK'
    BY <1>1, <1>3, <2>1 DEF TablesOK, TypeOK
  <2>3. /\ parent'[t] = c.target /\ project'[t] = c.proj
        /\ \A u \in TaskIds \ {t} : parent'[u] = parent[u] /\ project'[u] = project[u]
    BY <1>3, <2>1 DEF TablesOK, TypeOK
  <2>4. ParentInProject'
    BY <1>1, <1>3, <2>1, <2>3 DEF ForeignKeysHold, TablesOK, TypeOK, ParentInProject
  <2>5. ProjectsKept
    BY <2>1, <2>3, IdsAssumption DEF ProjectsKept
  <2> QED
    BY <2>2, <2>4, <2>5 DEF TablesOK
<1> QED
  BY <1>2, <1>3 DEF CreateInsert

LEMMA SaveTables ==
  ASSUME TablesOK, RequestsOK, NEW r \in Requests, SaveWrite(r)
  PROVE  TablesOK' /\ ProjectsKept
<1> DEFINE c == ctx[r]
<1>1. /\ c.id \in TaskIds /\ c.row \in TaskIds \cup {Null}
      /\ project[c.id] = c.proj
      /\ c.row # Null => project[c.row] = c.proj
  BY LocalsOf DEF SaveWrite, Defined, Scoped, Context
<1>2. CASE UNCHANGED table
  BY <1>2, TablesUnchanged DEF ProjectsKept, table
<1>3. CASE /\ ForeignKeysHold(c.proj, c.row)
           /\ tasks' = tasks \cup {c.id}
           /\ parent' = [parent EXCEPT ![c.id] = c.row]
           /\ UNCHANGED <<project, projects>>
  <2>1. TypeOK' /\ ProjectsKept
    BY <1>1, <1>3 DEF TablesOK, TypeOK, ProjectsKept
  <2>2. ParentInProject'
    BY <1>1, <1>3 DEF ForeignKeysHold, TablesOK, TypeOK, ParentInProject
  <2> QED
    BY <2>1, <2>2 DEF TablesOK
<1> QED
  BY <1>2, <1>3 DEF SaveWrite

LEMMA RemoveTables ==
  ASSUME TablesOK,
         \/ \E t \in tasks : RemoveTask(t)
         \/ \E p \in projects : RemoveProject(p)
  PROVE  TablesOK' /\ project' = project
<1>1. ASSUME NEW t \in tasks, RemoveTask(t) PROVE TablesOK' /\ project' = project
  BY <1>1, RemoveTaskScoping DEF TablesOK, TypeOK, RemoveTask
<1>2. ASSUME NEW p \in projects, RemoveProject(p) PROVE TablesOK' /\ project' = project
  BY <1>2, RemoveProjectScoping DEF TablesOK, TypeOK, RemoveProject
<1> QED
  BY <1>1, <1>2

-----------------------------------------------------------------------------

LEMMA TreeInitInv == TreeInit => TreeIInv
<1> SUFFICES ASSUME TreeInit PROVE TablesOK /\ RequestsOK
  BY DEF TreeIInv, TreeTypeOK, TablesOK, RequestsOK
<1>1. TablesOK
  BY DEF TreeInit, Init, TablesOK, TypeOK, ParentInProject
<1>2. NoContext \in Context /\ Defined("idle", NoContext) /\ Scoped(project, "idle", NoContext)
  BY DEF NoContext, Context, Defined, Scoped
<1> QED
  BY <1>1, <1>2 DEF TreeInit, RequestsOK, RequestsTypeOK, RequestsConsistent

LEMMA TreeNextInv == TreeIInv /\ [TreeNext]_vars => TreeIInv'
<1> SUFFICES ASSUME TablesOK, RequestsOK, [TreeNext]_vars PROVE TablesOK' /\ RequestsOK'
  BY DEF TreeIInv, TreeTypeOK, TablesOK, RequestsOK
<1>1. ASSUME UNCHANGED table PROVE TablesOK' /\ ProjectsKept /\ project' = project
  BY <1>1, TablesUnchanged DEF table, ProjectsKept
<1>2. ASSUME NEW r \in Requests, CreateStart(r) PROVE TablesOK' /\ RequestsOK'
  <2>1. PICK p \in projects, q \in TaskIds \cup {Null} :
          /\ ctx' = [ctx EXCEPT ![r] = [NoContext EXCEPT !.proj = p, !.target = q]]
          /\ Goto(r, IF q = Null THEN "createInsert" ELSE "createFindParent")
    BY <1>2 DEF CreateStart
  <2> DEFINE c == [NoContext EXCEPT !.proj = p, !.target = q]
             s == IF q = Null THEN "createInsert" ELSE "createFindParent"
  <2>2. s \in Statements /\ c \in Context /\ c.proj = p /\ c.target = q
    BY DEF NoContext, Context, TablesOK, TypeOK
  <2>3. Defined(s, c) /\ Scoped(project, s, c)
    BY <2>2, RequestAssumption DEF Defined, Scoped, TablesOK, TypeOK
  <2>4. UNCHANGED table
    BY <1>2 DEF CreateStart
  <2> HIDE DEF c, s
  <2> QED
    BY <1>1, <2>1, <2>2, <2>3, <2>4, RequestStep DEF Goto, TablesOK, c, s
<1>3. ASSUME NEW r \in Requests, CreateFindParent(r) PROVE TablesOK' /\ RequestsOK'
  <2>1. TargetFound(ctx[r]) =>
          Defined("createCheckDepth", ctx[r]) /\ Scoped(project, "createCheckDepth", ctx[r])
    BY <1>3, LocalsOf DEF CreateFindParent, TargetFound, Defined, Scoped
  <2> QED
    BY <1>1, <1>3, <2>1, CheckStep DEF CreateFindParent, TablesOK
<1>4. ASSUME NEW r \in Requests, CreateCheckDepth(r) PROVE TablesOK' /\ RequestsOK'
  <2>1. Defined("createInsert", ctx[r]) /\ Scoped(project, "createInsert", ctx[r])
    BY <1>4, LocalsOf DEF CreateCheckDepth, Defined, Scoped
  <2> QED
    BY <1>1, <1>4, <2>1, CheckStep DEF CreateCheckDepth, TablesOK
<1>5. ASSUME NEW r \in Requests, CreateInsert(r) PROVE TablesOK' /\ RequestsOK'
  BY <1>5, InsertTables, ReplyStep DEF CreateInsert, TablesOK
<1>6. ASSUME NEW r \in Requests, UpdateStart(r) PROVE TablesOK' /\ RequestsOK'
  <2>1. PICK t \in tasks, q \in PatchTargets \cup {Undefined} :
          /\ ctx' = [ctx EXCEPT ![r] =
                       [NoContext EXCEPT !.id = t, !.proj = project[t], !.target = q,
                                         !.row = RowAfterPatch(t, q)]]
          /\ Goto(r, IF q \in TaskIds THEN "updateFindParent" ELSE "saveSelect")
    BY <1>6 DEF UpdateStart
  <2> DEFINE c == [NoContext EXCEPT !.id = t, !.proj = project[t], !.target = q,
                                    !.row = RowAfterPatch(t, q)]
             s == IF q \in TaskIds THEN "updateFindParent" ELSE "saveSelect"
  <2>2. /\ t \in TaskIds /\ project[t] \in Projects
        /\ parent[t] \in TaskIds \cup {Null}
        /\ parent[t] # Null => project[parent[t]] = project[t]
    BY DEF TablesOK, TypeOK, ParentInProject
  <2>3. /\ s \in Statements /\ c \in Context
        /\ c.id = t /\ c.proj = project[t] /\ c.target = q /\ c.row \in {Null, parent[t]}
    BY <2>2, RequestAssumption DEF NoContext, Context, RowAfterPatch
  <2>4. Defined(s, c) /\ Scoped(project, s, c)
    BY <2>2, <2>3 DEF Defined, Scoped
  <2>5. UNCHANGED table
    BY <1>6 DEF UpdateStart
  <2> HIDE DEF c, s
  <2> QED
    BY <1>1, <2>1, <2>3, <2>4, <2>5, RequestStep DEF Goto, TablesOK, c, s
<1>7. ASSUME NEW r \in Requests, UpdateFindParent(r) PROVE TablesOK' /\ RequestsOK'
  <2>1. TargetFound(ctx[r]) =>
          Defined("updateCheckCycle", ctx[r]) /\ Scoped(project, "updateCheckCycle", ctx[r])
    BY <1>7, LocalsOf DEF UpdateFindParent, TargetFound, Defined, Scoped
  <2> QED
    BY <1>1, <1>7, <2>1, CheckStep DEF UpdateFindParent, TablesOK
<1>8. ASSUME NEW r \in Requests, UpdateCheckCycle(r) PROVE TablesOK' /\ RequestsOK'
  <2>1. \A s \in {"updateCheckDepth", "hung"} : Defined(s, ctx[r]) /\ Scoped(project, s, ctx[r])
    BY <1>8, LocalsOf DEF UpdateCheckCycle, Defined, Scoped
  <2>2. CASE IsAncestorEnds(tasks, parent, ctx[r].id, ctx[r].target)
    BY <1>1, <1>8, <2>1, <2>2, CheckStep DEF UpdateCheckCycle, TablesOK
  <2>3. CASE ~ IsAncestorEnds(tasks, parent, ctx[r].id, ctx[r].target)
    BY <1>1, <1>8, <2>1, <2>3, GotoStep DEF UpdateCheckCycle, TablesOK, table
  <2> QED
    BY <2>2, <2>3
<1>9. ASSUME NEW r \in Requests, UpdateCheckDepth(r) PROVE TablesOK' /\ RequestsOK'
  <2>1. CASE TargetNotTooDeep(ctx[r])
    <3> DEFINE c == [ctx[r] EXCEPT !.row = ctx[r].target]
    <3>1. ctx[r] \in Context /\ Defined(pc[r], ctx[r]) /\ Scoped(project, pc[r], ctx[r])
      BY LocalsOf
    <3>2. pc[r] = "updateCheckDepth" /\ ctx[r].target \in TaskIds
      BY <1>9, <3>1 DEF UpdateCheckDepth, Defined
    <3>3. /\ c \in Context /\ c.id = ctx[r].id /\ c.proj = ctx[r].proj
          /\ c.row = ctx[r].target
      BY <3>1, <3>2 DEF Context
    <3>4. Defined("saveSelect", c) /\ Scoped(project, "saveSelect", c)
      BY <3>1, <3>2, <3>3, IdsAssumption DEF Defined, Scoped
    <3>5. /\ ctx' = [ctx EXCEPT ![r] = c] /\ pc' = [pc EXCEPT ![r] = "saveSelect"]
          /\ UNCHANGED table
      BY <1>9, <2>1 DEF UpdateCheckDepth, Goto
    <3> HIDE DEF c
    <3> QED
      BY <1>1, <3>3, <3>4, <3>5, RequestStep DEF TablesOK
  <2>2. CASE ~ TargetNotTooDeep(ctx[r])
    BY <1>1, <1>9, <2>2, ReplyStep DEF UpdateCheckDepth, TablesOK
  <2> QED
    BY <2>1, <2>2
<1>10. ASSUME NEW r \in Requests, SaveSelect(r) PROVE TablesOK' /\ RequestsOK'
  <2> DEFINE b == IF ctx[r].id \in tasks THEN parent[ctx[r].id] ELSE Undefined
             c == [ctx[r] EXCEPT !.base = b]
  <2>1. ctx[r] \in Context /\ Defined(pc[r], ctx[r]) /\ Scoped(project, pc[r], ctx[r])
    BY LocalsOf
  <2>2. b \in TaskIds \cup {Null, Undefined}
    BY DEF TablesOK, TypeOK
  <2>3. /\ c \in Context /\ c.id = ctx[r].id /\ c.proj = ctx[r].proj
        /\ c.row = ctx[r].row
    BY <2>1, <2>2 DEF Context
  <2>4. Defined("saveWrite", c) /\ Scoped(project, "saveWrite", c)
    BY <1>10, <2>1, <2>3 DEF SaveSelect, Defined, Scoped
  <2>5. /\ ctx' = [ctx EXCEPT ![r] = c] /\ pc' = [pc EXCEPT ![r] = "saveWrite"]
        /\ UNCHANGED table
    BY <1>10 DEF SaveSelect, Goto
  <2> HIDE DEF c
  <2> QED
    BY <1>1, <2>3, <2>4, <2>5, RequestStep DEF TablesOK
<1>11. ASSUME NEW r \in Requests, SaveWrite(r) PROVE TablesOK' /\ RequestsOK'
  BY <1>11, SaveTables, ReplyStep DEF SaveWrite, TablesOK
<1>12. ASSUME NEW r \in Requests, DeleteTask(r) \/ DeleteProject(r) PROVE TablesOK' /\ RequestsOK'
  BY <1>12, RemoveTables
     DEF DeleteTask, DeleteProject, RequestsOK, RequestsTypeOK, RequestsConsistent
<1>13. ASSUME NEW r \in Requests, Abort(r) PROVE TablesOK' /\ RequestsOK'
  BY <1>1, <1>13, ReplyStep DEF Abort, TablesOK
<1>14. CASE UNCHANGED vars
  BY <1>1, <1>14 DEF vars, table, RequestsOK, RequestsTypeOK, RequestsConsistent
<1> QED
  BY <1>2, <1>3, <1>4, <1>5, <1>6, <1>7, <1>8, <1>9, <1>10, <1>11, <1>12, <1>13, <1>14
     DEF TreeNext, Step

(* However the requests interleave, the tables are scoped, and what the    *)
(* requests in flight remember of them stays true.                         *)
THEOREM TreeInvariance == TreeSpec => []TreeIInv
  BY TreeInitInv, TreeNextInv, PTL DEF TreeSpec

(* The columns and every request's locals keep their types, and a local is *)
(* defined by the time a statement uses it.                                *)
THEOREM TreeTypeCorrect == TreeSpec => []TreeTypeOK
  BY TreeInvariance, PTL DEF TreeIInv

(* However the requests interleave, a task's parent exists and is a task   *)
(* of the same project, and the project exists.                            *)
THEOREM TreeScoping == TreeSpec => []ParentInProject
  BY TreeInvariance, PTL DEF TreeIInv

(* What the requests in flight know of the tasks' projects stays true.     *)
THEOREM TreeLocalsScoped == TreeSpec => []RequestsConsistent
  BY TreeInvariance, PTL DEF TreeIInv

-----------------------------------------------------------------------------
(***************************************************************************)
(* Two conditions under which the interleaved service keeps the tasks a    *)
(* forest: it serves one request at a time, or no request names a new      *)
(* parent for an existing task. Without either it does not.                *)
(***************************************************************************)

(* No two requests are ever in flight together. *)
Serial == \A r, s \in Requests : r = s

(* Requests may detach a task from its parent but not give it another. *)
Detaching == PatchTargets \subseteq {Null}

-----------------------------------------------------------------------------
(***************************************************************************)
(* One request at a time: what its checks found is still so when it        *)
(* writes, because nobody else writes in between.                          *)
(***************************************************************************)

MayMoveUnder(c, q) ==
  q = Null \/ (MayHoldChild(q, c.proj) /\ ~ IsAncestor(tasks, parent, c.id, q))

Current(s, c) ==
  /\ s \in CreateSteps => c.proj \in projects
  /\ s \in {"createCheckDepth", "updateCheckCycle", "updateCheckDepth"} => TargetFound(c)
  /\ s = "createInsert" => c.target = Null \/ MayHoldChild(c.target, c.proj)
  /\ s \in UpdateSteps => c.id \in tasks /\ c.proj = project[c.id]
  /\ s \in CheckSteps => c.row = parent[c.id]
  /\ s = "updateCheckDepth" => ~ IsAncestor(tasks, parent, c.id, c.target)
  /\ s \in SaveSteps =>
       c.row = parent[c.id] \/ (c.row = c.target /\ MayMoveUnder(c, c.row))
  /\ s = "saveWrite" => c.base = parent[c.id]

LocalsCurrent == \A r \in Requests : Current(pc[r], ctx[r])

LEMMA CurrentInit == TreeInit => LocalsCurrent
  BY DEF TreeInit, LocalsCurrent, Current

(* A statement that writes no table and leaves its request's locals current. *)
LEMMA CurrentKept ==
  ASSUME Serial, RequestsOK, UNCHANGED table, NEW r \in Requests,
         Current(pc'[r], ctx'[r])
  PROVE  LocalsCurrent'
<1>1. Current(pc[r], ctx[r])'
  BY DEF Current, table, TargetFound, MayMoveUnder, MayHoldChild
<1> QED
  BY <1>1 DEF Serial, LocalsCurrent

LEMMA CurrentIdle ==
  ASSUME Serial, NEW r \in Requests, pc'[r] = "idle"
  PROVE  LocalsCurrent'
  BY DEF Serial, LocalsCurrent, Current

LEMMA ReplyIdle ==
  ASSUME RequestsOK, NEW r \in Requests, Reply(r)
  PROVE  pc'[r] = "idle"
  BY DEF RequestsOK, RequestsTypeOK, Reply, Goto

LEMMA CurrentNext ==
  ASSUME Serial, TablesOK, RequestsOK, LocalsCurrent, [TreeNext]_vars
  PROVE  LocalsCurrent'
<1>0. ASSUME NEW r \in Requests
      PROVE  /\ pc \in [Requests -> Statements] /\ ctx \in [Requests -> Context]
             /\ ctx[r] \in Context /\ Defined(pc[r], ctx[r]) /\ Current(pc[r], ctx[r])
  BY DEF RequestsOK, RequestsTypeOK, LocalsCurrent
<1>1. ASSUME NEW r \in Requests, CreateStart(r) PROVE LocalsCurrent'
  <2>1. Current(pc'[r], ctx'[r])
    BY <1>0, <1>1 DEF CreateStart, Goto, NoContext, Current
  <2> QED
    BY <1>1, <2>1, CurrentKept DEF CreateStart
<1>2. ASSUME NEW r \in Requests, NEW b, NEW s \in Statements, Check(r, b, s),
             b => Current(s, ctx[r])
      PROVE  LocalsCurrent'
  <2>1. CASE b
    <3>1. pc'[r] = s /\ ctx'[r] = ctx[r] /\ UNCHANGED table
      BY <1>0, <1>2, <2>1 DEF Check, Goto
    <3> QED
      BY <1>2, <2>1, <3>1, CurrentKept
  <2>2. CASE ~ b
    BY <1>2, <2>2, ReplyIdle, CurrentIdle DEF Check
  <2> QED
    BY <2>1, <2>2
<1>3. ASSUME NEW r \in Requests, CreateFindParent(r) PROVE LocalsCurrent'
  <2>1. TargetFound(ctx[r]) => Current("createCheckDepth", ctx[r])
    BY <1>0, <1>3 DEF CreateFindParent, Current
  <2> QED
    BY <1>2, <1>3, <2>1 DEF CreateFindParent
<1>4. ASSUME NEW r \in Requests, CreateCheckDepth(r) PROVE LocalsCurrent'
  <2>1. TargetNotTooDeep(ctx[r]) => Current("createInsert", ctx[r])
    BY <1>0, <1>4 DEF CreateCheckDepth, Current, TargetNotTooDeep, TargetFound, MayHoldChild
  <2> QED
    BY <1>2, <1>4, <2>1 DEF CreateCheckDepth
<1>5. ASSUME NEW r \in Requests, CreateInsert(r) \/ SaveWrite(r) \/ Abort(r) PROVE LocalsCurrent'
  BY <1>5, ReplyIdle, CurrentIdle DEF CreateInsert, SaveWrite, Abort
<1>6. ASSUME NEW r \in Requests, UpdateStart(r) PROVE LocalsCurrent'
  <2>1. PICK t \in tasks, q \in PatchTargets \cup {Undefined} :
          /\ ctx' = [ctx EXCEPT ![r] =
                       [NoContext EXCEPT !.id = t, !.proj = project[t], !.target = q,
                                         !.row = RowAfterPatch(t, q)]]
          /\ Goto(r, IF q \in TaskIds THEN "updateFindParent" ELSE "saveSelect")
          /\ UNCHANGED table
    BY <1>6 DEF UpdateStart
  <2>2. /\ ctx'[r].id = t /\ ctx'[r].proj = project[t] /\ ctx'[r].row = RowAfterPatch(t, q)
        /\ ctx'[r].target = q
        /\ pc'[r] = IF q \in TaskIds THEN "updateFindParent" ELSE "saveSelect"
    BY <1>0, <2>1 DEF Goto, NoContext
  <2>3. Current(pc'[r], ctx'[r])
    BY <2>2, IdsAssumption DEF Current, RowAfterPatch, MayMoveUnder
  <2> QED
    BY <2>1, <2>3, CurrentKept
<1>7. ASSUME NEW r \in Requests, UpdateFindParent(r) PROVE LocalsCurrent'
  <2>1. TargetFound(ctx[r]) => Current("updateCheckCycle", ctx[r])
    BY <1>0, <1>7 DEF UpdateFindParent, Current
  <2> QED
    BY <1>2, <1>7, <2>1 DEF UpdateFindParent
<1>8. ASSUME NEW r \in Requests, UpdateCheckCycle(r) PROVE LocalsCurrent'
  <2>1. ~ IsAncestor(tasks, parent, ctx[r].id, ctx[r].target) =>
          Current("updateCheckDepth", ctx[r])
    BY <1>0, <1>8 DEF UpdateCheckCycle, Current
  <2>2. CASE IsAncestorEnds(tasks, parent, ctx[r].id, ctx[r].target)
    BY <1>2, <1>8, <2>1, <2>2 DEF UpdateCheckCycle
  <2>3. CASE ~ IsAncestorEnds(tasks, parent, ctx[r].id, ctx[r].target)
    <3>1. pc'[r] = "hung" /\ ctx'[r] = ctx[r] /\ UNCHANGED table
      BY <1>0, <1>8, <2>3 DEF UpdateCheckCycle, Goto
    <3>2. Current("hung", ctx[r])
      BY <1>0, <1>8 DEF UpdateCheckCycle, Current
    <3> QED
      BY <3>1, <3>2, CurrentKept
  <2> QED
    BY <2>2, <2>3
<1>9. ASSUME NEW r \in Requests, UpdateCheckDepth(r) PROVE LocalsCurrent'
  <2> DEFINE c == ctx[r]
  <2>1. CASE TargetNotTooDeep(c)
    <3>1. /\ pc'[r] = "saveSelect" /\ UNCHANGED table
          /\ ctx'[r] = [c EXCEPT !.row = c.target]
      BY <1>0, <1>9, <2>1 DEF UpdateCheckDepth, Goto
    <3>2. /\ ctx'[r].id = c.id /\ ctx'[r].proj = c.proj /\ ctx'[r].row = c.target
          /\ ctx'[r].target = c.target
      BY <1>0, <3>1 DEF Context
    <3>3. MayHoldChild(c.target, c.proj) /\ ~ IsAncestor(tasks, parent, c.id, c.target)
      BY <1>0, <1>9, <2>1 DEF UpdateCheckDepth, Current, TargetFound, TargetNotTooDeep, MayHoldChild
    <3>4. c.id \in tasks /\ c.proj = project[c.id]
      BY <1>0, <1>9 DEF UpdateCheckDepth, Current
    <3>5. Current(pc'[r], ctx'[r])
      BY <3>1, <3>2, <3>3, <3>4 DEF Current, MayMoveUnder
    <3> QED
      BY <3>1, <3>5, CurrentKept
  <2>2. CASE ~ TargetNotTooDeep(c)
    BY <1>9, <2>2, ReplyIdle, CurrentIdle DEF UpdateCheckDepth
  <2> QED
    BY <2>1, <2>2
<1>10. ASSUME NEW r \in Requests, SaveSelect(r) PROVE LocalsCurrent'
  <2> DEFINE c == ctx[r]
  <2>1. c.id \in tasks /\ c.proj = project[c.id]
        /\ (c.row = parent[c.id] \/ (c.row = c.target /\ MayMoveUnder(c, c.row)))
    BY <1>0, <1>10 DEF SaveSelect, Current
  <2>2. /\ pc'[r] = "saveWrite" /\ UNCHANGED table
        /\ ctx'[r] = [c EXCEPT !.base = parent[c.id]]
    BY <1>0, <1>10, <2>1 DEF SaveSelect, Goto
  <2>3. /\ ctx'[r].id = c.id /\ ctx'[r].proj = c.proj /\ ctx'[r].row = c.row
        /\ ctx'[r].target = c.target
        /\ ctx'[r].base = parent[c.id]
    BY <1>0, <2>2 DEF Context
  <2>4. Current(pc'[r], ctx'[r])
    BY <2>1, <2>2, <2>3 DEF Current, MayMoveUnder
  <2> QED
    BY <2>2, <2>4, CurrentKept
<1>11. ASSUME NEW r \in Requests, DeleteTask(r) \/ DeleteProject(r) PROVE LocalsCurrent'
  BY <1>11, CurrentIdle DEF DeleteTask, DeleteProject
<1>12. CASE UNCHANGED vars
  BY <1>0, <1>12, CurrentKept DEF vars, LocalsCurrent
<1> QED
  BY <1>1, <1>3, <1>4, <1>5, <1>6, <1>7, <1>8, <1>9, <1>10, <1>11, <1>12 DEF TreeNext, Step

(* A statement is one of the abstract service's requests or changes nothing. *)
LEMMA StepRefines ==
  ASSUME TablesOK, RequestsOK, LocalsCurrent, [TreeNext]_vars
  PROVE  [Next]_table
<1>0. ASSUME NEW r \in Requests
      PROVE  /\ ctx[r] \in Context /\ Defined(pc[r], ctx[r]) /\ Current(pc[r], ctx[r])
  BY DEF RequestsOK, RequestsTypeOK, LocalsCurrent
<1>1. ASSUME NEW r \in Requests, CreateInsert(r) PROVE [Next]_table
  <2> DEFINE c == ctx[r]
  <2>1. c.proj \in Projects /\ c.target \in TaskIds \cup {Null}
    BY <1>0, <1>1 DEF CreateInsert, Defined, Context
  <2>2. c.proj \in projects /\ (c.target = Null \/ MayHoldChild(c.target, c.proj))
    BY <1>0, <1>1 DEF CreateInsert, Current
  <2>3. ASSUME NEW t \in FreshIds,
               tasks' = tasks \cup {t},
               parent' = [parent EXCEPT ![t] = c.target],
               project' = [project EXCEPT ![t] = c.proj],
               UNCHANGED projects
        PROVE  Next
    <3>1. t \in TaskIds /\ Create(t, c.proj, c.target)
      BY <2>2, <2>3 DEF FreshIds, Create
    <3> QED
      BY <2>1, <3>1 DEF Next
  <2> QED
    BY <1>1, <2>3 DEF CreateInsert
<1>2. ASSUME NEW r \in Requests, SaveWrite(r) PROVE [Next]_table
  <2> DEFINE c == ctx[r]
  <2>1. c.id \in TaskIds /\ c.row \in TaskIds \cup {Null}
    BY <1>0, <1>2 DEF SaveWrite, Defined, Context
  <2>2. /\ c.id \in tasks /\ c.proj = project[c.id] /\ c.base = parent[c.id]
        /\ c.row = parent[c.id] \/ MayMoveUnder(c, c.row)
    BY <1>0, <1>2 DEF SaveWrite, Current
  <2>3. CASE UNCHANGED table
    BY <2>3
  <2>4. CASE /\ c.base # c.row
             /\ tasks' = tasks \cup {c.id}
             /\ parent' = [parent EXCEPT ![c.id] = c.row]
             /\ UNCHANGED <<project, projects>>
    <3>1. Move(c.id, c.row)
      BY <2>2, <2>4 DEF Move, MayMoveUnder
    <3> QED
      BY <2>1, <3>1 DEF Next
  <2> QED
    BY <1>2, <2>2, <2>3, <2>4 DEF SaveWrite
<1>3. ASSUME NEW r \in Requests, DeleteTask(r) \/ DeleteProject(r) PROVE [Next]_table
  BY <1>3 DEF DeleteTask, DeleteProject, Next, TablesOK, TypeOK
<1>4. CASE UNCHANGED vars
  BY <1>4 DEF vars
<1> QED
  BY <1>1, <1>2, <1>3, <1>4
     DEF TreeNext, Step, Check, CreateStart, CreateFindParent, CreateCheckDepth, UpdateStart,
         UpdateFindParent, UpdateCheckCycle, UpdateCheckDepth, SaveSelect, Abort

LEMMA SerialIsAbstract == ASSUME Serial PROVE TreeSpec => Spec
<1>1. TreeInit => LocalsCurrent /\ Init
  BY CurrentInit DEF TreeInit
<1>2. TreeIInv /\ LocalsCurrent /\ [TreeNext]_vars => LocalsCurrent' /\ [Next]_table
  BY Serial, CurrentNext, StepRefines DEF TreeIInv, TreeTypeOK, TablesOK, RequestsOK
<1> QED
  BY <1>1, <1>2, TreeInvariance, PTL DEF TreeSpec, Spec

(* Served one at a time, the requests implement the abstract service, in   *)
(* which each of them is a single step.                                    *)
THEOREM SerialImplementsForest == ASSUME Serial PROVE TreeSpec => ImplementsForest
<1>1. TreeSpec => Spec
  BY Serial, SerialIsAbstract
<1>2. Spec => ImplementsForest
  <2>1. \A t, q : Abstract!IsAncestor(tasks, parent, t, q) = IsAncestor(tasks, parent, t, q)
    BY DEF Abstract!IsAncestor, IsAncestor, Abstract!Ancestors, Ancestors,
           Abstract!ClosedUpward, ClosedUpward
  <2>2. \A q : Abstract!GetDepth(tasks, parent, q) = GetDepth(tasks, parent, q)
    BY DEF Abstract!GetDepth, GetDepth, Abstract!ReachesRoot, ReachesRoot,
           Abstract!Ancestors, Ancestors, Abstract!ClosedUpward, ClosedUpward,
           Abstract!DepthCap, DepthCap, Abstract!Cardinality, Cardinality
  <2>3. \A D : Abstract!Descendants(tasks, parent, D) = Descendants(tasks, parent, D)
    BY DEF Abstract!Descendants, Descendants, Abstract!ClosedDownward, ClosedDownward
  <2>4. \A q, p : Abstract!MayHoldChild(q, p) = MayHoldChild(q, p)
    BY <2>2 DEF Abstract!MayHoldChild, MayHoldChild
  <2>5. Init => Abstract!Init
    BY DEF Init, Abstract!Init
  <2>6. /\ \A t, p, q : Create(t, p, q) => Abstract!Create(t, p, q)
        /\ \A t, q : Move(t, q) => Abstract!Move(t, q)
        /\ \A t : RemoveTask(t) => Abstract!RemoveTask(t)
        /\ \A p : RemoveProject(p) => Abstract!RemoveProject(p)
    BY <2>1, <2>3, <2>4
       DEF Create, Move, RemoveTask, RemoveProject, Abstract!Create, Abstract!Move,
           Abstract!RemoveTask, Abstract!RemoveProject
  <2>7. [Next]_table => [Abstract!Next]_(Abstract!table)
    BY <2>6 DEF Next, Abstract!Next, table, Abstract!table
  <2> QED
    BY <2>5, <2>7, PTL DEF Spec, ImplementsForest, Abstract!Spec
<1> QED
  BY <1>1, <1>2

(* So they keep the tasks a forest. *)
THEOREM SerialNoCycles == ASSUME Serial PROVE TreeSpec => []NoCycles
  BY Serial, SerialIsAbstract, ForestHolds, PTL

(* Served one at a time, a PATCH that does not ask for another parent      *)
(* leaves the task where it is: update writes back the parent that is      *)
(* still there.  (With two requests it may undo a move.)                   *)
THEOREM SerialOnlyMovesMove == ASSUME Serial PROVE TreeSpec => OnlyMovesMove
<1> DEFINE Asked ==
      \A t \in tasks \cap tasks' :
        parent'[t] # parent[t] =>
          \E r \in Requests : ctx[r].id = t /\ ctx[r].target = parent'[t]
<1>1. ASSUME TablesOK, RequestsOK, LocalsCurrent, [TreeNext]_vars PROVE [Asked]_vars
  <2>1. ASSUME NEW r \in Requests, CreateInsert(r) PROVE Asked
    <3>1. CASE UNCHANGED table
      BY <3>1 DEF table
    <3>2. ASSUME NEW t \in FreshIds, parent' = [parent EXCEPT ![t] = ctx[r].target]
          PROVE  Asked
      <4>1. t \notin tasks
        BY <1>1, IdsAssumption DEF FreshIds, TablesOK, TypeOK, ParentInProject
      <4> QED
        BY <1>1, <3>2, <4>1 DEF TablesOK, TypeOK
    <3> QED
      BY <2>1, <3>1, <3>2 DEF CreateInsert
  <2>2. ASSUME NEW r \in Requests, SaveWrite(r) PROVE Asked
    <3> DEFINE c == ctx[r]
    <3>1. CASE UNCHANGED table
      BY <3>1 DEF table
    <3>2. CASE /\ parent' = [parent EXCEPT ![c.id] = c.row]
               /\ c.row = parent[c.id] \/ c.row = c.target
      BY <1>1, <3>2 DEF TablesOK, TypeOK
    <3> QED
      BY <1>1, <2>2, <3>1, <3>2 DEF SaveWrite, LocalsCurrent, Current
  <2>3. ASSUME parent' = parent PROVE Asked
    BY <2>3
  <2> QED
    BY <1>1, <2>1, <2>2, <2>3
       DEF TreeNext, Step, CreateStart, CreateFindParent, CreateCheckDepth, UpdateStart,
           UpdateFindParent, UpdateCheckCycle, UpdateCheckDepth, SaveSelect, DeleteTask,
           DeleteProject, RemoveTask, RemoveProject, Abort, Check, table
<1>2. TreeSpec => [](TreeIInv /\ LocalsCurrent)
  <2>1. TreeIInv /\ LocalsCurrent /\ [TreeNext]_vars => LocalsCurrent'
    BY Serial, CurrentNext DEF TreeIInv, TreeTypeOK, TablesOK, RequestsOK
  <2> QED
    BY <2>1, CurrentInit, TreeInvariance, PTL DEF TreeSpec
<1>3. TreeIInv /\ LocalsCurrent /\ [TreeNext]_vars => [Asked]_vars
  BY <1>1 DEF TreeIInv, TreeTypeOK, TablesOK, RequestsOK
<1> QED
  BY <1>2, <1>3, PTL DEF TreeSpec, OnlyMovesMove

-----------------------------------------------------------------------------
(***************************************************************************)
(* No request names a new parent: any number of them may interleave.  The  *)
(* parents that requests in flight remember count as edges too, because    *)
(* their save may write them back.                                         *)
(***************************************************************************)

Edge(u, v) ==
  \/ u \in tasks /\ parent[u] = v
  \/ \E r \in Requests : pc[r] \in UpdateSteps /\ ctx[r].id = u /\ ctx[r].row = v

EdgesAcyclic == \A S \in SUBSET TaskIds : S # {} => \E u \in S : \A v \in S : ~ Edge(u, v)

NoChecks == \A r \in Requests : pc[r] \in {"idle"} \cup CreateSteps \cup SaveSteps

EdgesInv == EdgesAcyclic /\ NoChecks

LEMMA FewerEdges ==
  ASSUME EdgesAcyclic, \A u \in TaskIds, v \in TaskIds : Edge(u, v)' => Edge(u, v)
  PROVE  EdgesAcyclic'
  BY DEF EdgesAcyclic

(* A request that replies takes its edge along. *)
LEMMA ReplyEdges ==
  ASSUME RequestsOK, NEW r \in Requests, Reply(r)
  PROVE  \A i \in Requests : pc'[i] \in UpdateSteps =>
           i # r /\ pc'[i] = pc[i] /\ ctx'[i] = ctx[i]
  BY DEF RequestsOK, RequestsTypeOK, Reply, Goto

LEMMA InsertEdges ==
  ASSUME TablesOK, RequestsOK, EdgesAcyclic, NEW r \in Requests, CreateInsert(r)
  PROVE  EdgesAcyclic'
<1> DEFINE c == ctx[r]
<1>1. \A i \in Requests : pc'[i] \in UpdateSteps =>
           i # r /\ pc'[i] = pc[i] /\ ctx'[i] = ctx[i]
  BY ReplyEdges DEF CreateInsert
<1>2. CASE UNCHANGED table
  BY <1>1, <1>2, FewerEdges DEF Edge, table
<1>3. ASSUME NEW t \in FreshIds, ForeignKeysHold(c.proj, c.target),
             tasks' = tasks \cup {t},
             parent' = [parent EXCEPT ![t] = c.target]
      PROVE  EdgesAcyclic'
  <2>1. t \in TaskIds /\ project[t] = Null /\ t \notin tasks
    BY IdsAssumption DEF FreshIds, TablesOK, TypeOK, ParentInProject
  <2>2. \A i \in Requests : pc[i] \in UpdateSteps => ctx[i].id # t /\ ctx[i].row # t
    BY <2>1, LocalsOf, IdsAssumption DEF Scoped, Defined
  <2>3. \A u \in tasks : parent[u] # t
    BY <2>1, IdsAssumption DEF TablesOK, TypeOK, ParentInProject
  <2>4. c.target # t
    BY <1>3, <2>1, IdsAssumption DEF ForeignKeysHold
  <2>5. /\ parent'[t] = c.target
        /\ \A u \in tasks : parent'[u] = parent[u]
    BY <1>3, <2>1 DEF TablesOK, TypeOK
  <2>6. \A u \in TaskIds : ~ Edge(u, t)'
    BY <1>1, <1>3, <2>2, <2>3, <2>4, <2>5 DEF Edge
  <2>7. \A u \in TaskIds \ {t}, v \in TaskIds : Edge(u, v)' => Edge(u, v)
    BY <1>1, <1>3, <2>5 DEF Edge
  <2>8. SUFFICES ASSUME NEW S \in SUBSET TaskIds, S # {}
                 PROVE  \E u \in S : \A v \in S : ~ Edge(u, v)'
    BY DEF EdgesAcyclic
  <2>9. CASE S \ {t} = {}
    BY <2>6, <2>8, <2>9
  <2>10. CASE S \ {t} # {}
    <3>1. PICK u \in S \ {t} : \A v \in S \ {t} : ~ Edge(u, v)
      BY <2>10 DEF EdgesAcyclic
    <3> QED
      BY <2>6, <2>7, <3>1
  <2> QED
    BY <2>9, <2>10
<1> QED
  BY <1>2, <1>3 DEF CreateInsert

LEMMA EdgesNext ==
  ASSUME TablesOK, RequestsOK, EdgesInv, [TreeNext]_vars,
         \A r \in Requests : UpdateStart(r) => ctx'[r].target \notin TaskIds
  PROVE  EdgesInv'
<1>0. /\ EdgesAcyclic /\ NoChecks
      /\ pc \in [Requests -> Statements] /\ ctx \in [Requests -> Context]
  BY DEF EdgesInv, RequestsOK, RequestsTypeOK
<1>1. ASSUME NEW r \in Requests, NEW s \in {"idle"} \cup CreateSteps \cup SaveSteps,
             pc' = [pc EXCEPT ![r] = s]
      PROVE  NoChecks'
  BY <1>0, <1>1 DEF NoChecks
<1>2. ASSUME NEW r \in Requests, Reply(r), tasks' \subseteq tasks, parent' = parent
      PROVE  EdgesInv'
  <2>1. \A u \in TaskIds, v \in TaskIds : Edge(u, v)' => Edge(u, v)
    BY <1>2, ReplyEdges DEF Edge
  <2> QED
    BY <1>0, <1>1, <1>2, <2>1, FewerEdges DEF EdgesInv, Reply, Goto
<1>3. ASSUME NEW r \in Requests,
             CreateStart(r) \/ CreateFindParent(r) \/ CreateCheckDepth(r)
      PROVE  EdgesInv'
  <2>1. /\ UNCHANGED table
        /\ \E s \in {"idle"} \cup CreateSteps : pc' = [pc EXCEPT ![r] = s]
        /\ \A i \in Requests \ {r} : ctx'[i] = ctx[i]
    BY <1>0, <1>3 DEF CreateStart, CreateFindParent, CreateCheckDepth, Check, Reply, Goto, table
  <2>2. \A u \in TaskIds, v \in TaskIds : Edge(u, v)' => Edge(u, v)
    BY <1>0, <2>1 DEF Edge, table
  <2> QED
    BY <1>0, <1>1, <2>1, <2>2, FewerEdges DEF EdgesInv
<1>4. ASSUME NEW r \in Requests, CreateInsert(r) PROVE EdgesInv'
  BY <1>0, <1>1, <1>4, InsertEdges DEF EdgesInv, CreateInsert, Reply, Goto
<1>5. ASSUME NEW r \in Requests, UpdateStart(r) PROVE EdgesInv'
  <2>1. PICK t \in tasks, q \in PatchTargets \cup {Undefined} :
          /\ ctx' = [ctx EXCEPT ![r] =
                       [NoContext EXCEPT !.id = t, !.proj = project[t], !.target = q,
                                         !.row = RowAfterPatch(t, q)]]
          /\ Goto(r, IF q \in TaskIds THEN "updateFindParent" ELSE "saveSelect")
          /\ UNCHANGED table
    BY <1>5 DEF UpdateStart
  <2>2. q \notin TaskIds
    BY <1>0, <1>5, <2>1 DEF NoContext
  <2>3. /\ pc' = [pc EXCEPT ![r] = "saveSelect"]
        /\ ctx'[r].id = t /\ ctx'[r].row \in {Null, parent[t]}
        /\ \A i \in Requests \ {r} : ctx'[i] = ctx[i]
    BY <1>0, <2>1, <2>2 DEF Goto, NoContext, RowAfterPatch
  <2>4. \A u \in TaskIds, v \in TaskIds : Edge(u, v)' => Edge(u, v)
    BY <1>0, <2>1, <2>3, IdsAssumption DEF Edge, table
  <2> QED
    BY <1>0, <1>1, <2>3, <2>4, FewerEdges DEF EdgesInv
<1>6. ASSUME NEW r \in Requests, UpdateFindParent(r) \/ UpdateCheckCycle(r) \/ UpdateCheckDepth(r)
      PROVE  EdgesInv'
  BY <1>0, <1>6 DEF NoChecks, UpdateFindParent, UpdateCheckCycle, UpdateCheckDepth
<1>7. ASSUME NEW r \in Requests, SaveSelect(r) PROVE EdgesInv'
  <2>1. /\ UNCHANGED table /\ pc[r] = "saveSelect"
        /\ pc' = [pc EXCEPT ![r] = "saveWrite"]
        /\ \A i \in Requests : ctx'[i].id = ctx[i].id /\ ctx'[i].row = ctx[i].row
    BY <1>0, <1>7 DEF SaveSelect, Goto, Context
  <2>2. \A u \in TaskIds, v \in TaskIds : Edge(u, v)' => Edge(u, v)
    BY <1>0, <2>1 DEF Edge, table
  <2> QED
    BY <1>0, <1>1, <2>1, <2>2, FewerEdges DEF EdgesInv
<1>8. ASSUME NEW r \in Requests, SaveWrite(r) PROVE EdgesInv'
  <2> DEFINE c == ctx[r]
  <2>1. CASE UNCHANGED table
    BY <1>2, <1>8, <2>1 DEF SaveWrite, table
  <2>2. CASE /\ tasks' = tasks \cup {c.id}
             /\ parent' = [parent EXCEPT ![c.id] = c.row]
    <3>1. pc[r] \in UpdateSteps /\ Edge(c.id, c.row)
      BY <1>8 DEF SaveWrite, Edge
    <3>2. \A u \in tasks' :
            \/ u \in tasks /\ parent'[u] = parent[u]
            \/ u = c.id /\ parent'[u] = c.row
      BY <2>2, LocalsOf, <3>1 DEF Defined, TablesOK, TypeOK
    <3>3. \A i \in Requests : pc'[i] \in UpdateSteps =>
            i # r /\ pc'[i] = pc[i] /\ ctx'[i] = ctx[i]
      BY <1>8, ReplyEdges DEF SaveWrite
    <3>4. \A u \in TaskIds, v \in TaskIds : Edge(u, v)' => Edge(u, v)
      BY <3>1, <3>2, <3>3 DEF Edge
    <3> QED
      BY <1>0, <1>1, <1>8, <3>4, FewerEdges DEF EdgesInv, SaveWrite, Reply, Goto
  <2> QED
    BY <1>8, <2>1, <2>2 DEF SaveWrite
<1>9. ASSUME NEW r \in Requests, DeleteTask(r) \/ DeleteProject(r) PROVE EdgesInv'
  <2>1. UNCHANGED <<pc, ctx, parent>> /\ tasks' \subseteq tasks
    BY <1>9 DEF DeleteTask, DeleteProject, RemoveTask, RemoveProject
  <2>2. \A u \in TaskIds, v \in TaskIds : Edge(u, v)' => Edge(u, v)
    BY <2>1 DEF Edge
  <2> QED
    BY <1>0, <2>1, <2>2, FewerEdges DEF EdgesInv, NoChecks
<1>10. ASSUME NEW r \in Requests, Abort(r) PROVE EdgesInv'
  BY <1>2, <1>10 DEF Abort, table
<1>11. CASE UNCHANGED vars
  <2>1. \A u \in TaskIds, v \in TaskIds : Edge(u, v)' => Edge(u, v)
    BY <1>11 DEF Edge, vars, table
  <2> QED
    BY <1>0, <1>11, <2>1, FewerEdges DEF EdgesInv, NoChecks, vars
<1> QED
  BY <1>3, <1>4, <1>5, <1>6, <1>7, <1>8, <1>9, <1>10, <1>11 DEF TreeNext, Step

LEMMA EdgesInit == TreeInit => EdgesInv
  BY DEF TreeInit, Init, EdgesInv, EdgesAcyclic, NoChecks, Edge

LEMMA EdgesForest == TreeIInv /\ EdgesInv => NoCycles
<1> SUFFICES ASSUME TypeOK, EdgesAcyclic, NEW S \in SUBSET tasks, S # {}
             PROVE  \E u \in S : parent[u] \notin S
  BY DEF TreeIInv, TreeTypeOK, EdgesInv, NoCycles, Acyclic
<1>1. PICK u \in S : \A v \in S : ~ Edge(u, v)
  BY DEF EdgesAcyclic, TypeOK
<1> QED
  BY <1>1 DEF Edge

(* Any number of interleaved creates, detaches, other updates and          *)
(* deletions, with stale write-backs and resurrections, keep the tasks a   *)
(* forest: an id is never handed out twice, so every edge points from a    *)
(* task to one that was there before it.                                   *)
THEOREM DetachingNoCycles == ASSUME Detaching PROVE TreeSpec => []NoCycles
<1>1. TreeInit => EdgesInv
  BY EdgesInit
<1>2. TreeIInv /\ EdgesInv /\ [TreeNext]_vars => EdgesInv'
  <2> SUFFICES ASSUME TreeIInv, EdgesInv, [TreeNext]_vars PROVE EdgesInv'
    OBVIOUS
  <2>1. ctx \in [Requests -> Context]
    BY DEF TreeIInv, TreeTypeOK, RequestsTypeOK
  <2>2. \A r \in Requests : UpdateStart(r) => ctx'[r].target \notin TaskIds
    BY <2>1, Detaching, IdsAssumption, RequestAssumption DEF UpdateStart, Detaching, NoContext
  <2> QED
    BY <2>2, EdgesNext DEF TreeIInv, TreeTypeOK, TablesOK, RequestsOK
<1> QED
  BY <1>1, <1>2, EdgesForest, TreeInvariance, PTL DEF TreeSpec

-----------------------------------------------------------------------------
(***************************************************************************)
(* Any mix of requests, with its history: the tasks stay a forest until    *)
(* somebody moves one, and the depth limit holds until somebody asks for a *)
(* parent or a save brings back a deleted task.                            *)
(***************************************************************************)

historyVars == <<vars, asked, revived>>

(* The history forgets nothing. *)
HistoryOK == asked \in {"nothing", "detach", "move"} /\ revived \in BOOLEAN

LEMMA HistoryStep ==
  ASSUME HistoryOK, HistoryNext \/ UNCHANGED historyVars
  PROVE  /\ HistoryOK' /\ [TreeNext]_vars
         /\ revived => revived'
         /\ asked = "move" => asked' = "move"
         /\ asked' = "nothing" => asked = "nothing"
  BY DEF HistoryOK, HistoryNext, historyVars

LEMMA HistoryIsTree == HistorySpec => TreeSpec /\ []HistoryOK
<1>1. HistoryInit => TreeInit /\ HistoryOK
  BY DEF HistoryInit, HistoryOK
<1>2. HistoryOK /\ [HistoryNext]_<<vars, asked, revived>> => HistoryOK'
  BY HistoryStep DEF historyVars
<1>3. [HistoryNext]_<<vars, asked, revived>> => [TreeNext]_vars
  BY DEF HistoryNext
<1> QED
  BY <1>1, <1>2, <1>3, PTL DEF HistorySpec, TreeSpec

(* A PATCH that starts is part of the history from its first step on. *)
LEMMA StartIsAsked ==
  ASSUME HistoryNext, RequestsOK, NEW r \in Requests, UpdateStart(r)
  PROVE  ctx'[r].target \in AskedNow'
  BY DEF RequestsOK, RequestsTypeOK, UpdateStart, Goto, AskedNow

ForestIInv == asked # "move" => EdgesInv

LEMMA ForestNext ==
  ASSUME TablesOK, RequestsOK, HistoryOK, ForestIInv, HistoryNext \/ UNCHANGED historyVars
  PROVE  ForestIInv'
<1> SUFFICES ASSUME asked' # "move" PROVE EdgesInv'
  BY DEF ForestIInv
<1>1. EdgesInv /\ [TreeNext]_vars
  BY HistoryStep DEF ForestIInv
<1>2. CASE UNCHANGED historyVars
  <2>1. \A r \in Requests : UpdateStart(r) => FALSE
    BY <1>2 DEF historyVars, vars, RequestsOK, RequestsTypeOK, UpdateStart, Goto
  <2> QED
    BY <1>1, <2>1, EdgesNext
<1>3. CASE HistoryNext
  <2>1. AskedNow' \cap TaskIds = {}
    BY <1>3 DEF HistoryNext
  <2>2. \A r \in Requests : UpdateStart(r) => ctx'[r].target \notin TaskIds
    BY <1>3, <2>1, StartIsAsked
  <2> QED
    BY <1>1, <2>2, EdgesNext
<1> QED
  BY <1>2, <1>3

LEMMA ForestInvariance == HistorySpec => []ForestIInv
<1>1. HistoryInit => ForestIInv
  BY EdgesInit DEF HistoryInit, ForestIInv
<1>2. TreeIInv /\ HistoryOK /\ ForestIInv /\ [HistoryNext]_<<vars, asked, revived>> => ForestIInv'
  BY ForestNext DEF TreeIInv, TreeTypeOK, TablesOK, RequestsOK, historyVars
<1> QED
  BY <1>1, <1>2, HistoryIsTree, TreeInvariance, PTL DEF HistorySpec

(* Creates, detaches, edits and deletes of any number of requests keep the *)
(* tasks a forest as long as none of them names a new parent, whatever     *)
(* their saves write back or bring back.                                   *)
THEOREM ForestUntilMovedHolds == HistorySpec => []ForestUntilMoved
<1>1. TreeIInv /\ ForestIInv => ForestUntilMoved
  BY EdgesForest DEF ForestIInv, ForestUntilMoved
<1> QED
  BY <1>1, ForestInvariance, HistoryIsTree, TreeInvariance, PTL

-----------------------------------------------------------------------------
(***************************************************************************)
(* The depth limit.                                                        *)
(***************************************************************************)

LEMMA SmallerWalk ==
  ASSUME NEW T \in SUBSET TaskIds, NEW par, NEW t \in T, NEW S, NEW n \in Nat,
         S \subseteq Ancestors(T, par, t), Cardinality(Ancestors(T, par, t)) <= n
  PROVE  IsFiniteSet(S) /\ Cardinality(S) <= n
<1>1. IsFiniteSet(Ancestors(T, par, t))
  BY AncestorsClosed, IdsAssumption, FS_Subset
<1>2. IsFiniteSet(S) /\ Cardinality(S) <= Cardinality(Ancestors(T, par, t))
  BY <1>1, FS_Subset
<1> QED
  BY <1>1, <1>2, FS_CardinalityType

(* What a request knows as long as nobody asked for a parent: a save only  *)
(* writes what is there, and a checked parent still has room below it.     *)
Harmless(r) ==
  /\ pc[r] \in UpdateSteps => /\ pc[r] \in SaveSteps
                              /\ ctx[r].row = parent[ctx[r].id]
  /\ pc[r] = "saveWrite" => ctx[r].base \in {Undefined, ctx[r].row}
  /\ pc[r] = "createInsert" /\ ctx[r].target \in tasks =>
       Cardinality(Ancestors(tasks, parent, ctx[r].target)) <= MaxDepth

(* No task has more than MaxDepth proper ancestors. *)
ShortWalks ==
  \A t \in tasks : Cardinality(Ancestors(tasks, parent, t)) <= MaxDepth + 1

Calm == (\A r \in Requests : Harmless(r)) /\ ShortWalks

DepthIInv == asked = "nothing" /\ ~ revived => Calm

(* A step that leaves the tables, and the requests but r, as they are. *)
LEMMA CalmLocal ==
  ASSUME RequestsOK, Calm, UNCHANGED table, NEW r \in Requests,
         NEW s \in Statements, NEW c \in Context,
         pc' = [pc EXCEPT ![r] = s], ctx' = [ctx EXCEPT ![r] = c],
         s \in UpdateSteps => s \in SaveSteps /\ c.row = parent[c.id],
         s = "saveWrite" => c.base \in {Undefined, c.row},
         s = "createInsert" /\ c.target \in tasks =>
           Cardinality(Ancestors(tasks, parent, c.target)) <= MaxDepth
  PROVE  Calm'
<1>1. ShortWalks'
  BY DEF Calm, ShortWalks, table
<1>2. ASSUME NEW i \in Requests, i # r PROVE Harmless(i)'
  <2>1. Harmless(i) /\ pc'[i] = pc[i] /\ ctx'[i] = ctx[i]
    BY <1>2 DEF Calm, RequestsOK, RequestsTypeOK
  <2> QED
    BY <2>1 DEF Harmless, table
<1>3. Harmless(r)'
  BY DEF Harmless, table, RequestsOK, RequestsTypeOK
<1> QED
  BY <1>1, <1>2, <1>3 DEF Calm

LEMMA CalmReply ==
  ASSUME RequestsOK, Calm, UNCHANGED table, NEW r \in Requests, Reply(r)
  PROVE  Calm'
  BY CalmLocal DEF Reply, Goto, NoContext, Context

(* Deletions. *)
LEMMA CalmDelete ==
  ASSUME TablesOK, Calm, tasks' \subseteq tasks, UNCHANGED <<parent, pc, ctx>>
  PROVE  Calm'
<1>1. ASSUME NEW t \in tasks', NEW n \in Nat, Cardinality(Ancestors(tasks, parent, t)) <= n
      PROVE  Cardinality(Ancestors(tasks', parent, t)) <= n
  <2>1. Ancestors(tasks', parent, t) \subseteq Ancestors(tasks, parent, t)
    BY AncestorsShrink
  <2> QED
    BY <1>1, <2>1, SmallerWalk DEF TablesOK, TypeOK
<1>2. ShortWalks'
  BY <1>1, MaxDepthAssumption DEF Calm, ShortWalks
<1>3. ASSUME NEW r \in Requests PROVE Harmless(r)'
  BY <1>1, MaxDepthAssumption DEF Calm, Harmless
<1> QED
  BY <1>2, <1>3 DEF Calm

(* The INSERT of create. *)
LEMMA CalmInsert ==
  ASSUME TablesOK, RequestsOK, Calm, NEW r \in Requests, CreateInsert(r)
  PROVE  Calm'
<1> DEFINE q == ctx[r].target
<1>1. CASE UNCHANGED table
  BY <1>1, CalmReply DEF CreateInsert
<1>2. ASSUME NEW t \in FreshIds, ForeignKeysHold(ctx[r].proj, q),
             tasks' = tasks \cup {t}, parent' = [parent EXCEPT ![t] = q]
      PROVE  Calm'
  <2>1. t \in TaskIds /\ project[t] = Null /\ t \notin tasks
    BY IdsAssumption DEF FreshIds, TablesOK, TypeOK, ParentInProject
  <2>2. /\ parent'[t] = q
        /\ \A u \in TaskIds \ {t} : parent'[u] = parent[u]
        /\ \A u \in tasks : parent'[u] = parent[u] /\ parent[u] # t
    BY <1>2, <2>1, IdsAssumption DEF TablesOK, TypeOK, ParentInProject
  <2>3. ASSUME NEW u \in tasks
        PROVE  Ancestors(tasks', parent', u) \subseteq Ancestors(tasks, parent, u)
    BY <1>2, <2>2, AncestorsOfOthers
  <2>4. ASSUME NEW u \in tasks, NEW n \in Nat, Cardinality(Ancestors(tasks, parent, u)) <= n
        PROVE  Cardinality(Ancestors(tasks', parent', u)) <= n
    BY <2>3, <2>4, SmallerWalk DEF TablesOK, TypeOK
  <2>5. Cardinality(Ancestors(tasks', parent', t)) <= MaxDepth + 1
    <3> DEFINE A == IF q \in tasks THEN Ancestors(tasks, parent, q) ELSE {}
    <3>1. IsFiniteSet(A) /\ Cardinality(A) <= MaxDepth
      <4>1. CASE q \in tasks
        <5>1. Cardinality(Ancestors(tasks, parent, q)) <= MaxDepth
          BY <4>1 DEF Calm, Harmless, CreateInsert
        <5> QED
          BY <4>1, <5>1, SmallerWalk, MaxDepthAssumption DEF TablesOK, TypeOK
      <4>2. CASE q \notin tasks
        BY <4>2, FS_EmptySet, MaxDepthAssumption
      <4> QED
        BY <4>1, <4>2
    <3>2. IsFiniteSet(A \cup {t}) /\ Cardinality(A \cup {t}) <= MaxDepth + 1
      <4>1. /\ IsFiniteSet(A \cup {t})
            /\ Cardinality(A \cup {t}) \in {Cardinality(A), Cardinality(A) + 1}
        BY <3>1, FS_AddElement
      <4>2. Cardinality(A) \in Nat
        BY <3>1, FS_CardinalityType
      <4> QED
        BY <3>1, <4>1, <4>2, MaxDepthAssumption
    <3>3. Ancestors(tasks', parent', t) \subseteq A \cup {t}
      <4>1. A \subseteq tasks /\ ClosedUpward(tasks, parent, A) /\ (q \in tasks => q \in A)
        BY AncestorsClosed DEF ClosedUpward
      <4>2. q = Null \/ q \in tasks
        BY <1>2 DEF ForeignKeysHold
      <4> HIDE DEF A
      <4>3. ClosedUpward(tasks', parent', A \cup {t}) /\ A \cup {t} \in SUBSET tasks'
        BY <1>2, <2>1, <2>2, <4>1, <4>2, IdsAssumption DEF ClosedUpward, TablesOK, TypeOK
      <4> QED
        BY <4>3, AncestorsWithin
    <3> HIDE DEF A
    <3>4. /\ Cardinality(Ancestors(tasks', parent', t)) <= Cardinality(A \cup {t})
          /\ IsFiniteSet(Ancestors(tasks', parent', t))
      BY <3>2, <3>3, FS_Subset
    <3> QED
      BY <3>2, <3>4, FS_CardinalityType, MaxDepthAssumption
  <2>6. ShortWalks'
    <3>1. MaxDepth + 1 \in Nat
      BY MaxDepthAssumption
    <3> QED
      BY <1>2, <2>4, <2>5, <3>1 DEF Calm, ShortWalks
  <2>7. ASSUME NEW i \in Requests PROVE Harmless(i)'
    <3>1. CASE i = r
      BY <3>1 DEF CreateInsert, Reply, Goto, Harmless, RequestsOK, RequestsTypeOK
    <3>2. CASE i # r
      <4>1. Harmless(i) /\ pc'[i] = pc[i] /\ ctx'[i] = ctx[i]
        BY <3>2 DEF Calm, CreateInsert, Reply, Goto, RequestsOK, RequestsTypeOK
      <4>2. pc[i] \in UpdateSteps => ctx[i].id \in TaskIds \ {t}
        BY <2>1, LocalsOf, IdsAssumption DEF Defined, Scoped
      <4>3. pc[i] = "createInsert" => ctx[i].target # t
        BY <2>1, LocalsOf, IdsAssumption DEF Defined, Scoped
      <4> QED
        BY <1>2, <2>2, <2>4, <4>1, <4>2, <4>3, MaxDepthAssumption DEF Harmless
    <3> QED
      BY <3>1, <3>2
  <2> QED
    BY <2>6, <2>7 DEF Calm
<1> QED
  BY <1>1, <1>2 DEF CreateInsert

LEMMA CalmNext ==
  ASSUME TablesOK, RequestsOK, Calm, [TreeNext]_vars,
         ~ \E t \in tasks' \ tasks : project[t] # Null,
         \A r \in Requests : UpdateStart(r) => ctx'[r].target = Undefined
  PROVE  Calm'
<1> USE RequestAssumption
<1>0. pc \in [Requests -> Statements] /\ ctx \in [Requests -> Context]
  BY DEF RequestsOK, RequestsTypeOK
<1>1. ASSUME NEW r \in Requests, CreateStart(r) PROVE Calm'
  <2>1. PICK p \in projects, q \in TaskIds \cup {Null} :
          /\ ctx' = [ctx EXCEPT ![r] = [NoContext EXCEPT !.proj = p, !.target = q]]
          /\ Goto(r, IF q = Null THEN "createInsert" ELSE "createFindParent")
          /\ UNCHANGED table
    BY <1>1 DEF CreateStart
  <2> DEFINE c == [NoContext EXCEPT !.proj = p, !.target = q]
             s == IF q = Null THEN "createInsert" ELSE "createFindParent"
  <2>2. s \in Statements /\ c \in Context /\ c.target = q /\ s \notin UpdateSteps
    BY DEF NoContext, Context, TablesOK, TypeOK
  <2>3. ~ (s = "createInsert" /\ c.target \in tasks)
    BY <2>2, IdsAssumption DEF TablesOK, TypeOK
  <2> HIDE DEF c
  <2>4. ctx' = [ctx EXCEPT ![r] = c] /\ pc' = [pc EXCEPT ![r] = s]
    BY <2>1 DEF c, Goto
  <2> HIDE DEF s
  <2> QED
    BY <2>1, <2>2, <2>3, <2>4, CalmLocal
<1>2. ASSUME NEW r \in Requests, NEW b, NEW s \in {"createCheckDepth", "createInsert"},
             Check(r, b, s),
             b /\ s = "createInsert" /\ ctx[r].target \in tasks =>
               Cardinality(Ancestors(tasks, parent, ctx[r].target)) <= MaxDepth
      PROVE  Calm'
  <2>1. CASE b
    <3>1. /\ pc' = [pc EXCEPT ![r] = s] /\ ctx' = [ctx EXCEPT ![r] = ctx[r]]
          /\ ctx[r] \in Context /\ UNCHANGED table
      BY <1>0, <1>2, <2>1 DEF Check, Goto
    <3> QED
      BY <1>2, <2>1, <3>1, CalmLocal
  <2>2. CASE ~ b
    BY <1>2, <2>2, CalmReply DEF Check
  <2> QED
    BY <2>1, <2>2
<1>3. ASSUME NEW r \in Requests, CreateFindParent(r) PROVE Calm'
  BY <1>2, <1>3 DEF CreateFindParent
<1>4. ASSUME NEW r \in Requests, CreateCheckDepth(r) PROVE Calm'
  <2>1. ASSUME TargetNotTooDeep(ctx[r]), ctx[r].target \in tasks
        PROVE  Cardinality(Ancestors(tasks, parent, ctx[r].target)) <= MaxDepth
    <3> DEFINE k == Cardinality(Ancestors(tasks, parent, ctx[r].target))
    <3>1. k \in Nat
      BY <2>1, AncestorsClosed, IdsAssumption, FS_Subset, FS_CardinalityType
         DEF TablesOK, TypeOK
    <3>2. k - 1 < MaxDepth
      BY <2>1, MaxDepthAssumption DEF TargetNotTooDeep, GetDepth, DepthCap
    <3> QED
      BY <3>1, <3>2, MaxDepthAssumption
  <2> QED
    BY <1>2, <1>4, <2>1 DEF CreateCheckDepth
<1>5. ASSUME NEW r \in Requests, UpdateStart(r) PROVE Calm'
  <2>1. PICK t \in tasks, q \in PatchTargets \cup {Undefined} :
          /\ ctx' = [ctx EXCEPT ![r] =
                       [NoContext EXCEPT !.id = t, !.proj = project[t], !.target = q,
                                         !.row = RowAfterPatch(t, q)]]
          /\ Goto(r, IF q \in TaskIds THEN "updateFindParent" ELSE "saveSelect")
          /\ UNCHANGED table
    BY <1>5 DEF UpdateStart
  <2>2. q = Undefined
    BY <1>0, <1>5, <2>1 DEF NoContext
  <2> DEFINE c == [NoContext EXCEPT !.id = t, !.proj = project[t], !.target = q,
                                    !.row = RowAfterPatch(t, q)]
  <2>3. t \in TaskIds /\ project[t] \in Projects /\ parent[t] \in TaskIds \cup {Null}
    BY DEF TablesOK, TypeOK, ParentInProject
  <2>4. c \in Context /\ c.id = t /\ c.row = parent[t]
    BY <2>2, <2>3 DEF NoContext, Context, RowAfterPatch
  <2> HIDE DEF c
  <2>5. ctx' = [ctx EXCEPT ![r] = c] /\ pc' = [pc EXCEPT ![r] = "saveSelect"]
    BY <2>1, <2>2 DEF c, Goto
  <2> QED
    BY <2>1, <2>4, <2>5, CalmLocal
<1>6. ASSUME NEW r \in Requests, UpdateFindParent(r) \/ UpdateCheckCycle(r) \/ UpdateCheckDepth(r)
      PROVE  FALSE
  BY <1>6 DEF Calm, Harmless, UpdateFindParent, UpdateCheckCycle, UpdateCheckDepth
<1>7. ASSUME NEW r \in Requests, SaveSelect(r) PROVE Calm'
  <2> DEFINE b == IF ctx[r].id \in tasks THEN parent[ctx[r].id] ELSE Undefined
             c == [ctx[r] EXCEPT !.base = b]
  <2>1. ctx[r] \in Context /\ pc[r] = "saveSelect" /\ ctx[r].row = parent[ctx[r].id]
    BY <1>0, <1>7 DEF SaveSelect, Calm, Harmless
  <2>2. b \in TaskIds \cup {Null, Undefined} /\ b \in {Undefined, ctx[r].row}
    BY <2>1 DEF TablesOK, TypeOK
  <2>3. c \in Context /\ c.id = ctx[r].id /\ c.row = ctx[r].row /\ c.base = b
    BY <2>1, <2>2 DEF Context
  <2>4. /\ ctx' = [ctx EXCEPT ![r] = c] /\ pc' = [pc EXCEPT ![r] = "saveWrite"]
        /\ UNCHANGED table
    BY <1>7 DEF SaveSelect, Goto
  <2> HIDE DEF c, b
  <2> QED
    BY <2>1, <2>2, <2>3, <2>4, CalmLocal
<1>8. ASSUME NEW r \in Requests, SaveWrite(r) PROVE Calm'
  <2> DEFINE c == ctx[r]
  <2>1. c.base \in {Undefined, c.row}
    BY <1>8 DEF SaveWrite, Calm, Harmless
  <2>2. c.id \in TaskIds /\ project[c.id] # Null
    BY <1>8, LocalsOf, IdsAssumption DEF SaveWrite, Defined, Scoped
  <2>3. UNCHANGED table
    BY <1>8, <2>1, <2>2 DEF SaveWrite
  <2> QED
    BY <1>8, <2>3, CalmReply DEF SaveWrite
<1>9. ASSUME NEW r \in Requests, DeleteTask(r) \/ DeleteProject(r) PROVE Calm'
  BY <1>9, CalmDelete DEF DeleteTask, DeleteProject, RemoveTask, RemoveProject
<1>10. ASSUME NEW r \in Requests, Abort(r) PROVE Calm'
  BY <1>10, CalmReply DEF Abort
<1>11. CASE UNCHANGED vars
  BY <1>11 DEF vars, table, Calm, Harmless, ShortWalks
<1> QED
  BY <1>1, <1>3, <1>4, <1>5, <1>6, <1>7, <1>8, <1>9, <1>10, <1>11, CalmInsert DEF TreeNext, Step

LEMMA DepthNext ==
  ASSUME TablesOK, RequestsOK, HistoryOK, DepthIInv, HistoryNext \/ UNCHANGED historyVars
  PROVE  DepthIInv'
<1> SUFFICES ASSUME asked' = "nothing", ~ revived' PROVE Calm'
  BY DEF DepthIInv
<1>1. Calm /\ [TreeNext]_vars
  BY HistoryStep DEF DepthIInv, HistoryOK
<1>2. CASE UNCHANGED historyVars
  BY <1>1, <1>2 DEF historyVars, vars, table, Calm, Harmless, ShortWalks
<1>3. CASE HistoryNext
  <2>1. AskedNow' \cap TaskIds = {} /\ Null \notin AskedNow'
    BY <1>3 DEF HistoryNext
  <2>2. ASSUME NEW r \in Requests, UpdateStart(r) PROVE ctx'[r].target = Undefined
    <3>1. ctx'[r].target \in PatchTargets \cup {Undefined}
      BY <2>2 DEF UpdateStart, RequestsOK, RequestsTypeOK, NoContext
    <3> QED
      BY <1>3, <2>1, <2>2, <3>1, StartIsAsked, RequestAssumption
  <2>3. ~ \E t \in tasks' \ tasks : project[t] # Null
    BY <1>3 DEF HistoryNext
  <2> QED
    BY <1>1, <2>2, <2>3, CalmNext
<1> QED
  BY <1>2, <1>3

LEMMA DepthInit == HistoryInit => DepthIInv
  BY DEF HistoryInit, TreeInit, Init, DepthIInv, Calm, Harmless, ShortWalks

LEMMA DepthInvariance == HistorySpec => []DepthIInv
<1>1. TreeIInv /\ HistoryOK /\ DepthIInv /\ [HistoryNext]_<<vars, asked, revived>> => DepthIInv'
  BY DepthNext DEF TreeIInv, TreeTypeOK, TablesOK, RequestsOK, historyVars
<1> QED
  BY <1>1, DepthInit, HistoryIsTree, TreeInvariance, PTL DEF HistorySpec

(* Until a PATCH asks for a parent or a save brings back a deleted task,   *)
(* no task is deeper than the limit, however many creates and deletes run  *)
(* between the depth check of a create and its INSERT.                     *)
THEOREM DepthUntilAskedHolds == HistorySpec => []DepthUntilAsked
<1>1. TreeIInv /\ ForestIInv /\ DepthIInv => DepthUntilAsked
  <2> SUFFICES ASSUME TreeIInv, EdgesInv, ShortWalks, NEW t \in tasks
               PROVE  GetDepth(tasks, parent, t) <= MaxDepth
    BY DEF ForestIInv, DepthIInv, Calm, DepthUntilAsked, DepthBounded
  <2> DEFINE k == Cardinality(Ancestors(tasks, parent, t))
  <2>1. IsFiniteSet(tasks)
    BY IdsAssumption, FS_Subset DEF TreeIInv, TreeTypeOK, TypeOK
  <2>2. ReachesRoot(tasks, parent, t)
    BY EdgesForest, AcyclicReachesRoot DEF NoCycles
  <2>3. k \in Nat /\ k <= MaxDepth + 1
    BY <2>1, AncestorsClosed, FS_Subset, FS_CardinalityType DEF ShortWalks
  <2>4. k - 1 < DepthCap /\ k - 1 <= MaxDepth
    BY <2>3, MaxDepthAssumption DEF DepthCap
  <2> QED
    BY <2>2, <2>4 DEF GetDepth
<1> QED
  BY <1>1, ForestInvariance, DepthInvariance, HistoryIsTree, TreeInvariance, PTL

(* Under the same conditions getSubtree returns whole subtrees, although   *)
(* its query stops MAX_SUBTASK_DEPTH + 1 levels down.                      *)
THEOREM SubtreeUntilAskedHolds == HistorySpec => []SubtreeUntilAsked
<1>1. TreeIInv /\ ForestIInv /\ DepthIInv => SubtreeUntilAsked
  <2> SUFFICES ASSUME TreeIInv, EdgesInv, ShortWalks PROVE SubtreeComplete
    BY DEF ForestIInv, DepthIInv, Calm, SubtreeUntilAsked
  <2>1. Acyclic(tasks, parent)
    BY EdgesForest DEF NoCycles
  <2>2. IsFiniteSet(tasks)
    BY IdsAssumption, FS_Subset DEF TreeIInv, TreeTypeOK, TypeOK
  <2> QED
    BY <2>1, <2>2, SubtreeIsWhole DEF ShortWalks, SubtreeComplete
<1> QED
  BY <1>1, ForestInvariance, DepthInvariance, HistoryIsTree, TreeInvariance, PTL

=============================================================================
