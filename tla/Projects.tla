------------------------------ MODULE Projects ------------------------------
(***************************************************************************)
(* ProjectsService behind WorkspaceMemberGuard, in one workspace whose     *)
(* members come and go as Members lets them.  A request is one action per  *)
(* statement: the guard's query, then those of the handler.  As in Task-   *)
(* Tree save is a SELECT followed by an UPDATE or an INSERT, and a deleted *)
(* row keeps its columns.                                                  *)
(*                                                                         *)
(* A request the guard refuses changes nothing and is not started.  What a *)
(* deletion takes with it is in TaskTree.                                  *)
(***************************************************************************)
EXTENDS Members, FiniteSets

CONSTANTS ProjectIds,  \* ids the database can hand out
          Editors,     \* requests that can be in flight
          Texts,       \* names and descriptions
          Nothing,     \* null; no value
          Absent       \* JavaScript undefined: the field is not in the body

ASSUME ProjectsAssumption ==
  /\ Creator \in Users /\ Nothing \notin Users \cup ProjectIds \cup Texts
  /\ Absent \notin Texts \cup {Nothing}

VARIABLES projects,   \* ids of the rows in table projects
          column,     \* their name and description
          createdBy,  \* column createdById; Nothing for an id not handed out
          doing,      \* the statement each request executes next
          held,       \* its local variables
          asked,      \* history: what creation and edits last set the fields to
          removed,    \* history: the projects deleted
          crossed     \* history: those edited while being edited or deleted

projectRows == <<projects, column, createdBy>>
hist        == <<asked, removed, crossed>>
projectVars == <<current, former, projectRows, doing, held, hist>>

Fields == {"name", "description"}
Entity == [Fields -> Texts \cup {Nothing}]
Patch  == [Fields -> Texts \cup {Nothing, Absent}]

(* name is NOT NULL.  @IsOptional lets an explicit null pass for either. *)
ProjectRow == {row \in Entity : row["name"] # Nothing}

NoPatch == [f \in Fields |-> Absent]

EditSteps == {"select", "write"}

(***************************************************************************)
(* user    the caller, of whom only create is told                         *)
(* id      the path parameter                                              *)
(* dto     the body of the request                                         *)
(* entity  the row, then with the fields of the body                       *)
(* base    the row save's SELECT returned, Nothing if there was none       *)
(***************************************************************************)
Held == [user : Users \cup {Nothing}, id : ProjectIds \cup {Nothing}, dto : Patch,
         entity : Entity \cup {Nothing}, base : ProjectRow \cup {Nothing}]

(* Only members create projects.  One removed between the guard and the    *)
(* INSERT still does, so a creator was a member, if no longer one.         *)
ProjectsTypeOK ==
  /\ current \subseteq former /\ former \subseteq Users
  /\ projects \subseteq ProjectIds
  /\ column \in [ProjectIds -> ProjectRow \cup {Nothing}]
  /\ createdBy \in [ProjectIds -> Users \cup {Nothing}]
  /\ \A p \in projects : createdBy[p] \in former /\ column[p] \in ProjectRow
  /\ doing \in [Editors -> {"idle", "insert", "find", "delete"} \cup EditSteps]
  /\ \A r \in Editors : IF doing[r] = "idle" THEN held[r] = Nothing ELSE held[r] \in Held
  /\ \A r \in Editors : doing[r] = "insert" => held[r].user # Nothing
  /\ \A r \in Editors : doing[r] \in EditSteps => held[r].entity \in Entity

ProjectsInit ==
  /\ MembersInit
  /\ projects = {} /\ column = [p \in ProjectIds |-> Nothing]
  /\ createdBy = [p \in ProjectIds |-> Nothing]
  /\ doing = [r \in Editors |-> "idle"] /\ held = [r \in Editors |-> Nothing]
  /\ asked = [p \in ProjectIds |-> Nothing] /\ removed = {} /\ crossed = {}

-----------------------------------------------------------------------------

Then(r, step) == doing' = [doing EXCEPT ![r] = step]

(* The handler returns or throws; its local variables are gone. *)
Answer(r) == Then(r, "idle") /\ held' = [held EXCEPT ![r] = Nothing]

(* Mutant: the guard passes everybody who is signed in. *)
AnyUser(u) == TRUE

(* getMembership(workspaceId, u) returns a row. *)
IsMember(u) == u \in current

(* The guard lets a user pass; the handler goes on with statement step. *)
Guarded(r, step, p, dto) ==
  /\ doing[r] = "idle"
  /\ \E u \in Users :
       /\ IsMember(u)
       /\ held' = [held EXCEPT ![r] =
            [user |-> IF step = "insert" THEN u ELSE Nothing, id |-> p, dto |-> dto,
             entity |-> Nothing, base |-> Nothing]]
  /\ Then(r, step)
  /\ UNCHANGED <<current, former, projectRows, hist>>

ProjectStart(r) ==
  \/ \E dto \in ProjectRow : Guarded(r, "insert", Nothing, dto)
  \/ \E p \in ProjectIds :
       /\ createdBy[p] # Nothing
       /\ \/ \E dto \in Patch : Guarded(r, "find", p, dto)
          \/ Guarded(r, "delete", p, NoPatch)

(* create; ProjectIds bounds the ids: afterwards the INSERT fails. *)
ProjectInsert(r) ==
  /\ doing[r] = "insert"
  /\ LET fresh == {p \in ProjectIds : createdBy[p] = Nothing}
     IN  IF fresh = {} THEN UNCHANGED <<projectRows, asked>>
         ELSE \E p \in fresh :
                /\ projects' = projects \cup {p}
                /\ column' = [column EXCEPT ![p] = held[r].dto]
                /\ createdBy' = [createdBy EXCEPT ![p] = held[r].user]
                /\ asked' = [asked EXCEPT ![p] = held[r].dto]
  /\ Answer(r)
  /\ UNCHANGED <<current, former, removed, crossed>>

(* Mutant: the project is looked up among the deleted ones as well. *)
FoundEver(p) == createdBy[p] # Nothing

(* findById returns the row. *)
Found(p) == p \in projects

(* Mutant: dto.f ?? project.f, which takes an explicit null for a field left out. *)
AssignedUnlessNull(row, dto) ==
  [f \in Fields |-> IF dto[f] \in {Nothing, Absent} THEN row[f] ELSE dto[f]]

(* Object.assign(project, dto): null clears a field, one left out stays. *)
Assigned(row, dto) == [f \in Fields |-> IF dto[f] = Absent THEN row[f] ELSE dto[f]]

(* The other requests that hold the entity of project p. *)
Editing(r, p) == {q \in Editors \ {r} : doing[q] \in EditSteps /\ held[q].id = p}

ProjectFind(r) ==
  /\ doing[r] = "find"
  /\ LET p == held[r].id
     IN  IF Found(p)
         THEN /\ held' = [held EXCEPT ![r].entity = Assigned(column[p], held[r].dto)]
              /\ Then(r, "select")
              /\ crossed' = IF Editing(r, p) = {} THEN crossed ELSE crossed \cup {p}
         ELSE Answer(r) /\ UNCHANGED crossed
  /\ UNCHANGED <<current, former, projectRows, asked, removed>>

ProjectSelect(r) ==
  /\ doing[r] = "select"
  /\ LET p == held[r].id
     IN  held' = [held EXCEPT ![r].base = IF p \in projects THEN column[p] ELSE Nothing]
  /\ Then(r, "write")
  /\ UNCHANGED <<current, former, projectRows, hist>>

(***************************************************************************)
(* save: INSERT if SELECT found no row, else UPDATE of the fields that     *)
(* differ.  The database refuses either without a name.                    *)
(***************************************************************************)
ProjectWrite(r) ==
  /\ doing[r] = "write"
  /\ LET c == held[r]
         p == c.id
         inserts == c.base = Nothing /\ p \notin projects
         updates == c.base # Nothing /\ p \in projects
     IN  IF (inserts \/ updates) /\ c.entity \in ProjectRow
         THEN /\ projects' = projects \cup {p}
              /\ column' = [column EXCEPT ![p] =
                   IF inserts THEN c.entity
                   ELSE [f \in Fields |-> IF c.entity[f] = c.base[f] THEN @[f] ELSE c.entity[f]]]
              /\ asked' = [asked EXCEPT ![p] =
                   [f \in Fields |-> IF c.dto[f] = Absent THEN @[f] ELSE c.dto[f]]]
              /\ UNCHANGED createdBy
         ELSE UNCHANGED <<projectRows, asked>>
  /\ Answer(r)
  /\ UNCHANGED <<current, former, removed, crossed>>

(* remove, whose findById only decides between 404 and the DELETE. *)
ProjectDelete(r) ==
  /\ doing[r] = "delete"
  /\ LET p == held[r].id
     IN  /\ projects' = projects \ {p}
         /\ removed' = removed \cup {p}
         /\ crossed' = IF Editing(r, p) = {} THEN crossed ELSE crossed \cup {p}
  /\ Answer(r)
  /\ UNCHANGED <<current, former, column, createdBy, asked>>

(* Any await may reject, or the process die: nothing was written yet. *)
ProjectFails(r) ==
  /\ doing[r] # "idle"
  /\ Answer(r)
  /\ UNCHANGED <<current, former, projectRows, hist>>

ProjectsNext ==
  \/ \E r \in Editors :
       \/ ProjectStart(r) \/ ProjectInsert(r) \/ ProjectFind(r) \/ ProjectSelect(r)
       \/ ProjectWrite(r) \/ ProjectDelete(r) \/ ProjectFails(r)
  \/ MembersNext /\ UNCHANGED <<projectRows, doing, held, hist>>

ProjectsSpec == ProjectsInit /\ [][ProjectsNext]_projectVars

-----------------------------------------------------------------------------

(***************************************************************************)
(* A field keeps what its last successful edit asked for, unless two edits *)
(* of the project, or an edit and its deletion, ran at a time: save writes *)
(* back every field the request read, so the later undoes the earlier one. *)
(***************************************************************************)
AsLastAsked == \A p \in projects \ crossed : column[p] = asked[p]

(***************************************************************************)
(* A deleted project stays deleted, with the same exception: an edit that  *)
(* found the project before may save it afterwards, without its tasks.     *)
(***************************************************************************)
RemovedForGood == removed \cap projects \subseteq crossed

=============================================================================
