----------------------------- MODULE TreeQueries -----------------------------
(***************************************************************************)
(* The WITH RECURSIVE queries of TasksService, evaluated the way the       *)
(* database does: the first term fills a working table, and as long as it  *)
(* is not empty the recursive term computes the next working table from    *)
(* it.  UNION ALL drops no duplicates and keeps no visited set, so nothing *)
(* but the WHERE clause and the table's shape ends the iteration.          *)
(*                                                                         *)
(* The query runs on one snapshot: the table is chosen in the initial      *)
(* state, any table the foreign key allows, cyclic ones included, and      *)
(* never changes.  Every row of a working table has the same depth.        *)
(***************************************************************************)
EXTENDS Forest

CONSTANT RowIds       \* ids of tasks

ASSUME RowIdsAssumption == IsFiniteSet(RowIds) /\ Null \notin RowIds

VARIABLES tableRows,  \* the snapshot: the rows
          parentOf,   \* the snapshot: their parentTaskId
          query,      \* the query and its parameters
          working,    \* the ids in the working table
          depth,      \* how often the recursive term was evaluated
          result,     \* the rows produced so far, as <<id, depth>>
          state       \* "running" or "done"

snapshot == <<tableRows, parentOf, query>>
queryVars == <<snapshot, working, depth, result, state>>

(* getDepth($1) | isAncestor($2, $1) | getSubtree($1) *)
Query == [name : {"getDepth", "getSubtree"}, task : RowIds]
           \cup [name : {"isAncestor"}, task : RowIds, candidate : RowIds]

QueryInit ==
  /\ tableRows \in SUBSET RowIds
  /\ \E par \in [tableRows -> tableRows \cup {Null}] :
       parentOf = [t \in RowIds |-> IF t \in tableRows THEN par[t] ELSE Null]
  /\ query \in Query
  /\ working = {query.task} \cap tableRows
  /\ depth = 0
  /\ result = {<<t, 0>> : t \in working}
  /\ state = "running"

-----------------------------------------------------------------------------

Parents(W)  == {t \in tableRows : \E a \in W : parentOf[a] = t}
Children(W) == {t \in tableRows : parentOf[t] \in W}

(* Mutant: a subtree cut off one level early. *)
DownTooShort == IF depth < MaxDepth THEN Children(working) ELSE {}

(* The working table the recursive term computes, in each query. *)
UpToCap      == IF depth < DepthCap THEN Parents(working) ELSE {}
UpUnlimited  == Parents(working)
DownToLimit  == IF depth < MaxDepth + 1 THEN Children(working) ELSE {}

Evaluate(next) ==
  /\ working' = next
  /\ depth' = depth + 1
  /\ result' = result \cup {<<t, depth + 1>> : t \in next}
  /\ UNCHANGED <<snapshot, state>>

GetDepthStep ==
  /\ query.name = "getDepth" /\ state = "running" /\ working # {}
  /\ Evaluate(UpToCap)

GetSubtreeStep ==
  /\ query.name = "getSubtree" /\ state = "running" /\ working # {}
  /\ Evaluate(DownToLimit)

(* isAncestor selects neither a depth nor all rows; only the last counts. *)
IsAncestorStep ==
  /\ query.name = "isAncestor" /\ state = "running" /\ working # {}
  /\ query.candidate \notin working
  /\ working' = UpUnlimited
  /\ result' = {<<t, 0>> : t \in working'}
  /\ UNCHANGED <<snapshot, depth, state>>

(* Mutant: no LIMIT 1. *)
FinishEmpty ==
  /\ state = "running" /\ working = {}
  /\ state' = "done"
  /\ UNCHANGED <<snapshot, working, depth, result>>

(* An empty working table ends the query, LIMIT 1 the candidate's row. *)
Finish ==
  /\ state = "running"
  /\ \/ working = {}
     \/ query.name = "isAncestor" /\ query.candidate \in working
  /\ state' = "done"
  /\ UNCHANGED <<snapshot, working, depth, result>>

QueryNext == GetDepthStep \/ GetSubtreeStep \/ IsAncestorStep \/ Finish

QuerySpec == QueryInit /\ [][QueryNext]_queryVars /\ WF_queryVars(QueryNext)

-----------------------------------------------------------------------------

(* Number(result[0]?.depth ?? 0) *)
DepthAnswer ==
  IF result = {} THEN 0
  ELSE CHOOSE d \in {row[2] : row \in result} : \A row \in result : row[2] <= d

IsAncestorAnswer == result # {}

SubtreeAnswer == {row[1] : row \in result}

(* The queries whose answer the service waits for in vain. *)
Ends ==
  query.name = "isAncestor" =>
    IsAncestorEnds(tableRows, parentOf, query.candidate, query.task)

(***************************************************************************)
(* An iteration that ends is one of those that can, and returns what       *)
(* module Forest says of it as a least fixpoint: getDepth the number of    *)
(* ancestors or the cap, isAncestor whether the candidate is above the     *)
(* task, getSubtree the rows at most MaxDepth + 1 levels down.  This is    *)
(* what the code does, and not what is said of it: getDepth never throws   *)
(* (tasks.service.ts:51 says it does if the path is longer than MAX), not  *)
(* even on a cycle or for a row that is gone, and getSubtree leaves out    *)
(* the levels further down (ARCHITECTURE.md:54 says it traverses all).     *)
(* Module TaskTree states the two claims as DepthBounded and               *)
(* SubtreeComplete.                                                        *)
(***************************************************************************)
AnswersAgree ==
  state = "done" =>
    /\ Ends
    /\ CASE query.name = "getDepth" ->
              DepthAnswer = GetDepth(tableRows, parentOf, query.task)
         [] query.name = "isAncestor" ->
              IsAncestorAnswer = IsAncestor(tableRows, parentOf, query.candidate, query.task)
         [] query.name = "getSubtree" ->
              SubtreeAnswer = GetSubtree(tableRows, parentOf, query.task)

(***************************************************************************)
(* The queries that can end do: getDepth and getSubtree on every table,    *)
(* cyclic or not, isAncestor when it meets the candidate or a top-level    *)
(* task.                                                                   *)
(***************************************************************************)
QueriesEnd == Ends ~> state = "done"

=============================================================================
