---------------------------- MODULE MCComponents ----------------------------
(***************************************************************************)
(* Three components on their own, small instances of each in one run: the  *)
(* queue of NotificationQueue, one recursive query of TreeQueries, and     *)
(* TaskTree with one request at a time.  They share no state.  The initial *)
(* state chooses the one that runs; the others stay as they begin.         *)
(***************************************************************************)
EXTENDS TaskTree, TreeQueries, NotificationQueue

CONSTANTS r1,       \* the one request of TaskTree
          row, row2 \* two rows of the queries

ASSUME TwoRows == {row, row2} \subseteq RowIds

OneRequest == {r1}

(* Clients may send any parentTaskId. *)
AnyTarget == TaskIds \cup {Null}

VARIABLE part     \* the component that runs

(* Any query on any table.  Ids are interchangeable: it may ask about row. *)
AnyQuery ==
  /\ QueryInit
  /\ query.task = row
  /\ query.name = "isAncestor" => query.candidate \in {row, row2}

(* A query that was answered: no row, no task. *)
NoQuery ==
  /\ tableRows = {} /\ parentOf = [t \in RowIds |-> Null]
  /\ query = [name |-> "getSubtree", task |-> row]
  /\ working = {} /\ depth = 0 /\ result = {} /\ state = "done"

ComponentsInit ==
  /\ part \in {"queue", "query", "tree"}
  /\ QueueInit
  /\ IF part = "query" THEN AnyQuery ELSE NoQuery
  /\ TreeInit

ComponentsNext ==
  /\ UNCHANGED part
  /\ \/ part = "queue" /\ QueueNext /\ UNCHANGED <<queryVars, vars>>
     \/ part = "query" /\ QueryNext /\ UNCHANGED <<queueVars, vars>>
     \/ part = "tree" /\ TreeNext /\ UNCHANGED <<queueVars, queryVars>>

(* The fairness of FairQueueSpec, QuerySpec and FairTreeSpec. *)
ComponentsSpec ==
  /\ ComponentsInit /\ [][ComponentsNext]_<<part, queueVars, queryVars, vars>>
  /\ \A j \in Jobs : WF_queueVars(Promote(j)) /\ WF_queueVars(MoveStalled(j))
  /\ \A w \in Workers : WF_queueVars(Handler(w))
  /\ WF_queryVars(QueryNext)
  /\ \A r \in Requests : WF_vars(Step(r))

=============================================================================
