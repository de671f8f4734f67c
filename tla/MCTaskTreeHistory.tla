-------------------------- MODULE MCTaskTreeHistory --------------------------
(***************************************************************************)
(* TaskTree with a history: what the PATCH requests so far asked of        *)
(* parentTaskId, and whether a save brought back a deleted task.  One run  *)
(* then covers any mix of requests and tells what holds until somebody     *)
(* moves a task.                                                           *)
(***************************************************************************)
EXTENDS MCTaskTree

VARIABLES asked,   \* history: "nothing", "detach" or "move", the most so far
          revived  \* history: a save inserted a task that had been deleted

(* The parentTaskId values of the PATCH requests in flight. *)
AskedNow == {ctx[r].target : r \in {q \in Requests : pc[q] \in UpdateSteps}}

HistoryInit == TreeInit /\ asked = "nothing" /\ revived = FALSE

HistoryNext ==
  /\ TreeNext
  /\ asked' = IF asked = "move" \/ AskedNow' \cap TaskIds # {} THEN "move"
              ELSE IF asked = "detach" \/ Null \in AskedNow' THEN "detach"
              ELSE "nothing"
  /\ revived' = (revived \/ \E t \in tasks' \ tasks : project[t] # Null)

HistorySpec == HistoryInit /\ [][HistoryNext]_<<vars, asked, revived>>

(***************************************************************************)
(* Requests that create, detach, edit and delete, with stale write-backs   *)
(* and resurrections by save, keep the tasks a forest as long as none of   *)
(* them names a new parent.                                                *)
(***************************************************************************)
ForestUntilMoved == asked # "move" => NoCycles

(***************************************************************************)
(* As long as no PATCH touches parentTaskId and no save brings back a      *)
(* deleted task, the depth limit holds under concurrency.  Neither         *)
(* condition can go: a detached task that was given subtasks can get its   *)
(* old parent back from a stale save, and getDepth of a parent that was    *)
(* deleted since it was found is 0, which passes the check although a save *)
(* may bring the parent back before the INSERT.                            *)
(***************************************************************************)
DepthUntilAsked == asked = "nothing" /\ ~ revived => DepthBounded

(***************************************************************************)
(* As long as the depth limit holds, so for any MaxDepth under the same    *)
(* conditions, getSubtree returns whole subtrees.  A subtree it does not   *)
(* return has MaxDepth + 3 levels: with three tasks there is none, so this *)
(* is proved in TaskTreeProofs and not checked by a run.                   *)
(***************************************************************************)
SubtreeUntilAsked == asked = "nothing" /\ ~ revived => SubtreeComplete

=============================================================================
