------------------------------- MODULE Forest -------------------------------
(***************************************************************************)
(* The shape of the tasks table.  T is the set of ids that have a row and  *)
(* par is the column "parentTaskId", an adjacency list whose empty entries *)
(* are Null.  The operators give the value of the three recursive queries  *)
(* of TasksService as least fixpoints: a set is in the result when every   *)
(* set that contains the start row and is closed under the recursive term  *)
(* contains it.  They are total: par may contain cycles.  Module           *)
(* TreeQueries evaluates the queries level by level and is checked against *)
(* them.                                                                   *)
(***************************************************************************)
EXTENDS Naturals, FiniteSets

CONSTANTS Null,      \* SQL NULL / JavaScript null
          MaxDepth   \* MAX_SUBTASK_DEPTH

ASSUME MaxDepthAssumption == MaxDepth \in Nat

-----------------------------------------------------------------------------

(* S contains the parent of each of its members that has one. *)
ClosedUpward(T, par, S) == \A u \in S : par[u] \in T => par[u] \in S

(* S contains every child of its members. *)
ClosedDownward(T, par, S) == \A c \in T : par[c] \in S => c \in S

(* The ids in the CTE "ancestors" started at t: t and everything above it. *)
Ancestors(T, par, t) ==
  {a \in T : /\ t \in T
             /\ \A S \in SUBSET T : t \in S /\ ClosedUpward(T, par, S) => a \in S}

(* The rows ON DELETE CASCADE removes together with the rows of D. *)
Descendants(T, par, D) ==
  {d \in T : \A S \in SUBSET T : D \subseteq S /\ ClosedDownward(T, par, S) => d \in S}

(* Walking up from t ends at a top-level task instead of going round. *)
ReachesRoot(T, par, t) == \E a \in Ancestors(T, par, t) : par[a] \notin T

(* No cycle: every non-empty set of tasks has one whose parent is outside. *)
Acyclic(T, par) ==
  \A S \in SUBSET T : S # {} => \E u \in S : par[u] \notin S

(* Where the recursive term of getDepth stops: WHERE a.depth < $2. *)
DepthCap == MaxDepth + 5

(***************************************************************************)
(* getDepth: MAX(depth) over the walk up from t.  It is the number of      *)
(* proper ancestors, up to the cap; on a cycle the walk goes round until   *)
(* the cap; for a row that is gone MAX is NULL and `?? 0' makes it 0.      *)
(***************************************************************************)
GetDepth(T, par, t) ==
  LET height == Cardinality(Ancestors(T, par, t)) - 1
  IN  IF t \notin T THEN 0
      ELSE IF ReachesRoot(T, par, t) /\ height < DepthCap THEN height
      ELSE DepthCap

(* isAncestor: is candidate an ancestor of t, or t itself? *)
IsAncestor(T, par, candidate, t) == candidate \in Ancestors(T, par, t)

(***************************************************************************)
(* Does the query of isAncestor finish?  LIMIT 1 stops it at the candidate *)
(* and a top-level task ends the recursion; UNION ALL keeps no visited     *)
(* set, so on a cycle without the candidate it never ends.                 *)
(***************************************************************************)
IsAncestorEnds(T, par, candidate, t) ==
  t \notin T \/ IsAncestor(T, par, candidate, t) \/ ReachesRoot(T, par, t)

(***************************************************************************)
(* getSubtree: the rows at most MaxDepth + 1 levels below t, which is what *)
(* the recursive term's WHERE tree.depth < $2 lets through.                *)
(***************************************************************************)
Level(T, par, t) ==
  LET level[n \in 0 .. MaxDepth + 1] ==
        IF n = 0 THEN {t} \cap T ELSE {c \in T : par[c] \in level[n - 1]}
  IN  level

GetSubtree(T, par, t) == UNION {Level(T, par, t)[n] : n \in 0 .. MaxDepth + 1}

=============================================================================
