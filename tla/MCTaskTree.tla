----------------------------- MODULE MCTaskTree -----------------------------
(***************************************************************************)
(* Small instances of TaskTree for TLC.                                    *)
(***************************************************************************)
EXTENDS TaskTree, TLC

CONSTANTS r1, r2

OneRequest  == {r1}
TwoRequests == {r1, r2}

(* Clients may send any parentTaskId. *)
AnyTarget == TaskIds \cup {Null}

(* Ids, projects and requests are interchangeable. *)
Symmetry == Permutations(TaskIds) \cup Permutations(Projects) \cup Permutations(Requests)

=============================================================================
