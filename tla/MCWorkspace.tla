----------------------------- MODULE MCWorkspace -----------------------------
(***************************************************************************)
(* Small instances of TaskUpdates and Projects for one run of TLC: both    *)
(* are set in a workspace with the same members, and neither reads what    *)
(* the other writes, so each behaviour takes steps of one of them.         *)
(***************************************************************************)
EXTENDS TaskUpdates, Projects, TLC

VARIABLE part  \* the part that takes steps

WorkspaceInit ==
  /\ UpdatesInit /\ ProjectsInit
  /\ part \in {"updates", "projects"}
  /\ part = "projects" =>
       task = [status |-> "DONE", completedAt |-> Never, assignee |-> NoUser]

WorkspaceNext ==
  /\ UNCHANGED part
  /\ \/ part = "updates"  /\ UpdatesNext /\ UNCHANGED <<projectRows, doing, held, hist>>
     \/ part = "projects" /\ ProjectsNext /\ UNCHANGED patchVars

WorkspaceSpec == WorkspaceInit /\ [][WorkspaceNext]_<<part, vars, projectVars>>

(* The columns and locals of both keep their types; a project was created  *)
(* by somebody who was a member.                                           *)
WorkspaceTypeOK == UpdatesTypeOK /\ ProjectsTypeOK

(* Texts, requests and the statuses but DONE are interchangeable. *)
Symmetry == Permutations(Texts) \cup Permutations(Patches) \cup Permutations(Editors)
              \cup Permutations(Statuses \ {"DONE"})

=============================================================================
