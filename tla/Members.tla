------------------------------ MODULE Members ------------------------------
(***************************************************************************)
(* What the rest of the system relies on about the members of a workspace: *)
(* the creator is always one, and the other users come and go one at a     *)
(* time.  Membership implements this.                                      *)
(***************************************************************************)
CONSTANTS Users, Creator

VARIABLES current,  \* the users who are members
          former    \* history: those who ever were

MembersInit ==
  /\ current = {Creator}
  /\ former = {Creator}

Join(u) ==
  /\ u \notin current
  /\ current' = current \cup {u}
  /\ former' = former \cup {u}

Leave(u) ==
  /\ u \in current \ {Creator}
  /\ current' = current \ {u}
  /\ UNCHANGED former

MembersNext == \E u \in Users : Join(u) \/ Leave(u)

MembersSpec == MembersInit /\ [][MembersNext]_<<current, former>>

=============================================================================
