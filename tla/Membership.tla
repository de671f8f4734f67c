----------------------------- MODULE Membership -----------------------------
(***************************************************************************)
(* The members of a workspace as WorkspacesService keeps them: rows of     *)
(* workspace_members with a user and a role.  A request is one action per  *)
(* statement it sends, and requests interleave at each.  Only the INSERT   *)
(* is guarded by the database: UQ_workspace_user.                          *)
(*                                                                         *)
(* A row that was deleted keeps its last values, for the requests that     *)
(* still hold its entity; user[m] = NoUser marks an id never handed out.   *)
(* Users and workspaces are never deleted (no route does it).  Looking up  *)
(* the user of an e-mail address reads nothing that changes.               *)
(***************************************************************************)
EXTENDS Naturals

CONSTANTS Users,        \* registered users
          Creator,      \* the user who created the workspace
          NoUser,
          MemberIds,    \* ids of rows; bound: each is handed out once
          CreatorRow,   \* the id of the creator's row
          Requests,     \* requests on members that can be in flight
          NoRequest     \* the locals of an idle request

ASSUME MembershipAssumption ==
  /\ Creator \in Users /\ NoUser \notin Users
  /\ CreatorRow \in MemberIds

Roles    == {"OWNER", "ADMIN", "MEMBER"}
Managers == {"OWNER", "ADMIN"}

VARIABLES members,  \* the rows
          user,     \* their columns
          role,
          pc,       \* the statement each request executes next
          ctx       \* its local variables

rows        == <<members, user, role>>
memberVars  == <<members, user, role, pc, ctx>>

MemberSteps == {"addFind", "addInsert", "roleFind", "roleSelect", "roleWrite",
                "removeFind", "removeDelete"}

(***************************************************************************)
(* member  the path parameter, then the id of the entity in memory         *)
(* who     the user of dto.email                                           *)
(* to      dto.role, then the role of the entity                           *)
(* base    the role save's SELECT returned, "GONE" if there was no row     *)
(***************************************************************************)
Locals == [member : MemberIds, who : Users, to : Roles, base : Roles \cup {"GONE"}]

MemberTypeOK ==
  /\ members \subseteq MemberIds
  /\ user \in [MemberIds -> Users \cup {NoUser}]
  /\ role \in [MemberIds -> Roles]
  /\ pc \in [Requests -> {"idle"} \cup MemberSteps]
  /\ ctx \in [Requests -> Locals \cup {NoRequest}]
  /\ \A r \in Requests : pc[r] # "idle" => ctx[r] \in Locals

(* The transaction of WorkspacesService.create has committed. *)
MemberInit ==
  /\ members = {CreatorRow}
  /\ user = [m \in MemberIds |-> IF m = CreatorRow THEN Creator ELSE NoUser]
  /\ role = [m \in MemberIds |-> IF m = CreatorRow THEN "OWNER" ELSE "MEMBER"]
  /\ pc = [r \in Requests |-> "idle"]
  /\ ctx = [r \in Requests |-> NoRequest]

-----------------------------------------------------------------------------

MemberUsers == {user[m] : m \in members}

(* assertCanManageMembers(workspaceId, u) passes. *)
MayManage(u) == \E m \in members : user[m] = u /\ role[m] \in Managers

Goto(r, step) == pc' = [pc EXCEPT ![r] = step]

(* The handler returns or throws. *)
Reply(r) == Goto(r, "idle") /\ ctx' = [ctx EXCEPT ![r] = NoRequest]

Check(r, succeeds, step) ==
  /\ IF succeeds THEN Goto(r, step) /\ UNCHANGED ctx ELSE Reply(r)
  /\ UNCHANGED rows

(***************************************************************************)
(* A request whose caller may not manage members replies 403 and changes   *)
(* nothing, so only the others are started.                                *)
(***************************************************************************)
Start(r, step, locals) ==
  /\ pc[r] = "idle"
  /\ \E u \in Users : MayManage(u)
  /\ Goto(r, step)
  /\ ctx' = [ctx EXCEPT ![r] = locals]
  /\ UNCHANGED rows

-----------------------------------------------------------------------------
(* POST workspaces/:id/members: addMember *)

AddStart(r) ==
  \E u \in Users, to \in Roles :
    Start(r, "addFind", [member |-> CreatorRow, who |-> u, to |-> to, base |-> "GONE"])

(* Mutant: a new member may be an OWNER. *)
AddFindAnyRole(r) ==
  /\ pc[r] = "addFind"
  /\ Check(r, ctx[r].who \notin MemberUsers, "addInsert")

(* The user is no member yet, and the role is not OWNER. *)
AddFind(r) ==
  /\ pc[r] = "addFind"
  /\ Check(r, ctx[r].who \notin MemberUsers /\ ctx[r].to # "OWNER", "addInsert")

(* Mutant: no unique index; addFind alone is to prevent a second row. *)
NotIndexed(u) == TRUE

(* UQ_workspace_user admits a row of the user. *)
UniqueHolds(u) == u \notin MemberUsers

FreshMemberIds == {m \in MemberIds : user[m] = NoUser}

AddInsert(r) ==
  /\ pc[r] = "addInsert"
  /\ IF UniqueHolds(ctx[r].who) /\ FreshMemberIds # {}
     THEN \E m \in FreshMemberIds :
            /\ members' = members \cup {m}
            /\ user' = [user EXCEPT ![m] = ctx[r].who]
            /\ role' = [role EXCEPT ![m] = ctx[r].to]
     ELSE UNCHANGED rows
  /\ Reply(r)

-----------------------------------------------------------------------------
(* PATCH workspaces/:id/members/:memberId: updateMemberRole *)

RoleStart(r) ==
  \E m \in MemberIds, to \in Roles \ {"OWNER"} :
    /\ user[m] # NoUser
    /\ Start(r, "roleFind", [member |-> m, who |-> Creator, to |-> to, base |-> "GONE"])

(* Mutant: the role of the OWNER can be changed. *)
FoundAnyMember(m) == m \in members

(* findOne returns the row, and it is not the OWNER's. *)
FoundMember(m) == m \in members /\ role[m] # "OWNER"

RoleFind(r) ==
  /\ pc[r] = "roleFind"
  /\ Check(r, FoundMember(ctx[r].member), "roleSelect")

RoleSelect(r) ==
  /\ pc[r] = "roleSelect"
  /\ LET m == ctx[r].member
     IN  ctx' = [ctx EXCEPT ![r].base = IF m \in members THEN role[m] ELSE "GONE"]
  /\ Goto(r, "roleWrite")
  /\ UNCHANGED rows

(***************************************************************************)
(* save: an INSERT of the entity when SELECT found no row, which fails if  *)
(* the row or another row of the user is there by now; an UPDATE of the    *)
(* role if it differs from the selected one, which may match no row.       *)
(***************************************************************************)
RoleWrite(r) ==
  /\ pc[r] = "roleWrite"
  /\ LET c       == ctx[r]
         m       == c.member
         inserts == c.base = "GONE" /\ m \notin members /\ UniqueHolds(user[m])
         updates == c.base \notin {"GONE", c.to} /\ m \in members
     IN  IF inserts \/ updates
         THEN /\ members' = members \cup {m}
              /\ role' = [role EXCEPT ![m] = c.to]
              /\ UNCHANGED user
         ELSE UNCHANGED rows
  /\ Reply(r)

-----------------------------------------------------------------------------
(* DELETE workspaces/:id/members/:memberId: removeMember *)

RemoveStart(r) ==
  \E m \in MemberIds :
    /\ user[m] # NoUser
    /\ Start(r, "removeFind", [member |-> m, who |-> Creator, to |-> "MEMBER", base |-> "GONE"])

RemoveFind(r) ==
  /\ pc[r] = "removeFind"
  /\ Check(r, FoundMember(ctx[r].member), "removeDelete")

RemoveDelete(r) ==
  /\ pc[r] = "removeDelete"
  /\ members' = members \ {ctx[r].member}
  /\ UNCHANGED <<user, role>>
  /\ Reply(r)

-----------------------------------------------------------------------------

(* Any await may reject, or the process die: nothing was written yet. *)
Abort(r) ==
  /\ pc[r] # "idle"
  /\ Reply(r)
  /\ UNCHANGED rows

MemberStep(r) ==
  \/ AddStart(r) \/ AddFind(r) \/ AddInsert(r)
  \/ RoleStart(r) \/ RoleFind(r) \/ RoleSelect(r) \/ RoleWrite(r)
  \/ RemoveStart(r) \/ RemoveFind(r) \/ RemoveDelete(r)
  \/ Abort(r)

MemberNext == \E r \in Requests : MemberStep(r)

MemberSpec == MemberInit /\ [][MemberNext]_memberVars

-----------------------------------------------------------------------------

(***************************************************************************)
(* The workspace always has one OWNER, its creator: no interleaving of     *)
(* additions, role changes and removals makes a second one, demotes or     *)
(* removes the first, or brings back a row as OWNER.  So workspace.ownerId *)
(* stays true and somebody can always manage the members.                  *)
(***************************************************************************)
OneOwner ==
  /\ {m \in members : role[m] = "OWNER"} = {CreatorRow}
  /\ user[CreatorRow] = Creator

(***************************************************************************)
(* A user is a member once, also when two requests add the user at a time, *)
(* or a save brings back the row of a user who was added again since.      *)
(***************************************************************************)
OneMembership == \A m, n \in members : user[m] = user[n] => m = n

(***************************************************************************)
(* The service keeps the promise of Members, with every interleaving of    *)
(* its requests: the creator stays, others come and go one at a time.      *)
(***************************************************************************)
M == INSTANCE Members
       WITH current <- MemberUsers,
            former  <- {user[m] : m \in MemberIds} \ {NoUser}

ImplementsMembers == M!MembersSpec

=============================================================================
