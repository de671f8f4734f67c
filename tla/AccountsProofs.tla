--------------------------- MODULE AccountsProofs ---------------------------
(***************************************************************************)
(* What holds of accounts, sessions and the members of a workspace for any *)
(* users, ids, tokens and number of requests in flight.                    *)
(***************************************************************************)
EXTENDS MCAccounts, TLAPS

-----------------------------------------------------------------------------
(***************************************************************************)
(* The members of a workspace.                                             *)
(***************************************************************************)

(***************************************************************************)
(* What a request at statement s with locals c knows, u being the column   *)
(* user.  Past its check it holds neither the OWNER's row nor the role     *)
(* OWNER; OneOwner is not inductive without this.                          *)
(***************************************************************************)
Held(u, s, c) ==
  /\ s # "idle" => c \in Locals
  /\ s \in {"addInsert", "roleFind", "roleSelect", "roleWrite"} => c.to # "OWNER"
  /\ s \in {"roleSelect", "roleWrite", "removeDelete"} =>
       c.member # CreatorRow /\ u[c.member] # NoUser

RequestsOK ==
  /\ pc \in [Requests -> {"idle"} \cup MemberSteps]
  /\ ctx \in [Requests -> Locals \cup {NoRequest}]
  /\ \A r \in Requests : Held(user, pc[r], ctx[r])

RowsTypeOK ==
  /\ members \subseteq MemberIds
  /\ user \in [MemberIds -> Users \cup {NoUser}]
  /\ role \in [MemberIds -> Roles]

RowsOK ==
  /\ RowsTypeOK
  /\ OneOwner
  /\ OneMembership
  /\ \A m \in members : user[m] # NoUser

MemberIInv == RowsOK /\ RequestsOK

UsersKept == \A m \in MemberIds : user[m] # NoUser => user'[m] = user[m]

Former == {user[m] : m \in MemberIds} \ {NoUser}

(* A step of Members, or none. *)
Promised == M!MembersNext \/ UNCHANGED <<MemberUsers, Former>>

-----------------------------------------------------------------------------
(* The requests' part. *)

LEMMA RequestStep ==
  ASSUME RowsOK, RequestsOK, UsersKept, NEW r \in Requests,
         NEW s \in {"idle"} \cup MemberSteps, NEW c \in Locals \cup {NoRequest},
         pc' = [pc EXCEPT ![r] = s], ctx' = [ctx EXCEPT ![r] = c],
         Held(user', s, c)
  PROVE  RequestsOK'
<1>1. ASSUME NEW i \in Requests, i # r PROVE Held(user', pc'[i], ctx'[i])
  <2>1. pc'[i] = pc[i] /\ ctx'[i] = ctx[i] /\ Held(user, pc[i], ctx[i])
    BY <1>1 DEF RequestsOK
  <2> QED
    BY <2>1 DEF Held, UsersKept, Locals, MemberSteps
<1>2. Held(user', pc'[r], ctx'[r])
  BY DEF RequestsOK
<1> QED
  BY <1>1, <1>2 DEF RequestsOK

LEMMA ReplyStep ==
  ASSUME RowsOK, RequestsOK, UsersKept, NEW r \in Requests, Reply(r)
  PROVE  RequestsOK'
<1>1. Held(user', "idle", NoRequest)
  BY DEF Held
<1> QED
  BY <1>1, RequestStep DEF Reply, Goto

LEMMA RowsUnchanged ==
  ASSUME RowsOK, UNCHANGED rows
  PROVE  RowsOK' /\ UsersKept /\ Promised
BY DEF RowsOK, RowsTypeOK, OneOwner, OneMembership, rows, UsersKept, Promised, MemberUsers, Former

LEMMA GotoStep ==
  ASSUME RowsOK, RequestsOK, NEW r \in Requests, UNCHANGED rows,
         NEW s \in {"idle"} \cup MemberSteps, NEW c \in Locals,
         Goto(r, s), ctx' = [ctx EXCEPT ![r] = c], Held(user, s, c)
  PROVE  RequestsOK'
<1>1. UsersKept /\ user' = user
  BY RowsUnchanged DEF rows
<1> QED
  BY <1>1, RequestStep DEF Goto

LEMMA CheckStep ==
  ASSUME RowsOK, RequestsOK, NEW r \in Requests, NEW b, NEW s \in MemberSteps,
         pc[r] # "idle", Check(r, b, s), b => Held(user, s, ctx[r])
  PROVE  RequestsOK' /\ UNCHANGED rows
<1>1. UNCHANGED rows /\ UsersKept
  BY RowsUnchanged DEF Check
<1>2. CASE b
  <2>1. ctx[r] \in Locals /\ ctx' = [ctx EXCEPT ![r] = ctx[r]]
    BY <1>2 DEF Check, RequestsOK, Held
  <2> QED
    BY <1>1, <1>2, <2>1, GotoStep DEF Check
<1>3. CASE ~ b
  BY <1>1, <1>3, ReplyStep DEF Check
<1> QED
  BY <1>1, <1>2, <1>3

LEMMA StartStep ==
  ASSUME RowsOK, RequestsOK, NEW r \in Requests, NEW s \in MemberSteps, NEW c \in Locals,
         Start(r, s, c), Held(user, s, c)
  PROVE  RequestsOK' /\ UNCHANGED rows
BY GotoStep DEF Start

-----------------------------------------------------------------------------
(* The three statements that write rows. *)

LEMMA InsertRows ==
  ASSUME RowsOK, RequestsOK, NEW r \in Requests, AddInsert(r)
  PROVE  RowsOK' /\ UsersKept /\ Promised
<1> DEFINE u == ctx[r].who
           to == ctx[r].to
<1>1. u \in Users /\ to \in Roles /\ to # "OWNER"
  BY DEF RequestsOK, Held, AddInsert, Locals
<1>2. CASE UNCHANGED rows
  BY <1>2, RowsUnchanged
<1>3. ASSUME NEW m \in FreshMemberIds, UniqueHolds(u),
             members' = members \cup {m},
             user' = [user EXCEPT ![m] = u],
             role' = [role EXCEPT ![m] = to]
      PROVE  RowsOK' /\ UsersKept /\ Promised
  <2>1. /\ m \in MemberIds /\ user[m] = NoUser /\ m \notin members
        /\ m # CreatorRow /\ CreatorRow \in members
    BY MembershipAssumption DEF FreshMemberIds, RowsOK, OneOwner
  <2>2. /\ user'[m] = u /\ role'[m] = to
        /\ \A n \in MemberIds \ {m} : user'[n] = user[n] /\ role'[n] = role[n]
    BY <1>3, <2>1 DEF RowsOK, RowsTypeOK
  <2>3. RowsTypeOK' /\ \A n \in members' : user'[n] # NoUser
    BY <1>1, <1>3, <2>1, <2>2, MembershipAssumption DEF RowsOK, RowsTypeOK
  <2>4. OneOwner'
    BY <1>1, <1>3, <2>1, <2>2 DEF RowsOK, RowsTypeOK, OneOwner
  <2>5. OneMembership'
    BY <1>3, <2>1, <2>2 DEF RowsOK, RowsTypeOK, OneMembership, UniqueHolds, MemberUsers
  <2>6. UsersKept
    BY <2>1, <2>2 DEF UsersKept
  <2>7. MemberUsers' = MemberUsers \cup {u}
    BY <1>3, <2>1, <2>2 DEF MemberUsers, RowsOK, RowsTypeOK
  <2>8. Former' = Former \cup {u}
    BY <1>1, <2>1, <2>2, MembershipAssumption DEF Former, RowsOK, RowsTypeOK
  <2>9. M!Join(u)
    BY <1>3, <2>7, <2>8 DEF M!Join, UniqueHolds, Former
  <2>10. Promised
    <3>1. \E v \in Users : M!Join(v)
      BY <1>1, <2>9 DEF M!Join
    <3> QED
      BY <3>1 DEF Promised, M!MembersNext, M!Join, M!Leave
  <2> QED
    BY <2>3, <2>4, <2>5, <2>6, <2>10 DEF RowsOK
<1> QED
  BY <1>2, <1>3 DEF AddInsert

LEMMA SaveRows ==
  ASSUME RowsOK, RequestsOK, NEW r \in Requests, RoleWrite(r)
  PROVE  RowsOK' /\ UsersKept /\ Promised
<1> DEFINE m == ctx[r].member
           to == ctx[r].to
<1>1. /\ m \in MemberIds \ {CreatorRow} /\ user[m] \in Users
      /\ to \in Roles \ {"OWNER"}
  BY DEF RequestsOK, Held, RoleWrite, Locals, RowsOK, RowsTypeOK
<1>2. CASE UNCHANGED rows
  BY <1>2, RowsUnchanged
<1>3. CASE /\ m \in members \/ UniqueHolds(user[m])
           /\ members' = members \cup {m}
           /\ role' = [role EXCEPT ![m] = to]
           /\ UNCHANGED user
  <2>1. role'[m] = to /\ \A n \in MemberIds \ {m} : role'[n] = role[n]
    BY <1>1, <1>3 DEF RowsOK, RowsTypeOK
  <2>2. RowsTypeOK' /\ \A n \in members' : user'[n] # NoUser
    BY <1>1, <1>3, MembershipAssumption DEF RowsOK, RowsTypeOK
  <2>3. OneOwner'
    BY <1>1, <1>3, <2>1 DEF RowsOK, RowsTypeOK, OneOwner
  <2>4. OneMembership'
    BY <1>3 DEF RowsOK, OneMembership, UniqueHolds, MemberUsers
  <2>5. UsersKept /\ Former' = Former
    BY <1>3 DEF UsersKept, Former
  <2>6. MemberUsers' = MemberUsers \cup {user[m]}
    BY <1>3 DEF MemberUsers
  <2>7. Promised
    <3>1. user[m] \in Former
      BY <1>1, MembershipAssumption DEF Former
    <3>2. CASE user[m] \in MemberUsers
      BY <2>5, <2>6, <3>2 DEF Promised
    <3>3. CASE user[m] \notin MemberUsers
      <4>1. M!Join(user[m])
        BY <2>5, <2>6, <3>1, <3>3 DEF M!Join, Former
      <4>2. \E v \in Users : M!Join(v)
        BY <1>1, <4>1 DEF M!Join
      <4> QED
        BY <4>2 DEF Promised, M!MembersNext, M!Join, M!Leave
    <3> QED
      BY <3>2, <3>3
  <2> QED
    BY <2>2, <2>3, <2>4, <2>5, <2>7 DEF RowsOK
<1> QED
  BY <1>2, <1>3 DEF RoleWrite

LEMMA DeleteRows ==
  ASSUME RowsOK, RequestsOK, NEW r \in Requests, RemoveDelete(r)
  PROVE  RowsOK' /\ UsersKept /\ Promised
<1> DEFINE m == ctx[r].member
<1>1. m \in MemberIds \ {CreatorRow} /\ user[m] \in Users
  BY DEF RequestsOK, Held, RemoveDelete, Locals, RowsOK, RowsTypeOK
<1>2. members' = members \ {m} /\ UNCHANGED <<user, role>>
  BY DEF RemoveDelete
<1>3. RowsOK' /\ UsersKept /\ Former' = Former
  BY <1>1, <1>2 DEF RowsOK, RowsTypeOK, OneOwner, OneMembership, UsersKept, Former
<1>4. CASE m \in members
  <2>1. MemberUsers' = MemberUsers \ {user[m]}
    BY <1>2, <1>4 DEF MemberUsers, RowsOK, OneMembership
  <2>2. user[m] \in MemberUsers \ {Creator}
    BY <1>1, <1>4 DEF MemberUsers, RowsOK, OneMembership, OneOwner
  <2> QED
    BY <1>1, <1>3, <2>1, <2>2 DEF Promised, M!MembersNext, M!Leave, Former
<1>5. CASE m \notin members
  BY <1>2, <1>3, <1>5 DEF Promised, MemberUsers
<1> QED
  BY <1>3, <1>4, <1>5

-----------------------------------------------------------------------------

LEMMA InitHolds == MemberInit => MemberIInv
BY MembershipAssumption
   DEF MemberInit, MemberIInv, RowsOK, RowsTypeOK, RequestsOK, OneOwner, OneMembership,
       Held, Roles

(* A step of any request keeps the invariant and the promise of Members. *)
LEMMA StepHolds ==
  ASSUME MemberIInv, NEW r \in Requests, MemberStep(r)
  PROVE  MemberIInv' /\ Promised
<1> USE DEF MemberIInv
<1>a. pc[r] # "idle" => ctx[r] \in Locals
  BY DEF RequestsOK, Held
<1>0. ASSUME RequestsOK', UNCHANGED rows PROVE MemberIInv' /\ Promised
  BY <1>0, RowsUnchanged
<1>1. ASSUME RowsOK' /\ UsersKept /\ Promised, Reply(r) PROVE MemberIInv' /\ Promised
  BY <1>1, ReplyStep
<1>2. CASE AddStart(r)
  <2>1. PICK u \in Users, to \in Roles :
          Start(r, "addFind", [member |-> CreatorRow, who |-> u, to |-> to, base |-> "GONE"])
    BY <1>2 DEF AddStart
  <2> DEFINE c == [member |-> CreatorRow, who |-> u, to |-> to, base |-> "GONE"]
  <2>2. c \in Locals /\ Held(user, "addFind", c) /\ "addFind" \in MemberSteps
    BY MembershipAssumption DEF Locals, Held, MemberSteps
  <2> HIDE DEF c
  <2> QED
    BY <1>0, <2>1, <2>2, StartStep DEF c
<1>3. CASE AddFind(r)
  <2>1. (ctx[r].who \notin MemberUsers /\ ctx[r].to # "OWNER") => Held(user, "addInsert", ctx[r])
    BY <1>3, <1>a DEF AddFind, Held
  <2> QED
    BY <1>0, <1>3, <2>1, CheckStep DEF AddFind, MemberSteps
<1>4. CASE AddInsert(r)
  BY <1>1, <1>4, InsertRows DEF AddInsert
<1>5. CASE RoleStart(r)
  <2>1. PICK m \in MemberIds, to \in Roles \ {"OWNER"} :
          Start(r, "roleFind", [member |-> m, who |-> Creator, to |-> to, base |-> "GONE"])
    BY <1>5 DEF RoleStart
  <2> DEFINE c == [member |-> m, who |-> Creator, to |-> to, base |-> "GONE"]
  <2>2. c \in Locals /\ Held(user, "roleFind", c) /\ "roleFind" \in MemberSteps
    BY MembershipAssumption DEF Locals, Held, MemberSteps
  <2> HIDE DEF c
  <2> QED
    BY <1>0, <2>1, <2>2, StartStep DEF c
<1>6. CASE RoleFind(r)
  <2>1. FoundMember(ctx[r].member) => Held(user, "roleSelect", ctx[r])
    BY <1>6, <1>a DEF RoleFind, Held, FoundMember, RequestsOK, RowsOK, OneOwner
  <2> QED
    BY <1>0, <1>6, <2>1, CheckStep DEF RoleFind, MemberSteps
<1>7. CASE RoleSelect(r)
  <2> DEFINE b == IF ctx[r].member \in members THEN role[ctx[r].member] ELSE "GONE"
             c == [ctx[r] EXCEPT !.base = b]
  <2>1. ctx[r] \in Locals /\ Held(user, "roleSelect", ctx[r])
    BY <1>7, <1>a DEF RoleSelect, RequestsOK
  <2>2. b \in Roles \cup {"GONE"}
    BY <2>1 DEF Locals, RowsOK, RowsTypeOK
  <2>3. /\ c \in Locals /\ c.member = ctx[r].member /\ c.to = ctx[r].to
        /\ ctx' = [ctx EXCEPT ![r] = c]
    BY <1>7, <2>1, <2>2 DEF Locals, RoleSelect, RequestsOK
  <2> HIDE DEF b, c
  <2>4. Held(user, "roleWrite", c) /\ "roleWrite" \in MemberSteps
    BY <2>1, <2>3 DEF Held, MemberSteps
  <2> QED
    BY <1>0, <1>7, <2>3, <2>4, GotoStep DEF RoleSelect
<1>8. CASE RoleWrite(r)
  BY <1>1, <1>8, SaveRows DEF RoleWrite
<1>9. CASE RemoveStart(r)
  <2>1. PICK m \in MemberIds :
          Start(r, "removeFind", [member |-> m, who |-> Creator, to |-> "MEMBER", base |-> "GONE"])
    BY <1>9 DEF RemoveStart
  <2> DEFINE c == [member |-> m, who |-> Creator, to |-> "MEMBER", base |-> "GONE"]
  <2>2. c \in Locals /\ Held(user, "removeFind", c) /\ "removeFind" \in MemberSteps
    BY MembershipAssumption DEF Locals, Held, MemberSteps, Roles
  <2> HIDE DEF c
  <2> QED
    BY <1>0, <2>1, <2>2, StartStep DEF c
<1>10. CASE RemoveFind(r)
  <2>1. FoundMember(ctx[r].member) => Held(user, "removeDelete", ctx[r])
    BY <1>10, <1>a DEF RemoveFind, Held, FoundMember, RequestsOK, RowsOK, OneOwner
  <2> QED
    BY <1>0, <1>10, <2>1, CheckStep DEF RemoveFind, MemberSteps
<1>11. CASE RemoveDelete(r)
  BY <1>1, <1>11, DeleteRows DEF RemoveDelete
<1>12. CASE Abort(r)
  BY <1>1, <1>12, RowsUnchanged DEF Abort
<1> QED
  BY <1>2, <1>3, <1>4, <1>5, <1>6, <1>7, <1>8, <1>9, <1>10, <1>11, <1>12 DEF MemberStep

LEMMA NextHolds ==
  ASSUME MemberIInv, [MemberNext]_memberVars
  PROVE  MemberIInv' /\ Promised
<1>1. CASE MemberNext
  BY <1>1, StepHolds DEF MemberNext
<1>2. CASE UNCHANGED memberVars
  BY <1>2, RowsUnchanged DEF memberVars, rows, MemberIInv, RequestsOK, Held
<1> QED
  BY <1>1, <1>2

LEMMA IInvHolds == MemberSpec => []MemberIInv
<1>1. MemberIInv /\ [MemberNext]_memberVars => MemberIInv'
  BY NextHolds
<1> QED
  BY InitHolds, <1>1, PTL DEF MemberSpec

(* The columns keep their types, and locals are there when a request uses them. *)
THEOREM MemberTypeCorrect == MemberSpec => []MemberTypeOK
<1>1. MemberIInv => MemberTypeOK
  BY DEF MemberIInv, RowsOK, RowsTypeOK, RequestsOK, Held, MemberTypeOK
<1> QED
  BY <1>1, IInvHolds, PTL

(* A workspace has one OWNER, its creator, whatever requests run at a time. *)
THEOREM OwnerStays == MemberSpec => []OneOwner
<1>1. MemberIInv => OneOwner
  BY DEF MemberIInv, RowsOK
<1> QED
  BY <1>1, IInvHolds, PTL

(* A user has one membership, which the unique index sees to. *)
THEOREM MembershipOnce == MemberSpec => []OneMembership
<1>1. MemberIInv => OneMembership
  BY DEF MemberIInv, RowsOK
<1> QED
  BY <1>1, IInvHolds, PTL

(* Members is what the service implements: the creator stays, users come and go. *)
THEOREM MembersImplemented == MemberSpec => ImplementsMembers
<1>1. MemberInit => M!MembersInit
  <2> SUFFICES ASSUME MemberInit PROVE M!MembersInit
    OBVIOUS
  <2>1. MemberUsers = {Creator}
    BY MembershipAssumption DEF MemberInit, MemberUsers
  <2>2. {user[m] : m \in MemberIds} \ {NoUser} = {Creator}
    BY MembershipAssumption DEF MemberInit
  <2> QED
    BY <2>1, <2>2 DEF M!MembersInit
<1>2. MemberIInv /\ [MemberNext]_memberVars
        => [M!MembersNext]_<<MemberUsers, {user[m] : m \in MemberIds} \ {NoUser}>>
  BY NextHolds DEF Promised, Former
<1> QED
  BY <1>1, <1>2, IInvHolds, PTL DEF MemberSpec, ImplementsMembers, M!MembersSpec

-----------------------------------------------------------------------------
(***************************************************************************)
(* Sessions: the refresh tokens of an account.                             *)
(***************************************************************************)

(* A session is named by its first token, and all its tokens are of one    *)
(* user.                                                                   *)
SessionsRooted ==
  \A t \in Tokens : session[t] # Null =>
    session[session[t]] = session[t] /\ owner[session[t]] = owner[t]

(* Users are never deleted, and keep their e-mail.                         *)
OwnersStay == \A t \in Tokens : owner[t] # Null => email[owner[t]] # Null

RowsInv == TokensTypeOK /\ SessionsRooted /\ OwnersStay

(* Request r has found a token of session s.                               *)
Holds(r, s) ==
  next[r] \in {"revokeOld", "issueNext", "revoke"} /\ session[local[r].token] = s

Undisturbed == Sessions \ overlapped

OneHolder ==
  \A s \in Undisturbed : \A p, q \in Calls : Holds(p, s) /\ Holds(q, s) => p = q

(* What a request found is still so when it writes: its session is not     *)
(* over, and the token found is the only one that can be valid, until it   *)
(* is revoked.                                                             *)
HoldersCurrent ==
  \A s \in Undisturbed, r \in Calls : Holds(r, s) =>
    /\ s \notin loggedOut
    /\ \A t \in TokensOf(s) : Valid(t) => t = local[r].token /\ next[r] # "issueNext"

RotationInv == OneHolder /\ HoldersCurrent /\ OneValidToken /\ LogoutEnds

(* EndedForAReason, in terms of revocation alone.                          *)
NoneEnded ==
  \A s \in Sessions :
    \/ \E t \in TokensOf(s) : t \notin revoked
    \/ s \in loggedOut \cup died
    \/ \E r \in Calls : next[r] = "issueNext" /\ session[local[r].token] = s

SessionsIInv == RowsInv /\ RotationInv /\ NoneEnded

-----------------------------------------------------------------------------
(* The rows *)

LEMMA NoContextTyped == NoContext \in Context
  BY DEF NoContext, Context

LEMMA RowsInit == TokensInit => RowsInv
<1> SUFFICES ASSUME TokensInit PROVE RowsInv
  OBVIOUS
<1>1. Issued = {} /\ Sessions \subseteq Tokens
  BY DEF TokensInit, Issued, Sessions
<1>2. \A r \in Calls : Defined(next[r], local[r])
  BY DEF TokensInit, Defined
<1> QED
  BY <1>1, <1>2, NoContextTyped, TokensAssumption
     DEF TokensInit, RowsInv, TokensTypeOK, SessionsRooted, OwnersStay, Steps

(* A step that hands out no id and no token, and of the requests changes   *)
(* only r.                                                                 *)
LEMMA RowsLocal ==
  ASSUME RowsInv, NEW r \in Calls, NEW s \in Steps, NEW c \in Context,
         UNCHANGED <<email, owner, session>>, revoked' \subseteq Issued, expired' \subseteq Issued,
         next' = [next EXCEPT ![r] = s], local' = [local EXCEPT ![r] = c],
         Defined(s, c),
         loggedOut' \subseteq Sessions, died' \subseteq Sessions, overlapped' \subseteq Sessions
  PROVE  RowsInv'
<1>1. Issued' = Issued /\ Sessions' = Sessions
  BY DEF Issued, Sessions
<1>2. \A q \in Calls : Defined(next[q], local[q])'
  BY <1>1 DEF RowsInv, TokensTypeOK, Defined
<1> QED
  BY <1>1, <1>2 DEF RowsInv, TokensTypeOK, SessionsRooted, OwnersStay

(* The INSERT of a token, and the return of the request.                   *)
LEMMA RowsIssue ==
  ASSUME RowsInv, NEW r \in Calls, NEW u \in UserIds, email[u] # Null,
         NEW s \in Sessions \cup {Null}, s # Null => owner[s] = u,
         Issue(u, s), Return(r), UNCHANGED <<email, revoked, expired, loggedOut, overlapped>>,
         died' \subseteq Sessions
  PROVE  RowsInv'
<1>1. CASE UNCHANGED <<owner, session>>
  <2>1. Defined("idle", NoContext)
    BY DEF Defined
  <2> QED
    BY <1>1, <2>1, NoContextTyped, RowsLocal
       DEF Return, Proceed, RowsInv, TokensTypeOK, Steps
<1>2. ASSUME NEW t \in Tokens \ Issued,
             owner' = [owner EXCEPT ![t] = u],
             session' = [session EXCEPT ![t] = IF s = Null THEN t ELSE s]
      PROVE  RowsInv'
  <2> DEFINE root == IF s = Null THEN t ELSE s
  <2>1. owner[t] = Null /\ session[t] = Null /\ u # Null /\ t # Null
    BY <1>2, TokensAssumption DEF RowsInv, TokensTypeOK, Issued
  <2>2. /\ owner' \in [Tokens -> UserIds \cup {Null}] /\ session' \in [Tokens -> Tokens \cup {Null}]
        /\ owner'[t] = u /\ session'[t] = root /\ root \in Tokens
        /\ \A n \in Tokens : n # t => owner'[n] = owner[n] /\ session'[n] = session[n]
    BY <1>2 DEF RowsInv, TokensTypeOK, Sessions
  <2> HIDE DEF root
  <2>3. root # Null /\ owner'[root] = u /\ session'[root] = root
    <3>1. CASE s = Null
      BY <3>1, <2>1, <2>2 DEF root
    <3>2. CASE s # Null
      <4>1. s \in Tokens /\ session[s] = s /\ owner[s] = u
        BY <3>2 DEF Sessions
      <4> QED
        BY <3>2, <4>1, <2>1, <2>2 DEF root
    <3> QED
      BY <3>1, <3>2
  <2>4. Issued \subseteq Issued' /\ Sessions \subseteq Sessions'
    BY <2>1, <2>2 DEF Issued, Sessions
  <2>5. SessionsRooted'
    <3> SUFFICES ASSUME NEW n \in Tokens, session'[n] # Null
                 PROVE  session'[session'[n]] = session'[n] /\ owner'[session'[n]] = owner'[n]
      BY DEF SessionsRooted
    <3>1. CASE n = t
      BY <3>1, <2>2, <2>3
    <3>2. CASE n # t
      <4>1. /\ session[n] # Null /\ session[n] \in Tokens
            /\ session[session[n]] = session[n] /\ owner[session[n]] = owner[n]
        BY <3>2, <2>2 DEF RowsInv, TokensTypeOK, SessionsRooted
      <4>2. session[n] # t
        BY <4>1, <2>1
      <4> QED
        BY <3>2, <4>1, <4>2, <2>2
    <3> QED
      BY <3>1, <3>2
  <2>6. next' = [next EXCEPT ![r] = "idle"] /\ local' = [local EXCEPT ![r] = NoContext]
    BY DEF Return, Proceed
  <2>7. \A q \in Calls : Defined(next[q], local[q])'
    <3> SUFFICES ASSUME NEW q \in Calls PROVE Defined(next[q], local[q])'
      OBVIOUS
    <3>1. CASE q = r
      BY <3>1, <2>6 DEF RowsInv, TokensTypeOK, Defined
    <3>2. CASE q # r
      <4>1. next'[q] = next[q] /\ local'[q] = local[q] /\ Defined(next[q], local[q])
        BY <3>2, <2>6 DEF RowsInv, TokensTypeOK
      <4>2. local[q].token \in Issued => local[q].token # t
        BY <2>1 DEF Issued
      <4> QED
        BY <4>1, <4>2, <2>2, <2>4 DEF Defined, Issued
    <3> QED
      BY <3>1, <3>2
  <2>8. \A n \in Tokens : owner'[n] # Null <=> session'[n] # Null
    BY <2>1, <2>2, <2>3 DEF RowsInv, TokensTypeOK
  <2>9. next' \in [Calls -> Steps] /\ local' \in [Calls -> Context]
    BY <2>6, NoContextTyped DEF RowsInv, TokensTypeOK, Steps
  <2>10. OwnersStay'
    BY <2>2 DEF RowsInv, OwnersStay
  <2> QED
    BY <2>2, <2>4, <2>5, <2>7, <2>8, <2>9, <2>10 DEF RowsInv, TokensTypeOK
<1> QED
  BY <1>1, <1>2 DEF Issue

LEMMA RowsRegister == ASSUME RowsInv, NEW r \in Calls, RegisterFind(r) \/ Login(r) PROVE RowsInv'
<1> USE DEF tables, history
<1>1. CASE RegisterFind(r)
  <2> PICK e \in Emails : local' = [local EXCEPT ![r].email = e]
    BY <1>1 DEF RegisterFind
  <2> DEFINE c == [local[r] EXCEPT !.email = e]
  <2>1. c \in Context /\ Defined("insertUser", c) /\ local' = [local EXCEPT ![r] = c]
    BY DEF RowsInv, TokensTypeOK, Context, Defined
  <2> QED
    BY <1>1, <2>1, RowsLocal DEF RegisterFind, Proceed, Steps, RowsInv, TokensTypeOK
<1>2. CASE Login(r)
  <2> PICK u \in UserIds : email[u] # Null /\ local' = [local EXCEPT ![r].user = u]
    BY <1>2 DEF Login
  <2> DEFINE c == [local[r] EXCEPT !.user = u]
  <2>1. c \in Context /\ Defined("issueFirst", c) /\ local' = [local EXCEPT ![r] = c]
    BY DEF RowsInv, TokensTypeOK, Context, Defined
  <2> QED
    BY <1>2, <2>1, RowsLocal DEF Login, Proceed, Steps, RowsInv, TokensTypeOK
<1> QED
  BY <1>1, <1>2

LEMMA RowsReturn ==
  ASSUME RowsInv, NEW r \in Calls, Return(r), UNCHANGED <<email, owner, session>>,
         revoked' \subseteq Issued, expired' \subseteq Issued,
         loggedOut' \subseteq Sessions, died' \subseteq Sessions, overlapped' \subseteq Sessions
  PROVE  RowsInv'
<1>1. Defined("idle", NoContext)
  BY DEF Defined
<1> QED
  BY <1>1, NoContextTyped, RowsLocal DEF Return, Proceed, Steps

(* An e-mail gets an account only if it has none.                          *)
LEMMA RowsInsertUser == ASSUME RowsInv, NEW r \in Calls, RegisterInsert(r) PROVE RowsInv'
<1> USE DEF history
<1>1. CASE Return(r) /\ UNCHANGED email
  BY <1>1, RowsReturn DEF RegisterInsert, RowsInv, TokensTypeOK, tables
<1>2. ASSUME NEW u \in UserIds, email[u] = Null, EmailFree(local[r].email),
             email' = [email EXCEPT ![u] = local[r].email],
             local' = [local EXCEPT ![r].user = u], Proceed(r, "issueFirst")
      PROVE  RowsInv'
  <2> DEFINE e == local[r].email
  <2>1. e \in Emails /\ e # Null
    BY TokensAssumption DEF RegisterInsert, RowsInv, TokensTypeOK, Defined
  <2> HIDE DEF e
  <2>2. /\ email' \in [UserIds -> Emails \cup {Null}]
        /\ email'[u] = e /\ \A v \in UserIds : v # u => email'[v] = email[v] /\ email[v] # e
    BY <1>2, <2>1 DEF RowsInv, TokensTypeOK, EmailFree, e
  <2>3. \A v, w \in UserIds : email'[v] # Null /\ email'[v] = email'[w] => v = w
    BY <2>2 DEF RowsInv, TokensTypeOK
  <2>4. /\ UNCHANGED <<owner, revoked, expired, session, loggedOut, died, overlapped>>
        /\ Issued' = Issued /\ Sessions' = Sessions
    BY DEF RegisterInsert, Issued, Sessions
  <2>5. /\ next' \in [Calls -> Steps] /\ local' \in [Calls -> Context]
        /\ next'[r] = "issueFirst" /\ local'[r].user = u
        /\ \A q \in Calls : q # r => next'[q] = next[q] /\ local'[q] = local[q]
    BY <1>2 DEF RowsInv, TokensTypeOK, Proceed, Steps, Context
  <2>6. \A q \in Calls : Defined(next[q], local[q])'
    <3> SUFFICES ASSUME NEW q \in Calls PROVE Defined(next[q], local[q])'
      OBVIOUS
    <3>1. CASE q = r
      BY <3>1, <2>1, <2>2, <2>5 DEF Defined
    <3>2. CASE q # r
      <4>1. Defined(next[q], local[q])
        BY DEF RowsInv, TokensTypeOK
      <4>2. \A v \in UserIds : email[v] # Null => email'[v] # Null
        BY <2>1, <2>2
      <4> QED
        BY <3>2, <4>1, <4>2, <2>4, <2>5 DEF Defined
    <3> QED
      BY <3>1, <3>2
  <2>7. OwnersStay'
    BY <2>1, <2>2, <2>4 DEF RowsInv, TokensTypeOK, OwnersStay
  <2> QED
    BY <2>2, <2>3, <2>4, <2>5, <2>6, <2>7 DEF RowsInv, TokensTypeOK, SessionsRooted
<1> QED
  BY <1>1, <1>2 DEF RegisterInsert

(* The token a request found, its user and its session are there.          *)
LEMMA FoundRows ==
  ASSUME RowsInv, NEW r \in Calls, next[r] \in {"revokeOld", "issueNext", "revoke"}
  PROVE  /\ local[r].token \in Issued /\ local[r].token \in Tokens
         /\ owner[local[r].token] \in UserIds /\ session[local[r].token] \in Sessions
         /\ owner[session[local[r].token]] = owner[local[r].token]
<1>1. local[r].token \in Issued
  BY DEF RowsInv, TokensTypeOK, Defined
<1> QED
  BY <1>1 DEF RowsInv, TokensTypeOK, SessionsRooted, Issued, Sessions

LEMMA RowsFind == ASSUME RowsInv, NEW r \in Calls, Find(r) PROVE RowsInv'
<1> USE DEF tables
<1> PICK t \in Tokens, step \in {"revokeOld", "revoke"} :
      /\ FoundValid(t)
      /\ local' = [local EXCEPT ![r].token = t]
      /\ Proceed(r, step)
      /\ overlapped' = overlapped \cup ({session[t]} \cap InUse(r))
  BY DEF Find
<1> DEFINE c == [local[r] EXCEPT !.token = t]
<1>1. c \in Context /\ Defined(step, c) /\ local' = [local EXCEPT ![r] = c]
  BY DEF RowsInv, TokensTypeOK, Context, Defined, FoundValid
<1>2. session[t] \in Sessions
  BY DEF FoundValid, Issued, Sessions, RowsInv, TokensTypeOK, SessionsRooted
<1>3. overlapped' \subseteq Sessions
  BY <1>2 DEF RowsInv, TokensTypeOK
<1>4. /\ UNCHANGED <<email, owner, session>> /\ revoked' \subseteq Issued /\ expired' \subseteq Issued
      /\ loggedOut' \subseteq Sessions /\ died' \subseteq Sessions
  BY DEF Find, RowsInv, TokensTypeOK
<1>5. step \in Steps /\ next' = [next EXCEPT ![r] = step]
  BY DEF Proceed, Steps
<1> HIDE DEF c
<1> QED
  BY <1>1, <1>3, <1>4, <1>5, RowsLocal

(* Revoking and expiring touch no other column.                            *)
LEMMA RowsFlags ==
  ASSUME RowsInv, revoked' \subseteq Issued, expired' \subseteq Issued,
         UNCHANGED <<email, owner, calls, session>>,
         loggedOut' \subseteq Sessions, died' \subseteq Sessions, overlapped' \subseteq Sessions
  PROVE  RowsInv'
  BY DEF RowsInv, TokensTypeOK, SessionsRooted, OwnersStay, Defined, Issued, Sessions, calls

LEMMA RowsRevokeOld == ASSUME RowsInv, NEW r \in Calls, RevokeOld(r) PROVE RowsInv'
<1> DEFINE t == local[r].token
           c == [local[r] EXCEPT !.user = owner[t]]
<1>1. t \in Issued /\ owner[t] \in UserIds /\ email[owner[t]] # Null
  BY FoundRows DEF RevokeOld, RowsInv, OwnersStay, Issued
<1>2. c \in Context /\ Defined("issueNext", c) /\ local' = [local EXCEPT ![r] = c]
  BY <1>1 DEF RevokeOld, RowsInv, TokensTypeOK, Context, Defined
<1>3. revoked' \subseteq Issued
  BY <1>1 DEF RevokeOld, RowsInv, TokensTypeOK
<1> QED
  BY <1>2, <1>3, RowsLocal DEF RevokeOld, Proceed, Steps, history, RowsInv, TokensTypeOK

LEMMA RowsIssueNext == ASSUME RowsInv, NEW r \in Calls, IssueNext(r) PROVE RowsInv'
<1>1. /\ local[r].user \in UserIds /\ email[local[r].user] # Null
      /\ owner[local[r].token] = local[r].user
  BY DEF IssueNext, RowsInv, TokensTypeOK, Defined
<1>2. session[local[r].token] \in Sessions /\ owner[session[local[r].token]] = local[r].user
  BY <1>1, FoundRows DEF IssueNext
<1>3. died' \subseteq Sessions
  BY <1>2 DEF IssueNext, RowsInv, TokensTypeOK
<1> QED
  BY <1>1, <1>2, <1>3, RowsIssue DEF IssueNext

LEMMA RowsIssueFirst == ASSUME RowsInv, NEW r \in Calls, IssueFirst(r) PROVE RowsInv'
<1>1. local[r].user \in UserIds /\ email[local[r].user] # Null
  BY DEF IssueFirst, RowsInv, TokensTypeOK, Defined
<1> QED
  BY <1>1, RowsIssue DEF IssueFirst, RowsInv, TokensTypeOK

LEMMA RowsRevoke == ASSUME RowsInv, NEW r \in Calls, Revoke(r) PROVE RowsInv'
<1>1. revoked' \subseteq Issued /\ loggedOut' \subseteq Sessions
  BY FoundRows DEF Revoke, RowsInv, TokensTypeOK
<1> QED
  BY <1>1, RowsReturn DEF Revoke, RowsInv, TokensTypeOK

LEMMA RowsLogoutAll == ASSUME RowsInv, NEW u \in UserIds, LogoutAll(u) PROVE RowsInv'
<1> DEFINE theirs == {t \in Issued : owner[t] = u /\ t \notin revoked}
           ending == {session[t] : t \in theirs}
<1>1. ending \subseteq Sessions
  BY DEF Issued, Sessions, RowsInv, TokensTypeOK, SessionsRooted
<1>2. revoked' = revoked \cup theirs /\ loggedOut' = loggedOut \cup ending
  BY DEF LogoutAll
<1>3. overlapped' \subseteq overlapped \cup ending
  BY DEF LogoutAll
<1> QED
  BY <1>1, <1>2, <1>3, RowsFlags DEF LogoutAll, RowsInv, TokensTypeOK

LEMMA RowsExpire == ASSUME RowsInv, NEW t \in Tokens, Expire(t) PROVE RowsInv'
  BY RowsFlags DEF Expire, history, RowsInv, TokensTypeOK

LEMMA RowsBreak == ASSUME RowsInv, NEW r \in Calls, Break(r) PROVE RowsInv'
<1>1. died' \subseteq Sessions
  BY FoundRows DEF Break, RowsInv, TokensTypeOK
<1> QED
  BY <1>1, RowsReturn DEF Break, tables, RowsInv, TokensTypeOK

LEMMA RowsNext == RowsInv /\ TokensNext => RowsInv'
<1> SUFFICES ASSUME RowsInv, TokensNext PROVE RowsInv'
  OBVIOUS
<1>1. ASSUME NEW r \in Calls, TokensStep(r) PROVE RowsInv'
  BY <1>1, RowsRegister, RowsInsertUser, RowsIssueFirst, RowsFind, RowsRevokeOld,
     RowsIssueNext, RowsRevoke, RowsBreak DEF TokensStep
<1> QED
  BY <1>1, RowsLogoutAll, RowsExpire DEF TokensNext

-----------------------------------------------------------------------------
(* Rotation *)

LEMMA RotationInit == TokensInit => RotationInv /\ NoneEnded
<1> SUFFICES ASSUME TokensInit PROVE RotationInv /\ NoneEnded
  OBVIOUS
<1>1. Sessions = {} /\ loggedOut = {}
  BY TokensAssumption DEF TokensInit, Sessions
<1> QED
  BY <1>1 DEF RotationInv, NoneEnded, OneHolder, HoldersCurrent, OneValidToken, LogoutEnds, Undisturbed

(* A step after which the requests that hold a session are among those     *)
(* before, and no token is valid that was not.                             *)
LEMMA RotationFrame ==
  ASSUME RowsInv, RotationInv, UNCHANGED <<owner, session, loggedOut>>,
         revoked \subseteq revoked', expired \subseteq expired', overlapped \subseteq overlapped',
         \A q \in Calls, s \in Sessions : Holds(q, s)' =>
           Holds(q, s) /\ next'[q] = next[q] /\ local'[q] = local[q]
  PROVE  RotationInv'
<1>1. /\ Sessions' = Sessions /\ Undisturbed' \subseteq Undisturbed
      /\ \A s \in Sessions : TokensOf(s)' = TokensOf(s) /\ TokensOf(s) \subseteq Tokens
      /\ \A t \in Tokens : Valid(t)' => Valid(t)
      /\ Undisturbed' = Sessions \ overlapped'
  BY DEF Sessions, Undisturbed, TokensOf, Valid, Issued
<1> USE DEF RotationInv
<1>2. OneHolder'
  BY <1>1 DEF OneHolder
<1>3. HoldersCurrent'
  <2> SUFFICES ASSUME NEW s \in Undisturbed', NEW q \in Calls, Holds(q, s)'
               PROVE  /\ s \notin loggedOut'
                      /\ \A t \in TokensOf(s)' : Valid(t)' => t = local'[q].token /\ next'[q] # "issueNext"
    BY DEF HoldersCurrent
  <2> QED
    BY <1>1 DEF HoldersCurrent
<1>4. OneValidToken'
  BY <1>1 DEF OneValidToken, Undisturbed
<1>5. LogoutEnds'
  BY <1>1 DEF LogoutEnds, Undisturbed, RowsInv, TokensTypeOK
<1> QED
  BY <1>2, <1>3, <1>4, <1>5

LEMMA RotationReturn ==
  ASSUME RowsInv, RotationInv, NEW r \in Calls, Return(r),
         UNCHANGED <<owner, session, revoked, expired, loggedOut, overlapped>>
  PROVE  RotationInv'
<1>1. next' = [next EXCEPT ![r] = "idle"] /\ local' = [local EXCEPT ![r] = NoContext]
  BY DEF Return, Proceed
<1>2. \A q \in Calls : q # r => next'[q] = next[q] /\ local'[q] = local[q]
  BY <1>1 DEF RowsInv, TokensTypeOK
<1>3. \A s \in Sessions : ~ Holds(r, s)'
  BY <1>1 DEF Holds, RowsInv, TokensTypeOK
<1> QED
  BY <1>2, <1>3, RotationFrame DEF Holds

(* Registrations and logins hold no session.                               *)
LEMMA RotationRegister ==
  ASSUME RowsInv, RotationInv, NEW r \in Calls, RegisterFind(r) \/ Login(r) \/ RegisterInsert(r)
  PROVE  RotationInv'
<1> USE DEF tables, history
<1>1. CASE RegisterInsert(r) /\ Return(r)
  BY <1>1, RotationReturn DEF RegisterInsert
<1>2. CASE RegisterFind(r) \/ Login(r) \/ (RegisterInsert(r) /\ ~ Return(r))
  <2>1. \E step \in {"insertUser", "issueFirst"} : next' = [next EXCEPT ![r] = step]
    BY <1>2 DEF RegisterFind, Login, RegisterInsert, Proceed
  <2>2. \A q \in Calls : q # r => next'[q] = next[q] /\ local'[q] = local[q]
    BY <1>2 DEF RowsInv, TokensTypeOK, RegisterFind, Login, RegisterInsert, Proceed
  <2>3. \A s \in Sessions : ~ Holds(r, s)'
    BY <2>1 DEF Holds, RowsInv, TokensTypeOK
  <2>4. UNCHANGED <<owner, session, revoked, expired, loggedOut, overlapped>>
    BY <1>2 DEF RegisterFind, Login, RegisterInsert
  <2> QED
    BY <2>2, <2>3, <2>4, RotationFrame DEF Holds
<1> QED
  BY <1>1, <1>2

LEMMA RotationBreak == ASSUME RowsInv, RotationInv, NEW r \in Calls, Break(r) PROVE RotationInv'
  BY RotationReturn DEF Break, tables

LEMMA RotationExpire == ASSUME RowsInv, RotationInv, NEW t \in Tokens, Expire(t) PROVE RotationInv'
  BY RotationFrame DEF Expire, calls, history, Holds

(* A request that finds a token of a session another one holds disturbs    *)
(* it; else the token found is the one that is valid.                      *)
LEMMA RotationFind == ASSUME RowsInv, RotationInv, NEW r \in Calls, Find(r) PROVE RotationInv'
<1> USE DEF RotationInv
<1> PICK t \in Tokens, step \in {"revokeOld", "revoke"} :
      /\ FoundValid(t)
      /\ local' = [local EXCEPT ![r].token = t]
      /\ Proceed(r, step)
      /\ overlapped' = overlapped \cup ({session[t]} \cap InUse(r))
  BY DEF Find
<1>1. /\ UNCHANGED <<owner, revoked, expired, session, loggedOut>>
      /\ Sessions' = Sessions /\ Undisturbed' \subseteq Undisturbed
      /\ \A s \in Sessions : TokensOf(s)' = TokensOf(s) /\ TokensOf(s) \subseteq Tokens
      /\ \A n \in Tokens : Valid(n)' <=> Valid(n)
  BY DEF Find, tables, Sessions, Undisturbed, TokensOf, Valid, Issued
<1>2. /\ local'[r].token = t /\ next'[r] = step
      /\ \A q \in Calls : q # r => next'[q] = next[q] /\ local'[q] = local[q]
  BY DEF RowsInv, TokensTypeOK, Context, Proceed
<1>3. \A q \in Calls, s \in Sessions : q # r => (Holds(q, s)' <=> Holds(q, s))
  BY <1>1, <1>2 DEF Holds
<1>4. \A s \in Sessions : Holds(r, s)' <=> s = session[t]
  BY <1>1, <1>2 DEF Holds
<1>5. Valid(t) /\ session[t] \in Sessions /\ t \in TokensOf(session[t])
  BY DEF FoundValid, Valid, Issued, Sessions, TokensOf, RowsInv, TokensTypeOK, SessionsRooted
<1>6. \A q \in Calls : q # r /\ Holds(q, session[t]) => session[t] \in overlapped'
  <2> SUFFICES ASSUME NEW q \in Calls \ {r}, Holds(q, session[t]) PROVE session[t] \in InUse(r)
    OBVIOUS
  <2>1. local[q].token # Null /\ session[local[q].token] = session[t]
    BY FoundRows, TokensAssumption DEF Holds
  <2> QED
    BY <2>1 DEF InUse
<1>7. OneHolder'
  <2> SUFFICES ASSUME NEW s \in Undisturbed', NEW p \in Calls, NEW q \in Calls, Holds(p, s)', Holds(q, s)'
               PROVE  p = q
    BY DEF OneHolder
  <2>1. s \in Sessions /\ s \in Undisturbed /\ s \notin overlapped'
    BY <1>1 DEF Undisturbed
  <2>2. CASE p # r /\ q # r
    BY <2>1, <2>2, <1>3 DEF OneHolder
  <2>3. CASE p = r \/ q = r
    BY <2>1, <2>3, <1>3, <1>4, <1>6
  <2> QED
    BY <2>2, <2>3
<1>8. HoldersCurrent'
  <2> SUFFICES ASSUME NEW s \in Undisturbed', NEW q \in Calls, Holds(q, s)'
               PROVE  /\ s \notin loggedOut
                      /\ \A n \in TokensOf(s) : Valid(n) => n = local'[q].token /\ next'[q] # "issueNext"
    BY <1>1 DEF HoldersCurrent, Undisturbed
  <2>1. s \in Sessions /\ s \in Undisturbed /\ s \notin overlapped
    BY <1>1 DEF Undisturbed
  <2>2. CASE q # r
    BY <2>1, <2>2, <1>2, <1>3 DEF HoldersCurrent
  <2>3. CASE q = r
    <3>1. s = session[t]
      BY <2>1, <2>3, <1>4
    <3>2. s \notin loggedOut
      BY <2>1, <3>1, <1>5 DEF LogoutEnds
    <3>3. \A n \in TokensOf(s) : Valid(n) => n = t
      BY <2>1, <3>1, <1>5 DEF OneValidToken
    <3> QED
      BY <2>3, <3>2, <3>3, <1>2
  <2> QED
    BY <2>2, <2>3
<1>9. OneValidToken' /\ LogoutEnds'
  BY <1>1 DEF OneValidToken, LogoutEnds, Undisturbed, RowsInv, TokensTypeOK
<1> QED
  BY <1>7, <1>8, <1>9

(* Past the revocation no token of the session is valid.                   *)
LEMMA RotationRevokeOld ==
  ASSUME RowsInv, RotationInv, NEW r \in Calls, RevokeOld(r) PROVE RotationInv'
<1> USE DEF RotationInv
<1>1. /\ UNCHANGED <<owner, expired, session, loggedOut, overlapped>>
      /\ Sessions' = Sessions /\ Undisturbed' = Undisturbed
      /\ \A s \in Sessions : TokensOf(s)' = TokensOf(s) /\ TokensOf(s) \subseteq Tokens
      /\ \A n \in Tokens : Valid(n)' <=> Valid(n) /\ n # local[r].token
  BY DEF RevokeOld, history, Sessions, Undisturbed, TokensOf, Valid, Issued
<1>2. /\ next[r] = "revokeOld" /\ next'[r] = "issueNext"
      /\ \A q \in Calls : local'[q].token = local[q].token
      /\ \A q \in Calls : q # r => next'[q] = next[q]
  BY DEF RevokeOld, RowsInv, TokensTypeOK, Context, Proceed
<1>3. \A q \in Calls, s \in Sessions : Holds(q, s)' <=> Holds(q, s)
  BY <1>1, <1>2 DEF Holds
<1>4. OneHolder'
  BY <1>1, <1>3 DEF OneHolder, Undisturbed
<1>5. HoldersCurrent'
  <2> SUFFICES ASSUME NEW s \in Undisturbed', NEW q \in Calls, Holds(q, s)'
               PROVE  /\ s \notin loggedOut
                      /\ \A n \in TokensOf(s) : Valid(n)' => n = local'[q].token /\ next'[q] # "issueNext"
    BY <1>1 DEF HoldersCurrent, Undisturbed
  <2> QED
    BY <1>1, <1>2, <1>3 DEF HoldersCurrent, Undisturbed
<1>6. OneValidToken' /\ LogoutEnds'
  BY <1>1 DEF OneValidToken, LogoutEnds, Undisturbed, RowsInv, TokensTypeOK
<1> QED
  BY <1>4, <1>5, <1>6

(* Nobody else holds the session, and its one valid token is revoked.      *)
LEMMA RotationRevoke ==
  ASSUME RowsInv, RotationInv, NEW r \in Calls, Revoke(r) PROVE RotationInv'
<1> USE DEF RotationInv
<1> DEFINE ended == session[local[r].token]
<1>1. /\ UNCHANGED <<owner, expired, session, overlapped>>
      /\ loggedOut' = loggedOut \cup {ended}
      /\ Sessions' = Sessions /\ Undisturbed' = Undisturbed
      /\ \A s \in Sessions : TokensOf(s)' = TokensOf(s) /\ TokensOf(s) \subseteq Tokens
      /\ \A n \in Tokens : Valid(n)' <=> Valid(n) /\ n # local[r].token
  BY DEF Revoke, Sessions, Undisturbed, TokensOf, Valid, Issued
<1>2. /\ next' = [next EXCEPT ![r] = "idle"] /\ local' = [local EXCEPT ![r] = NoContext]
      /\ next[r] = "revoke" /\ Holds(r, ended)
  BY DEF Revoke, Return, Proceed, Holds
<1>3. \A q \in Calls : q # r => next'[q] = next[q] /\ local'[q] = local[q]
  BY <1>2 DEF RowsInv, TokensTypeOK
<1>4. \A q \in Calls, s \in Undisturbed : Holds(q, s)' => q # r /\ Holds(q, s) /\ s # ended
  <2> SUFFICES ASSUME NEW q \in Calls, NEW s \in Undisturbed, Holds(q, s)'
               PROVE  q # r /\ Holds(q, s) /\ s # ended
    OBVIOUS
  <2>1. q # r
    BY <1>2 DEF Holds, RowsInv, TokensTypeOK
  <2>2. Holds(q, s)
    BY <2>1, <1>1, <1>3 DEF Holds
  <2> QED
    BY <2>1, <2>2, <1>2 DEF OneHolder
<1>5. OneHolder'
  BY <1>1, <1>4 DEF OneHolder
<1>6. HoldersCurrent'
  <2> SUFFICES ASSUME NEW s \in Undisturbed', NEW q \in Calls, Holds(q, s)'
               PROVE  /\ s \notin loggedOut'
                      /\ \A n \in TokensOf(s) : Valid(n)' => n = local'[q].token /\ next'[q] # "issueNext"
    BY <1>1 DEF HoldersCurrent, Undisturbed
  <2> QED
    BY <1>1, <1>3, <1>4 DEF HoldersCurrent, Undisturbed
<1>7. OneValidToken'
  BY <1>1 DEF OneValidToken, Undisturbed
<1>8. LogoutEnds'
  <2> SUFFICES ASSUME NEW s \in loggedOut' \ overlapped, NEW n \in TokensOf(s), Valid(n)' PROVE FALSE
    <3>1. loggedOut' \subseteq Sessions
      BY RowsRevoke DEF RowsInv, TokensTypeOK, Sessions, Revoke
    <3> QED
      BY <1>1, <3>1 DEF LogoutEnds
  <2>1. s = ended
    BY <1>1 DEF LogoutEnds, TokensOf
  <2>2. ended \in Undisturbed
    BY <2>1, <1>2, FoundRows DEF Undisturbed
  <2> QED
    BY <2>1, <2>2, <1>1, <1>2 DEF HoldersCurrent, Undisturbed
<1> QED
  BY <1>5, <1>6, <1>7, <1>8

(* Every unrevoked token of a session is one of its user, and is revoked.  *)
LEMMA RotationLogoutAll ==
  ASSUME RowsInv, RotationInv, NEW u \in UserIds, LogoutAll(u) PROVE RotationInv'
<1> USE DEF RotationInv
<1> DEFINE theirs == {t \in Issued : owner[t] = u /\ t \notin revoked}
           ending == {session[t] : t \in theirs}
<1>1. /\ UNCHANGED <<owner, expired, session, next, local>>
      /\ revoked' = revoked \cup theirs /\ loggedOut' = loggedOut \cup ending
      /\ Sessions' = Sessions /\ Undisturbed' \subseteq Undisturbed
      /\ \A s \in Sessions : TokensOf(s)' = TokensOf(s) /\ TokensOf(s) \subseteq Tokens
      /\ \A n \in Tokens : Valid(n)' <=> Valid(n) /\ n \notin theirs
      /\ overlapped \subseteq overlapped'
  BY DEF LogoutAll, calls, Sessions, Undisturbed, TokensOf, Valid, Issued
<1>2. /\ \A q \in Calls, s \in ending : Holds(q, s) => s \in overlapped'
      /\ \A q \in Calls, s \in Sessions : Holds(q, s)' <=> Holds(q, s)
  <2>1. \A q \in Calls, s \in ending : Holds(q, s) => s \in overlapped'
    <3> SUFFICES ASSUME NEW q \in Calls, NEW s \in ending, Holds(q, s) PROVE s \in overlapped'
      OBVIOUS
    <3>1. local[q].token # Null /\ session[local[q].token] = s
      BY FoundRows, TokensAssumption DEF Holds
    <3> QED
      BY <3>1 DEF LogoutAll
  <2> QED
    BY <2>1, <1>1 DEF Holds
<1>3. \A s \in ending : \A n \in TokensOf(s) : ~ Valid(n)'
  <2> SUFFICES ASSUME NEW t \in theirs, NEW n \in TokensOf(session[t]), n \notin revoked
               PROVE  n \in theirs
    BY <1>1 DEF Valid, TokensOf
  <2>1. owner[session[t]] = u
    BY DEF Issued, RowsInv, TokensTypeOK, SessionsRooted
  <2>2. n \in Tokens /\ session[n] = session[t] /\ session[n] # Null
    BY TokensAssumption DEF TokensOf, Issued, RowsInv, TokensTypeOK
  <2>3. owner[n] = u /\ owner[n] # Null
    BY <2>1, <2>2 DEF RowsInv, TokensTypeOK, SessionsRooted
  <2> QED
    BY <2>2, <2>3 DEF Issued
<1>4. OneHolder'
  BY <1>1, <1>2 DEF OneHolder, Undisturbed
<1>5. HoldersCurrent'
  <2> SUFFICES ASSUME NEW s \in Undisturbed', NEW q \in Calls, Holds(q, s)'
               PROVE  /\ s \notin loggedOut'
                      /\ \A n \in TokensOf(s) : Valid(n)' => n = local[q].token /\ next[q] # "issueNext"
    BY <1>1 DEF HoldersCurrent, Undisturbed
  <2>1. s \in Sessions /\ s \in Undisturbed /\ s \notin overlapped' /\ Holds(q, s)
    BY <1>1, <1>2 DEF Undisturbed
  <2>2. s \notin loggedOut'
    BY <2>1, <1>1, <1>2 DEF HoldersCurrent
  <2> QED
    BY <2>1, <2>2, <1>1 DEF HoldersCurrent
<1>6. OneValidToken'
  BY <1>1 DEF OneValidToken, Undisturbed
<1>7. LogoutEnds'
  <2> SUFFICES ASSUME NEW s \in loggedOut' \ overlapped', NEW n \in TokensOf(s) PROVE ~ Valid(n)'
    <3>1. loggedOut' \subseteq Sessions
      BY RowsLogoutAll, <1>1 DEF RowsInv, TokensTypeOK
    <3> QED
      BY <1>1, <3>1 DEF LogoutEnds
  <2> QED
    BY <1>1, <1>3 DEF LogoutEnds, TokensOf
<1> QED
  BY <1>4, <1>5, <1>6, <1>7

(* The successor of a token that no longer is valid; nobody else holds the *)
(* session.                                                                *)
LEMMA RotationIssueNext ==
  ASSUME RowsInv, RotationInv, NEW r \in Calls, IssueNext(r) PROVE RotationInv'
<1> USE DEF RotationInv
<1> PICK this : this = session[local[r].token]
  OBVIOUS
<1>1. CASE UNCHANGED <<owner, session>>
  BY <1>1, RotationReturn DEF IssueNext
<1>2. ASSUME NEW t \in Tokens \ Issued, owner' = [owner EXCEPT ![t] = local[r].user],
             session' = [session EXCEPT ![t] = IF this = Null THEN t ELSE this]
      PROVE  RotationInv'
  <2>1. /\ this \in Sessions /\ this # Null /\ this # t /\ owner[t] = Null /\ session[t] = Null
        /\ local[r].token \in Tokens
    BY <1>2, FoundRows, TokensAssumption DEF IssueNext, Sessions, Issued, RowsInv, TokensTypeOK
  <2>2. /\ session'[t] = this /\ owner'[t] = local[r].user
        /\ \A n \in Tokens : n # t => session'[n] = session[n] /\ owner'[n] = owner[n]
    BY <1>2, <2>1 DEF RowsInv, TokensTypeOK
  <2>3. /\ Sessions' = Sessions /\ Undisturbed' = Undisturbed
        /\ UNCHANGED <<revoked, expired, loggedOut, overlapped>>
        /\ \A s \in Sessions : TokensOf(s) \subseteq Tokens \ {t}
        /\ \A s \in Sessions \ {this} : TokensOf(s)' = TokensOf(s)
        /\ TokensOf(this)' = TokensOf(this) \cup {t}
        /\ \A n \in Tokens \ {t} : Valid(n)' <=> Valid(n)
    <3>1. Sessions' = Sessions /\ UNCHANGED <<revoked, expired, loggedOut, overlapped>>
      BY <2>1, <2>2, TokensAssumption DEF IssueNext, Sessions
    <3>2. \A s \in Sessions : s # Null /\ TokensOf(s) \subseteq Tokens \ {t}
      BY <2>1, TokensAssumption DEF Sessions, TokensOf
    <3>3. /\ \A s \in Sessions \ {this} : TokensOf(s)' = TokensOf(s)
          /\ TokensOf(this)' = TokensOf(this) \cup {t}
      <4>1. \A n \in Tokens : session'[n] = IF n = t THEN this ELSE session[n]
        BY <2>2
      <4>2. \A s \in Sessions, n \in Tokens :
              n \in TokensOf(s)' <=> n \in TokensOf(s) \/ (n = t /\ s = this)
        BY <4>1, <3>2, <2>1 DEF TokensOf
      <4>3. \A s : TokensOf(s)' \subseteq Tokens /\ TokensOf(s) \subseteq Tokens
        BY DEF TokensOf
      <4>4. \A s \in Sessions \ {this} : TokensOf(s)' = TokensOf(s)
        BY <4>2, <4>3
      <4>5. TokensOf(this)' = TokensOf(this) \cup {t}
        BY <4>2, <4>3, <2>1
      <4> QED
        BY <4>4, <4>5
    <3>4. \A n \in Tokens \ {t} : Valid(n)' <=> Valid(n)
      BY <2>2, <3>1 DEF Valid, Issued
    <3> QED
      BY <3>1, <3>2, <3>3, <3>4 DEF Undisturbed
  <2>4. /\ next' = [next EXCEPT ![r] = "idle"] /\ local' = [local EXCEPT ![r] = NoContext]
        /\ next[r] = "issueNext" /\ Holds(r, this)
    BY DEF IssueNext, Return, Proceed, Holds
  <2>5. \A q \in Calls : q # r => next'[q] = next[q] /\ local'[q] = local[q]
    BY <2>4 DEF RowsInv, TokensTypeOK
  <2>6. \A q \in Calls, s \in Undisturbed : Holds(q, s)' => q # r /\ Holds(q, s) /\ s # this
    <3> SUFFICES ASSUME NEW q \in Calls, NEW s \in Undisturbed, Holds(q, s)'
                 PROVE  q # r /\ Holds(q, s) /\ s # this
      OBVIOUS
    <3>1. q # r
      BY <2>4 DEF Holds, RowsInv, TokensTypeOK
    <3>2. local[q].token \in Tokens /\ local[q].token # t
      BY <3>1, <2>5, <1>2, FoundRows DEF Holds
    <3>3. Holds(q, s)
      BY <3>1, <3>2, <2>2, <2>5 DEF Holds
    <3> QED
      BY <3>1, <3>3, <2>4 DEF OneHolder
  <2>7. this \in Undisturbed =>
          this \notin loggedOut /\ \A n \in TokensOf(this) : ~ Valid(n)
    BY <2>4 DEF HoldersCurrent
  <2>8. OneHolder'
    BY <2>3, <2>6 DEF OneHolder
  <2>9. HoldersCurrent'
    <3> SUFFICES ASSUME NEW s \in Undisturbed', NEW q \in Calls, Holds(q, s)'
                 PROVE  /\ s \notin loggedOut
                        /\ \A n \in TokensOf(s)' : Valid(n)' => n = local'[q].token /\ next'[q] # "issueNext"
      BY <2>3 DEF HoldersCurrent
    <3> QED
      BY <2>3, <2>5, <2>6 DEF HoldersCurrent, Undisturbed
  <2>10. OneValidToken'
    <3> SUFFICES ASSUME NEW s \in Undisturbed, NEW m \in TokensOf(s)', NEW n \in TokensOf(s)',
                        Valid(m)', Valid(n)'
                 PROVE  m = n
      BY <2>3 DEF OneValidToken, Undisturbed
    <3>1. CASE s = this
      <4>1. \A x \in TokensOf(this) : ~ Valid(x)'
        BY <3>1, <2>1, <2>3, <2>7
      <4>2. m \in TokensOf(this) \cup {t} /\ n \in TokensOf(this) \cup {t}
        BY <3>1, <2>3
      <4> QED
        BY <4>1, <4>2
    <3>2. CASE s # this
      BY <3>2, <2>3 DEF OneValidToken, Undisturbed
    <3> QED
      BY <3>1, <3>2
  <2>11. LogoutEnds'
    <3> SUFFICES ASSUME NEW s \in loggedOut \ overlapped, NEW n \in TokensOf(s)' PROVE ~ Valid(n)'
      BY <2>3 DEF LogoutEnds
    <3>1. s \in Undisturbed /\ s # this
      BY <2>7 DEF Undisturbed, RowsInv, TokensTypeOK
    <3> QED
      BY <3>1, <2>3 DEF LogoutEnds, Undisturbed
  <2> QED
    BY <2>8, <2>9, <2>10, <2>11
<1> QED
  BY <1>1, <1>2 DEF IssueNext, Issue

(* A new session has one token, and nobody holds it.                       *)
LEMMA RotationIssueFirst ==
  ASSUME RowsInv, RotationInv, NEW r \in Calls, IssueFirst(r) PROVE RotationInv'
<1> USE DEF RotationInv
<1>1. CASE UNCHANGED <<owner, session>>
  BY <1>1, RotationReturn DEF IssueFirst
<1>2. ASSUME NEW t \in Tokens \ Issued, owner' = [owner EXCEPT ![t] = local[r].user],
             session' = [session EXCEPT ![t] = t]
      PROVE  RotationInv'
  <2>1. owner[t] = Null /\ session[t] = Null /\ t # Null /\ t \notin Sessions
    BY <1>2, TokensAssumption DEF Sessions, Issued, RowsInv, TokensTypeOK
  <2>2. /\ session'[t] = t /\ owner'[t] = local[r].user
        /\ \A n \in Tokens : n # t => session'[n] = session[n] /\ owner'[n] = owner[n]
    BY <1>2 DEF RowsInv, TokensTypeOK
  <2>3. \A n \in Tokens : session[n] # t
    BY <2>1 DEF RowsInv, SessionsRooted
  <2>4. /\ Sessions' = Sessions \cup {t} /\ Undisturbed' = Undisturbed \cup {t}
        /\ UNCHANGED <<revoked, expired, loggedOut, overlapped>>
        /\ \A s \in Sessions : TokensOf(s) \subseteq Tokens \ {t} /\ TokensOf(s)' = TokensOf(s)
        /\ TokensOf(t)' = {t}
        /\ \A n \in Tokens \ {t} : Valid(n)' <=> Valid(n)
        /\ t \notin loggedOut
    <3>1. /\ Sessions' = Sessions \cup {t} /\ UNCHANGED <<revoked, expired, loggedOut, overlapped>>
          /\ TokensOf(t)' = {t}
      BY <2>1, <2>2, <2>3 DEF IssueFirst, Sessions, TokensOf
    <3>2. t \notin loggedOut /\ t \notin overlapped
      BY <2>1 DEF RowsInv, TokensTypeOK
    <3>3. \A s \in Sessions : TokensOf(s) \subseteq Tokens \ {t} /\ TokensOf(s)' = TokensOf(s)
      BY <2>1, <2>2, TokensAssumption DEF Sessions, TokensOf
    <3> QED
      BY <3>1, <3>2, <3>3, <2>2 DEF Undisturbed, Valid, Issued
  <2>5. next' = [next EXCEPT ![r] = "idle"] /\ local' = [local EXCEPT ![r] = NoContext]
    BY DEF IssueFirst, Return, Proceed
  <2>6. \A q \in Calls : q # r => next'[q] = next[q] /\ local'[q] = local[q]
    BY <2>5 DEF RowsInv, TokensTypeOK
  <2>7. \A q \in Calls, s \in Undisturbed' : Holds(q, s)' => q # r /\ Holds(q, s) /\ s # t
    <3> SUFFICES ASSUME NEW q \in Calls, NEW s \in Undisturbed', Holds(q, s)'
                 PROVE  q # r /\ Holds(q, s) /\ s # t
      OBVIOUS
    <3>1. q # r
      BY <2>5 DEF Holds, RowsInv, TokensTypeOK
    <3>2. local[q].token \in Tokens /\ local[q].token # t
      BY <3>1, <2>6, <1>2, FoundRows DEF Holds
    <3>3. Holds(q, s)
      BY <3>1, <3>2, <2>2, <2>6 DEF Holds
    <3> QED
      BY <3>1, <3>2, <3>3, <2>3 DEF Holds
  <2>8. OneHolder'
    BY <2>4, <2>7 DEF OneHolder
  <2>9. HoldersCurrent'
    <3> SUFFICES ASSUME NEW s \in Undisturbed', NEW q \in Calls, Holds(q, s)'
                 PROVE  /\ s \notin loggedOut
                        /\ \A n \in TokensOf(s)' : Valid(n)' => n = local'[q].token /\ next'[q] # "issueNext"
      BY <2>4 DEF HoldersCurrent
    <3> QED
      BY <2>4, <2>6, <2>7 DEF HoldersCurrent, Undisturbed
  <2>10. OneValidToken'
    BY <2>4 DEF OneValidToken, Undisturbed
  <2>11. LogoutEnds'
    BY <2>4 DEF LogoutEnds, RowsInv, TokensTypeOK
  <2> QED
    BY <2>8, <2>9, <2>10, <2>11
<1> QED
  BY <1>1, <1>2 DEF IssueFirst, Issue

LEMMA RotationNext == RowsInv /\ RotationInv /\ TokensNext => RotationInv'
<1> SUFFICES ASSUME RowsInv, RotationInv, TokensNext PROVE RotationInv'
  OBVIOUS
<1>1. ASSUME NEW r \in Calls, TokensStep(r) PROVE RotationInv'
  BY <1>1, RotationRegister, RotationIssueFirst, RotationFind, RotationRevokeOld,
     RotationIssueNext, RotationRevoke, RotationBreak DEF TokensStep
<1> QED
  BY <1>1, RotationLogoutAll, RotationExpire DEF TokensNext

-----------------------------------------------------------------------------
(* The end of sessions *)

(* A step that issues and revokes nothing, and at which no request between *)
(* revocation and issue is lost without a trace.                           *)
LEMMA EndedFrame ==
  ASSUME RowsInv, NoneEnded, UNCHANGED <<session, revoked>>,
         loggedOut \subseteq loggedOut', died \subseteq died',
         \A q \in Calls : next[q] = "issueNext" =>
           \/ next'[q] = "issueNext" /\ local'[q].token = local[q].token
           \/ session[local[q].token] \in died'
  PROVE  NoneEnded'
<1> SUFFICES ASSUME NEW s \in Sessions
             PROVE  \/ \E t \in TokensOf(s) : t \notin revoked
                    \/ s \in loggedOut' \cup died'
                    \/ \E r \in Calls : next'[r] = "issueNext" /\ session[local'[r].token] = s
  BY DEF NoneEnded, Sessions, TokensOf
<1> QED
  BY DEF NoneEnded

LEMMA EndedReturn ==
  ASSUME RowsInv, NoneEnded, NEW r \in Calls, Return(r), UNCHANGED <<session, revoked>>,
         loggedOut \subseteq loggedOut', died \subseteq died',
         next[r] = "issueNext" => session[local[r].token] \in died'
  PROVE  NoneEnded'
<1>1. \A q \in Calls : q # r => next'[q] = next[q] /\ local'[q] = local[q]
  BY DEF Return, Proceed, RowsInv, TokensTypeOK
<1> QED
  BY <1>1, EndedFrame

(* A new token is not revoked.                                             *)
LEMMA EndedNew ==
  ASSUME RowsInv, NoneEnded, NEW r \in Calls, Return(r), UNCHANGED <<revoked, loggedOut, died>>,
         NEW t \in Tokens \ Issued, NEW s \in Sessions \cup {t}, session' = [session EXCEPT ![t] = s],
         next[r] = "issueNext" => session[local[r].token] = s
  PROVE  NoneEnded'
<1>1. session[t] = Null /\ t \notin revoked /\ t \in Tokens /\ s \in Tokens
  BY DEF Issued, Sessions, RowsInv, TokensTypeOK
<1>2. session'[t] = s /\ \A n \in Tokens : n # t => session'[n] = session[n]
  BY DEF RowsInv, TokensTypeOK
<1>3. t \in TokensOf(s)'
  BY <1>1, <1>2 DEF TokensOf
<1>4. \A z \in Sessions' : z # s => z \in Sessions
  BY <1>1, <1>2 DEF Sessions
<1>5. \A z \in Sessions : TokensOf(z) \subseteq TokensOf(z)'
  BY <1>1, <1>2, TokensAssumption DEF Sessions, TokensOf
<1>6. \A q \in Calls : q # r => next'[q] = next[q] /\ local'[q] = local[q]
  BY DEF Return, Proceed, RowsInv, TokensTypeOK
<1>7. \A q \in Calls : next[q] = "issueNext" => local[q].token \in Tokens /\ local[q].token # t
  BY FoundRows
<1> SUFFICES ASSUME NEW z \in Sessions'
             PROVE  \/ \E n \in TokensOf(z)' : n \notin revoked
                    \/ z \in loggedOut \cup died
                    \/ \E q \in Calls : next'[q] = "issueNext" /\ session'[local'[q].token] = z
  BY DEF NoneEnded
<1>8. CASE z = s
  BY <1>8, <1>1, <1>3
<1>9. CASE z # s
  <2>1. z \in Sessions
    BY <1>9, <1>4
  <2>2. CASE \E n \in TokensOf(z) : n \notin revoked
    BY <2>1, <2>2, <1>5
  <2>3. ASSUME NEW q \in Calls, next[q] = "issueNext", session[local[q].token] = z
        PROVE  next'[q] = "issueNext" /\ session'[local'[q].token] = z
    BY <2>3, <1>2, <1>6, <1>7, <1>9
  <2> QED
    BY <2>1, <2>2, <2>3 DEF NoneEnded
<1> QED
  BY <1>8, <1>9

LEMMA EndedIssueFirst ==
  ASSUME RowsInv, NoneEnded, NEW r \in Calls, IssueFirst(r) PROVE NoneEnded'
<1>1. CASE Issued = Tokens
  BY <1>1, EndedReturn DEF IssueFirst, Issue
<1>2. ASSUME NEW t \in Tokens \ Issued, session' = [session EXCEPT ![t] = t]
      PROVE  NoneEnded'
  BY <1>2, EndedNew DEF IssueFirst
<1> QED
  BY <1>1, <1>2 DEF IssueFirst, Issue

LEMMA EndedIssueNext ==
  ASSUME RowsInv, NoneEnded, NEW r \in Calls, IssueNext(r) PROVE NoneEnded'
<1>1. CASE Issued = Tokens
  BY <1>1, EndedReturn DEF IssueNext, Issue
<1>2. ASSUME NEW t \in Tokens \ Issued, Issued # Tokens,
             session' = [session EXCEPT ![t] = session[local[r].token]]
      PROVE  NoneEnded'
  <2>1. session[local[r].token] \in Sessions
    BY FoundRows DEF IssueNext
  <2> QED
    BY <1>2, <2>1, EndedNew DEF IssueNext
<1>3. session[local[r].token] # Null
  BY FoundRows, TokensAssumption DEF IssueNext, Sessions
<1> QED
  BY <1>1, <1>2, <1>3 DEF IssueNext, Issue

(* The request is now between the two statements.                          *)
LEMMA EndedRevokeOld ==
  ASSUME RowsInv, NoneEnded, NEW r \in Calls, RevokeOld(r) PROVE NoneEnded'
<1> DEFINE old == local[r].token
<1>1. /\ revoked' = revoked \cup {old} /\ UNCHANGED <<session, loggedOut, died>>
      /\ next'[r] = "issueNext" /\ local'[r].token = old
  BY DEF RevokeOld, history, Proceed, RowsInv, TokensTypeOK, Context
<1>2. \A q \in Calls : next[q] = "issueNext" =>
        next'[q] = "issueNext" /\ local'[q].token = local[q].token
  BY DEF RevokeOld, Proceed, RowsInv, TokensTypeOK, Context
<1> SUFFICES ASSUME NEW s \in Sessions
             PROVE  \/ \E t \in TokensOf(s) : t \notin revoked'
                    \/ s \in loggedOut \cup died
                    \/ \E q \in Calls : next'[q] = "issueNext" /\ session[local'[q].token] = s
  BY <1>1 DEF NoneEnded, Sessions, TokensOf
<1>3. CASE session[old] = s
  BY <1>1, <1>3
<1>4. CASE session[old] # s
  <2>1. old \notin TokensOf(s)
    BY <1>4 DEF TokensOf
  <2> QED
    BY <2>1, <1>1, <1>2 DEF NoneEnded
<1> QED
  BY <1>3, <1>4

LEMMA EndedRevoke == ASSUME RowsInv, NoneEnded, NEW r \in Calls, Revoke(r) PROVE NoneEnded'
<1> DEFINE old == local[r].token
<1>1. /\ revoked' = revoked \cup {old} /\ loggedOut' = loggedOut \cup {session[old]}
      /\ UNCHANGED <<session, died>>
  BY DEF Revoke
<1>2. \A q \in Calls : next[q] = "issueNext" => next'[q] = next[q] /\ local'[q] = local[q]
  BY DEF Revoke, Return, Proceed, RowsInv, TokensTypeOK
<1> SUFFICES ASSUME NEW s \in Sessions
             PROVE  \/ \E t \in TokensOf(s) : t \notin revoked'
                    \/ s \in loggedOut' \cup died
                    \/ \E q \in Calls : next'[q] = "issueNext" /\ session[local'[q].token] = s
  BY <1>1 DEF NoneEnded, Sessions, TokensOf
<1>3. session[old] # s => old \notin TokensOf(s)
  BY DEF TokensOf
<1> QED
  BY <1>1, <1>2, <1>3 DEF NoneEnded

LEMMA EndedLogoutAll ==
  ASSUME RowsInv, NoneEnded, NEW u \in UserIds, LogoutAll(u) PROVE NoneEnded'
<1> DEFINE theirs == {t \in Issued : owner[t] = u /\ t \notin revoked}
           ending == {session[t] : t \in theirs}
<1>1. /\ revoked' = revoked \cup theirs /\ loggedOut' = loggedOut \cup ending
      /\ UNCHANGED <<session, died, next, local>>
  BY DEF LogoutAll, calls
<1> SUFFICES ASSUME NEW s \in Sessions
             PROVE  \/ \E t \in TokensOf(s) : t \notin revoked'
                    \/ s \in loggedOut' \cup died
                    \/ \E q \in Calls : next[q] = "issueNext" /\ session[local[q].token] = s
  BY <1>1 DEF NoneEnded, Sessions, TokensOf
<1>2. s \notin ending => \A t \in TokensOf(s) : t \notin theirs
  BY DEF TokensOf
<1> QED
  BY <1>1, <1>2 DEF NoneEnded

(* Steps of sessions that are not between the two statements.              *)
LEMMA EndedElse ==
  ASSUME RowsInv, NoneEnded, NEW r \in Calls,
         RegisterFind(r) \/ RegisterInsert(r) \/ Login(r) \/ Find(r)
  PROVE  NoneEnded'
<1>1. UNCHANGED <<session, revoked, loggedOut, died>>
  BY DEF RegisterFind, RegisterInsert, Login, Find, tables, history
<1>2. \A q \in Calls : next[q] = "issueNext" => next'[q] = next[q] /\ local'[q] = local[q]
  BY DEF RegisterFind, RegisterInsert, Login, Find, Return, Proceed, RowsInv, TokensTypeOK
<1> QED
  BY <1>1, <1>2, EndedFrame

LEMMA EndedNext == RowsInv /\ NoneEnded /\ TokensNext => NoneEnded'
<1> SUFFICES ASSUME RowsInv, NoneEnded, TokensNext PROVE NoneEnded'
  OBVIOUS
<1>1. ASSUME NEW r \in Calls, Break(r) PROVE NoneEnded'
  BY <1>1, EndedReturn DEF Break, tables
<1>2. ASSUME NEW t \in Tokens, Expire(t) PROVE NoneEnded'
  BY <1>2, EndedFrame DEF Expire, calls, history
<1>3. ASSUME NEW r \in Calls, TokensStep(r) PROVE NoneEnded'
  BY <1>1, <1>3, EndedElse, EndedIssueFirst, EndedIssueNext, EndedRevokeOld, EndedRevoke
     DEF TokensStep
<1> QED
  BY <1>2, <1>3, EndedLogoutAll DEF TokensNext

-----------------------------------------------------------------------------

LEMMA SessionsNext == SessionsIInv /\ [TokensNext]_tokenVars => SessionsIInv'
<1> SUFFICES ASSUME SessionsIInv, [TokensNext]_tokenVars PROVE SessionsIInv'
  OBVIOUS
<1>1. CASE TokensNext
  BY <1>1, RowsNext, RotationNext, EndedNext DEF SessionsIInv
<1>2. CASE UNCHANGED tokenVars
  <2> USE <1>2 DEF tokenVars, tables, calls, history
  <2>1. RowsInv'
    BY DEF SessionsIInv, RowsInv, TokensTypeOK, SessionsRooted, OwnersStay, Defined, Issued, Sessions
  <2>2. RotationInv'
    BY RotationFrame DEF SessionsIInv, Holds
  <2>3. NoneEnded'
    BY EndedFrame DEF SessionsIInv
  <2> QED
    BY <2>1, <2>2, <2>3 DEF SessionsIInv
<1> QED
  BY <1>1, <1>2

(* The inductive invariant of the sessions.                                *)
THEOREM SessionsInvariance == TokensSpec => []SessionsIInv
<1>1. TokensInit => SessionsIInv
  BY RowsInit, RotationInit DEF SessionsIInv
<1> QED
  BY <1>1, SessionsNext, PTL DEF TokensSpec

(* refresh (auth.service.ts:60): whatever the number of tokens, a session  *)
(* none of whose requests overlapped has at most one valid token.          *)
THEOREM RotationHolds == TokensSpec => []OneValidToken
<1>1. SessionsIInv => OneValidToken
  BY DEF SessionsIInv, RotationInv
<1> QED
  BY <1>1, SessionsInvariance, PTL

(* logout and logoutAll: no token of such a session is valid ever after.   *)
THEOREM LogoutIsFinal == TokensSpec => []LogoutEnds
<1>1. SessionsIInv => LogoutEnds
  BY DEF SessionsIInv, RotationInv
<1> QED
  BY <1>1, SessionsInvariance, PTL

(* A session that cannot go on was logged out, expired, or lost its        *)
(* refresh between the two statements.                                     *)
THEOREM NobodyLoggedOut == TokensSpec => []EndedForAReason
<1>1. SessionsIInv => EndedForAReason
  <2> SUFFICES ASSUME SessionsIInv, NEW s \in Sessions, NEW t \in TokensOf(s), t \notin revoked
               PROVE  Valid(t) \/ t \in expired \ revoked
    BY DEF SessionsIInv, NoneEnded, EndedForAReason
  <2>1. t \in Issued
    BY TokensAssumption DEF SessionsIInv, RowsInv, TokensTypeOK, Sessions, TokensOf, Issued
  <2> QED
    BY <2>1 DEF Valid
<1> QED
  BY <1>1, SessionsInvariance, PTL

-----------------------------------------------------------------------------
(***************************************************************************)
(* Side by side, sessions and memberships are what each of them is alone.  *)
(***************************************************************************)

LEMMA AccountsParts == AccountsSpec => TokensSpec /\ MemberSpec
<1>1. AccountsInit => TokensInit /\ MemberInit
  BY DEF AccountsInit
<1>2. [AccountsNext]_<<part, tokenVars, memberVars>> =>
        [TokensNext]_tokenVars /\ [MemberNext]_memberVars
  BY DEF AccountsNext
<1> QED
  BY <1>1, <1>2, PTL DEF AccountsSpec, TokensSpec, MemberSpec

(* No request, whatever runs with it, leaves a column or a local of either *)
(* part with a value of another type, or an e-mail with two accounts.      *)
THEOREM AccountsTypeCorrect == AccountsSpec => []AccountsTypeOK
<1>1. SessionsIInv => TokensTypeOK
  BY DEF SessionsIInv, RowsInv
<1> QED
  BY <1>1, AccountsParts, SessionsInvariance, MemberTypeCorrect, PTL DEF AccountsTypeOK

=============================================================================
