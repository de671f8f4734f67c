--------------------------- MODULE RefreshTokens ---------------------------
(***************************************************************************)
(* Accounts and sessions: UsersService.create, and the refresh tokens that *)
(* AuthService issues, rotates and revokes.  A request is one action per   *)
(* statement and requests interleave.  A session is what one registration  *)
(* or login started: its first refresh token and those that replaced it.   *)
(*                                                                         *)
(* The hash of a token is as good as the token, so tokens stand for both;  *)
(* clients may present any token that was ever issued.  Access tokens are  *)
(* signed, not stored, and users are never deleted, so signAsync and       *)
(* findById only take time, and are part of the step that follows them.    *)
(* A login with a wrong password changes nothing and is not started.       *)
(***************************************************************************)
CONSTANTS UserIds, Emails,
          Tokens,    \* bound: the refresh tokens that can be issued
          Calls,     \* requests the server can have in flight
          Null

ASSUME TokensAssumption == Null \notin UserIds \cup Emails \cup Tokens

VARIABLES email,       \* column email of users; Null for an id not handed out
          owner,       \* column userId of refresh_tokens; Null if not issued
          revoked,     \* the tokens whose column revoked is true
          expired,     \* those whose expiresAt has passed
          next,        \* the statement each request executes next
          local,       \* its local variables
          session,     \* history: the token a token's session began with
          loggedOut,   \* history: sessions a logout revoked a token of
          died,        \* history: sessions a refresh died in between
          overlapped   \* history: sessions with two requests at a time

tables   == <<email, owner, revoked, expired>>
calls    == <<next, local>>
history  == <<session, loggedOut, died, overlapped>>
tokenVars == <<tables, calls, history>>

Issued     == {t \in Tokens : owner[t] # Null}
Sessions   == {s \in Tokens : session[s] = s}
TokensOf(s) == {t \in Tokens : session[t] = s}

(* The token can still be exchanged for the next one. *)
Valid(t) == t \in Issued \ (revoked \cup expired)

(* Mutant: findValid without revoked: false. *)
FoundUnexpired(t) == t \in Issued \ expired

(* findValid returns the token. *)
FoundValid(t) == t \in Issued /\ t \notin revoked /\ t \notin expired

(***************************************************************************)
(* email   of a registration                                               *)
(* user    the account a token is to be issued for                         *)
(* token   the token a refresh or logout found valid                       *)
(***************************************************************************)
Context == [email : Emails \cup {Null}, user : UserIds \cup {Null}, token : Tokens \cup {Null}]

NoContext == [email |-> Null, user |-> Null, token |-> Null]

Steps == {"idle", "insertUser", "issueFirst", "revokeOld", "issueNext", "revoke"}

(* The locals statement s uses are there, and the rows they refer to. *)
Defined(s, c) ==
  /\ s = "insertUser" => c.email \in Emails
  /\ s \in {"issueFirst", "issueNext"} => c.user \in UserIds /\ email[c.user] # Null
  /\ s \in {"revokeOld", "issueNext", "revoke"} => c.token \in Issued
  /\ s = "issueNext" => owner[c.token] = c.user

(* Also when two registrations both find an e-mail free it has one account *)
(* ("the DB will also enforce it", users.service.ts:30).                   *)
TokensTypeOK ==
  /\ email \in [UserIds -> Emails \cup {Null}]
  /\ \A u, v \in UserIds : email[u] # Null /\ email[u] = email[v] => u = v
  /\ owner \in [Tokens -> UserIds \cup {Null}]
  /\ session \in [Tokens -> Tokens \cup {Null}]
  /\ \A t \in Tokens : owner[t] # Null <=> session[t] # Null
  /\ revoked \subseteq Issued /\ expired \subseteq Issued
  /\ next \in [Calls -> Steps]
  /\ local \in [Calls -> Context]
  /\ \A r \in Calls : Defined(next[r], local[r])
  /\ loggedOut \subseteq Sessions /\ died \subseteq Sessions /\ overlapped \subseteq Sessions

TokensInit ==
  /\ email = [u \in UserIds |-> Null]
  /\ owner = [t \in Tokens |-> Null]
  /\ revoked = {} /\ expired = {}
  /\ next = [r \in Calls |-> "idle"]
  /\ local = [r \in Calls |-> NoContext]
  /\ session = [t \in Tokens |-> Null]
  /\ loggedOut = {} /\ died = {} /\ overlapped = {}

-----------------------------------------------------------------------------

Proceed(r, step) == next' = [next EXCEPT ![r] = step]

(* The handler returns or throws; its local variables are gone. *)
Return(r) == Proceed(r, "idle") /\ local' = [local EXCEPT ![r] = NoContext]

(* The sessions other requests than r have found a token of. *)
InUse(r) == {session[local[q].token] : q \in {p \in Calls \ {r} : local[p].token # Null}}

(***************************************************************************)
(* issue: the INSERT of a token of u that continues session s, or starts   *)
(* one if s is Null.  Tokens bounds them: afterwards the INSERT fails.     *)
(***************************************************************************)
Issue(u, s) ==
  IF Issued = Tokens THEN UNCHANGED <<owner, session>>
  ELSE \E t \in Tokens \ Issued :
         /\ owner' = [owner EXCEPT ![t] = u]
         /\ session' = [session EXCEPT ![t] = IF s = Null THEN t ELSE s]

-----------------------------------------------------------------------------
(* POST auth/register and auth/login *)

(* UsersService.create: no account has the e-mail; then it is hashed. *)
RegisterFind(r) ==
  /\ next[r] = "idle"
  /\ \E e \in Emails :
       /\ \A u \in UserIds : email[u] # e
       /\ local' = [local EXCEPT ![r].email = e]
  /\ Proceed(r, "insertUser")
  /\ UNCHANGED <<tables, history>>

(* Mutant: no unique index on the e-mail, only the check before. *)
EmailNotIndexed(e) == TRUE

EmailFree(e) == \A u \in UserIds : email[u] # e

RegisterInsert(r) ==
  /\ next[r] = "insertUser"
  /\ LET e     == local[r].email
         fresh == {u \in UserIds : email[u] = Null}
     IN  IF EmailFree(e) /\ fresh # {}
         THEN \E u \in fresh :
                /\ email' = [email EXCEPT ![u] = e]
                /\ local' = [local EXCEPT ![r].user = u]
                /\ Proceed(r, "issueFirst")
         ELSE Return(r) /\ UNCHANGED email
  /\ UNCHANGED <<owner, revoked, expired, history>>

(* findByEmail and the right password. *)
Login(r) ==
  /\ next[r] = "idle"
  /\ \E u \in UserIds :
       /\ email[u] # Null
       /\ local' = [local EXCEPT ![r].user = u]
  /\ Proceed(r, "issueFirst")
  /\ UNCHANGED <<tables, history>>

IssueFirst(r) ==
  /\ next[r] = "issueFirst"
  /\ Issue(local[r].user, Null)
  /\ Return(r)
  /\ UNCHANGED <<email, revoked, expired, loggedOut, died, overlapped>>

-----------------------------------------------------------------------------
(* POST auth/refresh and auth/logout *)

(* findValid, by a refresh or by a logout. *)
Find(r) ==
  /\ next[r] = "idle"
  /\ \E t \in Tokens, step \in {"revokeOld", "revoke"} :
       /\ FoundValid(t)
       /\ local' = [local EXCEPT ![r].token = t]
       /\ Proceed(r, step)
       /\ overlapped' = overlapped \cup ({session[t]} \cap InUse(r))
  /\ UNCHANGED <<tables, session, loggedOut, died>>

(* Mutant: refresh uses revokeAllForUser. *)
RevokeOldAll(r) ==
  /\ next[r] = "revokeOld"
  /\ LET u == owner[local[r].token]
     IN  /\ revoked' = revoked \cup {t \in Tokens : owner[t] = u}
         /\ local' = [local EXCEPT ![r].user = u]
  /\ Proceed(r, "issueNext")
  /\ UNCHANGED <<email, owner, expired, history>>

(* Mutant: the old token is not revoked. *)
RevokeOldNot(r) ==
  /\ next[r] = "revokeOld"
  /\ local' = [local EXCEPT ![r].user = owner[local[r].token]]
  /\ Proceed(r, "issueNext")
  /\ UNCHANGED <<tables, history>>

(* revoke(stored.id), and findById of its user. *)
RevokeOld(r) ==
  /\ next[r] = "revokeOld"
  /\ revoked' = revoked \cup {local[r].token}
  /\ local' = [local EXCEPT ![r].user = owner[local[r].token]]
  /\ Proceed(r, "issueNext")
  /\ UNCHANGED <<email, owner, expired, history>>

IssueNext(r) ==
  /\ next[r] = "issueNext"
  /\ Issue(local[r].user, session[local[r].token])
  /\ died' = IF Issued = Tokens THEN died \cup {session[local[r].token]} ELSE died
  /\ Return(r)
  /\ UNCHANGED <<email, revoked, expired, loggedOut, overlapped>>

(* Logout of the token found. *)
Revoke(r) ==
  /\ next[r] = "revoke"
  /\ revoked' = revoked \cup {local[r].token}
  /\ loggedOut' = loggedOut \cup {session[local[r].token]}
  /\ Return(r)
  /\ UNCHANGED <<email, owner, expired, session, died, overlapped>>

(* logoutAll, which the service offers and no route calls yet. *)
LogoutAll(u) ==
  LET theirs == {t \in Issued : owner[t] = u /\ t \notin revoked}
      ending == {session[t] : t \in theirs}
  IN  /\ theirs # {}
      /\ revoked' = revoked \cup theirs
      /\ loggedOut' = loggedOut \cup ending
      /\ overlapped' = overlapped \cup
           (ending \cap {session[local[q].token] : q \in {p \in Calls : local[p].token # Null}})
      /\ UNCHANGED <<email, owner, expired, calls, session, died>>

(* The token's expiresAt passes. *)
Expire(t) ==
  /\ t \in Issued \ expired
  /\ expired' = expired \cup {t}
  /\ UNCHANGED <<email, owner, revoked, calls, history>>

(* Any await rejects, or the process dies. *)
Break(r) ==
  /\ next[r] # "idle"
  /\ died' = IF next[r] = "issueNext" THEN died \cup {session[local[r].token]} ELSE died
  /\ Return(r)
  /\ UNCHANGED <<tables, session, loggedOut, overlapped>>

TokensStep(r) ==
  \/ RegisterFind(r) \/ RegisterInsert(r) \/ Login(r) \/ IssueFirst(r)
  \/ Find(r) \/ RevokeOld(r) \/ IssueNext(r) \/ Revoke(r)
  \/ Break(r)

TokensNext ==
  \/ \E r \in Calls : TokensStep(r)
  \/ \E u \in UserIds : LogoutAll(u)
  \/ \E t \in Tokens : Expire(t)

TokensSpec == TokensInit /\ [][TokensNext]_tokenVars

-----------------------------------------------------------------------------

(***************************************************************************)
(* Rotation: a session has at most one token that refreshes it, unless two *)
(* requests of the session were on their way at the same time.  (Two       *)
(* refreshes that both find a token valid both get a successor.)           *)
(***************************************************************************)
OneValidToken ==
  \A s \in Sessions \ overlapped :
    \A t, n \in TokensOf(s) : Valid(t) /\ Valid(n) => t = n

(***************************************************************************)
(* Logout is final: once logout or logoutAll revoked a token of a session, *)
(* no token of it is ever valid again, with the same exception.  (A        *)
(* refresh under way issues its token after the logout.)                   *)
(***************************************************************************)
LogoutEnds ==
  \A s \in loggedOut \ overlapped : \A t \in TokensOf(s) : ~ Valid(t)

(***************************************************************************)
(* Nobody is logged out without a reason: a session without a valid token  *)
(* was logged out or left to expire, or a refresh has revoked the old      *)
(* token and has yet to store the new one, or died right there.  Other     *)
(* sessions of the user, and overlapping requests, do not end it.          *)
(***************************************************************************)
EndedForAReason ==
  \A s \in Sessions :
    \/ \E t \in TokensOf(s) : Valid(t) \/ t \in expired \ revoked
    \/ s \in loggedOut \cup died
    \/ \E r \in Calls : next[r] = "issueNext" /\ session[local[r].token] = s

=============================================================================
