------------------------------ MODULE Comments ------------------------------
(***************************************************************************)
(* CommentsService: comments on tasks, replies to them, and the job it     *)
(* queues for every mention of a user in the body of a new comment.  As in *)
(* TaskTree a request is one action per statement, requests interleave at  *)
(* each, save is a SELECT followed by an UPDATE or an INSERT, and a        *)
(* deleted row keeps its columns here.  Tasks come and go as TaskTree lets *)
(* them: they are deleted, and a stale save may bring one back.            *)
(*                                                                         *)
(* Callers are authenticated members; a request whose first query finds    *)
(* nothing, or that is not the author's, changes nothing and is not        *)
(* started.  The body is left out of the rows: only create looks into it.  *)
(***************************************************************************)
EXTENDS Naturals, Sequences, FiniteSetsExt

CONSTANTS CommentIds,  \* ids the database can hand out
          Tasks, Users,
          Null,        \* no parent comment
          Requests,    \* requests the server can have in flight
          Spellings,   \* upper and lower case of a user id
          Canonical,   \* how the database spells it
          Bodies,      \* the mentions of a body, in order
          MaxLost      \* bound: creates that die after the INSERT

Mentions == [user : Users, spelling : Spellings]

ASSUME CommentsAssumption ==
  /\ Null \notin CommentIds \cup Tasks
  /\ Canonical \in Spellings
  /\ Bodies \subseteq Seq(Mentions)
  /\ MaxLost \in Nat

VARIABLES tasks,     \* the tasks that exist
          comments,  \* ids of the rows in table comments
          task,      \* column taskId; Null for an id not yet handed out
          parent,    \* column parentCommentId
          author,    \* column authorId
          pc,        \* the statement each request executes next
          ctx,       \* its local variables
          logged,    \* the comments with a COMMENT_ADDED activity
          jobs,      \* the mentions queued: comment and place in the body
          posted,    \* history: the body each comment was created with
          lost       \* history: comments whose create died after the INSERT

rows  == <<comments, task, parent, author>>
told  == <<logged, jobs, posted, lost>>
vars  == <<tasks, rows, pc, ctx, told>>

(* Comments and replies are a forest with one level below the roots. *)
Threads == INSTANCE Forest WITH MaxDepth <- 1

CreateSteps == {"findParent", "insert", "record", "mention"}
EditSteps   == {"editSelect", "editWrite"}

(***************************************************************************)
(* user     the caller                                                     *)
(* on, to   taskId and parentCommentId of a comment to be created          *)
(* id       the comment, once there is one                                 *)
(* body     the mentions in the dto, of which todo are still to be queued  *)
(* found    whether save's SELECT returned the row                         *)
(***************************************************************************)
Context == [user : Users \cup {Null}, on : Tasks \cup {Null}, to : CommentIds \cup {Null},
            id : CommentIds \cup {Null}, body : Bodies \cup {<<>>}, todo : SUBSET Nat,
            found : BOOLEAN]

NoContext == [user |-> Null, on |-> Null, to |-> Null, id |-> Null, body |-> <<>>,
              todo |-> {}, found |-> FALSE]

(* The locals statement s uses are there. *)
Defined(s, c) ==
  /\ s # "idle" => c.user \in Users
  /\ s \in CreateSteps => c.on \in Tasks
  /\ s = "findParent" => c.to \in CommentIds
  /\ s = "mention" => c.todo # {}
  /\ s \in {"record", "mention", "delete"} \cup EditSteps =>
       c.id \in CommentIds /\ task[c.id] # Null /\ author[c.id] = c.user

CommentsTypeOK ==
  /\ tasks \subseteq Tasks /\ comments \subseteq CommentIds
  /\ task \in [CommentIds -> Tasks \cup {Null}]
  /\ parent \in [CommentIds -> CommentIds \cup {Null}]
  /\ author \in [CommentIds -> Users \cup {Null}]
  /\ pc \in [Requests -> {"idle", "delete"} \cup CreateSteps \cup EditSteps]
  /\ ctx \in [Requests -> Context]
  /\ \A r \in Requests : Defined(pc[r], ctx[r])
  /\ logged \subseteq CommentIds /\ lost \subseteq CommentIds
  /\ jobs \subseteq CommentIds \X Nat
  /\ posted \in [CommentIds -> Bodies \cup {<<>>}]

CommentsInit ==
  /\ tasks = Tasks /\ comments = {}
  /\ task = [c \in CommentIds |-> Null]
  /\ parent = [c \in CommentIds |-> Null]
  /\ author = [c \in CommentIds |-> Null]
  /\ pc = [r \in Requests |-> "idle"]
  /\ ctx = [r \in Requests |-> NoContext]
  /\ logged = {} /\ jobs = {} /\ lost = {}
  /\ posted = [c \in CommentIds |-> <<>>]

-----------------------------------------------------------------------------

Goto(r, step) == pc' = [pc EXCEPT ![r] = step]

(* The handler returns or throws; its local variables are gone. *)
Reply(r) == Goto(r, "idle") /\ ctx' = [ctx EXCEPT ![r] = NoContext]

(* The foreign keys a written row must satisfy; users are never deleted. *)
ForeignKeysHold(on, to) == on \in tasks /\ to \in comments \cup {Null}

-----------------------------------------------------------------------------
(* POST comments: create *)

(* A client can only know ids that were handed out. *)
CreateStart(r) ==
  /\ pc[r] = "idle"
  /\ \E u \in Users, t \in tasks, b \in Bodies,
        q \in {c \in CommentIds : task[c] # Null} \cup {Null} :
       /\ ctx' = [ctx EXCEPT ![r] =
                    [NoContext EXCEPT !.user = u, !.on = t, !.to = q, !.body = b]]
       /\ Goto(r, IF q = Null THEN "insert" ELSE "findParent")
  /\ UNCHANGED <<tasks, rows, told>>

(* Mutant: replies to replies are let through. *)
MayReplyToReply(c) == c.to \in comments /\ task[c.to] = c.on

(* The parent is a comment on the same task, and no reply itself. *)
MayReply(c) == c.to \in comments /\ task[c.to] = c.on /\ parent[c.to] = Null

FindParent(r) ==
  /\ pc[r] = "findParent"
  /\ IF MayReply(ctx[r]) THEN Goto(r, "insert") /\ UNCHANGED ctx ELSE Reply(r)
  /\ UNCHANGED <<tasks, rows, told>>

(* Mutant: a key of a deleted row is handed out again. *)
ReusedIds == CommentIds \ comments

(* uuid_generate_v4(); an INSERT fails when the bounded ids are used up. *)
FreshIds == {c \in CommentIds : task[c] = Null}

Insert(r) ==
  /\ pc[r] = "insert"
  /\ LET c == ctx[r]
     IN  IF ForeignKeysHold(c.on, c.to) /\ FreshIds # {}
         THEN \E id \in FreshIds :
                /\ comments' = comments \cup {id}
                /\ task' = [task EXCEPT ![id] = c.on]
                /\ parent' = [parent EXCEPT ![id] = c.to]
                /\ author' = [author EXCEPT ![id] = c.user]
                /\ posted' = [posted EXCEPT ![id] = c.body]
                /\ ctx' = [ctx EXCEPT ![r].id = id]
                /\ Goto(r, "record")
         ELSE Reply(r) /\ UNCHANGED <<rows, posted>>
  /\ UNCHANGED <<tasks, logged, jobs, lost>>

(* Mutant: matches.map, without the Set. *)
AllPlaces(body) == DOMAIN body

(***************************************************************************)
(* extractMentionedUserIds: the Set keeps the first of equal strings.  The *)
(* pattern matches both cases, and an id in two cases is two strings.      *)
(***************************************************************************)
FirstPlaces(body) == {i \in DOMAIN body : \A j \in 1 .. i - 1 : body[j] # body[i]}

(* The places the loop queues a job for: mentionedUserId !== authorId. *)
ToNotify(c) ==
  {i \in FirstPlaces(c.body) : c.body[i] # [user |-> c.user, spelling |-> Canonical]}

(* The handler returns after the last job. *)
NextMention(r, todo) ==
  IF todo = {} THEN Reply(r)
  ELSE Goto(r, "mention") /\ ctx' = [ctx EXCEPT ![r].todo = todo]

Record(r) ==
  /\ pc[r] = "record"
  /\ logged' = logged \cup {ctx[r].id}
  /\ NextMention(r, ToNotify(ctx[r]))
  /\ UNCHANGED <<tasks, rows, jobs, posted, lost>>

(* One queue.add per turn of the loop. *)
Mention(r) ==
  /\ pc[r] = "mention"
  /\ LET i == Min(ctx[r].todo)
     IN  /\ jobs' = jobs \cup {<<ctx[r].id, i>>}
         /\ NextMention(r, ctx[r].todo \ {i})
  /\ UNCHANGED <<tasks, rows, logged, posted, lost>>

-----------------------------------------------------------------------------
(* PATCH and DELETE comments/:id: update and remove *)

(* Mutant: anybody may edit or delete. *)
MayChangeAny(u, c) == c \in comments

(* findOne, and the check that the caller is the author. *)
MayChange(u, c) == c \in comments /\ author[c] = u

ChangeStart(r) ==
  /\ pc[r] = "idle"
  /\ \E u \in Users, c \in CommentIds, step \in {"editSelect", "delete"} :
       /\ MayChange(u, c)
       /\ ctx' = [ctx EXCEPT ![r] = [NoContext EXCEPT !.user = u, !.id = c]]
       /\ Goto(r, step)
  /\ UNCHANGED <<tasks, rows, told>>

EditSelect(r) ==
  /\ pc[r] = "editSelect"
  /\ ctx' = [ctx EXCEPT ![r].found = ctx[r].id \in comments]
  /\ Goto(r, "editWrite")
  /\ UNCHANGED <<tasks, rows, told>>

(* An UPDATE of the body, or an INSERT of the comment as it was read. *)
EditWrite(r) ==
  /\ pc[r] = "editWrite"
  /\ LET id == ctx[r].id
     IN  comments' = IF ~ ctx[r].found /\ ForeignKeysHold(task[id], parent[id])
                     THEN comments \cup {id} ELSE comments
  /\ Reply(r)
  /\ UNCHANGED <<tasks, task, parent, author, told>>

(* The rows ON DELETE CASCADE removes with those of D. *)
Cascade(D) == Threads!Descendants(comments, parent, D \cap comments)

Delete(r) ==
  /\ pc[r] = "delete"
  /\ comments' = comments \ Cascade({ctx[r].id})
  /\ Reply(r)
  /\ UNCHANGED <<tasks, task, parent, author, told>>

(* Any await rejects, or the process dies. *)
Abort(r) ==
  /\ pc[r] # "idle"
  /\ Reply(r)
  /\ IF pc[r] \in {"record", "mention"}
     THEN Cardinality(lost) < MaxLost /\ lost' = lost \cup {ctx[r].id}
     ELSE UNCHANGED lost
  /\ UNCHANGED <<tasks, rows, logged, jobs, posted>>

-----------------------------------------------------------------------------
(* Tasks, as TaskTree deletes and restores them *)

RemoveTask(t) ==
  /\ t \in tasks
  /\ tasks' = tasks \ {t}
  /\ comments' = comments \ Cascade({c \in CommentIds : task[c] = t})
  /\ UNCHANGED <<task, parent, author, pc, ctx, told>>

RestoreTask(t) ==
  /\ t \notin tasks
  /\ tasks' = tasks \cup {t}
  /\ UNCHANGED <<rows, pc, ctx, told>>

CommentsStep(r) ==
  \/ CreateStart(r) \/ FindParent(r) \/ Insert(r) \/ Record(r) \/ Mention(r)
  \/ ChangeStart(r) \/ EditSelect(r) \/ EditWrite(r) \/ Delete(r)
  \/ Abort(r)

CommentsNext ==
  \/ \E r \in Requests : CommentsStep(r)
  \/ \E t \in Tasks : RemoveTask(t) \/ RestoreTask(t)

CommentsSpec == CommentsInit /\ [][CommentsNext]_vars

-----------------------------------------------------------------------------

(***************************************************************************)
(* "One level deep" (comments.service.ts:65) under every interleaving: a   *)
(* comment is on a task that exists, and a reply answers a comment that    *)
(* exists, is on the same task and is no reply.  The parent may be deleted *)
(* after the check, and an edit may bring back a comment whose thread or   *)
(* task is gone; the foreign keys stop both.                               *)
(***************************************************************************)
OneLevelDeep ==
  \A c \in comments :
    /\ task[c] \in tasks
    /\ parent[c] # Null => /\ parent[c] \in comments
                           /\ parent[parent[c]] = Null
                           /\ task[parent[c]] = task[c]

(***************************************************************************)
(* A comment goes only by a DELETE of its author, or with the comment it   *)
(* answers, or with its task: nobody else's request takes it away, also    *)
(* when it was deleted and brought back in between.                        *)
(***************************************************************************)
TakenAwayByAuthor ==
  [][\A c \in comments \ comments' :
       \/ task[c] \notin tasks'
       \/ \E r \in Requests, d \in {c, parent[c]} :
            pc[r] = "delete" /\ ctx[r].id = d /\ author[d] = ctx[r].user]_vars

(* The create request of c is past its INSERT. *)
Creating(c) == \E r \in Requests : pc[r] \in {"record", "mention"} /\ ctx[r].id = c

(***************************************************************************)
(* A mention is told once: equal mentions of a comment queue one job, none *)
(* is left out unless create died, and authors are not told of themselves  *)
(* (as long as they spell their id as the database does).  Nobody is told  *)
(* of a comment the activity log does not know, and the log misses one     *)
(* only while create is at it, or after it died.  Whatever happens to the  *)
(* comment, its parent or its task in the meantime.                        *)
(***************************************************************************)
MentionedOnce ==
  \A c \in CommentIds :
    LET queued(m) == {i \in DOMAIN posted[c] : posted[c][i] = m /\ <<c, i>> \in jobs}
        named     == {posted[c][i] : i \in DOMAIN posted[c]}
        self      == [user |-> author[c], spelling |-> Canonical]
    IN  /\ task[c] # Null => c \in logged \/ Creating(c) \/ c \in lost
        /\ \A m \in named :
             /\ Cardinality(queued(m)) <= IF m = self THEN 0 ELSE 1
             /\ queued(m) # {} => c \in logged
             /\ queued(m) = {} => m = self \/ Creating(c) \/ c \in lost

(***************************************************************************)
(* "Same user mentioned twice still gets one notification"                 *)
(* (comments.service.ts:45).                                               *)
(***************************************************************************)
OneNotificationPerUser ==
  \A c \in CommentIds, u \in Users :
    Cardinality({i \in DOMAIN posted[c] : posted[c][i].user = u /\ <<c, i>> \in jobs}) <= 1

=============================================================================
