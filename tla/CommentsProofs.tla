--------------------------- MODULE CommentsProofs ---------------------------
(***************************************************************************)
(* For any comments, tasks, users, bodies and number of requests in        *)
(* flight: replies stay one level deep, a comment goes only by its author, *)
(* with what it answers or with its task, and a mention is told once.      *)
(***************************************************************************)
EXTENDS Comments, FiniteSetTheorems, TLAPS

(* For the least element of a set of numbers. *)
Trees == INSTANCE ForestProofs WITH MaxDepth <- 1

AllSteps == {"idle", "delete"} \cup CreateSteps \cup EditSteps

RowsTypeOK ==
  /\ tasks \subseteq Tasks /\ comments \subseteq CommentIds
  /\ task \in [CommentIds -> Tasks \cup {Null}]
  /\ parent \in [CommentIds -> CommentIds \cup {Null}]
  /\ author \in [CommentIds -> Users \cup {Null}]

LocalsTypeOK == pc \in [Requests -> AllSteps] /\ ctx \in [Requests -> Context]

(* Of every id ever handed out, also after its comment was deleted: what   *)
(* it answers was handed out before, on the same task and to a top-level   *)
(* comment.  It is true for ever, for no statement changes these columns.  *)
ThreadsSound ==
  \A c \in CommentIds : parent[c] # Null =>
    task[c] # Null /\ task[parent[c]] = task[c] /\ parent[parent[c]] = Null

(* The foreign keys.                                                       *)
KeysHold == \A c \in comments : ForeignKeysHold(task[c], parent[c])

(* What the check of the parent found, and is still so at the INSERT.      *)
Checked(s, c) ==
  /\ s \in {"findParent", "insert"} => c.on \in Tasks
  /\ s = "insert" /\ c.to # Null => task[c.to] = c.on /\ parent[c.to] = Null
  /\ s \in EditSteps => c.id \in CommentIds

LocalsSound == \A r \in Requests : Checked(pc[r], ctx[r])

ThreadsIInv == RowsTypeOK /\ LocalsTypeOK /\ ThreadsSound /\ KeysHold /\ LocalsSound

USE DEF AllSteps, CreateSteps, EditSteps

-----------------------------------------------------------------------------

LEMMA CascadeClosed ==
  ASSUME NEW D
  PROVE  /\ D \cap comments \subseteq Cascade(D)
         /\ \A c \in comments : parent[c] \in Cascade(D) => c \in Cascade(D)
  BY DEF Cascade, Threads!Descendants, Threads!ClosedDownward

(* The places to notify are places.                                        *)
LEMMA PlacesAreNumbers ==
  ASSUME NEW c \in Context PROVE ToNotify(c) \in SUBSET Nat
<1>1. c.body \in Seq(Mentions)
  <2>1. c.body \in Bodies \cup {<<>>}
    BY DEF Context
  <2>2. <<>> \in Seq(Mentions)
    OBVIOUS
  <2> QED
    BY <2>1, <2>2, CommentsAssumption
<1>2. DOMAIN c.body \subseteq Nat
  BY <1>1
<1> QED
  BY <1>2 DEF ToNotify, FirstPlaces

LEMMA ThreadsInit == CommentsInit => ThreadsIInv
  BY CommentsAssumption
     DEF CommentsInit, ThreadsIInv, RowsTypeOK, LocalsTypeOK, ThreadsSound, KeysHold, LocalsSound,
         Checked, Context, NoContext

(* A request goes on to statement s with locals c, and no row changes.     *)
LEMMA LocalStep ==
  ASSUME ThreadsIInv, UNCHANGED <<tasks, rows>>,
         NEW r \in Requests, NEW s \in AllSteps, NEW c \in Context, Checked(s, c),
         pc' = [pc EXCEPT ![r] = s], ctx' = [ctx EXCEPT ![r] = c]
  PROVE  ThreadsIInv'
<1> USE DEF rows
<1>1. RowsTypeOK' /\ ThreadsSound' /\ KeysHold'
  BY DEF ThreadsIInv, RowsTypeOK, ThreadsSound, KeysHold, ForeignKeysHold
<1>2. LocalsTypeOK'
  BY DEF ThreadsIInv, LocalsTypeOK
<1>3. LocalsSound'
  BY DEF ThreadsIInv, LocalsTypeOK, LocalsSound, Checked
<1> QED
  BY <1>1, <1>2, <1>3 DEF ThreadsIInv

LEMMA NoContextSound == NoContext \in Context /\ Checked("idle", NoContext)
  BY DEF NoContext, Context, Checked

(* Rows go as a cascade, tasks come and go, and no column changes.         *)
LEMMA RowsStep ==
  ASSUME ThreadsIInv, LocalsTypeOK', UNCHANGED <<task, parent, author>>,
         tasks' \subseteq Tasks, comments' \subseteq CommentIds, KeysHold', LocalsSound'
  PROVE  ThreadsIInv'
  BY DEF ThreadsIInv, RowsTypeOK, ThreadsSound

-----------------------------------------------------------------------------

LEMMA CreateStartInv ==
  ASSUME ThreadsIInv, NEW r \in Requests, CreateStart(r) PROVE ThreadsIInv'
<1>1. PICK u \in Users, t \in tasks, b \in Bodies,
           q \in {d \in CommentIds : task[d] # Null} \cup {Null} :
        /\ ctx' = [ctx EXCEPT ![r] =
                    [NoContext EXCEPT !.user = u, !.on = t, !.to = q, !.body = b]]
        /\ Goto(r, IF q = Null THEN "insert" ELSE "findParent")
  BY DEF CreateStart
<1> DEFINE c == [NoContext EXCEPT !.user = u, !.on = t, !.to = q, !.body = b]
           s == IF q = Null THEN "insert" ELSE "findParent"
<1>2. c \in Context /\ c.on \in Tasks /\ c.to = q
  BY DEF NoContext, Context, ThreadsIInv, RowsTypeOK
<1>3. Checked(s, c)
  BY <1>2 DEF Checked
<1>4. UNCHANGED <<tasks, rows>> /\ pc' = [pc EXCEPT ![r] = s]
  BY <1>1 DEF CreateStart, Goto
<1> HIDE DEF c
<1> QED
  BY <1>1, <1>2, <1>3, <1>4, LocalStep DEF c

LEMMA FindParentInv ==
  ASSUME ThreadsIInv, NEW r \in Requests, FindParent(r) PROVE ThreadsIInv'
<1>1. UNCHANGED <<tasks, rows>> /\ pc[r] = "findParent"
  BY DEF FindParent
<1>2. ctx[r] \in Context /\ ctx[r].on \in Tasks
  BY <1>1 DEF ThreadsIInv, LocalsTypeOK, LocalsSound, Checked
<1>3. CASE MayReply(ctx[r])
  <2>1. Checked("insert", ctx[r])
    BY <1>2, <1>3 DEF Checked, MayReply
  <2>2. pc' = [pc EXCEPT ![r] = "insert"] /\ ctx' = [ctx EXCEPT ![r] = ctx[r]]
    BY <1>3 DEF FindParent, Goto, ThreadsIInv, LocalsTypeOK
  <2> QED
    BY <1>1, <1>2, <2>1, <2>2, LocalStep
<1>4. CASE ~ MayReply(ctx[r])
  <2>1. pc' = [pc EXCEPT ![r] = "idle"] /\ ctx' = [ctx EXCEPT ![r] = NoContext]
    BY <1>4 DEF FindParent, Reply, Goto
  <2> QED
    BY <1>1, <2>1, NoContextSound, LocalStep
<1> QED
  BY <1>3, <1>4

(* The new id is nobody's parent yet, and not its own.                     *)
LEMMA InsertInv ==
  ASSUME ThreadsIInv, NEW r \in Requests, Insert(r) PROVE ThreadsIInv'
<1> DEFINE c == ctx[r]
<1>1. /\ pc[r] = "insert" /\ UNCHANGED tasks
      /\ c \in Context /\ c.on \in Tasks
      /\ c.to # Null => task[c.to] = c.on /\ parent[c.to] = Null
  BY DEF Insert, ThreadsIInv, LocalsTypeOK, LocalsSound, Checked
<1>2. CASE ForeignKeysHold(c.on, c.to) /\ FreshIds # {}
  <2>1. PICK id \in FreshIds :
          /\ comments' = comments \cup {id}
          /\ task' = [task EXCEPT ![id] = c.on]
          /\ parent' = [parent EXCEPT ![id] = c.to]
          /\ author' = [author EXCEPT ![id] = c.user]
          /\ ctx' = [ctx EXCEPT ![r].id = id]
          /\ pc' = [pc EXCEPT ![r] = "record"]
    BY <1>2 DEF Insert, Goto
  <2>2. /\ id \in CommentIds /\ task[id] = Null
        /\ task'[id] = c.on /\ parent'[id] = c.to
        /\ \A d \in CommentIds : d # id => task'[d] = task[d] /\ parent'[d] = parent[d]
    BY <2>1 DEF FreshIds, ThreadsIInv, RowsTypeOK
  <2>3. c.to \in CommentIds \cup {Null} /\ c.user \in Users \cup {Null} /\ c.to # id
    BY <1>1, <2>2, CommentsAssumption DEF Context
  <2>4. RowsTypeOK'
    BY <1>1, <2>1, <2>3, <2>2 DEF ThreadsIInv, RowsTypeOK
  <2>5. LocalsTypeOK'
    BY <2>1, <2>2, <1>1 DEF ThreadsIInv, LocalsTypeOK, Context
  <2>6. ThreadsSound'
    <3> SUFFICES ASSUME NEW d \in CommentIds, parent'[d] # Null
                 PROVE  /\ task'[d] # Null /\ task'[parent'[d]] = task'[d]
                        /\ parent'[parent'[d]] = Null
      BY DEF ThreadsSound
    <3>1. CASE d = id
      BY <1>1, <2>2, <2>3, <3>1, CommentsAssumption
    <3>2. CASE d # id
      <4>1. /\ parent[d] # Null /\ parent[d] \in CommentIds /\ task[d] # Null
            /\ task[parent[d]] = task[d] /\ parent[parent[d]] = Null
        BY <2>2, <3>2 DEF ThreadsIInv, ThreadsSound, RowsTypeOK
      <4>2. parent[d] # id
        BY <4>1, <2>2
      <4> QED
        BY <4>1, <4>2, <2>2, <3>2
    <3> QED
      BY <3>1, <3>2
  <2>7. KeysHold'
    <3> SUFFICES ASSUME NEW d \in comments'
                 PROVE  task'[d] \in tasks' /\ parent'[d] \in comments' \cup {Null}
      BY DEF KeysHold, ForeignKeysHold
    <3>1. CASE d = id
      BY <1>1, <1>2, <2>1, <2>2, <3>1 DEF ForeignKeysHold
    <3>2. CASE d # id
      BY <1>1, <2>1, <2>2, <3>2 DEF ThreadsIInv, KeysHold, RowsTypeOK, ForeignKeysHold
    <3> QED
      BY <3>1, <3>2
  <2>8. LocalsSound'
    <3> SUFFICES ASSUME NEW q \in Requests PROVE Checked(pc[q], ctx[q])'
      BY DEF LocalsSound
    <3>1. CASE q = r
      BY <2>1, <3>1 DEF ThreadsIInv, LocalsTypeOK, Checked
    <3>2. CASE q # r
      <4>1. pc'[q] = pc[q] /\ ctx'[q] = ctx[q] /\ ctx[q].to \in CommentIds \cup {Null}
        BY <2>1, <3>2 DEF ThreadsIInv, LocalsTypeOK, Context
      <4>2. Checked(pc[q], ctx[q])
        BY DEF ThreadsIInv, LocalsSound
      <4> QED
        BY <4>1, <4>2, <2>2, CommentsAssumption DEF Checked
    <3> QED
      BY <3>1, <3>2
  <2> QED
    BY <2>4, <2>5, <2>6, <2>7, <2>8 DEF ThreadsIInv
<1>3. CASE ~ (ForeignKeysHold(c.on, c.to) /\ FreshIds # {})
  <2>1. /\ UNCHANGED <<tasks, rows>>
        /\ pc' = [pc EXCEPT ![r] = "idle"] /\ ctx' = [ctx EXCEPT ![r] = NoContext]
    BY <1>3 DEF Insert, Reply, Goto
  <2> QED
    BY <2>1, NoContextSound, LocalStep
<1> QED
  BY <1>2, <1>3

(* The activity row and the jobs leave comments alone.                     *)
LEMMA TellInv ==
  ASSUME ThreadsIInv, NEW r \in Requests, Record(r) \/ Mention(r) PROVE ThreadsIInv'
<1>1. /\ UNCHANGED <<tasks, rows>> /\ ctx[r] \in Context
      /\ \E todo \in SUBSET Nat : NextMention(r, todo)
  BY PlacesAreNumbers DEF Record, Mention, ThreadsIInv, LocalsTypeOK, Context
<1>2. PICK todo \in SUBSET Nat : NextMention(r, todo)
  BY <1>1
<1>3. CASE todo = {}
  <2>1. pc' = [pc EXCEPT ![r] = "idle"] /\ ctx' = [ctx EXCEPT ![r] = NoContext]
    BY <1>2, <1>3 DEF NextMention, Reply, Goto
  <2> QED
    BY <1>1, <2>1, NoContextSound, LocalStep
<1>4. CASE todo # {}
  <2> DEFINE c == [ctx[r] EXCEPT !.todo = todo]
  <2>1. c \in Context
    BY <1>1 DEF Context
  <2>2. Checked("mention", c)
    BY DEF Checked
  <2>3. pc' = [pc EXCEPT ![r] = "mention"] /\ ctx' = [ctx EXCEPT ![r] = c]
    BY <1>2, <1>4 DEF NextMention, Goto
  <2> HIDE DEF c
  <2> QED
    BY <1>1, <2>1, <2>2, <2>3, LocalStep
<1> QED
  BY <1>3, <1>4

LEMMA ChangeStartInv ==
  ASSUME ThreadsIInv, NEW r \in Requests, ChangeStart(r) PROVE ThreadsIInv'
<1>1. PICK u \in Users, id \in CommentIds, s \in {"editSelect", "delete"} :
        /\ ctx' = [ctx EXCEPT ![r] = [NoContext EXCEPT !.user = u, !.id = id]]
        /\ Goto(r, s)
  BY DEF ChangeStart
<1> DEFINE c == [NoContext EXCEPT !.user = u, !.id = id]
<1>2. c \in Context /\ c.id = id
  BY DEF NoContext, Context
<1>3. Checked(s, c)
  BY <1>2 DEF Checked
<1>4. UNCHANGED <<tasks, rows>> /\ pc' = [pc EXCEPT ![r] = s]
  BY <1>1 DEF ChangeStart, Goto
<1> HIDE DEF c
<1> QED
  BY <1>1, <1>2, <1>3, <1>4, LocalStep DEF c

LEMMA EditSelectInv ==
  ASSUME ThreadsIInv, NEW r \in Requests, EditSelect(r) PROVE ThreadsIInv'
<1> DEFINE c == [ctx[r] EXCEPT !.found = ctx[r].id \in comments]
<1>1. UNCHANGED <<tasks, rows>> /\ ctx[r] \in Context /\ ctx[r].id \in CommentIds
  BY DEF EditSelect, ThreadsIInv, LocalsTypeOK, LocalsSound, Checked
<1>2. c \in Context /\ c.id = ctx[r].id
  <2>1. (ctx[r].id \in comments) \in BOOLEAN
    OBVIOUS
  <2> DEFINE f == ctx[r].id \in comments
  <2>2. f \in BOOLEAN /\ c = [ctx[r] EXCEPT !.found = f]
    BY <2>1
  <2> HIDE DEF f
  <2> QED
    BY <1>1, <2>2 DEF Context
<1>3. Checked("editWrite", c)
  BY <1>1, <1>2 DEF Checked
<1>4. pc' = [pc EXCEPT ![r] = "editWrite"] /\ ctx' = [ctx EXCEPT ![r] = c]
  BY DEF EditSelect, Goto
<1> HIDE DEF c
<1> QED
  BY <1>1, <1>2, <1>3, <1>4, LocalStep

(* The locals of a request that ends.                                      *)
LEMMA ReplyLocals ==
  ASSUME ThreadsIInv, NEW r \in Requests, Reply(r), UNCHANGED <<task, parent>>
  PROVE  LocalsTypeOK' /\ LocalsSound'
  BY NoContextSound DEF ThreadsIInv, LocalsTypeOK, LocalsSound, Checked, Reply, Goto

(* A comment that is saved again is held to the keys.                      *)
LEMMA EditWriteInv ==
  ASSUME ThreadsIInv, NEW r \in Requests, EditWrite(r) PROVE ThreadsIInv'
<1> DEFINE id == ctx[r].id
<1>1. id \in CommentIds
  BY DEF EditWrite, ThreadsIInv, LocalsSound, Checked
<1>2. /\ Reply(r) /\ UNCHANGED <<tasks, task, parent, author>>
      /\ comments' = IF ~ ctx[r].found /\ ForeignKeysHold(task[id], parent[id])
                     THEN comments \cup {id} ELSE comments
  BY DEF EditWrite
<1>3. KeysHold'
  BY <1>2 DEF ThreadsIInv, KeysHold, ForeignKeysHold
<1> QED
  BY <1>1, <1>2, <1>3, ReplyLocals, RowsStep DEF ThreadsIInv, RowsTypeOK

LEMMA DeleteInv ==
  ASSUME ThreadsIInv, NEW r \in Requests, Delete(r) PROVE ThreadsIInv'
<1>1. /\ Reply(r) /\ UNCHANGED <<tasks, task, parent, author>>
      /\ comments' = comments \ Cascade({ctx[r].id})
  BY DEF Delete
<1>2. KeysHold'
  BY <1>1, CascadeClosed DEF ThreadsIInv, KeysHold, ForeignKeysHold
<1> QED
  BY <1>1, <1>2, ReplyLocals, RowsStep DEF ThreadsIInv, RowsTypeOK

LEMMA AbortInv ==
  ASSUME ThreadsIInv, NEW r \in Requests, Abort(r) PROVE ThreadsIInv'
<1>1. /\ UNCHANGED <<tasks, rows>>
      /\ pc' = [pc EXCEPT ![r] = "idle"] /\ ctx' = [ctx EXCEPT ![r] = NoContext]
  BY DEF Abort, Reply, Goto
<1> QED
  BY <1>1, NoContextSound, LocalStep

LEMMA TasksInv ==
  ASSUME ThreadsIInv, NEW t \in Tasks, RemoveTask(t) \/ RestoreTask(t) PROVE ThreadsIInv'
<1>1. UNCHANGED <<task, parent, author, pc, ctx>>
  BY DEF RemoveTask, RestoreTask, rows
<1>2. LocalsTypeOK' /\ LocalsSound'
  BY <1>1 DEF ThreadsIInv, LocalsTypeOK, LocalsSound, Checked
<1>3. CASE RemoveTask(t)
  <2> DEFINE D == {c \in CommentIds : task[c] = t}
  <2>1. tasks' = tasks \ {t} /\ comments' = comments \ Cascade(D)
    BY <1>3 DEF RemoveTask
  <2>2. \A c \in comments' : task[c] # t
    BY <2>1, CascadeClosed DEF ThreadsIInv, RowsTypeOK
  <2>3. KeysHold'
    <3> HIDE DEF D
    <3> QED
      BY <1>1, <2>1, <2>2, CascadeClosed DEF ThreadsIInv, KeysHold, ForeignKeysHold
  <2> QED
    BY <1>1, <1>2, <2>1, <2>3, RowsStep DEF ThreadsIInv, RowsTypeOK
<1>4. CASE RestoreTask(t)
  <2>1. tasks' = tasks \cup {t} /\ comments' = comments
    BY <1>4 DEF RestoreTask, rows
  <2>2. KeysHold'
    BY <1>1, <2>1 DEF ThreadsIInv, KeysHold, ForeignKeysHold
  <2> QED
    BY <1>1, <1>2, <2>1, <2>2, RowsStep DEF ThreadsIInv, RowsTypeOK
<1> QED
  BY <1>3, <1>4

LEMMA ThreadsNext == ThreadsIInv /\ [CommentsNext]_vars => ThreadsIInv'
<1> SUFFICES ASSUME ThreadsIInv, [CommentsNext]_vars PROVE ThreadsIInv'
  OBVIOUS
<1>1. CASE UNCHANGED vars
  BY <1>1 DEF vars, rows, ThreadsIInv, RowsTypeOK, LocalsTypeOK, ThreadsSound, KeysHold,
              ForeignKeysHold, LocalsSound, Checked
<1>2. ASSUME NEW r \in Requests, CommentsStep(r) PROVE ThreadsIInv'
  BY <1>2, CreateStartInv, FindParentInv, InsertInv, TellInv, ChangeStartInv, EditSelectInv,
     EditWriteInv, DeleteInv, AbortInv DEF CommentsStep
<1> QED
  BY <1>1, <1>2, TasksInv DEF CommentsNext

-----------------------------------------------------------------------------

(* The inductive invariant: the keys hold of the rows, and what a comment  *)
(* answers is sound for every id ever handed out.                          *)
THEOREM ThreadsInvariance == CommentsSpec => []ThreadsIInv
  BY ThreadsInit, ThreadsNext, PTL DEF CommentsSpec

(* However requests interleave, and tasks and comments come back, replies  *)
(* answer a top-level comment that exists, on the same, existing task.     *)
THEOREM RepliesOneLevelDeep == CommentsSpec => []OneLevelDeep
<1>1. ThreadsIInv => OneLevelDeep
  BY DEF ThreadsIInv, RowsTypeOK, ThreadsSound, KeysHold, ForeignKeysHold, OneLevelDeep
<1> QED
  BY <1>1, ThreadsInvariance, PTL

-----------------------------------------------------------------------------
(* What goes with a comment.                                               *)

(* Nothing answers a reply: the rows that go with a comment are its own    *)
(* and those of its replies.                                               *)
LEMMA CascadeOfOne ==
  ASSUME ThreadsIInv, NEW id \in CommentIds
  PROVE  Cascade({id}) \subseteq {c \in comments : c = id \/ parent[c] = id}
<1> DEFINE S == {c \in comments : c = id \/ parent[c] = id}
<1>1. S \in SUBSET comments /\ {id} \cap comments \subseteq S
  OBVIOUS
<1>2. Threads!ClosedDownward(comments, parent, S)
  <2>1. ASSUME NEW c \in comments, parent[c] \in S PROVE c \in S
    <3>1. c \in CommentIds /\ parent[c] \in CommentIds /\ parent[c] # Null
      BY <2>1, CommentsAssumption DEF ThreadsIInv, RowsTypeOK
    <3>2. parent[parent[c]] = Null
      BY <3>1 DEF ThreadsIInv, ThreadsSound
    <3> QED
      BY <2>1, <3>2, CommentsAssumption
  <2> QED
    BY <2>1 DEF Threads!ClosedDownward
<1> HIDE DEF S
<1>3. Cascade({id}) \subseteq S
  BY <1>1, <1>2 DEF Cascade, Threads!Descendants
<1> QED
  BY <1>3 DEF S

(* A reply is on the task of what it answers: only comments on a task go   *)
(* with it.                                                                *)
LEMMA CascadeOfTask ==
  ASSUME ThreadsIInv, NEW t
  PROVE  Cascade({c \in CommentIds : task[c] = t}) \subseteq {c \in comments : task[c] = t}
<1> DEFINE D == {c \in CommentIds : task[c] = t}
           S == {c \in comments : task[c] = t}
<1>1. S \in SUBSET comments /\ D \cap comments \subseteq S
  OBVIOUS
<1>2. Threads!ClosedDownward(comments, parent, S)
  <2>1. ASSUME NEW c \in comments, parent[c] \in S PROVE c \in S
    <3>1. c \in CommentIds /\ parent[c] # Null
      BY <2>1, CommentsAssumption DEF ThreadsIInv, RowsTypeOK
    <3> QED
      BY <2>1, <3>1 DEF ThreadsIInv, ThreadsSound
  <2> QED
    BY <2>1 DEF Threads!ClosedDownward
<1> HIDE DEF S, D
<1>3. Cascade(D) \subseteq S
  BY <1>1, <1>2 DEF Cascade, Threads!Descendants
<1> QED
  BY <1>3 DEF S, D

-----------------------------------------------------------------------------
(* Who is told of a comment.                                               *)

LocalsDefined == \A r \in Requests : Defined(pc[r], ctx[r])

TaleTypeOK ==
  /\ logged \subseteq CommentIds /\ lost \subseteq CommentIds
  /\ jobs \subseteq CommentIds \X Nat
  /\ posted \in [CommentIds -> Bodies \cup {<<>>}]
  /\ \A c \in CommentIds : task[c] = Null => posted[c] = <<>>

(* The places of its body a comment is to be told of.                      *)
Due(c) == ToNotify([user |-> author[c], body |-> posted[c]])

(* create still has the body it wrote, and after the activity row only     *)
(* such places are left to be told.                                        *)
Telling(s, c) ==
  /\ s \in {"record", "mention"} => c.body = posted[c.id]
  /\ s = "mention" => c.todo \subseteq Due(c.id) /\ c.id \in logged

TellingSound == \A r \in Requests : Telling(pc[r], ctx[r])

(* Nobody is told but of such places, and after the activity row.          *)
JobsSound ==
  \A c \in CommentIds, i \in Nat : <<c, i>> \in jobs =>
    task[c] # Null /\ c \in logged /\ i \in Due(c)

(* Nothing is forgotten while create is at it.                             *)
Recording(c) == \E r \in Requests : pc[r] = "record" /\ ctx[r].id = c

Queueing(c, i) ==
  \E r \in Requests : pc[r] = "mention" /\ ctx[r].id = c /\ i \in ctx[r].todo

NothingForgotten ==
  \A c \in CommentIds \ lost : task[c] # Null =>
    /\ c \in logged \/ Recording(c)
    /\ \A i \in Due(c) : <<c, i>> \in jobs \/ Recording(c) \/ Queueing(c, i)

CommentsIInv ==
  /\ ThreadsIInv /\ LocalsDefined /\ TaleTypeOK
  /\ TellingSound /\ JobsSound /\ NothingForgotten

LEMMA CommentsInitially == CommentsInit => CommentsIInv
<1> SUFFICES ASSUME CommentsInit PROVE CommentsIInv
  OBVIOUS
<1>1. LocalsDefined /\ TellingSound
  BY DEF CommentsInit, LocalsDefined, Defined, TellingSound, Telling
<1>2. TaleTypeOK /\ JobsSound /\ NothingForgotten
  BY DEF CommentsInit, TaleTypeOK, JobsSound, NothingForgotten
<1> QED
  BY <1>1, <1>2, ThreadsInit DEF CommentsIInv

(* The places of a body are told from their user and body only.            *)
LEMMA DueOfContext ==
  ASSUME NEW c, c.body = posted[c.id], c.user = author[c.id] PROVE ToNotify(c) = Due(c.id)
  BY DEF ToNotify, FirstPlaces, Due

LEMMA DueNumbers ==
  ASSUME TaleTypeOK, NEW c \in CommentIds
  PROVE  posted[c] \in Seq(Mentions) /\ Due(c) \subseteq DOMAIN posted[c] /\ Due(c) \subseteq Nat
<1>1. posted[c] \in Seq(Mentions)
  <2>1. posted[c] \in Bodies \cup {<<>>} /\ <<>> \in Seq(Mentions)
    BY DEF TaleTypeOK
  <2> QED
    BY <2>1, CommentsAssumption
<1>2. Due(c) \subseteq DOMAIN posted[c]
  BY DEF Due, ToNotify, FirstPlaces
<1> QED
  BY <1>1, <1>2

(* A request goes on to statement s with locals c, and neither the columns *)
(* nor what is told change; if create ends early, the comment is lost.     *)
LEMMA QuietStep ==
  ASSUME CommentsIInv, ThreadsIInv', UNCHANGED <<task, author, logged, jobs, posted>>,
         lost \subseteq lost', lost' \subseteq CommentIds,
         NEW r \in Requests, NEW s \in AllSteps, NEW c \in Context,
         Defined(s, c), Telling(s, c),
         pc[r] \in {"record", "mention"} => ctx[r].id \in lost',
         pc' = [pc EXCEPT ![r] = s], ctx' = [ctx EXCEPT ![r] = c]
  PROVE  CommentsIInv'
<1>1. /\ pc'[r] = s /\ ctx'[r] = c
      /\ \A q \in Requests : q # r => pc'[q] = pc[q] /\ ctx'[q] = ctx[q]
  BY DEF CommentsIInv, ThreadsIInv, LocalsTypeOK
<1>2. \A d : Due(d)' = Due(d)
  BY DEF Due, ToNotify, FirstPlaces
<1>3. LocalsDefined'
  BY <1>1 DEF CommentsIInv, LocalsDefined, Defined
<1>4. TellingSound'
  BY <1>1, <1>2 DEF CommentsIInv, TellingSound, Telling
<1>5. TaleTypeOK' /\ JobsSound'
  BY <1>2 DEF CommentsIInv, TaleTypeOK, JobsSound
<1>6. NothingForgotten'
  <2> SUFFICES ASSUME NEW d \in CommentIds, d \notin lost', task[d] # Null
               PROVE  /\ d \in logged \/ Recording(d)'
                      /\ \A i \in Due(d) : <<d, i>> \in jobs \/ Recording(d)' \/ Queueing(d, i)'
    BY <1>2 DEF NothingForgotten
  <2>1. Recording(d) => Recording(d)'
    BY <1>1 DEF Recording
  <2>2. ASSUME NEW i \in Due(d), Queueing(d, i) PROVE Queueing(d, i)'
    BY <1>1, <2>2 DEF Queueing
  <2>3. /\ d \in logged \/ Recording(d)
        /\ \A i \in Due(d) : <<d, i>> \in jobs \/ Recording(d) \/ Queueing(d, i)
    BY DEF CommentsIInv, NothingForgotten
  <2> QED
    BY <2>1, <2>2, <2>3
<1> QED
  BY <1>3, <1>4, <1>5, <1>6 DEF CommentsIInv

(* The handler returns or throws after a quiet step.                       *)
LEMMA QuietReply ==
  ASSUME CommentsIInv, ThreadsIInv', UNCHANGED <<task, author, logged, jobs, posted>>,
         lost \subseteq lost', lost' \subseteq CommentIds, NEW r \in Requests, Reply(r),
         pc[r] \in {"record", "mention"} => ctx[r].id \in lost'
  PROVE  CommentsIInv'
<1>1. Defined("idle", NoContext) /\ Telling("idle", NoContext)
  BY DEF Defined, Telling
<1>2. pc' = [pc EXCEPT ![r] = "idle"] /\ ctx' = [ctx EXCEPT ![r] = NoContext]
  BY DEF Reply, Goto
<1> QED
  BY <1>1, <1>2, NoContextSound, QuietStep

LEMMA CreateStartTells ==
  ASSUME CommentsIInv, ThreadsIInv', NEW r \in Requests, CreateStart(r) PROVE CommentsIInv'
<1>1. PICK u \in Users, t \in tasks, b \in Bodies,
           q \in {d \in CommentIds : task[d] # Null} \cup {Null} :
        /\ ctx' = [ctx EXCEPT ![r] =
                    [NoContext EXCEPT !.user = u, !.on = t, !.to = q, !.body = b]]
        /\ Goto(r, IF q = Null THEN "insert" ELSE "findParent")
  BY DEF CreateStart
<1> DEFINE c == [NoContext EXCEPT !.user = u, !.on = t, !.to = q, !.body = b]
           s == IF q = Null THEN "insert" ELSE "findParent"
<1>2. c \in Context /\ c.user = u /\ c.on = t /\ c.to = q /\ t \in Tasks
  BY DEF NoContext, Context, CommentsIInv, ThreadsIInv, RowsTypeOK
<1>3. Defined(s, c) /\ Telling(s, c)
  BY <1>2, CommentsAssumption DEF Defined, Telling
<1>4. /\ UNCHANGED <<task, author, logged, jobs, posted, lost>> /\ pc[r] = "idle"
      /\ pc' = [pc EXCEPT ![r] = s]
  BY <1>1 DEF CreateStart, Goto, rows, told
<1>5. lost' \subseteq CommentIds
  BY <1>4 DEF CommentsIInv, TaleTypeOK
<1> HIDE DEF c
<1> QED
  BY <1>1, <1>2, <1>3, <1>4, <1>5, QuietStep DEF c

LEMMA FindParentTells ==
  ASSUME CommentsIInv, ThreadsIInv', NEW r \in Requests, FindParent(r) PROVE CommentsIInv'
<1>1. /\ UNCHANGED <<task, author, logged, jobs, posted, lost>> /\ pc[r] = "findParent"
      /\ lost' \subseteq CommentIds
  BY DEF FindParent, rows, told, CommentsIInv, TaleTypeOK
<1>2. CASE MayReply(ctx[r])
  <2>1. ctx[r] \in Context /\ Defined("insert", ctx[r]) /\ Telling("insert", ctx[r])
    BY <1>1 DEF CommentsIInv, ThreadsIInv, LocalsTypeOK, LocalsDefined, Defined, Telling
  <2>2. pc' = [pc EXCEPT ![r] = "insert"] /\ ctx' = [ctx EXCEPT ![r] = ctx[r]]
    BY <1>2 DEF FindParent, Goto, CommentsIInv, ThreadsIInv, LocalsTypeOK
  <2> QED
    BY <1>1, <2>1, <2>2, QuietStep
<1>3. CASE ~ MayReply(ctx[r])
  BY <1>1, <1>3, QuietReply DEF FindParent
<1> QED
  BY <1>2, <1>3

(* The new id was nobody's before.                                         *)
LEMMA InsertTells ==
  ASSUME CommentsIInv, ThreadsIInv', NEW r \in Requests, Insert(r) PROVE CommentsIInv'
<1> DEFINE c == ctx[r]
<1>1. /\ pc[r] = "insert" /\ UNCHANGED <<tasks, logged, jobs, lost>>
      /\ c \in Context /\ c.on \in Tasks /\ c.user \in Users
  BY DEF Insert, CommentsIInv, ThreadsIInv, LocalsTypeOK, LocalsDefined, Defined
<1>2. CASE ForeignKeysHold(c.on, c.to) /\ FreshIds # {}
  <2>1. PICK id \in FreshIds :
          /\ task' = [task EXCEPT ![id] = c.on]
          /\ author' = [author EXCEPT ![id] = c.user]
          /\ posted' = [posted EXCEPT ![id] = c.body]
          /\ ctx' = [ctx EXCEPT ![r].id = id]
          /\ pc' = [pc EXCEPT ![r] = "record"]
    BY <1>2 DEF Insert, Goto
  <2>2. /\ id \in CommentIds /\ task[id] = Null
        /\ task'[id] = c.on /\ author'[id] = c.user /\ posted'[id] = c.body
        /\ \A d \in CommentIds : d # id =>
             task'[d] = task[d] /\ author'[d] = author[d] /\ posted'[d] = posted[d]
    BY <2>1 DEF FreshIds, CommentsIInv, ThreadsIInv, RowsTypeOK, TaleTypeOK
  <2>3. /\ pc'[r] = "record" /\ ctx'[r] = [c EXCEPT !.id = id]
        /\ \A q \in Requests : q # r => pc'[q] = pc[q] /\ ctx'[q] = ctx[q]
    BY <2>1 DEF CommentsIInv, ThreadsIInv, LocalsTypeOK
  <2>4. ctx'[r].id = id /\ ctx'[r].user = c.user /\ ctx'[r].on = c.on /\ ctx'[r].body = c.body
    BY <1>1, <2>3 DEF Context
  <2>5. \A d \in CommentIds : task[d] # Null => task'[d] # Null /\ Due(d)' = Due(d)
    BY <2>2 DEF Due, ToNotify, FirstPlaces
  <2>6. LocalsDefined'
    <3> SUFFICES ASSUME NEW q \in Requests PROVE Defined(pc[q], ctx[q])'
      BY DEF LocalsDefined
    <3>1. CASE q = r
      BY <1>1, <2>2, <2>3, <2>4, <3>1, CommentsAssumption DEF Defined
    <3>2. CASE q # r
      <4>1. Defined(pc[q], ctx[q]) /\ pc'[q] = pc[q] /\ ctx'[q] = ctx[q]
        BY <2>3, <3>2 DEF CommentsIInv, LocalsDefined
      <4> QED
        BY <4>1, <2>2 DEF Defined
    <3> QED
      BY <3>1, <3>2
  <2>7. TaleTypeOK'
    <3>1. c.body \in Bodies \cup {<<>>} /\ c.on # Null
      BY <1>1, CommentsAssumption DEF Context
    <3> QED
      BY <1>1, <2>1, <2>2, <3>1 DEF CommentsIInv, TaleTypeOK
  <2>8. TellingSound'
    <3> SUFFICES ASSUME NEW q \in Requests PROVE Telling(pc[q], ctx[q])'
      BY DEF TellingSound
    <3>1. CASE q = r
      BY <2>2, <2>3, <2>4, <3>1 DEF Telling
    <3>2. CASE q # r
      <4>1. /\ Telling(pc[q], ctx[q]) /\ Defined(pc[q], ctx[q])
            /\ pc'[q] = pc[q] /\ ctx'[q] = ctx[q]
        BY <2>3, <3>2 DEF CommentsIInv, LocalsDefined, TellingSound
      <4> QED
        BY <1>1, <2>2, <2>5, <4>1 DEF Telling, Defined
    <3> QED
      BY <3>1, <3>2
  <2>9. JobsSound'
    BY <1>1, <2>5 DEF CommentsIInv, JobsSound
  <2>10. NothingForgotten'
    <3> SUFFICES ASSUME NEW d \in CommentIds, d \notin lost, task'[d] # Null
                 PROVE  /\ d \in logged \/ Recording(d)'
                        /\ \A i \in Due(d)' :
                             <<d, i>> \in jobs \/ Recording(d)' \/ Queueing(d, i)'
      BY <1>1 DEF NothingForgotten
    <3>1. CASE d = id
      <4>1. Recording(d)'
        BY <2>3, <2>4, <3>1 DEF Recording
      <4> QED
        BY <4>1
    <3>2. CASE d # id
      <4>1. task[d] # Null /\ Due(d)' = Due(d)
        BY <2>2, <2>5, <3>2
      <4>2. Recording(d) => Recording(d)'
        BY <1>1, <2>3 DEF Recording
      <4>3. \A i : Queueing(d, i) => Queueing(d, i)'
        BY <1>1, <2>3 DEF Queueing
      <4> QED
        BY <4>1, <4>2, <4>3 DEF CommentsIInv, NothingForgotten
    <3> QED
      BY <3>1, <3>2
  <2> QED
    BY <2>6, <2>7, <2>8, <2>9, <2>10 DEF CommentsIInv
<1>3. CASE ~ (ForeignKeysHold(c.on, c.to) /\ FreshIds # {})
  <2>1. Reply(r) /\ UNCHANGED <<task, author, logged, jobs, posted, lost>>
    BY <1>1, <1>3 DEF Insert, rows
  <2>2. lost' \subseteq CommentIds
    BY <2>1 DEF CommentsIInv, TaleTypeOK
  <2> QED
    BY <1>1, <2>1, <2>2, QuietReply
<1> QED
  BY <1>2, <1>3

(* The statement next to the INSERT: create goes on to tell of the places  *)
(* in todo, or returns when there are none.  J is what is told by now.     *)
LEMMA TellStep ==
  ASSUME CommentsIInv, ThreadsIInv', UNCHANGED <<task, author, posted, lost>>,
         NEW r \in Requests, NEW todo, NextMention(r, todo),
         pc[r] \in {"record", "mention"},
         todo \subseteq Due(ctx[r].id), ctx[r].id \in logged',
         logged \subseteq logged', jobs \subseteq jobs',
         TaleTypeOK', JobsSound',
         \A i \in Due(ctx[r].id) : pc[r] = "record" \/ i \in ctx[r].todo =>
           i \in todo \/ <<ctx[r].id, i>> \in jobs'
  PROVE  CommentsIInv'
<1> DEFINE c == ctx[r]
<1>1. /\ c \in Context /\ c.body = posted[c.id] /\ c.id \in CommentIds
      /\ c.user \in Users /\ c.on \in Tasks /\ task[c.id] # Null /\ author[c.id] = c.user
  BY DEF CommentsIInv, ThreadsIInv, LocalsTypeOK, LocalsDefined, Defined, TellingSound, Telling
<1>2. \A q \in Requests : q # r => pc'[q] = pc[q] /\ ctx'[q] = ctx[q]
  BY DEF CommentsIInv, ThreadsIInv, LocalsTypeOK, NextMention, Reply, Goto
<1>3. /\ todo = {} => pc'[r] = "idle" /\ ctx'[r] = NoContext
      /\ todo # {} => pc'[r] = "mention" /\ ctx'[r] = [c EXCEPT !.todo = todo]
  BY DEF CommentsIInv, ThreadsIInv, LocalsTypeOK, NextMention, Reply, Goto
<1>4. todo # {} => /\ ctx'[r].id = c.id /\ ctx'[r].user = c.user /\ ctx'[r].on = c.on
                   /\ ctx'[r].body = c.body /\ ctx'[r].todo = todo
  BY <1>1, <1>3 DEF Context
<1>5. \A d : Due(d)' = Due(d)
  BY DEF Due, ToNotify, FirstPlaces
<1>6. LocalsDefined' /\ TellingSound'
  <2> SUFFICES ASSUME NEW q \in Requests PROVE Defined(pc[q], ctx[q])' /\ Telling(pc[q], ctx[q])'
    BY DEF LocalsDefined, TellingSound
  <2>1. CASE q = r
    <3>1. CASE todo = {}
      BY <1>3, <2>1, <3>1 DEF Defined, Telling
    <3>2. CASE todo # {}
      <4>1. pc'[r] = "mention"
        BY <1>3, <3>2
      <4>2. Defined(pc[r], ctx[r])'
        BY <1>1, <1>4, <3>2, <4>1 DEF Defined
      <4>3. Telling(pc[r], ctx[r])'
        BY <1>1, <1>4, <1>5, <3>2, <4>1 DEF Telling
      <4> QED
        BY <2>1, <4>2, <4>3
    <3> QED
      BY <3>1, <3>2
  <2>2. CASE q # r
    <3>1. /\ Defined(pc[q], ctx[q]) /\ Telling(pc[q], ctx[q])
          /\ pc'[q] = pc[q] /\ ctx'[q] = ctx[q]
      BY <1>2, <2>2 DEF CommentsIInv, LocalsDefined, TellingSound
    <3> QED
      BY <1>5, <3>1 DEF Defined, Telling
  <2> QED
    BY <2>1, <2>2
<1>7. NothingForgotten'
  <2> SUFFICES ASSUME NEW d \in CommentIds, d \notin lost, task[d] # Null
               PROVE  /\ d \in logged' \/ Recording(d)'
                      /\ \A i \in Due(d) : <<d, i>> \in jobs' \/ Recording(d)' \/ Queueing(d, i)'
    BY <1>5 DEF NothingForgotten
  <2>1. /\ d \in logged \/ Recording(d)
        /\ \A i \in Due(d) : <<d, i>> \in jobs \/ Recording(d) \/ Queueing(d, i)
    BY DEF CommentsIInv, NothingForgotten
  <2>2. Recording(d) => Recording(d)' \/ (d = c.id /\ pc[r] = "record")
    BY <1>2 DEF Recording
  <2>3. ASSUME NEW i \in Due(d), Queueing(d, i)
        PROVE  Queueing(d, i)' \/ (d = c.id /\ i \in c.todo)
    BY <1>2, <2>3 DEF Queueing
  <2>4. ASSUME d = c.id, NEW i \in todo PROVE Queueing(d, i)'
    BY <1>3, <1>4, <2>4 DEF Queueing
  <2> QED
    BY <2>1, <2>2, <2>3, <2>4
<1> QED
  BY <1>6, <1>7 DEF CommentsIInv

LEMMA RecordTells ==
  ASSUME CommentsIInv, ThreadsIInv', NEW r \in Requests, Record(r) PROVE CommentsIInv'
<1> DEFINE c == ctx[r]
<1>1. /\ pc[r] = "record" /\ UNCHANGED <<task, author, posted, lost, jobs>>
      /\ logged' = logged \cup {c.id} /\ NextMention(r, ToNotify(c))
  BY DEF Record, rows
<1>2. /\ c.id \in CommentIds /\ task[c.id] # Null
      /\ c.user = author[c.id] /\ c.body = posted[c.id]
  BY <1>1 DEF CommentsIInv, LocalsDefined, Defined, TellingSound, Telling
<1>3. ToNotify(c) = Due(c.id)
  BY <1>2, DueOfContext
<1>4. \A d : Due(d)' = Due(d)
  BY <1>1 DEF Due, ToNotify, FirstPlaces
<1>5. TaleTypeOK' /\ JobsSound'
  BY <1>1, <1>2, <1>4 DEF CommentsIInv, TaleTypeOK, JobsSound
<1> HIDE DEF c
<1> QED
  BY <1>1, <1>3, <1>5, TellStep DEF c

LEMMA MentionTells ==
  ASSUME CommentsIInv, ThreadsIInv', NEW r \in Requests, Mention(r) PROVE CommentsIInv'
<1> DEFINE c == ctx[r]
           i == Min(c.todo)
<1>1. /\ pc[r] = "mention" /\ UNCHANGED <<task, author, posted, lost, logged>>
      /\ jobs' = jobs \cup {<<c.id, i>>} /\ NextMention(r, c.todo \ {i})
  BY DEF Mention, rows
<1>2. /\ c.id \in CommentIds /\ task[c.id] # Null /\ c.todo # {}
      /\ c.todo \subseteq Due(c.id) /\ c.id \in logged
  BY <1>1 DEF CommentsIInv, LocalsDefined, Defined, TellingSound, Telling
<1>3. Due(c.id) \subseteq Nat
  BY <1>2, DueNumbers DEF CommentsIInv
<1>4. i \in c.todo
  <2> DEFINE S == c.todo
  <2>1. S \in SUBSET Nat /\ S # {}
    BY <1>2, <1>3
  <2> HIDE DEF S
  <2>2. \E m \in S : \A k \in S : m <= k
    BY <2>1, Trees!LeastNat
  <2>3. Min(S) \in S
    BY <2>2 DEF Min
  <2> QED
    BY <2>3 DEF S
<1> HIDE DEF i
<1>5. \A d : Due(d)' = Due(d)
  BY <1>1 DEF Due, ToNotify, FirstPlaces
<1>6. TaleTypeOK'
  BY <1>1, <1>2, <1>3, <1>4 DEF CommentsIInv, TaleTypeOK
<1>7. JobsSound'
  BY <1>1, <1>2, <1>4, <1>5 DEF CommentsIInv, JobsSound
<1>8. \A k \in Due(c.id) : k \in c.todo => k \in c.todo \ {i} \/ <<c.id, k>> \in jobs'
  BY <1>1
<1> HIDE DEF c
<1>9. c.todo \ {i} \subseteq Due(c.id) /\ c.id \in logged' /\ logged \subseteq logged'
  BY <1>1, <1>2
<1>10. jobs \subseteq jobs' /\ pc[r] # "record"
  BY <1>1
<1> QED
  BY <1>1, <1>6, <1>7, <1>8, <1>9, <1>10, TellStep DEF c

LEMMA ChangeStartTells ==
  ASSUME CommentsIInv, ThreadsIInv', NEW r \in Requests, ChangeStart(r) PROVE CommentsIInv'
<1>1. PICK u \in Users, id \in CommentIds, s \in {"editSelect", "delete"} :
        /\ id \in comments /\ author[id] = u
        /\ ctx' = [ctx EXCEPT ![r] = [NoContext EXCEPT !.user = u, !.id = id]]
        /\ Goto(r, s)
  BY DEF ChangeStart, MayChange
<1> DEFINE c == [NoContext EXCEPT !.user = u, !.id = id]
<1>2. c \in Context /\ c.id = id /\ c.user = u
  BY DEF NoContext, Context
<1>3. task[id] # Null
  BY <1>1, CommentsAssumption
     DEF CommentsIInv, ThreadsIInv, RowsTypeOK, KeysHold, ForeignKeysHold
<1>4. Defined(s, c) /\ Telling(s, c)
  BY <1>1, <1>2, <1>3 DEF Defined, Telling
<1>5. /\ UNCHANGED <<task, author, logged, jobs, posted, lost>> /\ pc[r] = "idle"
      /\ pc' = [pc EXCEPT ![r] = s]
  BY <1>1 DEF ChangeStart, Goto, rows, told
<1>6. lost' \subseteq CommentIds
  BY <1>5 DEF CommentsIInv, TaleTypeOK
<1> HIDE DEF c
<1> QED
  BY <1>1, <1>2, <1>4, <1>5, <1>6, QuietStep DEF c

LEMMA EditSelectTells ==
  ASSUME CommentsIInv, ThreadsIInv', NEW r \in Requests, EditSelect(r) PROVE CommentsIInv'
<1> DEFINE f == ctx[r].id \in comments
           c == [ctx[r] EXCEPT !.found = f]
<1>1. /\ UNCHANGED <<task, author, logged, jobs, posted, lost>> /\ pc[r] = "editSelect"
      /\ pc' = [pc EXCEPT ![r] = "editWrite"] /\ ctx' = [ctx EXCEPT ![r] = c]
      /\ f \in BOOLEAN
  BY DEF EditSelect, Goto, rows, told
<1> HIDE DEF f
<1>2. ctx[r] \in Context /\ Defined("editSelect", ctx[r])
  BY <1>1 DEF CommentsIInv, ThreadsIInv, LocalsTypeOK, LocalsDefined
<1>3. c \in Context /\ c.user = ctx[r].user /\ c.id = ctx[r].id
  BY <1>1, <1>2 DEF Context
<1>4. Defined("editWrite", c) /\ Telling("editWrite", c)
  BY <1>2, <1>3 DEF Defined, Telling
<1>5. lost' \subseteq CommentIds
  BY <1>1 DEF CommentsIInv, TaleTypeOK
<1> HIDE DEF c
<1> QED
  BY <1>1, <1>3, <1>4, <1>5, QuietStep

(* A comment that is changed, and one that is deleted, tells nobody.       *)
LEMMA ChangeTells ==
  ASSUME CommentsIInv, ThreadsIInv', NEW r \in Requests, EditWrite(r) \/ Delete(r)
  PROVE  CommentsIInv'
<1>1. /\ Reply(r) /\ UNCHANGED <<task, author, logged, jobs, posted, lost>>
      /\ pc[r] \in {"editWrite", "delete"}
  BY DEF EditWrite, Delete, told
<1>2. lost' \subseteq CommentIds
  BY <1>1 DEF CommentsIInv, TaleTypeOK
<1> QED
  BY <1>1, <1>2, QuietReply

LEMMA AbortTells ==
  ASSUME CommentsIInv, ThreadsIInv', NEW r \in Requests, Abort(r) PROVE CommentsIInv'
<1>1. Reply(r) /\ UNCHANGED <<task, author, logged, jobs, posted>>
  BY DEF Abort, rows
<1>2. /\ lost \subseteq lost' /\ lost' \subseteq lost \cup {ctx[r].id}
      /\ pc[r] \in {"record", "mention"} => ctx[r].id \in lost'
      /\ pc[r] \notin {"record", "mention"} => lost' = lost
  BY DEF Abort
<1>3. pc[r] \in {"record", "mention"} => ctx[r].id \in CommentIds
  BY DEF CommentsIInv, LocalsDefined, Defined
<1>4. lost' \subseteq CommentIds
  BY <1>2, <1>3 DEF CommentsIInv, TaleTypeOK
<1> QED
  BY <1>1, <1>2, <1>4, QuietReply

(* Tasks come and go, or nothing happens.                                  *)
LEMMA OthersTell ==
  ASSUME CommentsIInv, ThreadsIInv', UNCHANGED <<task, author, pc, ctx, told>>
  PROVE  CommentsIInv'
<1> USE DEF told
<1>1. \A d : Due(d)' = Due(d)
  BY DEF Due, ToNotify, FirstPlaces
<1>2. LocalsDefined' /\ TellingSound'
  BY <1>1 DEF CommentsIInv, LocalsDefined, Defined, TellingSound, Telling
<1>3. TaleTypeOK' /\ JobsSound'
  BY <1>1 DEF CommentsIInv, TaleTypeOK, JobsSound
<1>4. NothingForgotten'
  BY <1>1 DEF CommentsIInv, NothingForgotten, Recording, Queueing
<1> QED
  BY <1>2, <1>3, <1>4 DEF CommentsIInv

LEMMA CommentsInductive == CommentsIInv /\ [CommentsNext]_vars => CommentsIInv'
<1> SUFFICES ASSUME CommentsIInv, [CommentsNext]_vars PROVE CommentsIInv'
  OBVIOUS
<1>1. ThreadsIInv'
  BY ThreadsNext DEF CommentsIInv
<1>2. CASE UNCHANGED vars
  BY <1>1, <1>2, OthersTell DEF vars, rows
<1>3. ASSUME NEW r \in Requests, CommentsStep(r) PROVE CommentsIInv'
  BY <1>1, <1>3, CreateStartTells, FindParentTells, InsertTells, RecordTells, MentionTells,
     ChangeStartTells, EditSelectTells, ChangeTells, AbortTells DEF CommentsStep
<1>4. ASSUME NEW t \in Tasks, RemoveTask(t) \/ RestoreTask(t) PROVE CommentsIInv'
  BY <1>1, <1>4, OthersTell DEF RemoveTask, RestoreTask, rows
<1> QED
  BY <1>2, <1>3, <1>4 DEF CommentsNext

(* The inductive invariant: threads, whose locals are defined, and that    *)
(* create forgets no place of the body it wrote while it is at it.         *)
THEOREM CommentsInvariance == CommentsSpec => []CommentsIInv
  BY CommentsInitially, CommentsInductive, PTL DEF CommentsSpec

(* Columns and locals keep their types, and a statement finds the locals   *)
(* it uses: whoever edits or deletes a comment is its author.              *)
THEOREM CommentsTypesCorrect == CommentsSpec => []CommentsTypeOK
<1>1. CommentsIInv => CommentsTypeOK
  BY DEF CommentsIInv, ThreadsIInv, RowsTypeOK, LocalsTypeOK, LocalsDefined, TaleTypeOK,
         CommentsTypeOK
<1> QED
  BY <1>1, CommentsInvariance, PTL

(* Whatever happens to comments and tasks meanwhile: a comment goes by a   *)
(* DELETE of its author, with what it answers, or with its task.           *)
THEOREM OnlyAuthorsTakeAway == CommentsSpec => TakenAwayByAuthor
<1>1. CommentsIInv /\ [CommentsNext]_vars =>
        [\A c \in comments \ comments' :
           \/ task[c] \notin tasks'
           \/ \E r \in Requests, d \in {c, parent[c]} :
                pc[r] = "delete" /\ ctx[r].id = d /\ author[d] = ctx[r].user]_vars
  <2> SUFFICES ASSUME CommentsIInv, CommentsNext, NEW c \in comments \ comments'
               PROVE  \/ task[c] \notin tasks'
                      \/ \E r \in Requests, d \in {c, parent[c]} :
                           pc[r] = "delete" /\ ctx[r].id = d /\ author[d] = ctx[r].user
    OBVIOUS
  <2>1. ASSUME NEW r \in Requests, Delete(r)
        PROVE  \E d \in {c, parent[c]} :
                 pc[r] = "delete" /\ ctx[r].id = d /\ author[d] = ctx[r].user
    <3> DEFINE id == ctx[r].id
    <3>1. pc[r] = "delete" /\ c \in Cascade({id})
      BY <2>1 DEF Delete
    <3>2. id \in CommentIds /\ author[id] = ctx[r].user
      BY <3>1 DEF CommentsIInv, LocalsDefined, Defined
    <3>3. c = id \/ parent[c] = id
      BY <3>1, <3>2, CascadeOfOne DEF CommentsIInv
    <3> QED
      BY <3>1, <3>2, <3>3
  <2>2. ASSUME NEW t \in Tasks, RemoveTask(t) PROVE task[c] \notin tasks'
    <3>1. c \in Cascade({d \in CommentIds : task[d] = t}) /\ tasks' = tasks \ {t}
      BY <2>2 DEF RemoveTask
    <3>2. task[c] = t
      BY <3>1, CascadeOfTask DEF CommentsIInv
    <3> QED
      BY <3>1, <3>2
  <2>3. ASSUME NEW r \in Requests, CommentsStep(r), ~ Delete(r) PROVE comments \subseteq comments'
    BY <2>3 DEF CommentsStep, CreateStart, FindParent, Insert, Record, Mention, ChangeStart,
                EditSelect, EditWrite, Abort, rows
  <2>4. ASSUME NEW t \in Tasks, RestoreTask(t) PROVE comments \subseteq comments'
    BY <2>4 DEF RestoreTask, rows
  <2> QED
    BY <2>1, <2>2, <2>3, <2>4 DEF CommentsNext
<1> QED
  BY <1>1, CommentsInvariance, PTL DEF CommentsSpec, TakenAwayByAuthor

(* Equal mentions queue one job, at the first of them, and unless create   *)
(* died none is left out; an author is not told, and nobody is told before *)
(* the activity log.                                                       *)
THEOREM MentionsToldOnce == CommentsSpec => []MentionedOnce
<1>1. CommentsIInv => MentionedOnce
  <2> SUFFICES ASSUME CommentsIInv, NEW c \in CommentIds
               PROVE  LET queued(m) ==
                            {i \in DOMAIN posted[c] : posted[c][i] = m /\ <<c, i>> \in jobs}
                          named     == {posted[c][i] : i \in DOMAIN posted[c]}
                          self      == [user |-> author[c], spelling |-> Canonical]
                      IN  /\ task[c] # Null => c \in logged \/ Creating(c) \/ c \in lost
                          /\ \A m \in named :
                               /\ Cardinality(queued(m)) <= IF m = self THEN 0 ELSE 1
                               /\ queued(m) # {} => c \in logged
                               /\ queued(m) = {} => m = self \/ Creating(c) \/ c \in lost
    BY DEF MentionedOnce
  <2> DEFINE self      == [user |-> author[c], spelling |-> Canonical]
             queued(m) == {i \in DOMAIN posted[c] : posted[c][i] = m /\ <<c, i>> \in jobs}
  <2>1. posted[c] \in Seq(Mentions) /\ DOMAIN posted[c] \subseteq Nat
    BY DueNumbers DEF CommentsIInv
  <2>2. Recording(c) => Creating(c)
    BY DEF Recording, Creating
  <2>3. task[c] # Null => c \in logged \/ Creating(c) \/ c \in lost
    BY <2>2 DEF CommentsIInv, NothingForgotten
  <2>4. \A i \in DOMAIN posted[c] : <<c, i>> \in jobs =>
          c \in logged /\ i \in FirstPlaces(posted[c]) /\ posted[c][i] # self
    BY <2>1 DEF CommentsIInv, JobsSound, Due, ToNotify
  <2>5. ASSUME NEW m PROVE Cardinality(queued(m)) <= IF m = self THEN 0 ELSE 1
    <3>1. ASSUME NEW i \in queued(m), NEW j \in queued(m) PROVE ~ (i < j)
      <4>1. i \in Nat /\ j \in Nat /\ j \in FirstPlaces(posted[c]) /\ 1 <= i
        BY <2>1, <2>4
      <4> QED
        BY <4>1 DEF FirstPlaces
    <3>2. \A i \in queued(m), j \in queued(m) : i = j
      <4>1. queued(m) \subseteq Nat
        BY <2>1
      <4> HIDE DEF queued
      <4> QED
        BY <3>1, <4>1
    <3>3. m = self => queued(m) = {}
      BY <2>4
    <3> HIDE DEF queued
    <3>4. queued(m) = {} \/ \E i : queued(m) = {i}
      BY <3>2
    <3>5. Cardinality({}) = 0 /\ \A i : Cardinality({i}) = 1
      BY FS_EmptySet, FS_Singleton
    <3> HIDE DEF self
    <3>6. CASE queued(m) = {}
      <4>1. Cardinality(queued(m)) = 0
        BY <3>5, <3>6
      <4> QED
        BY <4>1
    <3>7. CASE queued(m) # {}
      <4>1. Cardinality(queued(m)) = 1
        BY <3>4, <3>5, <3>7
      <4> QED
        BY <3>3, <3>7, <4>1
    <3> QED
      BY <3>6, <3>7
  <2>6. ASSUME NEW k \in DOMAIN posted[c], queued(posted[c][k]) = {}
        PROVE  posted[c][k] = self \/ Creating(c) \/ c \in lost
    <3> DEFINE m == posted[c][k]
               S == {i \in DOMAIN posted[c] : posted[c][i] = m}
    <3>1. S \in SUBSET Nat /\ S # {}
      BY <2>1
    <3> HIDE DEF S
    <3>2. PICK i \in S : \A j \in S : i <= j
      BY <3>1, Trees!LeastNat
    <3> USE DEF S
    <3>3. i \in DOMAIN posted[c] /\ posted[c][i] = m /\ i \in Nat
      BY <2>1, <3>2
    <3>4. ASSUME NEW j \in 1 .. i - 1, posted[c][j] = posted[c][i] PROVE FALSE
      <4>1. j \in DOMAIN posted[c] /\ j < i
        BY <2>1, <3>3
      <4> QED
        BY <3>2, <3>3, <3>4, <4>1
    <3>5. i \in FirstPlaces(posted[c])
      BY <3>3, <3>4 DEF FirstPlaces
    <3>6. m = self \/ i \in Due(c)
      BY <3>3, <3>5 DEF Due, ToNotify
    <3>7. task[c] # Null
      <4>1. posted[c] # <<>>
        OBVIOUS
      <4> QED
        BY <4>1 DEF CommentsIInv, TaleTypeOK
    <3>8. <<c, i>> \notin jobs
      BY <2>6, <3>3
    <3>9. Queueing(c, i) => Creating(c)
      BY DEF Queueing, Creating
    <3> QED
      BY <2>2, <3>6, <3>7, <3>8, <3>9 DEF CommentsIInv, NothingForgotten
  <2>7. \A m : queued(m) # {} => c \in logged
    BY <2>4
  <2> HIDE DEF queued, self
  <2>8. \A m \in {posted[c][i] : i \in DOMAIN posted[c]} :
          /\ Cardinality(queued(m)) <= IF m = self THEN 0 ELSE 1
          /\ queued(m) # {} => c \in logged
          /\ queued(m) = {} => m = self \/ Creating(c) \/ c \in lost
    BY <2>5, <2>6, <2>7
  <2> QED
    BY <2>3, <2>8 DEF queued, self
<1> QED
  BY <1>1, CommentsInvariance, PTL

=============================================================================
