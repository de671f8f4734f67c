------------------------------- MODULE Inbox -------------------------------
(***************************************************************************)
(* How stored rows reach their readers.  A notification is stored by the   *)
(* handler of one application instance and pushed to the sockets in its    *)
(* recipient's room on that instance.  Clients connect to an instance, and *)
(* read the lists - notifications, unread ones, the activities of a work-  *)
(* space - page by page, newest first, by offset; meanwhile rows come in   *)
(* and are marked read.                                                    *)
(*                                                                         *)
(* Rows are not deleted and keep their recipient, so markAsRead, which     *)
(* checks one before it saves the other, is one step; for somebody else's  *)
(* row it replies 403 and changes nothing.  A socket without a valid token *)
(* is disconnected at once and never gets a room.                          *)
(*                                                                         *)
(* A job names its recipient as the request that caused it did.  The       *)
(* column userId is a uuid and holds the id as the database writes it, in  *)
(* lower case, and so does a token; the room pushed to is made of the      *)
(* job's string.                                                           *)
(*                                                                         *)
(* No two rows have the same createdAt: the order of a list is total.      *)
(***************************************************************************)
EXTENDS Integers, SequencesExt, FiniteSets

CONSTANTS Ids,        \* bound: ids of rows
          Recipients, \* users' ids, as the database writes them
          Spellings,  \* users' ids, as jobs may spell them
          Uuid,       \* what the database makes of a spelling
          Clients,
          Client,     \* the user each client is signed in as
          Instances,
          Log,        \* in place of a recipient: the row is an activity
          None,
          Sizes,      \* the page sizes clients ask for
          MaxTake     \* the most activities a page has

ASSUME InboxAssumption ==
  /\ Client \in [Clients -> Recipients]
  /\ Recipients \subseteq Spellings /\ Uuid \in [Spellings -> Recipients]
  /\ \A u \in Recipients : Uuid[u] = u
  /\ Sizes \subseteq Nat \ {0} /\ MaxTake \in Nat \ {0}
  /\ Log \notin Recipients /\ None \notin Spellings \cup {Log} \cup Ids \cup Instances

VARIABLES rows,     \* the stored rows, newest createdAt first
          to,       \* the recipient, Log for an activity, None if not stored
          spelt,    \* history: the recipient as its job spelt it
          read,     \* the notifications with read = true
          by,       \* history: the instance whose handler stored it
          handler,  \* the notification each instance has yet to push
          room,     \* the instance on which a client is in its user's room
          heard,    \* what was pushed to the client since it connected
          walk      \* the list it reads, and what it got

inboxVars == <<rows, to, spelt, read, by, handler, room, heard, walk>>

Kinds == {"all", "unread", "activities"}

(***************************************************************************)
(* kind, size   what the client asks for                                   *)
(* page         the next page; 0 when the last one has arrived             *)
(* counted      the reply with the rows and their COUNT has arrived        *)
(* start        history: what the list had when the walk began             *)
(* seen         the rows of the pages so far                               *)
(* marks        history: rows of the list marked read since it began       *)
(* live         history: connected since before the walk began             *)
(***************************************************************************)
Walk == [kind : Kinds, size : Sizes, page : Nat, counted : BOOLEAN,
         start : SUBSET Ids, seen : SUBSET Ids, marks : SUBSET Ids, live : BOOLEAN]

Stored == ToSet(rows)

InboxTypeOK ==
  /\ rows \in Seq(Ids) /\ IsInjective(rows)
  /\ to \in [Ids -> Recipients \cup {Log, None}]
  /\ \A n \in Ids : n \in Stored <=> to[n] # None
  /\ spelt \in [Ids -> Spellings \cup {None}]
  /\ \A n \in Stored : to[n] # Log => spelt[n] \in Spellings /\ to[n] = Uuid[spelt[n]]
  /\ read \subseteq {n \in Stored : to[n] \in Recipients}
  /\ by \in [Ids -> Instances \cup {None}]
  /\ handler \in [Instances -> Ids \cup {None}]
  /\ \A i \in Instances : handler[i] # None => to[handler[i]] \in Recipients
  /\ room \in [Clients -> Instances \cup {None}]
  /\ heard \in [Clients -> SUBSET Stored]
  /\ \A c \in Clients : \A n \in heard[c] : to[n] = Client[c]
  /\ DOMAIN walk = Clients
  /\ \A c \in Clients : walk[c] = None \/ walk[c] \in Walk

InboxInit ==
  /\ rows = <<>> /\ to = [n \in Ids |-> None] /\ read = {}
  /\ spelt = [n \in Ids |-> None]
  /\ by = [n \in Ids |-> None]
  /\ handler = [i \in Instances |-> None]
  /\ room = [c \in Clients |-> None] /\ heard = [c \in Clients |-> {}]
  /\ walk = [c \in Clients |-> None]

-----------------------------------------------------------------------------
(* Rows come in *)

(***************************************************************************)
(* createdAt is the time the INSERT's transaction began: a row may turn up *)
(* below one that began after it and was committed first.                  *)
(***************************************************************************)
Insert(n, u) ==
  /\ n \notin Stored
  /\ \E k \in {1, 2} : k <= Len(rows) + 1 /\ rows' = InsertAt(rows, k, n)
  /\ to' = [to EXCEPT ![n] = u]

(* The processor's call of NotificationsService.create. *)
Store(i) ==
  /\ handler[i] = None
  /\ \E n \in Ids, u \in Spellings :
       /\ Insert(n, Uuid[u])
       /\ spelt' = [spelt EXCEPT ![n] = u]
       /\ handler' = [handler EXCEPT ![i] = n]
       /\ by' = [by EXCEPT ![n] = i]
  /\ UNCHANGED <<read, room, heard, walk>>

(* Mutant: the room joined and the room addressed are named differently. *)
InRoomNever(c, i, u) == FALSE

(* Mutant: server.emit, to every socket. *)
InRoomAnybody(c, i, u) == room[c] = i

(* Client c is in the room user:{u} of instance i. *)
InRoom(c, i, u) == room[c] = i /\ Client[c] = u

(* emitToUser, with the user the job names *)
Push(i) ==
  LET n == handler[i]
  IN  /\ n # None
      /\ heard' = [c \in Clients |->
                     IF InRoom(c, i, spelt[n]) THEN heard[c] \cup {n} ELSE heard[c]]
      /\ handler' = [handler EXCEPT ![i] = None]
      /\ UNCHANGED <<rows, to, spelt, read, by, room, walk>>

(* ActivitiesService.record *)
Record ==
  /\ \E n \in Ids : Insert(n, Log)
  /\ UNCHANGED <<spelt, read, by, handler, room, heard, walk>>

-----------------------------------------------------------------------------
(* Sockets *)

(* handleConnection with a valid token: join(user:{sub}). *)
Connect(c, i) ==
  /\ room[c] = None
  /\ room' = [room EXCEPT ![c] = i]
  /\ UNCHANGED <<rows, to, spelt, read, by, handler, heard, walk>>

(* The clients in the set lose their socket, and forget what it told them. *)
Drop(lost) ==
  /\ room'  = [c \in Clients |-> IF c \in lost THEN None ELSE room[c]]
  /\ heard' = [c \in Clients |-> IF c \in lost THEN {} ELSE heard[c]]
  /\ walk'  = [c \in Clients |-> IF c \in lost /\ walk[c] # None
                                 THEN [walk[c] EXCEPT !.live = FALSE] ELSE walk[c]]

Disconnect(c) ==
  /\ room[c] # None
  /\ Drop({c})
  /\ UNCHANGED <<rows, to, spelt, read, by, handler>>

(* An instance dies and restarts: no push, and its sockets are closed. *)
Die(i) ==
  /\ handler[i] # None
  /\ handler' = [handler EXCEPT ![i] = None]
  /\ Drop({c \in Clients : room[c] = i})
  /\ UNCHANGED <<rows, to, spelt, read, by>>

-----------------------------------------------------------------------------
(* Lists *)

(* The rows a query for this list selects. *)
Listed(c, kind) ==
  CASE kind = "all"        -> {n \in Stored : to[n] = Client[c]}
    [] kind = "unread"     -> {n \in Stored \ read : to[n] = Client[c]}
    [] kind = "activities" -> {n \in Stored : to[n] = Log}

(* In the order s, m is n or comes before it. *)
Precedes(s, m, n) == \E i, j \in DOMAIN s : i <= j /\ s[i] = m /\ s[j] = n

(* The place of n in a list, the first being 1. *)
Place(s, list, n) == Cardinality({m \in list : Precedes(s, m, n)})

(* take: activities have a limit, notifications none. *)
Taken(kind, size) == IF kind = "activities" THEN Min({size, MaxTake}) ELSE size

(* Mutant: skip(page * limit). *)
SkippedOneMore(page, size) == page * size

(* skip *)
Skipped(page, size) == (page - 1) * size

Page(list, kind, page, size) ==
  LET first == Skipped(page, size)
  IN  {n \in list : Place(rows, list, n) \in first + 1 .. first + Taken(kind, size)}

(* A client starts to read a list: the query for the rows of the first page. *)
FirstPage(c, kind, size) ==
  LET list == Listed(c, kind)
  IN  /\ walk' = [walk EXCEPT ![c] =
                    [kind |-> kind, size |-> size, page |-> 2, counted |-> FALSE,
                     start |-> list, seen |-> Page(list, kind, 1, size),
                     marks |-> {}, live |-> room[c] # None]]
      /\ UNCHANGED <<rows, to, spelt, read, by, handler, room, heard>>

(* The query for the rows of another one. *)
FurtherPage(c) ==
  /\ walk[c] # None /\ walk[c].page # 0 /\ walk[c].counted
  /\ LET w == walk[c]
     IN  walk' = [walk EXCEPT ![c].seen = @ \cup Page(Listed(c, w.kind), w.kind, w.page, w.size),
                              ![c].page = w.page + 1,
                              ![c].counted = FALSE]
  /\ UNCHANGED <<rows, to, spelt, read, by, handler, room, heard>>

(* The query for the total, which tells whether there is a page after it.  *)
(* (The total of a page that is not full may be taken from the page, as if *)
(* this step followed at once.)                                            *)
CountRows(c) ==
  /\ walk[c] # None /\ walk[c].page # 0 /\ ~ walk[c].counted
  /\ LET w == walk[c]
     IN  walk' = [walk EXCEPT ![c].counted = TRUE,
                              ![c].page = IF Skipped(w.page, w.size) < Cardinality(Listed(c, w.kind))
                                          THEN w.page ELSE 0]
  /\ UNCHANGED <<rows, to, spelt, read, by, handler, room, heard>>

(* The rows become read; u is who asked for it. *)
Mark(u, marked) ==
  /\ read' = read \cup marked
  /\ walk' = [c \in Clients |->
                IF Client[c] = u /\ walk[c] # None /\ walk[c].page # 0
                THEN [walk[c] EXCEPT !.marks = @ \cup marked] ELSE walk[c]]
  /\ UNCHANGED <<rows, to, spelt, by, handler, room, heard>>

(* Mutant: no check of the notification's userId. *)
MarkAnyAsRead(u) == \E n \in Stored \ read : to[n] # Log /\ Mark(u, {n})

MarkAsRead(u) == \E n \in Stored \ read : to[n] = u /\ Mark(u, {n})

MarkAllAsRead(u) ==
  LET theirs == {n \in Stored \ read : to[n] = u}
  IN  theirs # {} /\ Mark(u, theirs)

-----------------------------------------------------------------------------

InboxNext ==
  \/ \E i \in Instances : Store(i) \/ Push(i) \/ Die(i)
  \/ Record
  \/ \E c \in Clients :
       \/ \E i \in Instances : Connect(c, i)
       \/ Disconnect(c)
       \/ \E kind \in Kinds, size \in Sizes : FirstPage(c, kind, size)
       \/ FurtherPage(c) \/ CountRows(c)
  \/ \E u \in Recipients : MarkAsRead(u) \/ MarkAllAsRead(u)

InboxSpec == InboxInit /\ [][InboxNext]_inboxVars

-----------------------------------------------------------------------------

Done(c) == walk[c] # None /\ walk[c].page = 0

(***************************************************************************)
(* Rows that come in meanwhile may be shown twice but hide nothing: who    *)
(* reads a list to its last page has seen all it had when he began.  For   *)
(* activities only with pages of at most MaxTake: skip counts larger ones  *)
(* in full, take does not.                                                 *)
(***************************************************************************)
WalkComplete ==
  \A c \in Clients :
    Done(c) /\ (walk[c].kind = "all" \/ (walk[c].kind = "activities" /\ walk[c].size <= MaxTake))
      => walk[c].start \subseteq walk[c].seen

(***************************************************************************)
(* Marking rows read shortens the list of the unread under the client that *)
(* pages through it: each row the user marks hides at most one other that  *)
(* is still unread, and what others mark hides none.                       *)
(***************************************************************************)
HiddenByMarks ==
  \A c \in Clients :
    Done(c) /\ walk[c].kind = "unread" =>
      Cardinality(walk[c].start \ (walk[c].seen \cup read)) <= Cardinality(walk[c].marks)

(* A client connected to an instance since before it read its user's list  *)
(* to the end expects row n of that instance in a page or as a push.       *)
Expects(c, n) ==
  /\ Done(c) /\ walk[c].kind = "all" /\ walk[c].live
  /\ to[n] = Client[c] /\ by[n] = room[c]

(* It has it, or will when the handler of the row gets to its push.        *)
Has(c, n) == n \in walk[c].seen \cup heard[c] \/ handler[by[n]] = n

(***************************************************************************)
(* A client that was connected before it read the list to its end misses   *)
(* no notification of its instance, in whatever order row, push, connect-  *)
(* ion and page came, if the job spelt its user as the database does: the  *)
(* row is stored before it is pushed.  (What a handler of another instance *)
(* stored later is not pushed to it, ARCHITECTURE.md:119.)                 *)
(***************************************************************************)
ListedOrHeard ==
  \A c \in Clients, n \in Stored : Expects(c, n) /\ spelt[n] = to[n] => Has(c, n)

(***************************************************************************)
(* However the job spelt the user (README.md:101: `notification` is sent   *)
(* "Whenever a notification is created for the connected user").           *)
(***************************************************************************)
PushedToUser == \A c \in Clients, n \in Stored : Expects(c, n) => Has(c, n)

=============================================================================
