-------------------------- MODULE RemindersProofs ---------------------------
(***************************************************************************)
(* What holds of the reminders for any tasks, users, due dates, length of  *)
(* an hour and number of scans under way, and of the pages and pushes      *)
(* through which rows reach their readers, for any number of rows, clients *)
(* and instances and any page sizes.                                       *)
(***************************************************************************)
EXTENDS MCReminders, FiniteSetTheorems, TLAPS

(* The least number principle and its like.                                *)
Numbers == INSTANCE ForestProofs WITH MaxDepth <- 1

-----------------------------------------------------------------------------
(***************************************************************************)
(* The scans.                                                              *)
(***************************************************************************)

(* Between its query and its adds a scan holds payloads; each is about the *)
(* task as it is, unless the task changed after the scan started.          *)
PayloadsCurrent ==
  \A s \in Scans : todo[s] # Null =>
    \A p \in todo[s] : since[p.task] < from[s] => Current(p)

(* No reminder is from the future. *)
ScannedBefore == \A r \in reminders : r.scanned <= now

(* Scan s was late enough, and task t has been unchanged long enough, for  *)
(* a reminder of t to be due.                                              *)
OughtTo(s, t) ==
  /\ since[t] < from[s]
  /\ row[t].open /\ row[t].assignee # Null /\ row[t].due \in from[s] .. from[s] + Hour

(* A reminder of t in the hour of s: right, or from before t changed.      *)
Covered(s, t) ==
  \E r \in reminders :
    /\ r.task = t
    /\ Current(r) \/ (HourOf(r.scanned) = HourOf(from[s]) /\ r.scanned <= since[t])

(* After its query a scan either has yet to queue a task or it is covered. *)
NoneDropped ==
  \A s \in Scans, t \in Tasks :
    todo[s] # Null /\ OughtTo(s, t) => Covered(s, t) \/ \E p \in todo[s] : p.task = t

ScanIInv == ScanTypeOK /\ ScannedBefore /\ WrongOnlyIfChanged /\ PayloadsCurrent /\ NoneDropped

-----------------------------------------------------------------------------

LEMMA ScanInitInv == ScanInit => ScanIInv
  BY ScanAssumption
     DEF ScanInit, ScanIInv, ScanTypeOK, ScannedBefore, WrongOnlyIfChanged, PayloadsCurrent, NoneDropped

(* The clock alone changes nothing any of them speaks of.                  *)
LEMMA TickInv == ScanIInv /\ Tick => ScanIInv'
<1> SUFFICES ASSUME ScanIInv, Tick PROVE ScanIInv'
  OBVIOUS
<1> USE DEF Tick, scans, history
<1>1. ScanTypeOK' /\ ScannedBefore'
  BY ScanAssumption DEF ScanIInv, ScanTypeOK, ScannedBefore, Reminder
<1>2. WrongOnlyIfChanged' /\ PayloadsCurrent'
  BY DEF ScanIInv, WrongOnlyIfChanged, PayloadsCurrent, Current
<1>3. NoneDropped'
  BY DEF ScanIInv, NoneDropped, OughtTo, Covered, Current
<1> QED
  BY <1>1, <1>2, <1>3 DEF ScanIInv

(* A change of a task makes every scan under way too early to count for    *)
(* it, and every reminder of it excusable.                                 *)
LEMMA ChangeInv == ScanIInv /\ (\E t \in Tasks : ChangeTask(t)) => ScanIInv'
<1> SUFFICES ASSUME ScanIInv, NEW x \in Tasks, ChangeTask(x) PROVE ScanIInv'
  OBVIOUS
<1> USE DEF scans
<1>1. /\ row' \in [Tasks -> Row] /\ since' \in [Tasks -> -1 .. now]
      /\ since'[x] = now
      /\ \A t \in Tasks : t # x => row'[t] = row[t] /\ since'[t] = since[t]
      /\ UNCHANGED <<now, reminders, from, todo>>
  BY DEF ScanIInv, ScanTypeOK, ChangeTask
<1>2. ScanTypeOK'
  BY <1>1, ScanAssumption DEF ScanIInv, ScanTypeOK, ChangeTask
<1>3. ScannedBefore'
  BY <1>1 DEF ScanIInv, ScannedBefore
<1>4. WrongOnlyIfChanged'
  <2> SUFFICES ASSUME NEW r \in reminders, since'[r.task] < r.scanned PROVE Current(r)'
    BY <1>1 DEF WrongOnlyIfChanged
  <2>1. r.task \in Tasks /\ r.scanned \in Int /\ r.scanned <= now /\ now \in Int
    BY ScanAssumption DEF ScanIInv, ScanTypeOK, ScannedBefore, Reminder
  <2>2. r.task # x
    BY <1>1, <2>1
  <2> QED
    BY <1>1, <2>1, <2>2 DEF ScanIInv, WrongOnlyIfChanged, Current
<1>5. \A s \in Scans : todo[s] # Null => from[s] \in Int /\ from[s] <= now /\ now \in Int
  BY ScanAssumption DEF ScanIInv, ScanTypeOK
<1>6. PayloadsCurrent'
  <2> SUFFICES ASSUME NEW s \in Scans, todo[s] # Null, NEW p \in todo[s],
                      since'[p.task] < from[s]
               PROVE  Current(p)'
    BY <1>1 DEF PayloadsCurrent
  <2>1. p.task \in Tasks
    BY DEF ScanIInv, ScanTypeOK, Payload
  <2>2. p.task # x
    BY <1>1, <1>5
  <2> QED
    BY <1>1, <2>1, <2>2 DEF ScanIInv, PayloadsCurrent, Current
<1>7. NoneDropped'
  <2> SUFFICES ASSUME NEW s \in Scans, NEW t \in Tasks, todo[s] # Null, OughtTo(s, t)'
               PROVE  Covered(s, t)' \/ \E p \in todo[s] : p.task = t
    BY <1>1 DEF NoneDropped
  <2>1. t # x
    BY <1>1, <1>5 DEF OughtTo
  <2>2. OughtTo(s, t)
    BY <1>1, <2>1 DEF OughtTo
  <2>3. Covered(s, t) => Covered(s, t)'
    BY <1>1, <2>1 DEF Covered, Current
  <2> QED
    BY <2>2, <2>3 DEF ScanIInv, NoneDropped
<1> QED
  BY <1>2, <1>3, <1>4, <1>6, <1>7 DEF ScanIInv

-----------------------------------------------------------------------------
(* The statements of a scan change neither the clock nor a task.           *)

LEMMA StartInv == ASSUME ScanIInv, NEW x \in Scans, ScanStart(x) PROVE ScanIInv'
<1> USE DEF history
<1>1. /\ \A s \in Scans : todo[s] # Null => from'[s] = from[s]
      /\ UNCHANGED <<now, row, reminders, todo, since>>
  BY DEF ScanIInv, ScanTypeOK, ScanStart
<1>2. ScanTypeOK'
  BY ScanAssumption DEF ScanIInv, ScanTypeOK, ScanStart
<1>3. ScannedBefore' /\ WrongOnlyIfChanged'
  BY <1>1 DEF ScanIInv, ScannedBefore, WrongOnlyIfChanged, Current
<1>4. PayloadsCurrent' /\ NoneDropped'
  BY <1>1 DEF ScanIInv, PayloadsCurrent, NoneDropped, OughtTo, Covered, Current
<1> QED
  BY <1>2, <1>3, <1>4 DEF ScanIInv

(* The query finds every task that ought to be, as it is.                  *)
LEMMA FindInv == ASSUME ScanIInv, NEW x \in Scans, ScanFind(x) PROVE ScanIInv'
<1> USE DEF history
<1> DEFINE found == {[task |-> t, assignee |-> row[t].assignee, due |-> row[t].due] :
                       t \in DueSoon(from[x])}
<1>1. /\ \A s \in Scans : todo'[s] = IF s = x THEN found ELSE todo[s]
      /\ todo' = [todo EXCEPT ![x] = found]
      /\ from[x] # Null /\ from[x] \in 0 .. MaxTime
      /\ UNCHANGED <<now, row, reminders, from, since, changes>>
  BY DEF ScanIInv, ScanTypeOK, ScanFind
<1>2. found \subseteq Payload
  <2> SUFFICES ASSUME NEW t \in DueSoon(from[x])
               PROVE  [task |-> t, assignee |-> row[t].assignee, due |-> row[t].due] \in Payload
    OBVIOUS
  <2>1. t \in Tasks /\ row[t].assignee # Null /\ row[t].due # Null
    BY DEF DueSoon, InReach
  <2>2. row[t].assignee \in Users \cup {Null} /\ row[t].due \in DueTimes \cup {Null}
    BY <2>1 DEF ScanIInv, ScanTypeOK, Row
  <2> QED
    BY <2>1, <2>2 DEF Payload
<1>3. ScanTypeOK'
  BY <1>1, <1>2 DEF ScanIInv, ScanTypeOK
<1>4. ScannedBefore' /\ WrongOnlyIfChanged'
  BY <1>1 DEF ScanIInv, ScannedBefore, WrongOnlyIfChanged, Current
<1>5. \A p \in found : Current(p)
  BY DEF DueSoon, Current
<1>6. PayloadsCurrent'
  BY <1>1, <1>5 DEF ScanIInv, PayloadsCurrent, Current
<1>7. \A t \in Tasks : OughtTo(x, t) => \E p \in found : p.task = t
  <2> SUFFICES ASSUME NEW t \in Tasks, OughtTo(x, t) PROVE \E p \in found : p.task = t
    OBVIOUS
  <2> DEFINE p == [task |-> t, assignee |-> row[t].assignee, due |-> row[t].due]
  <2>1. row[t].due \in DueTimes \cup {Null} /\ row[t].due \in from[x] .. from[x] + Hour
    BY DEF OughtTo, ScanIInv, ScanTypeOK, Row
  <2>2. InReach(from[x], row[t].due)
    BY <1>1, <2>1, ScanAssumption DEF InReach
  <2>3. p \in found
    BY <2>2 DEF OughtTo, DueSoon
  <2> QED
    BY <2>3
<1>8. NoneDropped'
  BY <1>1, <1>7 DEF ScanIInv, NoneDropped, OughtTo, Covered, Current
<1> QED
  BY <1>3, <1>4, <1>6, <1>8 DEF ScanIInv

(* A turn of the loop covers its task: with a reminder that is right, or   *)
(* by one the queue knows, which is right unless the task changed since.   *)
LEMMA QueueInv == ASSUME ScanIInv, NEW x \in Scans, ScanQueue(x) PROVE ScanIInv'
<1> USE DEF history
<1>1. PICK p \in todo[x] :
        /\ todo' = [todo EXCEPT ![x] = @ \ {p}]
        /\ reminders' =
             IF Known(p.task, from[x]) THEN reminders
             ELSE reminders \cup {[task |-> p.task, assignee |-> p.assignee, due |-> p.due,
                                   scanned |-> from[x]]}
  BY DEF ScanQueue
<1> DEFINE new == [task |-> p.task, assignee |-> p.assignee, due |-> p.due, scanned |-> from[x]]
<1>2. /\ todo[x] # Null
      /\ UNCHANGED <<now, row, from, since, changes>>
      /\ todo'[x] = todo[x] \ {p} /\ \A s \in Scans : s # x => todo'[s] = todo[s]
      /\ DOMAIN todo' = Scans
      /\ reminders \subseteq reminders'
  BY <1>1 DEF ScanQueue, ScanIInv, ScanTypeOK
<1>3. /\ p \in Payload /\ from[x] \in 0 .. MaxTime /\ from[x] <= now
      /\ since[p.task] < from[x] => Current(p)
  BY <1>2, ScanAssumption DEF ScanIInv, ScanTypeOK, PayloadsCurrent
<1>4. new \in Reminder /\ (since[new.task] < new.scanned => Current(new))
  BY <1>3 DEF Reminder, Payload, Current
<1>5. reminders' \subseteq reminders \cup {new}
  BY <1>1
<1>6. ScanTypeOK'
  <2>1. reminders' \subseteq Reminder
    BY <1>4, <1>5 DEF ScanIInv, ScanTypeOK
  <2>2. \A s \in Scans : todo'[s] # Null => todo'[s] \subseteq Payload /\ from[s] # Null
    BY <1>2 DEF ScanIInv, ScanTypeOK
  <2> QED
    BY <1>2, <2>1, <2>2 DEF ScanIInv, ScanTypeOK
<1>7. ScannedBefore'
  BY <1>2, <1>3, <1>5 DEF ScanIInv, ScannedBefore
<1>8. WrongOnlyIfChanged'
  BY <1>2, <1>4, <1>5 DEF ScanIInv, WrongOnlyIfChanged, Current
<1>9. PayloadsCurrent'
  BY <1>2 DEF ScanIInv, PayloadsCurrent, Current
<1>10. \A s \in Scans, t \in Tasks : Covered(s, t) => Covered(s, t)'
  BY <1>2 DEF Covered, Current
<1>11. OughtTo(x, p.task) => Covered(x, p.task)'
  <2> SUFFICES ASSUME OughtTo(x, p.task) PROVE Covered(x, p.task)'
    OBVIOUS
  <2>1. p.task \in Tasks /\ since[p.task] < from[x]
    BY <1>3 DEF OughtTo, Payload
  <2>2. CASE Known(p.task, from[x])
    <3>1. PICK r \in reminders : r.task = p.task /\ HourOf(r.scanned) = HourOf(from[x])
      BY <2>2 DEF Known
    <3>2. r.scanned \in Int /\ since[p.task] \in Int
      BY <2>1, ScanAssumption DEF ScanIInv, ScanTypeOK, Reminder
    <3>3. Current(r) \/ r.scanned <= since[p.task]
      BY <3>1, <3>2 DEF ScanIInv, WrongOnlyIfChanged
    <3>4. Covered(x, p.task)
      BY <3>1, <3>3 DEF Covered
    <3> QED
      BY <3>4, <1>10, <2>1
  <2>3. CASE ~ Known(p.task, from[x])
    <3>1. PICK r \in reminders' : r = new
      BY <1>1, <2>3
    <3>2. r.task = p.task /\ Current(r)
      BY <3>1, <1>4, <2>1
    <3>3. Current(r)'
      BY <3>2, <1>2 DEF Current
    <3> QED
      BY <3>2, <3>3 DEF Covered
  <2> QED
    BY <2>2, <2>3
<1>12. NoneDropped'
  <2> SUFFICES ASSUME NEW s \in Scans, NEW t \in Tasks, todo'[s] # Null, OughtTo(s, t)'
               PROVE  Covered(s, t)' \/ \E q \in todo'[s] : q.task = t
    BY DEF NoneDropped
  <2>1. OughtTo(s, t) /\ todo[s] # Null
    BY <1>2 DEF OughtTo
  <2>2. Covered(s, t) \/ \E q \in todo[s] : q.task = t
    BY <2>1 DEF ScanIInv, NoneDropped
  <2> QED
    BY <1>2, <1>10, <1>11, <2>1, <2>2
<1> QED
  BY <1>6, <1>7, <1>8, <1>9, <1>12 DEF ScanIInv

(* A scan that ends or dies leaves nothing but what it queued.             *)
LEMMA StopInv == ASSUME ScanIInv, NEW x \in Scans, ScanEnd(x) \/ ScanAbort(x) PROVE ScanIInv'
<1> USE DEF history
<1>1. /\ \A s \in Scans : s # x => todo'[s] = todo[s] /\ from'[s] = from[s]
      /\ todo'[x] = Null /\ from'[x] = Null /\ DOMAIN todo' = Scans
      /\ from' \in [Scans -> 0 .. MaxTime \cup {Null}]
      /\ UNCHANGED <<now, row, reminders, since, changes>>
  BY DEF ScanIInv, ScanTypeOK, ScanEnd, ScanAbort, Stop
<1>2. ScanTypeOK'
  BY <1>1 DEF ScanIInv, ScanTypeOK
<1>3. ScannedBefore' /\ WrongOnlyIfChanged'
  BY <1>1 DEF ScanIInv, ScannedBefore, WrongOnlyIfChanged, Current
<1>4. PayloadsCurrent'
  BY <1>1 DEF ScanIInv, PayloadsCurrent, Current
<1>5. NoneDropped'
  BY <1>1 DEF ScanIInv, NoneDropped, OughtTo, Covered, Current
<1> QED
  BY <1>2, <1>3, <1>4, <1>5 DEF ScanIInv

LEMMA ScanNextInv == ScanIInv /\ [ScanNext]_vars => ScanIInv'
<1> SUFFICES ASSUME ScanIInv, [ScanNext]_vars PROVE ScanIInv'
  OBVIOUS
<1>1. CASE UNCHANGED vars
  BY <1>1 DEF vars, scans, history, ScanIInv, ScanTypeOK, ScannedBefore, WrongOnlyIfChanged,
              PayloadsCurrent, NoneDropped, OughtTo, Covered, Current
<1> QED
  BY <1>1, TickInv, ChangeInv, StartInv, FindInv, QueueInv, StopInv DEF ScanNext, ScanStep

-----------------------------------------------------------------------------

(* The inductive invariant: a scan under way, too, drops no task.          *)
THEOREM ScanInvariance == ScanSpec => []ScanIInv
  BY ScanInitInv, ScanNextInv, PTL DEF ScanSpec

(* One completed scan in the hour before a task is due is enough: its      *)
(* assignee has a reminder, unless the task changed after an earlier one   *)
(* in the same hour of the clock.                                          *)
THEOREM OneScanIsEnough == ScanSpec => []RemindedInTime
<1>1. ScanIInv => RemindedInTime
  BY ScanAssumption DEF ScanIInv, NoneDropped, OughtTo, Covered, RemindedInTime
<1> QED
  BY <1>1, ScanInvariance, PTL

(* A reminder is wrong only if its task changed after its scan started.    *)
THEOREM RemindersRight == ScanSpec => []WrongOnlyIfChanged
  BY ScanInvariance, PTL DEF ScanIInv

-----------------------------------------------------------------------------
(***************************************************************************)
(* The order of the rows, and places in a list.                            *)
(***************************************************************************)

(* A list of ids without duplicates.                                       *)
Listing(s) == s \in Seq(Ids) /\ IsInjective(s)

LEMMA ListingFacts ==
  ASSUME NEW s, Listing(s)
  PROVE  /\ DOMAIN s = 1 .. Len(s) /\ Len(s) \in Nat
         /\ ToSet(s) = {s[i] : i \in 1 .. Len(s)} /\ ToSet(s) \subseteq Ids
         /\ \A i, j \in 1 .. Len(s) : s[i] = s[j] => i = j
  BY DEF Listing, IsInjective, ToSet

LEMMA ListingFinite ==
  ASSUME NEW s, Listing(s), NEW T \in SUBSET ToSet(s)
  PROVE  IsFiniteSet(T) /\ Cardinality(T) \in Nat
<1>1. DOMAIN s = 1 .. Len(s) /\ Len(s) \in Nat /\ ToSet(s) = {s[i] : i \in 1 .. Len(s)}
  BY ListingFacts
<1>2. IsFiniteSet(1 .. Len(s))
  BY <1>1, FS_Interval
<1> DEFINE f == [i \in 1 .. Len(s) |-> s[i]]
<1>3. f \in Surjection(1 .. Len(s), ToSet(s))
  <2>1. f \in [1 .. Len(s) -> ToSet(s)]
    BY <1>1
  <2> QED
    BY <1>1, <2>1 DEF Surjection
<1>4. IsFiniteSet(ToSet(s))
  BY <1>2, <1>3, FS_Surjection
<1> QED
  BY <1>4, FS_Subset, FS_CardinalityType

LEMMA PrecedesOrder ==
  ASSUME NEW s, Listing(s), NEW a \in ToSet(s), NEW b \in ToSet(s)
  PROVE  /\ Precedes(s, a, a)
         /\ Precedes(s, a, b) \/ Precedes(s, b, a)
         /\ Precedes(s, a, b) /\ Precedes(s, b, a) => a = b
         /\ \A c \in ToSet(s) : Precedes(s, a, b) /\ Precedes(s, b, c) => Precedes(s, a, c)
<1>1. /\ DOMAIN s = 1 .. Len(s) /\ Len(s) \in Nat
      /\ ToSet(s) = {s[i] : i \in 1 .. Len(s)}
      /\ \A i, j \in 1 .. Len(s) : s[i] = s[j] => i = j
  BY ListingFacts
<1> QED
  BY <1>1 DEF Precedes

(* A set of rows that is not empty has a last and a first row.             *)
LEMMA FirstAndLast ==
  ASSUME NEW s, Listing(s), NEW T \in SUBSET ToSet(s), T # {}
  PROVE  /\ \E a \in T : \A b \in T : Precedes(s, a, b)
         /\ \E a \in T : \A b \in T : Precedes(s, b, a)
<1>1. /\ DOMAIN s = 1 .. Len(s) /\ Len(s) \in Nat
      /\ ToSet(s) = {s[i] : i \in 1 .. Len(s)}
  BY ListingFacts
<1> DEFINE I == {i \in 1 .. Len(s) : s[i] \in T}
           J == {Len(s) - i : i \in I}
<1>2. I \in SUBSET Nat /\ I # {} /\ J \in SUBSET Nat /\ J # {}
  <2>1. I \in SUBSET (1 .. Len(s)) /\ I # {}
    BY <1>1
  <2>2. \A i \in 1 .. Len(s) : i \in Nat /\ Len(s) - i \in Nat
    BY <1>1
  <2> HIDE DEF I
  <2> QED
    BY <2>1, <2>2
<1>3. \A b \in T : \E i \in I : b = s[i]
  BY <1>1
<1>4. \E a \in T : \A b \in T : Precedes(s, a, b)
  <2> HIDE DEF I, J
  <2>1. PICK i \in I : \A k \in I : i <= k
    BY <1>2, Numbers!LeastNat
  <2>2. \A b \in T : Precedes(s, s[i], b)
    BY <1>1, <1>3, <2>1 DEF Precedes, I
  <2> QED
    BY <2>1, <2>2 DEF I
<1>5. \E a \in T : \A b \in T : Precedes(s, b, a)
  <2> HIDE DEF J
  <2>1. PICK j \in J : \A k \in J : j <= k
    BY <1>2, Numbers!LeastNat
  <2>2. PICK i \in I : j = Len(s) - i
    BY <2>1 DEF J
  <2>3. ASSUME NEW k \in I PROVE k <= i
    <3>1. Len(s) - k \in J /\ i \in Nat /\ k \in Nat
      BY <1>2 DEF J
    <3>2. Len(s) - i <= Len(s) - k
      BY <2>1, <2>2, <3>1
    <3> QED
      BY <1>1, <3>1, <3>2
  <2>4. \A b \in T : Precedes(s, b, s[i])
    BY <1>1, <1>3, <2>2, <2>3 DEF Precedes
  <2> QED
    BY <2>2, <2>4
<1> QED
  BY <1>4, <1>5

(* Places are numbers up to the length of the list, and later in a longer  *)
(* list.                                                                   *)
LEMMA PlaceBounds ==
  ASSUME NEW s, Listing(s), NEW L \in SUBSET ToSet(s), NEW M \in SUBSET L, NEW n
  PROVE  /\ Place(s, L, n) \in Nat /\ Place(s, L, n) <= Cardinality(L)
         /\ Place(s, M, n) <= Place(s, L, n)
         /\ n \in L => Place(s, L, n) >= 1
<1>1. IsFiniteSet(L) /\ Cardinality(L) \in Nat
  BY ListingFinite
<1> DEFINE D == {m \in L : Precedes(s, m, n)}
           E == {m \in M : Precedes(s, m, n)}
<1>2. D \in SUBSET L /\ E \in SUBSET D
  OBVIOUS
<1>3. n \in L => n \in D
  BY PrecedesOrder
<1> HIDE DEF D, E
<1>4. IsFiniteSet(D) /\ Cardinality(D) \in Nat /\ Cardinality(D) <= Cardinality(L)
  BY <1>1, <1>2, FS_Subset, FS_CardinalityType
<1>5. Cardinality(E) <= Cardinality(D)
  BY <1>2, <1>4, FS_Subset
<1>6. n \in D => Cardinality(D) # 0
  BY <1>4, FS_EmptySet
<1>7. Place(s, L, n) = Cardinality(D) /\ Place(s, M, n) = Cardinality(E)
  BY DEF Place, D, E
<1> QED
  BY <1>3, <1>4, <1>5, <1>6, <1>7

(* The rows of a list at its first k places.                               *)
Top(s, L, k) == {n \in L : Place(s, L, n) <= k}

LEMMA TopAtMost ==
  ASSUME NEW s, Listing(s), NEW L \in SUBSET ToSet(s), NEW k \in Nat
  PROVE  Cardinality(Top(s, L, k)) <= k
<1> DEFINE A == Top(s, L, k)
<1>1. CASE A = {}
  BY <1>1, FS_EmptySet
<1>2. CASE A # {}
  <2>1. A \in SUBSET ToSet(s)
    BY DEF Top
  <2> HIDE DEF A
  <2>2. PICK n \in A : \A b \in A : Precedes(s, b, n)
    BY <1>2, <2>1, FirstAndLast
  <2> DEFINE D == {m \in L : Precedes(s, m, n)}
  <2>3. A \subseteq D /\ Cardinality(D) <= k /\ D \in SUBSET ToSet(s)
    BY <2>2 DEF A, Top, Place
  <2> HIDE DEF D
  <2>4. IsFiniteSet(D) /\ Cardinality(D) \in Nat /\ Cardinality(A) \in Nat
    BY <2>1, <2>3, ListingFinite
  <2>5. Cardinality(A) <= Cardinality(D)
    BY <2>3, <2>4, FS_Subset
  <2> QED
    BY <2>3, <2>4, <2>5 DEF A
<1> QED
  BY <1>1, <1>2

LEMMA TopAtLeast ==
  ASSUME NEW s, Listing(s), NEW L \in SUBSET ToSet(s), NEW k \in Nat, Top(s, L, k) # L
  PROVE  Cardinality(Top(s, L, k)) >= k
<1> DEFINE A == Top(s, L, k)
<1>1. A \subseteq L /\ L \ A # {} /\ L \ A \in SUBSET ToSet(s)
  BY DEF Top
<1>2. PICK n \in L \ A : \A b \in L \ A : Precedes(s, n, b)
  <2> HIDE DEF A
  <2> QED
    BY <1>1, FirstAndLast
<1> DEFINE D == {m \in L : Precedes(s, m, n)}
<1>3. D \subseteq A \cup {n}
  <2> SUFFICES ASSUME NEW m \in L, Precedes(s, m, n), m \notin A PROVE m = n
    OBVIOUS
  <2> QED
    BY <1>2, PrecedesOrder
<1>4. Cardinality(D) > k /\ Cardinality(D) \in Nat
  <2>1. Place(s, L, n) \in Nat
    BY PlaceBounds
  <2> QED
    BY <1>2, <2>1 DEF Top, Place
<1>5. n \notin A /\ IsFiniteSet(A)
  BY <1>1, <1>2, ListingFinite DEF Top
<1> HIDE DEF A, D
<1>6. /\ IsFiniteSet(A \cup {n}) /\ Cardinality(A \cup {n}) = Cardinality(A) + 1
      /\ Cardinality(A) \in Nat
  BY <1>5, FS_AddElement, FS_CardinalityType
<1>7. Cardinality(D) <= Cardinality(A \cup {n})
  BY <1>3, <1>6, FS_Subset
<1> QED
  BY <1>4, <1>6, <1>7 DEF A

(* Rows that leave the list lift at most as many others to its first k     *)
(* places.                                                                 *)
LEMMA TopLifted ==
  ASSUME NEW s, Listing(s), NEW L \in SUBSET ToSet(s), NEW M \in SUBSET L, NEW k \in Nat
  PROVE  Cardinality(Top(s, L \ M, k) \ Top(s, L, k)) <= Cardinality(M)
<1> DEFINE A == Top(s, L, k)
           B == Top(s, L \ M, k)
<1>1. A \in SUBSET L /\ B \in SUBSET (L \ M)
  BY DEF Top
<1>2. A \ M \subseteq B
  <2> SUFFICES ASSUME NEW n \in A \ M PROVE n \in B
    OBVIOUS
  <2>1. Place(s, L \ M, n) <= Place(s, L, n) /\ Place(s, L, n) \in Nat
    BY PlaceBounds
  <2>2. Place(s, L \ M, n) \in Nat
    BY PlaceBounds
  <2> QED
    BY <2>1, <2>2 DEF Top
<1>3. Cardinality(B) <= k
  BY TopAtMost
<1>4. A # L => Cardinality(A) >= k
  BY TopAtLeast
<1> HIDE DEF A, B
<1>5. /\ IsFiniteSet(A) /\ IsFiniteSet(B) /\ IsFiniteSet(M)
      /\ Cardinality(A) \in Nat /\ Cardinality(B) \in Nat /\ Cardinality(M) \in Nat
  BY <1>1, ListingFinite
<1>6. CASE A = L
  <2>1. B \ A = {}
    BY <1>1, <1>6
  <2> QED
    BY <1>5, <2>1, FS_EmptySet DEF A, B
<1>7. CASE A # L
  <2>1. /\ Cardinality(A \ M) = Cardinality(A) - Cardinality(A \cap M)
        /\ Cardinality(A \cap M) \in Nat /\ Cardinality(A \cap M) <= Cardinality(M)
        /\ IsFiniteSet(A \ M) /\ Cardinality(A \ M) \in Nat
    <3>1. IsFiniteSet(A \cap M)
      BY <1>5, FS_Intersection
    <3>2. Cardinality(A \ M) = Cardinality(A) - Cardinality(A \cap M) /\ IsFiniteSet(A \ M)
      BY <1>5, FS_Difference
    <3>3. Cardinality(A \cap M) <= Cardinality(M)
      BY <1>5, FS_Subset
    <3> QED
      BY <3>1, <3>2, <3>3, FS_CardinalityType
  <2>2. Cardinality(B \ (A \ M)) = Cardinality(B) - Cardinality(A \ M)
    <3> DEFINE C == A \ M
    <3>1. B \cap C = C /\ IsFiniteSet(C)
      BY <1>2, <2>1
    <3> HIDE DEF C
    <3>2. Cardinality(B \ C) = Cardinality(B) - Cardinality(B \cap C)
      BY <1>5, FS_Difference
    <3> QED
      BY <3>1, <3>2 DEF C
  <2>3. B \ A = B \ (A \ M)
    BY <1>1
  <2>4. Cardinality(B \ A) <= Cardinality(M)
    BY <1>3, <1>4, <1>5, <1>7, <2>1, <2>2, <2>3
  <2> QED
    BY <2>4 DEF A, B
<1> QED
  BY <1>6, <1>7

(* A row that comes in leaves the others in their order, and none of them  *)
(* at an earlier place.                                                    *)
LEMMA InsertedOrder ==
  ASSUME NEW s, Listing(s), NEW n \in Ids \ ToSet(s), NEW k \in 1 .. Len(s) + 1
  PROVE  /\ Listing(InsertAt(s, k, n)) /\ ToSet(InsertAt(s, k, n)) = ToSet(s) \cup {n}
         /\ \A a \in ToSet(s), b \in ToSet(s) :
              Precedes(s, a, b) => Precedes(InsertAt(s, k, n), a, b)
<1> DEFINE t == InsertAt(s, k, n)
<1>1. /\ DOMAIN s = 1 .. Len(s) /\ Len(s) \in Nat
      /\ ToSet(s) = {s[i] : i \in 1 .. Len(s)}
      /\ \A i, j \in 1 .. Len(s) : s[i] = s[j] => i = j
  BY ListingFacts
<1>2. /\ t \in Seq(Ids) /\ Len(t) = Len(s) + 1
      /\ \A i \in 1 .. Len(s) + 1 :
           t[i] = IF i < k THEN s[i] ELSE IF i = k THEN n ELSE s[i - 1]
  <2> DEFINE p == SubSeq(s, 1, k - 1)
             q == SubSeq(s, k, Len(s))
  <2>1. /\ p \in Seq(Ids) /\ Len(p) = k - 1 /\ \A i \in 1 .. k - 1 : p[i] = s[i]
    BY <1>1 DEF Listing
  <2>2. /\ q \in Seq(Ids) /\ Len(q) = Len(s) + 1 - k
        /\ \A i \in 1 .. Len(s) + 1 - k : q[i] = s[k + i - 1]
    BY <1>1 DEF Listing
  <2> HIDE DEF p, q
  <2> DEFINE u == p \o <<n>>
  <2>3. /\ u \in Seq(Ids) /\ Len(u) = k /\ \A i \in 1 .. k : u[i] = IF i < k THEN s[i] ELSE n
    BY <2>1
  <2> HIDE DEF u
  <2>4. /\ u \o q \in Seq(Ids) /\ Len(u \o q) = Len(s) + 1
        /\ \A i \in 1 .. Len(s) + 1 : (u \o q)[i] = IF i <= k THEN u[i] ELSE q[i - k]
    BY <1>1, <2>2, <2>3
  <2>5. t = u \o q
    BY DEF InsertAt, p, q, u
  <2>6. ASSUME NEW i \in 1 .. Len(s) + 1
        PROVE  t[i] = IF i < k THEN s[i] ELSE IF i = k THEN n ELSE s[i - 1]
    <3>1. CASE i <= k
      BY <2>3, <2>4, <2>5, <3>1
    <3>2. CASE i > k
      <4>1. i - k \in 1 .. Len(s) + 1 - k /\ k + (i - k) - 1 = i - 1
        BY <1>1, <3>2
      <4>2. t[i] = q[i - k]
        BY <2>4, <2>5, <3>2
      <4> QED
        BY <2>2, <3>2, <4>1, <4>2
    <3> QED
      BY <3>1, <3>2
  <2> QED
    BY <2>4, <2>5, <2>6
<1> HIDE DEF t
<1>3. DOMAIN t = 1 .. Len(s) + 1
  BY <1>2
<1>4. IsInjective(t)
  <2> SUFFICES ASSUME NEW i \in 1 .. Len(s) + 1, NEW j \in 1 .. Len(s) + 1, t[i] = t[j]
               PROVE  i = j
    BY <1>3 DEF IsInjective
  <2> DEFINE at(x) == IF x < k THEN x ELSE x - 1
  <2>1. ASSUME NEW x \in 1 .. Len(s) + 1, x # k
        PROVE  at(x) \in 1 .. Len(s) /\ t[x] = s[at(x)] /\ t[x] # n
    BY <1>1, <1>2, <2>1
  <2>2. t[k] = n
    BY <1>2
  <2>3. CASE i = k \/ j = k
    BY <2>1, <2>2, <2>3
  <2>4. CASE i # k /\ j # k
    <3>1. at(i) = at(j)
      <4>1. at(i) \in 1 .. Len(s) /\ at(j) \in 1 .. Len(s) /\ s[at(i)] = s[at(j)]
        BY <2>1, <2>4
      <4> QED
        BY <1>1, <4>1
    <3> QED
      BY <1>1, <2>4, <3>1
  <2> QED
    BY <2>3, <2>4
<1>5. ToSet(t) = {t[i] : i \in 1 .. Len(s) + 1}
  BY <1>3 DEF ToSet
<1> DEFINE to_(i) == IF i < k THEN i ELSE i + 1
<1>6. \A i \in 1 .. Len(s) : to_(i) \in 1 .. Len(s) + 1 /\ t[to_(i)] = s[i]
  BY <1>1, <1>2
<1>7. ToSet(t) = ToSet(s) \cup {n}
  <2>1. ToSet(s) \cup {n} \subseteq ToSet(t)
    BY <1>1, <1>2, <1>5, <1>6
  <2>2. ToSet(t) \subseteq ToSet(s) \cup {n}
    <3> SUFFICES ASSUME NEW i \in 1 .. Len(s) + 1 PROVE t[i] \in ToSet(s) \cup {n}
      BY <1>5
    <3>1. (i < k => i \in 1 .. Len(s)) /\ (i > k => i - 1 \in 1 .. Len(s))
      BY <1>1
    <3> QED
      BY <1>1, <1>2, <3>1
  <2> QED
    BY <2>1, <2>2
<1>8. ASSUME NEW a \in ToSet(s), NEW b \in ToSet(s), Precedes(s, a, b) PROVE Precedes(t, a, b)
  <2>1. PICK i, j \in 1 .. Len(s) : i <= j /\ s[i] = a /\ s[j] = b
    BY <1>1, <1>8 DEF Precedes
  <2>2. to_(i) <= to_(j)
    BY <2>1
  <2> QED
    BY <1>3, <1>6, <2>1, <2>2 DEF Precedes
<1> QED
  BY <1>2, <1>4, <1>7, <1>8 DEF t, Listing

LEMMA PlaceInserted ==
  ASSUME NEW s, Listing(s), NEW t, Listing(t), ToSet(s) \subseteq ToSet(t),
         \A a \in ToSet(s), b \in ToSet(s) : Precedes(s, a, b) => Precedes(t, a, b),
         NEW L \in SUBSET ToSet(s), NEW M \in SUBSET ToSet(t), L \subseteq M, NEW k \in Nat
  PROVE  Top(t, M, k) \cap L \subseteq Top(s, L, k)
<1> SUFFICES ASSUME NEW n \in L, Place(t, M, n) <= k PROVE Place(s, L, n) <= k
  BY DEF Top
<1> DEFINE D == {m \in L : Precedes(s, m, n)}
           E == {m \in M : Precedes(t, m, n)}
<1>1. D \subseteq E
  OBVIOUS
<1>2. Place(s, L, n) = Cardinality(D) /\ Place(t, M, n) = Cardinality(E)
  BY DEF Place
<1>3. IsFiniteSet(E) /\ Cardinality(E) \in Nat /\ Cardinality(D) \in Nat
  BY ListingFinite
<1> HIDE DEF D, E
<1>4. Cardinality(D) <= Cardinality(E)
  BY <1>1, <1>3, FS_Subset
<1> QED
  BY <1>2, <1>3, <1>4

-----------------------------------------------------------------------------
(***************************************************************************)
(* What a reader of pages has passed.                                      *)
(***************************************************************************)

(* The rows of its list that a walk is past.                               *)
Passed(c) ==
  LET list == Listed(c, walk[c].kind)
  IN  IF walk[c].page = 0 THEN list
      ELSE Top(rows, list, Skipped(walk[c].page, walk[c].size))

(* A walk began with rows of its list, and knows what its user marked.     *)
WalkSound(c) ==
  walk[c] # None =>
    /\ walk[c].start \subseteq Stored /\ walk[c].marks \subseteq read
    /\ \A n \in walk[c].start : to[n] = IF walk[c].kind = "activities" THEN Log ELSE Client[c]

(* What it is past of the rows it began with it has seen.                  *)
PassedSeen(c) ==
  walk[c] # None
    /\ (walk[c].kind = "all" \/ (walk[c].kind = "activities" /\ walk[c].size <= MaxTake)) =>
      walk[c].start \cap Passed(c) \subseteq walk[c].seen

(* Or there are marks to make up for it.                                   *)
Missed(c) == (walk[c].start \cap Passed(c)) \ (walk[c].seen \cup read)

FewMissed(c) ==
  walk[c] # None /\ walk[c].kind = "unread" =>
    Cardinality(Missed(c)) <= Cardinality(walk[c].marks)

(* What its instance stored since is pushed to the client.                 *)
RestHeard(c) ==
  walk[c] # None /\ walk[c].kind = "all" /\ walk[c].live =>
    /\ room[c] # None
    /\ \A n \in Stored \ walk[c].start :
         to[n] = Client[c] /\ by[n] = room[c] /\ spelt[n] = to[n] =>
           n \in heard[c] \/ handler[by[n]] = n

WalkOK(c) == WalkSound(c) /\ PassedSeen(c) /\ FewMissed(c) /\ RestHeard(c)

(* An instance pushes what it stored.                                      *)
PushesOwn == \A i \in Instances : handler[i] # None => by[handler[i]] = i

InboxIInv == InboxTypeOK /\ PushesOwn /\ \A c \in Clients : WalkOK(c)

LEMMA RowsListing == ASSUME InboxTypeOK PROVE Listing(rows) /\ Stored = ToSet(rows)
  BY DEF InboxTypeOK, Listing, Stored

(* The rows a list selects, in one formula.                                *)
Selects(c, kind, n) ==
  /\ n \in Stored
  /\ to[n] = IF kind = "activities" THEN Log ELSE Client[c]
  /\ kind = "unread" => n \notin read

LEMMA ListedSelects ==
  ASSUME NEW c, NEW kind \in Kinds
  PROVE  /\ Listed(c, kind) = {n \in Stored : Selects(c, kind, n)}
         /\ Listed(c, kind)' = {n \in Stored' : Selects(c, kind, n)'}
<1>1. CASE kind = "all"
  BY <1>1 DEF Listed, Selects
<1>2. CASE kind = "unread"
  BY <1>2 DEF Listed, Selects
<1>3. CASE kind = "activities"
  BY <1>3 DEF Listed, Selects
<1> QED
  BY <1>1, <1>2, <1>3 DEF Kinds

LEMMA WalkTypes ==
  ASSUME InboxTypeOK, NEW c \in Clients, walk[c] # None
  PROVE  /\ walk[c] \in Walk
         /\ walk[c].kind \in Kinds /\ walk[c].size \in Nat \ {0} /\ walk[c].size \in Sizes
         /\ walk[c].page \in Nat /\ walk[c].counted \in BOOLEAN
         /\ walk[c].start \in SUBSET Ids /\ walk[c].seen \in SUBSET Ids
         /\ walk[c].marks \in SUBSET Ids /\ walk[c].live \in BOOLEAN
  BY InboxAssumption DEF InboxTypeOK, Walk

(* Pages follow each other without a gap.                                  *)
LEMMA SkippedPages ==
  ASSUME NEW page \in Nat \ {0}, NEW size \in Nat \ {0}
  PROVE  /\ Skipped(page, size) \in Nat /\ Skipped(1, size) = 0
         /\ Skipped(page, size) + size = page * size
         /\ Skipped(page + 1, size) = page * size
         /\ page * size \in Nat
<1>1. page - 1 \in Nat /\ size \in Nat /\ page = (page - 1) + 1
  OBVIOUS
<1>2. (page - 1) * size \in Nat
  BY <1>1
<1>3. ((page - 1) + 1) * size = (page - 1) * size + size
  BY <1>1
<1>4. (page + 1) - 1 = page /\ (1 - 1) * size = 0
  OBVIOUS
<1> QED
  BY <1>1, <1>2, <1>3, <1>4 DEF Skipped

LEMMA TakenAll ==
  ASSUME NEW kind \in Kinds, NEW size \in Nat \ {0}, kind = "activities" => size <= MaxTake
  PROVE  Taken(kind, size) = size
<1>1. CASE kind = "activities"
  <2>1. size <= MaxTake /\ MaxTake \in Nat
    BY <1>1, InboxAssumption
  <2>2. Min({size, MaxTake}) = size
    <3>1. size \in {size, MaxTake} /\ \A y \in {size, MaxTake} : size <= y
      BY <2>1
    <3>2. \A x \in {size, MaxTake} : (\A y \in {size, MaxTake} : x <= y) => x = size
      BY <2>1
    <3> QED
      BY <3>1, <3>2 DEF Min
  <2> QED
    BY <1>1, <2>2 DEF Taken
<1>2. CASE kind # "activities"
  BY <1>2 DEF Taken
<1> QED
  BY <1>1, <1>2

(* With a full page a walk sees what it passes.                            *)
LEMMA PagePasses ==
  ASSUME InboxTypeOK, NEW kind \in Kinds, NEW size \in Nat \ {0}, NEW page \in Nat \ {0},
         NEW L \in SUBSET Stored, kind = "activities" => size <= MaxTake
  PROVE  Top(rows, L, Skipped(page + 1, size)) \subseteq
           Top(rows, L, Skipped(page, size)) \cup Page(L, kind, page, size)
<1> DEFINE first == Skipped(page, size)
<1>1. first \in Nat /\ first + size = Skipped(page + 1, size)
  BY SkippedPages
<1>2. \A n \in L : Place(rows, L, n) \in Nat
  BY RowsListing, PlaceBounds
<1>3. Page(L, kind, page, size) = {n \in L : Place(rows, L, n) \in first + 1 .. first + size}
  BY TakenAll DEF Page
<1> HIDE DEF first
<1>4. \A n \in L : Place(rows, L, n) <= first + size =>
        Place(rows, L, n) <= first \/ Place(rows, L, n) \in first + 1 .. first + size
  BY <1>1, <1>2
<1> QED
  BY <1>1, <1>3, <1>4 DEF Top, first

(* Past the total there is no row.                                         *)
LEMMA TotalPasses ==
  ASSUME InboxTypeOK, NEW L \in SUBSET Stored, NEW k \in Nat, Cardinality(L) <= k
  PROVE  L \subseteq Top(rows, L, k)
<1>1. \A n \in L : Place(rows, L, n) \in Nat /\ Place(rows, L, n) <= Cardinality(L)
  BY RowsListing, PlaceBounds
<1>2. Cardinality(L) \in Nat
  BY RowsListing, ListingFinite
<1> QED
  BY <1>1, <1>2 DEF Top

-----------------------------------------------------------------------------

LEMMA InboxInitInv == InboxInit => InboxIInv
<1> SUFFICES ASSUME InboxInit PROVE InboxIInv
  OBVIOUS
<1>1. rows = <<>> /\ Stored = {}
  BY DEF InboxInit, Stored, ToSet
<1>2. InboxTypeOK
  BY <1>1 DEF InboxInit, InboxTypeOK, IsInjective
<1>3. PushesOwn
  BY DEF InboxInit, PushesOwn
<1>4. \A c \in Clients : WalkOK(c)
  BY DEF InboxInit, WalkOK, WalkSound, PassedSeen, FewMissed, RestHeard
<1> QED
  BY <1>2, <1>3, <1>4 DEF InboxIInv

(* A row comes in.                                                         *)
LEMMA InsertFacts ==
  ASSUME InboxTypeOK, NEW n \in Ids, NEW u \in Recipients \cup {Log}, Insert(n, u)
  PROVE  /\ n \notin Stored /\ Stored' = Stored \cup {n}
         /\ rows' \in Seq(Ids) /\ IsInjective(rows') /\ Listing(rows')
         /\ \A a \in Stored, b \in Stored : Precedes(rows, a, b) => Precedes(rows', a, b)
         /\ to' \in [Ids -> Recipients \cup {Log, None}]
         /\ to'[n] = u /\ \A m \in Ids : m # n => to'[m] = to[m]
         /\ \A m \in Ids : m \in Stored' <=> to'[m] # None
<1>1. n \notin Stored /\ to' = [to EXCEPT ![n] = u] /\ u # None
  BY InboxAssumption DEF Insert
<1>2. PICK k \in {1, 2} : k <= Len(rows) + 1 /\ rows' = InsertAt(rows, k, n)
  BY DEF Insert
<1>3. Listing(rows) /\ Len(rows) \in Nat /\ n \in Ids \ ToSet(rows)
  BY <1>1, RowsListing, ListingFacts
<1>4. k \in 1 .. Len(rows) + 1
  BY <1>2, <1>3
<1>5. /\ Listing(rows') /\ ToSet(rows') = ToSet(rows) \cup {n}
      /\ \A a \in ToSet(rows), b \in ToSet(rows) :
           Precedes(rows, a, b) => Precedes(rows', a, b)
  BY <1>2, <1>3, <1>4, InsertedOrder
<1>6. Stored' = Stored \cup {n}
  BY <1>5 DEF Stored
<1>7. /\ to' \in [Ids -> Recipients \cup {Log, None}]
      /\ to'[n] = u /\ \A m \in Ids : m # n => to'[m] = to[m]
  BY <1>1 DEF InboxTypeOK
<1>8. \A m \in Ids : m \in Stored' <=> to'[m] # None
  BY <1>1, <1>6, <1>7 DEF InboxTypeOK
<1> QED
  BY <1>1, <1>5, <1>6, <1>7, <1>8 DEF Stored, Listing

(* What is passed of the rows a walk began with stays passed by it alone.  *)
LEMMA InsertWalks ==
  ASSUME InboxIInv, NEW n \in Ids, NEW u \in Recipients \cup {Log}, Insert(n, u),
         UNCHANGED <<read, walk>>, NEW c \in Clients
  PROVE  WalkSound(c)' /\ PassedSeen(c)' /\ FewMissed(c)'
<1> DEFINE w == walk[c]
<1>0. /\ InboxTypeOK /\ WalkSound(c) /\ PassedSeen(c) /\ FewMissed(c)
  BY DEF InboxIInv, WalkOK
<1>1. /\ n \notin Stored /\ Stored' = Stored \cup {n} /\ Listing(rows') /\ Listing(rows)
      /\ Stored = ToSet(rows) /\ Stored' = ToSet(rows') /\ Stored \subseteq Ids
      /\ \A a \in Stored, b \in Stored : Precedes(rows, a, b) => Precedes(rows', a, b)
      /\ \A m \in Ids : m # n => to'[m] = to[m]
  BY <1>0, InsertFacts, RowsListing, ListingFacts DEF Stored
<1> SUFFICES ASSUME w # None PROVE WalkSound(c)' /\ PassedSeen(c)' /\ FewMissed(c)'
  BY DEF WalkSound, PassedSeen, FewMissed
<1>2. /\ w.kind \in Kinds /\ w.size \in Nat \ {0} /\ w.page \in Nat
      /\ w.start \subseteq Stored /\ w.marks \subseteq read
      /\ \A m \in w.start : to[m] = IF w.kind = "activities" THEN Log ELSE Client[c]
  BY <1>0, WalkTypes DEF WalkSound
<1>3. \A m \in w.start : to'[m] = to[m]
  BY <1>1, <1>2
<1>4. WalkSound(c)'
  BY <1>1, <1>2, <1>3 DEF WalkSound
<1>5. PICK kind \in Kinds : w.kind = kind
  BY <1>2
<1> DEFINE L == Listed(c, kind)
           M == Listed(c, kind)'
<1>6. L \in SUBSET Stored /\ M \in SUBSET Stored' /\ L \subseteq M /\ M \cap Stored \subseteq L
  <2>1. L = {m \in Stored : Selects(c, kind, m)} /\ M = {m \in Stored' : Selects(c, kind, m)'}
    BY ListedSelects
  <2>2. \A m \in Stored : Selects(c, kind, m)' <=> Selects(c, kind, m)
    BY <1>1 DEF Selects
  <2> HIDE DEF L, M
  <2> QED
    BY <1>1, <2>1, <2>2
<1>7. Passed(c) = IF w.page = 0 THEN L ELSE Top(rows, L, Skipped(w.page, w.size))
  BY <1>5 DEF Passed
<1>8. Passed(c)' = IF w.page = 0 THEN M ELSE Top(rows', M, Skipped(w.page, w.size))
  BY <1>5 DEF Passed
<1> HIDE DEF L, M
<1>9. w.page # 0 =>
        Top(rows', M, Skipped(w.page, w.size)) \cap L \subseteq Top(rows, L, Skipped(w.page, w.size))
  <2>1. w.page # 0 => Skipped(w.page, w.size) \in Nat
    BY <1>2, SkippedPages
  <2> QED
    BY <1>1, <1>6, <2>1, PlaceInserted
<1>10. w.start \cap Passed(c)' \subseteq w.start \cap Passed(c)
  <2>1. Top(rows', M, Skipped(w.page, w.size)) \subseteq M
    BY DEF Top
  <2> QED
    BY <1>2, <1>6, <1>7, <1>8, <1>9, <2>1
<1>11. PassedSeen(c)'
  BY <1>0, <1>10 DEF PassedSeen
<1>12. FewMissed(c)'
  <2>1. Missed(c)' \subseteq Missed(c)
    BY <1>10 DEF Missed
  <2>2. IsFiniteSet(Missed(c)) /\ Cardinality(w.marks) \in Nat
    <3>1. Missed(c) \in SUBSET ToSet(rows) /\ w.marks \in SUBSET ToSet(rows)
      BY <1>0, <1>1, <1>2 DEF Missed, InboxTypeOK
    <3> QED
      BY <1>1, <3>1, ListingFinite
  <2>3. /\ Cardinality(Missed(c)') <= Cardinality(Missed(c))
        /\ Cardinality(Missed(c)) \in Nat /\ Cardinality(Missed(c)') \in Nat
    <3> DEFINE A == Missed(c)
               B == Missed(c)'
    <3> HIDE DEF A, B
    <3>1. B \subseteq A /\ IsFiniteSet(A)
      BY <2>1, <2>2 DEF A, B
    <3>2. Cardinality(B) <= Cardinality(A) /\ IsFiniteSet(B)
      BY <3>1, FS_Subset
    <3> QED
      BY <3>1, <3>2, FS_CardinalityType DEF A, B
  <2> QED
    BY <1>0, <2>2, <2>3 DEF FewMissed
<1> QED
  BY <1>4, <1>11, <1>12

LEMMA StoreInv ==
  ASSUME InboxIInv, NEW i \in Instances, Store(i) PROVE InboxIInv'
<1>1. PICK n \in Ids, s \in Spellings :
        /\ Insert(n, Uuid[s])
        /\ spelt' = [spelt EXCEPT ![n] = s]
        /\ handler' = [handler EXCEPT ![i] = n]
        /\ by' = [by EXCEPT ![n] = i]
  BY DEF Store
<1> DEFINE u == Uuid[s]
<1>0. u \in Recipients
  BY InboxAssumption
<1>2. handler[i] = None /\ UNCHANGED <<read, room, heard, walk>>
  BY DEF Store
<1>3. /\ n \notin Stored /\ Stored' = Stored \cup {n}
      /\ rows' \in Seq(Ids) /\ IsInjective(rows')
      /\ to' \in [Ids -> Recipients \cup {Log, None}]
      /\ to'[n] = u /\ \A m \in Ids : m # n => to'[m] = to[m]
      /\ \A m \in Ids : m \in Stored' <=> to'[m] # None
  BY <1>0, <1>1, InsertFacts DEF InboxIInv
<1>9. /\ spelt' \in [Ids -> Spellings \cup {None}]
      /\ spelt'[n] = s /\ \A m \in Ids : m # n => spelt'[m] = spelt[m]
  BY <1>1 DEF InboxIInv, InboxTypeOK
<1>4. /\ by'[n] = i /\ \A m \in Ids : m # n => by'[m] = by[m]
      /\ handler'[i] = n /\ \A k \in Instances : k # i => handler'[k] = handler[k]
      /\ by' \in [Ids -> Instances \cup {None}]
      /\ handler' \in [Instances -> Ids \cup {None}]
  BY <1>1 DEF InboxIInv, InboxTypeOK
<1>5. Stored \subseteq Ids
  BY RowsListing, ListingFacts DEF InboxIInv
<1>6. InboxTypeOK'
  <2>4. \A m \in Stored' : to'[m] # Log => spelt'[m] \in Spellings /\ to'[m] = Uuid[spelt'[m]]
    BY <1>3, <1>5, <1>9 DEF InboxIInv, InboxTypeOK
  <2>1. read' \subseteq {m \in Stored' : to'[m] \in Recipients}
    BY <1>2, <1>3, <1>5 DEF InboxIInv, InboxTypeOK
  <2>2. \A k \in Instances : handler'[k] # None => to'[handler'[k]] \in Recipients
    <3> SUFFICES ASSUME NEW k \in Instances, k # i, handler[k] # None
                 PROVE  to'[handler[k]] \in Recipients
      BY <1>0, <1>3, <1>4
    <3>1. to[handler[k]] \in Recipients /\ handler[k] \in Ids
      BY DEF InboxIInv, InboxTypeOK
    <3>2. to[n] = None
      BY <1>3 DEF InboxIInv, InboxTypeOK
    <3> QED
      BY <1>3, <3>1, <3>2, InboxAssumption
  <2>3. heard' \in [Clients -> SUBSET Stored'] /\ \A c \in Clients : \A m \in heard'[c] : to'[m] = Client[c]
    BY <1>2, <1>3, <1>5 DEF InboxIInv, InboxTypeOK
  <2> QED
    BY <1>2, <1>3, <1>4, <1>9, <2>1, <2>2, <2>3, <2>4 DEF InboxIInv, InboxTypeOK
<1>7. PushesOwn'
  <2> SUFFICES ASSUME NEW k \in Instances, handler'[k] # None PROVE by'[handler'[k]] = k
    BY DEF PushesOwn
  <2>1. CASE k = i
    BY <1>4, <2>1
  <2>2. CASE k # i
    <3>1. handler[k] \in Ids /\ to[handler[k]] \in Recipients /\ by[handler[k]] = k
      BY <1>4, <2>2 DEF InboxIInv, InboxTypeOK, PushesOwn
    <3>2. to[n] = None
      BY <1>3 DEF InboxIInv, InboxTypeOK
    <3> QED
      BY <1>4, <2>2, <3>1, <3>2, InboxAssumption
  <2> QED
    BY <2>1, <2>2
<1>8. ASSUME NEW c \in Clients PROVE WalkOK(c)'
  <2>1. WalkSound(c)' /\ PassedSeen(c)' /\ FewMissed(c)'
    BY <1>0, <1>1, <1>2, InsertWalks
  <2>2. RestHeard(c)'
    <3> SUFFICES ASSUME walk[c] # None, walk[c].kind = "all", walk[c].live
                 PROVE  /\ room[c] # None
                        /\ \A m \in Stored' \ walk[c].start :
                             to'[m] = Client[c] /\ by'[m] = room[c] /\ spelt'[m] = to'[m] =>
                               m \in heard[c] \/ handler'[by'[m]] = m
      BY <1>2 DEF RestHeard
    <3>1. /\ room[c] # None /\ room[c] \in Instances
          /\ \A m \in Stored \ walk[c].start :
               to[m] = Client[c] /\ by[m] = room[c] /\ spelt[m] = to[m] =>
                 m \in heard[c] \/ handler[by[m]] = m
      BY DEF InboxIInv, WalkOK, RestHeard, InboxTypeOK
    <3> SUFFICES ASSUME NEW m \in Stored' \ walk[c].start, to'[m] = Client[c], by'[m] = room[c],
                        spelt'[m] = to'[m]
                 PROVE  m \in heard[c] \/ handler'[by'[m]] = m
      BY <3>1
    <3>2. CASE m = n
      BY <1>4, <3>2
    <3>3. CASE m # n
      <4>1. /\ m \in Stored \ walk[c].start /\ to[m] = Client[c] /\ by[m] = room[c]
            /\ spelt[m] = to[m]
        BY <1>3, <1>4, <1>5, <1>9, <3>3
      <4>2. m \in Ids /\ m # None
        BY <1>5, <4>1, InboxAssumption
      <4> QED
        BY <1>2, <1>4, <3>1, <3>3, <4>1, <4>2
    <3> QED
      BY <3>2, <3>3
  <2> QED
    BY <2>1, <2>2 DEF WalkOK
<1> QED
  BY <1>6, <1>7, <1>8 DEF InboxIInv

LEMMA RecordInv == ASSUME InboxIInv, Record PROVE InboxIInv'
<1>1. PICK n \in Ids : Insert(n, Log)
  BY DEF Record
<1>2. UNCHANGED <<spelt, read, by, handler, room, heard, walk>>
  BY DEF Record
<1>3. /\ n \notin Stored /\ Stored' = Stored \cup {n}
      /\ rows' \in Seq(Ids) /\ IsInjective(rows')
      /\ to' \in [Ids -> Recipients \cup {Log, None}]
      /\ to'[n] = Log /\ \A m \in Ids : m # n => to'[m] = to[m]
      /\ \A m \in Ids : m \in Stored' <=> to'[m] # None
      /\ to[n] = None
  BY <1>1, InsertFacts DEF InboxIInv, InboxTypeOK
<1>4. Stored \subseteq Ids
  BY RowsListing, ListingFacts DEF InboxIInv
<1>5. InboxTypeOK'
  <2>4. \A m \in Stored' : to'[m] # Log => spelt'[m] \in Spellings /\ to'[m] = Uuid[spelt'[m]]
    BY <1>2, <1>3, <1>4 DEF InboxIInv, InboxTypeOK
  <2>1. read' \subseteq {m \in Stored' : to'[m] \in Recipients}
    BY <1>2, <1>3, <1>4 DEF InboxIInv, InboxTypeOK
  <2>2. \A k \in Instances : handler'[k] # None => to'[handler'[k]] \in Recipients
    <3> SUFFICES ASSUME NEW k \in Instances, handler[k] # None
                 PROVE  to'[handler[k]] \in Recipients
      BY <1>2
    <3>1. to[handler[k]] \in Recipients /\ handler[k] \in Ids
      BY DEF InboxIInv, InboxTypeOK
    <3> QED
      BY <1>3, <3>1, InboxAssumption
  <2>3. heard' \in [Clients -> SUBSET Stored'] /\ \A c \in Clients : \A m \in heard'[c] : to'[m] = Client[c]
    BY <1>2, <1>3, <1>4 DEF InboxIInv, InboxTypeOK
  <2> QED
    BY <1>2, <1>3, <2>1, <2>2, <2>3, <2>4 DEF InboxIInv, InboxTypeOK
<1>6. PushesOwn'
  BY <1>2 DEF InboxIInv, PushesOwn
<1>7. ASSUME NEW c \in Clients PROVE WalkOK(c)'
  <2>1. WalkSound(c)' /\ PassedSeen(c)' /\ FewMissed(c)'
    BY <1>1, <1>2, InsertWalks
  <2>2. Client[c] # Log
    BY InboxAssumption
  <2>3. RestHeard(c)'
    BY <1>2, <1>3, <1>4, <2>2 DEF InboxIInv, WalkOK, RestHeard
  <2> QED
    BY <2>1, <2>3 DEF WalkOK
<1> QED
  BY <1>5, <1>6, <1>7 DEF InboxIInv

-----------------------------------------------------------------------------
(* Sockets.                                                                *)

(* The rows and read marks stay, and of the walks only live may change.    *)
LEMMA SocketWalks ==
  ASSUME InboxIInv, UNCHANGED <<rows, to, spelt, read>>, NEW c \in Clients,
         walk[c] = None => walk'[c] = None,
         walk[c] # None => /\ walk'[c].kind = walk[c].kind /\ walk'[c].size = walk[c].size
                           /\ walk'[c].page = walk[c].page /\ walk'[c].start = walk[c].start
                           /\ walk'[c].seen = walk[c].seen /\ walk'[c].marks = walk[c].marks
  PROVE  WalkSound(c)' /\ PassedSeen(c)' /\ FewMissed(c)'
<1> SUFFICES ASSUME walk[c] # None PROVE WalkSound(c)' /\ PassedSeen(c)' /\ FewMissed(c)'
  BY DEF WalkSound, PassedSeen, FewMissed
<1>1. walk[c].kind \in Kinds /\ WalkSound(c) /\ PassedSeen(c) /\ FewMissed(c)
  BY WalkTypes DEF InboxIInv, WalkOK
<1>2. PICK kind \in Kinds : walk[c].kind = kind
  BY <1>1
<1>3. Listed(c, kind)' = Listed(c, kind)
  BY DEF Listed, Stored
<1>4. Passed(c)' = Passed(c)
  BY <1>2, <1>3 DEF Passed
<1> QED
  BY <1>1, <1>4 DEF WalkSound, PassedSeen, FewMissed, Missed, Stored

LEMMA PushInv ==
  ASSUME InboxIInv, NEW i \in Instances, Push(i) PROVE InboxIInv'
<1> DEFINE n == handler[i]
<1>1. /\ n # None /\ UNCHANGED <<rows, to, spelt, read, by, room, walk>>
      /\ heard' = [c \in Clients |-> IF InRoom(c, i, spelt[n]) THEN heard[c] \cup {n} ELSE heard[c]]
      /\ handler' = [handler EXCEPT ![i] = None]
  BY DEF Push
<1>2. /\ handler'[i] = None /\ \A k \in Instances : k # i => handler'[k] = handler[k]
      /\ handler' \in [Instances -> Ids \cup {None}] /\ n \in Ids
  BY <1>1 DEF InboxIInv, InboxTypeOK
<1>3. n \in Stored
  BY <1>1, <1>2, InboxAssumption DEF InboxIInv, InboxTypeOK
<1>4. InboxTypeOK'
  <2>1. \A c \in Clients : InRoom(c, i, spelt[n]) => to[n] = Client[c]
    <3>1. to[n] \in Recipients /\ to[n] = Uuid[spelt[n]]
      BY <1>1, <1>2, <1>3, InboxAssumption DEF InboxIInv, InboxTypeOK
    <3> QED
      BY <3>1, InboxAssumption DEF InRoom
  <2>2. heard' \in [Clients -> SUBSET Stored] /\ \A c \in Clients : \A m \in heard'[c] : to[m] = Client[c]
    BY <1>1, <1>3, <2>1 DEF InboxIInv, InboxTypeOK
  <2> QED
    BY <1>1, <1>2, <2>2 DEF InboxIInv, InboxTypeOK, Stored
<1>5. PushesOwn'
  BY <1>1, <1>2 DEF InboxIInv, PushesOwn
<1>6. ASSUME NEW c \in Clients PROVE WalkOK(c)'
  <2>1. WalkSound(c)' /\ PassedSeen(c)' /\ FewMissed(c)'
    BY <1>1, SocketWalks
  <2>2. RestHeard(c)'
    <3> SUFFICES ASSUME walk[c] # None, walk[c].kind = "all", walk[c].live
                 PROVE  /\ room[c] # None
                        /\ \A m \in Stored \ walk[c].start :
                             to[m] = Client[c] /\ by[m] = room[c] /\ spelt[m] = to[m] =>
                               m \in heard'[c] \/ handler'[by[m]] = m
      BY <1>1 DEF RestHeard, Stored
    <3>1. /\ room[c] # None /\ room[c] \in Instances
          /\ \A m \in Stored \ walk[c].start :
               to[m] = Client[c] /\ by[m] = room[c] /\ spelt[m] = to[m] =>
                 m \in heard[c] \/ handler[by[m]] = m
      BY DEF InboxIInv, WalkOK, RestHeard, InboxTypeOK
    <3> SUFFICES ASSUME NEW m \in Stored \ walk[c].start, to[m] = Client[c], by[m] = room[c],
                        spelt[m] = to[m]
                 PROVE  m \in heard'[c] \/ handler'[by[m]] = m
      BY <3>1
    <3>2. heard[c] \subseteq heard'[c]
      BY <1>1
    <3>3. CASE by[m] = i /\ handler[i] = m
      <4>1. InRoom(c, i, spelt[m])
        BY <3>3 DEF InRoom
      <4> QED
        BY <1>1, <3>3, <4>1
    <3>4. CASE ~ (by[m] = i /\ handler[i] = m)
      BY <1>2, <3>1, <3>2, <3>4
    <3> QED
      BY <3>3, <3>4
  <2> QED
    BY <2>1, <2>2 DEF WalkOK
<1> QED
  BY <1>4, <1>5, <1>6 DEF InboxIInv

LEMMA ConnectInv ==
  ASSUME InboxIInv, NEW c \in Clients, NEW i \in Instances, Connect(c, i) PROVE InboxIInv'
<1>1. /\ room[c] = None /\ room' = [room EXCEPT ![c] = i]
      /\ UNCHANGED <<rows, to, spelt, read, by, handler, heard, walk>>
  BY DEF Connect
<1>2. InboxTypeOK' /\ PushesOwn'
  BY <1>1 DEF InboxIInv, InboxTypeOK, PushesOwn, Stored
<1>3. ASSUME NEW d \in Clients PROVE WalkOK(d)'
  <2>1. WalkSound(d)' /\ PassedSeen(d)' /\ FewMissed(d)'
    BY <1>1, SocketWalks
  <2>2. d # c => room'[d] = room[d]
    BY <1>1 DEF InboxIInv, InboxTypeOK
  <2>3. RestHeard(d) /\ (d = c => room[d] = None)
    BY <1>1 DEF InboxIInv, WalkOK
  <2>4. RestHeard(d)'
    BY <1>1, <2>2, <2>3 DEF RestHeard, Stored
  <2> QED
    BY <2>1, <2>4 DEF WalkOK
<1> QED
  BY <1>2, <1>3 DEF InboxIInv

(* What a client that loses its socket heard does not count.               *)
LEMMA DropFacts ==
  ASSUME InboxIInv, NEW lost, Drop(lost), UNCHANGED <<rows, to, spelt, read>>, NEW c \in Clients
  PROVE  /\ WalkSound(c)' /\ PassedSeen(c)' /\ FewMissed(c)'
         /\ walk'[c] = None \/ walk'[c] \in Walk
         /\ walk[c] = None => walk'[c] = None
         /\ c \in lost /\ walk[c] # None => ~ walk'[c].live
         /\ c \notin lost => walk'[c] = walk[c] /\ heard'[c] = heard[c] /\ room'[c] = room[c]
<1>1. walk'[c] = IF c \in lost /\ walk[c] # None
                 THEN [walk[c] EXCEPT !.live = FALSE] ELSE walk[c]
  BY DEF Drop
<1>2. c \notin lost => walk'[c] = walk[c] /\ heard'[c] = heard[c] /\ room'[c] = room[c]
  BY DEF Drop
<1>3. CASE walk[c] = None
  BY <1>1, <1>2, <1>3, SocketWalks
<1>4. CASE walk[c] # None
  <2>1. walk[c] \in Walk
    BY <1>4, WalkTypes DEF InboxIInv
  <2>2. /\ walk'[c].kind = walk[c].kind /\ walk'[c].size = walk[c].size
        /\ walk'[c].page = walk[c].page /\ walk'[c].start = walk[c].start
        /\ walk'[c].seen = walk[c].seen /\ walk'[c].marks = walk[c].marks
        /\ walk'[c] \in Walk /\ (c \in lost => ~ walk'[c].live)
    BY <1>1, <1>4, <2>1 DEF Walk
  <2>3. WalkSound(c)' /\ PassedSeen(c)' /\ FewMissed(c)'
    BY <1>4, <2>2, SocketWalks
  <2> QED
    BY <1>2, <1>4, <2>2, <2>3
<1> QED
  BY <1>3, <1>4

LEMMA DropTypes ==
  ASSUME InboxIInv, NEW lost, Drop(lost), UNCHANGED <<rows, to, spelt, read, by>>,
         handler' \in [Instances -> Ids \cup {None}],
         \A k \in Instances : handler'[k] # None => handler'[k] = handler[k]
  PROVE  InboxTypeOK' /\ PushesOwn'
<1>1. /\ room' \in [Clients -> Instances \cup {None}]
      /\ heard' \in [Clients -> SUBSET Stored]
      /\ \A c \in Clients : \A n \in heard'[c] : to[n] = Client[c]
      /\ DOMAIN walk' = Clients
  BY DEF Drop, InboxIInv, InboxTypeOK
<1>2. \A c \in Clients : walk'[c] = None \/ walk'[c] \in Walk
  BY DropFacts
<1> QED
  BY <1>1, <1>2 DEF InboxIInv, InboxTypeOK, PushesOwn, Stored

LEMMA DisconnectInv ==
  ASSUME InboxIInv, NEW d \in Clients, Disconnect(d) PROVE InboxIInv'
<1>1. Drop({d}) /\ UNCHANGED <<rows, to, spelt, read, by, handler>>
  BY DEF Disconnect
<1>2. InboxTypeOK' /\ PushesOwn'
  BY <1>1, DropTypes DEF InboxIInv, InboxTypeOK
<1>3. ASSUME NEW c \in Clients PROVE WalkOK(c)'
  <2>1. /\ WalkSound(c)' /\ PassedSeen(c)' /\ FewMissed(c)'
        /\ walk[c] = None => walk'[c] = None
        /\ c = d /\ walk[c] # None => ~ walk'[c].live
        /\ c # d => walk'[c] = walk[c] /\ heard'[c] = heard[c] /\ room'[c] = room[c]
    BY <1>1, DropFacts
  <2>2. RestHeard(c)'
    BY <1>1, <2>1 DEF InboxIInv, WalkOK, RestHeard, Stored
  <2> QED
    BY <2>1, <2>2 DEF WalkOK
<1> QED
  BY <1>2, <1>3 DEF InboxIInv

LEMMA DieInv ==
  ASSUME InboxIInv, NEW i \in Instances, Die(i) PROVE InboxIInv'
<1> DEFINE lost == {c \in Clients : room[c] = i}
<1>1. /\ Drop(lost) /\ UNCHANGED <<rows, to, spelt, read, by>>
      /\ handler' = [handler EXCEPT ![i] = None]
  BY DEF Die
<1>2. /\ handler' \in [Instances -> Ids \cup {None}] /\ handler'[i] = None
      /\ \A k \in Instances : k # i => handler'[k] = handler[k]
  BY <1>1 DEF InboxIInv, InboxTypeOK
<1>3. InboxTypeOK' /\ PushesOwn'
  <2>1. \A k \in Instances : handler'[k] # None => handler'[k] = handler[k]
    BY <1>2
  <2> HIDE DEF lost
  <2> QED
    BY <1>1, <1>2, <2>1, DropTypes
<1>4. ASSUME NEW c \in Clients PROVE WalkOK(c)'
  <2>1. /\ WalkSound(c)' /\ PassedSeen(c)' /\ FewMissed(c)'
        /\ walk[c] = None => walk'[c] = None
        /\ c \in lost /\ walk[c] # None => ~ walk'[c].live
        /\ c \notin lost => walk'[c] = walk[c] /\ heard'[c] = heard[c] /\ room'[c] = room[c]
    <3> HIDE DEF lost
    <3> QED
      BY <1>1, DropFacts
  <2>2. CASE c \in lost
    BY <2>1, <2>2 DEF WalkOK, RestHeard
  <2>3. CASE c \notin lost
    <3>1. RestHeard(c) /\ room[c] \in Instances \cup {None} /\ room[c] # i
      BY <2>3 DEF InboxIInv, WalkOK, InboxTypeOK
    <3>2. RestHeard(c)'
      BY <1>1, <1>2, <2>1, <2>3, <3>1 DEF RestHeard, Stored
    <3> QED
      BY <2>1, <3>2 DEF WalkOK
  <2> QED
    BY <2>2, <2>3
<1> QED
  BY <1>3, <1>4 DEF InboxIInv

-----------------------------------------------------------------------------
(* Pages and marks.                                                        *)

(* A page changes the walk of one client, and nothing else.                *)
LEMMA PageStep ==
  ASSUME InboxIInv, UNCHANGED <<rows, to, spelt, read, by, handler, room, heard>>,
         NEW c \in Clients, NEW w \in Walk, walk' = [walk EXCEPT ![c] = w], WalkOK(c)'
  PROVE  InboxIInv'
<1>1. walk'[c] = w /\ \A d \in Clients : d # c => walk'[d] = walk[d]
  BY DEF InboxIInv, InboxTypeOK
<1>2. InboxTypeOK' /\ PushesOwn'
  BY <1>1 DEF InboxIInv, InboxTypeOK, PushesOwn, Stored
<1>3. ASSUME NEW d \in Clients, d # c PROVE WalkOK(d)'
  <2>1. WalkSound(d)' /\ PassedSeen(d)' /\ FewMissed(d)'
    BY <1>1, <1>3, SocketWalks
  <2>2. RestHeard(d)'
    BY <1>1, <1>3 DEF InboxIInv, WalkOK, RestHeard, Stored
  <2> QED
    BY <2>1, <2>2 DEF WalkOK
<1> QED
  BY <1>2, <1>3 DEF InboxIInv

LEMMA FirstPageInv ==
  ASSUME InboxIInv, NEW c \in Clients, NEW kind \in Kinds, NEW size \in Sizes,
         FirstPage(c, kind, size)
  PROVE  InboxIInv'
<1> DEFINE list == Listed(c, kind)
           seen == Page(list, kind, 1, size)
           w == [kind |-> kind, size |-> size, page |-> 2, counted |-> FALSE, start |-> list,
                 seen |-> seen, marks |-> {}, live |-> room[c] # None]
<1>1. /\ walk' = [walk EXCEPT ![c] = w]
      /\ UNCHANGED <<rows, to, spelt, read, by, handler, room, heard>>
  BY DEF FirstPage
<1>2. size \in Nat \ {0} /\ 1 \in Nat \ {0}
  BY InboxAssumption
<1>3. Listing(rows) /\ Stored = ToSet(rows) /\ Stored \subseteq Ids
  BY RowsListing, ListingFacts DEF InboxIInv
<1>4. list = {n \in Stored : Selects(c, kind, n)} /\ list' = list
  <2>1. list = {n \in Stored : Selects(c, kind, n)}
    BY ListedSelects
  <2>2. list' = list
    BY <1>1 DEF Listed, Stored
  <2> QED
    BY <2>1, <2>2
<1>5. seen \in SUBSET list
  BY DEF Page
<1>6. (kind = "activities" => size <= MaxTake) => Top(rows, list, Skipped(2, size)) \subseteq seen
  <2> SUFFICES ASSUME kind = "activities" => size <= MaxTake
               PROVE  Top(rows, list, Skipped(2, size)) \subseteq seen
    OBVIOUS
  <2>1. list \in SUBSET Stored
    BY <1>4
  <2> HIDE DEF list
  <2>2. Top(rows, list, Skipped(2, size)) \subseteq Top(rows, list, Skipped(1, size)) \cup seen
    <3>1. Top(rows, list, Skipped(1 + 1, size)) \subseteq Top(rows, list, Skipped(1, size)) \cup seen
      BY <1>2, <2>1, PagePasses DEF InboxIInv
    <3>2. 1 + 1 = 2
      OBVIOUS
    <3> HIDE DEF seen
    <3> QED
      BY <3>1, <3>2
  <2>3. Top(rows, list, Skipped(1, size)) = {}
    <3>1. Skipped(1, size) = 0
      BY <1>2, SkippedPages
    <3>2. \A n \in list : Place(rows, list, n) \in Nat /\ Place(rows, list, n) >= 1
      BY <1>3, <2>1, PlaceBounds
    <3> QED
      BY <3>1, <3>2 DEF Top
  <2> QED
    BY <2>2, <2>3
<1>7. w \in Walk
  <2>1. (room[c] # None) \in BOOLEAN
    OBVIOUS
  <2>2. list \in SUBSET Ids /\ seen \in SUBSET Ids
    BY <1>3, <1>4, <1>5
  <2> HIDE DEF list, seen
  <2> QED
    BY <1>5, <2>1, <2>2 DEF Walk
<1>8. walk'[c] = w
  BY <1>1 DEF InboxIInv, InboxTypeOK
<1>9. WalkSound(c)'
  BY <1>1, <1>4, <1>8 DEF WalkSound, Stored, Selects
<1>10. Passed(c)' = Top(rows, list, Skipped(2, size))
  <2>1. Listed(c, kind)' = list
    BY <1>4
  <2> HIDE DEF list, seen
  <2> QED
    BY <1>1, <1>8, <2>1 DEF Passed
<1>11. PassedSeen(c)'
  <2> HIDE DEF list, seen
  <2> QED
    BY <1>6, <1>8, <1>10 DEF PassedSeen
<1>12. FewMissed(c)'
  <2> SUFFICES ASSUME kind = "unread"
               PROVE  Cardinality(Missed(c)') <= Cardinality(walk'[c].marks)
    BY <1>8 DEF FewMissed
  <2>1. Missed(c)' = {}
    BY <1>6, <1>8, <1>10 DEF Missed
  <2>2. walk'[c].marks = {}
    BY <1>8
  <2> QED
    BY <2>1, <2>2, FS_EmptySet
<1>13. RestHeard(c)'
  <2>1. kind = "all" => \A n \in Stored : to[n] = Client[c] => n \in list
    BY <1>4 DEF Selects
  <2>2. /\ walk'[c].kind = kind /\ walk'[c].start = list
        /\ walk'[c].live => room[c] # None
    <3>1. w.kind = kind /\ w.start = list
      BY Zenon
    <3>2. w.live = (room[c] # None)
      BY Zenon
    <3> HIDE DEF list, seen, w
    <3>3. walk'[c].live = (room[c] # None)
      BY <1>8, <3>2, Zenon
    <3> QED
      BY <1>8, <3>1, <3>3, Zenon
  <2>3. UNCHANGED <<rows, to, spelt, by, handler, room, heard>>
    BY <1>1
  <2> HIDE DEF list, seen, w
  <2> QED
    BY <2>1, <2>2, <2>3 DEF RestHeard, Stored
<1> HIDE DEF w
<1> QED
  BY <1>1, <1>7, <1>9, <1>11, <1>12, <1>13, PageStep DEF WalkOK

LEMMA FurtherPageInv ==
  ASSUME InboxIInv, NEW c \in Clients, FurtherPage(c) PROVE InboxIInv'
<1>1. PICK kind \in Kinds : walk[c].kind = kind
  BY WalkTypes DEF FurtherPage, InboxIInv
<1> DEFINE v == walk[c]
           list == Listed(c, kind)
           page == Page(list, kind, v.page, v.size)
           w == [v EXCEPT !.seen = v.seen \cup page, !.page = v.page + 1, !.counted = FALSE]
<1>2. v # None /\ v.page # 0 /\ UNCHANGED <<rows, to, spelt, read, by, handler, room, heard>>
  BY DEF FurtherPage
<1>3. /\ v \in Walk /\ v.size \in Nat \ {0} /\ v.page \in Nat \ {0} /\ v.seen \in SUBSET Ids
      /\ WalkSound(c) /\ PassedSeen(c) /\ FewMissed(c) /\ RestHeard(c)
  BY <1>2, WalkTypes DEF InboxIInv, WalkOK
<1>4. walk' = [walk EXCEPT ![c] = w]
  BY <1>1 DEF FurtherPage, InboxIInv, InboxTypeOK
<1>5. Listing(rows) /\ Stored = ToSet(rows) /\ Stored \subseteq Ids
  BY RowsListing, ListingFacts DEF InboxIInv
<1>6. list \in SUBSET Stored /\ list' = list
  <2>1. list = {n \in Stored : Selects(c, kind, n)}
    BY ListedSelects
  <2>2. list' = list
    BY <1>2 DEF Listed, Stored
  <2> QED
    BY <2>1, <2>2
<1>7. v.page + 1 \in Nat /\ v.page + 1 # 0 /\ page \in SUBSET list
  BY <1>3 DEF Page
<1>8. Passed(c) = Top(rows, list, Skipped(v.page, v.size))
  BY <1>1, <1>2 DEF Passed
<1>9. (kind = "activities" => v.size <= MaxTake) =>
        Top(rows, list, Skipped(v.page + 1, v.size)) \subseteq Passed(c) \cup page
  <2> HIDE DEF list
  <2> QED
    BY <1>3, <1>6, <1>8, PagePasses DEF InboxIInv
<1>10. w \in Walk /\ walk'[c] = w
  <2>1. page \in SUBSET Ids
    BY <1>5, <1>6, <1>7
  <2> HIDE DEF page
  <2> QED
    BY <1>3, <1>4, <1>7, <2>1 DEF Walk, InboxIInv, InboxTypeOK
<1>11. /\ w.kind = kind /\ w.size = v.size /\ w.page = v.page + 1 /\ w.start = v.start
       /\ w.seen = v.seen \cup page /\ w.marks = v.marks /\ w.live = v.live
  <2> HIDE DEF page
  <2> QED
    BY <1>1, <1>3 DEF Walk
<1>12. Passed(c)' = Top(rows, list, Skipped(v.page + 1, v.size))
  <2>1. Listed(c, kind)' = list
    BY <1>6
  <2> HIDE DEF list, page, w
  <2> QED
    BY <1>2, <1>7, <1>10, <1>11, <2>1 DEF Passed
<1> HIDE DEF list, page, w
<1>13. WalkSound(c)'
  BY <1>1, <1>2, <1>3, <1>10, <1>11 DEF WalkSound, Stored
<1>14. PassedSeen(c)'
  BY <1>1, <1>2, <1>3, <1>9, <1>10, <1>11, <1>12 DEF PassedSeen
<1>15. FewMissed(c)'
  <2> SUFFICES ASSUME kind = "unread"
               PROVE  Cardinality(Missed(c)') <= Cardinality(v.marks)
    BY <1>10, <1>11 DEF FewMissed
  <2> DEFINE A == Missed(c)
             B == Missed(c)'
  <2>1. B \subseteq A
    BY <1>2, <1>9, <1>10, <1>11, <1>12 DEF Missed
  <2>2. IsFiniteSet(A) /\ Cardinality(v.marks) \in Nat
    <3>1. A \in SUBSET ToSet(rows) /\ v.marks \in SUBSET ToSet(rows)
      BY <1>2, <1>3, <1>5 DEF Missed, WalkSound, InboxIInv, InboxTypeOK
    <3> HIDE DEF A
    <3> QED
      BY <1>5, <3>1, ListingFinite
  <2>3. Cardinality(A) <= Cardinality(v.marks)
    BY <1>1, <1>2, <1>3 DEF FewMissed
  <2> HIDE DEF A, B
  <2>4. Cardinality(B) <= Cardinality(A) /\ Cardinality(A) \in Nat /\ Cardinality(B) \in Nat
    BY <2>1, <2>2, FS_Subset, FS_CardinalityType
  <2>5. Cardinality(B) <= Cardinality(v.marks)
    BY <2>2, <2>3, <2>4
  <2> QED
    BY <2>5 DEF B
<1>16. RestHeard(c)'
  BY <1>1, <1>2, <1>3, <1>10, <1>11 DEF RestHeard, Stored
<1> QED
  BY <1>2, <1>4, <1>10, <1>13, <1>14, <1>15, <1>16, PageStep DEF WalkOK

(* The total ends a walk that is past all of its list.                     *)
LEMMA CountRowsInv ==
  ASSUME InboxIInv, NEW c \in Clients, CountRows(c) PROVE InboxIInv'
<1>1. PICK kind \in Kinds : walk[c].kind = kind
  BY WalkTypes DEF CountRows, InboxIInv
<1> DEFINE v == walk[c]
           list == Listed(c, kind)
           k == Skipped(v.page, v.size)
           next == IF k < Cardinality(list) THEN v.page ELSE 0
           w == [v EXCEPT !.counted = TRUE, !.page = next]
<1>2. /\ v # None /\ v.page # 0
      /\ UNCHANGED <<rows, to, spelt, read, by, handler, room, heard>>
  BY DEF CountRows
<1>3. /\ v \in Walk /\ v.size \in Nat \ {0} /\ v.page \in Nat \ {0}
      /\ WalkSound(c) /\ PassedSeen(c) /\ FewMissed(c) /\ RestHeard(c)
  BY <1>2, WalkTypes DEF InboxIInv, WalkOK
<1>4. walk' = [walk EXCEPT ![c] = w]
  BY <1>1 DEF CountRows, InboxIInv, InboxTypeOK
<1>5. list \in SUBSET Stored /\ list' = list
  <2>1. list = {n \in Stored : Selects(c, kind, n)}
    BY ListedSelects
  <2>2. list' = list
    BY <1>2 DEF Listed, Stored
  <2> QED
    BY <2>1, <2>2
<1>6. Passed(c) = Top(rows, list, k)
  BY <1>1, <1>2 DEF Passed
<1>7. next = 0 => list \subseteq Passed(c)
  <2>1. k \in Nat
    BY <1>3, SkippedPages
  <2>2. Cardinality(list) \in Nat
    BY <1>5, RowsListing, ListingFinite DEF InboxIInv
  <2> HIDE DEF list, k
  <2> QED
    BY <1>3, <1>5, <1>6, <2>1, <2>2, TotalPasses DEF InboxIInv
<1>8. next \in Nat /\ (next = 0 \/ next = v.page)
  BY <1>3
<1> HIDE DEF next
<1>9. /\ w \in Walk /\ walk'[c] = w
      /\ w.kind = kind /\ w.size = v.size /\ w.page = next /\ w.start = v.start
      /\ w.seen = v.seen /\ w.marks = v.marks /\ w.live = v.live
  BY <1>1, <1>3, <1>4, <1>8 DEF Walk, InboxIInv, InboxTypeOK
<1>10. Passed(c)' = IF next = 0 THEN list ELSE Top(rows, list, k)
  <2>1. Listed(c, kind)' = list
    BY <1>5
  <2> HIDE DEF list, w
  <2>2. Passed(c)' = IF next = 0 THEN list ELSE Top(rows, list, Skipped(next, v.size))
    BY <1>2, <1>9, <2>1 DEF Passed
  <2> QED
    BY <1>8, <2>2
<1>11. Passed(c)' \subseteq Passed(c)
  <2> HIDE DEF list, k
  <2> QED
    BY <1>6, <1>7, <1>10
<1> HIDE DEF list, k, w
<1>12. WalkSound(c)'
  BY <1>1, <1>2, <1>3, <1>9 DEF WalkSound, Stored
<1>13. PassedSeen(c)'
  BY <1>1, <1>2, <1>3, <1>9, <1>11 DEF PassedSeen
<1>14. FewMissed(c)'
  <2> SUFFICES ASSUME kind = "unread"
               PROVE  Cardinality(Missed(c)') <= Cardinality(v.marks)
    BY <1>9 DEF FewMissed
  <2> DEFINE A == Missed(c)
             B == Missed(c)'
  <2>1. B \subseteq A
    BY <1>2, <1>9, <1>11 DEF Missed
  <2>2. IsFiniteSet(A) /\ Cardinality(v.marks) \in Nat
    <3>1. A \in SUBSET ToSet(rows) /\ v.marks \in SUBSET ToSet(rows) /\ Listing(rows)
      BY <1>2, <1>3, RowsListing DEF Missed, WalkSound, InboxIInv, InboxTypeOK
    <3> HIDE DEF A
    <3> QED
      BY <3>1, ListingFinite
  <2>3. Cardinality(A) <= Cardinality(v.marks)
    BY <1>1, <1>2, <1>3 DEF FewMissed
  <2> HIDE DEF A, B
  <2>4. Cardinality(B) <= Cardinality(A) /\ Cardinality(A) \in Nat /\ Cardinality(B) \in Nat
    BY <2>1, <2>2, FS_Subset, FS_CardinalityType
  <2>5. Cardinality(B) <= Cardinality(v.marks)
    BY <2>2, <2>3, <2>4
  <2> QED
    BY <2>5 DEF B
<1>15. RestHeard(c)'
  BY <1>1, <1>2, <1>3, <1>9 DEF RestHeard, Stored
<1> QED
  BY <1>2, <1>4, <1>9, <1>12, <1>13, <1>14, <1>15, PageStep DEF WalkOK

(* Marked rows leave the lists of the unread; each lifts one other.        *)
LEMMA MarkInv ==
  ASSUME InboxIInv, NEW u \in Recipients,
         NEW M \in SUBSET {n \in Stored \ read : to[n] = u}, Mark(u, M)
  PROVE  InboxIInv'
<1>1. /\ read' = read \cup M /\ UNCHANGED <<rows, to, spelt, by, handler, room, heard>>
      /\ walk' = [c \in Clients |->
                    IF Client[c] = u /\ walk[c] # None /\ walk[c].page # 0
                    THEN [walk[c] EXCEPT !.marks = walk[c].marks \cup M] ELSE walk[c]]
  BY DEF Mark
<1>2. Listing(rows) /\ Stored = ToSet(rows) /\ Stored \subseteq Ids
  BY RowsListing, ListingFacts DEF InboxIInv
<1>3. ASSUME NEW c \in Clients
      PROVE  /\ walk[c] = None => walk'[c] = None
             /\ walk[c] # None =>
                  /\ walk'[c] \in Walk
                  /\ walk'[c].kind = walk[c].kind /\ walk'[c].size = walk[c].size
                  /\ walk'[c].page = walk[c].page /\ walk'[c].start = walk[c].start
                  /\ walk'[c].seen = walk[c].seen /\ walk'[c].live = walk[c].live
                  /\ walk'[c].marks = IF Client[c] = u /\ walk[c].page # 0
                                      THEN walk[c].marks \cup M ELSE walk[c].marks
  <2>1. walk'[c] = IF Client[c] = u /\ walk[c] # None /\ walk[c].page # 0
                   THEN [walk[c] EXCEPT !.marks = walk[c].marks \cup M] ELSE walk[c]
    BY <1>1
  <2>2. CASE walk[c] = None
    BY <2>1, <2>2
  <2>3. CASE walk[c] # None
    <3>1. walk[c] \in Walk /\ M \in SUBSET Ids
      BY <1>2, <2>3, WalkTypes DEF InboxIInv
    <3>2. CASE Client[c] = u /\ walk[c].page # 0
      BY <2>1, <2>3, <3>1, <3>2 DEF Walk
    <3>3. CASE ~ (Client[c] = u /\ walk[c].page # 0)
      BY <2>1, <2>3, <3>1, <3>3 DEF Walk
    <3> QED
      BY <3>2, <3>3
  <2> QED
    BY <2>2, <2>3
<1>4. InboxTypeOK' /\ PushesOwn'
  <2>1. DOMAIN walk' = Clients
    BY <1>1
  <2>2. \A c \in Clients : walk'[c] = None \/ walk'[c] \in Walk
    BY <1>3
  <2>3. read' \subseteq {n \in Stored : to[n] \in Recipients}
    BY <1>1 DEF InboxIInv, InboxTypeOK
  <2> QED
    BY <1>1, <2>1, <2>2, <2>3 DEF InboxIInv, InboxTypeOK, PushesOwn, Stored
<1>5. ASSUME NEW c \in Clients, walk[c] # None PROVE WalkOK(c)'
  <2> DEFINE v == walk[c]
  <2>1. /\ v.size \in Nat \ {0} /\ v.page \in Nat
        /\ WalkSound(c) /\ PassedSeen(c) /\ FewMissed(c) /\ RestHeard(c)
    BY <1>5, WalkTypes DEF InboxIInv, WalkOK
  <2>2. PICK kind \in Kinds : v.kind = kind
    BY <1>5, WalkTypes DEF InboxIInv
  <2> DEFINE L == Listed(c, kind)
             K == Listed(c, kind)'
  <2>3. /\ L = {n \in Stored : Selects(c, kind, n)} /\ L \in SUBSET Stored
        /\ K = {n \in Stored : Selects(c, kind, n)'}
    BY <1>1, ListedSelects DEF Stored
  <2>4. WalkSound(c)'
    BY <1>1, <1>3, <1>5, <2>1 DEF WalkSound, Stored
  <2>5. RestHeard(c)'
    BY <1>1, <1>3, <1>5, <2>1 DEF RestHeard, Stored
  <2>6. /\ Passed(c) = IF v.page = 0 THEN L ELSE Top(rows, L, Skipped(v.page, v.size))
        /\ Passed(c)' = IF v.page = 0 THEN K ELSE Top(rows, K, Skipped(v.page, v.size))
    BY <1>1, <1>3, <1>5, <2>2 DEF Passed
  <2>7. CASE kind # "unread"
    <3>1. K = L
      BY <1>1, <2>3, <2>7 DEF Selects, Stored
    <3> HIDE DEF K, L
    <3>2. Passed(c)' = Passed(c)
      BY <2>6, <3>1
    <3> QED
      BY <1>3, <1>5, <2>1, <2>2, <2>4, <2>5, <2>7, <3>2 DEF WalkOK, PassedSeen, FewMissed
  <2>8. CASE kind = "unread"
    <3>1. K = L \ M
      BY <1>1, <2>3, <2>8 DEF Selects, Stored
    <3>2. PassedSeen(c)'
      BY <1>3, <1>5, <2>2, <2>8 DEF PassedSeen
    <3> DEFINE A == Missed(c)
               B == Missed(c)'
               k == Skipped(v.page, v.size)
               N == L \cap M
               R == Top(rows, L \ N, k) \ Top(rows, L, k)
    <3>3. L \ M = L \ N /\ N \in SUBSET L /\ N \subseteq M
      OBVIOUS
    <3>4. /\ IsFiniteSet(A) /\ Cardinality(A) \in Nat /\ IsFiniteSet(v.marks)
          /\ Cardinality(v.marks) \in Nat /\ IsFiniteSet(M) /\ Cardinality(M) \in Nat
          /\ IsFiniteSet(N) /\ Cardinality(N) \in Nat /\ Cardinality(N) <= Cardinality(M)
          /\ IsFiniteSet(R) /\ Cardinality(R) \in Nat
      <4>1. /\ A \in SUBSET ToSet(rows) /\ v.marks \in SUBSET ToSet(rows)
            /\ M \in SUBSET ToSet(rows) /\ N \in SUBSET ToSet(rows) /\ R \in SUBSET ToSet(rows)
        BY <1>2, <1>5, <2>1, <2>3 DEF Missed, WalkSound, InboxIInv, InboxTypeOK, Top
      <4> HIDE DEF A, N, R
      <4>2. Cardinality(N) <= Cardinality(M)
        <5>1. IsFiniteSet(M)
          BY <1>2, <4>1, ListingFinite
        <5> QED
          BY <3>3, <5>1, FS_Subset
      <4> QED
        BY <1>2, <4>1, <4>2, ListingFinite
    <3>5. Cardinality(A) <= Cardinality(v.marks)
      BY <1>5, <2>1, <2>2, <2>8 DEF FewMissed
    <3>6. CASE v.page = 0
      <4>1. B \subseteq A
        BY <1>1, <1>3, <1>5, <2>6, <3>1, <3>6 DEF Missed
      <4> HIDE DEF A, B
      <4>3. Cardinality(B) <= Cardinality(A) /\ Cardinality(B) \in Nat
        BY <3>4, <4>1, FS_Subset, FS_CardinalityType
      <4>2. walk'[c].marks = v.marks
        BY <1>3, <1>5, <3>6
      <4>4. Cardinality(B) <= Cardinality(v.marks)
        BY <3>4, <3>5, <4>3
      <4>5. FewMissed(c)'
        BY <4>2, <4>4 DEF FewMissed, B
      <4> QED
        BY <2>4, <2>5, <3>2, <4>5 DEF WalkOK
    <3>7. CASE v.page # 0 /\ Client[c] = u
      <4>1. k \in Nat
        BY <2>1, <3>7, SkippedPages
      <4>2. Cardinality(R) <= Cardinality(N)
        <5>1. L \in SUBSET ToSet(rows)
          BY <1>2, <2>3
        <5> HIDE DEF L, N, k
        <5> QED
          BY <1>2, <3>3, <4>1, <5>1, TopLifted DEF N
      <4>3. B \subseteq A \cup R
        <5>1. Passed(c) = Top(rows, L, k) /\ Passed(c)' = Top(rows, K, k)
          BY <2>6, <3>7
        <5>2. K = L \ N
          BY <3>1, <3>3
        <5>3. Passed(c)' = Top(rows, L \ N, k)
          BY <5>1, <5>2
        <5>4. /\ A = (v.start \cap Passed(c)) \ (v.seen \cup read)
              /\ B = (v.start \cap Passed(c)') \ (v.seen \cup read \cup M)
          BY <1>1, <1>3, <1>5 DEF Missed
        <5> HIDE DEF A, B, L, K, N, k
        <5> QED
          BY <5>1, <5>3, <5>4 DEF R
      <4>4. M \cap v.marks = {} /\ walk'[c].marks = v.marks \cup M
        BY <1>3, <1>5, <2>1, <3>7 DEF WalkSound
      <4> HIDE DEF A, B, R, N, L, K
      <4>5. Cardinality(v.marks \cup M) = Cardinality(v.marks) + Cardinality(M)
        <5>1. Cardinality(v.marks \cap M) = 0
          BY <4>4, FS_EmptySet
        <5>2. Cardinality(v.marks \cup M) =
                Cardinality(v.marks) + Cardinality(M) - Cardinality(v.marks \cap M)
          BY <3>4, FS_Union
        <5> QED
          BY <3>4, <5>1, <5>2
      <4>6. Cardinality(A \cup R) <= Cardinality(A) + Cardinality(R) /\ IsFiniteSet(A \cup R)
            /\ Cardinality(A \cup R) \in Nat
        <5>1. /\ IsFiniteSet(A \cup R)
              /\ Cardinality(A \cup R) = Cardinality(A) + Cardinality(R) - Cardinality(A \cap R)
          BY <3>4, FS_Union
        <5>2. Cardinality(A \cap R) \in Nat /\ Cardinality(A \cup R) \in Nat
          BY <3>4, <5>1, FS_Intersection, FS_CardinalityType
        <5> QED
          BY <3>4, <5>1, <5>2
      <4>7. Cardinality(B) <= Cardinality(A \cup R) /\ Cardinality(B) \in Nat
        BY <4>3, <4>6, FS_Subset, FS_CardinalityType
      <4>8. Cardinality(B) <= Cardinality(v.marks) + Cardinality(M)
        BY <3>4, <3>5, <4>2, <4>6, <4>7
      <4>9. FewMissed(c)'
        BY <4>4, <4>5, <4>8 DEF FewMissed, B
      <4> QED
        BY <2>4, <2>5, <3>2, <4>9 DEF WalkOK
    <3>8. CASE v.page # 0 /\ Client[c] # u
      <4>1. K = L
        BY <1>1, <2>3, <2>8, <3>8 DEF Selects, Stored
      <4>2. B \subseteq A /\ walk'[c].marks = v.marks
        <5> HIDE DEF K, L
        <5> QED
          BY <1>1, <1>3, <1>5, <2>6, <3>8, <4>1 DEF Missed
      <4> HIDE DEF A, B
      <4>3. Cardinality(B) <= Cardinality(A) /\ Cardinality(B) \in Nat
        BY <3>4, <4>2, FS_Subset, FS_CardinalityType
      <4>4. Cardinality(B) <= Cardinality(v.marks)
        BY <3>4, <3>5, <4>3
      <4>5. FewMissed(c)'
        BY <4>2, <4>4 DEF FewMissed, B
      <4> QED
        BY <2>4, <2>5, <3>2, <4>5 DEF WalkOK
    <3> QED
      BY <3>6, <3>7, <3>8
  <2> QED
    BY <2>7, <2>8
<1>6. ASSUME NEW c \in Clients, walk[c] = None PROVE WalkOK(c)'
  BY <1>3, <1>6 DEF WalkOK, WalkSound, PassedSeen, FewMissed, RestHeard
<1> QED
  BY <1>4, <1>5, <1>6 DEF InboxIInv

LEMMA InboxNextInv == InboxIInv /\ [InboxNext]_inboxVars => InboxIInv'
<1> SUFFICES ASSUME InboxIInv, [InboxNext]_inboxVars PROVE InboxIInv'
  OBVIOUS
<1>1. CASE UNCHANGED inboxVars
  <2>1. UNCHANGED <<rows, to, spelt, read, by, handler, room, heard, walk>>
    BY <1>1 DEF inboxVars
  <2>2. InboxTypeOK' /\ PushesOwn'
    BY <2>1 DEF InboxIInv, InboxTypeOK, PushesOwn, Stored
  <2>3. ASSUME NEW c \in Clients PROVE WalkOK(c)'
    <3>1. WalkSound(c)' /\ PassedSeen(c)' /\ FewMissed(c)'
      BY <2>1, SocketWalks
    <3>2. RestHeard(c)'
      BY <2>1 DEF InboxIInv, WalkOK, RestHeard, Stored
    <3> QED
      BY <3>1, <3>2 DEF WalkOK
  <2> QED
    BY <2>2, <2>3 DEF InboxIInv
<1>2. ASSUME NEW i \in Instances, Store(i) \/ Push(i) \/ Die(i) PROVE InboxIInv'
  BY <1>2, StoreInv, PushInv, DieInv
<1>3. ASSUME NEW c \in Clients,
             \/ \E i \in Instances : Connect(c, i)
             \/ Disconnect(c)
             \/ \E kind \in Kinds, size \in Sizes : FirstPage(c, kind, size)
             \/ FurtherPage(c) \/ CountRows(c)
      PROVE  InboxIInv'
  BY <1>3, ConnectInv, DisconnectInv, FirstPageInv, FurtherPageInv, CountRowsInv
<1>4. ASSUME NEW u \in Recipients, MarkAsRead(u) \/ MarkAllAsRead(u) PROVE InboxIInv'
  <2>1. \E M \in SUBSET {n \in Stored \ read : to[n] = u} : Mark(u, M)
    BY <1>4 DEF MarkAsRead, MarkAllAsRead
  <2> QED
    BY <2>1, MarkInv
<1> QED
  BY <1>1, <1>2, <1>3, <1>4, RecordInv DEF InboxNext

(* The inductive invariant: a walk has seen, or heard, or has marks for,   *)
(* what it is past.                                                        *)
THEOREM InboxInvariance == InboxSpec => []InboxIInv
  BY InboxInitInv, InboxNextInv, PTL DEF InboxSpec

(* Who reads a list to its end has seen all it had when he began, whatever *)
(* comes in.                                                               *)
THEOREM WalksComplete == InboxSpec => []WalkComplete
<1>1. InboxIInv => WalkComplete
  <2> SUFFICES ASSUME InboxIInv, NEW c \in Clients, Done(c),
                      walk[c].kind = "all"
                        \/ (walk[c].kind = "activities" /\ walk[c].size <= MaxTake)
               PROVE  walk[c].start \subseteq walk[c].seen
    BY DEF WalkComplete
  <2>1. walk[c] # None /\ walk[c].page = 0
    BY DEF Done
  <2>2. PICK kind \in Kinds : walk[c].kind = kind
    BY <2>1, WalkTypes DEF InboxIInv
  <2>3. Passed(c) = {n \in Stored : Selects(c, kind, n)}
    BY <2>1, <2>2, ListedSelects DEF Passed
  <2>4. walk[c].start \subseteq Passed(c)
    BY <2>1, <2>2, <2>3 DEF InboxIInv, WalkOK, WalkSound, Selects
  <2> QED
    BY <2>1, <2>4 DEF InboxIInv, WalkOK, PassedSeen
<1> QED
  BY <1>1, InboxInvariance, PTL

(* Of the unread a reader misses at most one for each that was marked.     *)
THEOREM MarksHideFew == InboxSpec => []HiddenByMarks
<1>1. InboxIInv => HiddenByMarks
  <2> SUFFICES ASSUME InboxIInv, NEW c \in Clients, Done(c), walk[c].kind = "unread"
               PROVE  Cardinality(walk[c].start \ (walk[c].seen \cup read)) <=
                        Cardinality(walk[c].marks)
    BY DEF HiddenByMarks
  <2>1. walk[c] # None /\ walk[c].page = 0 /\ "unread" \in Kinds
    BY DEF Done, Kinds
  <2>2. Passed(c) = {n \in Stored : Selects(c, "unread", n)}
    BY <2>1, ListedSelects DEF Passed
  <2>3. walk[c].start \ (walk[c].seen \cup read) = Missed(c)
    BY <2>1, <2>2 DEF InboxIInv, WalkOK, WalkSound, Selects, Missed
  <2> QED
    BY <2>1, <2>3 DEF InboxIInv, WalkOK, FewMissed
<1> QED
  BY <1>1, InboxInvariance, PTL

(* A client that stays connected has every notification of its instance in *)
(* a page or pushed, or it is being pushed, unless its job spelt the user  *)
(* otherwise than the database does.                                       *)
THEOREM NothingUnheard == InboxSpec => []ListedOrHeard
<1>1. InboxIInv /\ WalkComplete => ListedOrHeard
  <2> SUFFICES ASSUME InboxIInv, WalkComplete, NEW c \in Clients, Done(c),
                      walk[c].kind = "all", walk[c].live,
                      NEW n \in Stored, to[n] = Client[c], by[n] = room[c], spelt[n] = to[n]
               PROVE  n \in walk[c].seen \cup heard[c] \/ handler[by[n]] = n
    BY DEF ListedOrHeard, Expects, Has
  <2>1. walk[c] # None /\ walk[c].start \subseteq walk[c].seen
    BY DEF Done, WalkComplete
  <2>2. n \notin walk[c].start => n \in heard[c] \/ handler[by[n]] = n
    BY <2>1 DEF InboxIInv, WalkOK, RestHeard
  <2> QED
    BY <2>1, <2>2
<1> QED
  BY <1>1, InboxInvariance, WalksComplete, PTL

-----------------------------------------------------------------------------

(* Each part of the instance runs by its own specification.                *)
LEMMA RemindersParts == RemindersSpec => ScanSpec /\ InboxSpec
<1>1. RemindersInit => ScanInit /\ InboxInit
  BY DEF RemindersInit
<1>2. [RemindersNext]_<<part, vars, inboxVars>> => [ScanNext]_vars /\ [InboxNext]_inboxVars
  BY DEF RemindersNext
<1> QED
  BY <1>1, <1>2, PTL DEF RemindersSpec, ScanSpec, InboxSpec

(* No scan, push, page or mark, in whatever order, leaves a row, a job, a  *)
(* page or a local of either part with a value of another type, a row      *)
(* stored twice, or a push for somebody else.                              *)
THEOREM RemindersTypeCorrect == RemindersSpec => []RemindersTypeOK
<1>1. ScanIInv => ScanTypeOK
  BY DEF ScanIInv
<1>2. InboxIInv => InboxTypeOK
  BY DEF InboxIInv
<1> QED
  BY <1>1, <1>2, RemindersParts, ScanInvariance, InboxInvariance, PTL DEF RemindersTypeOK

=============================================================================
