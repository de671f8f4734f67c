---------------------- MODULE NotificationQueueProofs -----------------------
(***************************************************************************)
(* What holds of the queue and its handlers for any jobs, number of        *)
(* instances, faults and additions, and any limits of attempts, stalls and *)
(* retention: a job is kept once, how many rows it can leave behind, what  *)
(* a completed one did, and when its id can be used again.                 *)
(***************************************************************************)
EXTENDS NotificationQueue, FiniteSetTheorems, TLAPS

(* Induction over numbers.                                                 *)
Numbers == INSTANCE ForestProofs WITH MaxDepth <- 1, Null <- NoJob

(* Lists without duplicates, and what BullMQ does to them.                 *)
Distinct(s) == \A i, j \in 1..Len(s) : s[i] = s[j] => i = j

LEMMA ListSet ==
  ASSUME NEW S, NEW s \in Seq(S)
  PROVE  ToSet(s) = {s[i] : i \in 1..Len(s)} /\ ToSet(s) \subseteq S
BY DEF ToSet

LEMMA ListCount ==
  ASSUME NEW S, NEW s \in Seq(S), Distinct(s)
  PROVE  IsFiniteSet(ToSet(s)) /\ Cardinality(ToSet(s)) = Len(s)
<1>1. ToSet(s) = {s[i] : i \in 1..Len(s)}
  BY ListSet
<1> DEFINE f == [i \in 1..Len(s) |-> s[i]]
<1>2. f \in Bijection(1..Len(s), ToSet(s))
  <2>1. f \in [1..Len(s) -> ToSet(s)]
    BY <1>1
  <2>2. f \in Injection(1..Len(s), ToSet(s))
    BY <2>1 DEF Injection, IsInjective, Distinct
  <2>3. f \in Surjection(1..Len(s), ToSet(s))
    BY <1>1, <2>1 DEF Surjection
  <2> QED
    BY <2>2, <2>3 DEF Bijection
<1>3. IsFiniteSet(1..Len(s)) /\ Cardinality(1..Len(s)) = Len(s)
  <2>1. Len(s) \in Nat
    OBVIOUS
  <2> QED
    BY <2>1, FS_Interval
<1>4. ExistsBijection(1..Len(s), ToSet(s))
  BY <1>2 DEF ExistsBijection
<1> QED
  BY <1>3, <1>4, FS_Bijection

LEMMA ListAppend ==
  ASSUME NEW S, NEW s \in Seq(S), NEW e \in S
  PROVE  /\ Append(s, e) \in Seq(S) /\ ToSet(Append(s, e)) = ToSet(s) \cup {e}
         /\ Distinct(s) /\ e \notin ToSet(s) => Distinct(Append(s, e))
<1>1. Append(s, e) \in Seq(S) /\ Len(Append(s, e)) = Len(s) + 1
  OBVIOUS
<1>2. /\ ToSet(s) = {s[i] : i \in 1..Len(s)}
      /\ ToSet(Append(s, e)) = {Append(s, e)[i] : i \in 1..Len(s) + 1}
  BY <1>1, ListSet
<1>3. \A i \in 1..Len(s) + 1 : Append(s, e)[i] = IF i = Len(s) + 1 THEN e ELSE s[i]
  OBVIOUS
<1>4. ToSet(Append(s, e)) = ToSet(s) \cup {e}
  BY <1>2, <1>3
<1>5. ASSUME Distinct(s), e \notin ToSet(s) PROVE Distinct(Append(s, e))
  BY <1>1, <1>2, <1>3, <1>5 DEF Distinct
<1> QED
  BY <1>1, <1>4, <1>5

LEMMA ListHead ==
  ASSUME NEW S, NEW s \in Seq(S), s # <<>>
  PROVE  /\ Head(s) \in S /\ Tail(s) \in Seq(S) /\ ToSet(s) = ToSet(Tail(s)) \cup {Head(s)}
         /\ Distinct(s) => Distinct(Tail(s)) /\ Head(s) \notin ToSet(Tail(s))
<1>1. /\ Head(s) \in S /\ Head(s) = s[1] /\ Tail(s) \in Seq(S)
      /\ Len(Tail(s)) = Len(s) - 1 /\ Len(s) \in Nat \ {0}
  OBVIOUS
<1>2. /\ ToSet(s) = {s[i] : i \in 1..Len(s)}
      /\ ToSet(Tail(s)) = {Tail(s)[i] : i \in 1..Len(s) - 1}
  BY <1>1, ListSet
<1>3. \A i \in 1..Len(s) - 1 : Tail(s)[i] = s[i + 1]
  OBVIOUS
<1>4. ToSet(Tail(s)) = {s[i] : i \in 2..Len(s)}
  <2>1. \A i \in 2..Len(s) : i - 1 \in 1..Len(s) - 1 /\ s[i] = Tail(s)[i - 1]
    BY <1>1, <1>3
  <2>2. \A i \in 1..Len(s) - 1 : i + 1 \in 2..Len(s)
    BY <1>1
  <2>3. \A i \in 1..Len(s) - 1 : Tail(s)[i] \in {s[k] : k \in 2..Len(s)}
    BY <1>3, <2>2
  <2>4. \A i \in 2..Len(s) : s[i] \in {Tail(s)[k] : k \in 1..Len(s) - 1}
    BY <2>1
  <2> QED
    BY <1>2, <2>3, <2>4
<1>5. ToSet(s) = ToSet(Tail(s)) \cup {Head(s)}
  BY <1>1, <1>2, <1>4
<1>6. Distinct(s) => Distinct(Tail(s)) /\ Head(s) \notin ToSet(Tail(s))
  BY <1>1, <1>3, <1>4 DEF Distinct
<1> QED
  BY <1>1, <1>5, <1>6

LEMMA ListCons ==
  ASSUME NEW S, NEW s \in Seq(S), NEW e \in S
  PROVE  /\ <<e>> \o s \in Seq(S) /\ ToSet(<<e>> \o s) = ToSet(s) \cup {e}
         /\ Distinct(s) /\ e \notin ToSet(s) => Distinct(<<e>> \o s)
<1>1. <<e>> \o s \in Seq(S) /\ Len(<<e>> \o s) = Len(s) + 1
  OBVIOUS
<1>2. /\ ToSet(s) = {s[i] : i \in 1..Len(s)}
      /\ ToSet(<<e>> \o s) = {(<<e>> \o s)[i] : i \in 1..Len(s) + 1}
  BY <1>1, ListSet
<1>3. \A i \in 1..Len(s) + 1 : (<<e>> \o s)[i] = IF i = 1 THEN e ELSE s[i - 1]
  OBVIOUS
<1>4. ToSet(<<e>> \o s) = ToSet(s) \cup {e}
  <2>1. \A i \in 1..Len(s) : i + 1 \in 1..Len(s) + 1 /\ (<<e>> \o s)[i + 1] = s[i]
    BY <1>3
  <2>2. 1 \in 1..Len(s) + 1 /\ (<<e>> \o s)[1] = e
    BY <1>3
  <2>3. \A i \in 1..Len(s) + 1 : i # 1 => i - 1 \in 1..Len(s)
    OBVIOUS
  <2>4. \A i \in 1..Len(s) + 1 : (<<e>> \o s)[i] \in ToSet(s) \cup {e}
    BY <1>2, <1>3, <2>3
  <2>5. \A i \in 1..Len(s) : s[i] \in ToSet(<<e>> \o s)
    BY <1>2, <2>1
  <2>6. e \in ToSet(<<e>> \o s)
    BY <1>2, <2>2
  <2> QED
    BY <1>2, <2>4, <2>5, <2>6
<1>5. ASSUME Distinct(s), e \notin ToSet(s) PROVE Distinct(<<e>> \o s)
  BY <1>1, <1>2, <1>3, <1>5 DEF Distinct
<1> QED
  BY <1>1, <1>4, <1>5

LEMMA ListRetain ==
  ASSUME NEW S, NEW s \in Seq(S), NEW e \in S, NEW n \in Nat \ {0}
  PROVE  /\ Retain(s, e, n) \in Seq(S) /\ Len(Retain(s, e, n)) <= n
         /\ ToSet(Retain(s, e, n)) \subseteq ToSet(s) \cup {e} /\ e \in ToSet(Retain(s, e, n))
         /\ Distinct(s) /\ e \notin ToSet(s) => Distinct(Retain(s, e, n))
<1> DEFINE t == Append(s, e)
           m == Len(t) - (IF Len(t) < n THEN Len(t) ELSE n) + 1
           r == SubSeq(t, m, Len(t))
<1>1. Retain(s, e, n) = r
  BY DEF Retain
<1>2. t \in Seq(S) /\ Len(t) = Len(s) + 1 /\ t[Len(t)] = e
  OBVIOUS
<1>3. ToSet(t) = ToSet(s) \cup {e} /\ (Distinct(s) /\ e \notin ToSet(s) => Distinct(t))
  BY ListAppend
<1> HIDE DEF t
<1>4. m \in 1..Len(t) /\ Len(t) - m + 1 <= n
  <2>1. Len(t) \in Nat /\ Len(t) >= 1
    BY <1>2
  <2> QED
    BY <2>1
<1> HIDE DEF m
<1>5. r \in Seq(S) /\ Len(r) = Len(t) - m + 1 /\ \A i \in 1..Len(r) : r[i] = t[m + i - 1]
  BY <1>2, <1>4
<1> HIDE DEF r
<1>6. ToSet(t) = {t[i] : i \in 1..Len(t)} /\ ToSet(r) = {r[i] : i \in 1..Len(r)}
  BY <1>2, <1>5, ListSet
<1>7. \A i \in 1..Len(r) : m + i - 1 \in 1..Len(t)
  BY <1>2, <1>4, <1>5
<1>8. Len(r) \in 1..Len(r) /\ r[Len(r)] = e
  BY <1>2, <1>4, <1>5
<1>9. ASSUME Distinct(t) PROVE Distinct(r)
  <2> SUFFICES ASSUME NEW i \in 1..Len(r), NEW j \in 1..Len(r), r[i] = r[j] PROVE i = j
    BY DEF Distinct
  <2>1. t[m + i - 1] = t[m + j - 1] /\ m + i - 1 \in 1..Len(t) /\ m + j - 1 \in 1..Len(t)
    BY <1>5, <1>7
  <2>2. m + i - 1 = m + j - 1
    BY <1>9, <2>1 DEF Distinct
  <2> QED
    BY <1>4, <2>2
<1>10. ToSet(r) \subseteq ToSet(t)
  BY <1>5, <1>6, <1>7
<1> QED
  BY <1>1, <1>3, <1>4, <1>5, <1>6, <1>8, <1>9, <1>10

-----------------------------------------------------------------------------
(* Every job is in one list, once.                                         *)
Placed ==
  /\ Distinct(waiting) /\ Distinct(completed) /\ Distinct(failed)
  /\ IsFiniteSet(delayed) /\ IsFiniteSet(active)
  /\ ToSet(waiting) \cap (delayed \cup active \cup ToSet(completed) \cup ToSet(failed)) = {}
  /\ delayed \cap (active \cup ToSet(completed) \cup ToSet(failed)) = {}
  /\ active \cap (ToSet(completed) \cup ToSet(failed)) = {}
  /\ ToSet(completed) \cap ToSet(failed) = {}

Locked ==
  \A j \in Jobs : lock[j] # NoWorker =>
    j \in active /\ job[lock[j]] = j /\ step[lock[j]] # "idle"

(* A job the queue runs again may be run again.                            *)
Budgeted == \A j \in Pending : attempts[j] < MaxAttempts /\ stalls[j] <= MaxStalled

QueueInv == QueueTypeOK /\ Placed /\ Locked /\ Budgeted

LEMMA QueueInitInv == QueueInit => QueueInv
<1> SUFFICES ASSUME QueueInit PROVE QueueInv
  OBVIOUS
<1>1. ToSet(waiting) = {} /\ ToSet(completed) = {} /\ ToSet(failed) = {}
  BY DEF QueueInit, ToSet
<1>2. QueueTypeOK
  BY QueueAssumption DEF QueueInit, QueueTypeOK
<1>3. Placed
  BY <1>1, FS_EmptySet DEF QueueInit, Placed, Distinct
<1>4. Locked
  BY DEF QueueInit, Locked
<1>5. Budgeted
  BY <1>1 DEF QueueInit, Budgeted, Pending
<1> QED
  BY <1>2, <1>3, <1>4, <1>5 DEF QueueInv

LEMMA QueueSets ==
  ASSUME QueueTypeOK
  PROVE  /\ ToSet(waiting) \subseteq Jobs /\ ToSet(completed) \subseteq Jobs
         /\ ToSet(failed) \subseteq Jobs
BY ListSet DEF QueueTypeOK

LEMMA AddInv == ASSUME QueueInv, NEW j \in Jobs, Add(j) PROVE QueueInv'
<1> USE DEF QueueInv, handlers, outside
<1>1. /\ waiting' = Append(waiting, j) /\ waiting \in Seq(Jobs)
      /\ UNCHANGED <<delayed, active, completed, failed, lock, job, step, rows, pushes, faults>>
      /\ j \notin Known
  BY DEF Add, QueueTypeOK
<1>2. waiting' \in Seq(Jobs) /\ ToSet(waiting') = ToSet(waiting) \cup {j}
  BY <1>1, ListAppend
<1>3. Distinct(waiting')
  BY <1>1, ListAppend DEF Known, Pending, Placed
<1>4. QueueTypeOK'
  <2>1. attempts' \in [Jobs -> 0 .. MaxAttempts] /\ stalls' \in [Jobs -> 0 .. MaxStalled + 1]
    BY QueueAssumption DEF Add, QueueTypeOK
  <2>2. accepted' \in [Jobs -> Nat]
    BY DEF Add, QueueTypeOK
  <2> QED
    BY <1>1, <1>2, <2>1, <2>2 DEF QueueTypeOK
<1>5. Placed'
  BY <1>1, <1>2, <1>3 DEF Placed, Known, Pending
<1>6. Locked'
  BY <1>1 DEF Locked
<1>7. Budgeted'
  <2> SUFFICES ASSUME NEW k \in Pending'
               PROVE  attempts'[k] < MaxAttempts /\ stalls'[k] <= MaxStalled
    BY DEF Budgeted
  <2>1. k \in Jobs /\ (k = j \/ k \in Pending)
    BY <1>1, <1>2, QueueSets DEF Pending, QueueTypeOK
  <2>2. /\ attempts' = [attempts EXCEPT ![j] = 0] /\ stalls' = [stalls EXCEPT ![j] = 0]
    BY DEF Add
  <2>3. MaxAttempts \in Nat \ {0} /\ MaxStalled \in Nat
    BY QueueAssumption
  <2>4. CASE k = j
    BY <2>2, <2>3, <2>4 DEF QueueTypeOK
  <2>5. CASE k # j
    BY <2>1, <2>2, <2>5 DEF Budgeted, QueueTypeOK
  <2> QED
    BY <2>4, <2>5
<1> QED
  BY <1>4, <1>5, <1>6, <1>7

LEMMA TakeInv == ASSUME QueueInv, NEW w \in Workers, Take(w) PROVE QueueInv'
<1> USE DEF QueueInv, outside
<1> PICK j : j = Head(waiting)
  OBVIOUS
<1>1. /\ step[w] = "idle" /\ waiting # <<>> /\ waiting \in Seq(Jobs)
      /\ waiting' = Tail(waiting) /\ active' = active \cup {j}
      /\ lock' = [lock EXCEPT ![j] = w] /\ job' = [job EXCEPT ![w] = j]
      /\ step' = [step EXCEPT ![w] = "save"]
      /\ UNCHANGED <<delayed, completed, failed, attempts, stalls, rows, pushes, accepted, faults>>
  BY DEF Take, QueueTypeOK
<1>2. /\ j \in Jobs /\ waiting' \in Seq(Jobs) /\ ToSet(waiting) = ToSet(waiting') \cup {j}
      /\ Distinct(waiting') /\ j \notin ToSet(waiting')
  BY <1>1, ListHead DEF Placed
<1>3. QueueTypeOK'
  BY <1>1, <1>2, QueueAssumption DEF QueueTypeOK
<1>4. IsFiniteSet(active')
  BY <1>1, FS_AddElement DEF Placed
<1>5. Placed'
  BY <1>1, <1>2, <1>4 DEF Placed
<1>6. Locked'
  <2>1. j \notin active
    BY <1>2 DEF Placed
  <2>2. lock[j] = NoWorker
    BY <1>2, <2>1 DEF Locked
  <2>3. ASSUME NEW k \in Jobs, k # j, lock[k] # NoWorker PROVE lock[k] # w
    BY <1>1, <2>3 DEF Locked
  <2>4. ASSUME NEW k \in Jobs, lock'[k] # NoWorker
        PROVE  k \in active' /\ job'[lock'[k]] = k /\ step'[lock'[k]] # "idle"
    <3>1. CASE k = j
      BY <1>1, <1>2, <3>1 DEF QueueTypeOK
    <3>2. CASE k # j
      <4>1. lock'[k] = lock[k] /\ lock[k] \in Workers /\ lock[k] # w
        BY <1>1, <2>3, <2>4, <3>2 DEF QueueTypeOK
      <4> QED
        BY <1>1, <2>4, <4>1 DEF Locked, QueueTypeOK
    <3> QED
      BY <3>1, <3>2
  <2> QED
    BY <2>4 DEF Locked
<1>7. Budgeted'
  BY <1>1, <1>2 DEF Budgeted, Pending
<1> QED
  BY <1>3, <1>5, <1>6, <1>7

LEMMA PromoteInv == ASSUME QueueInv, NEW j \in Jobs, Promote(j) PROVE QueueInv'
<1> USE DEF QueueInv, handlers, outside
<1>1. /\ j \in delayed /\ delayed' = delayed \ {j} /\ waiting' = Append(waiting, j)
      /\ waiting \in Seq(Jobs)
      /\ UNCHANGED <<active, completed, failed, attempts, stalls, lock, job, step>>
      /\ UNCHANGED <<rows, pushes, accepted, faults>>
  BY DEF Promote, QueueTypeOK
<1>2. waiting' \in Seq(Jobs) /\ ToSet(waiting') = ToSet(waiting) \cup {j}
  BY <1>1, ListAppend
<1>3. Distinct(waiting')
  BY <1>1, ListAppend DEF Placed
<1>4. QueueTypeOK'
  BY <1>1, <1>2 DEF QueueTypeOK
<1>5. IsFiniteSet(delayed')
  BY <1>1, FS_RemoveElement DEF Placed
<1>6. Placed'
  BY <1>1, <1>2, <1>3, <1>5 DEF Placed
<1>7. Locked'
  BY <1>1 DEF Locked
<1>8. Budgeted'
  BY <1>1, <1>2 DEF Budgeted, Pending
<1> QED
  BY <1>4, <1>6, <1>7, <1>8

LEMMA MoveStalledInv ==
  ASSUME QueueInv, NEW j \in Jobs, MoveStalled(j)
  PROVE  QueueInv'
<1> USE DEF QueueInv, handlers, outside
<1>1. /\ j \in active /\ lock[j] = NoWorker /\ stalls' = [stalls EXCEPT ![j] = @ + 1]
      /\ active' = active \ {j}
      /\ UNCHANGED <<delayed, completed, attempts, lock, job, step, rows, pushes, accepted, faults>>
      /\ stalls[j] <= MaxStalled /\ stalls[j] \in Nat /\ MaxStalled \in Nat
  BY QueueAssumption DEF MoveStalled, QueueTypeOK, Budgeted, Pending
<1>2. IsFiniteSet(active')
  BY <1>1, FS_RemoveElement DEF Placed
<1>3. Locked'
  BY <1>1 DEF Locked
<1>4. stalls' \in [Jobs -> 0 .. MaxStalled + 1]
  BY <1>1 DEF QueueTypeOK
<1>5. CASE stalls[j] + 1 > MaxStalled
  <2>1. /\ failed' = Retain(failed, j, KeepFailed) /\ waiting' = waiting
        /\ KeepFailed \in Nat \ {0} /\ failed \in Seq(Jobs)
    BY <1>5, QueueAssumption DEF MoveStalled, QueueTypeOK
  <2>2. /\ failed' \in Seq(Jobs) /\ Len(failed') <= KeepFailed
        /\ ToSet(failed') \subseteq ToSet(failed) \cup {j}
    BY <2>1, ListRetain
  <2>3. Distinct(failed')
    BY <1>1, <2>1, ListRetain DEF Placed
  <2>4. QueueTypeOK'
    BY <1>1, <1>4, <2>1, <2>2 DEF QueueTypeOK
  <2>5. Placed'
    BY <1>1, <1>2, <2>1, <2>2, <2>3 DEF Placed
  <2>6. Budgeted'
    BY <1>1, <2>1, QueueSets DEF Budgeted, Pending, Placed, QueueTypeOK
  <2> QED
    BY <1>3, <2>4, <2>5, <2>6
<1>6. CASE ~ (stalls[j] + 1 > MaxStalled)
  <2>1. waiting' = <<j>> \o waiting /\ failed' = failed /\ waiting \in Seq(Jobs)
    BY <1>6 DEF MoveStalled, QueueTypeOK
  <2>2. waiting' \in Seq(Jobs) /\ ToSet(waiting') = ToSet(waiting) \cup {j}
    BY <2>1, ListCons
  <2>3. Distinct(waiting')
    BY <1>1, <2>1, ListCons DEF Placed
  <2>4. QueueTypeOK'
    BY <1>1, <1>4, <2>1, <2>2 DEF QueueTypeOK
  <2>5. Placed'
    BY <1>1, <1>2, <2>1, <2>2, <2>3 DEF Placed
  <2>6. Budgeted'
    <3> SUFFICES ASSUME NEW k \in Pending'
                 PROVE  attempts'[k] < MaxAttempts /\ stalls'[k] <= MaxStalled
      BY DEF Budgeted
    <3>1. k \in Jobs /\ k \in Pending
      BY <1>1, <2>2, QueueSets DEF Pending, QueueTypeOK
    <3>2. attempts[k] < MaxAttempts /\ stalls[k] <= MaxStalled
      BY <3>1 DEF Budgeted
    <3> QED
      BY <1>1, <1>6, <3>1, <3>2 DEF QueueTypeOK
  <2> QED
    BY <1>3, <2>4, <2>5, <2>6
<1> QED
  BY <1>5, <1>6

LEMMA BusyWorker ==
  ASSUME QueueInv, NEW w \in Workers, step[w] # "idle"
  PROVE  job[w] \in Jobs
BY DEF QueueInv, QueueTypeOK

(* A handler that goes on, or ends without touching the queue; nobody else *)
(* gets its lock.                                                          *)
LEMMA HandlerInv ==
  ASSUME QueueInv, NEW w \in Workers, UNCHANGED queue, step[w] # "idle",
         {rows', pushes', accepted'} \subseteq [Jobs -> Nat], faults' \in 0 .. MaxFaults,
         \/ /\ job' = job /\ lock' = lock
            /\ \E s \in {"save", "push", "complete", "fail"} : step' = [step EXCEPT ![w] = s]
         \/ job' = job /\ step' = step /\ lock' = [lock EXCEPT ![job[w]] = NoWorker]
         \/ /\ job' = [job EXCEPT ![w] = NoJob] /\ step' = [step EXCEPT ![w] = "idle"]
            /\ lock' = IF lock[job[w]] = w THEN [lock EXCEPT ![job[w]] = NoWorker] ELSE lock
  PROVE  QueueInv'
<1> USE DEF QueueInv, queue
<1>1. job[w] \in Jobs
  BY BusyWorker
<1>2. QueueTypeOK'
  <2>1. lock' \in [Jobs -> Workers \cup {NoWorker}]
    BY <1>1 DEF QueueTypeOK
  <2>2. /\ job' \in [Workers -> Jobs \cup {NoJob}]
        /\ step' \in [Workers -> {"idle", "save", "push", "complete", "fail"}]
    BY <1>1 DEF QueueTypeOK
  <2>3. \A v \in Workers : job'[v] = NoJob <=> step'[v] = "idle"
    BY DEF QueueTypeOK
  <2> QED
    BY <2>1, <2>2, <2>3 DEF QueueTypeOK
<1>3. Placed' /\ Budgeted'
  BY DEF Placed, Budgeted, Pending
<1>4. Locked'
  <2> SUFFICES ASSUME NEW j \in Jobs, lock'[j] # NoWorker
               PROVE  j \in active' /\ job'[lock'[j]] = j /\ step'[lock'[j]] # "idle"
    BY DEF Locked
  <2>0. lock'[j] = lock[j]
    BY <1>1 DEF QueueTypeOK
  <2>1. lock[j] \in Workers /\ j \in active /\ job[lock[j]] = j /\ step[lock[j]] # "idle"
    BY <2>0 DEF Locked, QueueTypeOK
  <2>2. CASE job' = job
    BY <2>0, <2>1, <2>2 DEF QueueTypeOK
  <2>3. CASE /\ job' = [job EXCEPT ![w] = NoJob] /\ step' = [step EXCEPT ![w] = "idle"]
             /\ lock' = IF lock[job[w]] = w THEN [lock EXCEPT ![job[w]] = NoWorker] ELSE lock
    <3>1. lock[j] # w
      BY <1>1, <2>0, <2>1, <2>3 DEF QueueTypeOK
    <3> QED
      BY <2>0, <2>1, <2>3, <3>1 DEF QueueTypeOK
  <2> QED
    BY <2>2, <2>3
<1> QED
  BY <1>2, <1>3, <1>4

LEMMA SaveInv == ASSUME QueueInv, NEW w \in Workers, Save(w) PROVE QueueInv'
<1>0. /\ rows' = rows \/ rows' = [rows EXCEPT ![job[w]] = @ + 1]
      /\ faults' = faults \/ (faults < MaxFaults /\ faults' = faults + 1)
  BY DEF Save
<1>1. /\ step[w] # "idle" /\ UNCHANGED queue /\ lock' = lock /\ job' = job
      /\ UNCHANGED <<pushes, accepted>>
  BY DEF Save, StepTo
<1>2. step' = [step EXCEPT ![w] = "push"] \/ step' = [step EXCEPT ![w] = "fail"]
  BY DEF Save, StepTo
<1>3. rows' \in [Jobs -> Nat]
  <2>1. job[w] \in Jobs /\ rows \in [Jobs -> Nat]
    BY <1>1, BusyWorker DEF QueueInv, QueueTypeOK
  <2> QED
    BY <1>0, <2>1
<1>4. faults' \in 0 .. MaxFaults
  <2>1. faults \in 0 .. MaxFaults /\ MaxFaults \in Nat
    BY QueueAssumption DEF QueueInv, QueueTypeOK
  <2> QED
    BY <1>0, <2>1
<1>5. {rows', pushes', accepted'} \subseteq [Jobs -> Nat]
  BY <1>1, <1>3 DEF QueueInv, QueueTypeOK
<1> QED
  BY <1>1, <1>2, <1>4, <1>5, HandlerInv

LEMMA PushInv == ASSUME QueueInv, NEW w \in Workers, Push(w) PROVE QueueInv'
<1>1. /\ step[w] # "idle" /\ UNCHANGED queue /\ lock' = lock /\ job' = job
      /\ UNCHANGED <<rows, accepted, faults>>
      /\ step' = [step EXCEPT ![w] = "complete"]
      /\ pushes' = [pushes EXCEPT ![job[w]] = @ + 1]
  BY DEF Push, StepTo
<1>2. pushes' \in [Jobs -> Nat]
  <2>1. job[w] \in Jobs /\ pushes \in [Jobs -> Nat]
    BY <1>1, BusyWorker DEF QueueInv, QueueTypeOK
  <2> QED
    BY <1>1, <2>1
<1>3. {rows', pushes', accepted'} \subseteq [Jobs -> Nat] /\ faults' \in 0 .. MaxFaults
  BY <1>1, <1>2 DEF QueueInv, QueueTypeOK
<1> QED
  BY <1>1, <1>3, HandlerInv

LEMMA RejectedInv ==
  ASSUME QueueInv, NEW w \in Workers, step[w] # "idle", Rejected(w), Release(w),
         UNCHANGED <<outside, accepted, faults>>
  PROVE  QueueInv'
BY HandlerInv DEF Rejected, Release, outside, QueueInv, QueueTypeOK

LEMMA CrashInv == ASSUME QueueInv, NEW w \in Workers, Crash(w) PROVE QueueInv'
<1>1. faults' \in 0 .. MaxFaults
  BY QueueAssumption DEF Crash, QueueInv, QueueTypeOK
<1> QED
  BY <1>1, HandlerInv DEF Crash, DropLock, Release, outside, QueueInv, QueueTypeOK

LEMMA LoseLockInv ==
  ASSUME QueueInv, NEW w \in Workers, LoseLock(w)
  PROVE  QueueInv'
<1>1. faults' \in 0 .. MaxFaults
  BY QueueAssumption DEF LoseLock, QueueInv, QueueTypeOK
<1> QED
  BY <1>1, HandlerInv DEF LoseLock, Unlock, handlers, outside, QueueInv, QueueTypeOK

(* The holder of the lock moves its job out of active.                     *)
LEMMA SettleInv ==
  ASSUME QueueInv, NEW w \in Workers, NEW j \in Jobs, j = job[w], lock[j] = w,
         step[w] # "idle",
         active' = active \ {j}, lock' = [lock EXCEPT ![j] = NoWorker], Release(w),
         UNCHANGED <<waiting, stalls, rows, pushes, accepted, faults>>,
         \/ completed' = Retain(completed, j, KeepCompleted) /\ UNCHANGED <<delayed, failed, attempts>>
         \/ /\ attempts[j] + 1 < MaxAttempts /\ delayed' = delayed \cup {j}
            /\ attempts' = [attempts EXCEPT ![j] = @ + 1] /\ UNCHANGED <<completed, failed>>
         \/ /\ failed' = Retain(failed, j, KeepFailed)
            /\ attempts' = [attempts EXCEPT ![j] = @ + 1] /\ UNCHANGED <<completed, delayed>>
  PROVE  QueueInv'
<1> USE DEF QueueInv
<1>1. j \in active /\ active' \subseteq active /\ j \in Pending
  BY QueueAssumption DEF Locked, Pending
<1>2. IsFiniteSet(active') /\ IsFiniteSet(delayed')
  BY FS_RemoveElement, FS_AddElement DEF Placed
<1>3. /\ attempts[j] \in Nat /\ attempts[j] < MaxAttempts /\ MaxAttempts \in Nat
      /\ KeepCompleted \in Nat \ {0} /\ KeepFailed \in Nat \ {0}
  BY <1>1, QueueAssumption DEF Budgeted, QueueTypeOK
<1>4. attempts' \in [Jobs -> 0 .. MaxAttempts]
  <2>1. attempts \in [Jobs -> 0 .. MaxAttempts] /\ attempts[j] + 1 \in 0 .. MaxAttempts
    BY <1>3 DEF QueueTypeOK
  <2>2. attempts' = attempts \/ attempts' = [attempts EXCEPT ![j] = attempts[j] + 1]
    OBVIOUS
  <2> QED
    BY <2>1, <2>2
<1>5. Locked'
  <2> SUFFICES ASSUME NEW k \in Jobs, lock'[k] # NoWorker
               PROVE  k \in active' /\ job'[lock'[k]] = k /\ step'[lock'[k]] # "idle"
    BY DEF Locked
  <2>1. k # j /\ lock'[k] = lock[k] /\ lock[k] \in Workers
    BY DEF QueueTypeOK
  <2>2. k \in active /\ job[lock[k]] = k /\ step[lock[k]] # "idle"
    BY <2>1 DEF Locked
  <2>3. lock[k] # w
    BY <2>1, <2>2
  <2> QED
    BY <2>1, <2>2, <2>3 DEF Release, QueueTypeOK
<1>6. /\ lock' \in [Jobs -> Workers \cup {NoWorker}]
      /\ job' \in [Workers -> Jobs \cup {NoJob}]
      /\ step' \in [Workers -> {"idle", "save", "push", "complete", "fail"}]
      /\ \A v \in Workers : job'[v] = NoJob <=> step'[v] = "idle"
  BY DEF QueueTypeOK, Release
<1>7. \A k \in Pending' : k \in Jobs /\ k \in Pending
  BY <1>1, QueueSets DEF Pending, QueueTypeOK
<1>8. CASE completed' = Retain(completed, j, KeepCompleted) /\ UNCHANGED <<delayed, failed, attempts>>
  <2>1. /\ completed' \in Seq(Jobs) /\ Len(completed') <= KeepCompleted
        /\ ToSet(completed') \subseteq ToSet(completed) \cup {j}
    BY <1>3, <1>8, ListRetain DEF QueueTypeOK
  <2>2. Distinct(completed')
    BY <1>1, <1>3, <1>8, ListRetain DEF QueueTypeOK, Placed
  <2>3. QueueTypeOK'
    BY <1>4, <1>6, <1>8, <2>1 DEF QueueTypeOK
  <2>4. Placed'
    BY <1>1, <1>2, <1>8, <2>1, <2>2 DEF Placed
  <2>5. Budgeted'
    BY <1>7, <1>8 DEF Budgeted
  <2> QED
    BY <1>5, <2>3, <2>4, <2>5
<1>9. CASE /\ attempts[j] + 1 < MaxAttempts /\ delayed' = delayed \cup {j}
           /\ attempts' = [attempts EXCEPT ![j] = @ + 1] /\ UNCHANGED <<completed, failed>>
  <2>1. QueueTypeOK'
    BY <1>4, <1>6, <1>9 DEF QueueTypeOK
  <2>2. Placed'
    BY <1>1, <1>2, <1>9 DEF Placed
  <2>3. Budgeted'
    BY <1>7, <1>9 DEF Budgeted, QueueTypeOK
  <2> QED
    BY <1>5, <2>1, <2>2, <2>3
<1>10. CASE /\ failed' = Retain(failed, j, KeepFailed)
            /\ attempts' = [attempts EXCEPT ![j] = @ + 1] /\ UNCHANGED <<completed, delayed>>
  <2>1. /\ failed' \in Seq(Jobs) /\ Len(failed') <= KeepFailed
        /\ ToSet(failed') \subseteq ToSet(failed) \cup {j}
    BY <1>3, <1>10, ListRetain DEF QueueTypeOK
  <2>2. Distinct(failed')
    BY <1>1, <1>3, <1>10, ListRetain DEF QueueTypeOK, Placed
  <2>3. QueueTypeOK'
    BY <1>4, <1>6, <1>10, <2>1 DEF QueueTypeOK
  <2>4. Placed'
    BY <1>1, <1>2, <1>10, <2>1, <2>2 DEF Placed
  <2>5. j \notin Pending'
    BY <1>1, <1>10 DEF Pending, Placed
  <2>6. Budgeted'
    BY <1>7, <1>10, <2>5 DEF Budgeted, QueueTypeOK
  <2> QED
    BY <1>5, <2>3, <2>4, <2>6
<1> QED
  BY <1>8, <1>9, <1>10

LEMMA CompleteInv ==
  ASSUME QueueInv, NEW w \in Workers, Complete(w)
  PROVE  QueueInv'
<1>1. step[w] # "idle" /\ job[w] \in Jobs
  BY BusyWorker DEF Complete
<1>2. CASE Rejected(w)
  BY <1>1, <1>2, RejectedInv DEF Complete
<1>3. CASE Completes(w)
  BY <1>1, <1>3, SettleInv DEF Complete, Completes, Unlock, outside
<1> QED
  BY <1>2, <1>3 DEF Complete

LEMMA FailInv == ASSUME QueueInv, NEW w \in Workers, Fail(w) PROVE QueueInv'
<1>1. step[w] # "idle" /\ job[w] \in Jobs
  BY BusyWorker DEF Fail
<1>2. CASE Rejected(w)
  BY <1>1, <1>2, RejectedInv DEF Fail
<1>3. CASE Retries(w)
  BY <1>1, <1>3, SettleInv DEF Fail, Retries, Unlock, outside
<1> QED
  BY <1>2, <1>3 DEF Fail

LEMMA QueueNextInv == QueueInv /\ [QueueNext]_queueVars => QueueInv'
<1> SUFFICES ASSUME QueueInv, [QueueNext]_queueVars PROVE QueueInv'
  OBVIOUS
<1>1. CASE UNCHANGED queueVars
  BY <1>1
     DEF queueVars, queue, handlers, outside, QueueInv, QueueTypeOK, Placed, Locked, Budgeted,
         Pending
<1> QED
  BY <1>1, AddInv, PromoteInv, MoveStalledInv, TakeInv, SaveInv, PushInv, CompleteInv,
     FailInv, CrashInv, LoseLockInv
     DEF QueueNext, Handler

LEMMA QueueInvariant == QueueSpec => []QueueInv
BY QueueInitInv, QueueNextInv, PTL DEF QueueSpec

(***************************************************************************)
(* Every id is in at most one of BullMQ's lists and at most once, and a    *)
(* finished list is no longer than its retention: in particular no job     *)
(* waits to be run while it runs.                                          *)
(***************************************************************************)
THEOREM QueueOneState == QueueSpec => []OneState
<1>1. ASSUME QueueInv PROVE OneState
  <2> USE <1>1 DEF QueueInv
  <2> DEFINE W == ToSet(waiting)
             C == ToSet(completed)
             F == ToSet(failed)
  <2>1. /\ IsFiniteSet(W) /\ Cardinality(W) = Len(waiting)
        /\ IsFiniteSet(C) /\ Cardinality(C) = Len(completed)
        /\ IsFiniteSet(F) /\ Cardinality(F) = Len(failed)
    BY ListCount DEF QueueTypeOK, Placed
  <2>2. IsFiniteSet(delayed) /\ IsFiniteSet(active)
    BY DEF Placed
  <2>3. /\ W \cap delayed = {} /\ (W \cup delayed) \cap active = {}
        /\ (W \cup delayed \cup active) \cap C = {}
        /\ (W \cup delayed \cup active \cup C) \cap F = {}
    BY DEF Placed
  <2> HIDE DEF W, C, F
  <2>4. ASSUME NEW S, NEW T, IsFiniteSet(S), IsFiniteSet(T), S \cap T = {}
        PROVE  /\ IsFiniteSet(S \cup T)
               /\ Cardinality(S \cup T) = Cardinality(S) + Cardinality(T)
    <3>1. /\ IsFiniteSet(S \cup T)
          /\ Cardinality(S \cup T) = Cardinality(S) + Cardinality(T) - Cardinality(S \cap T)
      BY <2>4, FS_Union
    <3>2. Cardinality(S) \in Nat /\ Cardinality(T) \in Nat /\ Cardinality(S \cap T) = 0
      BY <2>4, FS_EmptySet, FS_CardinalityType
    <3> QED
      BY <3>1, <3>2
  <2>5. /\ IsFiniteSet(W \cup delayed)
        /\ Cardinality(W \cup delayed) = Cardinality(W) + Cardinality(delayed)
    BY <2>1, <2>2, <2>3, <2>4
  <2>6. /\ IsFiniteSet(W \cup delayed \cup active)
        /\ Cardinality(W \cup delayed \cup active) =
             Cardinality(W) + Cardinality(delayed) + Cardinality(active)
    BY <2>2, <2>3, <2>4, <2>5
  <2>7. /\ IsFiniteSet(W \cup delayed \cup active \cup C)
        /\ Cardinality(W \cup delayed \cup active \cup C) =
             Cardinality(W) + Cardinality(delayed) + Cardinality(active) + Cardinality(C)
    BY <2>1, <2>3, <2>4, <2>6
  <2>8. Cardinality(W \cup delayed \cup active \cup C \cup F) =
             Cardinality(W) + Cardinality(delayed) + Cardinality(active)
               + Cardinality(C) + Cardinality(F)
    BY <2>1, <2>3, <2>4, <2>7
  <2>9. Known = W \cup delayed \cup active \cup C \cup F
    BY DEF Known, Pending, W, C, F
  <2> QED
    BY <2>1, <2>8, <2>9 DEF OneState, Locked
<1> QED
  BY <1>1, QueueInvariant, PTL

-----------------------------------------------------------------------------
(* Where the copies of a notification come from.                           *)

(* The handlers about to store a row for the job.                          *)
Savers(j) == {w \in Workers : job[w] = j /\ step[w] = "save"}

(* Whether the queue will run the job again without another fault.         *)
Owed(j) ==
  IF \/ j \in ToSet(waiting) \cup delayed
     \/ j \in active /\ (lock[j] = NoWorker \/ step[lock[j]] = "fail")
  THEN 1 ELSE 0

(* How often the queue can still hand out the job.                         *)
Left(j) ==
  IF j \in ToSet(waiting) \cup delayed THEN MaxAttempts - attempts[j] + MaxStalled - stalls[j]
  ELSE IF j \in active THEN MaxAttempts - attempts[j] + MaxStalled - stalls[j] - 1
  ELSE 0

CopiesOf(j) ==
  /\ IsFiniteSet(Savers(j))
  /\ rows[j] + Cardinality(Savers(j)) + Owed(j) <= accepted[j] + faults
  /\ rows[j] + Cardinality(Savers(j)) + Left(j) <= accepted[j] * (MaxAttempts + MaxStalled)

CopiesInv == \A j \in Jobs : CopiesOf(j)

LEMMA CopiesTypes ==
  ASSUME QueueInv, NEW j \in Jobs
  PROVE  /\ rows[j] \in Nat /\ accepted[j] \in Nat /\ faults \in Nat /\ Owed(j) \in {0, 1}
         /\ attempts[j] \in Nat /\ stalls[j] \in Nat /\ MaxAttempts \in Nat
         /\ MaxStalled \in Nat
         /\ accepted[j] * (MaxAttempts + MaxStalled) \in Nat /\ Left(j) \in Nat
         /\ IsFiniteSet(Savers(j)) => Cardinality(Savers(j)) \in Nat
<1>1. /\ rows[j] \in Nat /\ accepted[j] \in Nat /\ faults \in Nat
      /\ attempts[j] \in Nat /\ stalls[j] \in Nat /\ MaxAttempts \in Nat /\ MaxStalled \in Nat
  BY QueueAssumption DEF QueueInv, QueueTypeOK
<1>2. j \in Pending => attempts[j] < MaxAttempts /\ stalls[j] <= MaxStalled
  BY DEF QueueInv, Budgeted
<1>3. Left(j) \in Nat
  BY <1>1, <1>2 DEF Left, Pending
<1>4. accepted[j] * (MaxAttempts + MaxStalled) \in Nat
  BY <1>1
<1> QED
  BY <1>1, <1>3, <1>4, FS_CardinalityType DEF Owed

(* No step but an addition makes more copies of a job possible.            *)
LEMMA CopiesKept ==
  ASSUME QueueInv, QueueInv', NEW j \in Jobs, CopiesOf(j), IsFiniteSet(Savers(j)'),
         accepted'[j] = accepted[j],
         rows'[j] + Cardinality(Savers(j)') + Owed(j)' - faults' <=
           rows[j] + Cardinality(Savers(j)) + Owed(j) - faults,
         rows'[j] + Cardinality(Savers(j)') + Left(j)' <=
           rows[j] + Cardinality(Savers(j)) + Left(j)
  PROVE  CopiesOf(j)'
<1>1. /\ rows'[j] \in Nat /\ faults' \in Nat /\ Owed(j)' \in Nat /\ Left(j)' \in Nat
      /\ Cardinality(Savers(j)') \in Nat /\ accepted'[j] \in Nat
  <2>1. Owed(j)' \in Nat /\ Left(j)' \in Nat
    <3>1. Owed(j) \in Nat
      BY CopiesTypes
    <3>2. Owed(j)' \in Nat
      BY DEF Owed
    <3>3. /\ attempts'[j] \in Nat /\ stalls'[j] \in Nat /\ MaxAttempts \in Nat
          /\ MaxStalled \in Nat
      BY QueueAssumption DEF QueueInv, QueueTypeOK
    <3>4. j \in Pending' => attempts'[j] < MaxAttempts /\ stalls'[j] <= MaxStalled
      BY DEF QueueInv, Budgeted
    <3> QED
      BY <3>2, <3>3, <3>4 DEF Left, Pending
  <2>2. rows'[j] \in Nat /\ faults' \in Nat /\ accepted'[j] \in Nat
    BY QueueAssumption DEF QueueInv, QueueTypeOK
  <2> QED
    BY <2>1, <2>2, FS_CardinalityType
<1>2. /\ rows[j] \in Nat /\ faults \in Nat /\ Owed(j) \in Nat /\ Left(j) \in Nat
      /\ Cardinality(Savers(j)) \in Nat /\ accepted[j] \in Nat
      /\ accepted[j] * (MaxAttempts + MaxStalled) \in Nat
  BY CopiesTypes DEF CopiesOf
<1>3. rows'[j] + Cardinality(Savers(j)') + Owed(j)' <= accepted'[j] + faults'
  BY <1>1, <1>2 DEF CopiesOf
<1>4. rows'[j] + Cardinality(Savers(j)') + Left(j)' <=
        accepted'[j] * (MaxAttempts + MaxStalled)
  <2>1. accepted'[j] * (MaxAttempts + MaxStalled) = accepted[j] * (MaxAttempts + MaxStalled)
    OBVIOUS
  <2>2. rows[j] + Cardinality(Savers(j)) + Left(j) <= accepted[j] * (MaxAttempts + MaxStalled)
    BY DEF CopiesOf
  <2> QED
    BY <1>1, <1>2, <2>1, <2>2
<1> QED
  BY <1>3, <1>4 DEF CopiesOf

(* A step that concerns another job.                                       *)
LEMMA CopiesOther ==
  ASSUME QueueInv, QueueInv', NEW j \in Jobs, CopiesOf(j), Savers(j)' = Savers(j),
         accepted'[j] = accepted[j],
         rows'[j] = rows[j], faults' >= faults, attempts'[j] = attempts[j],
         stalls'[j] = stalls[j],
         j \in (ToSet(waiting) \cup delayed)' <=> j \in ToSet(waiting) \cup delayed,
         j \in active' <=> j \in active,
         j \in active => lock'[j] = lock[j] /\ (lock[j] # NoWorker => step'[lock[j]] = step[lock[j]])
  PROVE  CopiesOf(j)'
<1>1. Owed(j)' = Owed(j) /\ Left(j)' = Left(j)
  BY DEF Owed, Left
<1>2. /\ faults \in Nat /\ faults' \in Nat /\ rows[j] \in Nat
      /\ Cardinality(Savers(j)) \in Nat /\ Owed(j) \in Nat /\ Left(j) \in Nat
  <2>1. faults' \in Nat
    BY QueueAssumption DEF QueueInv, QueueTypeOK
  <2> QED
    BY <2>1, CopiesTypes DEF CopiesOf
<1>3. rows'[j] + Cardinality(Savers(j)') + Owed(j)' - faults' <=
        rows[j] + Cardinality(Savers(j)) + Owed(j) - faults
  BY <1>1, <1>2
<1>4. rows'[j] + Cardinality(Savers(j)') + Left(j)' <=
        rows[j] + Cardinality(Savers(j)) + Left(j)
  BY <1>1, <1>2
<1> QED
  BY <1>3, <1>4, CopiesKept DEF CopiesOf

LEMMA CopiesInitInv == QueueInit => CopiesInv
<1> SUFFICES ASSUME QueueInit, NEW j \in Jobs PROVE CopiesOf(j)
  BY DEF CopiesInv
<1>1. Savers(j) = {} /\ IsFiniteSet(Savers(j)) /\ Cardinality(Savers(j)) = 0
  <2>1. Savers(j) = {}
    BY DEF QueueInit, Savers
  <2> QED
    BY <2>1, FS_EmptySet
<1>2. Owed(j) = 0 /\ Left(j) = 0
  BY DEF QueueInit, Owed, Left, ToSet
<1>3. 0 * (MaxAttempts + MaxStalled) = 0
  BY QueueAssumption
<1> QED
  BY <1>1, <1>2, <1>3 DEF QueueInit, CopiesOf

LEMMA AddCopies ==
  ASSUME QueueInv, QueueInv', NEW k \in Jobs, Add(k), NEW j \in Jobs, CopiesOf(j)
  PROVE  CopiesOf(j)'
<1>1. /\ waiting' = Append(waiting, k) /\ waiting \in Seq(Jobs) /\ k \notin Known
      /\ attempts' = [attempts EXCEPT ![k] = 0] /\ stalls' = [stalls EXCEPT ![k] = 0]
      /\ accepted' = [accepted EXCEPT ![k] = @ + 1]
      /\ UNCHANGED <<delayed, active, lock, job, step, rows, faults>>
  BY DEF Add, QueueInv, QueueTypeOK, handlers, outside
<1>2. ToSet(waiting') = ToSet(waiting) \cup {k}
  BY <1>1, ListAppend
<1>3. Savers(j)' = Savers(j)
  BY <1>1 DEF Savers
<1>4. CASE j # k
  <2>1. attempts'[j] = attempts[j] /\ stalls'[j] = stalls[j] /\ accepted'[j] = accepted[j]
    BY <1>1, <1>4 DEF QueueInv, QueueTypeOK
  <2>2. faults' >= faults
    BY <1>1, CopiesTypes
  <2> QED
    BY <1>1, <1>2, <1>3, <1>4, <2>1, <2>2, CopiesOther
<1>5. CASE j = k
  <2>1. /\ rows[j] \in Nat /\ accepted[j] \in Nat /\ faults \in Nat
        /\ MaxAttempts \in Nat /\ MaxStalled \in Nat
        /\ Cardinality(Savers(j)) \in Nat
    BY CopiesTypes DEF CopiesOf
  <2>2. Owed(j) = 0 /\ Left(j) = 0
    BY <1>1, <1>5 DEF Owed, Left, Known, Pending
  <2>3. Owed(j)' = 1 /\ Left(j)' = MaxAttempts + MaxStalled
    BY <1>1, <1>2, <1>5, <2>1 DEF Owed, Left, QueueInv, QueueTypeOK
  <2>4. accepted'[j] = accepted[j] + 1
    BY <1>1, <1>5 DEF QueueInv, QueueTypeOK
  <2>5. (accepted[j] + 1) * (MaxAttempts + MaxStalled) =
          accepted[j] * (MaxAttempts + MaxStalled) + (MaxAttempts + MaxStalled)
    BY <2>1
  <2>6. accepted[j] * (MaxAttempts + MaxStalled) \in Nat
    BY <2>1
  <2>7. rows[j] + Cardinality(Savers(j)) <= accepted[j] * (MaxAttempts + MaxStalled)
    BY <2>1, <2>2 DEF CopiesOf
  <2>8. rows[j] + Cardinality(Savers(j)) + (MaxAttempts + MaxStalled) <=
          accepted'[j] * (MaxAttempts + MaxStalled)
    BY <2>1, <2>4, <2>5, <2>6, <2>7
  <2>9. rows[j] + Cardinality(Savers(j)) + 1 <= accepted'[j] + faults
    BY <2>1, <2>2, <2>4 DEF CopiesOf
  <2> QED
    BY <1>1, <1>3, <2>3, <2>8, <2>9 DEF CopiesOf
<1> QED
  BY <1>4, <1>5

LEMMA TakeCopies ==
  ASSUME QueueInv, QueueInv', NEW w \in Workers, Take(w), NEW j \in Jobs, CopiesOf(j)
  PROVE  CopiesOf(j)'
<1> PICK k : k = Head(waiting)
  OBVIOUS
<1>1. /\ step[w] = "idle" /\ waiting # <<>> /\ waiting \in Seq(Jobs)
      /\ waiting' = Tail(waiting) /\ active' = active \cup {k}
      /\ lock' = [lock EXCEPT ![k] = w] /\ job' = [job EXCEPT ![w] = k]
      /\ step' = [step EXCEPT ![w] = "save"]
      /\ UNCHANGED <<delayed, completed, failed, attempts, stalls, rows, pushes, accepted, faults>>
  BY DEF Take, QueueInv, QueueTypeOK, outside
<1>2. k \in Jobs /\ ToSet(waiting) = ToSet(waiting') \cup {k} /\ k \notin ToSet(waiting')
  BY <1>1, ListHead DEF QueueInv, Placed
<1>3. k \notin delayed
  BY <1>2 DEF QueueInv, Placed
<1>4. CASE j # k
  <2>1. Savers(j)' = Savers(j)
    BY <1>1, <1>4 DEF Savers, QueueInv, QueueTypeOK
  <2>2. lock'[j] = lock[j] /\ lock[j] # w
    <3>1. lock[j] # NoWorker => step[lock[j]] # "idle"
      BY DEF QueueInv, Locked
    <3> QED
      BY <1>1, <1>4, <3>1, QueueAssumption DEF QueueInv, QueueTypeOK
  <2>3. lock[j] # NoWorker => step'[lock[j]] = step[lock[j]]
    BY <1>1, <2>2 DEF QueueInv, QueueTypeOK
  <2>4. faults' >= faults
    BY <1>1, CopiesTypes
  <2>5. j \in active' <=> j \in active
    BY <1>1, <1>4
  <2>6. j \in (ToSet(waiting) \cup delayed)' <=> j \in ToSet(waiting) \cup delayed
    BY <1>1, <1>2, <1>4
  <2> QED
    BY <1>1, <2>1, <2>2, <2>3, <2>4, <2>5, <2>6, CopiesOther
<1>5. CASE j = k
  <2>1. Savers(j)' = Savers(j) \cup {w} /\ w \notin Savers(j)
    BY <1>1, <1>2, <1>5 DEF Savers, QueueInv, QueueTypeOK
  <2>2. IsFiniteSet(Savers(j)') /\ Cardinality(Savers(j)') = Cardinality(Savers(j)) + 1
    BY <2>1, FS_AddElement DEF CopiesOf
  <2>3. Owed(j) = 1 /\ Left(j) = MaxAttempts - attempts[j] + MaxStalled - stalls[j]
    BY <1>2, <1>5 DEF Owed, Left
  <2>4. lock'[j] = w /\ w # NoWorker /\ step'[w] = "save"
    BY <1>1, <1>2, <1>5, QueueAssumption DEF QueueInv, QueueTypeOK
  <2>5. Owed(j)' = 0 /\ Left(j)' = MaxAttempts - attempts[j] + MaxStalled - stalls[j] - 1
    BY <1>1, <1>2, <1>3, <1>5, <2>4 DEF Owed, Left
  <2>6. /\ rows[j] \in Nat /\ faults \in Nat /\ Cardinality(Savers(j)) \in Nat
        /\ attempts[j] \in Nat /\ stalls[j] \in Nat /\ MaxAttempts \in Nat
        /\ MaxStalled \in Nat
    BY CopiesTypes DEF CopiesOf
  <2>7. rows'[j] = rows[j] /\ faults' = faults /\ accepted'[j] = accepted[j]
    BY <1>1
  <2>8. rows'[j] + Cardinality(Savers(j)') + Owed(j)' - faults' <=
          rows[j] + Cardinality(Savers(j)) + Owed(j) - faults
    BY <2>2, <2>3, <2>5, <2>6, <2>7
  <2>9. rows'[j] + Cardinality(Savers(j)') + Left(j)' <=
          rows[j] + Cardinality(Savers(j)) + Left(j)
    BY <2>2, <2>3, <2>5, <2>6, <2>7
  <2> QED
    BY <2>2, <2>7, <2>8, <2>9, CopiesKept
<1> QED
  BY <1>4, <1>5

LEMMA PromoteCopies ==
  ASSUME QueueInv, QueueInv', NEW k \in Jobs, Promote(k), NEW j \in Jobs, CopiesOf(j)
  PROVE  CopiesOf(j)'
<1>1. /\ k \in delayed /\ delayed' = delayed \ {k} /\ waiting' = Append(waiting, k)
      /\ waiting \in Seq(Jobs)
      /\ UNCHANGED <<active, attempts, stalls, lock, job, step, rows, accepted, faults>>
  BY DEF Promote, QueueInv, QueueTypeOK, handlers, outside
<1>2. ToSet(waiting') = ToSet(waiting) \cup {k}
  BY <1>1, ListAppend
<1>3. Savers(j)' = Savers(j)
  BY <1>1 DEF Savers
<1>4. faults' >= faults
  BY <1>1, CopiesTypes
<1>5. j \in (ToSet(waiting) \cup delayed)' <=> j \in ToSet(waiting) \cup delayed
  BY <1>1, <1>2
<1> QED
  BY <1>1, <1>3, <1>4, <1>5, CopiesOther

LEMMA MoveStalledCopies ==
  ASSUME QueueInv, QueueInv', NEW k \in Jobs, MoveStalled(k), NEW j \in Jobs,
         CopiesOf(j)
  PROVE  CopiesOf(j)'
<1>1. /\ k \in active /\ lock[k] = NoWorker /\ stalls' = [stalls EXCEPT ![k] = @ + 1]
      /\ active' = active \ {k}
      /\ UNCHANGED <<delayed, attempts, lock, job, step, rows, accepted, faults>>
      /\ waiting \in Seq(Jobs) /\ waiting' \in {waiting, <<k>> \o waiting}
  BY DEF MoveStalled, QueueInv, QueueTypeOK, handlers, outside
<1>2. ToSet(waiting') = ToSet(waiting) \/ ToSet(waiting') = ToSet(waiting) \cup {k}
  <2>1. ToSet(<<k>> \o waiting) = ToSet(waiting) \cup {k}
    BY <1>1, ListCons
  <2> QED
    BY <1>1, <2>1
<1>3. Savers(j)' = Savers(j)
  BY <1>1 DEF Savers
<1>4. faults' >= faults
  BY <1>1, CopiesTypes
<1>5. CASE j # k
  <2>1. stalls'[j] = stalls[j]
    BY <1>1, <1>5 DEF QueueInv, QueueTypeOK
  <2> QED
    BY <1>1, <1>2, <1>3, <1>4, <1>5, <2>1, CopiesOther
<1>6. CASE j = k
  <2>1. Owed(j) = 1 /\ Owed(j)' \in {0, 1}
    BY <1>1, <1>6 DEF Owed
  <2>2. j \notin ToSet(waiting) \cup delayed /\ j \notin active' /\ j \notin delayed'
    BY <1>1, <1>6 DEF QueueInv, Placed
  <2>3. /\ rows[j] \in Nat /\ faults \in Nat /\ Cardinality(Savers(j)) \in Nat
        /\ Left(j) \in Nat
        /\ attempts[j] \in Nat /\ stalls[j] \in Nat /\ MaxAttempts \in Nat
        /\ MaxStalled \in Nat
    BY CopiesTypes DEF CopiesOf
  <2>4. stalls'[j] = stalls[j] + 1
    BY <1>1, <1>6 DEF QueueInv, QueueTypeOK
  <2>5. Left(j) = MaxAttempts - attempts[j] + MaxStalled - stalls[j] - 1
    BY <1>1, <1>6, <2>2 DEF Left
  <2>6. Left(j)' \in {0, MaxAttempts - attempts[j] + MaxStalled - (stalls[j] + 1)}
    BY <1>1, <2>2, <2>4 DEF Left
  <2>7. Left(j)' <= Left(j)
    BY <2>3, <2>5, <2>6
  <2>8. Left(j)' \in Int
    BY <2>3, <2>6
  <2>9. rows'[j] + Cardinality(Savers(j)') + Owed(j)' - faults' <=
          rows[j] + Cardinality(Savers(j)) + Owed(j) - faults
    BY <1>1, <1>3, <2>1, <2>3
  <2>10. rows'[j] + Cardinality(Savers(j)') + Left(j)' <=
           rows[j] + Cardinality(Savers(j)) + Left(j)
    BY <1>1, <1>3, <2>3, <2>7, <2>8
  <2> QED
    BY <1>1, <1>3, <2>9, <2>10, CopiesKept DEF CopiesOf
<1> QED
  BY <1>5, <1>6

(* A handler that leaves the queue alone.                                  *)
LEMMA HandlerCopies ==
  ASSUME QueueInv, QueueInv', NEW w \in Workers, UNCHANGED <<queue, accepted>>,
         step[w] # "idle",
         NEW j \in Jobs, CopiesOf(j),
         \A v \in Workers : v # w => job'[v] = job[v] /\ step'[v] = step[v],
         \A i \in Jobs : lock[i] # w => lock'[i] = lock[i],
         job[w] # j => lock'[j] = lock[j] /\ rows'[j] = rows[j] /\ faults' >= faults,
         job'[w] \in {job[w], NoJob},
         job[w] = j =>
           rows'[j] + (IF job'[w] = j /\ step'[w] = "save" THEN 1 ELSE 0) + Owed(j)' - faults' <=
             rows[j] + (IF step[w] = "save" THEN 1 ELSE 0) + Owed(j) - faults,
         job[w] = j =>
           rows'[j] + (IF job'[w] = j /\ step'[w] = "save" THEN 1 ELSE 0) <=
             rows[j] + (IF step[w] = "save" THEN 1 ELSE 0)
  PROVE  CopiesOf(j)'
<1> USE DEF queue
<1>1. Left(j)' = Left(j)
  BY DEF Left
<1>2. job[w] \in Jobs
  BY BusyWorker
<1>3. CASE job[w] # j
  <2>1. Savers(j)' = Savers(j)
    BY <1>3, QueueAssumption DEF Savers
  <2>2. lock[j] # NoWorker => lock[j] \in Workers /\ lock[j] # w
    BY <1>3 DEF QueueInv, Locked, QueueTypeOK
  <2> QED
    BY <1>3, <2>1, <2>2, CopiesOther
<1>4. CASE job[w] = j
  <2> DEFINE R == Savers(j) \ {w}
             old == IF step[w] = "save" THEN 1 ELSE 0
             new == IF job'[w] = j /\ step'[w] = "save" THEN 1 ELSE 0
  <2>1. Savers(j) = IF step[w] = "save" THEN R \cup {w} ELSE R
    BY <1>4 DEF Savers
  <2>2. Savers(j)' = IF job'[w] = j /\ step'[w] = "save" THEN R \cup {w} ELSE R
    BY DEF Savers
  <2>3. IsFiniteSet(R) /\ w \notin R
    BY FS_RemoveElement DEF CopiesOf
  <2> HIDE DEF R
  <2>4. /\ IsFiniteSet(R \cup {w}) /\ Cardinality(R \cup {w}) = Cardinality(R) + 1
        /\ Cardinality(R) \in Nat
    BY <2>3, FS_AddElement, FS_CardinalityType
  <2>5. Cardinality(Savers(j)) = Cardinality(R) + old
    BY <2>1, <2>4
  <2>6. Cardinality(Savers(j)') = Cardinality(R) + new /\ IsFiniteSet(Savers(j)')
    BY <2>2, <2>3, <2>4
  <2>7. /\ rows[j] \in Nat /\ rows'[j] \in Nat /\ faults \in Nat /\ faults' \in Nat
        /\ Owed(j) \in Nat /\ Owed(j)' \in Nat /\ Left(j) \in Nat
    <3>1. rows'[j] \in Nat /\ faults' \in Nat
      BY QueueAssumption DEF QueueInv, QueueTypeOK
    <3>2. Owed(j)' \in Nat
      BY DEF Owed
    <3> QED
      BY <3>1, <3>2, CopiesTypes
  <2>8. /\ rows'[j] + new + Owed(j)' - faults' <= rows[j] + old + Owed(j) - faults
        /\ rows'[j] + new <= rows[j] + old
    BY <1>4
  <2>9. old \in Nat /\ new \in Nat
    OBVIOUS
  <2> HIDE DEF old, new
  <2>10. rows'[j] + Cardinality(Savers(j)') + Owed(j)' - faults' <=
           rows[j] + Cardinality(Savers(j)) + Owed(j) - faults
    BY <2>4, <2>5, <2>6, <2>7, <2>8, <2>9
  <2>11. rows'[j] + Cardinality(Savers(j)') + Left(j)' <=
           rows[j] + Cardinality(Savers(j)) + Left(j)
    BY <1>1, <2>4, <2>5, <2>6, <2>7, <2>8, <2>9
  <2> QED
    BY <2>6, <2>10, <2>11, CopiesKept
<1> QED
  BY <1>3, <1>4

LEMMA SaveCopies ==
  ASSUME QueueInv, QueueInv', NEW w \in Workers, Save(w), NEW j \in Jobs, CopiesOf(j)
  PROVE  CopiesOf(j)'
<1>1. /\ step[w] = "save" /\ job' = job /\ UNCHANGED <<queue, lock, accepted>>
      /\ \A v \in Workers : v # w => step'[v] = step[v]
      /\ job[w] \in Jobs /\ step'[w] \in {"push", "fail"}
  BY BusyWorker DEF Save, StepTo, QueueInv, QueueTypeOK
<1>2. \/ rows'[job[w]] = rows[job[w]] + 1 /\ faults' = faults /\ step'[w] = "push"
      \/ rows'[job[w]] = rows[job[w]] /\ faults' = faults
      \/ rows'[job[w]] = rows[job[w]] + 1 /\ faults' = faults + 1
  BY <1>1 DEF Save, StepTo, QueueInv, QueueTypeOK
<1>3. job[w] # j => rows'[j] = rows[j]
  BY <1>1 DEF Save, QueueInv, QueueTypeOK
<1>4. rows[j] \in Nat /\ faults \in Nat /\ Owed(j) \in {0, 1}
  BY CopiesTypes
<1>5. Owed(j)' \in {0, 1} /\ (step'[w] = "push" => Owed(j)' <= Owed(j))
  <2>1. step'[w] = "push" => (lock[j] # NoWorker /\ step'[lock[j]] = "fail" => step[lock[j]] = "fail")
    BY <1>1 DEF QueueInv, QueueTypeOK
  <2> QED
    BY <1>1, <1>4, <2>1 DEF Owed, queue
<1>6. CASE job[w] = j
  <2>1. rows'[j] + 0 + Owed(j)' - faults' <= rows[j] + 1 + Owed(j) - faults
    BY <1>2, <1>4, <1>5, <1>6
  <2>2. rows'[j] + 0 <= rows[j] + 1
    BY <1>2, <1>4, <1>6
  <2>3. /\ (IF step[w] = "save" THEN 1 ELSE 0) = 1
        /\ (IF job'[w] = j /\ step'[w] = "save" THEN 1 ELSE 0) = 0
    BY <1>1
  <2> QED
    BY <1>1, <1>6, <2>1, <2>2, <2>3, HandlerCopies
<1>7. CASE job[w] # j
  BY <1>1, <1>2, <1>3, <1>4, <1>7, HandlerCopies
<1> QED
  BY <1>6, <1>7

LEMMA PushCopies ==
  ASSUME QueueInv, QueueInv', NEW w \in Workers, Push(w), NEW j \in Jobs, CopiesOf(j)
  PROVE  CopiesOf(j)'
<1>1. /\ step[w] = "push" /\ job' = job /\ UNCHANGED <<queue, lock, rows, accepted, faults>>
      /\ \A v \in Workers : v # w => step'[v] = step[v]
      /\ step'[w] = "complete"
  BY DEF Push, StepTo, QueueInv, QueueTypeOK
<1>2. rows[j] \in Nat /\ faults \in Nat /\ Owed(j) \in {0, 1} /\ Owed(j)' \in {0, 1}
  BY CopiesTypes DEF Owed
<1>3. Owed(j)' <= Owed(j)
  <2>1. lock[j] # NoWorker /\ step'[lock[j]] = "fail" => step[lock[j]] = "fail"
    BY <1>1 DEF QueueInv, QueueTypeOK
  <2> QED
    BY <1>1, <1>2, <2>1 DEF Owed, queue
<1> QED
  BY <1>1, <1>2, <1>3, HandlerCopies

(* A handler that ends without its lock.                                   *)
LEMMA RejectedCopies ==
  ASSUME QueueInv, QueueInv', NEW w \in Workers, step[w] \in {"complete", "fail"},
         Rejected(w), Release(w),
         UNCHANGED <<outside, accepted, faults>>, NEW j \in Jobs, CopiesOf(j)
  PROVE  CopiesOf(j)'
<1>1. /\ UNCHANGED <<queue, lock, rows, accepted, faults>> /\ lock[job[w]] # w
      /\ \A v \in Workers : v # w => job'[v] = job[v] /\ step'[v] = step[v]
      /\ job'[w] = NoJob /\ step'[w] = "idle" /\ NoJob # j
  BY QueueAssumption DEF Rejected, Release, outside, QueueInv, QueueTypeOK
<1>2. rows[j] \in Nat /\ faults \in Nat /\ Owed(j) \in {0, 1} /\ Owed(j)' \in {0, 1}
  BY CopiesTypes DEF Owed
<1>3. lock[j] # w
  BY <1>1, QueueAssumption DEF QueueInv, Locked
<1>4. Owed(j)' <= Owed(j)
  <2>1. lock[j] # NoWorker => step'[lock[j]] = step[lock[j]]
    BY <1>1, <1>3 DEF QueueInv, QueueTypeOK
  <2> QED
    BY <1>1, <1>2, <2>1 DEF Owed, queue
<1> QED
  BY <1>1, <1>2, <1>4, HandlerCopies

LEMMA CrashCopies ==
  ASSUME QueueInv, QueueInv', NEW w \in Workers, Crash(w), NEW j \in Jobs, CopiesOf(j)
  PROVE  CopiesOf(j)'
<1>1. /\ step[w] # "idle" /\ UNCHANGED <<queue, rows, accepted>> /\ faults' = faults + 1
      /\ \A v \in Workers : v # w => job'[v] = job[v] /\ step'[v] = step[v]
      /\ job'[w] = NoJob /\ step'[w] = "idle" /\ NoJob # j
      /\ lock' = IF lock[job[w]] = w THEN [lock EXCEPT ![job[w]] = NoWorker] ELSE lock
  BY QueueAssumption DEF Crash, DropLock, Release, outside, QueueInv, QueueTypeOK
<1>2. rows[j] \in Nat /\ faults \in Nat /\ Owed(j) \in {0, 1} /\ Owed(j)' \in {0, 1}
  BY CopiesTypes DEF Owed
<1>3. \A i \in Jobs : (lock[i] # w \/ i # job[w]) => lock'[i] = lock[i]
  BY <1>1 DEF QueueInv, QueueTypeOK, Locked
<1>4. faults' >= faults
  BY <1>1, <1>2
<1>5. /\ rows'[j] + 0 + Owed(j)' - faults' <=
        rows[j] + (IF step[w] = "save" THEN 1 ELSE 0) + Owed(j) - faults
      /\ rows'[j] + 0 <= rows[j] + (IF step[w] = "save" THEN 1 ELSE 0)
  BY <1>1, <1>2
<1> QED
  BY <1>1, <1>3, <1>4, <1>5, HandlerCopies

LEMMA LoseLockCopies ==
  ASSUME QueueInv, QueueInv', NEW w \in Workers, LoseLock(w), NEW j \in Jobs,
         CopiesOf(j)
  PROVE  CopiesOf(j)'
<1>1. /\ step[w] # "idle" /\ UNCHANGED <<queue, rows, accepted, job, step>>
      /\ faults' = faults + 1
      /\ lock[job[w]] = w /\ lock' = [lock EXCEPT ![job[w]] = NoWorker]
  BY DEF LoseLock, Unlock, handlers, outside
<1>2. rows[j] \in Nat /\ faults \in Nat /\ Owed(j) \in {0, 1} /\ Owed(j)' \in {0, 1}
  BY CopiesTypes DEF Owed
<1>3. \A i \in Jobs : (lock[i] # w \/ i # job[w]) => lock'[i] = lock[i]
  BY <1>1 DEF QueueInv, QueueTypeOK
<1>4. faults' >= faults
  BY <1>1, <1>2
<1> DEFINE own == IF job[w] = j /\ step[w] = "save" THEN 1 ELSE 0
<1>5. own \in {0, 1} /\ (job[w] = j => own = IF step[w] = "save" THEN 1 ELSE 0)
  OBVIOUS
<1>6. (IF job'[w] = j /\ step'[w] = "save" THEN 1 ELSE 0) = own
  BY <1>1
<1> HIDE DEF own
<1>7. /\ rows'[j] + own + Owed(j)' - faults' <= rows[j] + own + Owed(j) - faults
      /\ rows'[j] + own <= rows[j] + own
  BY <1>1, <1>2, <1>5
<1> QED
  BY <1>1, <1>3, <1>4, <1>5, <1>6, <1>7, HandlerCopies

(* The holder of the lock moves its job on.                                *)
LEMMA SettleCopies ==
  ASSUME QueueInv, QueueInv', NEW w \in Workers, NEW k \in Jobs, k = job[w], lock[k] = w,
         step[w] \in {"complete", "fail"},
         active' = active \ {k}, lock' = [lock EXCEPT ![k] = NoWorker], Release(w),
         UNCHANGED <<waiting, stalls, rows, accepted, faults>>,
         \/ UNCHANGED <<delayed, attempts>>
         \/ /\ step[w] = "fail" /\ attempts' = [attempts EXCEPT ![k] = @ + 1]
            /\ delayed' = delayed \cup {k} \/ delayed' = delayed,
         NEW j \in Jobs, CopiesOf(j)
  PROVE  CopiesOf(j)'
<1>1. /\ \A v \in Workers : v # w => job'[v] = job[v] /\ step'[v] = step[v]
      /\ job'[w] = NoJob /\ step'[w] = "idle" /\ NoJob # j
  BY QueueAssumption DEF Release, QueueInv, QueueTypeOK
<1>2. Savers(j)' = Savers(j)
  BY <1>1 DEF Savers
<1>3. faults' >= faults
  BY CopiesTypes
<1>4. k \in active /\ k \notin ToSet(waiting) /\ k \notin delayed
  BY QueueAssumption DEF QueueInv, Locked, Placed
<1>5. CASE j # k
  <2>1. lock'[j] = lock[j] /\ attempts'[j] = attempts[j]
    BY <1>5 DEF QueueInv, QueueTypeOK
  <2>0. lock[j] # w
    BY <1>5, QueueAssumption DEF QueueInv, Locked
  <2>2. lock[j] # NoWorker => step'[lock[j]] = step[lock[j]]
    BY <1>1, <2>0 DEF QueueInv, QueueTypeOK
  <2> QED
    BY <1>2, <1>3, <1>5, <2>1, <2>2, CopiesOther
<1>6. CASE j = k
  <2>1. /\ rows[j] \in Nat /\ faults \in Nat /\ Cardinality(Savers(j)) \in Nat
        /\ Left(j) \in Nat
        /\ attempts[j] \in Nat /\ stalls[j] \in Nat /\ MaxAttempts \in Nat
        /\ MaxStalled \in Nat
    BY CopiesTypes DEF CopiesOf
  <2>2. Left(j) = MaxAttempts - attempts[j] + MaxStalled - stalls[j] - 1
    BY <1>4, <1>6 DEF Left
  <2>3. Left(j)' = IF j \in delayed' THEN MaxAttempts - attempts'[j] + MaxStalled - stalls[j] ELSE 0
    BY <1>4, <1>6 DEF Left
  <2>4. j \in delayed' => attempts'[j] = attempts[j] + 1 /\ step[w] = "fail"
    BY <1>4, <1>6 DEF QueueInv, QueueTypeOK
  <2>5. Left(j)' <= Left(j) /\ Left(j)' \in Int
    BY <2>1, <2>2, <2>3, <2>4
  <2>6. Owed(j)' = IF j \in delayed' THEN 1 ELSE 0
    BY <1>4, <1>6 DEF Owed
  <2>7. step[w] = "fail" => Owed(j) = 1
    BY <1>4, <1>6 DEF Owed
  <2>8. Owed(j)' <= Owed(j) /\ Owed(j) \in Nat /\ Owed(j)' \in Nat
    BY <2>4, <2>6, <2>7 DEF Owed
  <2>9. rows'[j] + Cardinality(Savers(j)') + Owed(j)' - faults' <=
          rows[j] + Cardinality(Savers(j)) + Owed(j) - faults
    BY <1>2, <2>1, <2>8
  <2>10. rows'[j] + Cardinality(Savers(j)') + Left(j)' <=
           rows[j] + Cardinality(Savers(j)) + Left(j)
    BY <1>2, <2>1, <2>5
  <2> QED
    BY <1>2, <2>9, <2>10, CopiesKept DEF CopiesOf
<1> QED
  BY <1>5, <1>6

LEMMA CompleteCopies ==
  ASSUME QueueInv, QueueInv', NEW w \in Workers, Complete(w), NEW j \in Jobs,
         CopiesOf(j)
  PROVE  CopiesOf(j)'
<1>1. step[w] = "complete" /\ job[w] \in Jobs
  BY BusyWorker DEF Complete
<1>2. CASE Rejected(w)
  BY <1>1, <1>2, RejectedCopies DEF Complete
<1>3. CASE Completes(w)
  BY <1>1, <1>3, SettleCopies DEF Complete, Completes, Unlock, outside
<1> QED
  BY <1>2, <1>3 DEF Complete

LEMMA FailCopies ==
  ASSUME QueueInv, QueueInv', NEW w \in Workers, Fail(w), NEW j \in Jobs, CopiesOf(j)
  PROVE  CopiesOf(j)'
<1>1. step[w] = "fail" /\ job[w] \in Jobs
  BY BusyWorker DEF Fail
<1>2. CASE Rejected(w)
  BY <1>1, <1>2, RejectedCopies DEF Fail
<1>3. CASE Retries(w)
  BY <1>1, <1>3, SettleCopies DEF Fail, Retries, Unlock, outside
<1> QED
  BY <1>2, <1>3 DEF Fail

LEMMA CopiesNextInv == QueueInv /\ QueueInv' /\ CopiesInv /\ [QueueNext]_queueVars => CopiesInv'
<1> SUFFICES ASSUME QueueInv, QueueInv', CopiesInv, [QueueNext]_queueVars, NEW j \in Jobs
             PROVE  CopiesOf(j)'
  BY DEF CopiesInv
<1>1. CopiesOf(j)
  BY DEF CopiesInv
<1>2. CASE UNCHANGED queueVars
  BY <1>1, <1>2 DEF queueVars, queue, handlers, outside, CopiesOf, Savers, Owed, Left
<1> QED
  BY <1>1, <1>2, AddCopies, PromoteCopies, MoveStalledCopies, TakeCopies, SaveCopies,
     PushCopies, CompleteCopies, 
     FailCopies, CrashCopies, LoseLockCopies DEF QueueNext, Handler

(***************************************************************************)
(* Rows of one notification beyond one for each accepted add have a fault  *)
(* each as their cause (a crash, a lost lock, an INSERT that failed after  *)
(* its commit), and no number of faults makes more of them than the        *)
(* attempts and stalls allow.                                              *)
(***************************************************************************)
THEOREM QueueCopiesBounded == QueueSpec => []CopiesBounded
<1>1. ASSUME QueueInv, CopiesInv PROVE CopiesBounded
  <2> SUFFICES ASSUME NEW j \in Jobs
               PROVE  /\ rows[j] <= accepted[j] + faults
                      /\ rows[j] <= accepted[j] * (MaxAttempts + MaxStalled)
    BY DEF CopiesBounded
  <2>1. CopiesOf(j)
    BY <1>1 DEF CopiesInv
  <2> QED
    BY <1>1, <2>1, CopiesTypes DEF CopiesOf
<1> QED
  BY <1>1, QueueInitInv, QueueNextInv, CopiesInitInv, CopiesNextInv, PTL DEF QueueSpec

-----------------------------------------------------------------------------
(* What a handler did before it returns.                                   *)
DeliveredInv ==
  /\ \A w \in Workers : step[w] \in {"push", "complete"} => rows[job[w]] >= 1
  /\ \A w \in Workers : step[w] = "complete" => pushes[job[w]] >= 1
  /\ CompletedIsDelivered

(* Rows and pushes only grow, and only a complete job joins the completed. *)
LEMMA DeliveredStep ==
  ASSUME QueueInv, QueueInv', DeliveredInv,
         \A j \in Jobs : rows'[j] >= rows[j] /\ pushes'[j] >= pushes[j],
         \A w \in Workers : step'[w] \in {"push", "complete"} =>
           \/ step'[w] = step[w] /\ job'[w] = job[w]
           \/ rows'[job'[w]] >= 1 /\ (step'[w] = "complete" => pushes'[job'[w]] >= 1),
         \A j \in ToSet(completed') :
           \/ j \in ToSet(completed)
           \/ rows[j] >= 1 /\ pushes[j] >= 1
  PROVE  DeliveredInv'
<1>1. \A j \in Jobs : rows[j] \in Nat /\ pushes[j] \in Nat /\ rows'[j] \in Nat /\ pushes'[j] \in Nat
  BY DEF QueueInv, QueueTypeOK
<1>2. ASSUME NEW w \in Workers, step'[w] \in {"push", "complete"}
      PROVE  rows'[job'[w]] >= 1 /\ (step'[w] = "complete" => pushes'[job'[w]] >= 1)
  <2>1. CASE step'[w] = step[w] /\ job'[w] = job[w]
    <3>1. job[w] \in Jobs
      BY <1>2, <2>1, BusyWorker
    <3>2. rows[job[w]] >= 1 /\ (step[w] = "complete" => pushes[job[w]] >= 1)
      BY <1>2, <2>1 DEF DeliveredInv
    <3>3. rows'[job[w]] >= rows[job[w]] /\ pushes'[job[w]] >= pushes[job[w]]
      BY <3>1
    <3> QED
      BY <1>1, <2>1, <3>1, <3>2, <3>3
  <2> QED
    BY <1>2, <2>1
<1>3. ASSUME NEW j \in ToSet(completed') PROVE rows'[j] >= 1 /\ pushes'[j] >= 1
  <2>1. j \in Jobs
    BY ListSet DEF QueueInv, QueueTypeOK
  <2>2. rows[j] >= 1 /\ pushes[j] >= 1
    BY <1>3 DEF DeliveredInv, CompletedIsDelivered
  <2>3. rows'[j] >= rows[j] /\ pushes'[j] >= pushes[j]
    BY <2>1
  <2> QED
    BY <1>1, <2>1, <2>2, <2>3
<1> QED
  BY <1>2, <1>3 DEF DeliveredInv, CompletedIsDelivered

LEMMA DeliveredNextInv == QueueInv /\ QueueInv' /\ DeliveredInv /\ [QueueNext]_queueVars => DeliveredInv'
<1> SUFFICES ASSUME QueueInv, QueueInv', DeliveredInv, [QueueNext]_queueVars PROVE DeliveredInv'
  OBVIOUS
<1>1. \A j \in Jobs : rows[j] \in Nat /\ pushes[j] \in Nat /\ rows[j] >= rows[j] /\ pushes[j] >= pushes[j]
  BY DEF QueueInv, QueueTypeOK
<1>2. ASSUME NEW j \in Jobs, Add(j) \/ Promote(j) \/ MoveStalled(j) PROVE DeliveredInv'
  <2>1. UNCHANGED <<rows, pushes, job, step, completed>>
    BY <1>2 DEF Add, Promote, MoveStalled, handlers, outside
  <2> QED
    BY <1>1, <2>1, DeliveredStep
<1>3. ASSUME NEW w \in Workers, Take(w) PROVE DeliveredInv'
  <2>1. /\ UNCHANGED <<rows, pushes, completed>> /\ step'[w] = "save"
        /\ \A v \in Workers : v # w => job'[v] = job[v] /\ step'[v] = step[v]
    BY <1>3 DEF Take, outside, QueueInv, QueueTypeOK
  <2> QED
    BY <1>1, <2>1, DeliveredStep
<1>4. ASSUME NEW w \in Workers, Save(w) PROVE DeliveredInv'
  <2>1. job[w] \in Jobs /\ rows \in [Jobs -> Nat]
    BY <1>4, BusyWorker DEF Save, QueueInv, QueueTypeOK
  <2>2. /\ UNCHANGED <<pushes, completed, job>>
        /\ \A v \in Workers : v # w => step'[v] = step[v]
    BY <1>4 DEF Save, StepTo, queue, QueueInv, QueueTypeOK
  <2>3. \/ rows' = [rows EXCEPT ![job[w]] = @ + 1] /\ step'[w] \in {"push", "fail"}
        \/ rows' = rows /\ step'[w] = "fail"
    BY <1>4 DEF Save, StepTo, QueueInv, QueueTypeOK
  <2>4. /\ \A j \in Jobs : rows'[j] >= rows[j]
        /\ step'[w] = "push" => rows'[job[w]] >= 1
    BY <1>1, <2>1, <2>3
  <2>5. step'[w] # "complete"
    BY <2>3
  <2> QED
    BY <1>1, <2>2, <2>4, <2>5, DeliveredStep
<1>5. ASSUME NEW w \in Workers, Push(w) PROVE DeliveredInv'
  <2>1. job[w] \in Jobs /\ pushes \in [Jobs -> Nat]
    BY <1>5, BusyWorker DEF Push, QueueInv, QueueTypeOK
  <2>2. /\ UNCHANGED <<rows, completed, job>> /\ step[w] = "push"
        /\ \A v \in Workers : v # w => step'[v] = step[v]
        /\ pushes' = [pushes EXCEPT ![job[w]] = @ + 1]
    BY <1>5 DEF Push, StepTo, queue, QueueInv, QueueTypeOK
  <2>3. /\ (\A j \in Jobs : pushes'[j] >= pushes[j]) /\ pushes'[job[w]] >= 1
        /\ rows'[job[w]] >= 1
    BY <1>1, <2>1, <2>2 DEF DeliveredInv
  <2> QED
    BY <1>1, <2>2, <2>3, DeliveredStep
<1>6. ASSUME NEW w \in Workers, Release(w), UNCHANGED <<rows, pushes>>,
             \A j \in ToSet(completed') : j \in ToSet(completed) \/ (rows[j] >= 1 /\ pushes[j] >= 1)
      PROVE  DeliveredInv'
  <2>1. step'[w] = "idle" /\ \A v \in Workers : v # w => job'[v] = job[v] /\ step'[v] = step[v]
    BY <1>6 DEF Release, QueueInv, QueueTypeOK
  <2> QED
    BY <1>1, <1>6, <2>1, DeliveredStep
<1>7. ASSUME NEW w \in Workers, Complete(w) PROVE DeliveredInv'
  <2>1. /\ Release(w) /\ UNCHANGED <<rows, pushes>> /\ rows[job[w]] >= 1
        /\ pushes[job[w]] >= 1
        /\ job[w] \in Jobs
    BY <1>7, BusyWorker DEF Complete, outside, DeliveredInv
  <2>2. ToSet(completed') \subseteq ToSet(completed) \cup {job[w]}
    <3>1. CASE Rejected(w)
      BY <3>1 DEF Rejected, queue
    <3>2. CASE Completes(w)
      BY <2>1, <3>2, QueueAssumption, ListRetain DEF Completes, QueueInv, QueueTypeOK
    <3> QED
      BY <1>7, <3>1, <3>2 DEF Complete
  <2> QED
    BY <1>6, <2>1, <2>2
<1>8. ASSUME NEW w \in Workers, Fail(w) \/ Crash(w) PROVE DeliveredInv'
  <2>1. Release(w) /\ UNCHANGED <<rows, pushes, completed>>
    BY <1>8 DEF Fail, Crash, Retries, Rejected, queue, outside
  <2> QED
    BY <1>6, <2>1
<1>9. ASSUME NEW w \in Workers, LoseLock(w) PROVE DeliveredInv'
  <2>1. UNCHANGED <<rows, pushes, completed, job, step>>
    BY <1>9 DEF LoseLock, handlers, queue, outside
  <2> QED
    BY <1>1, <2>1, DeliveredStep
<1>10. CASE UNCHANGED queueVars
  <2>1. UNCHANGED <<rows, pushes, completed, job, step>>
    BY <1>10 DEF queueVars, handlers, queue, outside
  <2> QED
    BY <1>1, <2>1, DeliveredStep
<1> QED
  BY <1>2, <1>3, <1>4, <1>5, <1>7, <1>8, <1>9, <1>10 DEF QueueNext, Handler

(***************************************************************************)
(* A job the queue keeps as completed was stored and pushed at least once: *)
(* the processor returns only after both.                                  *)
(***************************************************************************)
THEOREM QueueCompletedIsDelivered == QueueSpec => []CompletedIsDelivered
<1>1. QueueInit => DeliveredInv
  BY DEF QueueInit, DeliveredInv, CompletedIsDelivered, ToSet
<1>2. DeliveredInv => CompletedIsDelivered
  BY DEF DeliveredInv
<1> QED
  BY <1>1, <1>2, QueueInitInv, QueueNextInv, DeliveredNextInv, PTL DEF QueueSpec

-----------------------------------------------------------------------------
(***************************************************************************)
(* Sums over a finite set.                                                 *)
(***************************************************************************)

(* The member a sum takes next, and the sum of f over the rest and it.     *)
Picked(s) == CHOOSE x \in s : TRUE

SumBy(f, g, s) == IF s = {} THEN 0 ELSE f[Picked(s)] + g[s \ {Picked(s)}]

Sums(f, S) == CHOOSE g : g = [s \in SUBSET S |-> SumBy(f, g, s)]

LEMMA SumIs == ASSUME NEW f, NEW S PROVE SumFunctionOnSet(f, S) = Sums(f, S)[S]
  BY DEF SumFunctionOnSet, FoldFunctionOnSet, MapThenFoldSet, Sums, SumBy, Picked

(* One member less. *)
LEMMA NextOne ==
  ASSUME NEW S, IsFiniteSet(S), NEW s \in SUBSET S
  PROVE  /\ IsFiniteSet(s) /\ Cardinality(s) \in Nat /\ Cardinality(s) <= Cardinality(S)
         /\ Cardinality(s) <= 0 => s = {}
         /\ s # {} => /\ Picked(s) \in s /\ s \ {Picked(s)} \in SUBSET S
                      /\ Cardinality(s \ {Picked(s)}) = Cardinality(s) - 1
<1>1. IsFiniteSet(s) /\ Cardinality(s) \in Nat /\ Cardinality(s) <= Cardinality(S)
  BY FS_Subset, FS_CardinalityType
<1>2. Cardinality(s) <= 0 => s = {}
  BY <1>1, FS_EmptySet
<1>3. ASSUME s # {}
      PROVE  /\ Picked(s) \in s /\ s \ {Picked(s)} \in SUBSET S
             /\ Cardinality(s \ {Picked(s)}) = Cardinality(s) - 1
  <2>1. Picked(s) \in s
    BY <1>3 DEF Picked
  <2> QED
    BY <1>1, <2>1, FS_RemoveElement
<1> QED
  BY <1>1, <1>2, <1>3

(* The recursion has a solution, by induction on the size of s.            *)
LEMMA SumsExist ==
  ASSUME NEW S, IsFiniteSet(S), NEW f, \A x \in S : f[x] \in Nat
  PROVE  \E g \in [SUBSET S -> Nat] : \A s \in SUBSET S : g[s] = SumBy(f, g, s)
<1> DEFINE N == {n \in Nat : \E g \in [SUBSET S -> Nat] :
                               \A s \in SUBSET S : Cardinality(s) <= n => g[s] = SumBy(f, g, s)}
<1>1. 0 \in N
  <2> DEFINE g == [s \in SUBSET S |-> 0]
  <2>1. g \in [SUBSET S -> Nat]
    OBVIOUS
  <2>2. \A s \in SUBSET S : Cardinality(s) <= 0 => g[s] = SumBy(f, g, s)
    BY NextOne DEF SumBy
  <2> HIDE DEF g
  <2> QED
    BY <2>1, <2>2
<1>2. ASSUME NEW n \in Nat, n \in N PROVE n + 1 \in N
  <2>1. PICK g \in [SUBSET S -> Nat] :
               \A s \in SUBSET S : Cardinality(s) <= n => g[s] = SumBy(f, g, s)
    BY <1>2
  <2> DEFINE h == [s \in SUBSET S |-> SumBy(f, g, s)]
  <2>3. ASSUME NEW s \in SUBSET S PROVE SumBy(f, g, s) \in Nat
    <3>1. CASE s = {}
      BY <3>1 DEF SumBy
    <3>2. CASE s # {}
      <4>1. Picked(s) \in S /\ s \ {Picked(s)} \in SUBSET S
        BY <3>2, NextOne
      <4>2. f[Picked(s)] \in Nat /\ g[s \ {Picked(s)}] \in Nat
        BY <4>1
      <4> QED
        BY <3>2, <4>2 DEF SumBy
    <3> QED
      BY <3>1, <3>2
  <2>4. h \in [SUBSET S -> Nat] /\ \A s \in SUBSET S : h[s] = SumBy(f, g, s)
    BY <2>3
  <2> HIDE DEF h
  <2>5. ASSUME NEW s \in SUBSET S, Cardinality(s) <= n + 1 PROVE h[s] = SumBy(f, h, s)
    <3>1. CASE s = {}
      BY <2>4, <3>1 DEF SumBy
    <3>2. CASE s # {}
      <4>1. /\ s \ {Picked(s)} \in SUBSET S /\ Cardinality(s) \in Nat
            /\ Cardinality(s \ {Picked(s)}) = Cardinality(s) - 1
        BY <3>2, NextOne
      <4>2. g[s \ {Picked(s)}] = h[s \ {Picked(s)}]
        BY <2>1, <2>4, <2>5, <4>1
      <4> QED
        BY <2>4, <3>2, <4>2 DEF SumBy
    <3> QED
      BY <3>1, <3>2
  <2> HIDE DEF N
  <2>6. \E e \in [SUBSET S -> Nat] :
          \A s \in SUBSET S : Cardinality(s) <= n + 1 => e[s] = SumBy(f, e, s)
    BY <2>4, <2>5
  <2> QED
    BY <2>6 DEF N
<1>3. Nat \subseteq N
  <2> HIDE DEF N
  <2> QED
    BY <1>1, <1>2, Numbers!NatSetInduction
<1>4. Cardinality(S) \in Nat /\ \A s \in SUBSET S : Cardinality(s) <= Cardinality(S)
  BY NextOne, FS_CardinalityType
<1>5. PICK g \in [SUBSET S -> Nat] :
             \A s \in SUBSET S : Cardinality(s) <= Cardinality(S) => g[s] = SumBy(f, g, s)
  BY <1>3, <1>4
<1> QED
  BY <1>4, <1>5

(* What CHOOSE picks is one, and its values are numbers.                   *)
LEMMA SumsAre ==
  ASSUME NEW S, IsFiniteSet(S), NEW f, \A x \in S : f[x] \in Nat
  PROVE  \A s \in SUBSET S : Sums(f, S)[s] = SumBy(f, Sums(f, S), s) /\ Sums(f, S)[s] \in Nat
<1>1. PICK g \in [SUBSET S -> Nat] : \A s \in SUBSET S : g[s] = SumBy(f, g, s)
  BY SumsExist
<1>2. g = [s \in SUBSET S |-> SumBy(f, g, s)]
  BY <1>1
<1> DEFINE h == Sums(f, S)
<1>3. h = [s \in SUBSET S |-> SumBy(f, h, s)]
  BY <1>2 DEF Sums
<1> HIDE DEF h
<1>4. \A s \in SUBSET S : h[s] = SumBy(f, h, s)
  BY <1>3
<1> DEFINE N == {n \in Nat : \A s \in SUBSET S : Cardinality(s) <= n => h[s] \in Nat}
<1>5. 0 \in N
  <2> SUFFICES ASSUME NEW s \in SUBSET S, Cardinality(s) <= 0 PROVE h[s] \in Nat
    OBVIOUS
  <2>1. s = {} /\ h[s] = SumBy(f, h, s)
    BY <1>4, NextOne
  <2> QED
    BY <2>1 DEF SumBy
<1>6. ASSUME NEW n \in Nat, n \in N PROVE n + 1 \in N
  <2> SUFFICES ASSUME NEW s \in SUBSET S, Cardinality(s) <= n + 1 PROVE h[s] \in Nat
    OBVIOUS
  <2>0. h[s] = SumBy(f, h, s)
    BY <1>4
  <2>1. CASE s = {}
    BY <2>0, <2>1 DEF SumBy
  <2>2. CASE s # {}
    <3>1. /\ s \ {Picked(s)} \in SUBSET S /\ Cardinality(s) \in Nat /\ Picked(s) \in s
          /\ Cardinality(s \ {Picked(s)}) = Cardinality(s) - 1
      BY <2>2, NextOne
    <3>2. h[s \ {Picked(s)}] \in Nat /\ f[Picked(s)] \in Nat
      BY <1>6, <3>1
    <3> QED
      BY <2>0, <2>2, <3>2 DEF SumBy
  <2> QED
    BY <2>1, <2>2
<1>7. Nat \subseteq N
  <2> HIDE DEF N
  <2> QED
    BY <1>5, <1>6, Numbers!NatSetInduction
<1>8. \A s \in SUBSET S : Cardinality(s) \in Nat
  BY NextOne
<1>9. \A s \in SUBSET S : h[s] \in Nat
  BY <1>7, <1>8
<1> QED
  BY <1>4, <1>9 DEF h

(* A sum is a number, and grows with each of its terms.                    *)
LEMMA SumGrows ==
  ASSUME NEW S, IsFiniteSet(S), NEW f, NEW g, NEW k,
         \A x \in S : /\ f[x] \in Nat /\ g[x] \in Nat
                      /\ f[x] + (IF x = k THEN 1 ELSE 0) <= g[x]
  PROVE  /\ SumFunctionOnSet(f, S) \in Nat /\ SumFunctionOnSet(g, S) \in Nat
         /\ SumFunctionOnSet(f, S) + (IF k \in S THEN 1 ELSE 0) <= SumFunctionOnSet(g, S)
<1> DEFINE F == Sums(f, S)
           G == Sums(g, S)
           d(s) == IF k \in s THEN 1 ELSE 0
<1>1. /\ \A s \in SUBSET S : F[s] = SumBy(f, F, s) /\ F[s] \in Nat
      /\ \A s \in SUBSET S : G[s] = SumBy(g, G, s) /\ G[s] \in Nat
  BY SumsAre
<1> HIDE DEF F, G
<1> DEFINE N == {n \in Nat : \A s \in SUBSET S : Cardinality(s) <= n => F[s] + d(s) <= G[s]}
<1>2. 0 \in N
  <2> SUFFICES ASSUME NEW s \in SUBSET S, Cardinality(s) <= 0 PROVE F[s] + d(s) <= G[s]
    OBVIOUS
  <2>1. s = {} /\ F[s] = SumBy(f, F, s) /\ G[s] = SumBy(g, G, s)
    BY <1>1, NextOne
  <2>2. F[s] = 0 /\ G[s] = 0 /\ d(s) = 0
    BY <2>1 DEF SumBy
  <2> QED
    BY <2>2
<1>3. ASSUME NEW n \in Nat, n \in N PROVE n + 1 \in N
  <2> SUFFICES ASSUME NEW s \in SUBSET S, Cardinality(s) <= n + 1 PROVE F[s] + d(s) <= G[s]
    OBVIOUS
  <2>0. F[s] = SumBy(f, F, s) /\ G[s] = SumBy(g, G, s)
    BY <1>1
  <2>1. CASE s = {}
    <3>1. F[s] = 0 /\ G[s] = 0 /\ d(s) = 0
      BY <2>0, <2>1 DEF SumBy
    <3> QED
      BY <3>1
  <2>2. CASE s # {}
    <3> DEFINE x == Picked(s)
               r == s \ {x}
    <3>1. /\ r \in SUBSET S /\ Cardinality(s) \in Nat /\ x \in s
          /\ Cardinality(r) = Cardinality(s) - 1
      BY <2>2, NextOne
    <3>2. F[s] = f[x] + F[r] /\ G[s] = g[x] + G[r]
      BY <2>0, <2>2 DEF SumBy
    <3> HIDE DEF x
    <3>3. F[r] + d(r) <= G[r]
      BY <1>3, <3>1
    <3>4. /\ f[x] \in Nat /\ g[x] \in Nat /\ f[x] + (IF x = k THEN 1 ELSE 0) <= g[x]
          /\ F[r] \in Nat /\ G[r] \in Nat
      BY <1>1, <3>1
    <3>5. d(s) = d(r) + (IF x = k THEN 1 ELSE 0)
      BY <3>1
    <3>6. d(r) \in Nat /\ (IF x = k THEN 1 ELSE 0) \in Nat
      OBVIOUS
    <3> HIDE DEF d, r
    <3> QED
      BY <3>2, <3>3, <3>4, <3>5, <3>6
  <2> QED
    BY <2>1, <2>2
<1>4. Nat \subseteq N
  <2> HIDE DEF N
  <2> QED
    BY <1>2, <1>3, Numbers!NatSetInduction
<1>5. Cardinality(S) \in Nat /\ S \in SUBSET S
  BY FS_CardinalityType
<1>6. F[S] + d(S) <= G[S]
  BY <1>4, <1>5
<1> QED
  BY <1>1, <1>5, <1>6, SumIs DEF F, G

-----------------------------------------------------------------------------
(***************************************************************************)
(* When an id is accepted again.                                           *)
(***************************************************************************)

kept == Min({KeepCompleted, KeepFailed})

LEMMA KeptLeast == kept \in Nat \ {0} /\ kept <= KeepCompleted /\ kept <= KeepFailed
<1>1. KeepCompleted \in Nat \ {0} /\ KeepFailed \in Nat \ {0}
  BY QueueAssumption
<1>2. \E x \in {KeepCompleted, KeepFailed} : \A y \in {KeepCompleted, KeepFailed} : x <= y
  <2>1. CASE KeepCompleted <= KeepFailed
    BY <1>1, <2>1
  <2>2. CASE KeepFailed <= KeepCompleted
    BY <1>1, <2>2
  <2> QED
    BY <1>1, <2>1, <2>2
<1>3. /\ kept \in {KeepCompleted, KeepFailed}
      /\ \A y \in {KeepCompleted, KeepFailed} : kept <= y
  BY <1>2 DEF kept, Min
<1> QED
  BY <1>1, <1>3

(* How often each job was finished, and all the others.                    *)
Finished == [k \in Jobs |-> accepted[k] - (IF k \in Pending THEN 1 ELSE 0)]

Others(j) == SumFunctionOnSet(Finished, Jobs \ {j})

(* What came into a list of finished jobs after j finished at least.       *)
After(s, j) == \A p \in 1 .. Len(s) : s[p] = j => kept * (accepted[j] - 1) + Len(s) - p <= Others(j)

(***************************************************************************)
(* An id that was accepted again has since made way for as many others as  *)
(* the queue keeps; one that may be, too.                                  *)
(***************************************************************************)
MadeWay(j) ==
  /\ j \in Known => accepted[j] >= 1
  /\ accepted[j] >= 1 =>
       /\ kept * (accepted[j] - 1) <= Others(j)
       /\ After(completed, j) /\ After(failed, j)
       /\ j \notin Known => kept * accepted[j] <= Others(j)

MadeWayInv == \A j \in Jobs : MadeWay(j)

(* As much came into r after place q as into s after place p, and one job. *)
MovedUp(s, p, r, q) == s[p] = r[q] /\ Len(r) - q = Len(s) + 1 - p

(* Which places a list keeps when a job joins it.                          *)
LEMMA RetainPlaces ==
  ASSUME NEW s \in Seq(Jobs), NEW e \in Jobs, NEW n \in Nat \ {0}, NEW r, r = Retain(s, e, n)
  PROVE  /\ r \in Seq(Jobs) /\ Len(r) \in Nat \ {0} /\ r[Len(r)] = e
         /\ \A q \in 1 .. Len(r) : q # Len(r) =>
              \E p \in 1 .. Len(s) : MovedUp(s, p, r, q)
         /\ \A p \in 1 .. Len(s) : s[p] \in ToSet(r) \/ Len(s) - p >= n - 1
<1> DEFINE t == Append(s, e)
           l == IF Len(t) < n THEN Len(t) ELSE n
           m == Len(t) - l + 1
<1>1. r = SubSeq(t, m, Len(t))
  BY DEF Retain
<1>2. t \in Seq(Jobs) /\ Len(t) = Len(s) + 1 /\ Len(s) \in Nat /\ t[Len(t)] = e
      /\ \A p \in 1 .. Len(s) : t[p] = s[p]
  OBVIOUS
<1> HIDE DEF t
<1>3. l \in 1 .. Len(t) /\ l <= n /\ (l = n \/ l = Len(t))
  BY <1>2
<1> HIDE DEF l
<1>4. m \in 1 .. Len(t) /\ m = Len(s) + 2 - l /\ Len(t) - m + 1 = l
  BY <1>2, <1>3
<1> HIDE DEF m
<1>5. r \in Seq(Jobs) /\ Len(r) = l /\ \A i \in 1..l : r[i] = t[m + i - 1]
  BY <1>1, <1>2, <1>3, <1>4
<1>6. r[Len(r)] = e /\ Len(r) \in Nat \ {0}
  <2>1. Len(t) \in Nat /\ l \in 1 .. l /\ l \in Nat \ {0} /\ m + l - 1 = Len(t)
    BY <1>2, <1>3, <1>4
  <2>2. r[l] = t[m + l - 1]
    BY <1>5, <2>1
  <2> QED
    BY <1>2, <1>5, <2>1, <2>2
<1>7. ASSUME NEW q \in 1 .. Len(r), q # Len(r)
      PROVE  \E p \in 1 .. Len(s) : MovedUp(s, p, r, q)
  <2>1. /\ m + q - 1 \in 1 .. Len(s) /\ r[q] = t[m + q - 1]
        /\ Len(r) - q = Len(s) + 1 - (m + q - 1)
    BY <1>2, <1>3, <1>4, <1>5, <1>7
  <2> QED
    BY <1>2, <2>1 DEF MovedUp
<1>8. ASSUME NEW p \in 1 .. Len(s) PROVE s[p] \in ToSet(r) \/ Len(s) - p >= n - 1
  <2>1. CASE p >= m
    <3>1. p - m + 1 \in 1 .. l /\ m + (p - m + 1) - 1 = p
      BY <1>2, <1>3, <1>4, <2>1
    <3>2. r[p - m + 1] = s[p]
      BY <1>2, <1>5, <3>1
    <3> QED
      BY <1>5, <3>1, <3>2, ListSet
  <2>2. CASE p < m
    BY <1>2, <1>3, <1>4, <2>2
  <2> QED
    BY <1>2, <1>4, <2>1, <2>2
<1> QED
  BY <1>5, <1>6, <1>7, <1>8

LEMMA MadeWayTypes ==
  ASSUME QueueInv, IsFiniteSet(Jobs), MadeWayInv, NEW j \in Jobs
  PROVE  /\ accepted[j] \in Nat /\ Others(j) \in Nat /\ IsFiniteSet(Jobs \ {j})
         /\ kept \in Nat \ {0} /\ kept * (accepted[j] - 1) \in Int
         /\ kept * accepted[j] = kept * (accepted[j] - 1) + kept
         /\ Finished \in [Jobs -> Nat]
         /\ \A k \in Jobs : Finished[k] = accepted[k] - (IF k \in Pending THEN 1 ELSE 0)
         /\ waiting \in Seq(Jobs) /\ completed \in Seq(Jobs) /\ failed \in Seq(Jobs)
         /\ Len(completed) \in Nat /\ Len(failed) \in Nat
<1>1. accepted[j] \in Nat /\ kept \in Nat \ {0}
  BY KeptLeast DEF QueueInv, QueueTypeOK
<1>2. kept * (accepted[j] - 1) \in Int /\ kept * accepted[j] = kept * (accepted[j] - 1) + kept
  <2> DEFINE a == accepted[j] - 1
  <2>1. a \in Int /\ accepted[j] = a + 1
    BY <1>1
  <2> HIDE DEF a
  <2>2. kept * (a + 1) = kept * a + kept /\ kept * a \in Int
    BY <1>1, <2>1
  <2> QED
    BY <2>1, <2>2 DEF a
<1>3. ASSUME NEW k \in Jobs PROVE accepted[k] - (IF k \in Pending THEN 1 ELSE 0) \in Nat
  <2>1. accepted[k] \in Nat /\ (k \in Pending => accepted[k] >= 1)
    BY DEF QueueInv, QueueTypeOK, MadeWayInv, MadeWay, Known
  <2> QED
    BY <2>1
<1>4. /\ Finished \in [Jobs -> Nat]
      /\ \A k \in Jobs : Finished[k] = accepted[k] - (IF k \in Pending THEN 1 ELSE 0)
  BY <1>3 DEF Finished
<1>5. IsFiniteSet(Jobs \ {j})
  BY FS_Subset
<1>6. Others(j) \in Nat
  <2>1. \A x \in Jobs \ {j} : /\ Finished[x] \in Nat
                              /\ Finished[x] + (IF x = j THEN 1 ELSE 0) <= Finished[x]
    BY <1>4
  <2> QED
    BY <1>5, <2>1, SumGrows DEF Others
<1> QED
  BY <1>1, <1>2, <1>4, <1>5, <1>6 DEF QueueInv, QueueTypeOK

(* Nothing is finished or accepted. *)
LEMMA SameKnown ==
  ASSUME Pending' = Pending, UNCHANGED <<completed, failed, accepted>>, NEW j \in Jobs, MadeWay(j)
  PROVE  MadeWay(j)'
<1>1. Finished' = Finished
  BY DEF Finished
<1>2. Others(j)' = Others(j)
  BY <1>1 DEF Others
<1>3. Known' = Known
  BY DEF Known
<1> QED
  BY <1>2, <1>3 DEF MadeWay, After

(* An id the queue does not know is added.                                 *)
LEMMA AddMadeWay ==
  ASSUME QueueInv, IsFiniteSet(Jobs), MadeWayInv, NEW k \in Jobs, Add(k), NEW j \in Jobs
  PROVE  MadeWay(j)'
<1>1. /\ waiting' = Append(waiting, k) /\ k \notin Known
      /\ accepted' = [accepted EXCEPT ![k] = @ + 1] /\ UNCHANGED <<delayed, active, completed, failed>>
  BY DEF Add
<1>2. Pending' = Pending \cup {k} /\ Known' = Known \cup {k}
  <2>1. ToSet(waiting') = ToSet(waiting) \cup {k}
    BY <1>1, ListAppend DEF QueueInv, QueueTypeOK
  <2> QED
    BY <1>1, <2>1 DEF Pending, Known
<1>3. Finished' = Finished
  <2>1. \A x \in Jobs : accepted'[x] - (IF x \in Pending' THEN 1 ELSE 0) =
                          accepted[x] - (IF x \in Pending THEN 1 ELSE 0)
    <3>1. accepted \in [Jobs -> Nat] /\ k \notin Pending
      BY <1>1 DEF QueueInv, QueueTypeOK, Known
    <3> QED
      BY <1>1, <1>2, <3>1
  <2> QED
    BY <2>1 DEF Finished
<1>4. Others(j)' = Others(j)
  BY <1>3 DEF Others
<1>5. MadeWay(j)
  BY DEF MadeWayInv
<1>6. CASE j # k
  <2>1. accepted'[j] = accepted[j] /\ (j \in Known' <=> j \in Known)
    BY <1>1, <1>2, <1>6 DEF QueueInv, QueueTypeOK
  <2> QED
    BY <1>1, <1>4, <1>5, <2>1 DEF MadeWay, After
<1>7. CASE j = k
  <2>1. accepted'[j] = accepted[j] + 1 /\ accepted[j] \in Nat /\ j \in Known' /\ j \notin Known
    BY <1>1, <1>2, <1>7 DEF QueueInv, QueueTypeOK
  <2>2. kept * accepted[j] <= Others(j)
    <3>1. CASE accepted[j] >= 1
      BY <1>5, <2>1, <3>1 DEF MadeWay
    <3>2. CASE accepted[j] = 0
      <4>1. kept \in Nat /\ Others(j) \in Nat
        BY MadeWayTypes
      <4>2. kept * 0 = 0
        BY <4>1
      <4> QED
        BY <3>2, <4>1, <4>2
    <3> QED
      BY <2>1, <3>1, <3>2
  <2>3. kept * (accepted'[j] - 1) <= Others(j)'
    <3>1. accepted'[j] - 1 = accepted[j]
      BY <2>1
    <3> QED
      BY <1>4, <2>2, <3>1
  <2>4. j \notin ToSet(completed) /\ j \notin ToSet(failed)
    BY <2>1 DEF Known
  <2>5. completed \in Seq(Jobs) /\ failed \in Seq(Jobs)
    BY DEF QueueInv, QueueTypeOK
  <2>6. /\ \A p \in 1 .. Len(completed) : completed[p] # j
        /\ \A p \in 1 .. Len(failed) : failed[p] # j
    <3>1. /\ ToSet(completed) = {completed[p] : p \in 1 .. Len(completed)}
          /\ ToSet(failed) = {failed[p] : p \in 1 .. Len(failed)}
      BY <2>5, ListSet
    <3> QED
      BY <2>4, <3>1
  <2>7. After(completed, j)' /\ After(failed, j)'
    BY <1>1, <2>6 DEF After
  <2> QED
    BY <2>1, <2>3, <2>7 DEF MadeWay
<1> QED
  BY <1>6, <1>7

(* The job that joined list s is its last, and the others move up.         *)
LEMMA JoinAfter ==
  ASSUME QueueInv, IsFiniteSet(Jobs), MadeWayInv, NEW j \in Jobs, NEW k \in Jobs,
         NEW s \in Seq(Jobs), NEW r \in Seq(Jobs), NEW n \in Nat \ {0}, n >= kept,
         r = Retain(s, k, n), k \notin ToSet(s), accepted[j] >= 1, After(s, j),
         NEW D \in Nat, D >= Others(j) + (IF j = k THEN 0 ELSE 1)
  PROVE  /\ \A q \in 1 .. Len(r) : r[q] = j => kept * (accepted[j] - 1) + Len(r) - q <= D
         /\ j \in ToSet(s) \ ToSet(r) => kept * accepted[j] <= D
<1>0. Len(s) \in Nat
  OBVIOUS
<1>1. /\ Len(r) \in Nat \ {0} /\ r[Len(r)] = k
      /\ \A q \in 1 .. Len(r) : q # Len(r) =>
           \E p \in 1 .. Len(s) : MovedUp(s, p, r, q)
      /\ \A p \in 1 .. Len(s) : s[p] \in ToSet(r) \/ Len(s) - p >= n - 1
  BY RetainPlaces
<1>2. ToSet(s) = {s[p] : p \in 1 .. Len(s)}
  BY ListSet
<1>3. /\ accepted[j] \in Nat /\ Others(j) \in Nat /\ kept \in Nat \ {0}
      /\ kept * (accepted[j] - 1) \in Int
      /\ kept * accepted[j] = kept * (accepted[j] - 1) + kept
  BY MadeWayTypes
<1>4. \A p \in 1 .. Len(s) : s[p] = j => kept * (accepted[j] - 1) + Len(s) - p <= Others(j) /\ j # k
  BY <1>2 DEF After
<1> DEFINE b == kept * (accepted[j] - 1)
<1>5. b <= Others(j)
  BY DEF MadeWayInv, MadeWay
<1>6. b \in Int /\ kept * accepted[j] = b + kept
      /\ \A p \in 1 .. Len(s) : s[p] = j => b + Len(s) - p <= Others(j) /\ j # k
  BY <1>3, <1>4
<1> HIDE DEF b
<1>7. ASSUME NEW q \in 1 .. Len(r), r[q] = j PROVE b + Len(r) - q <= D
  <2>1. CASE q = Len(r)
    BY <1>0, <1>1, <1>3, <1>5, <1>6, <2>1
  <2>2. CASE q # Len(r)
    <3>1. PICK p \in 1 .. Len(s) : s[p] = j /\ Len(r) - q = Len(s) + 1 - p
      BY <1>1, <1>7, <2>2 DEF MovedUp
    <3>2. b + Len(s) - p <= Others(j) /\ D >= Others(j) + 1
      BY <1>6, <3>1
    <3> QED
      BY <1>0, <1>1, <1>3, <1>6, <3>1, <3>2
  <2> QED
    BY <2>1, <2>2
<1>8. ASSUME j \in ToSet(s) \ ToSet(r) PROVE kept * accepted[j] <= D
  <2>1. PICK p \in 1 .. Len(s) : s[p] = j
    BY <1>2, <1>8
  <2>2. Len(s) - p >= n - 1 /\ b + Len(s) - p <= Others(j) /\ D >= Others(j) + 1
    BY <1>0, <1>1, <1>6, <1>8, <2>1
  <2> QED
    BY <1>0, <1>1, <1>3, <1>6, <2>1, <2>2
<1> QED
  BY <1>7, <1>8 DEF b

(* A job is finished.                                                      *)
LEMMA FinishMadeWay ==
  ASSUME QueueInv, IsFiniteSet(Jobs), MadeWayInv, QueueInv', NEW k \in Jobs, k \in active,
         active' = active \ {k}, UNCHANGED <<waiting, delayed, accepted>>,
         \/ completed' = Retain(completed, k, KeepCompleted) /\ failed' = failed
         \/ failed' = Retain(failed, k, KeepFailed) /\ completed' = completed,
         NEW j \in Jobs
  PROVE  MadeWay(j)'
<1>1. /\ k \notin ToSet(waiting) /\ k \notin delayed
      /\ k \notin ToSet(completed) /\ k \notin ToSet(failed)
  BY DEF QueueInv, Placed
<1>2. Pending' = Pending \ {k} /\ k \in Pending
  BY <1>1 DEF Pending
<1>3. /\ completed \in Seq(Jobs) /\ failed \in Seq(Jobs)
      /\ completed' \in Seq(Jobs) /\ failed' \in Seq(Jobs)
      /\ KeepCompleted \in Nat \ {0} /\ KeepFailed \in Nat \ {0}
      /\ KeepCompleted >= kept /\ KeepFailed >= kept /\ kept \in Nat
  BY QueueAssumption, KeptLeast DEF QueueInv, QueueTypeOK
<1>4. /\ accepted[j] \in Nat /\ Others(j) \in Nat /\ IsFiniteSet(Jobs \ {j})
      /\ kept * (accepted[j] - 1) \in Int
      /\ kept * accepted[j] = kept * (accepted[j] - 1) + kept
      /\ Finished \in [Jobs -> Nat]
      /\ \A x \in Jobs : Finished[x] = accepted[x] - (IF x \in Pending THEN 1 ELSE 0)
  BY MadeWayTypes
<1>5. \A x \in Jobs : Finished'[x] = accepted[x] - (IF x \in Pending' THEN 1 ELSE 0)
  BY DEF Finished
<1>6. Others(j)' \in Nat /\ Others(j)' >= Others(j) + (IF j = k THEN 0 ELSE 1)
  <2>1. ASSUME NEW x \in Jobs \ {j}
        PROVE  /\ Finished[x] \in Nat /\ Finished'[x] \in Nat
               /\ Finished[x] + (IF x = k THEN 1 ELSE 0) <= Finished'[x]
    <3>1. accepted[x] \in Nat /\ Finished[x] \in Nat
      BY <1>4 DEF QueueInv, QueueTypeOK
    <3>2. Finished'[x] = Finished[x] + (IF x = k THEN 1 ELSE 0)
      BY <1>2, <1>4, <1>5, <3>1
    <3> QED
      BY <3>1, <3>2
  <2>2. /\ SumFunctionOnSet(Finished', Jobs \ {j}) \in Nat
        /\ SumFunctionOnSet(Finished, Jobs \ {j}) + (IF k \in Jobs \ {j} THEN 1 ELSE 0) <=
             SumFunctionOnSet(Finished', Jobs \ {j})
    BY <1>4, <2>1, SumGrows
  <2> QED
    BY <1>4, <2>2 DEF Others
<1>7. MadeWay(j)
  BY DEF MadeWayInv
<1>8. j \in Known' => j \in Known
  <2>1. CASE completed' = Retain(completed, k, KeepCompleted) /\ failed' = failed
    <3>1. ToSet(completed') \subseteq ToSet(completed) \cup {k}
      BY <1>3, <2>1, ListRetain
    <3> QED
      BY <1>2, <2>1, <3>1 DEF Known
  <2>2. CASE failed' = Retain(failed, k, KeepFailed) /\ completed' = completed
    <3>1. ToSet(failed') \subseteq ToSet(failed) \cup {k}
      BY <1>3, <2>2, ListRetain
    <3> QED
      BY <1>2, <2>2, <3>1 DEF Known
  <2> QED
    BY <2>1, <2>2
<1> SUFFICES ASSUME accepted[j] >= 1
             PROVE  /\ kept * (accepted[j] - 1) <= Others(j)'
                    /\ After(completed, j)' /\ After(failed, j)'
                    /\ j \notin Known' => kept * accepted[j] <= Others(j)'
  BY <1>7, <1>8 DEF MadeWay
<1>9. /\ kept * (accepted[j] - 1) <= Others(j)
      /\ After(completed, j) /\ After(failed, j)
      /\ j \notin Known => kept * accepted[j] <= Others(j)
  BY <1>7 DEF MadeWay
<1>10. kept * (accepted[j] - 1) <= Others(j)' /\ Others(j)' >= Others(j)
  <2> DEFINE b == kept * (accepted[j] - 1)
  <2>1. b \in Int /\ b <= Others(j)
    BY <1>4, <1>9
  <2> HIDE DEF b
  <2>2. b <= Others(j)' /\ Others(j)' >= Others(j)
    BY <1>4, <1>6, <2>1
  <2> QED
    BY <2>2 DEF b
<1>11. ASSUME NEW s \in Seq(Jobs), After(s, j)
       PROVE  \A p \in 1 .. Len(s) : s[p] = j => kept * (accepted[j] - 1) + Len(s) - p <= Others(j)'
  <2> DEFINE b == kept * (accepted[j] - 1)
  <2> SUFFICES ASSUME NEW p \in 1 .. Len(s), s[p] = j PROVE b + Len(s) - p <= Others(j)'
    OBVIOUS
  <2>1. b + Len(s) - p <= Others(j) /\ b \in Int /\ Len(s) \in Nat
    BY <1>4, <1>11 DEF After
  <2> HIDE DEF b
  <2> QED
    BY <1>4, <1>6, <1>10, <2>1
<1>12. j \notin Known => kept * accepted[j] <= Others(j)'
  <2>1. kept * accepted[j] \in Int
    BY <1>3, <1>4
  <2> QED
    BY <1>4, <1>6, <1>9, <1>10, <2>1
<1>13. k \in Pending' \cup ToSet(completed') \cup ToSet(failed')
  BY <1>3, ListRetain
<1>14. ASSUME NEW s \in Seq(Jobs), NEW r \in Seq(Jobs), NEW n \in Nat \ {0}, n >= kept,
              r = Retain(s, k, n), k \notin ToSet(s), After(s, j)
       PROVE  /\ \A q \in 1 .. Len(r) :
                   r[q] = j => kept * (accepted[j] - 1) + Len(r) - q <= Others(j)'
              /\ j \in ToSet(s) \ ToSet(r) => kept * accepted[j] <= Others(j)'
  <2>1. PICK D \in Nat : D = Others(j)'
    BY <1>6
  <2>2. D >= Others(j) + (IF j = k THEN 0 ELSE 1)
    BY <1>6, <2>1
  <2>3. /\ \A q \in 1 .. Len(r) : r[q] = j => kept * (accepted[j] - 1) + Len(r) - q <= D
        /\ j \in ToSet(s) \ ToSet(r) => kept * accepted[j] <= D
    BY <1>14, <2>2, JoinAfter
  <2> QED
    BY <2>1, <2>3
<1>15. CASE completed' = Retain(completed, k, KeepCompleted) /\ failed' = failed
  <2>1. /\ \A q \in 1 .. Len(completed') :
             completed'[q] = j => kept * (accepted[j] - 1) + Len(completed') - q <= Others(j)'
        /\ j \in ToSet(completed) \ ToSet(completed') => kept * accepted[j] <= Others(j)'
    BY <1>1, <1>3, <1>9, <1>15, <1>14
  <2>2. \A q \in 1 .. Len(failed') :
          failed'[q] = j => kept * (accepted[j] - 1) + Len(failed') - q <= Others(j)'
    BY <1>3, <1>9, <1>11, <1>15
  <2>3. j \notin Known' => j \notin Known \/ j \in ToSet(completed) \ ToSet(completed')
    BY <1>2, <1>13, <1>15 DEF Known
  <2> QED
    BY <1>10, <1>12, <2>1, <2>2, <2>3 DEF After
<1>16. CASE failed' = Retain(failed, k, KeepFailed) /\ completed' = completed
  <2>1. /\ \A q \in 1 .. Len(failed') :
             failed'[q] = j => kept * (accepted[j] - 1) + Len(failed') - q <= Others(j)'
        /\ j \in ToSet(failed) \ ToSet(failed') => kept * accepted[j] <= Others(j)'
    BY <1>1, <1>3, <1>9, <1>16, <1>14
  <2>2. \A q \in 1 .. Len(completed') :
          completed'[q] = j => kept * (accepted[j] - 1) + Len(completed') - q <= Others(j)'
    BY <1>3, <1>9, <1>11, <1>16
  <2>3. j \notin Known' => j \notin Known \/ j \in ToSet(failed) \ ToSet(failed')
    BY <1>2, <1>13, <1>16 DEF Known
  <2> QED
    BY <1>10, <1>12, <2>1, <2>2, <2>3 DEF After
<1> QED
  BY <1>15, <1>16

LEMMA MadeWayNextInv ==
  ASSUME IsFiniteSet(Jobs)
  PROVE  QueueInv /\ QueueInv' /\ MadeWayInv /\ [QueueNext]_queueVars => MadeWayInv'
<1> SUFFICES ASSUME QueueInv, QueueInv', MadeWayInv, [QueueNext]_queueVars, NEW j \in Jobs
             PROVE  MadeWay(j)'
  BY DEF MadeWayInv
<1>1. MadeWay(j)
  BY DEF MadeWayInv
<1>2. CASE UNCHANGED queueVars
  BY <1>1, <1>2, SameKnown DEF queueVars, queue, Pending
<1>3. ASSUME NEW k \in Jobs, Add(k) PROVE MadeWay(j)'
  BY <1>3, AddMadeWay
<1>4. ASSUME NEW k \in Jobs, Promote(k) PROVE MadeWay(j)'
  <2>1. /\ k \in delayed /\ delayed' = delayed \ {k} /\ ToSet(waiting') = ToSet(waiting) \cup {k}
        /\ UNCHANGED <<active, completed, failed, accepted>>
    BY <1>4, ListAppend DEF Promote, QueueInv, QueueTypeOK
  <2>2. Pending' = Pending
    BY <2>1 DEF Pending
  <2> QED
    BY <1>1, <2>1, <2>2, SameKnown
<1>5. ASSUME NEW k \in Jobs, MoveStalled(k) PROVE MadeWay(j)'
  <2>1. k \in active /\ active' = active \ {k} /\ UNCHANGED <<delayed, completed, accepted>>
    BY <1>5 DEF MoveStalled
  <2>2. CASE stalls[k] + 1 > MaxStalled
    <3>1. failed' = Retain(failed, k, KeepFailed) /\ UNCHANGED waiting
      BY <1>5, <2>2 DEF MoveStalled
    <3> QED
      BY <2>1, <3>1, FinishMadeWay
  <2>3. CASE ~ (stalls[k] + 1 > MaxStalled)
    <3>1. ToSet(waiting') = ToSet(waiting) \cup {k} /\ UNCHANGED failed
      <4>1. waiting' = <<k>> \o waiting /\ UNCHANGED failed /\ waiting \in Seq(Jobs)
        BY <1>5, <2>3 DEF MoveStalled, QueueInv, QueueTypeOK
      <4> QED
        BY <4>1, ListCons
    <3>2. Pending' = Pending
      BY <2>1, <3>1 DEF Pending
    <3> QED
      BY <1>1, <2>1, <3>1, <3>2, SameKnown
  <2> QED
    BY <2>2, <2>3
<1>6. ASSUME NEW w \in Workers, Take(w) PROVE MadeWay(j)'
  <2>1. /\ ToSet(waiting) = ToSet(waiting') \cup {Head(waiting)}
        /\ active' = active \cup {Head(waiting)}
        /\ UNCHANGED <<delayed, completed, failed, accepted>>
    BY <1>6, ListHead DEF Take, QueueInv, QueueTypeOK
  <2>2. Pending' = Pending
    BY <2>1 DEF Pending
  <2> QED
    BY <1>1, <2>1, <2>2, SameKnown
<1>7. ASSUME NEW w \in Workers,
             \/ Save(w) \/ Push(w) \/ Crash(w) \/ LoseLock(w)
             \/ (Complete(w) \/ Fail(w)) /\ Rejected(w)
      PROVE  MadeWay(j)'
  <2>1. UNCHANGED queue /\ UNCHANGED accepted
    BY <1>7 DEF Save, Push, Crash, LoseLock, Complete, Fail, Rejected
  <2>2. Pending' = Pending
    BY <2>1 DEF queue, Pending
  <2> QED
    BY <1>1, <2>1, <2>2, SameKnown DEF queue
<1>8. ASSUME NEW w \in Workers, Complete(w), Completes(w) PROVE MadeWay(j)'
  <2>1. /\ active' = active \ {job[w]} /\ UNCHANGED <<waiting, delayed, failed, accepted>>
        /\ completed' = Retain(completed, job[w], KeepCompleted)
    BY <1>8 DEF Complete, Completes
  <2>2. job[w] \in Jobs /\ job[w] \in active
    BY <1>8, BusyWorker, QueueAssumption DEF Complete, Completes, QueueInv, Locked
  <2> QED
    BY <2>1, <2>2, FinishMadeWay
<1>9. ASSUME NEW w \in Workers, Fail(w), Retries(w) PROVE MadeWay(j)'
  <2>1. active' = active \ {job[w]} /\ UNCHANGED <<waiting, completed, accepted>>
    BY <1>9 DEF Fail, Retries
  <2>2. job[w] \in Jobs /\ job[w] \in active
    BY <1>9, BusyWorker, QueueAssumption DEF Fail, Retries, QueueInv, Locked
  <2>3. \/ delayed' = delayed \cup {job[w]} /\ UNCHANGED failed
        \/ failed' = Retain(failed, job[w], KeepFailed) /\ UNCHANGED delayed
    BY <1>9 DEF Retries
  <2>4. CASE delayed' = delayed \cup {job[w]} /\ UNCHANGED failed
    <3>1. Pending' = Pending
      BY <2>1, <2>2, <2>4 DEF Pending
    <3> QED
      BY <1>1, <2>1, <2>4, <3>1, SameKnown
  <2>5. CASE failed' = Retain(failed, job[w], KeepFailed) /\ UNCHANGED delayed
    BY <2>1, <2>2, <2>5, FinishMadeWay
  <2> QED
    BY <2>3, <2>4, <2>5
<1> QED
  BY <1>2, <1>3, <1>4, <1>5, <1>6, <1>7, <1>8, <1>9 DEF QueueNext, Handler, Complete, Fail

LEMMA MadeWayInitInv == ASSUME IsFiniteSet(Jobs) PROVE QueueInit => MadeWayInv
<1> SUFFICES ASSUME QueueInit, NEW j \in Jobs PROVE MadeWay(j)
  BY DEF MadeWayInv
<1>1. Known = {} /\ accepted[j] = 0
  BY DEF QueueInit, Known, Pending, ToSet
<1> QED
  BY <1>1 DEF MadeWay

(***************************************************************************)
(* An id is accepted again only after as many other jobs finished as the   *)
(* queue keeps, for every time it was: until then its job is known, and    *)
(* an add with its id ignored.                                             *)
(***************************************************************************)
THEOREM QueueRepeats == ASSUME IsFiniteSet(Jobs) PROVE QueueSpec => []RepeatedAfterEviction
<1>1. ASSUME QueueInv, MadeWayInv PROVE RepeatedAfterEviction
  <2> SUFFICES ASSUME NEW j \in Jobs
               PROVE  kept * accepted[j] <= kept + SumFunctionOnSet(accepted, Jobs \ {j})
    BY DEF RepeatedAfterEviction, kept
  <2>1. /\ accepted[j] \in Nat /\ Others(j) \in Nat /\ IsFiniteSet(Jobs \ {j})
        /\ kept \in Nat \ {0} /\ kept * (accepted[j] - 1) \in Int
        /\ kept * accepted[j] = kept * (accepted[j] - 1) + kept
        /\ Finished \in [Jobs -> Nat]
        /\ \A k \in Jobs : Finished[k] = accepted[k] - (IF k \in Pending THEN 1 ELSE 0)
    BY <1>1, MadeWayTypes
  <2>2. SumFunctionOnSet(accepted, Jobs \ {j}) \in Nat /\ Others(j) <= SumFunctionOnSet(accepted, Jobs \ {j})
    <3>1. ASSUME NEW x \in Jobs \ {j}
          PROVE  /\ Finished[x] \in Nat /\ accepted[x] \in Nat
                 /\ Finished[x] + (IF x = j THEN 1 ELSE 0) <= accepted[x]
      <4>1. Finished[x] \in Nat /\ accepted[x] \in Nat /\ x # j
        BY <1>1, <2>1 DEF QueueInv, QueueTypeOK
      <4>2. Finished[x] = accepted[x] - (IF x \in Pending THEN 1 ELSE 0)
        BY <2>1
      <4> QED
        BY <4>1, <4>2
    <3> DEFINE S == Jobs \ {j}
    <3>2. IsFiniteSet(S) /\ j \notin S
      BY <2>1
    <3>3. \A x \in S : /\ Finished[x] \in Nat /\ accepted[x] \in Nat
                      /\ Finished[x] + (IF x = j THEN 1 ELSE 0) <= accepted[x]
      BY <3>1
    <3> HIDE DEF S
    <3>4. /\ SumFunctionOnSet(Finished, S) \in Nat /\ SumFunctionOnSet(accepted, S) \in Nat
          /\ SumFunctionOnSet(Finished, S) + (IF j \in S THEN 1 ELSE 0) <=
               SumFunctionOnSet(accepted, S)
      BY <3>2, <3>3, SumGrows
    <3> QED
      BY <3>2, <3>4 DEF S, Others
  <2>3. kept * (accepted[j] - 1) <= Others(j)
    <3>1. CASE accepted[j] >= 1
      BY <1>1, <3>1 DEF MadeWayInv, MadeWay
    <3>2. CASE accepted[j] = 0
      <4>1. kept * accepted[j] = 0
        BY <2>1, <3>2
      <4> QED
        BY <2>1, <4>1
    <3> QED
      BY <2>1, <3>1, <3>2
  <2> DEFINE b == kept * (accepted[j] - 1)
  <2>4. b \in Int /\ kept * accepted[j] = b + kept /\ b <= Others(j)
    BY <2>1, <2>3
  <2> HIDE DEF b
  <2> QED
    BY <2>1, <2>2, <2>4
<1> QED
  BY <1>1, QueueInitInv, QueueNextInv, MadeWayInitInv, MadeWayNextInv, PTL DEF QueueSpec

=============================================================================
