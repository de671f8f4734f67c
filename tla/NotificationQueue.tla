-------------------------- MODULE NotificationQueue --------------------------
(***************************************************************************)
(* The queue "notifications" and its processor.  Producers add jobs; each  *)
(* application instance runs one worker, which takes one job at a time,    *)
(* stores a notification row and pushes it to the recipient's sockets.     *)
(* An error makes the queue run the job again after a delay, up to the     *)
(* configured number of attempts.                                          *)
(*                                                                         *)
(* A worker holds a lock on its job.  If it dies, or does not renew the    *)
(* lock in time, the queue takes the job for stalled and gives it to       *)
(* another worker; a worker that merely lost its lock goes on regardless.  *)
(* The queue keeps the newest completed and failed jobs; while it knows a  *)
(* job id, in whatever state, it ignores an add() with that id.            *)
(***************************************************************************)
EXTENDS Naturals, SequencesExt

CONSTANTS Reminders,      \* due_reminder jobs: id due_reminder:{task}:{hour}
          Events,         \* the other jobs: an id of their own for each add()
          Workers,        \* application instances
          NoJob, NoWorker,
          MaxAttempts,    \* attempts
          MaxStalled,     \* the queue's default maxStalledCount
          KeepCompleted,  \* removeOnComplete.count
          KeepFailed,     \* removeOnFail.count
          MaxAdds,        \* bound: times a reminder id can be accepted
          MaxFaults       \* bound: crashes, lost locks and lost answers

Jobs == Reminders \cup Events

ASSUME QueueAssumption ==
  /\ Reminders \cap Events = {}
  /\ NoJob \notin Jobs /\ NoWorker \notin Workers
  /\ {MaxAttempts, KeepCompleted, KeepFailed, MaxAdds} \subseteq Nat \ {0}
  /\ {MaxStalled, MaxFaults} \subseteq Nat

VARIABLES waiting,    \* the jobs to run, first the next
          delayed,    \* the jobs whose backoff delay is running
          active,     \* the jobs handed to a worker
          completed,  \* the finished jobs the queue still knows, newest last
          failed,     \* the given-up jobs the queue still knows, newest last
          attempts,   \* failed attempts of each job
          stalls,     \* how often it stalled
          lock,       \* the worker whose lock on the job is alive
          job,        \* the job each worker's handler runs
          step,       \* what the handler does next
          rows,       \* notification rows stored for each job
          pushes,     \* how often its notification was pushed to the sockets
          accepted,   \* how often the queue accepted its id
          faults      \* how many faults there were

queue     == <<waiting, delayed, active, completed, failed, attempts, stalls>>
handlers  == <<job, step>>
outside   == <<rows, pushes>>
queueVars == <<queue, lock, handlers, outside, accepted, faults>>

(* The jobs the queue has yet to finish, and all it knows. *)
Pending == ToSet(waiting) \cup delayed \cup active

(* Mutant: the id of a job that was finished is free again. *)
KnownUnfinished == Pending

Known   == Pending \cup ToSet(completed) \cup ToSet(failed)

QueueInit ==
  /\ waiting = <<>> /\ delayed = {} /\ active = {}
  /\ completed = <<>> /\ failed = <<>>
  /\ attempts = [j \in Jobs |-> 0] /\ stalls = [j \in Jobs |-> 0]
  /\ lock = [j \in Jobs |-> NoWorker]
  /\ job = [w \in Workers |-> NoJob] /\ step = [w \in Workers |-> "idle"]
  /\ rows = [j \in Jobs |-> 0] /\ pushes = [j \in Jobs |-> 0]
  /\ accepted = [j \in Jobs |-> 0]
  /\ faults = 0

-----------------------------------------------------------------------------
(* Producers *)

(* The bound on adds, and an id of its own for each event. *)
MayAdd(j) == accepted[j] < IF j \in Events THEN 1 ELSE MaxAdds

Add(j) ==
  /\ MayAdd(j)
  /\ j \notin Known
  /\ waiting' = Append(waiting, j)
  /\ attempts' = [attempts EXCEPT ![j] = 0]
  /\ stalls' = [stalls EXCEPT ![j] = 0]
  /\ accepted' = [accepted EXCEPT ![j] = @ + 1]
  /\ UNCHANGED <<delayed, active, completed, failed, lock, handlers, outside, faults>>

-----------------------------------------------------------------------------
(* The queue *)

(* The newest n entries of list s after j joined it. *)
Retain(s, j, n) ==
  LET t == Append(s, j)
  IN  SubSeq(t, Len(t) - (IF Len(t) < n THEN Len(t) ELSE n) + 1, Len(t))

Take(w) ==
  /\ step[w] = "idle"
  /\ waiting # <<>>
  /\ waiting' = Tail(waiting)
  /\ active' = active \cup {Head(waiting)}
  /\ lock' = [lock EXCEPT ![Head(waiting)] = w]
  /\ job' = [job EXCEPT ![w] = Head(waiting)]
  /\ step' = [step EXCEPT ![w] = "save"]
  /\ UNCHANGED <<delayed, completed, failed, attempts, stalls, outside, accepted, faults>>

(* The handler's promise settled; w can take the next job. *)
Release(w) ==
  /\ job' = [job EXCEPT ![w] = NoJob]
  /\ step' = [step EXCEPT ![w] = "idle"]

Unlock(j) == lock' = [lock EXCEPT ![j] = NoWorker]

(* moveToCompleted and moveToFailed refuse a worker without the lock. *)
Rejected(w) ==
  /\ lock[job[w]] # w
  /\ UNCHANGED <<queue, lock>>

(* Mutant: the lock is not checked. *)
CompletesUnlocked(w) ==
  /\ active' = active \ {job[w]}
  /\ completed' = Retain(completed, job[w], KeepCompleted)
  /\ Unlock(job[w])
  /\ UNCHANGED <<waiting, delayed, failed, attempts, stalls>>

Completes(w) ==
  /\ lock[job[w]] = w
  /\ active' = active \ {job[w]}
  /\ completed' = Retain(completed, job[w], KeepCompleted)
  /\ Unlock(job[w])
  /\ UNCHANGED <<waiting, delayed, failed, attempts, stalls>>

(* Mutant: no limit on the attempts. *)
RetriesForever(w) ==
  LET j == job[w]
  IN  /\ lock[j] = w
      /\ active' = active \ {j}
      /\ delayed' = delayed \cup {j}
      /\ Unlock(j)
      /\ UNCHANGED <<waiting, completed, failed, attempts, stalls>>

Retries(w) ==
  LET j == job[w]
  IN  /\ lock[j] = w
      /\ attempts' = [attempts EXCEPT ![j] = @ + 1]
      /\ active' = active \ {j}
      /\ IF attempts[j] + 1 < MaxAttempts
         THEN /\ delayed' = delayed \cup {j}
              /\ UNCHANGED failed
         ELSE /\ failed' = Retain(failed, j, KeepFailed)
              /\ UNCHANGED delayed
      /\ Unlock(j)
      /\ UNCHANGED <<waiting, completed, stalls>>

(* The backoff delay is over. *)
Promote(j) ==
  /\ j \in delayed
  /\ delayed' = delayed \ {j}
  /\ waiting' = Append(waiting, j)
  /\ UNCHANGED <<active, completed, failed, attempts, stalls, lock,
                 handlers, outside, accepted, faults>>

(* An active job nobody holds the lock of: run it next, or give it up. *)
MoveStalled(j) ==
  /\ j \in active /\ lock[j] = NoWorker
  /\ stalls' = [stalls EXCEPT ![j] = @ + 1]
  /\ active' = active \ {j}
  /\ IF stalls[j] + 1 > MaxStalled
     THEN failed' = Retain(failed, j, KeepFailed) /\ UNCHANGED waiting
     ELSE waiting' = <<j>> \o waiting /\ UNCHANGED failed
  /\ UNCHANGED <<delayed, completed, attempts, lock, handlers, outside,
                 accepted, faults>>

-----------------------------------------------------------------------------
(***************************************************************************)
(* The handler: NotificationsProcessor.process.  Its early return for a    *)
(* job that names no recipient is left out: every queue.add in the         *)
(* repository gives one.                                                   *)
(***************************************************************************)

StepTo(w, s) == step' = [step EXCEPT ![w] = s] /\ UNCHANGED job

(* Mutant: an error of create is caught and logged. *)
SaveSwallowsError(w) ==
  /\ step[w] = "save"
  /\ \/ rows' = [rows EXCEPT ![job[w]] = @ + 1] /\ StepTo(w, "push")
     \/ UNCHANGED rows /\ StepTo(w, "complete")
  /\ UNCHANGED <<queue, lock, pushes, accepted, faults>>

(***************************************************************************)
(* notificationsService.create: an INSERT.  Its answer may get lost after  *)
(* the row was committed, which the handler cannot tell from an error.     *)
(***************************************************************************)
Save(w) ==
  /\ step[w] = "save"
  /\ \/ /\ rows' = [rows EXCEPT ![job[w]] = @ + 1]
        /\ StepTo(w, "push")
        /\ UNCHANGED faults
     \/ /\ StepTo(w, "fail")
        /\ UNCHANGED <<rows, faults>>
     \/ /\ faults < MaxFaults
        /\ rows' = [rows EXCEPT ![job[w]] = @ + 1]
        /\ StepTo(w, "fail")
        /\ faults' = faults + 1
  /\ UNCHANGED <<queue, lock, pushes, accepted>>

(* Mutant: a push that fails makes the handler throw. *)
PushMayThrow(w) ==
  /\ step[w] = "push"
  /\ \/ pushes' = [pushes EXCEPT ![job[w]] = @ + 1] /\ StepTo(w, "complete")
     \/ UNCHANGED pushes /\ StepTo(w, "fail")
  /\ UNCHANGED <<queue, lock, rows, accepted, faults>>

(* gateway.emitToUser, and the handler returns. *)
Push(w) ==
  /\ step[w] = "push"
  /\ pushes' = [pushes EXCEPT ![job[w]] = @ + 1]
  /\ StepTo(w, "complete")
  /\ UNCHANGED <<queue, lock, rows, accepted, faults>>

Complete(w) ==
  /\ step[w] = "complete"
  /\ Completes(w) \/ Rejected(w)
  /\ Release(w)
  /\ UNCHANGED <<outside, accepted, faults>>

Fail(w) ==
  /\ step[w] = "fail"
  /\ Retries(w) \/ Rejected(w)
  /\ Release(w)
  /\ UNCHANGED <<outside, accepted, faults>>

(* The handler's lock, if it still has it, is gone. *)
DropLock(w) ==
  lock' = IF lock[job[w]] = w THEN [lock EXCEPT ![job[w]] = NoWorker] ELSE lock

(* The instance dies and restarts; its lock expires. *)
Crash(w) ==
  /\ step[w] # "idle"
  /\ faults < MaxFaults
  /\ faults' = faults + 1
  /\ DropLock(w)
  /\ Release(w)
  /\ UNCHANGED <<queue, outside, accepted>>

(* The lock expires under a handler that is alive but late. *)
LoseLock(w) ==
  /\ step[w] # "idle"
  /\ lock[job[w]] = w
  /\ faults < MaxFaults
  /\ faults' = faults + 1
  /\ Unlock(job[w])
  /\ UNCHANGED <<queue, handlers, outside, accepted>>

-----------------------------------------------------------------------------

Handler(w) == Take(w) \/ Save(w) \/ Push(w) \/ Complete(w) \/ Fail(w)

QueueNext ==
  \/ \E j \in Jobs : Add(j) \/ Promote(j) \/ MoveStalled(j)
  \/ \E w \in Workers : Handler(w) \/ Crash(w) \/ LoseLock(w)

QueueSpec == QueueInit /\ [][QueueNext]_queueVars

(* Delays end, the stalled check runs, and an instance's worker goes on. *)
FairQueueSpec ==
  /\ QueueSpec
  /\ \A j \in Jobs : WF_queueVars(Promote(j)) /\ WF_queueVars(MoveStalled(j))
  /\ \A w \in Workers : WF_queueVars(Handler(w))

-----------------------------------------------------------------------------

QueueTypeOK ==
  /\ waiting \in Seq(Jobs) /\ completed \in Seq(Jobs) /\ failed \in Seq(Jobs)
  /\ delayed \subseteq Jobs /\ active \subseteq Jobs
  /\ Len(completed) <= KeepCompleted /\ Len(failed) <= KeepFailed
  /\ attempts \in [Jobs -> 0 .. MaxAttempts]
  /\ stalls \in [Jobs -> 0 .. MaxStalled + 1]
  /\ lock \in [Jobs -> Workers \cup {NoWorker}]
  /\ job \in [Workers -> Jobs \cup {NoJob}]
  /\ step \in [Workers -> {"idle", "save", "push", "complete", "fail"}]
  /\ \A w \in Workers : job[w] = NoJob <=> step[w] = "idle"
  /\ {rows, pushes, accepted} \subseteq [Jobs -> Nat]
  /\ faults \in 0 .. MaxFaults

(***************************************************************************)
(* The queue neither loses a job nor has it twice: an accepted job it has  *)
(* not finished is in exactly one of its lists, once, also after a worker  *)
(* without the lock tried to finish it.  A lock is on an active job, and   *)
(* its holder is a handler that runs this job.                             *)
(***************************************************************************)
OneState ==
  /\ QueueTypeOK
  /\ Len(waiting) + Cardinality(delayed) + Cardinality(active) + Len(completed)
       + Len(failed) = Cardinality(Known)
  /\ \A j \in Jobs : lock[j] # NoWorker =>
       j \in active /\ job[lock[j]] = j /\ step[lock[j]] # "idle"

(***************************************************************************)
(* A second notification for a job always has a cause outside the code: a  *)
(* crash, a lost lock or a lost answer.  A retry alone never makes one.    *)
(* And however many faults there are, the queue runs a job at most         *)
(* MaxAttempts + MaxStalled times for each time it accepted it, so a       *)
(* recipient never sees more copies.                                       *)
(***************************************************************************)
CopiesBounded ==
  \A j \in Jobs :
    /\ rows[j] <= accepted[j] + faults
    /\ rows[j] <= accepted[j] * (MaxAttempts + MaxStalled)

(* A job reported as completed has its row, and was pushed. *)
CompletedIsDelivered ==
  \A j \in ToSet(completed) : rows[j] >= 1 /\ pushes[j] >= 1

(***************************************************************************)
(* Every accepted job is finished: completed, or given up after its        *)
(* attempts; it is neither forgotten nor retried for ever.                 *)
(***************************************************************************)
JobsSettle == \A j \in Jobs : j \in Pending ~> j \notin Pending

(***************************************************************************)
(* The job id de-duplicates exactly as long as the queue knows it: a job   *)
(* is accepted again only after as many other jobs finished as the queue   *)
(* keeps, for every time it was.                                           *)
(***************************************************************************)
RepeatedAfterEviction ==
  LET kept == Min({KeepCompleted, KeepFailed})
  IN  \A j \in Jobs : kept * accepted[j] <= kept + SumFunctionOnSet(accepted, Jobs \ {j})

(***************************************************************************)
(* "We never queue two reminders for the same task within the same hour"   *)
(* (task-scheduler.service.ts:32): an id is accepted once.                 *)
(***************************************************************************)
RemindedOncePerHour == \A j \in Reminders : accepted[j] <= 1

=============================================================================
