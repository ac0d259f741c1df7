---------------------------- MODULE JobAttempts ----------------------------
(***************************************************************************)
(* The worker's processing of queued jobs and its record of every attempt.  *)
(* The queue (BullMQ) numbers attempts, tries a failed job again, and gives *)
(* a job whose lock ran out to another worker without counting an attempt.  *)
(***************************************************************************)
EXTENDS Naturals, FiniteSets

CONSTANTS
    Tasks,      \* jobs of the queues
    AttemptsOf, \* their option `attempts'
    Hands,      \* jobs that the worker processes handle at a time
    MaxErrors   \* errors, lost locks and ends of processes in a behaviour

ASSUME TasksAssumption == AttemptsOf \in [Tasks -> Nat \ {0}] /\ MaxErrors \in Nat
ASSUME HandsAssumption == IsFiniteSet(Hands)

MaxStalls == 1 \* BullMQ's default maxStalledCount

VARIABLES
    queued,  \* the queue's job: state, attemptsMade, lost locks, and the lock's holder
    attempt, \* job_attempts.status by job and attempt number
    hand,    \* what each handler is doing, for which job, as which attempt
    worked,  \* how often the job's work was begun
    unwritten, \* attempts that failed because, or although, their row could not be written
    errors

jobVars == <<queued, attempt, hand, worked, unwritten, errors>>

Numbers(j) == 1..AttemptsOf[j]
Ended == {"completed", "failed"}
FreeHand == [at |-> "free", task |-> {}, number |-> 0]

JobsInit ==
    /\ queued = [j \in Tasks |-> [state |-> "absent", made |-> 0, stalls |-> 0, lock |-> {}]]
    /\ attempt = [j \in Tasks |-> [n \in Numbers(j) |-> "none"]]
    /\ hand = [h \in Hands |-> FreeHand]
    /\ worked = [j \in Tasks |-> 0]
    /\ unwritten = {} /\ errors = 0

Fault == errors < MaxErrors /\ errors' = errors + 1
HandAt(h, step, j) == hand[h].at = step /\ j \in hand[h].task
Move(h, step) == hand' = [hand EXCEPT ![h].at = step]

-----------------------------------------------------------------------------
(* The queue.                                                                *)

\* registerRecurringJobs and the administration; the queue ignores an id it knows.
Enqueue(j) ==
    /\ queued[j].state = "absent"
    /\ queued' = [queued EXCEPT ![j].state = "waiting"]
    /\ UNCHANGED <<attempt, hand, worked, unwritten, errors>>

Fetch(h, j) ==
    /\ hand[h].at = "free" /\ queued[j].state = "waiting"
    /\ queued' = [queued EXCEPT ![j].state = "active", ![j].lock = {h}]
    /\ hand' = [hand EXCEPT ![h] = [at |-> "start", task |-> {j}, number |-> queued[j].made + 1]]
    /\ UNCHANGED <<attempt, worked, unwritten, errors>>

LockRunsOut(j) ==
    /\ queued[j].state = "active"
    /\ queued' = [queued EXCEPT ![j].lock = {}, ![j].stalls = @ + 1,
                     ![j].state = IF queued[j].stalls < MaxStalls THEN "waiting" ELSE "failed"]
    /\ UNCHANGED <<attempt, hand, worked, unwritten>>

\* The holder is still at work, and late.
LoseLock(j) == (\E h \in queued[j].lock : j \in hand[h].task) /\ LockRunsOut(j) /\ Fault

\* Mutant: the check for stalled jobs is turned off.
NeverRecover(j) == LockRunsOut(j) /\ FALSE

\* The holder is gone.
Recover(j) ==
    (\A h \in queued[j].lock : j \notin hand[h].task) /\ LockRunsOut(j) /\ UNCHANGED errors

\* The handler returns or throws; without the lock that has no effect.
Settle(h, j, step, outcome) ==
    /\ HandAt(h, step, j)
    /\ queued' = IF h \in queued[j].lock
                 THEN [queued EXCEPT ![j].made = @ + 1, ![j].state = outcome, ![j].lock = {}]
                 ELSE queued
    /\ hand' = [hand EXCEPT ![h] = FreeHand]
    /\ UNCHANGED <<attempt, worked, unwritten, errors>>

Return(h, j) == Settle(h, j, "return", "completed")
Throw(h, j) ==
    Settle(h, j, "throw", IF queued[j].made + 1 < AttemptsOf[j] THEN "waiting" ELSE "failed")

-----------------------------------------------------------------------------
(* The handler of worker.ts.                                                 *)

\* Mutant: every write makes a new row, and readers find the first one.
FirstRow(h, j, status) ==
    IF attempt[j][hand[h].number] = "none"
    THEN [attempt EXCEPT ![j][hand[h].number] = status] ELSE attempt

\* upsertJobAttempt: one row per job and attempt number.
Upsert(h, j, status) == [attempt EXCEPT ![j][hand[h].number] = status]

\* A statement succeeds, or throws before or after it took effect.
Write(h, j, status, then, caught) ==
    /\ \/ attempt' = Upsert(h, j, status) /\ Move(h, then) /\ UNCHANGED <<unwritten, errors>>
       \/ /\ attempt' \in {attempt, Upsert(h, j, status)} /\ Move(h, caught) /\ Fault
          /\ unwritten' = IF caught = "throw" THEN unwritten \cup {<<j, hand[h].number>>}
                          ELSE unwritten
    /\ UNCHANGED <<queued, worked>>

\* Outside the try block: its error fails the attempt without a row of its own.
Announce(h, j) == HandAt(h, "start", j) /\ Write(h, j, "running", "work", "throw")

\* runQueuedJob begins, and returns or throws.
Work(h, j) ==
    /\ HandAt(h, "work", j)
    /\ worked' = [worked EXCEPT ![j] = @ + 1]
    /\ \/ Move(h, "finish") /\ UNCHANGED errors
       \/ Move(h, "report") /\ Fault
    /\ UNCHANGED <<queued, attempt, unwritten>>

\* Mutant: a row that cannot be written does not fail the job.
FinishRegardless(h, j) == HandAt(h, "finish", j) /\ Write(h, j, "succeeded", "return", "return")

Finish(h, j) == HandAt(h, "finish", j) /\ Write(h, j, "succeeded", "return", "report")

Report(h, j) == HandAt(h, "report", j) /\ Write(h, j, "failed", "throw", "throw")

\* The process ends; the queue learns of it when the lock runs out.
HandStops(h) ==
    /\ hand[h].at # "free" /\ Fault
    /\ hand' = [hand EXCEPT ![h] = FreeHand]
    /\ UNCHANGED <<queued, attempt, worked, unwritten>>

HandStep(h, j) ==
    Announce(h, j) \/ Work(h, j) \/ Finish(h, j) \/ Report(h, j) \/ Return(h, j) \/ Throw(h, j)

JobsNext ==
    \/ \E j \in Tasks : Enqueue(j) \/ LoseLock(j) \/ Recover(j)
    \/ \E h \in Hands : HandStops(h) \/ \E j \in Tasks : Fetch(h, j) \/ HandStep(h, j)

JobsFairness ==
    /\ \A j \in Tasks : WF_jobVars(Recover(j)) /\ WF_jobVars(\E h \in Hands : Fetch(h, j))
    /\ \A h \in Hands : WF_jobVars(\E j \in Tasks : HandStep(h, j))

JobsSpec == JobsInit /\ [][JobsNext]_jobVars

-----------------------------------------------------------------------------
(* Properties                                                                *)

\* Every job, row and handler holds what the code and the queue can write there.
JobsTypeOK ==
    /\ queued \in [Tasks -> [state : {"absent", "waiting", "active"} \cup Ended, made : Nat,
                             stalls : 0..MaxStalls + 1, lock : SUBSET Hands]]
    /\ \A j \in Tasks :
          /\ attempt[j] \in [Numbers(j) -> {"none", "running", "succeeded", "failed"}]
          /\ queued[j].made <= AttemptsOf[j]
    /\ hand \in [Hands -> [at : {"free", "start", "work", "finish", "report", "return", "throw"},
                           task : SUBSET Tasks, number : Nat]]
    /\ worked \in [Tasks -> Nat] /\ unwritten \subseteq Tasks \X Nat /\ errors \in 0..MaxErrors

\* How the n-th of the attempts that the queue counted for a job has ended.
Ending(j, n) ==
    IF queued[j].state = "completed" /\ n = queued[j].made THEN "succeeded" ELSE "failed"

\* A job's work is begun at most once per attempt and lost lock, and a completed one was worked on.
\* Unless a lock was lost, the rows say of each attempt the queue counted how it ended, except of
\* a failed one whose own row could not be written; a success is never counted without its row.
RetriesAreAudited ==
    \A j \in Tasks :
        /\ worked[j] <= queued[j].made + queued[j].stalls + Cardinality(queued[j].lock)
        /\ queued[j].state = "completed" => worked[j] > 0
        /\ queued[j].stalls = 0 => \A n \in 1..queued[j].made :
              \/ attempt[j][n] = Ending(j, n)
              \/ Ending(j, n) = "failed" /\ <<j, n>> \in unwritten
        /\ (errors = 0 /\ queued[j].state \in Ended) => queued[j].made = 1

\* A job that was enqueued is completed or given up in the end.
EveryJobEnds == \A j \in Tasks : queued[j].state = "waiting" ~> queued[j].state \in Ended

-----------------------------------------------------------------------------
(* What the documentation says and the code does not keep.                   *)

\* "Every job attempt stores [its] status [and] error details on failure": of every attempt the
\* queue counted there is a row that says how it ended.
EveryAttemptIsStored ==
    \A j \in Tasks : \A n \in 1..queued[j].made : attempt[j][n] \in {"succeeded", "failed"}
=============================================================================
