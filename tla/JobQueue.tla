-------------------------------- MODULE JobQueue -------------------------------
(***************************************************************************)
(* The ARQ queue in Redis as the code uses it (jobs/queue.py enqueues,     *)
(* WorkerSettings of jobs/worker.py runs).  ARQ itself is not in the       *)
(* repository.  A job enqueued under a _job_id is refused while a job of   *)
(* that id is queued or running and while its result is kept; a job        *)
(* enqueued without one gets a random id.  A job whose worker dies is run  *)
(* again, at most MaxTries times in all.                                   *)
(***************************************************************************)
EXTENDS Naturals

CONSTANTS
  Named,       \* the _job_ids the code composes
  Anonymous,   \* random ids: a bound on the jobs enqueued without a _job_id
  Tasks,       \* what a job may be asked to do
  NoTask,
  MaxTries     \* WorkerSettings.max_tries

ASSUME QueueConstants ==
  /\ Named \cap Anonymous = {}
  /\ NoTask \notin Tasks
  /\ MaxTries \in Nat \ {0}

VARIABLES
  status,      \* status[j]: "absent", "queued", "running" or "kept" (its result)
  tries,       \* tries[j]: how often the job was started
  task         \* task[j]: the function and arguments it was enqueued with

queueVars == <<status, tries, task>>

JobIds == Named \cup Anonymous

QueueTypeOK ==
  /\ status \in [JobIds -> {"absent", "queued", "running", "kept"}]
  /\ tries \in [JobIds -> 0..MaxTries]
  /\ task \in [JobIds -> Tasks \cup {NoTask}]

QueueInit ==
  /\ status = [j \in JobIds |-> "absent"]
  /\ tries = [j \in JobIds |-> 0]
  /\ task = [j \in JobIds |-> NoTask]

\* enqueue_job(..., _job_id=j) for each job of a set, what[j] its call: refused
\* where one is known.
EnqueueNamed(ids, what) ==
  LET new == {j \in ids : status[j] = "absent"}
  IN /\ status' = [j \in JobIds |-> IF j \in new THEN "queued" ELSE status[j]]
     /\ task' = [j \in JobIds |-> IF j \in new THEN what[j] ELSE task[j]]
     /\ UNCHANGED tries

\* enqueue_job without a _job_id.
EnqueueAnonymous(j, what) ==
  /\ j \in Anonymous /\ status[j] = "absent"
  /\ status' = [status EXCEPT ![j] = "queued"]
  /\ task' = [task EXCEPT ![j] = what]
  /\ UNCHANGED tries

\* enqueue swallows every error: the job may never reach Redis.
EnqueueLost == UNCHANGED queueVars

StartJob(j) ==
  /\ status[j] = "queued" /\ tries[j] < MaxTries
  /\ status' = [status EXCEPT ![j] = "running"]
  /\ tries' = [tries EXCEPT ![j] = @ + 1]
  /\ UNCHANGED task

\* The result is stored and the counter of the tries is dropped.
KeepResult(j) ==
  /\ status' = [status EXCEPT ![j] = "kept"]
  /\ tries' = [tries EXCEPT ![j] = 0]
  /\ UNCHANGED task

\* A job that starts, finds nothing to do and returns.
StartAndFinishJob(j) ==
  /\ status[j] = "queued" /\ tries[j] < MaxTries
  /\ KeepResult(j)

FinishJob(j) ==
  /\ status[j] = "running"
  /\ KeepResult(j)

\* The job goes back to the queue.
RequeueJob(j) ==
  /\ status[j] = "running"
  /\ status' = [status EXCEPT ![j] = "queued"]
  /\ UNCHANGED <<tries, task>>

\* The worker dies or the timeout strikes.  The comments of WorkerSettings count on
\* a retry after a timeout too; a queue that drops the job instead is allowed.
InterruptJob(j) == RequeueJob(j) \/ FinishJob(j)

\* Out of tries: the job is dropped with a failure for a result.
GiveUpJob(j) ==
  /\ status[j] = "queued" /\ tries[j] = MaxTries
  /\ KeepResult(j)

\* The result of a named job expires and its id is free again.
ExpireJob(j) ==
  /\ j \in Named /\ status[j] = "kept"
  /\ status' = [status EXCEPT ![j] = "absent"]
  /\ task' = [task EXCEPT ![j] = NoTask]
  /\ UNCHANGED tries
===============================================================================
