-------------------------- MODULE EventPipelineProofs --------------------------
(***************************************************************************)
(* Theorems about the event pipeline, for any finite set of events and any *)
(* number of receivers and jobs.                                           *)
(***************************************************************************)
EXTENDS EventPipeline, FiniteSetTheorems, TLAPS

LEMMA JobIdsAre == JobIds = Events \cup Anonymous /\ Events \cap Anonymous = {}
BY PipelineJobs, QueueConstants DEF JobIds

LEMMA TasksAre ==
  /\ Tasks = Events \cup {SweepCall} /\ NoTask \notin Tasks
  /\ SweepCall \notin Events /\ NoTask # SweepCall
BY PipelineJobs, QueueConstants, PipelineConstants

LEMMA PairIsSmall ==
  ASSUME NEW x, NEW y, NEW R, R \subseteq {x, y}
  PROVE  IsFiniteSet(R) /\ Cardinality(R) <= 2
<1>1. IsFiniteSet({x}) /\ Cardinality({x}) = 1
  BY FS_Singleton
<1>2. /\ IsFiniteSet({x} \cup {y})
      /\ Cardinality({x} \cup {y}) = IF y \in {x} THEN 1 ELSE 1 + 1
  BY <1>1, FS_AddElement
<1>3. {x, y} = {x} \cup {y}
  OBVIOUS
<1>4. IsFiniteSet(R) /\ Cardinality(R) <= Cardinality({x, y})
  BY <1>2, <1>3, FS_Subset
<1>5. Cardinality(R) \in Nat
  BY <1>4, FS_CardinalityType
<1> QED
  BY <1>2, <1>3, <1>4, <1>5

\* The runs on an event that came outside a sweep belong to two jobs.
LEMMA TwoRunsAtMost ==
  ASSUME TypeOK, OneExtractJob, JobsNameStoredEvents, RunsBelongToJobs,
         NEW e \in Events, ~events[e].sweep
  PROVE  /\ IsFiniteSet(RunsOn(e)) /\ Cardinality(RunsOn(e)) \in Nat
         /\ Cardinality(RunsOn(e)) <= 2
<1> DEFINE RunAt(j) == [job |-> j, try |-> tries[j], event |-> e]
<1>1. ASSUME NEW run \in RunsOn(e)
      PROVE  run = RunAt(run.job) /\ run.job \in JobIds /\ task[run.job] = e
  <2>1. run \in runs /\ run.event = e /\ run \in Run
    BY DEF RunsOn, TypeOK
  <2>2. task[run.job] = e /\ run.try = tries[run.job]
    BY <2>1 DEF RunsBelongToJobs
  <2> QED
    BY <2>1, <2>2 DEF Run
<1>2. ASSUME NEW run \in RunsOn(e), run.job \in Events PROVE run = RunAt(e)
  <2>1. task[run.job] = e /\ task[run.job] \in {run.job, NoTask} /\ e # NoTask
    BY <1>1, <1>2, TasksAre DEF JobsNameStoredEvents
  <2> QED
    BY <1>1, <2>1
<1>3. PICK k : \A j \in Anonymous : task[j] = e => j = k
  <2>1. CASE \E j \in Anonymous : task[j] = e
    BY <2>1 DEF OneExtractJob
  <2>2. CASE ~\E j \in Anonymous : task[j] = e
    BY <2>2
  <2> QED
    BY <2>1, <2>2
<1>4. ASSUME NEW run \in RunsOn(e), run.job \notin Events PROVE run = RunAt(k)
  BY <1>1, <1>3, <1>4, JobIdsAre
<1>5. RunsOn(e) \subseteq {RunAt(e), RunAt(k)}
  BY <1>2, <1>4
<1>6. IsFiniteSet(RunsOn(e)) /\ Cardinality(RunsOn(e)) <= 2
  BY <1>5, PairIsSmall
<1> QED
  BY <1>6, FS_CardinalityType
TwoRuns ==
  \A e \in Events : ~events[e].sweep =>
    /\ IsFiniteSet(RunsOn(e)) /\ Cardinality(RunsOn(e)) \in Nat
    /\ Cardinality(RunsOn(e)) <= 2
Structure == TypeOK /\ OneExtractJob /\ JobsNameStoredEvents /\ RunsBelongToJobs

LEMMA TwoRunsHold == Structure => TwoRuns
BY TwoRunsAtMost DEF Structure, TwoRuns

LEMMA TwoRunsHoldNext == Structure' => TwoRuns'
BY TwoRunsHold, PTL

LEMMA RowTyped ==
  ASSUME TypeOK, NEW e \in Events
  PROVE  /\ events[e].outcome \in {"none", "queued"} \cup Recorded
         /\ events[e].attempts \in Nat /\ events[e].sweep \in BOOLEAN
         /\ events[e].born \in Nat /\ events[e] \in EventRow
         /\ proposals[e] \in Nat
BY DEF TypeOK, EventRow

\* Fewer runs and the same rows: the counts still add up.
LEMMA FewerRunsKeep ==
  ASSUME PipelineInvariant, events' = events, proposals' = proposals,
         runs' \subseteq runs
  PROVE  AttemptsCountRecords'
<1>1. TwoRuns
  BY TwoRunsHold DEF PipelineInvariant, Structure
<1>2. \A e \in Events : (~Processed(e))' = ~Processed(e)
  BY DEF Processed
<1>3. ASSUME NEW e \in Events, ~events[e].sweep
      PROVE  events[e].attempts + Cardinality(RunsOn(e))' <= 2
  <2>1. RunsOn(e)' \subseteq RunsOn(e)
    BY DEF RunsOn
  <2>2. /\ IsFiniteSet(RunsOn(e)) /\ Cardinality(RunsOn(e)) \in Nat
        /\ events[e].attempts + Cardinality(RunsOn(e)) <= 2
    BY <1>1, <1>3 DEF TwoRuns, PipelineInvariant, AttemptsCountRecords
  <2>3. IsFiniteSet(RunsOn(e)') /\ Cardinality(RunsOn(e)') <= Cardinality(RunsOn(e))
    BY <2>1, <2>2, FS_Subset
  <2>4. Cardinality(RunsOn(e)') \in Nat
    BY <2>3, FS_CardinalityType
  <2>5. events[e].attempts \in Nat
    BY RowTyped DEF PipelineInvariant
  <2> QED
    BY <2>2, <2>3, <2>4, <2>5
<1> QED
  BY <1>2, <1>3 DEF AttemptsCountRecords, PipelineInvariant

-------------------------------------------------------------------------------
(***************************************************************************)
(* The steps.                                                              *)
(***************************************************************************)
LEMMA InitHolds == Init => PipelineInvariant
<1> SUFFICES ASSUME Init PROVE PipelineInvariant
  OBVIOUS
<1> USE JobIdsAre, TasksAre
<1>1. TypeOK
  <2>1. NoEventRow \in EventRow
    BY DEF NoEventRow, EventRow
  <2>2. QueueTypeOK
    BY QueueConstants DEF Init, QueueInit, QueueTypeOK
  <2> QED
    BY <2>1, <2>2 DEF Init, TypeOK
<1>2. OneExtractJob
  BY DEF Init, QueueInit, OneExtractJob, HandedOut
<1>3. JobsNameStoredEvents
  BY DEF Init, QueueInit, JobsNameStoredEvents
<1>4. RunsBelongToJobs
  BY DEF Init, RunsBelongToJobs
<1>5. AttemptsCountRecords
  <2>1. ASSUME NEW e \in Events PROVE RunsOn(e) = {}
    BY DEF Init, RunsOn
  <2>2. Cardinality({}) = 0
    BY FS_EmptySet
  <2>3. ASSUME NEW e \in Events
        PROVE  /\ events[e].attempts = 0 /\ proposals[e] = 0
               /\ Cardinality(RunsOn(e)) = 0
    BY <2>1, <2>2 DEF Init, NoEventRow
  <2> QED
    BY <2>3 DEF AttemptsCountRecords
<1> QED
  BY <1>1, <1>2, <1>3, <1>4, <1>5 DEF PipelineInvariant

LEMMA IngestKeeps ==
  ASSUME PipelineInvariant, NEW r \in Receivers, NEW batch \in SUBSET Events,
         NEW sweep \in BOOLEAN, Ingest(r, batch, sweep)
  PROVE  PipelineInvariant'
<1> DEFINE new == Fresh(batch)
           row == [outcome |-> "queued", attempts |-> 0, sweep |-> sweep,
                   born |-> Cardinality(Stored)]
<1> USE DEF PipelineInvariant
<1>1. /\ events' = [e \in Events |-> IF e \in new THEN row ELSE events[e]]
      /\ inserted' = [inserted EXCEPT ![r] = IF sweep THEN {} ELSE new]
      /\ inserted[r] = {}
      /\ UNCHANGED <<status, tries, task, proposals, runs, todo, listed>>
  BY DEF Ingest, queueVars
<1>2. row \in EventRow
  <2>1. IsFiniteSet(Stored)
    BY PipelineConstants, FS_Subset DEF Stored
  <2> QED
    BY <2>1, FS_CardinalityType DEF EventRow
<1>3. new \subseteq Events /\ \A e \in new : e \notin Stored
  BY DEF Fresh
<1>4. Stored' = Stored \cup new
  BY <1>1, <1>3 DEF Stored, Recorded
<1>5. \A e \in Stored : events'[e] = events[e]
  BY <1>1, <1>3 DEF Stored
<1>6. TypeOK'
  BY <1>1, <1>2, <1>3 DEF TypeOK, QueueTypeOK
<1>7. OneExtractJob'
  BY <1>1, <1>3, JobIdsAre DEF OneExtractJob, HandedOut, JobsNameStoredEvents, TypeOK
<1>8. JobsNameStoredEvents'
  <2>1. \A q \in Receivers : inserted'[q] \subseteq Stored'
    BY <1>1, <1>4 DEF JobsNameStoredEvents, TypeOK
  <2> QED
    BY <1>1, <1>4, <1>5, <2>1 DEF JobsNameStoredEvents
<1>9. RunsBelongToJobs'
  BY <1>1, <1>4, <1>5 DEF RunsBelongToJobs
<1>10. AttemptsCountRecords'
  <2>1. \A e \in Events : RunsOn(e)' = RunsOn(e)
    BY <1>1 DEF RunsOn
  <2>2. ASSUME NEW e \in new
        PROVE  events'[e] = row /\ RunsOn(e) = {} /\ proposals[e] = 0
    <3>1. events'[e] = row
      BY <1>1, <1>3
    <3>2. RunsOn(e) = {}
      BY <1>3 DEF RunsOn, RunsBelongToJobs
    <3>3. e \in Events /\ ~Processed(e)
      BY <1>3 DEF Stored, Processed, Recorded
    <3>4. proposals[e] <= 0 /\ proposals[e] \in Nat
      BY <3>3 DEF AttemptsCountRecords, TypeOK
    <3> QED
      BY <3>1, <3>2, <3>4
  <2>3. ASSUME NEW e \in Events, e \notin new PROVE events'[e] = events[e]
    BY <1>1, <2>3
  <2>4. Cardinality({}) = 0
    BY FS_EmptySet
  <2>5. ASSUME NEW e \in Events
        PROVE  /\ proposals'[e] <= events'[e].attempts
               /\ events'[e].outcome \notin Recorded => events'[e].attempts = 0
               /\ ~events'[e].sweep =>
                    events'[e].attempts + Cardinality(RunsOn(e)') <= 2
    <3>1. CASE e \in new
      <4>1. events'[e].outcome = "queued" /\ events'[e].attempts = 0
        BY <2>2, <3>1
      <4>2. Cardinality(RunsOn(e)') = 0
        BY <2>1, <2>2, <2>4, <3>1
      <4>3. proposals'[e] = 0
        BY <1>1, <2>2, <3>1
      <4> HIDE DEF new, row
      <4> QED
        BY <4>1, <4>2, <4>3 DEF Recorded
    <3>2. CASE e \notin new
      BY <1>1, <2>1, <2>3, <3>2 DEF AttemptsCountRecords, Processed
    <3> QED
      BY <3>1, <3>2
  <2> QED
    BY <2>5 DEF AttemptsCountRecords, Processed
<1> QED
  BY <1>6, <1>7, <1>8, <1>9, <1>10
\* Rows untouched: what is stored and recorded stays so.
LEMMA SameRows ==
  ASSUME events' = events
  PROVE  /\ Stored' = Stored /\ Queued' = Queued
         /\ \A e \in Events : (Processed(e))' = Processed(e)
BY DEF Stored, Queued, Processed

\* No job of a run is absent, and the job of a run outside a sweep is running.
LEMMA RunJobs ==
  ASSUME PipelineInvariant, NEW run \in runs
  PROVE  /\ run \in Run /\ run.job \in JobIds /\ run.event \in Events
         /\ status[run.job] # "absent"
         /\ task[run.job] # SweepCall => status[run.job] = "running"
BY DEF PipelineInvariant, TypeOK, Run, RunsBelongToJobs, JobsNameStoredEvents

LEMMA EnqueueExtractKeeps ==
  ASSUME PipelineInvariant, NEW r \in Receivers, NEW e \in Events,
         EnqueueExtract(r, e)
  PROVE  PipelineInvariant'
<1> USE DEF PipelineInvariant
<1>1. /\ e \in inserted[r] /\ e \in Stored
      /\ inserted' = [inserted EXCEPT ![r] = inserted[r] \ {e}]
      /\ UNCHANGED <<events, proposals, runs, todo, listed>>
  BY DEF EnqueueExtract, JobsNameStoredEvents
<1>2. CASE EnqueueLost
  <2>1. UNCHANGED <<status, tries, task>>
    BY <1>2 DEF EnqueueLost, queueVars
  <2>2. TypeOK'
    BY <1>1, <2>1 DEF TypeOK, QueueTypeOK
  <2>3. OneExtractJob'
    BY <1>1, <2>1 DEF OneExtractJob, HandedOut, TypeOK
  <2>4. JobsNameStoredEvents'
    BY <1>1, <2>1, SameRows DEF JobsNameStoredEvents, TypeOK
  <2>5. RunsBelongToJobs'
    BY <1>1, <2>1, SameRows DEF RunsBelongToJobs
  <2> QED
    BY <1>1, <2>2, <2>3, <2>4, <2>5, FewerRunsKeep
<1>3. ASSUME NEW k \in Anonymous, EnqueueAnonymous(k, e) PROVE PipelineInvariant'
  <2>1. /\ status[k] = "absent" /\ k \in JobIds
        /\ status' = [status EXCEPT ![k] = "queued"]
        /\ task' = [task EXCEPT ![k] = e] /\ UNCHANGED tries
    BY <1>3, JobIdsAre DEF EnqueueAnonymous
  <2>2. TypeOK'
    BY <1>1, <2>1, TasksAre DEF TypeOK, QueueTypeOK
  <2>3. OneExtractJob'
    BY <1>1, <2>1, JobIdsAre DEF OneExtractJob, HandedOut, TypeOK, QueueTypeOK
  <2>4. JobsNameStoredEvents'
    BY <1>1, <2>1, SameRows, JobIdsAre, TasksAre
    DEF JobsNameStoredEvents, TypeOK, QueueTypeOK
  <2>5. RunsBelongToJobs'
    <3>1. \A run \in runs : run.job # k
      BY <2>1, RunJobs
    <3>2. \A run \in runs : /\ task'[run.job] = task[run.job]
                            /\ status'[run.job] = status[run.job]
      BY <2>1, <3>1, RunJobs DEF TypeOK, QueueTypeOK
    <3> QED
      BY <1>1, <2>1, <3>2, SameRows DEF RunsBelongToJobs
  <2> QED
    BY <1>1, <2>2, <2>3, <2>4, <2>5, FewerRunsKeep
<1> QED
  BY <1>2, <1>3 DEF EnqueueExtract

LEMMA CrashReceiverKeeps ==
  ASSUME PipelineInvariant, NEW r \in Receivers, CrashReceiver(r)
  PROVE  PipelineInvariant'
<1> USE DEF PipelineInvariant
<1>1. /\ inserted' = [inserted EXCEPT ![r] = {}]
      /\ UNCHANGED <<status, tries, task, events, proposals, runs, todo, listed>>
  BY DEF CrashReceiver, queueVars
<1>2. TypeOK'
  BY <1>1 DEF TypeOK, QueueTypeOK
<1>3. OneExtractJob'
  BY <1>1 DEF OneExtractJob, HandedOut, TypeOK
<1>4. JobsNameStoredEvents'
  BY <1>1, SameRows DEF JobsNameStoredEvents, TypeOK
<1>5. RunsBelongToJobs'
  BY <1>1, SameRows DEF RunsBelongToJobs
<1> QED
  BY <1>1, <1>2, <1>3, <1>4, <1>5, FewerRunsKeep

LEMMA ListingKeeps ==
  ASSUME PipelineInvariant, listed' \subseteq Stored,
         UNCHANGED <<queueVars, events, proposals, inserted, runs, todo>>
  PROVE  PipelineInvariant'
<1> USE DEF PipelineInvariant
<1>1. /\ listed' \subseteq Stored /\ Stored \subseteq Events
      /\ UNCHANGED <<status, tries, task, events, proposals, inserted, runs, todo>>
  BY DEF queueVars, Stored
<1>2. TypeOK'
  BY <1>1 DEF TypeOK, QueueTypeOK
<1>3. OneExtractJob'
  BY <1>1 DEF OneExtractJob, HandedOut
<1>4. JobsNameStoredEvents'
  BY <1>1, SameRows DEF JobsNameStoredEvents
<1>5. RunsBelongToJobs'
  BY <1>1, SameRows DEF RunsBelongToJobs
<1> QED
  BY <1>1, <1>2, <1>3, <1>4, <1>5, FewerRunsKeep

\* Steps of the queue alone about a job no run depends on.
LEMMA QueueStepKeeps ==
  ASSUME PipelineInvariant, NEW j \in JobIds,
         UNCHANGED <<events, proposals, inserted, runs, todo, listed>>,
         QueueTypeOK',
         \A k \in JobIds \ {j} :
           status'[k] = status[k] /\ tries'[k] = tries[k] /\ task'[k] = task[k],
         status'[j] = "absent" <=> task'[j] = NoTask,
         status'[j] # "running",
         task'[j] \in {task[j], NoTask, SweepCall},
         j \in Events => task'[j] \in {j, NoTask},
         todo[j] = {},
         \A run \in runs : run.job = j => task[j] = SweepCall /\ task'[j] = SweepCall
  PROVE  PipelineInvariant'
<1> USE DEF PipelineInvariant
<1>1. TypeOK'
  BY DEF TypeOK
<1>2. OneExtractJob'
  <2>1. \A e \in Events, k \in Anonymous : task'[k] = e => task[k] = e
    BY JobIdsAre, TasksAre
  <2> QED
    BY <2>1 DEF OneExtractJob, HandedOut
<1>3. JobsNameStoredEvents'
  BY SameRows, JobIdsAre, TasksAre DEF JobsNameStoredEvents
<1>4. RunsBelongToJobs'
  <2> SUFFICES ASSUME NEW run \in runs
               PROVE  /\ run.event \in Stored
                      /\ task'[run.job] # NoTask
                      /\ IF task'[run.job] = SweepCall
                         THEN events[run.event].sweep
                         ELSE /\ task'[run.job] = run.event
                              /\ status'[run.job] = "running"
                              /\ run.try = tries'[run.job]
    BY SameRows DEF RunsBelongToJobs
  <2>1. CASE run.job = j
    BY <2>1, TasksAre DEF RunsBelongToJobs
  <2>2. CASE run.job # j
    BY <2>2, RunJobs DEF RunsBelongToJobs
  <2> QED
    BY <2>1, <2>2
<1> QED
  BY <1>1, <1>2, <1>3, <1>4, FewerRunsKeep
LEMMA EnqueueSweepKeeps ==
  ASSUME PipelineInvariant, NEW j \in Anonymous, EnqueueSweep(j)
  PROVE  PipelineInvariant'
<1> USE JobIdsAre, TasksAre
<1>1. /\ j \in JobIds /\ status[j] = "absent"
      /\ status' = [status EXCEPT ![j] = "queued"]
      /\ task' = [task EXCEPT ![j] = SweepCall] /\ UNCHANGED tries
      /\ UNCHANGED <<events, proposals, inserted, runs, todo, listed>>
  BY DEF EnqueueSweep, EnqueueAnonymous
<1>2. QueueTypeOK /\ QueueTypeOK'
  BY <1>1 DEF PipelineInvariant, TypeOK, QueueTypeOK
<1>3. todo[j] = {} /\ \A run \in runs : run.job # j
  BY <1>1, RunJobs DEF PipelineInvariant, JobsNameStoredEvents
<1> QED
  BY <1>1, <1>2, <1>3, QueueStepKeeps DEF QueueTypeOK

LEMMA GiveUpKeeps ==
  ASSUME PipelineInvariant, NEW j \in JobIds, GiveUp(j)
  PROVE  PipelineInvariant'
<1> USE JobIdsAre, TasksAre
<1>1. /\ status[j] = "queued"
      /\ status' = [status EXCEPT ![j] = "kept"]
      /\ tries' = [tries EXCEPT ![j] = 0] /\ UNCHANGED task
      /\ UNCHANGED <<events, proposals, inserted, runs, todo, listed>>
  BY DEF GiveUp, GiveUpJob, KeepResult
<1>2. QueueTypeOK /\ QueueTypeOK'
  BY <1>1, QueueConstants DEF PipelineInvariant, TypeOK, QueueTypeOK
<1>3. todo[j] = {} /\ task[j] # NoTask /\ (j \in Events => task[j] = j)
  BY <1>1 DEF PipelineInvariant, JobsNameStoredEvents
<1>4. \A run \in runs : run.job = j => task[j] = SweepCall
  BY <1>1, RunJobs
<1> QED
  BY <1>1, <1>2, <1>3, <1>4, QueueStepKeeps DEF QueueTypeOK

LEMMA ExpireKeeps ==
  ASSUME PipelineInvariant, NEW e \in Events, Expire(e)
  PROVE  PipelineInvariant'
<1> USE JobIdsAre, TasksAre
<1>1. /\ status[e] = "kept" /\ e \in JobIds
      /\ status' = [status EXCEPT ![e] = "absent"]
      /\ task' = [task EXCEPT ![e] = NoTask] /\ UNCHANGED tries
      /\ UNCHANGED <<events, proposals, inserted, runs, todo, listed>>
  BY DEF Expire, ExpireJob
<1>2. QueueTypeOK /\ QueueTypeOK'
  BY <1>1 DEF PipelineInvariant, TypeOK, QueueTypeOK
<1>3. todo[e] = {} /\ task[e] \in {e, NoTask}
  BY <1>1 DEF PipelineInvariant, JobsNameStoredEvents
<1>4. \A run \in runs : run.job # e
  BY <1>1, <1>3, RunJobs
<1> QED
  BY <1>1, <1>2, <1>3, <1>4, QueueStepKeeps DEF QueueTypeOK

\* A job that was queued, and finds its event processed or its sweep done.
LEMMA StartAndFinishKeeps ==
  ASSUME PipelineInvariant, NEW j \in JobIds, StartAndFinishJob(j),
         UNCHANGED <<events, proposals, inserted, runs, todo, listed>>
  PROVE  PipelineInvariant'
<1> USE JobIdsAre, TasksAre
<1>1. /\ status[j] = "queued"
      /\ status' = [status EXCEPT ![j] = "kept"]
      /\ tries' = [tries EXCEPT ![j] = 0] /\ UNCHANGED task
  BY DEF StartAndFinishJob, KeepResult
<1>2. QueueTypeOK /\ QueueTypeOK'
  BY <1>1, QueueConstants DEF PipelineInvariant, TypeOK, QueueTypeOK
<1>3. todo[j] = {} /\ task[j] # NoTask /\ (j \in Events => task[j] = j)
  BY <1>1 DEF PipelineInvariant, JobsNameStoredEvents
<1>4. \A run \in runs : run.job = j => task[j] = SweepCall
  BY <1>1, RunJobs
<1> QED
  BY <1>1, <1>2, <1>3, <1>4, QueueStepKeeps DEF QueueTypeOK

LEMMA StartExtractKeeps ==
  ASSUME PipelineInvariant, NEW j \in JobIds, StartExtract(j)
  PROVE  PipelineInvariant'
<1> DEFINE e == task[j]
           run == RunOf(j, e)
<1> USE JobIdsAre, TasksAre DEF PipelineInvariant
<1>1. e \in Events /\ UNCHANGED <<events, proposals, inserted, todo, listed>>
  BY DEF StartExtract
<1>2. CASE Skips(e)
  BY <1>1, <1>2, StartAndFinishKeeps DEF StartExtract
<1>3. CASE ~Skips(e)
  <2>1. /\ status[j] = "queued" /\ tries[j] < MaxTries
        /\ status' = [status EXCEPT ![j] = "running"]
        /\ tries' = [tries EXCEPT ![j] = tries[j] + 1] /\ UNCHANGED task
        /\ runs' = runs \cup {run}
    BY <1>3 DEF StartExtract, StartJob
  <2>2. tries[j] \in 0..MaxTries /\ tries[j] + 1 \in 1..MaxTries
    BY <2>1, QueueConstants DEF TypeOK, QueueTypeOK
  <2>3. run \in Run
    BY <1>1, <2>2 DEF RunOf, Run
  <2>4. TypeOK'
    BY <1>1, <2>1, <2>2, <2>3 DEF TypeOK, QueueTypeOK
  <2>5. OneExtractJob'
    BY <1>1, <2>1 DEF OneExtractJob, HandedOut
  <2>6. JobsNameStoredEvents'
    BY <1>1, <2>1, <2>2, SameRows DEF JobsNameStoredEvents, TypeOK, QueueTypeOK
  <2>7. RunsBelongToJobs'
    <3>1. \A old \in runs : old.job # j
      BY <1>1, <2>1, RunJobs
    <3>2. \A old \in runs : status'[old.job] = status[old.job]
                            /\ tries'[old.job] = tries[old.job]
      BY <2>1, <3>1, RunJobs DEF TypeOK, QueueTypeOK
    <3>3. run.job = j /\ run.event = e /\ run.try = tries'[j] /\ status'[j] = "running"
      BY <2>1 DEF RunOf, TypeOK, QueueTypeOK
    <3>4. e \in Stored
      BY <1>1 DEF JobsNameStoredEvents
    <3> QED
      BY <1>1, <2>1, <3>2, <3>3, <3>4, SameRows DEF RunsBelongToJobs
  <2>8. AttemptsCountRecords'
    <3>1. TwoRuns'
      BY <2>4, <2>5, <2>6, <2>7, TwoRunsHoldNext DEF Structure
    <3>2. \A x \in Events : x # e => RunsOn(x)' = RunsOn(x)
      BY <2>1 DEF RunsOn, RunOf
    <3>3. events[e].attempts = 0
      BY <1>1, <1>3 DEF Skips, AttemptsCountRecords
    <3>4. ASSUME NEW x \in Events, ~events[x].sweep
          PROVE  events[x].attempts + Cardinality(RunsOn(x)') <= 2
      <4>1. CASE x = e
        <5>1. Cardinality(RunsOn(x)') \in Nat /\ Cardinality(RunsOn(x)') <= 2
          BY <1>1, <3>1, <3>4 DEF TwoRuns
        <5> QED
          BY <3>3, <4>1, <5>1
      <4>2. CASE x # e
        BY <3>2, <3>4, <4>2 DEF AttemptsCountRecords
      <4> QED
        BY <4>1, <4>2
    <3> QED
      BY <1>1, <3>4, SameRows DEF AttemptsCountRecords
  <2> QED
    BY <2>4, <2>5, <2>6, <2>7, <2>8
<1> QED
  BY <1>2, <1>3

LEMMA StartSweepKeeps ==
  ASSUME PipelineInvariant, NEW j \in Anonymous, StartSweep(j)
  PROVE  PipelineInvariant'
<1> USE JobIdsAre, TasksAre DEF PipelineInvariant
<1>1. /\ task[j] = SweepCall /\ j \in JobIds
      /\ UNCHANGED <<events, proposals, inserted, runs, listed>>
  BY DEF StartSweep
<1>2. CASE SweepQueued = {}
  BY <1>1, <1>2, StartAndFinishKeeps DEF StartSweep
<1>3. CASE SweepQueued # {}
  <2>1. /\ status[j] = "queued" /\ tries[j] < MaxTries
        /\ status' = [status EXCEPT ![j] = "running"]
        /\ tries' = [tries EXCEPT ![j] = tries[j] + 1] /\ UNCHANGED task
    BY <1>3 DEF StartSweep, StartJob
  <2>2. PICK batch \in SUBSET SweepQueued : todo' = [todo EXCEPT ![j] = batch]
    BY <1>3 DEF StartSweep, Oldest
  <2>3. tries[j] \in 0..MaxTries /\ tries[j] + 1 \in 1..MaxTries
    BY <1>1, <2>1, QueueConstants DEF TypeOK, QueueTypeOK
  <2>4. batch \subseteq Stored /\ \A e \in batch : events[e].sweep
    BY <2>2 DEF SweepQueued, Queued, Stored
  <2>5. TypeOK'
    BY <1>1, <2>1, <2>2, <2>3 DEF TypeOK, QueueTypeOK, SweepQueued, Queued
  <2>6. OneExtractJob'
    BY <1>1, <2>1 DEF OneExtractJob, HandedOut
  <2>7. JobsNameStoredEvents'
    BY <1>1, <2>1, <2>2, <2>3, <2>4, SameRows
    DEF JobsNameStoredEvents, TypeOK, QueueTypeOK
  <2>8. RunsBelongToJobs'
    <3>1. ASSUME NEW run \in runs, task[run.job] # SweepCall
          PROVE  status'[run.job] = status[run.job] /\ tries'[run.job] = tries[run.job]
      BY <1>1, <2>1, <3>1, RunJobs DEF TypeOK, QueueTypeOK
    <3> QED
      BY <1>1, <2>1, <3>1, SameRows DEF RunsBelongToJobs
  <2> QED
    BY <1>1, <2>5, <2>6, <2>7, <2>8, FewerRunsKeep
<1> QED
  BY <1>2, <1>3
LEMMA LaunchSweepKeeps ==
  ASSUME PipelineInvariant, NEW j \in Anonymous, NEW e \in Events, LaunchSweep(j, e)
  PROVE  PipelineInvariant'
<1> DEFINE run == [job |-> j, try |-> tries[j], event |-> e]
<1> USE JobIdsAre, TasksAre DEF PipelineInvariant
<1>1. /\ e \in todo[j] /\ j \in JobIds
      /\ todo' = [todo EXCEPT ![j] = todo[j] \ {e}]
      /\ runs' \in {runs, runs \cup {run}}
      /\ UNCHANGED <<status, tries, task, events, proposals, inserted, listed>>
  BY DEF LaunchSweep, queueVars
<1>2. /\ task[j] = SweepCall /\ status[j] = "running" /\ tries[j] \in 1..MaxTries
      /\ e \in Stored /\ events[e].sweep
  BY <1>1, QueueConstants DEF JobsNameStoredEvents, TypeOK, QueueTypeOK
<1>3. run \in Run
  BY <1>1, <1>2 DEF Run
<1>4. TypeOK'
  BY <1>1, <1>3 DEF TypeOK, QueueTypeOK
<1>5. OneExtractJob'
  BY <1>1 DEF OneExtractJob, HandedOut
<1>6. JobsNameStoredEvents'
  BY <1>1, SameRows DEF JobsNameStoredEvents, TypeOK
<1>7. RunsBelongToJobs'
  BY <1>1, <1>2, SameRows DEF RunsBelongToJobs
<1>8. AttemptsCountRecords'
  <2>1. \A x \in Events : ~events[x].sweep => RunsOn(x)' = RunsOn(x)
    BY <1>1, <1>2 DEF RunsOn
  <2>2. \A x \in Events : ~events[x].sweep =>
          events[x].attempts + Cardinality(RunsOn(x)') <= 2
    BY <2>1 DEF AttemptsCountRecords
  <2> QED
    BY <1>1, <2>2, SameRows DEF AttemptsCountRecords
<1> QED
  BY <1>4, <1>5, <1>6, <1>7, <1>8

LEMMA FinishSweepKeeps ==
  ASSUME PipelineInvariant, NEW j \in Anonymous, FinishSweep(j)
  PROVE  PipelineInvariant'
<1> USE JobIdsAre, TasksAre
<1>1. /\ status[j] = "running" /\ task[j] = SweepCall /\ todo[j] = {} /\ j \in JobIds
      /\ UNCHANGED <<events, proposals, inserted, runs, todo, listed>>
  BY DEF FinishSweep
<1>2. CASE FinishJob(j)
  <2>1. /\ status' = [status EXCEPT ![j] = "kept"]
        /\ tries' = [tries EXCEPT ![j] = 0] /\ UNCHANGED task
    BY <1>2 DEF FinishJob, KeepResult
  <2>2. QueueTypeOK /\ QueueTypeOK'
    BY <2>1, QueueConstants DEF PipelineInvariant, TypeOK, QueueTypeOK
  <2> QED
    BY <1>1, <2>1, <2>2, QueueStepKeeps DEF QueueTypeOK
<1>3. ASSUME NEW k \in Anonymous, status[k] = "absent",
             status' = [status EXCEPT ![j] = "kept", ![k] = "queued"],
             tries' = [tries EXCEPT ![j] = 0],
             task' = [task EXCEPT ![k] = SweepCall]
      PROVE  PipelineInvariant'
  <2> USE DEF PipelineInvariant
  <2>1. k \in JobIds /\ k # j
    BY <1>1, <1>3
  <2>2. TypeOK'
    BY <1>1, <1>3, QueueConstants DEF TypeOK, QueueTypeOK
  <2>3. OneExtractJob'
    BY <1>1, <1>3 DEF OneExtractJob, HandedOut, TypeOK, QueueTypeOK
  <2>4. todo[k] = {}
    BY <1>3, <2>1 DEF JobsNameStoredEvents
  <2>5. /\ \A i \in JobIds \ {j, k} : status'[i] = status[i] /\ tries'[i] = tries[i]
        /\ \A i \in JobIds \ {k} : task'[i] = task[i]
        /\ status'[j] = "kept" /\ status'[k] = "queued" /\ task'[k] = SweepCall
    BY <1>1, <1>3, <2>1 DEF TypeOK, QueueTypeOK
  <2>6. JobsNameStoredEvents'
    BY <1>1, <2>1, <2>4, <2>5, SameRows DEF JobsNameStoredEvents
  <2>7. RunsBelongToJobs'
    <3>1. \A run \in runs : run.job # k
      BY <1>3, RunJobs
    <3> QED
      BY <1>1, <2>5, <3>1, RunJobs, SameRows DEF RunsBelongToJobs
  <2> QED
    BY <1>1, <2>2, <2>3, <2>6, <2>7, FewerRunsKeep
<1> QED
  BY <1>2, <1>3 DEF FinishSweep

\* A job is interrupted, and its current runs with it.
LEMMA InterruptKeeps ==
  ASSUME PipelineInvariant, NEW j \in JobIds, InterruptJob(j),
         UNCHANGED <<events, proposals, inserted, listed>>,
         todo' = [todo EXCEPT ![j] = {}], runs' \subseteq runs,
         \A run \in runs' : run.job = j => task[j] = SweepCall
  PROVE  PipelineInvariant'
<1> USE JobIdsAre, TasksAre DEF PipelineInvariant
<1>1. /\ status[j] = "running" /\ UNCHANGED task
      /\ status' \in {[status EXCEPT ![j] = s] : s \in {"queued", "kept"}}
      /\ tries' \in {tries, [tries EXCEPT ![j] = 0]}
      /\ \A k \in JobIds \ {j} : status'[k] = status[k] /\ tries'[k] = tries[k]
      /\ status'[j] \in {"queued", "kept"}
  BY DEF InterruptJob, RequeueJob, FinishJob, KeepResult, TypeOK, QueueTypeOK
<1>2. TypeOK'
  BY <1>1, QueueConstants DEF TypeOK, QueueTypeOK
<1>3. OneExtractJob'
  BY <1>1 DEF OneExtractJob, HandedOut
<1>4. JobsNameStoredEvents'
  BY <1>1, SameRows DEF JobsNameStoredEvents, TypeOK, QueueTypeOK
<1>5. RunsBelongToJobs'
  <2>1. ASSUME NEW run \in runs', task[run.job] # SweepCall
        PROVE  status'[run.job] = status[run.job] /\ tries'[run.job] = tries[run.job]
    BY <1>1, <2>1, RunJobs DEF TypeOK, QueueTypeOK
  <2> QED
    BY <1>1, <2>1, SameRows DEF RunsBelongToJobs
<1> QED
  BY <1>2, <1>3, <1>4, <1>5, FewerRunsKeep

LEMMA KillKeeps ==
  ASSUME PipelineInvariant, NEW j \in JobIds, Kill(j)
  PROVE  PipelineInvariant'
<1>1. /\ InterruptJob(j) /\ UNCHANGED <<events, proposals, inserted, listed>>
      /\ todo' = [todo EXCEPT ![j] = {}]
      /\ runs' \subseteq runs \ CurrentRunsOf(j)
  BY DEF Kill, CurrentRunsOf, RunsOf
<1>2. ASSUME NEW run \in runs', run.job = j PROVE task[j] = SweepCall
  BY <1>1, <1>2 DEF PipelineInvariant, RunsBelongToJobs, CurrentRunsOf, RunsOf
<1> QED
  BY <1>1, <1>2, InterruptKeeps

LEMMA TimeoutLaunchingKeeps ==
  ASSUME PipelineInvariant, NEW j \in Anonymous, TimeoutLaunching(j)
  PROVE  PipelineInvariant'
<1>1. /\ InterruptJob(j) /\ UNCHANGED <<events, proposals, inserted, runs, listed>>
      /\ todo' = [todo EXCEPT ![j] = {}] /\ j \in JobIds
  BY JobIdsAre DEF TimeoutLaunching
<1>2. task[j] = SweepCall
  BY <1>1 DEF TimeoutLaunching, PipelineInvariant, JobsNameStoredEvents
<1> QED
  BY <1>1, <1>2, InterruptKeeps

LEMMA ListStaleKeeps ==
  ASSUME PipelineInvariant, ListStale \/ \E e \in Events : SkipStale(e)
  PROVE  PipelineInvariant'
<1>1. listed' \subseteq Stored
  BY DEF ListStale, Oldest, Stale, Queued, Stored, SkipStale,
         PipelineInvariant, JobsNameStoredEvents
<1>2. UNCHANGED <<queueVars, events, proposals, inserted, runs, todo>>
  BY DEF ListStale, SkipStale, EnqueueLost
<1> QED
  BY <1>1, <1>2, ListingKeeps

LEMMA ReextractKeeps ==
  ASSUME PipelineInvariant, NEW e \in Events, Reextract(e)
  PROVE  PipelineInvariant'
<1> USE JobIdsAre, TasksAre DEF PipelineInvariant
<1>1. /\ UNCHANGED <<events, proposals, inserted, runs, todo>>
      /\ e \in Stored /\ listed' \subseteq listed /\ listed \subseteq Stored
  BY DEF Reextract, JobsNameStoredEvents
<1> DEFINE new == {j \in {e} : status[j] = "absent"}
<1>3. /\ new \subseteq Events /\ new \subseteq Stored
      /\ \A j \in new : status[j] = "absent"
  BY <1>1
<1>4. /\ status' = [j \in JobIds |-> IF j \in new THEN "queued" ELSE status[j]]
      /\ task' = [j \in JobIds |-> IF j \in new THEN j ELSE task[j]]
      /\ UNCHANGED tries
  BY <1>3 DEF Reextract, EnqueueNamed
<1> HIDE DEF new
<1>5. TypeOK'
  BY <1>1, <1>3, <1>4 DEF TypeOK, QueueTypeOK
<1>6. OneExtractJob'
  BY <1>1, <1>3, <1>4 DEF OneExtractJob, HandedOut
<1>7. JobsNameStoredEvents'
  BY <1>1, <1>3, <1>4, SameRows DEF JobsNameStoredEvents
<1>8. RunsBelongToJobs'
  <2>1. \A run \in runs : run.job \notin new
    BY <1>3, RunJobs
  <2>2. \A run \in runs : /\ task'[run.job] = task[run.job]
                          /\ status'[run.job] = status[run.job]
    BY <1>4, <2>1, RunJobs
  <2> QED
    BY <1>1, <1>4, <2>2, SameRows DEF RunsBelongToJobs
<1> QED
  BY <1>1, <1>5, <1>6, <1>7, <1>8, FewerRunsKeep
\* The end of a run, whatever it did to the row of its event.
LEMMA EndsKeeps ==
  ASSUME PipelineInvariant, NEW run \in runs, Ends(run),
         events' \in [Events -> EventRow], proposals' \in [Events -> Nat],
         Stored' = Stored, UNCHANGED listed,
         \A e \in Events : events'[e].sweep = events[e].sweep
  PROVE  Structure'
<1> DEFINE j == run.job
<1> USE JobIdsAre, TasksAre DEF PipelineInvariant
<1>1. /\ runs' = runs \ {run} /\ UNCHANGED <<inserted, todo>>
      /\ run \in Run /\ j \in JobIds
  BY RunJobs DEF Ends
<1>2. Stored \subseteq Events
  BY DEF Stored
<1>3. CASE task[j] = SweepCall
  <2>1. UNCHANGED <<status, tries, task>>
    BY <1>3 DEF Ends, queueVars
  <2>2. TypeOK'
    BY <1>1, <2>1 DEF TypeOK, QueueTypeOK
  <2>3. OneExtractJob'
    BY <1>1, <2>1 DEF OneExtractJob, HandedOut
  <2>4. JobsNameStoredEvents'
    BY <1>1, <1>2, <2>1 DEF JobsNameStoredEvents
  <2>5. RunsBelongToJobs'
    BY <1>1, <1>2, <2>1 DEF RunsBelongToJobs
  <2> QED
    BY <2>2, <2>3, <2>4, <2>5 DEF Structure
<1>4. CASE task[j] # SweepCall
  <2>1. /\ status[j] = "running" /\ UNCHANGED task
        /\ \A k \in JobIds \ {j} : status'[k] = status[k] /\ tries'[k] = tries[k]
        /\ status'[j] \in {"kept", "queued"}
        /\ QueueTypeOK'
    BY <1>1, <1>4, QueueConstants
    DEF Ends, FinishJob, KeepResult, RequeueJob, TypeOK, QueueTypeOK
  <2>2. todo[j] = {}
    BY <1>1, <1>4 DEF JobsNameStoredEvents
  <2>3. \A other \in runs' : other.job # j
    <3> SUFFICES ASSUME NEW other \in runs', other.job = j PROVE FALSE
      OBVIOUS
    <3>1. other \in runs /\ other # run /\ other \in Run
      BY <1>1, RunJobs
    <3>2. /\ other.try = tries[j] /\ other.event = task[j]
          /\ run.try = tries[j] /\ run.event = task[j]
      BY <1>4, <3>1 DEF RunsBelongToJobs
    <3> QED
      BY <1>1, <3>1, <3>2 DEF Run
  <2>4. TypeOK'
    BY <1>1, <2>1 DEF TypeOK
  <2>5. OneExtractJob'
    BY <1>1, <2>1 DEF OneExtractJob, HandedOut
  <2>6. JobsNameStoredEvents'
    BY <1>1, <1>2, <2>1, <2>2 DEF JobsNameStoredEvents
  <2>7. RunsBelongToJobs'
    BY <1>1, <1>2, <2>1, <2>3, RunJobs DEF RunsBelongToJobs
  <2> QED
    BY <2>4, <2>5, <2>6, <2>7 DEF Structure
<1> QED
  BY <1>3, <1>4

LEMMA EndUnrecordedKeeps ==
  ASSUME PipelineInvariant, NEW run \in runs, EndUnrecorded(run)
  PROVE  PipelineInvariant'
<1>1. /\ Ends(run) /\ UNCHANGED <<events, proposals, listed>>
      /\ runs' \subseteq runs
  BY DEF EndUnrecorded, Ends
<1>2. Structure'
  BY <1>1, EndsKeeps, SameRows DEF PipelineInvariant, TypeOK
<1> QED
  BY <1>1, <1>2, FewerRunsKeep DEF Structure, PipelineInvariant

LEMMA FinalizedRow ==
  ASSUME NEW row \in EventRow, NEW outcome \in Recorded
  PROVE  /\ Finalized(row, outcome) \in EventRow
         /\ Finalized(row, outcome).outcome = outcome
         /\ Finalized(row, outcome).attempts = row.attempts + 1
         /\ Finalized(row, outcome).sweep = row.sweep
<1>1. row.attempts + 1 \in Nat
  BY DEF EventRow
<1>2. outcome \in {"none", "queued"} \cup Recorded
  OBVIOUS
<1> QED
  BY <1>1, <1>2 DEF Finalized, EventRow

LEMMA EndRunKeeps ==
  ASSUME PipelineInvariant, NEW run \in runs, NEW outcome \in Recorded,
         EndRun(run, outcome)
  PROVE  PipelineInvariant'
<1> DEFINE e == run.event
<1>1. /\ Ends(run) /\ e \in Events /\ e \in Stored /\ UNCHANGED listed
      /\ runs' = runs \ {run}
  BY RunJobs DEF EndRun, Ends, PipelineInvariant, RunsBelongToJobs
<1>2. /\ events' = [events EXCEPT ![e] = Finalized(events[e], outcome)]
      /\ proposals' = IF outcome = "written"
                      THEN [proposals EXCEPT ![e] = proposals[e] + 1] ELSE proposals
  BY DEF EndRun
<1>3. TypeOK
  BY DEF PipelineInvariant
<1>4. /\ Finalized(events[e], outcome) \in EventRow
      /\ Finalized(events[e], outcome).outcome = outcome
      /\ Finalized(events[e], outcome).attempts = events[e].attempts + 1
      /\ Finalized(events[e], outcome).sweep = events[e].sweep
  BY <1>1, <1>3, RowTyped, FinalizedRow
<1>5. /\ events' \in [Events -> EventRow] /\ proposals' \in [Events -> Nat]
      /\ events'[e] = Finalized(events[e], outcome)
      /\ \A x \in Events : x # e => events'[x] = events[x] /\ proposals'[x] = proposals[x]
      /\ proposals'[e] \in {proposals[e], proposals[e] + 1}
  BY <1>1, <1>2, <1>3, <1>4 DEF TypeOK
<1>6. Stored' = Stored
  BY <1>1, <1>4, <1>5 DEF Stored, Recorded
<1>7. Structure'
  <2>1. \A x \in Events : events'[x].sweep = events[x].sweep
    BY <1>4, <1>5
  <2> QED
    BY <1>1, <1>5, <1>6, <2>1, EndsKeeps
<1>8. AttemptsCountRecords'
  <2>1. AttemptsCountRecords /\ TwoRuns
    BY TwoRunsHold DEF PipelineInvariant, Structure
  <2>2. ASSUME NEW x \in Events, x # e
        PROVE  /\ proposals'[x] <= events'[x].attempts
               /\ events'[x].outcome \notin Recorded => events'[x].attempts = 0
               /\ ~events'[x].sweep =>
                    events'[x].attempts + Cardinality(RunsOn(x)') <= 2
    <3>1. RunsOn(x)' = RunsOn(x)
      BY <1>1, <2>2 DEF RunsOn
    <3> QED
      BY <1>5, <2>1, <2>2, <3>1 DEF AttemptsCountRecords, Processed
  <2>3. proposals'[e] <= events'[e].attempts /\ events'[e].outcome \in Recorded
    <3>1. /\ proposals[e] <= events[e].attempts
          /\ proposals[e] \in Nat /\ events[e].attempts \in Nat
      BY <1>1, <1>3, <2>1, RowTyped DEF AttemptsCountRecords
    <3> QED
      BY <1>4, <1>5, <3>1
  <2>4. ASSUME ~events'[e].sweep
        PROVE  events'[e].attempts + Cardinality(RunsOn(e)') <= 2
    <3>1. /\ IsFiniteSet(RunsOn(e)) /\ Cardinality(RunsOn(e)) \in Nat
          /\ events[e].attempts + Cardinality(RunsOn(e)) <= 2
      BY <1>1, <1>4, <1>5, <2>1, <2>4 DEF TwoRuns, AttemptsCountRecords
    <3>2. RunsOn(e)' = RunsOn(e) \ {run} /\ run \in RunsOn(e)
      BY <1>1 DEF RunsOn
    <3>3. Cardinality(RunsOn(e) \ {run}) = Cardinality(RunsOn(e)) - 1
      BY <3>1, <3>2, FS_RemoveElement
    <3>4. events[e].attempts \in Nat
      BY <1>1, <1>3, RowTyped
    <3> QED
      BY <1>4, <1>5, <3>1, <3>2, <3>3, <3>4
  <2> QED
    BY <2>2, <2>3, <2>4 DEF AttemptsCountRecords, Processed
<1> QED
  BY <1>7, <1>8 DEF PipelineInvariant, Structure

LEMMA NextKeeps == PipelineInvariant /\ [Next]_vars => PipelineInvariant'
<1> SUFFICES ASSUME PipelineInvariant, [Next]_vars PROVE PipelineInvariant'
  OBVIOUS
<1>1. CASE UNCHANGED vars
  <2>1. UNCHANGED <<status, tries, task, events, proposals, inserted, runs, todo, listed>>
    BY <1>1 DEF vars, queueVars
  <2>2. Structure'
    BY <2>1, SameRows DEF PipelineInvariant, Structure, TypeOK, QueueTypeOK, OneExtractJob,
      HandedOut, JobsNameStoredEvents, RunsBelongToJobs
  <2> QED
    BY <2>1, <2>2, FewerRunsKeep DEF PipelineInvariant, Structure
<1>2. ASSUME NEW r \in Receivers, NEW batch \in SUBSET Events, NEW sweep \in BOOLEAN,
             Ingest(r, batch, sweep)
      PROVE  PipelineInvariant'
  BY <1>2, IngestKeeps
<1>3. ASSUME NEW r \in Receivers, CrashReceiver(r) \/ \E e \in Events : EnqueueExtract(r, e)
      PROVE  PipelineInvariant'
  BY <1>3, CrashReceiverKeeps, EnqueueExtractKeeps
<1>4. ASSUME NEW j \in Anonymous, EnqueueSweep(j) PROVE PipelineInvariant'
  BY <1>4, EnqueueSweepKeeps
<1>5. ASSUME NEW j \in JobIds, StartExtract(j) PROVE PipelineInvariant'
  BY <1>5, StartExtractKeeps
<1>6. ASSUME NEW run \in runs,
             EndUnrecorded(run) \/ \E outcome \in Recorded : EndRun(run, outcome)
      PROVE  PipelineInvariant'
  BY <1>6, EndUnrecordedKeeps, EndRunKeeps
<1>7. ASSUME NEW j \in Anonymous,
             \/ StartSweep(j) \/ FinishSweep(j) \/ TimeoutLaunching(j)
             \/ \E e \in Events : LaunchSweep(j, e)
      PROVE  PipelineInvariant'
  BY <1>7, StartSweepKeeps, FinishSweepKeeps, TimeoutLaunchingKeeps, LaunchSweepKeeps
<1>8. ASSUME NEW j \in JobIds, Kill(j) \/ GiveUp(j) PROVE PipelineInvariant'
  BY <1>8, KillKeeps, GiveUpKeeps
<1>9. ASSUME NEW e \in Events, Expire(e) \/ Reextract(e) PROVE PipelineInvariant'
  BY <1>9, ExpireKeeps, ReextractKeeps
<1>10. CASE ListStale \/ \E e \in Events : SkipStale(e)
  BY <1>10, ListStaleKeeps
<1> QED
  BY <1>1, <1>2, <1>3, <1>4, <1>5, <1>6, <1>7, <1>8, <1>9, <1>10 DEF Next

-------------------------------------------------------------------------------
(***************************************************************************)
(* What follows.                                                           *)
(***************************************************************************)
\* Rows, jobs and runs agree with each other in every reachable state: the
\* inductive invariant of the pipeline.
THEOREM PipelineIsConsistent == Spec => []PipelineInvariant
BY InitHolds, NextKeeps, PTL DEF Spec

\* Every row, job and run has the declared shape; no job starts more than MaxTries
\* times.
THEOREM PipelineTypesHold == Spec => []TypeOK
<1>1. PipelineInvariant => TypeOK
  BY DEF PipelineInvariant
<1> QED
  BY <1>1, PipelineIsConsistent, PTL

\* However often an event outside a sweep is delivered, retried and picked up by
\* the cron, it changes skills and queue at most twice.
THEOREM ProposalsAreBounded == Spec => []AtMostTwoProposals
<1>1. PipelineInvariant => AtMostTwoProposals
  <2> SUFFICES ASSUME PipelineInvariant, NEW e \in Events, ~events[e].sweep
               PROVE  proposals[e] <= 2
    BY DEF AtMostTwoProposals
  <2>1. /\ proposals[e] \in Nat /\ events[e].attempts \in Nat
        /\ proposals[e] <= events[e].attempts
        /\ events[e].attempts + Cardinality(RunsOn(e)) <= 2
    BY RowTyped DEF PipelineInvariant, AttemptsCountRecords
  <2>2. Cardinality(RunsOn(e)) \in Nat
    BY TwoRunsHold DEF PipelineInvariant, Structure, TwoRuns
  <2> QED
    BY <2>1, <2>2
<1> QED
  BY <1>1, PipelineIsConsistent, PTL
-------------------------------------------------------------------------------
(***************************************************************************)
(* The pipeline keeps the promise of Inbox.                                *)
(***************************************************************************)
PromiseStep == [Promise!Next]_<<[e \in Events |-> events[e].outcome],
                                [e \in Events |-> RunsOn(e)]>>

LEMMA PromiseStutters ==
  ASSUME \A e \in Events : events'[e].outcome = events[e].outcome, runs' = runs
  PROVE  PromiseStep
BY DEF PromiseStep, RunsOn

LEMMA PromiseDrops ==
  ASSUME TypeOK, events' = events, NEW dead \in SUBSET Run, runs' = runs \ dead
  PROVE  PromiseStep
<1>1. \A e \in Events : RunsOn(e)' \subseteq RunsOn(e) /\ RunsOn(e)' \in SUBSET Run
  BY DEF RunsOn, TypeOK
<1>2. Promise!Drop
  BY <1>1 DEF Promise!Drop
<1> QED
  BY <1>2 DEF PromiseStep, Promise!Next

LEMMA PromiseBegins ==
  ASSUME PipelineInvariant, events' = events, NEW run \in Run,
         events[run.event].outcome = "queued", runs' = runs \cup {run}
  PROVE  PromiseStep
<1> DEFINE e == run.event
<1>1. e \in Events
  BY DEF Run
<1>2. \A x \in Events : RunsOn(x)' = IF x = e THEN RunsOn(x) \cup {run} ELSE RunsOn(x)
  BY DEF RunsOn
<1>3. Promise!Begin(e, run)
  BY <1>1, <1>2 DEF Promise!Begin
<1> QED
  BY <1>1, <1>3 DEF PromiseStep, Promise!Next

LEMMA PromiseArrives ==
  ASSUME PipelineInvariant, NEW r \in Receivers, NEW batch \in SUBSET Events,
         NEW sweep \in BOOLEAN, Ingest(r, batch, sweep)
  PROVE  PromiseStep
<1>1. PICK new \in SUBSET Events : new = Fresh(batch)
  BY DEF Fresh
<1>2. \A e \in new : events[e].outcome = "none"
  BY <1>1 DEF Fresh, Stored
<1>3. \A e \in Events : events'[e].outcome = IF e \in new THEN "queued" ELSE events[e].outcome
  BY <1>1 DEF Ingest
<1>4. runs' = runs
  BY DEF Ingest
<1>5. Promise!Arrive(new)
  BY <1>2, <1>3, <1>4 DEF Promise!Arrive, RunsOn
<1> QED
  BY <1>1, <1>5 DEF PromiseStep, Promise!Next

LEMMA PromiseRecords ==
  ASSUME PipelineInvariant, NEW run \in runs, NEW outcome \in Recorded,
         EndRun(run, outcome)
  PROVE  PromiseStep
<1> DEFINE e == run.event
<1>1. e \in Events /\ run \in Run /\ run \in RunsOn(e)
  BY RunJobs DEF RunsOn
<1>2. \A x \in Events : events'[x].outcome = IF x = e THEN outcome ELSE events[x].outcome
  <2>1. events' = [events EXCEPT ![e] = Finalized(events[e], outcome)]
    BY DEF EndRun
  <2>2. Finalized(events[e], outcome).outcome = outcome
    BY <1>1, RowTyped, FinalizedRow DEF PipelineInvariant
  <2> QED
    BY <1>1, <2>1, <2>2 DEF PipelineInvariant, TypeOK
<1>3. \A x \in Events : RunsOn(x)' = IF x = e THEN RunsOn(x) \ {run} ELSE RunsOn(x)
  BY DEF EndRun, Ends, RunsOn
<1>4. Promise!Record(e, run, outcome)
  BY <1>1, <1>2, <1>3 DEF Promise!Record
<1>5. outcome \in Promise!Outcomes
  BY DEF Recorded, Promise!Outcomes
<1> QED
  BY <1>1, <1>4, <1>5 DEF PromiseStep, Promise!Next

LEMMA StartExtractPromises ==
  ASSUME PipelineInvariant, NEW j \in JobIds, StartExtract(j)
  PROVE  PromiseStep
<1> DEFINE e == task[j]
<1>1. e \in Events /\ events' = events
  BY DEF StartExtract
<1>2. CASE Skips(e)
  BY <1>1, <1>2, PromiseStutters DEF StartExtract
<1>3. CASE ~Skips(e)
  <2>1. runs' = runs \cup {RunOf(j, e)} /\ tries[j] < MaxTries
    BY <1>3 DEF StartExtract, StartJob
  <2>2. e \in Stored
    BY <1>1 DEF PipelineInvariant, JobsNameStoredEvents
  <2>3. events[e].outcome = "queued"
    BY <1>1, <1>3, <2>2, RowTyped DEF Skips, Processed, Stored, PipelineInvariant
  <2>4. RunOf(j, e) \in Run /\ RunOf(j, e).event = e
    BY <1>1, <2>1, QueueConstants DEF RunOf, Run, PipelineInvariant, TypeOK, QueueTypeOK
  <2> QED
    BY <1>1, <2>1, <2>3, <2>4, PromiseBegins
<1> QED
  BY <1>2, <1>3

LEMMA LaunchSweepPromises ==
  ASSUME PipelineInvariant, NEW j \in Anonymous, NEW e \in Events, LaunchSweep(j, e)
  PROVE  PromiseStep
<1> DEFINE run == [job |-> j, try |-> tries[j], event |-> e]
<1>1. e \in todo[j] /\ j \in JobIds /\ events' = events
  BY JobIdsAre DEF LaunchSweep
<1>2. CASE Skips(e)
  BY <1>1, <1>2, PromiseStutters DEF LaunchSweep
<1>3. CASE ~Skips(e)
  <2>1. runs' = runs \cup {run}
    BY <1>3 DEF LaunchSweep
  <2>2. status[j] = "running" /\ tries[j] > 0 /\ tries[j] \in 0..MaxTries /\ e \in Stored
    BY <1>1 DEF PipelineInvariant, JobsNameStoredEvents, TypeOK, QueueTypeOK
  <2>3. run \in Run
    BY <1>1, <2>2, QueueConstants DEF Run
  <2>4. events[e].outcome = "queued"
    BY <1>3, <2>2, RowTyped DEF Skips, Processed, Stored, PipelineInvariant
  <2> QED
    BY <1>1, <2>1, <2>3, <2>4, PromiseBegins
<1> QED
  BY <1>2, <1>3

LEMMA NextPromises == PipelineInvariant /\ [Next]_vars => PromiseStep
<1> SUFFICES ASSUME PipelineInvariant, [Next]_vars PROVE PromiseStep
  OBVIOUS
<1>1. ASSUME events' = events, runs' = runs PROVE PromiseStep
  BY <1>1, PromiseStutters
<1>2. CASE UNCHANGED vars
  BY <1>1, <1>2 DEF vars
<1>3. ASSUME NEW r \in Receivers, NEW batch \in SUBSET Events, NEW sweep \in BOOLEAN,
             Ingest(r, batch, sweep)
      PROVE  PromiseStep
  BY <1>3, PromiseArrives
<1>4. ASSUME NEW r \in Receivers, CrashReceiver(r) \/ \E e \in Events : EnqueueExtract(r, e)
      PROVE  PromiseStep
  BY <1>1, <1>4 DEF CrashReceiver, EnqueueExtract
<1>5. ASSUME NEW j \in Anonymous, EnqueueSweep(j) PROVE PromiseStep
  BY <1>1, <1>5 DEF EnqueueSweep
<1>6. ASSUME NEW j \in JobIds, StartExtract(j) PROVE PromiseStep
  BY <1>6, StartExtractPromises
<1>7. ASSUME NEW run \in runs, EndUnrecorded(run) PROVE PromiseStep
  <2>1. events' = events /\ runs' = runs \ {run} /\ {run} \in SUBSET Run
    BY <1>7, RunJobs DEF EndUnrecorded, Ends
  <2> QED
    BY <2>1, PromiseDrops DEF PipelineInvariant
<1>8. ASSUME NEW run \in runs, NEW outcome \in Recorded, EndRun(run, outcome)
      PROVE  PromiseStep
  BY <1>8, PromiseRecords
<1>9. ASSUME NEW j \in Anonymous, StartSweep(j) \/ FinishSweep(j) \/ TimeoutLaunching(j)
      PROVE  PromiseStep
  BY <1>1, <1>9 DEF StartSweep, FinishSweep, TimeoutLaunching
<1>10. ASSUME NEW j \in Anonymous, NEW e \in Events, LaunchSweep(j, e) PROVE PromiseStep
  BY <1>10, LaunchSweepPromises
<1>11. ASSUME NEW j \in JobIds, Kill(j) PROVE PromiseStep
  <2>1. events' = events /\ (runs' = runs \ RunsOf(j) \/ runs' = runs \ CurrentRunsOf(j))
    BY <1>11 DEF Kill
  <2>2. RunsOf(j) \in SUBSET Run /\ CurrentRunsOf(j) \in SUBSET Run
    BY RunJobs DEF RunsOf, CurrentRunsOf
  <2> QED
    BY <2>1, <2>2, PromiseDrops DEF PipelineInvariant
<1>12. ASSUME NEW j \in JobIds, GiveUp(j) PROVE PromiseStep
  BY <1>1, <1>12 DEF GiveUp
<1>13. ASSUME NEW e \in Events, Expire(e) \/ Reextract(e) \/ SkipStale(e) PROVE PromiseStep
  BY <1>1, <1>13 DEF Expire, Reextract, SkipStale
<1>14. CASE ListStale
  BY <1>1, <1>14 DEF ListStale
<1> QED
  BY <1>2, <1>3, <1>4, <1>5, <1>6, <1>7, <1>8, <1>9, <1>10, <1>11, <1>12, <1>13, <1>14
  DEF Next

LEMMA InitPromises == Init => Promise!Init
BY DEF Init, NoEventRow, Promise!Init, RunsOn

\* An outcome with no run left to overwrite it is there for good, and a run that
\* starts later leaves no trace: the pipeline implements Inbox.
THEOREM InboxIsImplemented == Spec => ImplementsInbox
<1>1. PipelineInvariant /\ [Next]_vars =>
        [Promise!Next]_(Promise!inboxVars)
  BY NextPromises DEF PromiseStep, Promise!inboxVars
<1> QED
  BY <1>1, InitPromises, PipelineIsConsistent, PTL DEF Spec, ImplementsInbox, Promise!Spec
===============================================================================
