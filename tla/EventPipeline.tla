----------------------------- MODULE EventPipeline -----------------------------
(***************************************************************************)
(* The life of a source_events row, from the job that ingests it to the    *)
(* run that extracts it: jobs/tasks/webhook_ingest.py and source_sync.py    *)
(* insert and enqueue, extract_event.py and sweep_extract.py run the       *)
(* pipeline of pipeline/orchestrator.py over it, reconcile_events.py picks *)
(* up what was lost.  A run reads the row, calls the LLM stages with no    *)
(* transaction open and finalizes in a later transaction, without reading  *)
(* the row again.                                                          *)
(***************************************************************************)
EXTENDS JobQueue, FiniteSets

CONSTANTS
  Events,      \* (workspace, provider, external id): the key of a source event
  Receivers,   \* concurrent executions of the jobs that ingest
  SweepCall,   \* the call sweep_extract(workspace, sweep)
  CronBatch,   \* _BATCH of reconcile_events
  SweepBatch   \* _MAX_PER_RUN of sweep_extract

ASSUME PipelineConstants ==
  /\ IsFiniteSet(Events)
  /\ SweepCall \notin Events
  /\ CronBatch \in Nat \ {0} /\ SweepBatch \in Nat \ {0}

\* The only _job_id composed is the cron's reextract:{e}, named by its event; the
\* calls are extract_event(workspace, e) and sweep_extract(workspace, sweep).
ASSUME PipelineJobs == Named = Events /\ Tasks = Events \cup {SweepCall}

VARIABLES
  events,      \* events[e]: the source_events row of e
  proposals,   \* proposals[e]: transactions that wrote a skill or a card from e
  inserted,    \* inserted[r]: ids receiver r committed and has not enqueued yet
  runs,        \* the pipeline runs that read their event as not processed
  todo,        \* todo[j]: events sweep_extract job j listed and has not launched
  listed       \* events the cron listed and has not enqueued yet

vars == <<queueVars, events, proposals, inserted, runs, todo, listed>>

\* The outcomes that matter apart: "written" stands for review, draft, duplicate
\* and contradiction, which change skills or reviews.
Recorded == {"discarded", "written", "failed"}
EventRow == [outcome: {"none", "queued"} \cup Recorded, attempts: Nat,
             sweep: BOOLEAN, born: Nat]
NoEventRow == [outcome |-> "none", attempts |-> 0, sweep |-> FALSE, born |-> 0]
Run == [job: JobIds, try: 1..MaxTries, event: Events]

TypeOK ==
  /\ QueueTypeOK
  /\ events \in [Events -> EventRow]
  /\ proposals \in [Events -> Nat]
  /\ inserted \in [Receivers -> SUBSET Events]
  /\ runs \subseteq Run
  /\ todo \in [JobIds -> SUBSET Events]
  /\ listed \subseteq Events

Init ==
  /\ QueueInit
  /\ events = [e \in Events |-> NoEventRow]
  /\ proposals = [e \in Events |-> 0]
  /\ inserted = [r \in Receivers |-> {}]
  /\ runs = {}
  /\ todo = [j \in JobIds |-> {}]
  /\ listed = {}

Stored == {e \in Events : events[e].outcome # "none"}
Queued == {e \in Events : events[e].outcome = "queued"}
Processed(e) == events[e].outcome \in Recorded

\* SELECT ... ORDER BY created_at LIMIT n: rows of one transaction share a
\* created_at, so ties fall either way.
Oldest(S, n) ==
  {B \in SUBSET S :
     /\ Cardinality(B) = IF Cardinality(S) < n THEN Cardinality(S) ELSE n
     /\ \A x \in B, y \in S \ B : events[x].born <= events[y].born}

(***************************************************************************)
(* Ingestion.                                                              *)
(***************************************************************************)
\* A mutant: a replayed delivery is inserted again.
Everything(batch) == batch

\* insert_event returns an id only to the transaction that inserted the row: ON
\* CONFLICT DO NOTHING.
Fresh(batch) == batch \ Stored

\* One transaction stores a batch; sweep events are left to sweep_extract.
Ingest(r, batch, sweep) ==
  LET new == Fresh(batch)
  IN /\ inserted[r] = {}
     /\ new # {}
     /\ events' = [e \in Events |->
                     IF e \in new
                     THEN [outcome |-> "queued", attempts |-> 0, sweep |-> sweep,
                           born |-> Cardinality(Stored)]
                     ELSE events[e]]
     /\ inserted' = [inserted EXCEPT ![r] = IF sweep THEN {} ELSE new]
     /\ UNCHANGED <<queueVars, proposals, runs, todo, listed>>

\* The follow-up, outside the transaction and best effort.
EnqueueExtract(r, e) ==
  /\ e \in inserted[r]
  /\ inserted' = [inserted EXCEPT ![r] = @ \ {e}]
  /\ EnqueueLost \/ \E j \in Anonymous : EnqueueAnonymous(j, e)
  /\ UNCHANGED <<events, proposals, runs, todo, listed>>

\* The process dies after its commit.  Its retry finds every row in place and is
\* given no ids.
CrashReceiver(r) ==
  /\ inserted[r] # {}
  /\ inserted' = [inserted EXCEPT ![r] = {}]
  /\ UNCHANGED <<queueVars, events, proposals, runs, todo, listed>>

\* onboarding_sweep hands its events over when it ends.
EnqueueSweep(j) ==
  /\ EnqueueAnonymous(j, SweepCall)
  /\ UNCHANGED <<events, proposals, inserted, runs, todo, listed>>

(***************************************************************************)
(* extract_event: the whole job is one pipeline run.                       *)
(***************************************************************************)
\* A mutant: the processed flag is not looked at.
NeverSkips(e) == e \notin Stored

\* The guard of run_pipeline.
Skips(e) == Processed(e)

RunOf(j, e) == [job |-> j, try |-> tries[j] + 1, event |-> e]

StartExtract(j) ==
  LET e == task[j]
  IN /\ e \in Events
     /\ IF Skips(e)
        THEN StartAndFinishJob(j) /\ UNCHANGED runs
        ELSE StartJob(j) /\ runs' = runs \cup {RunOf(j, e)}
     /\ UNCHANGED <<events, proposals, inserted, todo, listed>>

Finalized(row, outcome) ==
  [row EXCEPT !.outcome = outcome, !.attempts = @ + 1]

\* An extract_event job ends with its run, unless the worker dies before it can
\* say so; a sweep_extract job goes on.
Ends(run) ==
  /\ runs' = runs \ {run}
  /\ IF task[run.job] = SweepCall THEN UNCHANGED queueVars
     ELSE FinishJob(run.job) \/ RequeueJob(run.job)
  /\ UNCHANGED <<inserted, todo, listed>>

EndRun(run, outcome) ==
  /\ events' = [events EXCEPT ![run.event] = Finalized(@, outcome)]
  /\ proposals' = IF outcome = "written"
                  THEN [proposals EXCEPT ![run.event] = @ + 1]
                  ELSE proposals
  /\ Ends(run)

\* The run fails and so does recording that it failed: swallowed.
EndUnrecorded(run) ==
  /\ UNCHANGED <<events, proposals>>
  /\ Ends(run)

(***************************************************************************)
(* sweep_extract.                                                          *)
(***************************************************************************)
SweepQueued == {e \in Queued : events[e].sweep}

StartSweep(j) ==
  /\ task[j] = SweepCall
  /\ IF SweepQueued = {}
     THEN StartAndFinishJob(j) /\ UNCHANGED todo
     ELSE /\ StartJob(j)
          /\ \E batch \in Oldest(SweepQueued, SweepBatch) :
               todo' = [todo EXCEPT ![j] = batch]
  /\ UNCHANGED <<events, proposals, inserted, runs, listed>>

\* The paced loop creates a task per event; each reads its row when it starts.
LaunchSweep(j, e) ==
  /\ e \in todo[j]
  /\ todo' = [todo EXCEPT ![j] = @ \ {e}]
  /\ runs' = IF Skips(e) THEN runs
             ELSE runs \cup {[job |-> j, try |-> tries[j], event |-> e]}
  /\ UNCHANGED <<queueVars, events, proposals, inserted, listed>>

RunsOf(j) == {run \in runs : run.job = j}
CurrentRunsOf(j) == {run \in RunsOf(j) : run.try = tries[j]}

\* A continuation is chained while events of the sweep remain queued.  A _flush
\* of progress that raises ends the job at once: the tasks gather waited for go on.
FinishSweep(j) ==
  /\ status[j] = "running" /\ task[j] = SweepCall
  /\ todo[j] = {}
  /\ \/ FinishJob(j)            \* nothing remains, the enqueue is lost, or a _flush raised
     \/ /\ CurrentRunsOf(j) = {} /\ SweepQueued # {}
        /\ \E k \in Anonymous :
             /\ status[k] = "absent"
             /\ status' = [status EXCEPT ![j] = "kept", ![k] = "queued"]
             /\ tries' = [tries EXCEPT ![j] = 0]
             /\ task' = [task EXCEPT ![k] = SweepCall]
  /\ UNCHANGED <<events, proposals, inserted, runs, todo, listed>>

(***************************************************************************)
(* Failures of a worker, and the backstop.                                 *)
(***************************************************************************)
\* The worker dies, or the timeout strikes a job that waits for its runs: they
\* are cancelled with nothing written, and with them the runs that an earlier
\* try of the job left in the same process.
Kill(j) ==
  /\ InterruptJob(j)
  /\ runs' \in {runs \ RunsOf(j), runs \ CurrentRunsOf(j)}
  /\ todo' = [todo EXCEPT ![j] = {}]
  /\ UNCHANGED <<events, proposals, inserted, listed>>

\* A timeout in the launch loop cancels the loop, not the tasks it created.
TimeoutLaunching(j) ==
  /\ todo[j] # {}
  /\ InterruptJob(j)
  /\ todo' = [todo EXCEPT ![j] = {}]
  /\ UNCHANGED <<events, proposals, inserted, runs, listed>>

GiveUp(j) ==
  /\ GiveUpJob(j)
  /\ UNCHANGED <<events, proposals, inserted, runs, todo, listed>>

Expire(e) ==
  /\ ExpireJob(e)
  /\ UNCHANGED <<events, proposals, inserted, runs, todo, listed>>

\* A mutant: sweep events are left to sweep_extract.
StaleOutsideSweeps == {e \in Queued : ~events[e].sweep}

\* list_stale_queued_events: sweep events too.
Stale == Queued

\* reenqueue_stale_events reads the oldest of them past the grace window: how many
\* are is a matter of time.
ListStale ==
  /\ listed = {} /\ Stale # {}
  /\ \E n \in 1..CronBatch : listed' \in Oldest(Stale, n)
  /\ UNCHANGED <<queueVars, events, proposals, inserted, runs, todo>>

\* It enqueues them one by one, whatever has become of them.
Reextract(e) ==
  /\ e \in listed
  /\ listed' = listed \ {e}
  /\ EnqueueNamed({e}, [x \in {e} |-> x])
  /\ UNCHANGED <<events, proposals, inserted, runs, todo>>

\* The enqueue fails, or the cron dies before it comes to e.
SkipStale(e) ==
  /\ e \in listed
  /\ listed' = listed \ {e}
  /\ EnqueueLost
  /\ UNCHANGED <<events, proposals, inserted, runs, todo>>

-------------------------------------------------------------------------------
Next ==
  \/ \E r \in Receivers, batch \in SUBSET Events, sweep \in BOOLEAN :
       Ingest(r, batch, sweep)
  \/ \E r \in Receivers : CrashReceiver(r) \/ \E e \in Events : EnqueueExtract(r, e)
  \/ \E j \in Anonymous : EnqueueSweep(j)
  \/ \E j \in JobIds : StartExtract(j)
  \/ \E run \in runs : EndUnrecorded(run) \/ \E outcome \in Recorded : EndRun(run, outcome)
  \/ \E j \in Anonymous :
       \/ StartSweep(j) \/ FinishSweep(j) \/ TimeoutLaunching(j)
       \/ \E e \in Events : LaunchSweep(j, e)
  \/ \E j \in JobIds : Kill(j) \/ GiveUp(j)
  \/ \E e \in Events : Expire(e) \/ Reextract(e) \/ SkipStale(e)
  \/ ListStale

Spec == Init /\ [][Next]_vars

\* What the property of progress asks of the world: time passes, the cron gets
\* through to Redis now and then, a job that is queued time and again is started,
\* a run that starts time and again is once not cancelled and can record how it
\* ended, and Redis drops expired results.
FairSpec ==
  /\ Spec
  /\ WF_vars(ListStale)
  /\ \A e \in Events :
       /\ SF_vars(Reextract(e))
       /\ WF_vars(GiveUp(e))
       /\ WF_vars(Expire(e))
       /\ SF_vars(StartExtract(e))
       /\ SF_vars(\E run \in runs, outcome \in Recorded :
                    run.event = e /\ EndRun(run, outcome))

-------------------------------------------------------------------------------
\* Nothing that was stored is lost: whatever enqueue Redis swallows, whichever
\* process dies between its commit and its enqueue, whichever job is killed or
\* runs out of tries, and whether or not the event came with a sweep, an outcome
\* is recorded in the end.
EventsAreExtracted ==
  \A e \in Events : events[e].outcome = "queued" ~> Processed(e)

RunsOn(e) == {run \in runs : run.event = e}

\* A stored event is handed to one extract_event job at most: only the
\* transaction that inserted it learns its id.
HandedOut(e, r) == e \in inserted[r]
OneExtractJob ==
  \A e \in Events :
    /\ \A r \in Receivers, q \in Receivers :
         (HandedOut(e, r) /\ HandedOut(e, q)) => r = q
    /\ \A j, k \in Anonymous : (task[j] = e /\ task[k] = e) => j = k
    /\ \A r \in Receivers, j \in Anonymous : HandedOut(e, r) => task[j] # e

\* Jobs are about events that are stored, the cron's job of an event is about that
\* event, and what a sweep_extract job has yet to launch came with the sweep.
JobsNameStoredEvents ==
  /\ listed \subseteq Stored /\ \A r \in Receivers : inserted[r] \subseteq Stored
  /\ \A j \in JobIds :
       /\ status[j] = "absent" <=> task[j] = NoTask
       /\ status[j] = "running" => tries[j] > 0
       /\ task[j] \in Events => task[j] \in Stored
       /\ todo[j] # {} => task[j] = SweepCall /\ status[j] = "running"
       /\ \A e \in todo[j] : e \in Stored /\ events[e].sweep
  /\ \A e \in Events : task[e] \in {e, NoTask}

\* A run belongs to the running job that is about its event, or to a sweep.
RunsBelongToJobs ==
  \A run \in runs :
    /\ run.event \in Stored
    /\ task[run.job] # NoTask
    /\ IF task[run.job] = SweepCall
       THEN events[run.event].sweep
       ELSE /\ task[run.job] = run.event
            /\ status[run.job] = "running" /\ run.try = tries[run.job]

\* Every finalize counts an attempt, and outside a sweep the finalizes there are
\* and those to come from the runs under way are two at most.
AttemptsCountRecords ==
  \A e \in Events :
    /\ proposals[e] <= events[e].attempts
    /\ ~Processed(e) => events[e].attempts = 0
    /\ ~events[e].sweep => events[e].attempts + Cardinality(RunsOn(e)) <= 2

PipelineInvariant ==
  TypeOK /\ OneExtractJob /\ JobsNameStoredEvents /\ RunsBelongToJobs
    /\ AttemptsCountRecords

\* An event that came outside a sweep changes the skills and the queue at most
\* twice, however often it is delivered and the cron fires: once by the job of
\* its insertion and once by a job of the cron that overlaps it.
AtMostTwoProposals ==
  \A e \in Events : ~events[e].sweep => proposals[e] <= 2

\* No run touches an event that is settled (Inbox).
Promise == INSTANCE Inbox WITH
  Runs <- Run,
  outcome <- [e \in Events |-> events[e].outcome],
  racing <- [e \in Events |-> RunsOn(e)]
ImplementsInbox == Promise!Spec
===============================================================================
