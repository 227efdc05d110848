--------------------------------- MODULE Sweeps --------------------------------
(***************************************************************************)
(* The import of history: sweeps are started (modules/sweeps/service.py),  *)
(* run as jobs (jobs/tasks/onboarding_sweep.py) that sync one connection   *)
(* after another, and a connection whose cursor is opaque is imported a    *)
(* chunk at a time by jobs that chain one another (source_sync.py); the    *)
(* crons poll_sync and reconcile_push_sync sync every connection as well.  *)
(***************************************************************************)
EXTENDS JobQueue

CONSTANTS
  Sources,      \* source_connections of a workspace
  SweepIds,     \* a bound on the sweeps that are created
  Requests,     \* concurrent calls of SweepsService.start
  Provider,     \* Provider[s]
  Rank,         \* Rank[p]: the place of a provider in processing_order()
  Opaque,       \* the sources with an opaque cursor: Gmail and Drive
  Chunks,       \* Chunks[s]: how many bounded runs the history of s takes
  NoSweep, NoSource

SweepJob(w) == <<"onboarding-sweep", w>>
ChainJob(s) == <<"backfill-chain", s>>
CronJob(s) == <<"poll-sync", s>>
SyncTask(s, w) == <<s, w>>
SweepJobs == {SweepJob(w) : w \in SweepIds}
SyncJobs == {ChainJob(s) : s \in Sources} \cup {CronJob(s) : s \in Sources}
ProviderIds == {Provider[s] : s \in Sources}

ASSUME SweepConstants ==
  /\ Named = SweepJobs \cup SyncJobs /\ Anonymous = {}
  /\ Tasks = SweepIds \cup (Sources \X (SweepIds \cup {NoSweep}))
  /\ Opaque \subseteq Sources /\ Chunks \in [Sources -> Nat \ {0}]
  /\ \A s \in Sources \ Opaque : Chunks[s] = 1
  /\ Rank \in [ProviderIds -> Nat]
  /\ NoSweep \notin SweepIds /\ NoSource \notin Sources

VARIABLES
  conn,         \* conn[s]: status, chunks passed by the cursor, backfilled_at
  imported,     \* imported[s]: the chunks whose events are stored
  hollow,       \* sources whose history counts as imported since a run that held its cursor
  sweep,        \* sweep[w]: the row
  request,      \* request[q]: a call of start
  work,         \* work[j]: what the worker of job j holds
  dropped       \* sweeps whose job the queue gave up

sweepVars == <<conn, imported, hollow, sweep, request, work, dropped>>
vars == <<queueVars, sweepVars>>

Progress == {"none", "running", "completed", "failed"}
NoRow == [status |-> "none", scope |-> {}, progress |-> [p \in ProviderIds |-> "none"]]
NoRequest == [phase |-> "idle", scope |-> {}, sweep |-> NoSweep]
NoWork == [phase |-> "idle", source |-> NoSource, from |-> 0, result |-> "none",
           todo |-> {}, tried |-> FALSE, good |-> FALSE]

TypeOK ==
  /\ QueueTypeOK
  /\ conn \in [Sources -> [status: {"connected", "error", "absent"}, cursor: Nat,
                           backfilled: BOOLEAN]]
  /\ hollow \in SUBSET (Sources \ Opaque) /\ imported \in [Sources -> SUBSET Nat]
  /\ \A s \in Sources : conn[s].cursor <= Chunks[s] /\ imported[s] \subseteq 1..Chunks[s]
  /\ sweep \in [SweepIds -> [status: {"none", "pending", "running", "completed", "failed"},
                             scope: SUBSET Sources, progress: [ProviderIds -> Progress]]]
  /\ request \in [Requests -> [phase: {"idle", "creating", "enqueueing"},
                               scope: SUBSET Sources, sweep: SweepIds \cup {NoSweep}]]
  /\ work \in [Named -> [phase: {"idle", "between", "syncing", "recording", "ended"},
                         source: Sources \cup {NoSource}, from: Nat,
                         result: {"none", "ok", "failed"},
                         todo: SUBSET Sources, tried: BOOLEAN, good: BOOLEAN]]
  /\ dropped \in SUBSET SweepIds

Init ==
  /\ QueueInit
  /\ conn = [s \in Sources |-> [status |-> "connected", cursor |-> 0, backfilled |-> FALSE]]
  /\ imported = [s \in Sources |-> {}] /\ hollow = {}
  /\ sweep = [w \in SweepIds |-> NoRow]
  /\ request = [q \in Requests |-> NoRequest]
  /\ work = [j \in Named |-> NoWork]
  /\ dropped = {}

(***************************************************************************)
(* SweepsService.start.                                                    *)
(***************************************************************************)
Active == {w \in SweepIds : sweep[w].status \in {"pending", "running"}}

\* find_covering: an unscoped sweep covers everything, a scoped one its sources.
Covering(scope) ==
  {w \in Active : sweep[w].scope = {} \/ (scope # {} /\ scope \subseteq sweep[w].scope)}

FindCovering(q, scope) ==
  /\ request[q].phase = "idle"
  /\ IF Covering(scope) = {}
     THEN request' = [request EXCEPT
            ![q] = [phase |-> "creating", scope |-> scope, sweep |-> NoSweep]]
     ELSE \E w \in Covering(scope) :
            /\ sweep[w].status = "pending"
            /\ request' = [request EXCEPT
                 ![q] = [phase |-> "enqueueing", scope |-> scope, sweep |-> w]]
  /\ UNCHANGED <<queueVars, conn, imported, hollow, sweep, work, dropped>>

\* create_sweep.
FirstStatus == "pending"

\* The row is committed; nothing keeps another call from doing the same.
CreateSweep(q, w) ==
  /\ request[q].phase = "creating" /\ sweep[w].status = "none"
  /\ sweep' = [sweep EXCEPT ![w].status = FirstStatus, ![w].scope = request[q].scope]
  /\ request' = [request EXCEPT ![q].phase = "enqueueing", ![q].sweep = w]
  /\ UNCHANGED <<queueVars, conn, imported, hollow, work, dropped>>

\* After the commit; the enqueue may be lost, and the process may die before it.
EnqueueSweep(q) ==
  LET w == request[q].sweep
  IN /\ request[q].phase = "enqueueing"
     /\ EnqueueNamed({SweepJob(w)}, [j \in {SweepJob(w)} |-> w]) \/ EnqueueLost
     /\ request' = [request EXCEPT ![q] = NoRequest]
     /\ UNCHANGED <<conn, imported, hollow, sweep, work, dropped>>

(***************************************************************************)
(* source_sync, in a job of its own or within a sweep.                     *)
(***************************************************************************)
\* What a run leaves to the code that called it: the sweep records the result, a job of
\* its own ends.
Returned(j, job, result) ==
  IF j \in SweepJobs THEN [job EXCEPT !.phase = "recording", !.from = 0, !.result = result]
  ELSE [NoWork EXCEPT !.phase = "ended"]

Return(j, result) == work' = [work EXCEPT ![j] = Returned(j, @, result)]

\* The row is read: the cursor of the run.  Without a row there is nothing to do, and
\* that is no failure.
Syncing(j, job, s) ==
  IF conn[s].status = "absent" THEN Returned(j, [job EXCEPT !.source = s], "ok")
  ELSE [job EXCEPT !.phase = "syncing", !.source = s, !.from = conn[s].cursor]

StartSync(j) ==
  /\ j \in SyncJobs
  /\ StartJob(j)
  /\ work' = [work EXCEPT ![j] = Syncing(j, NoWork, task[j][1])]
  /\ UNCHANGED <<conn, imported, hollow, sweep, request, dropped>>

\* The sweep the events of job j are stamped with.
Stamp(j) == IF task[j] \in SweepIds THEN task[j] ELSE task[j][2]

\* A mutant: every run that commits stamps backfilled_at.
StampAlways(s, next) == TRUE

\* advance_sync: mark_backfilled is the run without a continuation cursor.
Exhausted(s, next) == next = Chunks[s]

Least(m, n) == IF m < n THEN m ELSE n

\* enqueue of the next chunk: refused while its job id is taken, as it is while the job
\* that enqueues is the chain's own.
Chain(s, w, next) ==
  \/ /\ next # Chunks[s]
     /\ EnqueueNamed({ChainJob(s)}, [k \in {ChainJob(s)} |-> SyncTask(s, w)])
  \/ EnqueueLost

Following(j) == Least(work[j].from + 1, Chunks[work[j].source])

\* The chunk after the run's cursor is stored and the cursor is written, whatever
\* another run wrote in between.
CommitChunk(j) ==
  LET s == work[j].source
      next == Following(j)
  IN /\ work[j].phase = "syncing" /\ conn[s].status # "absent"
     /\ imported' = [imported EXCEPT ![s] = @ \cup {next}]
     /\ conn' = [conn EXCEPT ![s] = [status |-> "connected", cursor |-> next,
                  backfilled |-> @.backfilled \/ Exhausted(s, next)]]
     /\ Chain(s, Stamp(j), next)
     /\ Return(j, "ok")
     /\ UNCHANGED <<hollow, sweep, request, dropped>>

\* The connector holds its cursor, with nothing or a part of what there is, and returns:
\* the run passes for the import of the history.  Without a cursor none is written.
HoldCursor(j) ==
  LET s == work[j].source
  IN /\ work[j].phase = "syncing" /\ conn[s].status # "absent" /\ s \notin Opaque
     /\ \E at \in {work[j].from, conn[s].cursor} :
          /\ at = work[j].from \/ work[j].from = 0
          /\ conn' = [conn EXCEPT
               ![s] = [status |-> "connected", cursor |-> at, backfilled |-> TRUE]]
     /\ hollow' = IF conn[s].backfilled THEN hollow ELSE hollow \cup {s}
     /\ Return(j, "ok")
     /\ UNCHANGED <<queueVars, imported, sweep, request, dropped>>

\* The row is gone: without a new item, which its foreign key would refuse, the run ends
\* as if it had written.
SyncWithoutRow(j) ==
  LET s == work[j].source
  IN /\ work[j].phase = "syncing" /\ conn[s].status = "absent"
     /\ Chain(s, Stamp(j), Following(j))
     /\ Return(j, "ok")
     /\ UNCHANGED <<conn, imported, hollow, sweep, request, dropped>>

\* 401, a 403 that is no rate limit, ConnectorAuthError: the connection is broken.
BreakSync(j) ==
  /\ work[j].phase = "syncing"
  /\ conn' = [conn EXCEPT ![work[j].source].status =
                 IF @ = "absent" THEN "absent" ELSE "error"]
  /\ Return(j, "failed")
  /\ UNCHANGED <<queueVars, imported, hollow, sweep, request, dropped>>

\* Every other failure is raised.
RaiseSync(j) ==
  /\ work[j].phase = "syncing"
  /\ IF j \in SweepJobs
     THEN Return(j, "failed") /\ UNCHANGED queueVars
     ELSE InterruptJob(j) /\ work' = [work EXCEPT ![j] = NoWork]
  /\ UNCHANGED <<conn, imported, hollow, sweep, request, dropped>>

EndSync(j) ==
  /\ j \in SyncJobs /\ work[j].phase = "ended"
  /\ FinishJob(j)
  /\ work' = [work EXCEPT ![j] = NoWork]
  /\ UNCHANGED <<conn, imported, hollow, sweep, request, dropped>>

(***************************************************************************)
(* onboarding_sweep.                                                       *)
(***************************************************************************)
\* The providers a retry skips.
Done(w) == {p \in ProviderIds : sweep[w].progress[p] = "completed"}

StartSweep(w) ==
  LET wanted == IF sweep[w].scope = {} THEN Sources ELSE sweep[w].scope
  IN /\ StartJob(SweepJob(w))
     /\ sweep' = [sweep EXCEPT ![w].status = "running"]
     /\ work' = [work EXCEPT ![SweepJob(w)] =
          [NoWork EXCEPT !.phase = "between",
             !.todo = {s \in wanted : conn[s].status = "connected"
                                      /\ Provider[s] \notin Done(w)}]]
     /\ UNCHANGED <<conn, imported, hollow, request, dropped>>

\* The next source in the order of authority: its progress is written and its row read.
BeginSource(w, s) ==
  LET j == SweepJob(w)
  IN /\ work[j].phase = "between" /\ s \in work[j].todo
     /\ \A t \in work[j].todo : Rank[Provider[s]] <= Rank[Provider[t]]
     /\ sweep' = [sweep EXCEPT ![w].progress[Provider[s]] = "running"]
     /\ work' = [work EXCEPT ![j] =
          Syncing(j, [work[j] EXCEPT !.todo = @ \ {s}, !.tried = TRUE], s)]
     /\ UNCHANGED <<queueVars, conn, imported, hollow, request, dropped>>

RecordSource(w) ==
  LET j == SweepJob(w)
      good == work[j].result = "ok"
  IN /\ work[j].phase = "recording"
     /\ sweep' = [sweep EXCEPT ![w].progress[Provider[work[j].source]] =
                    IF good THEN "completed" ELSE "failed"]
     /\ work' = [work EXCEPT ![j] =
          [NoWork EXCEPT !.phase = "between", !.todo = work[j].todo, !.tried = TRUE,
                         !.good = work[j].good \/ good]]
     /\ UNCHANGED <<queueVars, conn, imported, hollow, request, dropped>>

\* A mutant: a sweep that failed keeps its status.
OnlySuccess(tried, good) == IF tried /\ ~good THEN "running" ELSE "completed"

\* All that were tried failed, or the sweep is complete.
Outcome(tried, good) == IF tried /\ ~good THEN "failed" ELSE "completed"

EndSweep(w) ==
  LET j == SweepJob(w)
  IN /\ work[j].phase = "between" /\ work[j].todo = {}
     /\ sweep' = [sweep EXCEPT ![w].status = Outcome(work[j].tried, work[j].good)]
     /\ work' = [work EXCEPT ![j] = [NoWork EXCEPT !.phase = "ended"]]
     /\ UNCHANGED <<queueVars, conn, imported, hollow, request, dropped>>

\* sweep_extract is enqueued and the job is over.
FinishSweep(w) ==
  LET j == SweepJob(w)
  IN /\ work[j].phase = "ended"
     /\ FinishJob(j)
     /\ work' = [work EXCEPT ![j] = NoWork]
     /\ UNCHANGED <<conn, imported, hollow, sweep, request, dropped>>

(***************************************************************************)
(* The queue, the crons and the user.                                      *)
(***************************************************************************)
\* The sweeps of the jobs that are over without having run to their end.
DropSweeps(j) ==
  dropped' = dropped \cup {w \in SweepIds : SweepJob(w) = j /\ status'[j] = "kept"}

\* The worker dies, or the timeout of the job strikes.
Kill(j) ==
  /\ InterruptJob(j)
  /\ work' = [work EXCEPT ![j] = NoWork]
  /\ DropSweeps(j)
  /\ UNCHANGED <<conn, imported, hollow, sweep, request>>

GiveUp(j) ==
  /\ GiveUpJob(j)
  /\ DropSweeps(j)
  /\ UNCHANGED <<conn, imported, hollow, sweep, request, work>>

Expire(j) == ExpireJob(j) /\ UNCHANGED sweepVars

\* A mutant: only connections whose history is whole are polled.
CaughtUp(s) == conn[s].status = "connected" /\ conn[s].backfilled

\* list_pollable_connections.
Pollable(s) == conn[s].status = "connected"

\* poll_pull_sources and reconcile_push_sources.
Cron(s) ==
  /\ Pollable(s)
  /\ EnqueueNamed({CronJob(s)}, [k \in {CronJob(s)} |-> SyncTask(s, NoSweep)])
  /\ UNCHANGED sweepVars

Reconnect(s) ==
  /\ conn[s].status = "error"
  /\ conn' = [conn EXCEPT ![s].status = "connected"]
  /\ UNCHANGED <<queueVars, imported, hollow, sweep, request, work, dropped>>

\* SourcesService.disconnect; who connects again has another row.
Disconnect(s) ==
  /\ conn[s].status # "absent"
  /\ conn' = [conn EXCEPT ![s].status = "absent"]
  /\ UNCHANGED <<queueVars, imported, hollow, sweep, request, work, dropped>>

-------------------------------------------------------------------------------
Next ==
  \/ \E q \in Requests :
       \/ \E scope \in SUBSET Sources : FindCovering(q, scope)
       \/ \E w \in SweepIds : CreateSweep(q, w)
       \/ EnqueueSweep(q)
  \/ \E j \in Named : \/ CommitChunk(j) \/ HoldCursor(j) \/ SyncWithoutRow(j) \/ BreakSync(j)
                      \/ RaiseSync(j) \/ StartSync(j) \/ EndSync(j) \/ Kill(j) \/ GiveUp(j) \/ Expire(j)
  \/ \E w \in SweepIds :
       \/ StartSweep(w) \/ RecordSource(w) \/ EndSweep(w) \/ FinishSweep(w)
       \/ \E s \in Sources : BeginSource(w, s)
  \/ \E s \in Sources : Cron(s) \/ Reconnect(s) \/ Disconnect(s)

Spec == Init /\ [][Next]_vars

\* The crons tick, the worker takes the jobs of the queue and goes on with them, a
\* provider that is asked again and again answers once, and results expire.
FairSpec ==
  /\ Spec
  /\ \A s \in Sources : WF_vars(Cron(s))
  /\ \A j \in SyncJobs : WF_vars(StartSync(j) \/ EndSync(j) \/ GiveUp(j) \/ Expire(j))
  /\ \A s \in Sources : SF_vars(\E j \in SyncJobs : work[j].source = s /\ CommitChunk(j))
  /\ \A w \in SweepIds :
       WF_vars(\/ StartSweep(w) \/ GiveUp(SweepJob(w)) \/ CommitChunk(SweepJob(w))
               \/ SyncWithoutRow(SweepJob(w)) \/ RecordSource(w) \/ EndSweep(w) \/ FinishSweep(w)
               \/ \E s \in Sources : BeginSource(w, s))

-------------------------------------------------------------------------------
\* A call that is about to enqueue a sweep holds one that covers what it was asked for.
AnsweredSweepCovers ==
  \A q \in Requests : request[q].phase = "enqueueing" =>
    LET scope == sweep[request[q].sweep].scope
    IN scope = {} \/ (request[q].scope # {} /\ request[q].scope \subseteq scope)

\* backfilled_at is set only when every chunk of the history is stored, whatever runs
\* of the chain, the crons and the sweeps overlap, and whatever cursor the last of
\* them wrote; a source without an opaque cursor may have it of a run that held its cursor.
BackfilledIsWhole ==
  \A s \in Sources : conn[s].backfilled => imported[s] = 1..Chunks[s] \/ s \in hollow

\* A sweep whose row says running has its job in the queue, or the queue dropped it.
RunningIsDriven ==
  \A w \in SweepIds : sweep[w].status = "running" =>
    status[SweepJob(w)] \in {"queued", "running"} \/ w \in dropped

\* A provider counts as completed only after a chunk of one of its connections in the
\* scope of the sweep is stored, across the retries of the job, or after a run of such a
\* connection that held its cursor or found no row.
CompletedIsImported ==
  \A w \in SweepIds, p \in ProviderIds : sweep[w].progress[p] = "completed" =>
    \E s \in Sources : /\ Provider[s] = p
                       /\ sweep[w].scope = {} \/ s \in sweep[w].scope
                       /\ imported[s] # {} \/ s \in hollow \/ conn[s].status = "absent"

\* A sweep that runs comes to its end, unless the queue drops its job.
RunningSweepsEnd ==
  \A w \in SweepIds : sweep[w].status = "running" ~>
    sweep[w].status \in {"completed", "failed"} \/ w \in dropped

\* The history of a connection that stays connected is imported to its end, however the
\* chain of its chunks breaks off and however often its connector holds the cursor.
HistoryIsImported ==
  \A s \in Sources : conn[s].status = "connected" ~>
    imported[s] = 1..Chunks[s] \/ conn[s].status # "connected"
===============================================================================
