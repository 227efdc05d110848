------------------------------ MODULE SweepsProofs ------------------------------
(***************************************************************************)
(* What holds of the import of history for any number of connections,      *)
(* sweeps, overlapping calls and chunks, and whatever the queue drops.     *)
(***************************************************************************)
EXTENDS Sweeps, TLAPS

JobStatus == {"absent", "queued", "running", "kept"}
ConnRow == [status : {"connected", "error", "absent"}, cursor : Nat, backfilled : BOOLEAN]
SweepRow == [status : {"none", "pending", "running", "completed", "failed"},
             scope : SUBSET Sources, progress : [ProviderIds -> Progress]]
RequestRow == [phase : {"idle", "creating", "enqueueing"}, scope : SUBSET Sources,
               sweep : SweepIds \cup {NoSweep}]
WorkRow == [phase : {"idle", "between", "syncing", "recording", "ended"},
            source : Sources \cup {NoSource}, from : Nat, result : {"none", "ok", "failed"},
            todo : SUBSET Sources, tried : BOOLEAN, good : BOOLEAN]

QueueTyped ==
  /\ status \in [Named -> JobStatus] /\ tries \in [Named -> 0..MaxTries]
  /\ task \in [Named -> Tasks \cup {NoTask}]
RowsTyped ==
  /\ conn \in [Sources -> ConnRow] /\ sweep \in [SweepIds -> SweepRow]
  /\ request \in [Requests -> RequestRow] /\ work \in [Named -> WorkRow]
  /\ dropped \in SUBSET SweepIds /\ imported \in [Sources -> SUBSET Nat]
  /\ hollow \in SUBSET (Sources \ Opaque)

Created(w) == sweep[w].status # "none"
Wanted(w) == IF sweep[w].scope = {} THEN Sources ELSE sweep[w].scope
Covers(w, scope) == sweep[w].scope = {} \/ (scope # {} /\ scope \subseteq sweep[w].scope)

\* A cursor has passed chunks that are stored, and a whole history is stored, unless a
\* run that held its cursor passed for it.
ConnFits(s) ==
  /\ conn[s].cursor <= Chunks[s] /\ imported[s] \subseteq 1..Chunks[s]
  /\ 1..conn[s].cursor \subseteq imported[s]
  /\ conn[s].backfilled => imported[s] = 1..Chunks[s] \/ s \in hollow

\* A call that is about to enqueue holds a sweep that covers what it was asked for.
RequestFits(q) ==
  request[q].phase = "enqueueing" =>
    request[q].sweep \in SweepIds /\ Created(request[q].sweep)
    /\ Covers(request[q].sweep, request[q].scope)

\* A job of a sync knows its connection; what a run had as its cursor is stored.
WorkFits(j) ==
  /\ j \in SyncJobs /\ status[j] \in {"queued", "running"} =>
       task[j] \in Sources \X (SweepIds \cup {NoSweep})
  /\ work[j].phase # "idle" => status[j] = "running"
  /\ work[j].phase = "idle" => work[j].todo = {}
  /\ work[j].phase \in {"syncing", "recording"} => work[j].source \in Sources
  /\ work[j].phase = "syncing" =>
       /\ work[j].from <= Chunks[work[j].source]
       /\ 1..work[j].from \subseteq imported[work[j].source]

\* The job of a sweep stays within its scope, and its row tells what the job did.
Answered(s) == imported[s] # {} \/ s \in hollow \/ conn[s].status = "absent"
Imports(w, s) == s \in Wanted(w) /\ Answered(s)
SweepFits(w) ==
  LET j == SweepJob(w)
  IN /\ status[j] \in {"queued", "running"} => Created(w) /\ task[j] = w
     /\ work[j].todo \subseteq Wanted(w)
     /\ work[j].phase \in {"syncing", "recording"} => work[j].source \in Wanted(w)
     /\ work[j].phase = "recording" /\ work[j].result = "ok" => Answered(work[j].source)
     /\ work[j].phase = "ended" => sweep[w].status \in {"completed", "failed"}
     /\ sweep[w].status = "running" => status[j] \in {"queued", "running"} \/ w \in dropped
     /\ ~Created(w) => sweep[w].scope = {} /\ \A p \in ProviderIds : sweep[w].progress[p] = "none"
     /\ \A p \in ProviderIds : sweep[w].progress[p] = "completed" =>
          \E s \in Sources : Provider[s] = p /\ Imports(w, s)

SweepInvariant ==
  /\ QueueTyped /\ RowsTyped
  /\ \A s \in Sources : ConnFits(s)
  /\ \A q \in Requests : RequestFits(q)
  /\ \A j \in Named : WorkFits(j)
  /\ \A w \in SweepIds : SweepFits(w)

LEMMA JobsAre ==
  /\ JobIds = Named
  /\ \A w \in SweepIds : SweepJob(w) \in Named /\ SweepJob(w) \notin SyncJobs
  /\ \A v, w \in SweepIds : SweepJob(v) = SweepJob(w) => v = w
  /\ \A s \in Sources : ChainJob(s) \in SyncJobs /\ CronJob(s) \in SyncJobs
  /\ SyncJobs \subseteq Named /\ SweepJobs \subseteq Named
  /\ \A j \in Named : j \in SyncJobs \/ \E w \in SweepIds : j = SweepJob(w)
  /\ \A s \in Sources : Provider[s] \in ProviderIds /\ Chunks[s] \in Nat \ {0}
BY SweepConstants DEF JobIds, SweepJobs, SyncJobs, SweepJob, ChainJob, CronJob, ProviderIds

LEMMA RestTyped == NoRow \in SweepRow /\ NoRequest \in RequestRow /\ NoWork \in WorkRow
BY DEF NoRow, SweepRow, Progress, NoRequest, RequestRow, NoWork, WorkRow

LEMMA SweepsStart == Init => SweepInvariant
<1> SUFFICES ASSUME Init PROVE SweepInvariant
  OBVIOUS
<1>1. QueueTyped
  BY JobsAre, QueueConstants DEF Init, QueueInit, QueueTyped, JobStatus
<1>2. RowsTyped
  BY RestTyped DEF Init, RowsTyped, ConnRow
<1>3. \A s \in Sources : ConnFits(s)
  BY JobsAre DEF Init, ConnFits
<1>4. \A q \in Requests : RequestFits(q)
  BY DEF Init, RequestFits, NoRequest
<1>5. \A j \in Named : WorkFits(j)
  BY JobsAre DEF Init, QueueInit, WorkFits, NoWork
<1>6. \A w \in SweepIds : SweepFits(w)
  BY JobsAre DEF Init, QueueInit, SweepFits, NoWork, NoRow, Created
<1> QED
  BY <1>1, <1>2, <1>3, <1>4, <1>5, <1>6 DEF SweepInvariant

-------------------------------------------------------------------------------
\* What the operations of the queue do to it.
Same(j) == status'[j] = status[j] /\ task'[j] = task[j]

LEMMA Enqueued ==
  ASSUME QueueTyped, NEW n \in Named, NEW t \in Tasks,
         EnqueueNamed({n}, [k \in {n} |-> t]) \/ EnqueueLost
  PROVE  /\ QueueTyped'
         /\ \A j \in Named : Same(j) \/ (j = n /\ status[j] = "absent" /\ status'[j] = "queued"
                                                /\ task'[j] = t)
<1>1. CASE EnqueueNamed({n}, [k \in {n} |-> t])
  BY <1>1, JobsAre DEF QueueTyped, EnqueueNamed, Same, JobStatus
<1>2. CASE EnqueueLost
  BY <1>2 DEF QueueTyped, EnqueueLost, queueVars, Same
<1> QED
  BY <1>1, <1>2

LEMMA JobMoved ==
  ASSUME QueueTyped, NEW j \in Named,
         StartJob(j) \/ InterruptJob(j) \/ FinishJob(j) \/ GiveUpJob(j) \/ ExpireJob(j)
  PROVE  /\ QueueTyped' /\ \A k \in Named \ {j} : Same(k)
         /\ status[j] # "absent"
         /\ StartJob(j) => status[j] = "queued" /\ status'[j] = "running" /\ task'[j] = task[j]
         /\ InterruptJob(j) => /\ status[j] = "running" /\ status'[j] \in {"queued", "kept"}
                               /\ task'[j] = task[j]
         /\ FinishJob(j) => status[j] = "running" /\ status'[j] = "kept"
         /\ GiveUpJob(j) => status[j] = "queued" /\ status'[j] = "kept"
         /\ ExpireJob(j) => status[j] = "kept" /\ status'[j] = "absent"
<1>1. CASE StartJob(j)
  BY <1>1, QueueConstants DEF QueueTyped, StartJob, InterruptJob, RequeueJob, FinishJob, GiveUpJob,
     ExpireJob, KeepResult, Same, JobStatus
<1>2. CASE RequeueJob(j)
  BY <1>2, QueueConstants DEF QueueTyped, StartJob, InterruptJob, RequeueJob, FinishJob, GiveUpJob,
     ExpireJob, KeepResult, Same, JobStatus
<1>3. CASE FinishJob(j) \/ GiveUpJob(j)
  BY <1>3, QueueConstants DEF QueueTyped, StartJob, InterruptJob, RequeueJob, FinishJob, GiveUpJob,
     ExpireJob, KeepResult, Same, JobStatus
<1>4. CASE ExpireJob(j)
  BY <1>4, QueueConstants DEF QueueTyped, StartJob, InterruptJob, RequeueJob, FinishJob, GiveUpJob,
     ExpireJob, KeepResult, Same, JobStatus
<1> QED
  BY <1>1, <1>2, <1>3, <1>4 DEF InterruptJob

-------------------------------------------------------------------------------
\* Chunks and answers are never forgotten, and a sweep that was created keeps its scope.
Monotone ==
  /\ \A s \in Sources : imported[s] \subseteq imported'[s] /\ (Answered(s) => Answered(s)')
  /\ \A w \in SweepIds : Created(w) => Created(w)' /\ sweep'[w].scope = sweep[w].scope
  /\ dropped \subseteq dropped'

\* A job that was not there is put into the queue with a call that fits its name.
Enters(j) ==
  /\ status[j] = "absent" /\ status'[j] = "queued"
  /\ j \in SyncJobs => task'[j] \in Sources \X (SweepIds \cup {NoSweep})
  /\ \A w \in SweepIds : j = SweepJob(w) => Created(w) /\ task'[j] = w

LEMMA WorkStays ==
  ASSUME NEW j \in Named, WorkFits(j), Monotone, work'[j] = work[j], Same(j) \/ Enters(j)
  PROVE  WorkFits(j)'
<1>1. (work[j].phase # "idle" => status[j] = "running")'
  BY DEF WorkFits, Same, Enters
<1>2. (work[j].phase = "syncing" =>
        /\ work[j].from <= Chunks[work[j].source]
        /\ 1..work[j].from \subseteq imported[work[j].source])'
  BY DEF WorkFits, Monotone
<1>3. (j \in SyncJobs /\ status[j] \in {"queued", "running"} =>
         task[j] \in Sources \X (SweepIds \cup {NoSweep}))'
  BY DEF WorkFits, Same, Enters
<1> QED
  BY <1>1, <1>2, <1>3 DEF WorkFits

LEMMA SweepStays ==
  ASSUME NEW w \in SweepIds, SweepFits(w), WorkFits(SweepJob(w)), Monotone, sweep'[w] = sweep[w],
         work'[SweepJob(w)] = work[SweepJob(w)], Same(SweepJob(w)) \/ Enters(SweepJob(w))
  PROVE  SweepFits(w)'
<1> DEFINE j == SweepJob(w)
<1>1. /\ Created(w)' <=> Created(w)
      /\ Wanted(w)' = Wanted(w)
  BY DEF Created, Wanted
<1>2. (status[j] \in {"queued", "running"} => Created(w) /\ task[j] = w)'
  BY <1>1 DEF SweepFits, Same, Enters
<1>3. (work[j].phase = "recording" /\ work[j].result = "ok" => Answered(work[j].source))'
  BY DEF SweepFits, WorkFits, Monotone
<1>4. (sweep[w].status = "running" => status[j] \in {"queued", "running"} \/ w \in dropped)'
  BY DEF SweepFits, Same, Enters, Monotone
<1>5. \A s \in Sources : Imports(w, s) => Imports(w, s)'
  BY <1>1 DEF Imports, Monotone
<1> QED
  BY <1>1, <1>2, <1>3, <1>4, <1>5 DEF SweepFits

LEMMA ConnStays ==
  ASSUME NEW s \in Sources, ConnFits(s), imported' = imported, hollow' = hollow,
         conn'[s].cursor = conn[s].cursor, conn'[s].backfilled = conn[s].backfilled
  PROVE  ConnFits(s)'
BY DEF ConnFits

\* A step disturbs what it changes: the jobs J, the sweeps W, the calls Q.
LEMMA RestStays ==
  ASSUME SweepInvariant, QueueTyped', RowsTyped', Monotone,
         NEW J \in SUBSET Named, NEW W \in SUBSET SweepIds, NEW Q \in SUBSET Requests,
         \A j \in Named \ J : work'[j] = work[j] /\ (Same(j) \/ Enters(j)),
         \A w \in SweepIds \ W : sweep'[w] = sweep[w] /\ SweepJob(w) \notin J,
         \A q \in Requests \ Q : request'[q] = request[q],
         \A s \in Sources : ConnFits(s)',
         \A j \in J : WorkFits(j)',
         \A w \in W : SweepFits(w)',
         \A q \in Q : RequestFits(q)'
  PROVE  SweepInvariant'
<1>1. ASSUME NEW j \in Named PROVE WorkFits(j)'
  BY WorkStays DEF SweepInvariant
<1>2. ASSUME NEW w \in SweepIds PROVE SweepFits(w)'
  <2>1. CASE w \in W
    BY <2>1
  <2>2. CASE w \notin W
    <3>1. SweepJob(w) \in Named \ J /\ sweep'[w] = sweep[w]
      BY <2>2, JobsAre
    <3> QED
      BY <3>1, SweepStays DEF SweepInvariant
  <2> QED
    BY <2>1, <2>2
<1>3. ASSUME NEW q \in Requests PROVE RequestFits(q)'
  <2>1. CASE q \in Q
    BY <2>1
  <2>2. CASE q \notin Q
    BY <2>2 DEF SweepInvariant, RequestFits, Monotone, Covers
  <2> QED
    BY <2>1, <2>2
<1> QED
  BY <1>1, <1>2, <1>3 DEF SweepInvariant

-------------------------------------------------------------------------------
\* SweepsService.start.
LEMMA FindKeeps ==
  ASSUME SweepInvariant, NEW q \in Requests, NEW scope \in SUBSET Sources, FindCovering(q, scope)
  PROVE  SweepInvariant'
<1>1. QueueTyped' /\ \A j \in Named : work'[j] = work[j] /\ Same(j)
  BY DEF SweepInvariant, FindCovering, queueVars, QueueTyped, Same
<1>2. Monotone /\ \A w \in SweepIds : sweep'[w] = sweep[w]
  BY DEF FindCovering, Monotone, Answered, Created
<1>3. \A s \in Sources : ConnFits(s)'
  BY ConnStays DEF SweepInvariant, FindCovering
<1>4. CASE Covering(scope) = {}
  <2> DEFINE new == [phase |-> "creating", scope |-> scope, sweep |-> NoSweep]
  <2>1. request' = [request EXCEPT ![q] = new] /\ new \in RequestRow
    BY <1>4 DEF FindCovering, RequestRow
  <2> HIDE DEF new
  <2>2. RowsTyped' /\ \A p \in Requests \ {q} : request'[p] = request[p]
    BY <2>1 DEF SweepInvariant, RowsTyped, FindCovering
  <2>3. RequestFits(q)'
    BY <2>1 DEF SweepInvariant, RowsTyped, RequestFits, new
  <2> QED
    BY <1>1, <1>2, <1>3, <2>2, <2>3, RestStays, {} \in SUBSET Named, {} \in SUBSET SweepIds,
       {q} \in SUBSET Requests
<1>5. CASE Covering(scope) # {}
  <2>1. PICK w \in Covering(scope) :
          request' = [request EXCEPT ![q] = [phase |-> "enqueueing", scope |-> scope, sweep |-> w]]
    BY <1>5 DEF FindCovering
  <2> DEFINE new == [phase |-> "enqueueing", scope |-> scope, sweep |-> w]
  <2>2. w \in SweepIds /\ Created(w) /\ Covers(w, scope)
    BY DEF Covering, Active, Created, Covers
  <2>3. new \in RequestRow
    BY <2>2 DEF RequestRow
  <2>4. request' = [request EXCEPT ![q] = new]
    BY <2>1
  <2> HIDE DEF new
  <2>5. RowsTyped' /\ request'[q] = new /\ \A p \in Requests \ {q} : request'[p] = request[p]
    BY <2>3, <2>4 DEF SweepInvariant, RowsTyped, FindCovering
  <2>6. RequestFits(q)'
    BY <1>2, <2>2, <2>5 DEF RequestFits, Monotone, Covers, new
  <2> QED
    BY <1>1, <1>2, <1>3, <2>5, <2>6, RestStays, {} \in SUBSET Named, {} \in SUBSET SweepIds,
       {q} \in SUBSET Requests
<1> QED
  BY <1>4, <1>5

LEMMA CreateKeeps ==
  ASSUME SweepInvariant, NEW q \in Requests, NEW w \in SweepIds, CreateSweep(q, w)
  PROVE  SweepInvariant'
<1> DEFINE j == SweepJob(w)
<1>0. /\ sweep \in [SweepIds -> SweepRow] /\ request \in [Requests -> RequestRow]
      /\ SweepFits(w) /\ WorkFits(j) /\ j \in Named
  BY JobsAre DEF SweepInvariant, RowsTyped
<1>1. QueueTyped' /\ \A k \in Named : work'[k] = work[k] /\ Same(k)
  BY DEF SweepInvariant, CreateSweep, queueVars, QueueTyped, Same
<1>2. /\ sweep'[w] = [sweep[w] EXCEPT !.status = "pending", !.scope = request[q].scope]
      /\ \A v \in SweepIds \ {w} : sweep'[v] = sweep[v]
      /\ ~Created(w) /\ request[q].scope \in SUBSET Sources
  BY <1>0 DEF CreateSweep, FirstStatus, Created, RequestRow
<1>3. /\ sweep'[w].status = "pending" /\ sweep'[w].scope = request[q].scope
      /\ sweep'[w].progress = sweep[w].progress /\ sweep'[w] \in SweepRow
  BY <1>0, <1>2 DEF SweepRow
<1>4. request'[q] = [request[q] EXCEPT !.phase = "enqueueing", !.sweep = w]
      /\ \A p \in Requests \ {q} : request'[p] = request[p]
  BY <1>0 DEF CreateSweep
<1>5. /\ request'[q].phase = "enqueueing" /\ request'[q].sweep = w
      /\ request'[q].scope = request[q].scope /\ request'[q] \in RequestRow
  BY <1>0, <1>4 DEF RequestRow
<1>6. RowsTyped'
  BY <1>2, <1>3, <1>4, <1>5 DEF SweepInvariant, RowsTyped, CreateSweep
<1>7. Monotone
  BY <1>2 DEF CreateSweep, Monotone, Answered, Created
<1>8. \A s \in Sources : ConnFits(s)'
  BY ConnStays DEF SweepInvariant, CreateSweep
<1>9. RequestFits(q)'
  BY <1>3, <1>5 DEF RequestFits, Created, Covers
<1>10. SweepFits(w)'
  <2>1. status[j] \notin {"queued", "running"} /\ work[j].phase = "idle" /\ work[j].todo = {}
    BY <1>0, <1>2 DEF SweepFits, WorkFits
  <2>2. \A p \in ProviderIds : sweep'[w].progress[p] = "none"
    BY <1>0, <1>2, <1>3 DEF SweepFits
  <2> QED
    BY <1>0, <1>1, <1>3, <2>1, <2>2 DEF SweepFits, Created, Same
<1>11. /\ \A v \in SweepIds \ {w} : sweep'[v] = sweep[v]
       /\ \A p \in Requests \ {q} : request'[p] = request[p]
  BY <1>2, <1>4
<1> HIDE DEF j
<1> QED
  BY <1>1, <1>6, <1>7, <1>8, <1>9, <1>10, <1>11, RestStays,
     {} \in SUBSET Named, {w} \in SUBSET SweepIds, {q} \in SUBSET Requests

LEMMA EnqueueKeeps ==
  ASSUME SweepInvariant, NEW q \in Requests, EnqueueSweep(q)
  PROVE  SweepInvariant'
<1>1. PICK w \in SweepIds : w = request[q].sweep /\ Created(w)
  BY DEF SweepInvariant, RequestFits, EnqueueSweep
<1>2. SweepJob(w) \in Named /\ w \in Tasks /\ QueueTyped
  BY JobsAre, SweepConstants DEF SweepInvariant
<1>3. EnqueueNamed({SweepJob(w)}, [j \in {SweepJob(w)} |-> w]) \/ EnqueueLost
  BY <1>1 DEF EnqueueSweep
<1>4. /\ QueueTyped'
      /\ \A j \in Named : Same(j) \/ (j = SweepJob(w) /\ status[j] = "absent"
                                         /\ status'[j] = "queued" /\ task'[j] = w)
  BY <1>2, <1>3, Enqueued
<1>5. \A j \in Named : work'[j] = work[j] /\ (Same(j) \/ Enters(j))
  BY <1>1, <1>4, JobsAre DEF Enters, EnqueueSweep
<1>6. Monotone /\ \A v \in SweepIds : sweep'[v] = sweep[v]
  BY DEF EnqueueSweep, Monotone, Answered, Created
<1>7. RowsTyped' /\ request'[q] = NoRequest /\ \A p \in Requests \ {q} : request'[p] = request[p]
  BY RestTyped DEF SweepInvariant, RowsTyped, EnqueueSweep
<1>8. RequestFits(q)'
  BY <1>7 DEF RequestFits, NoRequest
<1>9. \A s \in Sources : ConnFits(s)'
  BY ConnStays DEF SweepInvariant, EnqueueSweep
<1> QED
  BY <1>4, <1>5, <1>6, <1>7, <1>8, <1>9, RestStays, {} \in SUBSET Named, {} \in SUBSET SweepIds,
     {q} \in SUBSET Requests

-------------------------------------------------------------------------------
\* The steps of one job.
SweepsOf(j) == {w \in SweepIds : SweepJob(w) = j}

\* A step of job j that changes the row of no sweep but its own and no call.
LEMMA JobSteps ==
  ASSUME SweepInvariant, NEW j \in Named, QueueTyped', RowsTyped', Monotone, request' = request,
         \A k \in Named \ {j} : work'[k] = work[k] /\ (Same(k) \/ Enters(k)),
         \A w \in SweepIds \ SweepsOf(j) : sweep'[w] = sweep[w],
         \A s \in Sources : ConnFits(s)',
         WorkFits(j)', \A w \in SweepsOf(j) : SweepFits(w)'
  PROVE  SweepInvariant'
<1>1. \A w \in SweepIds \ SweepsOf(j) : SweepJob(w) \notin {j}
  BY DEF SweepsOf
<1>2. SweepsOf(j) \in SUBSET SweepIds
  BY DEF SweepsOf
<1> QED
  BY <1>1, <1>2, RestStays, {j} \in SUBSET Named, {} \in SUBSET Requests

LEMMA WorkTyped ==
  ASSUME RowsTyped, NEW j \in Named, NEW new \in WorkRow, work' = [work EXCEPT ![j] = new]
  PROVE  /\ work' \in [Named -> WorkRow] /\ work'[j] = new
         /\ \A k \in Named \ {j} : work'[k] = work[k]
BY DEF RowsTyped

\* A job that is over holds nothing.
LEMMA IdleFits ==
  ASSUME NEW j \in Named, work'[j] = NoWork,
         j \in SyncJobs /\ status'[j] \in {"queued", "running"} =>
           task'[j] \in Sources \X (SweepIds \cup {NoSweep})
  PROVE  WorkFits(j)'
BY DEF WorkFits, NoWork

\* A sweep whose job is over: its row stands, and if it says running the job is queued
\* again or was dropped.
LEMMA IdleSweepFits ==
  ASSUME NEW w \in SweepIds, SweepFits(w), Monotone, sweep'[w] = sweep[w],
         work'[SweepJob(w)] = NoWork,
         status'[SweepJob(w)] \in {"queued", "running"} => Created(w) /\ task'[SweepJob(w)] = w,
         sweep[w].status = "running" =>
           status'[SweepJob(w)] \in {"queued", "running"} \/ w \in dropped'
  PROVE  SweepFits(w)'
<1>1. (Created(w)' <=> Created(w)) /\ Wanted(w)' = Wanted(w)
  BY DEF Created, Wanted
<1>2. \A s \in Sources : Imports(w, s) => Imports(w, s)'
  BY <1>1 DEF Imports, Monotone
<1> QED
  BY <1>1, <1>2 DEF SweepFits, NoWork

LEMMA StartSyncKeeps ==
  ASSUME SweepInvariant, NEW j \in Named, StartSync(j)
  PROVE  SweepInvariant'
<1> DEFINE s == task[j][1]
           new == Syncing(j, NoWork, s)
<1>0. QueueTyped /\ RowsTyped /\ WorkFits(j) /\ j \in SyncJobs /\ StartJob(j)
  BY DEF SweepInvariant, StartSync
<1>1. /\ QueueTyped' /\ \A k \in Named \ {j} : Same(k)
      /\ status[j] = "queued" /\ status'[j] = "running" /\ task'[j] = task[j]
  BY <1>0, JobMoved
<1>2. s \in Sources
  BY <1>0, <1>1 DEF WorkFits
<1>3. j \notin SweepJobs
  BY <1>0, JobsAre DEF SweepJobs
<1>4. work' = [work EXCEPT ![j] = new]
  BY DEF StartSync
<1>5. new \in WorkRow /\ new.todo = {}
      /\ (new.phase = "ended" \/ (new.phase = "syncing" /\ new.source = s /\ new.from = conn[s].cursor))
  <2>1. CASE conn[s].status = "absent"
    BY <1>3, <2>1, RestTyped DEF Syncing, Returned, WorkRow, NoWork
  <2>2. CASE conn[s].status # "absent"
    BY <1>0, <1>2, <2>2, RestTyped DEF Syncing, WorkRow, RowsTyped, ConnRow, NoWork
  <2> QED
    BY <2>1, <2>2
<1>6. ConnFits(s) /\ SweepsOf(j) = {}
  BY <1>0, <1>2, JobsAre DEF SweepInvariant, SweepsOf
<1> HIDE DEF new
<1>7. work' \in [Named -> WorkRow] /\ work'[j] = new /\ \A k \in Named \ {j} : work'[k] = work[k]
  BY <1>0, <1>4, <1>5, WorkTyped
<1>8. RowsTyped' /\ Monotone /\ request' = request /\ sweep' = sweep
  BY <1>0, <1>7 DEF StartSync, RowsTyped, Monotone, Answered, Created
<1>9. \A x \in Sources : ConnFits(x)'
  BY ConnStays DEF SweepInvariant, StartSync
<1>10. WorkFits(j)'
  <2>1. imported' = imported
    BY DEF StartSync
  <2> QED
    BY <1>0, <1>1, <1>2, <1>5, <1>6, <1>7, <2>1 DEF WorkFits, ConnFits
<1> QED
  BY <1>1, <1>6, <1>7, <1>8, <1>9, <1>10, JobSteps

\* A job that ends, is interrupted or is given up while its work goes.
LEMMA EndsKeep ==
  ASSUME SweepInvariant, NEW j \in Named,
         InterruptJob(j) \/ FinishJob(j) \/ GiveUpJob(j),
         \/ work' = [work EXCEPT ![j] = NoWork]
         \/ GiveUpJob(j) /\ work' = work,
         UNCHANGED <<conn, imported, hollow, sweep, request>>,
         dropped' \in SUBSET SweepIds, dropped \subseteq dropped',
         \A w \in SweepsOf(j) : sweep[w].status = "running" =>
           status'[j] = "queued" \/ w \in dropped'
  PROVE  SweepInvariant'
<1>0. QueueTyped /\ RowsTyped /\ WorkFits(j) /\ \A w \in SweepIds : SweepFits(w)
  BY DEF SweepInvariant
<1>1. /\ QueueTyped' /\ \A k \in Named \ {j} : Same(k)
      /\ status[j] \in {"queued", "running"} /\ status'[j] \in {"queued", "kept"}
      /\ status'[j] = "queued" => task'[j] = task[j]
  BY <1>0, JobMoved
<1>2. work' \in [Named -> WorkRow] /\ \A k \in Named \ {j} : work'[k] = work[k]
  BY <1>0, RestTyped, WorkTyped DEF RowsTyped
<1>3. RowsTyped' /\ Monotone
  BY <1>0, <1>2 DEF RowsTyped, Monotone, Answered, Created
<1>4. \A s \in Sources : ConnFits(s)'
  BY ConnStays DEF SweepInvariant
<1>5. CASE work' = [work EXCEPT ![j] = NoWork]
  <2>1. work'[j] = NoWork
    BY <1>0, <1>5 DEF RowsTyped
  <2>2. WorkFits(j)'
    BY <1>0, <1>1, <2>1, IdleFits DEF WorkFits
  <2>3. ASSUME NEW w \in SweepsOf(j) PROVE SweepFits(w)'
    BY <1>0, <1>1, <1>3, <2>1, IdleSweepFits DEF SweepsOf, SweepFits
  <2> QED
    BY <1>1, <1>2, <1>3, <1>4, <2>2, <2>3, JobSteps
<1>6. CASE GiveUpJob(j) /\ work' = work
  <2>1. status[j] = "queued" /\ status'[j] = "kept" /\ work'[j] = work[j] /\ work[j].phase = "idle"
    BY <1>0, <1>6, JobMoved DEF WorkFits
  <2>2. WorkFits(j)'
    BY <1>0, <2>1 DEF WorkFits
  <2>3. ASSUME NEW w \in SweepsOf(j) PROVE SweepFits(w)'
    <3>1. w \in SweepIds /\ SweepJob(w) = j /\ SweepFits(w)
      BY <1>0, <2>3 DEF SweepsOf
    <3>2. (Created(w)' <=> Created(w)) /\ Wanted(w)' = Wanted(w)
      BY DEF Created, Wanted
    <3>3. \A s \in Sources : Imports(w, s) => Imports(w, s)'
      BY <3>2 DEF Imports, Answered
    <3>4. sweep[w].status = "running" => w \in dropped'
      BY <2>1, <2>3
    <3> QED
      BY <2>1, <3>1, <3>2, <3>3, <3>4 DEF SweepFits
  <2> QED
    BY <1>1, <1>2, <1>3, <1>4, <2>2, <2>3, JobSteps
<1> QED
  BY <1>5, <1>6

LEMMA EndSyncKeeps ==
  ASSUME SweepInvariant, NEW j \in Named, EndSync(j) PROVE SweepInvariant'
<1>1. SweepsOf(j) = {} /\ dropped' = dropped /\ dropped \in SUBSET SweepIds
  BY JobsAre DEF EndSync, SweepsOf, SweepInvariant, RowsTyped
<1> QED
  BY <1>1, EndsKeep DEF EndSync

LEMMA DropKeeps ==
  ASSUME SweepInvariant, NEW j \in Named, Kill(j) \/ GiveUp(j) PROVE SweepInvariant'
<1>1. InterruptJob(j) \/ GiveUpJob(j)
  BY DEF Kill, GiveUp
<1>2. status'[j] \in {"queued", "kept"}
  BY <1>1, JobMoved DEF SweepInvariant
<1>3. dropped' = dropped \cup {w \in SweepIds : SweepJob(w) = j /\ status'[j] = "kept"}
  BY DEF Kill, GiveUp, DropSweeps
<1>4. \A w \in SweepsOf(j) : status'[j] = "queued" \/ w \in dropped'
  BY <1>2, <1>3 DEF SweepsOf
<1>5. dropped' \in SUBSET SweepIds /\ dropped \subseteq dropped'
  BY <1>3 DEF SweepInvariant, RowsTyped
<1> QED
  BY <1>4, <1>5, EndsKeep DEF Kill, GiveUp

LEMMA ExpireKeeps ==
  ASSUME SweepInvariant, NEW j \in Named, Expire(j) PROVE SweepInvariant'
<1>0. QueueTyped /\ RowsTyped /\ WorkFits(j) /\ ExpireJob(j) /\ UNCHANGED sweepVars
      /\ \A w \in SweepIds : SweepFits(w)
  BY DEF SweepInvariant, Expire
<1>1. QueueTyped' /\ (\A k \in Named \ {j} : Same(k)) /\ status[j] = "kept" /\ status'[j] = "absent"
  BY <1>0, JobMoved
<1>2. RowsTyped' /\ Monotone /\ work' = work /\ request' = request /\ sweep' = sweep
  BY <1>0 DEF sweepVars, RowsTyped, Monotone, Answered, Created
<1>3. \A s \in Sources : ConnFits(s)'
  BY <1>0, ConnStays DEF SweepInvariant, sweepVars
<1>4. WorkFits(j)'
  BY <1>0, <1>1, <1>2 DEF WorkFits
<1>5. ASSUME NEW w \in SweepsOf(j) PROVE SweepFits(w)'
  <2>1. w \in SweepIds /\ SweepJob(w) = j /\ SweepFits(w)
    BY <1>0, <1>5 DEF SweepsOf
  <2>2. (Created(w)' <=> Created(w)) /\ Wanted(w)' = Wanted(w)
    BY <1>2 DEF Created, Wanted
  <2>3. \A s \in Sources : Imports(w, s) => Imports(w, s)'
    BY <1>2, <2>2 DEF Imports, Monotone
  <2>4. work[j].phase = "idle"
    BY <1>0, <1>1 DEF WorkFits
  <2> QED
    BY <1>1, <1>2, <2>1, <2>2, <2>3, <2>4 DEF SweepFits, Monotone
<1> QED
  BY <1>1, <1>2, <1>3, <1>4, <1>5, JobSteps

\* What a run leaves to the code that called it.
LEMMA WorkReturned ==
  ASSUME SweepInvariant, NEW j \in Named, work[j].phase = "syncing",
         NEW result \in {"ok", "failed"}, Return(j, result), Monotone, Same(j), sweep' = sweep,
         result = "ok" => \E s \in Sources : s = work[j].source /\ Answered(s)'
  PROVE  /\ work' \in [Named -> WorkRow] /\ \A k \in Named \ {j} : work'[k] = work[k]
         /\ WorkFits(j)' /\ \A w \in SweepsOf(j) : SweepFits(w)'
<1>0. RowsTyped /\ WorkFits(j) /\ work[j] \in WorkRow /\ status[j] = "running"
  BY DEF SweepInvariant, RowsTyped, WorkFits
<1>1. CASE j \in SweepJobs
  <2> DEFINE new == [work[j] EXCEPT !.phase = "recording", !.from = 0, !.result = result]
  <2>1. new \in WorkRow
    BY <1>0 DEF WorkRow
  <2>2. work' = [work EXCEPT ![j] = new]
    BY <1>0, <1>1 DEF Return, Returned, RowsTyped
  <2>3. /\ new.phase = "recording" /\ new.source = work[j].source /\ new.todo = work[j].todo
        /\ new.result = result
    BY <1>0 DEF WorkRow
  <2> HIDE DEF new
  <2>4. work' \in [Named -> WorkRow] /\ work'[j] = new /\ \A k \in Named \ {j} : work'[k] = work[k]
    BY <1>0, <2>1, <2>2, WorkTyped
  <2>5. WorkFits(j)'
    BY <1>0, <2>3, <2>4 DEF WorkFits, Same
  <2>6. ASSUME NEW w \in SweepsOf(j) PROVE SweepFits(w)'
    <3>1. w \in SweepIds /\ SweepJob(w) = j /\ SweepFits(w)
      BY <2>6 DEF SweepsOf, SweepInvariant
    <3>2. (Created(w)' <=> Created(w)) /\ Wanted(w)' = Wanted(w)
      BY DEF Created, Wanted
    <3>3. \A s \in Sources : Imports(w, s) => Imports(w, s)'
      BY <3>2 DEF Imports, Monotone
    <3> QED
      BY <1>0, <2>3, <2>4, <3>1, <3>2, <3>3 DEF SweepFits, Same, Monotone
  <2> QED
    BY <2>4, <2>5, <2>6
<1>2. CASE j \notin SweepJobs
  <2> DEFINE new == [NoWork EXCEPT !.phase = "ended"]
  <2>1. new \in WorkRow
    BY RestTyped DEF WorkRow
  <2>2. work' = [work EXCEPT ![j] = new]
    BY <1>0, <1>2 DEF Return, Returned, RowsTyped
  <2>3. new.phase = "ended"
    BY DEF NoWork
  <2> HIDE DEF new
  <2>4. work' \in [Named -> WorkRow] /\ work'[j] = new /\ \A k \in Named \ {j} : work'[k] = work[k]
    BY <1>0, <2>1, <2>2, WorkTyped
  <2>5. WorkFits(j)'
    BY <1>0, <2>3, <2>4 DEF WorkFits, Same
  <2>6. SweepsOf(j) = {}
    BY <1>2 DEF SweepsOf, SweepJobs
  <2> QED
    BY <2>4, <2>5, <2>6
<1> QED
  BY <1>1, <1>2

LEMMA StampIs ==
  ASSUME SweepInvariant, NEW j \in Named, status[j] = "running"
  PROVE  Stamp(j) \in SweepIds \cup {NoSweep}
<1>1. CASE j \in SyncJobs
  <2>1. task[j] \in Sources \X (SweepIds \cup {NoSweep})
    BY <1>1 DEF SweepInvariant, WorkFits
  <2> QED
    BY <2>1 DEF Stamp
<1>2. CASE \E w \in SweepIds : j = SweepJob(w)
  <2>1. PICK w \in SweepIds : j = SweepJob(w)
    BY <1>2
  <2>2. task[j] = w
    BY <2>1 DEF SweepInvariant, SweepFits
  <2> QED
    BY <2>2 DEF Stamp
<1> QED
  BY <1>1, <1>2, JobsAre

LEMMA Chained ==
  ASSUME SweepInvariant, NEW j \in Named, status[j] = "running", NEW s \in Sources,
         NEW next \in Nat, Chain(s, Stamp(j), next)
  PROVE  QueueTyped' /\ Same(j) /\ \A k \in Named : Same(k) \/ Enters(k)
<1> DEFINE n == ChainJob(s)
           t == SyncTask(s, Stamp(j))
<1>1. n \in Named /\ n \in SyncJobs /\ t \in Sources \X (SweepIds \cup {NoSweep})
  BY JobsAre, StampIs DEF SyncTask
<1>2. t \in Tasks /\ QueueTyped
  BY <1>1, SweepConstants DEF SweepInvariant
<1>3. EnqueueNamed({n}, [k \in {n} |-> t]) \/ EnqueueLost
  BY DEF Chain
<1> HIDE DEF n, t
<1>4. /\ QueueTyped'
      /\ \A k \in Named : Same(k) \/ (k = n /\ status[k] = "absent" /\ status'[k] = "queued"
                                             /\ task'[k] = t)
  BY <1>1, <1>2, <1>3, Enqueued
<1>5. \A k \in Named : Same(k) \/ Enters(k)
  BY <1>1, <1>4, JobsAre DEF Enters
<1> QED
  BY <1>4, <1>5

LEMMA CommitKeeps ==
  ASSUME SweepInvariant, NEW j \in Named, CommitChunk(j) PROVE SweepInvariant'
<1>0. RowsTyped /\ WorkFits(j) /\ work[j].phase = "syncing" /\ status[j] = "running"
  BY DEF SweepInvariant, CommitChunk, WorkFits
<1>1. PICK s \in Sources : s = work[j].source
  BY <1>0 DEF WorkFits
<1>2. PICK from \in Nat : from = work[j].from /\ from <= Chunks[s] /\ 1..from \subseteq imported[s]
  BY <1>0, <1>1 DEF WorkFits, RowsTyped, WorkRow
<1>3. PICK next \in Nat : /\ next = Least(from + 1, Chunks[s]) /\ next <= Chunks[s] /\ next >= 1
                          /\ next <= from + 1
  BY <1>1, <1>2, JobsAre DEF Least
<1>4. /\ imported' = [imported EXCEPT ![s] = imported[s] \cup {next}]
      /\ conn' = [conn EXCEPT ![s] = [status |-> "connected", cursor |-> next,
                    backfilled |-> conn[s].backfilled \/ Exhausted(s, next)]]
      /\ Chain(s, Stamp(j), next) /\ Return(j, "ok")
      /\ UNCHANGED <<hollow, sweep, request, dropped>>
  BY <1>1, <1>2, <1>3 DEF CommitChunk, Following
<1>5. QueueTyped' /\ Same(j) /\ \A k \in Named : Same(k) \/ Enters(k)
  BY <1>0, <1>3, <1>4, Chained
<1> DEFINE row == [status |-> "connected", cursor |-> next,
                   backfilled |-> conn[s].backfilled \/ Exhausted(s, next)]
<1>6. row \in ConnRow /\ row.cursor = next
      /\ (row.backfilled <=> conn[s].backfilled \/ next = Chunks[s])
  BY <1>0 DEF ConnRow, Exhausted, RowsTyped
<1>7. conn' = [conn EXCEPT ![s] = row]
  BY <1>4
<1> HIDE DEF row
<1>8. conn' \in [Sources -> ConnRow] /\ conn'[s] = row /\ \A x \in Sources \ {s} : conn'[x] = conn[x]
  BY <1>0, <1>6, <1>7 DEF RowsTyped
<1>9. /\ imported' \in [Sources -> SUBSET Nat] /\ imported'[s] = imported[s] \cup {next}
      /\ \A x \in Sources \ {s} : imported'[x] = imported[x]
  BY <1>0, <1>4 DEF RowsTyped
<1>10. Monotone
  BY <1>4, <1>8, <1>9 DEF Monotone, Answered, Created
<1>11. Answered(s)'
  BY <1>9 DEF Answered
<1>12. /\ work' \in [Named -> WorkRow] /\ \A k \in Named \ {j} : work'[k] = work[k]
       /\ WorkFits(j)' /\ \A w \in SweepsOf(j) : SweepFits(w)'
  BY <1>0, <1>1, <1>4, <1>5, <1>10, <1>11, WorkReturned
<1>13. RowsTyped'
  BY <1>0, <1>4, <1>8, <1>9, <1>12 DEF RowsTyped
<1>14. ConnFits(s)'
  <2>1. ConnFits(s) /\ Chunks[s] \in Nat
    BY JobsAre DEF SweepInvariant
  <2>2. imported'[s] \subseteq 1..Chunks[s]
    BY <1>3, <1>9, <2>1 DEF ConnFits
  <2>3. 1..next \subseteq imported'[s]
    BY <1>2, <1>3, <1>9
  <2>4. row.backfilled => imported'[s] = 1..Chunks[s] \/ s \in hollow
    <3>1. CASE conn[s].backfilled
      BY <1>9, <2>1, <2>2, <3>1 DEF ConnFits
    <3>2. CASE next = Chunks[s]
      BY <2>2, <2>3, <3>2
    <3> QED
      BY <1>6, <3>1, <3>2
  <2> QED
    BY <1>3, <1>4, <1>6, <1>8, <2>2, <2>3, <2>4 DEF ConnFits
<1>15. ASSUME NEW x \in Sources PROVE ConnFits(x)'
  <2>1. CASE x # s
    BY <1>4, <1>8, <1>9, <2>1 DEF SweepInvariant, ConnFits
  <2> QED
    BY <1>14, <2>1
<1> QED
  BY <1>4, <1>5, <1>10, <1>12, <1>13, <1>15, JobSteps

LEMMA HoldKeeps ==
  ASSUME SweepInvariant, NEW j \in Named, HoldCursor(j) PROVE SweepInvariant'
<1>0. RowsTyped /\ QueueTyped /\ WorkFits(j) /\ work[j].phase = "syncing"
  BY DEF SweepInvariant, HoldCursor
<1>1. PICK s \in Sources \ Opaque : s = work[j].source
  BY <1>0 DEF WorkFits, HoldCursor
<1>2. PICK at \in {work[j].from, conn[s].cursor} :
        conn' = [conn EXCEPT ![s] = [status |-> "connected", cursor |-> at, backfilled |-> TRUE]]
  BY <1>1 DEF HoldCursor
<1>3. /\ hollow' = IF conn[s].backfilled THEN hollow ELSE hollow \cup {s}
      /\ Return(j, "ok") /\ UNCHANGED <<queueVars, imported, sweep, request, dropped>>
  BY <1>1 DEF HoldCursor
<1>4. ConnFits(s) /\ Chunks[s] \in Nat \ {0} /\ conn[s] \in ConnRow
  BY <1>0, <1>1, JobsAre, SweepConstants DEF SweepInvariant, RowsTyped
<1>5. at \in Nat /\ at <= Chunks[s] /\ 1..at \subseteq imported[s]
  <2>1. CASE at = work[j].from
    BY <1>0, <1>1, <2>1 DEF WorkFits, RowsTyped, WorkRow
  <2>2. CASE at = conn[s].cursor
    BY <1>4, <2>2 DEF ConnFits, ConnRow
  <2> QED
    BY <1>2, <2>1, <2>2
<1> DEFINE row == [status |-> "connected", cursor |-> at, backfilled |-> TRUE]
<1>6. row \in ConnRow /\ row.cursor = at /\ conn' = [conn EXCEPT ![s] = row]
  BY <1>2, <1>5 DEF ConnRow
<1> HIDE DEF row
<1>7. /\ conn' \in [Sources -> ConnRow] /\ conn'[s] = row
      /\ \A x \in Sources \ {s} : conn'[x] = conn[x]
  BY <1>0, <1>6 DEF RowsTyped
<1>8. imported[s] = 1..Chunks[s] \/ s \in hollow'
  BY <1>3, <1>4 DEF ConnFits
<1>9. Answered(s)' /\ hollow \subseteq hollow'
  <2>1. 1..Chunks[s] # {}
    BY <1>4
  <2> QED
    BY <1>3, <1>8, <2>1 DEF Answered
<1>10. Monotone
  BY <1>3, <1>7, <1>9 DEF Monotone, Answered, Created
<1>11. QueueTyped' /\ \A k \in Named : Same(k)
  BY <1>0, <1>3 DEF queueVars, QueueTyped, Same
<1>12. /\ work' \in [Named -> WorkRow] /\ \A k \in Named \ {j} : work'[k] = work[k]
       /\ WorkFits(j)' /\ \A w \in SweepsOf(j) : SweepFits(w)'
  BY <1>0, <1>1, <1>3, <1>9, <1>10, <1>11, WorkReturned
<1>13. RowsTyped'
  BY <1>0, <1>1, <1>3, <1>7, <1>12 DEF RowsTyped
<1>14. ASSUME NEW x \in Sources PROVE ConnFits(x)'
  <2>1. CASE x # s
    BY <1>3, <1>7, <1>9, <2>1 DEF SweepInvariant, ConnFits
  <2>2. CASE x = s
    BY <1>3, <1>4, <1>5, <1>6, <1>7, <1>8, <2>2 DEF ConnFits
  <2> QED
    BY <2>1, <2>2
<1> QED
  BY <1>3, <1>10, <1>11, <1>12, <1>13, <1>14, JobSteps

LEMMA WithoutRowKeeps ==
  ASSUME SweepInvariant, NEW j \in Named, SyncWithoutRow(j) PROVE SweepInvariant'
<1>0. RowsTyped /\ WorkFits(j) /\ work[j].phase = "syncing" /\ status[j] = "running"
  BY DEF SweepInvariant, SyncWithoutRow, WorkFits
<1>1. PICK s \in Sources : s = work[j].source
  BY <1>0 DEF WorkFits
<1>2. PICK next \in Nat : next = Following(j)
  BY <1>0, <1>1, JobsAre DEF Following, Least, RowsTyped, WorkRow
<1>3. /\ conn[s].status = "absent" /\ Chain(s, Stamp(j), next) /\ Return(j, "ok")
      /\ UNCHANGED <<conn, imported, hollow, sweep, request, dropped>>
  BY <1>1, <1>2 DEF SyncWithoutRow
<1>4. QueueTyped' /\ Same(j) /\ \A k \in Named : Same(k) \/ Enters(k)
  BY <1>0, <1>3, Chained
<1>5. Monotone /\ Answered(s)'
  BY <1>3 DEF Monotone, Answered, Created
<1>6. /\ work' \in [Named -> WorkRow] /\ \A k \in Named \ {j} : work'[k] = work[k]
      /\ WorkFits(j)' /\ \A w \in SweepsOf(j) : SweepFits(w)'
  BY <1>0, <1>1, <1>3, <1>4, <1>5, WorkReturned
<1>7. RowsTyped' /\ \A x \in Sources : ConnFits(x)'
  BY <1>0, <1>3, <1>6, ConnStays DEF SweepInvariant, RowsTyped
<1> QED
  BY <1>3, <1>4, <1>5, <1>6, <1>7, JobSteps

LEMMA BreakKeeps ==
  ASSUME SweepInvariant, NEW j \in Named, BreakSync(j) PROVE SweepInvariant'
<1>0. RowsTyped /\ QueueTyped /\ WorkFits(j) /\ work[j].phase = "syncing"
  BY DEF SweepInvariant, BreakSync
<1>1. PICK s \in Sources : s = work[j].source
  BY <1>0 DEF WorkFits
<1>2. conn' = [conn EXCEPT ![s].status = IF @ = "absent" THEN "absent" ELSE "error"]
      /\ Return(j, "failed")
      /\ UNCHANGED <<queueVars, imported, hollow, sweep, request, dropped>>
  BY <1>1 DEF BreakSync
<1>3. QueueTyped' /\ \A k \in Named : Same(k)
  BY <1>0, <1>2 DEF queueVars, QueueTyped, Same
<1>4. conn' \in [Sources -> ConnRow]
      /\ \A x \in Sources : /\ conn'[x].cursor = conn[x].cursor
                           /\ conn'[x].backfilled = conn[x].backfilled
                           /\ conn[x].status = "absent" => conn'[x].status = "absent"
  BY <1>0, <1>2 DEF RowsTyped, ConnRow
<1>5. Monotone
  BY <1>2, <1>4 DEF Monotone, Answered, Created
<1>6. \A x \in Sources : ConnFits(x)'
  BY <1>2, <1>4, ConnStays DEF SweepInvariant
<1>7. /\ work' \in [Named -> WorkRow] /\ \A k \in Named \ {j} : work'[k] = work[k]
      /\ WorkFits(j)' /\ \A w \in SweepsOf(j) : SweepFits(w)'
  BY <1>0, <1>2, <1>3, <1>5, WorkReturned
<1>8. RowsTyped'
  BY <1>0, <1>2, <1>4, <1>7 DEF RowsTyped
<1> QED
  BY <1>2, <1>3, <1>5, <1>6, <1>7, <1>8, JobSteps

LEMMA RaiseKeeps ==
  ASSUME SweepInvariant, NEW j \in Named, RaiseSync(j) PROVE SweepInvariant'
<1>0. RowsTyped /\ QueueTyped /\ work[j].phase = "syncing"
      /\ UNCHANGED <<conn, imported, hollow, sweep, request, dropped>>
  BY DEF SweepInvariant, RaiseSync
<1>1. CASE j \in SweepJobs
  <2>1. Return(j, "failed") /\ UNCHANGED queueVars
    BY <1>1 DEF RaiseSync
  <2>2. QueueTyped' /\ (\A k \in Named : Same(k)) /\ Monotone
    BY <1>0, <2>1 DEF queueVars, QueueTyped, Same, Monotone, Answered, Created
  <2>3. /\ work' \in [Named -> WorkRow] /\ \A k \in Named \ {j} : work'[k] = work[k]
        /\ WorkFits(j)' /\ \A w \in SweepsOf(j) : SweepFits(w)'
    BY <1>0, <2>1, <2>2, WorkReturned
  <2>4. RowsTyped' /\ \A x \in Sources : ConnFits(x)'
    BY <1>0, <2>3, ConnStays DEF SweepInvariant, RowsTyped
  <2> QED
    BY <1>0, <2>2, <2>3, <2>4, JobSteps
<1>2. CASE j \notin SweepJobs
  <2>1. InterruptJob(j) /\ work' = [work EXCEPT ![j] = NoWork]
    BY <1>2 DEF RaiseSync
  <2>2. SweepsOf(j) = {} /\ dropped' \in SUBSET SweepIds
    BY <1>0, <1>2 DEF SweepsOf, SweepJobs, RowsTyped
  <2> QED
    BY <1>0, <2>1, <2>2, EndsKeep
<1> QED
  BY <1>1, <1>2

-------------------------------------------------------------------------------
\* onboarding_sweep.
\* A step of the job of sweep w that writes the row of w and its own work.
LEMMA SweepSteps ==
  ASSUME SweepInvariant, NEW w \in SweepIds, NEW row \in SweepRow, NEW new \in WorkRow,
         QueueTyped', \A k \in Named \ {SweepJob(w)} : Same(k),
         sweep' = [sweep EXCEPT ![w] = row], work' = [work EXCEPT ![SweepJob(w)] = new],
         UNCHANGED <<conn, imported, hollow, request, dropped>>,
         Created(w), row.status # "none", row.scope = sweep[w].scope,
         WorkFits(SweepJob(w))', SweepFits(w)'
  PROVE  SweepInvariant'
<1> DEFINE j == SweepJob(w)
<1>0. RowsTyped /\ j \in Named /\ SweepsOf(j) = {w}
  BY JobsAre DEF SweepInvariant, SweepsOf
<1>1. /\ work' \in [Named -> WorkRow] /\ \A k \in Named \ {j} : work'[k] = work[k]
  BY <1>0, WorkTyped
<1>2. /\ sweep' \in [SweepIds -> SweepRow] /\ sweep'[w] = row
      /\ \A v \in SweepIds \ {w} : sweep'[v] = sweep[v]
  BY <1>0 DEF RowsTyped
<1>3. RowsTyped' /\ Monotone
  BY <1>0, <1>1, <1>2 DEF RowsTyped, Monotone, Answered, Created
<1>4. \A s \in Sources : ConnFits(s)'
  BY ConnStays DEF SweepInvariant
<1> QED
  BY <1>0, <1>1, <1>2, <1>3, <1>4, JobSteps

LEMMA StartSweepKeeps ==
  ASSUME SweepInvariant, NEW w \in SweepIds, StartSweep(w) PROVE SweepInvariant'
<1> DEFINE j == SweepJob(w)
           row == [sweep[w] EXCEPT !.status = "running"]
           todo == {s \in Wanted(w) : conn[s].status = "connected" /\ Provider[s] \notin Done(w)}
           new == [NoWork EXCEPT !.phase = "between", !.todo = todo]
<1>0. QueueTyped /\ RowsTyped /\ SweepFits(w) /\ j \in Named /\ sweep[w] \in SweepRow /\ j \notin SyncJobs
  BY JobsAre DEF SweepInvariant, RowsTyped
<1>1. StartJob(j) /\ UNCHANGED <<conn, imported, hollow, request, dropped>>
  BY DEF StartSweep
<1>2. /\ QueueTyped' /\ \A k \in Named \ {j} : Same(k)
      /\ status[j] = "queued" /\ status'[j] = "running" /\ task'[j] = task[j]
  BY <1>0, <1>1, JobMoved
<1>3. Created(w) /\ task[j] = w
  BY <1>0, <1>2 DEF SweepFits
<1>4. todo \in SUBSET Sources /\ todo \subseteq Wanted(w)
  BY <1>0 DEF Wanted, SweepRow
<1>5. sweep' = [sweep EXCEPT ![w] = row]
  BY <1>0 DEF StartSweep, RowsTyped
<1>6. work' = [work EXCEPT ![j] = new]
  BY DEF StartSweep, Wanted
<1>7. new \in WorkRow /\ new.phase = "between" /\ new.todo = todo
  BY <1>4, RestTyped DEF WorkRow, NoWork
<1>8. /\ row \in SweepRow /\ row.status = "running" /\ row.scope = sweep[w].scope
      /\ row.progress = sweep[w].progress
  BY <1>0 DEF SweepRow
<1> HIDE DEF row, new, todo
<1>9. sweep'[w] = row /\ work'[j] = new
  BY <1>0, <1>5, <1>6 DEF RowsTyped
<1>10. WorkFits(j)'
  BY <1>0, <1>2, <1>7, <1>9 DEF WorkFits
<1>11. Wanted(w)' = Wanted(w) /\ \A s \in Sources : Imports(w, s)' <=> Imports(w, s)
  BY <1>1, <1>8, <1>9 DEF Wanted, Imports, Answered
<1>12. SweepFits(w)'
  BY <1>0, <1>2, <1>3, <1>4, <1>7, <1>8, <1>9, <1>11 DEF SweepFits, Created
<1> QED
  BY <1>1, <1>2, <1>3, <1>5, <1>6, <1>7, <1>8, <1>10, <1>12, SweepSteps

LEMMA BeginKeeps ==
  ASSUME SweepInvariant, NEW w \in SweepIds, NEW s \in Sources, BeginSource(w, s)
  PROVE  SweepInvariant'
<1> DEFINE j == SweepJob(w)
           row == [sweep[w] EXCEPT !.progress[Provider[s]] = "running"]
           new == Syncing(j, [work[j] EXCEPT !.todo = @ \ {s}, !.tried = TRUE], s)
<1>0. /\ QueueTyped /\ RowsTyped /\ SweepFits(w) /\ WorkFits(j) /\ ConnFits(s) /\ j \in Named
      /\ sweep[w] \in SweepRow /\ work[j] \in WorkRow /\ conn[s] \in ConnRow
      /\ Provider[s] \in ProviderIds
  BY JobsAre DEF SweepInvariant, RowsTyped
<1>1. work[j].phase = "between" /\ s \in work[j].todo
      /\ UNCHANGED <<queueVars, conn, imported, hollow, request, dropped>>
  BY DEF BeginSource
<1>2. /\ QueueTyped' /\ (\A k \in Named : Same(k))
  BY <1>0, <1>1 DEF queueVars, QueueTyped, Same
<1>3. Created(w) /\ status[j] = "running" /\ s \in Wanted(w) /\ task[j] = w
  BY <1>0, <1>1 DEF SweepFits, WorkFits
<1>4. sweep' = [sweep EXCEPT ![w] = row]
  BY <1>0 DEF BeginSource, RowsTyped
<1>5. work' = [work EXCEPT ![j] = new]
  BY DEF BeginSource
<1>6. /\ new \in WorkRow /\ new.todo \subseteq work[j].todo /\ new.source = s
      /\ \/ new.phase = "syncing" /\ new.from = conn[s].cursor
         \/ new.phase = "recording" /\ Answered(s)
  <2>1. CASE conn[s].status = "absent"
    BY <1>0, <2>1 DEF Syncing, Returned, SweepJobs, WorkRow, Answered
  <2>2. CASE conn[s].status # "absent"
    BY <1>0, <2>2 DEF Syncing, WorkRow, ConnRow
  <2> QED
    BY <2>1, <2>2
<1>7. /\ row \in SweepRow /\ row.status = sweep[w].status /\ row.scope = sweep[w].scope
      /\ \A p \in ProviderIds : row.progress[p] = "completed" => sweep[w].progress[p] = "completed"
  BY <1>0 DEF SweepRow, Progress
<1> HIDE DEF row, new
<1>8. sweep'[w] = row /\ work'[j] = new
  BY <1>0, <1>4, <1>5 DEF RowsTyped
<1>9. WorkFits(j)'
  BY <1>0, <1>1, <1>2, <1>3, <1>6, <1>8 DEF WorkFits, ConnFits, Same
<1>10. /\ Wanted(w)' = Wanted(w) /\ \A x \in Sources : Imports(w, x)' <=> Imports(w, x)
       /\ Answered(s)' <=> Answered(s)
  BY <1>1, <1>7, <1>8 DEF Wanted, Imports, Answered
<1>11. SweepFits(w)'
  BY <1>0, <1>1, <1>2, <1>3, <1>6, <1>7, <1>8, <1>10 DEF SweepFits, Created, Same
<1> QED
  BY <1>1, <1>2, <1>3, <1>4, <1>5, <1>6, <1>7, <1>9, <1>11, SweepSteps DEF Created

LEMMA RecordKeeps ==
  ASSUME SweepInvariant, NEW w \in SweepIds, RecordSource(w) PROVE SweepInvariant'
<1> DEFINE j == SweepJob(w)
           good == work[j].result = "ok"
           row == [sweep[w] EXCEPT !.progress[Provider[work[j].source]] =
                     IF good THEN "completed" ELSE "failed"]
           new == [NoWork EXCEPT !.phase = "between", !.todo = work[j].todo, !.tried = TRUE,
                                 !.good = work[j].good \/ good]
<1>0. /\ QueueTyped /\ RowsTyped /\ SweepFits(w) /\ WorkFits(j) /\ j \in Named
      /\ sweep[w] \in SweepRow /\ work[j] \in WorkRow
  BY JobsAre DEF SweepInvariant, RowsTyped
<1>1. work[j].phase = "recording" /\ UNCHANGED <<queueVars, conn, imported, hollow, request, dropped>>
  BY DEF RecordSource
<1>2. /\ QueueTyped' /\ (\A k \in Named : Same(k))
  BY <1>0, <1>1 DEF queueVars, QueueTyped, Same
<1>3. PICK s \in Sources : /\ s = work[j].source /\ s \in Wanted(w) /\ Provider[s] \in ProviderIds
                           /\ good => Answered(s)
  BY <1>0, <1>1, JobsAre DEF WorkFits, SweepFits
<1>4. Created(w) /\ status[j] = "running"
  BY <1>0, <1>1 DEF SweepFits, WorkFits
<1>5. sweep' = [sweep EXCEPT ![w] = row]
  BY <1>0 DEF RecordSource, RowsTyped
<1>6. work' = [work EXCEPT ![j] = new]
  BY DEF RecordSource
<1>7. new \in WorkRow /\ new.phase = "between" /\ new.todo = work[j].todo
  BY <1>0, RestTyped DEF WorkRow, NoWork
<1>8. /\ row \in SweepRow /\ row.status = sweep[w].status /\ row.scope = sweep[w].scope
      /\ \A p \in ProviderIds : row.progress[p] = "completed" =>
           sweep[w].progress[p] = "completed" \/ (p = Provider[s] /\ good)
  BY <1>0, <1>3 DEF SweepRow, Progress
<1> HIDE DEF row, new, good
<1>9. sweep'[w] = row /\ work'[j] = new
  BY <1>0, <1>5, <1>6 DEF RowsTyped
<1>10. WorkFits(j)'
  BY <1>0, <1>2, <1>4, <1>7, <1>9 DEF WorkFits, Same
<1>11. Wanted(w)' = Wanted(w) /\ \A x \in Sources : Imports(w, x)' <=> Imports(w, x)
  BY <1>1, <1>8, <1>9 DEF Wanted, Imports, Answered
<1>12. good => Imports(w, s)'
  BY <1>3, <1>11 DEF Imports
<1>13. SweepFits(w)'
  BY <1>0, <1>1, <1>2, <1>3, <1>4, <1>7, <1>8, <1>9, <1>11, <1>12 DEF SweepFits, Created, Same
<1> QED
  BY <1>1, <1>2, <1>4, <1>5, <1>6, <1>7, <1>8, <1>10, <1>13, SweepSteps DEF Created

LEMMA EndSweepKeeps ==
  ASSUME SweepInvariant, NEW w \in SweepIds, EndSweep(w) PROVE SweepInvariant'
<1> DEFINE j == SweepJob(w)
           end == Outcome(work[j].tried, work[j].good)
           row == [sweep[w] EXCEPT !.status = end]
           new == [NoWork EXCEPT !.phase = "ended"]
<1>0. /\ QueueTyped /\ RowsTyped /\ SweepFits(w) /\ WorkFits(j) /\ j \in Named /\ sweep[w] \in SweepRow
  BY JobsAre DEF SweepInvariant, RowsTyped
<1>1. work[j].phase = "between" /\ UNCHANGED <<queueVars, conn, imported, hollow, request, dropped>>
  BY DEF EndSweep
<1>2. /\ QueueTyped' /\ (\A k \in Named : Same(k))
  BY <1>0, <1>1 DEF queueVars, QueueTyped, Same
<1>3. Created(w) /\ status[j] = "running"
  BY <1>0, <1>1 DEF SweepFits, WorkFits
<1>4. sweep' = [sweep EXCEPT ![w] = row] /\ work' = [work EXCEPT ![j] = new]
  BY <1>0 DEF EndSweep, RowsTyped
<1>5. new \in WorkRow /\ new.phase = "ended" /\ new.todo = {}
  BY RestTyped DEF WorkRow, NoWork
<1>6. end \in {"completed", "failed"}
  BY DEF Outcome
<1> HIDE DEF end
<1>7. /\ row \in SweepRow /\ row.status = end /\ row.scope = sweep[w].scope
      /\ row.progress = sweep[w].progress
  BY <1>0, <1>6 DEF SweepRow
<1> HIDE DEF row, new
<1>8. sweep'[w] = row /\ work'[j] = new
  BY <1>0, <1>4 DEF RowsTyped
<1>9. WorkFits(j)'
  BY <1>0, <1>2, <1>3, <1>5, <1>8 DEF WorkFits, Same
<1>10. Wanted(w)' = Wanted(w) /\ \A x \in Sources : Imports(w, x)' <=> Imports(w, x)
  BY <1>1, <1>7, <1>8 DEF Wanted, Imports, Answered
<1>11. SweepFits(w)'
  BY <1>0, <1>2, <1>3, <1>5, <1>6, <1>7, <1>8, <1>10 DEF SweepFits, Created, Same
<1> QED
  BY <1>1, <1>2, <1>3, <1>4, <1>5, <1>6, <1>7, <1>9, <1>11, SweepSteps

LEMMA FinishSweepKeeps ==
  ASSUME SweepInvariant, NEW w \in SweepIds, FinishSweep(w) PROVE SweepInvariant'
<1> DEFINE j == SweepJob(w)
<1>1. j \in Named /\ SweepsOf(j) = {w} /\ SweepFits(w) /\ dropped \in SUBSET SweepIds
  BY JobsAre DEF SweepInvariant, SweepsOf, RowsTyped
<1>2. sweep[w].status # "running"
  BY <1>1 DEF FinishSweep, SweepFits
<1> QED
  BY <1>1, <1>2, EndsKeep DEF FinishSweep

LEMMA CronKeeps ==
  ASSUME SweepInvariant, NEW s \in Sources, Cron(s) PROVE SweepInvariant'
<1> DEFINE n == CronJob(s)
           t == SyncTask(s, NoSweep)
<1>1. n \in Named /\ n \in SyncJobs /\ t \in Sources \X (SweepIds \cup {NoSweep})
  BY JobsAre DEF SyncTask
<1>2. t \in Tasks /\ QueueTyped
  BY <1>1, SweepConstants DEF SweepInvariant
<1>3. EnqueueNamed({n}, [k \in {n} |-> t]) /\ UNCHANGED sweepVars
  BY DEF Cron
<1> HIDE DEF n, t
<1>4. /\ QueueTyped'
      /\ \A k \in Named : Same(k) \/ (k = n /\ status[k] = "absent" /\ status'[k] = "queued"
                                             /\ task'[k] = t)
  BY <1>1, <1>2, <1>3, Enqueued
<1>5. \A k \in Named : work'[k] = work[k] /\ (Same(k) \/ Enters(k))
  BY <1>1, <1>3, <1>4, JobsAre DEF Enters, sweepVars
<1>6. /\ RowsTyped' /\ Monotone /\ \A w \in SweepIds : sweep'[w] = sweep[w]
      /\ \A q \in Requests : request'[q] = request[q]
  BY <1>3 DEF SweepInvariant, RowsTyped, Monotone, Answered, Created, sweepVars
<1>7. \A x \in Sources : ConnFits(x)'
  BY <1>3, ConnStays DEF SweepInvariant, sweepVars
<1> QED
  BY <1>4, <1>5, <1>6, <1>7, RestStays, {} \in SUBSET Named, {} \in SUBSET SweepIds,
     {} \in SUBSET Requests

LEMMA ReconnectKeeps ==
  ASSUME SweepInvariant, NEW s \in Sources, Reconnect(s) PROVE SweepInvariant'
<1>0. conn[s].status = "error"
  BY DEF Reconnect
<1>1. conn' = [conn EXCEPT ![s].status = "connected"]
      /\ UNCHANGED <<queueVars, imported, hollow, sweep, request, work, dropped>>
  BY DEF Reconnect
<1>2. /\ QueueTyped' /\ \A k \in Named : work'[k] = work[k] /\ Same(k)
  BY <1>1 DEF SweepInvariant, queueVars, QueueTyped, Same
<1>3. conn' \in [Sources -> ConnRow]
      /\ \A x \in Sources : /\ conn'[x].cursor = conn[x].cursor
                           /\ conn'[x].backfilled = conn[x].backfilled
                           /\ conn[x].status = "absent" => conn'[x].status = "absent"
  BY <1>0, <1>1 DEF SweepInvariant, RowsTyped, ConnRow
<1>4. /\ RowsTyped' /\ Monotone /\ \A w \in SweepIds : sweep'[w] = sweep[w]
      /\ \A q \in Requests : request'[q] = request[q]
  BY <1>1, <1>3 DEF SweepInvariant, RowsTyped, Monotone, Answered, Created
<1>5. \A x \in Sources : ConnFits(x)'
  BY <1>1, <1>3, ConnStays DEF SweepInvariant
<1> QED
  BY <1>2, <1>4, <1>5, RestStays, {} \in SUBSET Named, {} \in SUBSET SweepIds,
     {} \in SUBSET Requests

LEMMA DisconnectKeeps ==
  ASSUME SweepInvariant, NEW s \in Sources, Disconnect(s) PROVE SweepInvariant'
<1>1. conn' = [conn EXCEPT ![s].status = "absent"]
      /\ UNCHANGED <<queueVars, imported, hollow, sweep, request, work, dropped>>
  BY DEF Disconnect
<1>2. /\ QueueTyped' /\ \A k \in Named : work'[k] = work[k] /\ Same(k)
  BY <1>1 DEF SweepInvariant, queueVars, QueueTyped, Same
<1>3. conn' \in [Sources -> ConnRow]
      /\ \A x \in Sources : /\ conn'[x].cursor = conn[x].cursor
                           /\ conn'[x].backfilled = conn[x].backfilled
                           /\ conn[x].status = "absent" => conn'[x].status = "absent"
  BY <1>1 DEF SweepInvariant, RowsTyped, ConnRow
<1>4. /\ RowsTyped' /\ Monotone /\ \A w \in SweepIds : sweep'[w] = sweep[w]
      /\ \A q \in Requests : request'[q] = request[q]
  BY <1>1, <1>3 DEF SweepInvariant, RowsTyped, Monotone, Answered, Created
<1>5. \A x \in Sources : ConnFits(x)'
  BY <1>1, <1>3, ConnStays DEF SweepInvariant
<1> QED
  BY <1>2, <1>4, <1>5, RestStays, {} \in SUBSET Named, {} \in SUBSET SweepIds,
     {} \in SUBSET Requests

-------------------------------------------------------------------------------
LEMMA SweepsStay == SweepInvariant /\ [Next]_vars => SweepInvariant'
<1> SUFFICES ASSUME SweepInvariant, [Next]_vars PROVE SweepInvariant'
  OBVIOUS
<1>1. CASE \E q \in Requests :
             \/ \E scope \in SUBSET Sources : FindCovering(q, scope)
             \/ \E w \in SweepIds : CreateSweep(q, w)
             \/ EnqueueSweep(q)
  BY <1>1, FindKeeps, CreateKeeps, EnqueueKeeps
<1>2. CASE \E j \in Named : CommitChunk(j) \/ HoldCursor(j) \/ SyncWithoutRow(j) \/ BreakSync(j)
                            \/ RaiseSync(j) \/ StartSync(j) \/ EndSync(j) \/ Kill(j) \/ GiveUp(j) \/ Expire(j)
  BY <1>2, CommitKeeps, HoldKeeps, WithoutRowKeeps, BreakKeeps, RaiseKeeps, StartSyncKeeps, EndSyncKeeps, DropKeeps, ExpireKeeps
<1>3. CASE \E w \in SweepIds :
             \/ StartSweep(w) \/ RecordSource(w) \/ EndSweep(w) \/ FinishSweep(w)
             \/ \E s \in Sources : BeginSource(w, s)
  BY <1>3, StartSweepKeeps, RecordKeeps, EndSweepKeeps, FinishSweepKeeps, BeginKeeps
<1>4. CASE \E s \in Sources : Cron(s) \/ Reconnect(s) \/ Disconnect(s)
  BY <1>4, CronKeeps, ReconnectKeeps, DisconnectKeeps
<1>5. CASE UNCHANGED vars
  <2>1. UNCHANGED <<status, tries, task, conn, imported, hollow, sweep, request, work, dropped>>
    BY <1>5 DEF vars, queueVars, sweepVars
  <2>2. QueueTyped' /\ RowsTyped' /\ Monotone /\ \A j \in Named : work'[j] = work[j] /\ Same(j)
    BY <2>1 DEF SweepInvariant, QueueTyped, RowsTyped, Monotone, Answered, Created, Same
  <2>3. \A s \in Sources : ConnFits(s)'
    BY <2>1, ConnStays DEF SweepInvariant
  <2> QED
    BY <2>1, <2>2, <2>3, RestStays, {} \in SUBSET Named, {} \in SUBSET SweepIds,
       {} \in SUBSET Requests
<1> QED
  BY <1>1, <1>2, <1>3, <1>4, <1>5 DEF Next

LEMMA InvariantHolds == Spec => []SweepInvariant
BY SweepsStart, SweepsStay, PTL DEF Spec

-------------------------------------------------------------------------------
\* The rows of the connections, sweeps and calls and the jobs keep their types.
THEOREM SweepTypesHold == Spec => []TypeOK
<1>1. SweepInvariant => TypeOK
  <2> SUFFICES ASSUME SweepInvariant PROVE TypeOK
    OBVIOUS
  <2>1. QueueTypeOK
    BY JobsAre DEF SweepInvariant, QueueTyped, QueueTypeOK, JobStatus
  <2>2. \A s \in Sources : conn[s].cursor <= Chunks[s] /\ imported[s] \subseteq 1..Chunks[s]
    BY DEF SweepInvariant, ConnFits
  <2> QED
    BY <2>1, <2>2 DEF SweepInvariant, RowsTyped, TypeOK, ConnRow, SweepRow, RequestRow, WorkRow
<1> QED
  BY <1>1, InvariantHolds, PTL

\* advance_sync stamps backfilled_at with the run that has no continuation: then every
\* chunk of the history is stored, whatever runs overlap and whatever cursor is last written.
\* The sources excepted, none of them with an opaque cursor, are those a run stamped that
\* held its cursor.
THEOREM BackfillIsWhole == Spec => []BackfilledIsWhole
<1>1. SweepInvariant => BackfilledIsWhole
  BY DEF SweepInvariant, ConnFits, BackfilledIsWhole
<1> QED
  BY <1>1, InvariantHolds, PTL

\* SweepsService.start: a call answers with a sweep that covers what it was asked for.
THEOREM SweepsCoverCalls == Spec => []AnsweredSweepCovers
<1>1. SweepInvariant => AnsweredSweepCovers
  BY DEF SweepInvariant, RequestFits, Covers, AnsweredSweepCovers
<1> QED
  BY <1>1, InvariantHolds, PTL

\* A sweep that says running is driven: its job is in the queue, or the queue dropped it.
THEOREM RunningSweepsAreDriven == Spec => []RunningIsDriven
<1>1. SweepInvariant => RunningIsDriven
  BY DEF SweepInvariant, SweepFits, RunningIsDriven
<1> QED
  BY <1>1, InvariantHolds, PTL

\* onboarding_sweep counts a provider as completed only where a chunk of one of its
\* connections within the scope is stored, or a run of it held its cursor or found no
\* row, across deaths and retries of the job.
THEOREM CompletedProvidersAreImported == Spec => []CompletedIsImported
<1>1. SweepInvariant => CompletedIsImported
  <2> SUFFICES ASSUME SweepInvariant, NEW w \in SweepIds, NEW p \in ProviderIds,
                      sweep[w].progress[p] = "completed"
               PROVE  \E s \in Sources :
                        /\ Provider[s] = p
                        /\ sweep[w].scope = {} \/ s \in sweep[w].scope
                        /\ imported[s] # {} \/ s \in hollow \/ conn[s].status = "absent"
    BY DEF CompletedIsImported
  <2>1. PICK s \in Sources : Provider[s] = p /\ Imports(w, s)
    BY DEF SweepInvariant, SweepFits
  <2> QED
    BY <2>1 DEF Imports, Wanted, Answered
<1> QED
  BY <1>1, InvariantHolds, PTL
===============================================================================
