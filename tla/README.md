# A verification of the company brain

TLA+ modules, TLC configurations and TLAPS proofs about the program in `src/`: a
FastAPI service and an ARQ worker (`src/brain-api`) that read a company's Slack,
Jira, GitHub, Notion, Zendesk and Google events, extract decision rules ("skills") from
them with LLM calls, put each before a human reviewer, and serve the published ones to
agents; and a Go plugin (`src/plugin`) that reports agent runs to it. Postgres holds
the state, Redis the job queue, rate limits and a search cache.

The service is many short transactions under READ COMMITTED that read rows without
locking them, call an LLM, an embedder or a provider with no transaction open, and
write later from what they read. Most of what can go wrong lies between such a read
and such a write, or between a commit and the enqueue that should follow it. That is
what the modules keep: every read, lock, commit, enqueue, crash and retry is a step of
its own; texts, scores and payloads are members of small sets.

## 1. Inventory

| component | source (`src/brain-api/app/...`) | state | operations | interacts with |
|---|---|---|---|---|
| review queue | `modules/reviews/` | `reviews`, `skills`, `skill_versions` | approve, bulk approve, reject, write, resolve a contradiction | rows shared with all writers of skills; embedder; search cache |
| skill writer | `pipeline/stages/skill_writer.py`, `pipeline/repository.py` | the same rows | new skill, update, exception, contradiction, duplicate | called by the orchestrator in its commit transaction |
| skills service | `modules/skills/` | the same rows, `agent_interactions` | create, edit, delete, submit, query, override | dashboard, agents, MCP server |
| event ingestion | `modules/webhooks/`, `jobs/tasks/webhook_ingest.py` | `source_events` | insert once, enqueue after the commit | providers, ARQ |
| extraction runs | `pipeline/orchestrator.py`, `jobs/tasks/extract_event.py` | `source_events.outcome/processed/attempts` | read, LLM stages, finalize, dead-letter | LLMs; writes skills and reviews in the same transaction |
| source sync, crons | `source_sync.py`, `poll_sync.py`, `reconcile_push_sync.py`, `reconcile_events.py`, `queue.py`, `worker.py` | `source_connections.last_synced_at/sync_cursor`; ARQ jobs | pull since a cursor, chain a backfill, poll, reconcile | providers, Redis |
| connectors | `integrations/` | none | fetch since a cursor, page through a backfill | providers |
| sweeps | `modules/sweeps/`, `onboarding_sweep.py`, `sweep_extract.py` | `sweeps` | start, import every source, extract in paced batches | ARQ, `source_sync` |
| sources, tokens | `modules/sources/`, `jobs/token_helper.py` | `source_connections`, `oauth_states` | authorize, connect, disconnect, pick channels, refresh | providers |
| Google watches | `jobs/tasks/google_watch.py` | `webhook_subscriptions` | register, renew daily, revoke | Google, disconnect |
| search cache | `pipeline/cache.py` | Redis keys per workspace | get, set, invalidate after a commit | skills service, reviews, chat |
| brain index, chat | `modules/brain/`, `brain_index_backfill.py` | `brain_chunks`, conversations, messages | reindex, retrieve, stream an answer, store the turn | ARQ, LLM |
| re-embedding | `jobs/tasks/reembed_skills.py` | `skills.embedding`, its model | move every row to a new model | embedder, index |
| auth | `modules/auth/` | `refresh_tokens`, `oauth_states` | sign up and in, rotate, replay, sign out | every request |
| members, API keys | `modules/members/`, `modules/api_keys/`, `shared/middleware/authenticate.py` | `invitations`, `api_keys`, a cache per process | invite within the seats, create, revoke, resolve | every agent request |
| runs, run gate | `modules/runs/`, `jobs/tasks/gate_run.py` | `agent_runs` | push, gate, deduplicate, cluster | plugin, ARQ |
| agent builder | `modules/agents/` | `agent_definitions`, `agent_connectors` | create, edit, add and remove connectors | Anthropic |
| Claude Code plugin | `src/plugin/` | a spool of files | capture, segment, flush | editor, runs API |
| tenancy | `shared/middleware/`, `config/database.py`, the policies of `alembic/versions/` | the settings of a transaction on a pooled connection | guard a route, set the context, decide what each statement reaches | every request, every table |
| decisions, dashboard | `modules/decisions/`, `modules/dashboard/` | rows of their own | list, aggregate | readers |
| rate limit | `shared/middleware/rate_limit.py` | Redis counters | count | every request |
| LLM clients, MCP server | `pipeline/llm/`, `mcp/server.py` | none | complete, embed, adapt | the outside |

What makes each correct, and where it is hard:

* **Review queue.** A card is resolved once, however approve, bulk approve, reject and
  write race; the version an agent is served stands in the history; overlapping batches
  do not wait for each other for ever. Hard because the card is locked and its skill is
  not.
* **Skill writer, skills service.** Nothing but an approval publishes; a skill has one
  decision card at most. Hard because every edit is a read, an embedding and a write.
* **Ingestion and extraction.** An event is stored once, whatever is delivered again;
  nothing stored is lost, whatever enqueue Redis swallows and whichever process dies;
  a settled event stays settled. Hard because the enqueue comes after the commit,
  `processed` is read before the LLM stages and not again, and jobs time out.
* **Source sync.** The cursor never passes an item that was not stored. Hard because
  containers are read one after another while items appear, each provider's query has
  another boundary, answers fail one by one, and a backfill comes in chunks.
* **Sweeps.** A sweep ends; a source read in chunks is not marked as backfilled before its
  last; the history is imported although a continuation reuses the id of the job that
  enqueues it. Hard because a run that stored nothing may return like one that did.
* **Cache, index, vectors.** After an invalidation no older answer comes back; the labels of
  the index follow the version in force; a vector is of the text beside it. Hard because
  each is computed from an earlier read, and so are the versions and the texts themselves.
* **Chat.** What was streamed is what is stored, whatever the pieces; a conversation is
  replayed in order.
* **Connections, watches.** The newest rotated token is the one that is kept; an App
  that others use stays installed; a watched source stays watched, one that is gone does
  not. Hard because a provider's state and the row change at different times.
* **Auth, members, keys.** A session does not fork; one that is over stays over; seats
  hold; a revoked key is refused in the end.
* **Run gate.** One trace counts once, one task has one cluster, every run is judged.
* **Agent builder.** No edit takes back another; the agent has the connectors shown.
* **Tenancy.** A request meets the rows of its caller and no others, whatever id it gives; a
  request that is let in can do what it was let in for. Hard because one connection serves
  every workspace in turn, and because guards and policies are written in two places.
* **Plugin spool.** What is shipped is whole, and a file that was read goes only when what
  was read of it is delivered.

## 2. Plan

In the order of what matters most to a user; all of it is built. Proofs are kept in eight
modules, one or two components to a module.

1. Review queue: `SkillStore`, `ReviewService`, `SkillWriter`, `SkillService`, composed by
   `ReviewQueue`; abstract `AuditLedger`; `ReviewQueueProofs`.
2. Event pipeline: `JobQueue`, `EventPipeline`; abstract `Inbox`; `EventPipelineProofs`.
3. Source sync: `Connectors`, `SourceSync`, `GoogleFeed`; `SourceSyncProofs`.
4. Sweeps over the same `JobQueue`: `Sweeps`; `SweepsProofs`.
5. The platform: `Connections`, `Watches` (`ConnectionsProofs`), `Sessions`, `Workspaces`
   (`AccessProofs`), `AgentBuilder` (`AgentsProofs`); composed for TLC by
   `MCPlatform`.
6. Serving: `Serving` and `Chat` (`ServingProofs`), composed by `MCServing`.
7. Agents' runs: the plugin's `Spool`, and `AgentRuns` (both in `AgentsProofs`).
8. Tenancy over all tables: `Policies`, `Routes`, `Tenancy` (`AccessProofs`).

What could come next: the slugs of new skills, and the chat's conversations as rows.

## 3. Which module models what

### Review queue

| module | code | correspondence |
|---|---|---|
| `SkillStore` | ORM rows and SQL of `pipeline/repository.py`, `reviews/repository.py`, `skills/repository.py` | `skills`, `versions`, `cards` are the three tables of one workspace; an operator per statement, as the row it leaves |
| `ReviewService` | `modules/reviews/service.py` | a request is `idle`, `prepared` (it read and embeds) or `locked` (it holds the card and a copy of the unlocked skill); commits write from the copy |
| `SkillWriter` | `skill_writer.py` and the routing of `orchestrator.py` | a job searches, then writes in a later transaction; the classifier's answer is free |
| `SkillService` | `modules/skills/service.py` | edits, submits and overrides between their read and their write |
| `ReviewQueue` | the whole | composes the four by interleaving; invariants, `FairSpec`, refinement mapping |
| `AuditLedger` | no code: the promise | cards, who resolved them, which approval wrote which history row, what is published |

Confidence counts in steps of 0.05, the amount one override takes off (20 is 1.0). It is a
float in the code, where 1.0 less 0.05 twice is below the auto-publish floor of 0.9, so the
floor is 19 here. A rule stands for a `base_logic` text; the actions block of a
skill is identified with the rule it was extracted for; a vector is the pair of texts
it embeds. Bulk approve prepares all its cards and then locks, writes and commits one at
a time, as the code does. `Abandon` is a failed embedding, a lost connection or a dead
process: an open transaction rolls back.

### Event pipeline

| module | code | correspondence |
|---|---|---|
| `JobQueue` | ARQ, external; `jobs/queue.py`, `WorkerSettings` | jobs by id: named ids are refused while known (queued, running, result kept), anonymous ones are fresh; `enqueue` swallows errors; a dead job is retried up to `MaxTries` |
| `EventPipeline` | `webhook_ingest.py`, `source_sync.py`, `extract_event.py`, `sweep_extract.py`, `reconcile_events.py`, `orchestrator.py` | `events` is `source_events`; `inserted` the ids a receiver committed and has not enqueued; `runs` the pipeline runs that passed the `processed` guard; `todo` the launch loop of a sweep; `listed` the rows the cron read and has not enqueued |
| `Inbox` | no code: the promise | stored once; a run starts only while nothing is recorded; only a run that started may record |

`Ingest` is one transaction of either ingesting job; `CrashReceiver` is the process
dying after it, and also the error path of `source_sync` that commits what was
inserted before the failing item and never enqueues it. `StartExtract` is the read of
the row; `EndRun` is `_finalize`, `_commit` or the dead letter, whichever outcome the LLM
stages (a free choice) lead to; `EndUnrecorded` is the dead letter failing too. "written"
stands for the outcomes that change skills or reviews. `Kill` is a dead worker or a
timeout while `gather` waits, which cancels the runs of the job, and maybe those of an
earlier try in the same process; `TimeoutLaunching` is a timeout in the paced launch
loop, which does not cancel the tasks it already created: they run on while the
job is retried. What a timeout does to the job is ARQ's affair: the comments of
`WorkerSettings` count on a retry, so `InterruptJob` allows the retry and the drop.
`ListStale` takes any oldest prefix of the queued rows: how many are past the grace window
is a matter of time, and time is abstracted. The count of what remains of a sweep and the
enqueue of its continuation are one step; a `_flush` of progress that raises ends the job
while the tasks it waited for go on. The re-run of failed events that a docstring of
`finalize_event` mentions is nowhere in the code, so nothing resets `processed` here.

### Source sync and sweeps

| module | code | correspondence |
|---|---|---|
| `Connectors` | `integrations/` | for each provider and class of answer (ok, 401, refused, rate-limited, 5xx, other): items, hold the cursor, skip the container, break the connection, fail; the boundary of the query (`Since`: `>` or `>=`); which list containers, honour a selection, or have webhooks |
| `SourceSync` | `source_sync.py` with slack, github, jira, notion, zendesk | a run reads the row, lists and reads containers one by one while items appear, then stores items and cursor in one transaction, or part of the items and no cursor; `ReadLate` is Jira's bound read in the wrong timezone |
| `GoogleFeed` | `source_sync.py` with gmail, google_drive | a cursor is nothing, a position, or a continuation with the position taken at its start and what it has left to list; deletions, dropped history, refused exports |
| `Sweeps` | `modules/sweeps/`, `onboarding_sweep.py`, the chain and the polling crons | the history of each connection, in chunks where the cursor is opaque, imported by the sweep's job, the chain's and the cron's, over `JobQueue`; a run stores a chunk, holds its cursor (`HoldCursor`, which marks the source as backfilled), finds no row, breaks the connection or fails |

`overlooked` in `SourceSync` names the items a cursor passed because they appeared in a
container the run had read already, at a time its query leaves out, or in a container
refused or not selected: the code cannot know of them, and the properties say that nothing
else is lost. A listing of Gmail or Drive is one atomic page here, and what is added later
does not join a listing under way; all items lie in the backfill's window. A file whose
content cannot be read (404, 5xx) is stored without it, as `_content` does. In `Sweeps` a
continuation enqueued by the chain's own job is refused by ARQ, which knows the id:
the backfill then waits for the cron, and `HistoryIsImported` says the cron is enough
(`HistoryComesIn` is the same where the run has crons). `hollow` names the sources with a
timestamp that were marked as backfilled by a run that held its cursor. The ids of cron jobs are bucketed by time in the code; here a source has one at a time.

### The platform

| module | code | correspondence |
|---|---|---|
| `Connections` | `modules/sources/service.py`, `token_helper.py`, `source_sync.py` | rows of several workspaces on one provider account; callbacks, disconnects, jobs and pickers between reading a token, refreshing it and storing it; `lost` and `raced` name the races the code does not exclude |
| `Watches` | `google_watch.py`, disconnect | rows, Google's channels with the end Google gave them and whether it told it, jobs between the opening and the row; a unit is half a day, a renewal comes every two |
| `Sessions` | `modules/auth/` | token rows with family, row locks, requests between check, lock, rotation and error; OAuth states |
| `Workspaces` | `modules/members/`, `modules/api_keys/`, `authenticate.py` | invitations counted and then inserted; keys resolved and remembered by each process |
| `AgentBuilder` | `modules/agents/` | the agent at Anthropic beside the row and the connectors; a call goes out with no transaction open and is stored afterwards, or never |

Only Jira's newest refresh token is valid (an assumption about Jira). Nothing is assumed of how
long Google keeps a channel, or that it says so: what ends in the window of 24 hours is listed,
the end of the window is outside it, and the next run comes 24 hours later. A delivery on a
channel no committed row knows is answered 401. A save of an agent carries the version the
dashboard saw or none (0), and may set a field to null. The agent builder's requests are those of the owner; that others are refused
is `Tenancy`'s.

### Tenancy

| module | code | correspondence |
|---|---|---|
| `Policies` | migrations 0007, 0017, 0020, 0025, 0028 | a record per policy: table, commands, roles, USING and WITH CHECK; `OutcomeOf` is what Postgres does with a statement under them: done, missed (it matches no row) or denied (an error) |
| `Routes` | the routers, and the repository calls of their services by transaction | a record per route: its guard, and its transactions as sequences of statements with what the service does on a miss (`go`, `leave` the rest of the transaction, `raise`) |
| `Tenancy` | `authenticate.py`, `authorize.py`, `with_tenant.py`, `database.py` | `pooled` is the connections with their transaction's settings, `visit` the requests, `todo` what is left of their transactions, `met` what they ran, on which row, to what end |

A row is what the policies look at: workspace, owner, soft deletion, publication. A request
names one row, any there is. `Perhaps` marks what the data decides on; what lies between
the transactions of a service is the other modules' matter. A message has the owner of its
conversation, a user's row the workspace of the membership it is seen through. The routes
before there is a workspace (sign-up, sign-in, accepting an invitation, OAuth callbacks,
webhooks) use the privileged pool and are not in the table, nor are jobs: they set the
context of their workspace with role admin.

### Serving, chat, runs and the plugin

| module | code | correspondence |
|---|---|---|
| `Serving` | `cache.py`, `SkillsService.query`, `BrainService`, `reembed_skills.py`, `brain_index_backfill.py` | a question is a miss, a retrieval and a store; a request that changes a skill reads it and embeds the columns it gives merged with those it read (`BeginWrite`), takes an unlocked copy in its last transaction (`Copy`), commits its columns, its vector and the version after the copy's, clears the cache, enqueues the reindexing; jobs hold the plan they read; `tainted`, `overlapped`, `unlabelled` name the races that are lost |
| `Chat` | `modules/brain/service.py`, `synthesizer.py`, `stream_parser.py`, `repository.py` | the parser fed in pieces of any length, escapes and surrogates included; the judgement at the head and at the end; the turn as two rows with the time of their transaction |
| `AgentRuns` | `modules/runs/`, `gate_run.py` | a push upserts and is handed off or not; a gate job reads, compares, places and marks, each a statement that sees what is committed by then; `overlapped` is the tasks on which another verdict or push came between a gate's reading and its mark |
| `Spool` | `src/plugin/internal/` | a journal of records, lines too long for any reader among them, hooks that read it and append later, a flusher with its lock, its tries, its sidecar of runs answered, and its three steps of retention (read, look at the age, remove); `Day` lets a file age under whatever is under way, as a machine that sleeps does |

`MC*` modules instantiate and compose: `MCSourceSync`, `MCPlatform`, `MCWorker`, `MCServing`
and `MCSpool` choose in the initial state, by the variable `focus`, which part moves. The
parts composed this way share no state that changes, so nothing is hidden by moving one at a
time, and one run checks them all. `MCServing` and `MCSpool` have several projections of one
system, because their product is too large: of the serving, the cache, the labels and the
vectors; of the spool, parallel capture without faults, delivery with them, and retention,
where a second turn follows while the file of the first is about to be removed.

## 4. What is checked

| run | question | bounds | states |
|---|---|---|---|
| `queue_core` | recorded versions, one decision card, implements `AuditLedger` | 1 skill, 2 cards, 2 reviewers, 1 extraction job, 2 dashboard users, 2 overridden calls | 722,320 |
| `queue_liveness` | every request returns | 2 reviewers with batches of 2 cards | 58,474 |
| `pipeline_core` | at most two proposals, implements `Inbox` | 2 events, 1 anonymous job of 2 tries, or a sweep of 2 and its continuation | 843,206 |
| `pipeline_liveness` | every stored event gets an outcome | 2 events, 1 anonymous job, 1 try, sweeps of 1, cron batch of 1 | 130,084 |
| `source_sync` | what a cursor may pass; everything is stored in calm weather | 5+2 providers, 2 items in 2 containers, 3 seconds; 3 files in chunks of 1, one of them deleted or refused; one run at a time | 73,908 |
| `worker` | what must come to an end: sweeps, the import of history, verdicts on runs, revoked keys; backfilled is whole | 1 source of 2 chunks, or 1 with a timestamp, with 1 sweep, its job, the chain's and the cron's, and disconnects; or both sources in 1 sweep of 2 tries; 2 runs, 2 pushes, 2 gate jobs, the first of 2 tries; 1 key, 2 processes | 117,467 |
| `platform` | nine properties of sessions, invitations, connections, channels and agents; one trace counts once, one cluster; only own rows are met; what a guard admits the policies let through | 2 overlapping requests, 3 tokens and invitations, 2 workspaces, 3 versions of an agent of 2 fields, one of which may be null, 3 channels of 1 or 3 half-days, 5 half-days; 3 pushes and 3 gate jobs; of tenancy 1 request after another on 1 connection, 2 workspaces, 2 users, 3 roles, 5 sets of key scopes, every route, every row | 1,550,787 |
| `serving` | six properties of the cache, index, vectors and chat | 1 skill of up to 3 versions and 2 wordings, 2 models, 1 reader, 2 writers, 1 job; replies of 6 symbols in pieces of 2; 2 turns | 1,977,627 |
| `spool` | what is shipped is whole and not removed before | 2 turns, 2 parallel tools in the first and 1 in the second, 1 flusher of 2 tries and 1 that is locked out, 1 fault, 1 confirmation | 444,687 |
| `chat_order`, `carve_outs`, `override_reach` | see section 5 | the smallest that shows it | |

Each passing property has a mutant in `PROJECT.json`: an operator beside the one it
changes, with a mistake one could make there; TLC finds the property violated by it.

Why the bounds are enough. The races of the review queue are between two requests that
meet at one card or at two cards of one skill; a third request meets either of them
in the same way, and skills do not touch each other. Two cards let one request resolve
what another holds a stale copy of. Two overrides bring an approved skill below the floor,
where a card without a text is opened; the first finds no reviewer and no extraction at
work on it. Of the two dashboard users one creates and deletes while the other is between a
read and its write. In the pipeline, one event has at most two live
`extract_event` jobs (proved: one of its insertion, one named by the cron), so one
anonymous job and the cron's own give every overlap of an extraction with a re-extraction
or with a sweep; a second stands for the continuation of a sweep and is tried once; two tries give a retry beside the tasks a timeout left. In
`pipeline_liveness` a cron batch smaller than the number of events makes one event wait
behind the other. In the source sync two items in two containers give the item that appears
in a container already read while another moves the cursor; runs that overlap are covered
by the theorems, which hold for any number. Three files in chunks of one give a backfill with a
continuation of a continuation and a change during it; one file that is refused, deleted or
both meets every other of them. In `platform` two requests give each race
of two; three tokens a rotation of a rotation. In the chat six symbols hold an escape, a
surrogate pair and a symbol after it, cut anywhere. In the serving a request that gives a
rule and one that gives a trigger make each the stale half of the other, with two wordings of
both; three versions let an approval of a stale copy take the row back from the third to the
second. In a sweep of both sources one fails after the other was recorded and the job is run
again; the crons and chains, which import beside a sweep, are there with one source. Google's channels end
before the next daily run, just after its window, or as the code expects, and the first of
them alone has a short life or an end that is not told. In the spool two tools of one turn run in
parallel, and the second turn closes the first from another hook; the second flusher comes
while the first has an answer to note, and finds the lock taken.

Of the tenancy one connection is handed from request to request of both workspaces,
after a commit, an error or a cancellation; the settings are local to the transaction
(`with_tenant.py:5`), so that Postgres resets them, which the model takes as given; requests at once hold different connections,
and the theorem is for any number of both. Of the gate jobs one is interrupted and retried:
a retry is one more reading of the run, later than the others.

The bounds are: `Anonymous` (jobs without a `_job_id`), `Calls`, `Visits`, `Cards`, `Skills`,
`MaxTime`, `MaxToken`, `MaxVersion`, `MaxWording`, `MaxModel`, `MaxDue`, `MaxText`, `MaxPiece`, `MaxChannel`,
`MaxPushes`, `MaxDones`, `MaxFaults`, `SweepIds`, `Tokens`, `Invites`; the rest are parameters of the
program. `SYMMETRY` is used only for safety, over sets of ids nothing orders; in `MCSourceSync`
files are added in their order, jobs of the gate and in `MCReviewQueue` calls are used in
theirs, which is the same by hand; in `queue_core` the bounds of `MCReviewQueue` are a `CONSTRAINT`.
Redaction and the embedder fail for one payload only. In `worker`,
where liveness is checked, the constants are smaller: calls of a sweep ask for what the first asked
for, a sync that dies is dropped and not given up later, and no sync job runs beside the sweep of
both sources.

Deadlock is checked in the review queue, where a request can always come. Elsewhere
it is not: once every event is settled and every id, version or token is used up, the
system is done.

Fairness. *Review queue*: strong fairness of each request's next step, because the event
loop resumes every request and Postgres grants a row lock to its waiters in turn; nothing
is assumed of new requests, jobs or users. *Pipeline*: the cron reads while something is
queued, a kept result expires, a job out of tries is dropped (weak); the cron gets through
to Redis now and then, a queued job of an event is started if it is queued again and again,
and a run that starts again and again is once neither cancelled nor unable to record how
it ended (strong). Without the last the code promises nothing: a database that refuses
every write keeps every event queued. *Source sync*: in the end nothing fails any more
(`Calm`, `Untroubled`; what Google makes fail for good still does), the polling cron starts
runs, a run goes on and the user reconnects what is broken. The code retries from where it was, so
what is checked is that no earlier failure is for ever. *Sweeps*: the crons tick, the worker
takes and continues jobs, and a provider asked again and again, by whichever job, answers once. *Keys*: a lookup is
stored and its entry expires. *Spool*: sessions go on to start flushers, a
flusher goes on, and the server answers once if asked again and again. *Runs*: a push ends
and the worker runs what is queued. Nothing is assumed of users, providers or processes
beyond this; an enqueue after a commit may always be lost.

## 5. What the code does not do

Three runs that TLC must find violated, each a finding in `PROJECT.json`:

* `ReplayIsChatOrder`: `list_messages` orders by `created_at`, and the question and the answer
  of a turn carry the same, that of their transaction. Postgres may return the answer first.
* `CarveOutsOnlyGrow`: of two overlapping exception approvals the later commit drops the
  carve-outs of the earlier (`apply_exception` writes the whole list from an unlocked read).
* `OverrideReachesSkill`: an override reported by a viewer, as every API key is, marks its
  interaction and changes no skill, because the policy for writing skills asks for an
  editor; no review is opened, and a retry is a no-op (`skills/service.py:470`).

Other disagreements met while modelling. The models contain them, as the exceptions the
properties name (`overlooked`, `lost`, `raced`, `crowded`, `slipped`, `overtaken`, `crossed`,
`halted`, `late`, `missed`, `unjudged`, `outrun`, `tainted`, `overlapped`, `unlabelled`, `shared`, `hollow`, `forced`, `brief`, `untold`) or as choices, and no
run is spent on them:

* A submit reuses whatever card is open, also one being resolved (`skills/service.py:282`);
  two overrides of one interaction both count (`:450`); approving an override's card wipes the
  clauses of the rule it keeps (`reviews/service.py:62`); a reject may demote a skill another request has just published.
* An edit or an approval embeds the columns it gives merged with those of an earlier read, and
  writes only those it gives (`skills/service.py:217-236`, `reviews/service.py:387-413`):
  overlapping ones leave a vector of a text the row never had.
* An approval of a stale copy takes the version of its skill back (`reviews/service.py:452`,
  `:475`, `:507`), to one whose chunk is labelled superseded until the reindexing it enqueues.
* A slow first extraction and the cron's re-extraction both write
  (`docs/phase-3-extraction-changes.md:218` calls re-runs idempotent).
* A run that holds its cursor returns as one that succeeded (`slack.py:415-422`), and
  `source_sync.py:131-133` stamps `backfilled_at` on what may be no history at all. A run of a
  connection that is missing or has no token is skipped without an error
  (`source_sync.py:70-72`), and the sweep records the provider as completed
  (`onboarding_sweep.py:106-107`); of two connections of one provider the later overwrites the entry.
  No run asks again: the cron goes on from the cursor that was held.
* A sweep job one of whose flushes raises ends while the tasks it has started go on
  (`sweep_extract.py`, a `gather`).
* Jira: when the site's time zone cannot be read the bound of the query is written in UTC
  (`jira.py:302-316`), which for a user west of it is hours later than the cursor; the minute the
  docstring counts on does not make up for it.
* Tokens: two refreshes at once lose the rotated token of one (`token_helper.py:35`).
* Watches: a reconnect leaves several active subscriptions of a source, and a registration
  that overlaps a disconnect an orphan. The daily cron (`worker.py:85`) renews what ends within 24
  hours (`google_watch.py:32`, `:83`) with nothing to spare: what ends just past its window is
  out when the next run comes, until that run reaches it. A channel without `expires_at` is
  never renewed, and Drive is not asked for an expiration (`google_drive.py:263-275`).
* Agents: publishing an agent that another user has published is an error of the statement
  (USING passes, WITH CHECK does not) and a 500, where the repository expects that no row
  matches and the service answers 404 (`agents/repository.py:200`).
* Google: a Gmail message deleted before it is read fails every run until Gmail drops the
  history that names it; a Drive file whose export answers 403 breaks the connection
  each time; a 5xx on a file's content stores it without text for good.
* Runs: identical traces pushed at once both become duplicates of each other
  (`runs/repository.py:185`, `:223`); an overtaken gate leaves a verdict on the earlier push; a lost
  hand-off is never made good (`runs/service.py:14` says "gated later").
* Agent builder: overlapping connector changes leave one stored and undeclared; an edit that
  was not stored makes every versioned edit after it answer 409; an edit without a version is
  applied unconditionally (`agents/schemas.py:103-106`) and takes back what others had accepted; an
  explicit null clears the column (`schemas.py:13-16`) and is not sent to Anthropic
  (`anthropic_client.py:157-158`), which goes on with the old value.
* Spool: a hook may append between a flusher's read, its look at the age and the removal
  (`flush.go:96-98`), and a machine may sleep there: an unsent turn goes with the file. A line of
  more than 4 MB makes every read stop with an error (`spool.go:105`): the flush skips the file for good
  (`flush.go:63-67`) and hooks see nothing after it. A run the server refuses (4xx) goes to
  the sidecar too, as `flush.go:116` says, where `spool.go:155` and `flush.go:28` say only after a
  2xx; "answered" below is either.
* Invitations: an expired one blocks inviting again, where the docstring of migration 0009
  says otherwise.
* Overview: the import health counts `source_connections`, which only an admin's context
  sees, so to others every workspace seems to have no source. `Narrower` in `Tenancy` names
  this and the override, the two places where a policy is narrower than its guard.
* Chat: an unknown conversation is refused only after the answer was streamed.
* Rate limits: a process that dies between INCR and EXPIRE leaves a counter without an end.

## 6. What is proved

For every value of the constants (any number of skills, requests, events, jobs, tries, items,
runs, workspaces, tokens, sweeps, sources, agents, users, connections, turns, flushers), with TLAPS:

| theorem | statement |
|---|---|
| `QueueIsConsistent`, `TypesHold` | the inductive invariant and the types of the review queue |
| `PublishedVersionsAreRecorded` | a published skill's version label has a history row |
| `DecisionCardsAreUnique` | one open decision card per skill |
| `RewritesHaveVectors` | phase 2 of a rewriting approval holds phase 1's vector |
| `LedgerIsImplemented` | the review queue implements `AuditLedger` |
| `PipelineIsConsistent`, `PipelineTypesHold` | the inductive invariant and the types of the pipeline |
| `ProposalsAreBounded` | at most two proposals of an event outside a sweep |
| `InboxIsImplemented` | the pipeline implements `Inbox` |
| `SyncIsConsistent`, `SyncTypesHold` | the inductive invariant and the types of the source sync |
| `NothingElseIsLost` | a timestamp cursor passes only what is stored or escaped the run |
| `ZendeskExportIsComplete` | Zendesk's passes only what is stored |
| `FeedTypesHold`, `FeedLosesNothing` | Gmail's and Drive's cursors pass only what is stored or deleted |
| `SweepTypesHold`, `BackfillIsWhole` | a source marked as backfilled has its whole history, but for a run with a timestamp that held its cursor |
| `SweepsCoverCalls` | the sweep a call is answered with covers it |
| `RunningSweepsAreDriven` | a running sweep has a job, or the queue dropped it |
| `CompletedProvidersAreImported` | a completed provider has a chunk stored, or a run that held its cursor, or a connection that is gone |
| `ConnectionTypesHold`, `NewestTokenStays` | the newest token is kept, about to be, or lost with its holder |
| `AppStaysInstalled` | the App stays while a workspace uses it, but for one race |
| `AuthorizationsConnectOnce` | an OAuth state connects once |
| `WatchTypesHold`, `WatchedStayWatched` | a subscription no renewal of which was missed has an open channel, or is being renewed at its end, or Google gave it less than a day or did not tell its end |
| `GoneAreUnwatched` | a source that is gone has no subscription but for a late registration |
| `SessionTypesHold`, `TokensDoNotFork` | one live refresh token per family |
| `EndedAreOver` | a family that was ended has no live token, but for one race |
| `StatesGrantOnce` | an OAuth state signs in once |
| `SeatsAreHeld` | seats and pending invitations stay within the limit, but for stale counts |
| `OverbookingIsBounded` | a workspace is overbooked by fewer seats than there are admins at it |
| `TenancyTypesHold`, `TenantsAreApart` | no statement reaches a row its caller has no business with |
| `AdmittedWork` | what a guard admits on the caller's own rows, the policies let it do, but for two routes |
| `RunTypesHold`, `EvidenceIsCountedOnce` | two runs of an agent with one trace are not both eligible |
| `OneClusterHolds` | the runs of one task share a cluster unless gates of it overlapped |
| `BuilderTypesHold`, `SavesSurvive` | an accepted save takes back no other, but for two cases |
| `ConnectorsMatch` | the agent runs with the connectors stored, unless their changes cross |
| `ServingTypesHold`, `CacheStands` | a cached answer states what its skill says, but for the races named |
| `LabelsFollow` | a chunk is labelled current if and only if it is of the version in force, or a relabelling is on its way or was lost |
| `VectorsAreOfTheirText` | a vector is of the trigger and rule beside it, unless committed after a column it took was rewritten |
| `ChatTypesHold`, `PiecesAreJoined` | a streamed reply decodes to the same text however it is cut |
| `ShownStays` | what a browser watched arrive is what is stored |
| `TurnsAreWhole` | turns that overlap are read back one by one |
| `SpoolStands` | types; what the sidecar notes was answered; a stored outcome is that of the stored steps |
| `ConfirmsOneTurn` | a confirmation closes one turn unless two hooks saw its marker |
| `RemovedWasDelivered` | retention removes no file with a run the server has not answered, but for turns written to after the flusher's read |
| `RunsShipWhole` | a stored run has the calls from before its close, in their order, but for races on a number |

Assumptions: those named in the modules. The nulls are not values; `NoCall` is no call, `NoVisitor` no request; named
and anonymous job ids are apart; `MaxTries`, batch sizes, chunks and the clock are positive; the
events, files, members and admins are finitely many (counts need it); the distance of two
tasks is 0 if and only if they are the same, so that a run matches the cluster of its own
task exactly; there is a skill, an agent, an MCP server; a container is given for each item;
a message is not a tool.

The arguments.

`QueueInvariant`. That a published version is recorded is not inductive: an approval
commits from a copy of the skill that may be old. What saves it is that a label other
than the first was left by a resolution, which recorded it (`MovedVersionRecorded`), that
a skill still at its first label was at it in every copy a request holds (`CopyIsOlder`),
and that cards are about skills that exist. The vector needs `VectorIsReady`: only a skill
deleted before the peek has none, and a deleted skill never comes back. The refinement
needs the row locks to be exclusive and a locked card to be pending.

`PipelineInvariant`. The bound on proposals follows from a count: outside a sweep the
finalizes an event has had and the runs under way on it are two at most. To start a
third run there would have to be a third job, and there are only the job of the
insertion (`OneExtractJob`: only the inserting transaction learns the id) and the
cron's (refused while known), each with one run per try (`RunsBelongToJobs`), and a run
only starts while nothing is recorded. Events of a sweep are outside the bound: orphaned
tasks and retries of a sweep may add runs without limit.

`SyncInvariant` adds that a run accounts for every item (`RunsAccount`): what its starting
cursor has passed is stored or overlooked, and what appeared since is in what it got, in a
container it still has to read, or among what it missed; a run that skipped a container for
want of an answer is held. `ExportInvariant` adds what is special about Zendesk: its one
query is inclusive, so that what a run missed is no older than its newest.

`FeedInvariant`. The position of a cursor, and of every run, is covered (`Covered`): what
came up to it is stored, deleted, or in what is left of the listing. It is preserved because the
position is taken before the first page (`TakenFirst`).

`SweepInvariant`. What each row, call and job holds fits the tables: a cursor of a run or a
row has only chunks before it that are stored (`ConnFits`, `WorkFits`), a sweep's row fits
its job's status (`SweepFits`), and what a call was answered with stays in scope
(`RequestFits`) since scopes never change.

`ConnectionInvariant` counts the holders of a workspace's newest token and the disconnects
that are past their count of other users of the App (`InstallFits`, `TokenFits`), and that
an authorization has one callback under way, which is past its consumption
(`CallbacksAlone`).

`WatchInvariant`: every active subscription no renewal of which was missed lasts at least to the
next renewal that will find it (`Lasting`), and a channel just opened outlives its job
(`JustOpened`). Both count a channel with a short life as one of a day (`Until`), since the cron
finds it as late as that; of one that does not tell its end nothing is claimed.

`TokenInvariant`: a refresh holds the lock of the token it presented, which is not revoked
while the refresh may still rotate it (`RequestsHold`); a family has one token that is
not revoked; and what an ending request saw of a family bounds what may have slipped by it
(`EndersSee`, `LogoutSees`).

`SeatInvariant`: a call of invite_member that has counted and not inserted leaves a seat
unless another has made its count stale (`CountsLeaveASeat`). `OverbookingBounded` counts
what no lock protects: the seats taken and the calls that have counted stay below the limit
and the admins together, because each call inserts once and the next count sees its row.

`EvidenceInvariant` (the runs): two runs that count, in their rows or by a verdict on its
way, share no trace (`ClaimsApart`), because a gate compares what it read with the rows that
are there, and what it read is the row unless a push came after (`GatesHaveRead`).
`ClusterInvariant`: every run of a cluster is one the search finds (`ClustersAreSearched`),
and the place a gate has chosen is the cluster of every other run of its task
(`GatesPlace`), but for the tasks on which gates overlapped. TLC found the first form of
this false with three runs of two tasks: a gate that overlaps leaves the task of the row it
writes overlapped as well as its own, and `Mark` says so.

`EditsInvariant` (the agent builder): the row has every accepted edit, or lacks the one a
save under way carries, or the one that was lost, and then no dashboard has seen the last
version (`RowWhole`, `OneEditOut`, `EditLost`), unless one without a version went over them; a save that will pass Anthropic's version
check has read the last edits (`EditsAreFresh`). `ToolsInvariant`: the tools at Anthropic are
the connectors stored, give or take the one change under way (`ChangeUnderWay`).

`AnswersInvariant` (serving): a question holds an answer that stands unless its skill
changed since it was retrieved (`AnswersHeldStand`). `LabelsInvariant`: that labels follow
the versions needs no strengthening but the types, since it already names every way a relabelling
is under way or lost. `VectorsInvariant`: what a job or a request holds to store is of the row as
it is, or as the columns given will leave it, unless a commit has rewritten it since
(`TextsHeldFollow`, `VectorsMadeFollow`).

`ChatInvariant`: what a request has decoded is what `Consume` makes of all that arrived
(`DecodesWhole`), and what it has shown is that or nothing (`ShowsDecoded`). The first rests
on `Resuming`: decoding a part and going on from where that ended is decoding the whole. A
character that is not held back reads nothing that has not arrived (`CharacterStays`), and
the rest is an induction from the end of the text (`FromTheEnd`), by which the recursive
function is shown to exist first (`DecoderExists`). Turns stay together because
transactions begin at different times, and a third row between the two of a turn would be a
third row of that turn.

`SpoolInductive`. A label fits the steps beside it because a hook has read all the steps of
the turns it is to close (`TodosFit`), a turn that is closed or awaited gets no more steps
unless it goes on (`StepsSteady`), and so the close record judges what `Assemble` will read
(`ClosesFit`). A run is whole because the open records of a turn have the numbers from 0 in
the order of the calls, and only the last message of the turn can share the next number with
a later step, which then replaces it (`OpensFollow`); it stays whole because a turn that is
queued or stored is closed or its file is gone (`ClosedOrGone`), so that no later close moves
`atClose`. Retention is safe because what was shippable in the part of
the file a flusher has read is answered, refused or in its queue, unless it has given up on a run
(`FlushersStand`), and it goes on to look at the age only with the queue empty and none given up;
what a hook has appended since is of a turn with a record that was not read, and a turn without
one is shippable now only if it was then.
Confirmations are counted: those of closed
turns, those that hooks hold, and the marker are never more than were given
(`ConfirmationsCounted`). What `InOrder` collects is proved by induction over its steps
(`WalkCollects`, `WalkAlong`), the walk being shown to exist first (`WalkExists`).

`TenancyInvariant`: a connection that is taken has the settings of the request that holds
it (`SettingsAreTheCalls`), a request holds one connection at most (`OneConnectionEach`), and
its workspace is its caller's (`CallersStand`). That settings confine rows is a lemma about
the policies alone (`PoliciesConfine`), table by table.

`Admission`, beside it: what is left of a request's transactions is on the menu of its route
under its role (`TodoFits`), a menu being the statements that a policy of their own and, where
a row is read back, one for SELECT grant the role. That is first a fact about two tables that
are written apart, proved router by router from the policies (`ReaderMenu`, `EditorMenu`,
`AdminMenu`, `RoutesFine`); a statement on the menu then does its work on every live row of
the caller's own (`PermittedWorks`), whatever else runs. The two exceptions are those of
`Narrower`; TLC checked `TodoFits` on the states of `platform` before the proof.

Only model-checked: liveness (`RequestsReturn`, `EventsAreExtracted`,
`ArrivalsAreStored`, `RunningSweepsEnd`, `HistoryIsImported`, `RevokedIsForgotten`,
`SpoolDrainsInDelivery`, `RunsAreJudged`), since fairness and ENABLED are out of the prover's
reach, and the three claims of section 5, which are false. Every invariant of the runs is
stated by a theorem. No module
has a recursive operator: the parser of `Chat` and the walks of `Spool` are recursive
functions. Proved and not run: the types, the inductive
invariants, `RewriteHasVector`, `OneSessionPerState`, `OneConnectPerState`, `AnsweredSweepCovers`,
`RunningIsDriven` and `CompletedIsImported`.

## 7. What is not modelled

* The components marked `not_modelled` in `PROJECT.json`: rate limiting (one counter), LLM clients (free choices), the MCP
  server (an adapter without state).
* Reads, lists, exports and aggregates of the modelled components, which change nothing.
* Slugs and names (two extractions that pick one free name), the order of search results,
  confidence as more than its steps.
* Conversations as rows (renaming, deleting), archiving an agent and testing it, changing a
  member's role, creating a workspace and its slug.
* Passwords, JWTs, webhook signatures, redaction, encryption of secrets.
* Splitting a turn of many steps into several runs (`build.go:36-42`): each is answered like one.
  The sidecar goes in one step with its file.
* The HNSW index of the clusters and chunks, which is taken to find the nearest.
* Normalising payloads, pages of one listing, and the parsing of provider dates.
* The plugin's classification of tools, its configuration and its `doctor`.
