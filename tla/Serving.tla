--------------------------------- MODULE Serving --------------------------------
(***************************************************************************)
(* What agents and the chat are answered from, and what keeps it fresh:    *)
(* the answers cached in Redis (pipeline/cache.py, SkillsService.query,    *)
(* BrainService.query), the vectors of the skills (reembed_skills) and the *)
(* index of their versions and evidence (brain_index_backfill).  Requests  *)
(* that change a skill read it, embed what it will say, commit from what   *)
(* they read, clear the cache and enqueue the reindexing, step by step.    *)
(***************************************************************************)
EXTENDS Naturals, FiniteSets

CONSTANTS
  Skills,
  Readers,      \* questions under way
  Writers,      \* requests that change a skill
  Jobs,         \* brain_index_backfill and reembed_skills jobs under way
  MaxVersion,   \* the bound on versions
  MaxWording,   \* the bound on the wordings of a trigger and of a rule
  MaxModel,     \* the bound on the embedding models configured one after another
  MaxDue        \* the bound on the backfills in the queue

ASSUME ServingConstants ==
  /\ Skills # {}
  /\ MaxVersion \in Nat \ {0} /\ MaxWording \in Nat \ {0}
  /\ MaxModel \in Nat \ {0} /\ MaxDue \in Nat \ {0}

VARIABLES
  skill,        \* skill[s]: the row
  history,      \* history[s]: the versions with a skill_versions row
  model,        \* settings.embedding_model
  cache,        \* cache[f]: the cached answer to a question, by facet
  reader,       \* reader[r]: a question under way
  writer,       \* writer[w]: a request that changes a skill
  chunk,        \* chunk[s][v]: the skill_version chunk of version v
  evidence,     \* the skills with evidence chunks
  due,          \* the brain_index_backfill jobs in the queue
  job,          \* job[j]: a job under way
  tainted,      \* facets whose entry outlived the clearing that should have removed it
  overlapped,   \* skills whose vector was made from columns that were rewritten
                \* between its reading and its commit
  unlabelled    \* skills whose reindexing was lost

vars == <<skill, history, model, cache, reader, writer, chunk, evidence, due, job,
          tainted, overlapped, unlabelled>>

Facets == {"query", "brain"}
Texts == 1..MaxWording
Given == 0..MaxWording          \* 0: the column is not given
Models == 1..MaxModel
Versions == 1..MaxVersion
Vector == [trigger: Texts, text: Texts, model: Models]
HeldRow == [skill: Skills, trigger: Texts, text: Texts]

\* An answer from the rule of a skill, or (text 0) from its evidence.
Answer == [skill: Skills, text: 0..MaxWording]
NoAnswer == [skill |-> CHOOSE s \in Skills : TRUE, text |-> MaxWording + 1]
NoChunk == [model |-> 0, current |-> FALSE]
NoReader == [phase |-> "idle", facet |-> "query", answer |-> NoAnswer, raced |-> FALSE]
FirstVector == [trigger |-> 1, text |-> 1, model |-> 1]
NoWriter == [phase |-> "idle", op |-> "edit", skill |-> NoAnswer.skill, trigger |-> 0, text |-> 0,
             vec |-> FirstVector, ver |-> 1, bare |-> FALSE, raced |-> FALSE]
NoJob == [op |-> "idle", plan |-> {}, cited |-> {}, held |-> {}, raced |-> {}, model |-> 1]

\* Approvals of the kinds new_decision, exception and policy_change or contradiction, and
\* a rule written by the reviewer.
Approvals == {"approve", "except", "revise"}
Publishing == Approvals \cup {"write"}
Numbering == {"except", "revise", "write"}
Operations == Publishing \cup {"edit", "delete", "reject"}

TypeOK ==
  /\ skill \in [Skills -> [status: {"draft", "review", "active", "deleted"}, trigger: Texts,
                           text: Texts, ver: Versions, vec: Vector]]
  /\ history \in [Skills -> SUBSET Versions]
  /\ model \in Models
  /\ cache \in [Facets -> Answer \cup {NoAnswer}]
  /\ reader \in [Readers -> [phase: {"idle", "missed", "holding"}, facet: Facets,
                             answer: Answer \cup {NoAnswer}, raced: BOOLEAN]]
  /\ writer \in [Writers -> [phase: {"idle", "ready", "copied", "committed", "cleared"},
                             op: Operations, skill: Skills, trigger: Given, text: Given,
                             vec: Vector, ver: Versions, bare: BOOLEAN, raced: BOOLEAN]]
  /\ chunk \in [Skills -> [Versions -> [model: 0..MaxModel, current: BOOLEAN]]]
  /\ evidence \in SUBSET Skills
  /\ due \in 0..MaxDue
  /\ job \in [Jobs -> [op: {"idle", "index", "reembed"}, plan: SUBSET (Skills \X Versions),
                       cited: SUBSET Skills, held: SUBSET HeldRow, raced: SUBSET Skills,
                       model: Models]]
  /\ tainted \in SUBSET Facets
  /\ overlapped \in SUBSET Skills /\ unlabelled \in SUBSET Skills

Init ==
  /\ skill = [s \in Skills |-> [status |-> "review", trigger |-> 1, text |-> 1,
                                ver |-> 1, vec |-> FirstVector]]
  /\ history = [s \in Skills |-> {}]
  /\ model = 1
  /\ cache = [f \in Facets |-> NoAnswer]
  /\ reader = [r \in Readers |-> NoReader]
  /\ writer = [w \in Writers |-> NoWriter]
  /\ chunk = [s \in Skills |-> [v \in Versions |-> NoChunk]]
  /\ evidence = {} /\ due = 0
  /\ job = [j \in Jobs |-> NoJob]
  /\ tainted = {} /\ overlapped = {} /\ unlabelled = {}

\* PUBLISHED_STATUSES of a row that is not deleted.
Published(s) == skill[s].status = "active"
Live(s) == skill[s].status # "deleted"

(***************************************************************************)
(* Questions.                                                              *)
(***************************************************************************)
\* _ensure_ready: the chat takes no question before a skill is published.
Ready(f) == f = "brain" => \E s \in Skills : Published(s)

\* A hit is answered from the cache; a miss goes on to embed the question.
Miss(r, f) ==
  /\ reader[r].phase = "idle" /\ Ready(f) /\ cache[f] = NoAnswer
  /\ reader' = [reader EXCEPT ![r].phase = "missed", ![r].facet = f]
  /\ UNCHANGED <<skill, history, model, cache, writer, chunk, evidence, due, job,
                 tainted, overlapped, unlabelled>>

\* What a search may find: a published skill, and for the chat the evidence of a skill
\* that is not deleted where no skill matches.
Found(f) ==
  {[skill |-> s, text |-> skill[s].text] : s \in {t \in Skills : Published(t)}}
  \cup IF f = "brain" THEN {[skill |-> s, text |-> 0] : s \in {t \in evidence : Live(t)}}
       ELSE {}

\* similar_skills and get, or _retrieve; the answer is put together with no transaction
\* open.
Retrieve(r, answer) ==
  /\ reader[r].phase = "missed" /\ answer \in Found(reader[r].facet)
  /\ reader' = [reader EXCEPT ![r].phase = "holding", ![r].answer = answer]
  /\ UNCHANGED <<skill, history, model, cache, writer, chunk, evidence, due, job,
                 tainted, overlapped, unlabelled>>

\* set_cached_search.
StoreAnswer(r) ==
  LET f == reader[r].facet
  IN /\ reader[r].phase = "holding"
     /\ cache' = [cache EXCEPT ![f] = reader[r].answer]
     /\ tainted' = IF reader[r].raced THEN tainted \cup {f} ELSE tainted \ {f}
     /\ reader' = [reader EXCEPT ![r] = NoReader]
     /\ UNCHANGED <<skill, history, model, writer, chunk, evidence, due, job,
                    overlapped, unlabelled>>

\* No match, an ungrounded answer, an outage of Redis or the end of the request:
\* nothing is cached.
DropAnswer(r) ==
  /\ reader[r].phase # "idle"
  /\ reader' = [reader EXCEPT ![r] = NoReader]
  /\ UNCHANGED <<skill, history, model, cache, writer, chunk, evidence, due, job,
                 tainted, overlapped, unlabelled>>

\* SEARCH_TTL_SECONDS.
Expire(f) ==
  /\ cache[f] # NoAnswer
  /\ cache' = [cache EXCEPT ![f] = NoAnswer]
  /\ tainted' = tainted \ {f}
  /\ UNCHANGED <<skill, history, model, reader, writer, chunk, evidence, due, job,
                 overlapped, unlabelled>>

(***************************************************************************)
(* Requests that change a skill.                                           *)
(***************************************************************************)
\* The column given, or the one of the row.
Or(given, old) == IF given = 0 THEN old ELSE given

\* A mutant: the vector is of the row as it is.
Unmerged(row, trigger, text) == [trigger |-> row.trigger, text |-> row.text, model |-> model]

\* skill_embedding_text of the columns given, merged with the row.
Merged(row, trigger, text) ==
  [trigger |-> Or(trigger, row.trigger), text |-> Or(text, row.text), model |-> model]

Embeds(k) == k.op \in {"revise", "write", "edit"}

\* The skill is read and what it will say is embedded, with no transaction open.  The
\* card of a contradiction gives a rule, the one that overrides open does not.
BeginWrite(w, op, s, trigger, text) ==
  /\ writer[w].phase = "idle"
  /\ Live(s)
  /\ CASE op = "revise" -> trigger = 0
       [] op = "write" -> trigger = 0 /\ text # 0
       [] op = "edit" -> trigger # 0 \/ text # 0
       [] OTHER -> trigger = 0 /\ text = 0
  /\ writer' = [writer EXCEPT ![w] =
       [NoWriter EXCEPT !.phase = "ready", !.op = op, !.skill = s, !.trigger = trigger,
                        !.text = text, !.vec = Merged(skill[s], trigger, text)]]
  /\ UNCHANGED <<skill, history, model, cache, reader, chunk, evidence, due, job,
                 tainted, overlapped, unlabelled>>

\* get_skill in the transaction that resolves the card, with no lock on the skill.  Only
\* a skill in review is demoted by the reject of its card.  A card without a rule confirms
\* the one copied.
Copy(w) ==
  LET s == writer[w].skill
  IN /\ writer[w].phase = "ready" /\ writer[w].op \in Publishing \cup {"reject"}
     /\ Live(s) /\ (writer[w].op = "reject" => skill[s].status = "review")
     /\ writer' = [writer EXCEPT ![w].phase = "copied", ![w].ver = skill[s].ver,
                                 ![w].bare = history[s] = {},
                                 ![w].text = IF writer[w].op = "revise" THEN Or(@, skill[s].text) ELSE @]
     /\ UNCHANGED <<skill, history, model, cache, reader, chunk, evidence, due, job,
                    tainted, overlapped, unlabelled>>

\* An approval of a skill that is gone changes nothing of it and goes on.
ApproveGone(w) ==
  /\ writer[w].phase = "ready" /\ writer[w].op \in Approvals /\ ~Live(writer[w].skill)
  /\ writer' = [writer EXCEPT ![w].phase = "committed"]
  /\ UNCHANGED <<skill, history, model, cache, reader, chunk, evidence, due, job,
                 tainted, overlapped, unlabelled>>

StatusAfter(op, status) ==
  IF status = "deleted" \/ op = "delete" THEN "deleted"
  ELSE CASE op = "edit" -> status
         [] op = "reject" -> "draft"
         [] OTHER -> "active"

\* The row a request leaves: the columns it gives, with the vector it made, and the
\* version after the one it copied, whatever the row's is by now.
RowAfter(k, row) ==
  [status |-> StatusAfter(k.op, row.status),
   trigger |-> Or(k.trigger, row.trigger),
   text |-> Or(k.text, row.text),
   ver |-> IF k.op \in Numbering THEN k.ver + 1 ELSE row.ver,
   vec |-> IF Embeds(k) THEN k.vec ELSE row.vec]

\* insert_skill_version, and _ensure_v1_baseline where none was recorded.
NewVersions(k) ==
  CASE k.op = "approve" -> {k.ver}
    [] k.op \in {"except", "revise"} -> {k.ver + 1} \cup (IF k.bare THEN {k.ver} ELSE {})
    [] k.op = "write" -> {k.ver + 1}
    [] OTHER -> {}

\* A reject clears nothing: it is meant for a skill that is not published.
Clears(op) == op # "reject"

\* The facets that answer from s.
Serving(s) == {f \in Facets : cache[f] # NoAnswer /\ cache[f].skill = s}

\* The commit of k rewrites a column that other has embedded as it read it.
Outdates(k, other) ==
  /\ other.phase \in {"ready", "copied"} /\ other.skill = k.skill /\ Embeds(other)
  /\ (k.trigger # 0 /\ other.trigger = 0) \/ (k.text # 0 /\ other.text = 0)

HeldBy(j) == {row.skill : row \in job[j].held}

\* An edit and a delete address rows that are not deleted; a review does not look.
CommitWrite(w) ==
  LET k == writer[w]
      s == k.skill
  IN /\ IF k.op \in {"edit", "delete"} THEN k.phase = "ready" /\ Live(s) ELSE k.phase = "copied"
     /\ k.op \in Numbering => k.ver < MaxVersion
     /\ skill' = [skill EXCEPT ![s] = RowAfter(k, @)]
     /\ history' = [history EXCEPT ![s] = @ \cup NewVersions(k)]
     /\ writer' = [v \in Writers |->
          IF v # w THEN [writer[v] EXCEPT !.raced = @ \/ Outdates(k, writer[v])]
          ELSE IF Clears(k.op) THEN [NoWriter EXCEPT !.phase = "committed", !.op = k.op, !.skill = s]
          ELSE NoWriter]
     /\ reader' = [r \in Readers |->
          IF reader[r].phase = "holding" /\ reader[r].answer.skill = s
          THEN [reader[r] EXCEPT !.raced = TRUE] ELSE reader[r]]
     /\ tainted' = IF Clears(k.op) THEN tainted ELSE tainted \cup Serving(s)
     /\ job' = [j \in Jobs |->
          IF Embeds(k) /\ s \in HeldBy(j) THEN [job[j] EXCEPT !.raced = @ \cup {s}] ELSE job[j]]
     /\ overlapped' = IF ~Embeds(k) THEN overlapped
                      ELSE IF k.raced THEN overlapped \cup {s} ELSE overlapped \ {s}
     /\ UNCHANGED <<model, cache, chunk, evidence, due, unlabelled>>

\* The request fails before its commit: the row is gone, or the card is resolved.
FailWrite(w) ==
  /\ writer[w].phase \in {"ready", "copied"}
  /\ writer' = [writer EXCEPT ![w] = NoWriter]
  /\ UNCHANGED <<skill, history, model, cache, reader, chunk, evidence, due, job,
                 tainted, overlapped, unlabelled>>

\* A mutant: the pattern of the scan names one facet.
OneFacet == [cache EXCEPT !["query"] = NoAnswer]

\* invalidate_skills: every key of the workspace, whatever its facet.
Cleared == [f \in Facets |-> NoAnswer]

ClearCache(w) ==
  /\ writer[w].phase = "committed"
  /\ cache' = Cleared
  /\ tainted' = {}
  /\ writer' = [writer EXCEPT ![w] =
       IF @.op \in Publishing THEN [@ EXCEPT !.phase = "cleared"] ELSE NoWriter]
  /\ UNCHANGED <<skill, history, model, reader, chunk, evidence, due, job,
                 overlapped, unlabelled>>

\* Redis is out: the request goes on.
MissClearing(w) ==
  /\ writer[w].phase = "committed"
  /\ tainted' = tainted \cup Serving(writer[w].skill)
  /\ writer' = [writer EXCEPT ![w] =
       IF @.op \in Publishing THEN [@ EXCEPT !.phase = "cleared"] ELSE NoWriter]
  /\ UNCHANGED <<skill, history, model, cache, reader, chunk, evidence, due, job,
                 overlapped, unlabelled>>

\* schedule_reindex.
ScheduleReindex(w) ==
  /\ writer[w].phase = "cleared" /\ due < MaxDue
  /\ due' = due + 1
  /\ writer' = [writer EXCEPT ![w] = NoWriter]
  /\ UNCHANGED <<skill, history, model, cache, reader, chunk, evidence, job,
                 tainted, overlapped, unlabelled>>

\* The process dies after its commit, or the enqueue is lost.
DieWriting(w) ==
  /\ writer[w].phase \in {"committed", "cleared"}
  /\ tainted' = IF writer[w].phase = "committed"
                THEN tainted \cup Serving(writer[w].skill) ELSE tainted
  /\ unlabelled' = IF writer[w].op \in Publishing
                   THEN unlabelled \cup {writer[w].skill} ELSE unlabelled
  /\ writer' = [writer EXCEPT ![w] = NoWriter]
  /\ UNCHANGED <<skill, history, model, cache, reader, chunk, evidence, due, job,
                 overlapped>>

(***************************************************************************)
(* brain_index_backfill.                                                   *)
(***************************************************************************)
\* list_version_index_rows: the recorded versions of a published skill, or the row
\* itself where none is.
IndexRows(s) == IF history[s] = {} THEN {skill[s].ver} ELSE history[s]

\* list_fresh_chunk_keys.
FreshChunk(s, v) == chunk[s][v].model = model

\* list_evidence_rows: what reviews quote of published skills.
Quoted == {s \in Skills : Published(s)}

StartIndex(j, force) ==
  /\ job[j].op = "idle" /\ due > 0
  /\ due' = due - 1
  /\ job' = [job EXCEPT ![j] =
       [NoJob EXCEPT !.op = "index", !.model = model, !.cited = Quoted,
          !.plan = {p \in Skills \X Versions :
                      /\ Published(p[1]) /\ p[2] \in IndexRows(p[1])
                      /\ force \/ ~FreshChunk(p[1], p[2])}]]
  /\ UNCHANGED <<skill, history, model, cache, reader, writer, chunk, evidence,
                 tainted, overlapped, unlabelled>>

\* A mutant: only what this job embedded is current.
PlannedIsCurrent(s, v, plan) == v = skill[s].ver /\ <<s, v>> \in plan

\* A mutant: the labels are those of the plan, and of the upserts alone.
Unsynced(s, v, plan) == IF <<s, v>> \in plan THEN v = skill[s].ver ELSE chunk[s][v].current

\* sync_skill_version_current, against the version of the row at that moment.
IsCurrent(s, v, plan) == v = skill[s].ver

\* upsert_skill_version_chunk.
Upserted(j, s, v) == IF <<s, v>> \in job[j].plan THEN job[j].model ELSE chunk[s][v].model

\* upsert_evidence_chunk: evidence is never removed.
WithEvidence(cited) == evidence \cup cited

\* One transaction: the upserts, then the labels of every chunk.
CommitIndex(j) ==
  /\ job[j].op = "index"
  /\ chunk' = [s \in Skills |-> [v \in Versions |->
       [model |-> Upserted(j, s, v),
        current |-> Upserted(j, s, v) # 0 /\ IsCurrent(s, v, job[j].plan)]]]
  /\ evidence' = WithEvidence(job[j].cited)
  /\ unlabelled' = {}
  /\ job' = [job EXCEPT ![j] = NoJob]
  /\ UNCHANGED <<skill, history, model, cache, reader, writer, due, tainted, overlapped>>

\* One text that cannot be embedded fails the whole job, as its timeout does.
FailIndex(j) ==
  /\ job[j].op = "index"
  /\ unlabelled' = Skills
  /\ job' = [job EXCEPT ![j] = NoJob]
  /\ UNCHANGED <<skill, history, model, cache, reader, writer, chunk, evidence, due,
                 tainted, overlapped>>

\* Someone enqueues a backfill by hand.
Backfill ==
  /\ due < MaxDue
  /\ due' = due + 1
  /\ UNCHANGED <<skill, history, model, cache, reader, writer, chunk, evidence, job,
                 tainted, overlapped, unlabelled>>

(***************************************************************************)
(* reembed_skills.                                                         *)
(***************************************************************************)
\* The deployment configures another model.
Rotate ==
  /\ model < MaxModel
  /\ model' = model + 1
  /\ UNCHANGED <<skill, history, cache, reader, writer, chunk, evidence, due, job,
                 tainted, overlapped, unlabelled>>

\* list_stale_embeddings.
Stale(s) == Live(s) /\ skill[s].vec.model # model

StartReembed(j, force) ==
  /\ job[j].op = "idle"
  /\ job' = [job EXCEPT ![j] =
       [NoJob EXCEPT !.op = "reembed", !.model = model,
          !.held = {[skill |-> s, trigger |-> skill[s].trigger, text |-> skill[s].text] :
                      s \in {t \in Skills : Stale(t) \/ (force /\ Live(t))}}]]
  /\ UNCHANGED <<skill, history, model, cache, reader, writer, chunk, evidence, due,
                 tainted, overlapped, unlabelled>>

\* skill_embedding_text of what was read.
VectorOf(row, m) == [trigger |-> row.trigger, text |-> row.text, model |-> m]

\* set_embedding, whatever became of the row; a text that could not be embedded is left.
CommitReembed(j, done) ==
  /\ job[j].op = "reembed" /\ done \subseteq HeldBy(j)
  /\ skill' = [s \in Skills |->
       IF s \in done
       THEN [skill[s] EXCEPT !.vec =
               VectorOf(CHOOSE row \in job[j].held : row.skill = s, job[j].model)]
       ELSE skill[s]]
  /\ overlapped' = (overlapped \ done) \cup (done \cap job[j].raced)
  /\ job' = [job EXCEPT ![j] = NoJob]
  /\ UNCHANGED <<history, model, cache, reader, writer, chunk, evidence, due,
                 tainted, unlabelled>>

-------------------------------------------------------------------------------
Next ==
  \/ \E r \in Readers :
       \/ \E f \in Facets : Miss(r, f)
       \/ \E answer \in Answer : Retrieve(r, answer)
       \/ StoreAnswer(r) \/ DropAnswer(r)
  \/ \E f \in Facets : Expire(f)
  \/ \E w \in Writers :
       \/ \E op \in Operations, s \in Skills, trigger, text \in Given :
            BeginWrite(w, op, s, trigger, text)
       \/ Copy(w) \/ ApproveGone(w) \/ CommitWrite(w) \/ FailWrite(w) \/ ClearCache(w) \/ MissClearing(w)
       \/ ScheduleReindex(w) \/ DieWriting(w)
  \/ \E j \in Jobs :
       \/ \E force \in BOOLEAN : StartIndex(j, force) \/ StartReembed(j, force)
       \/ CommitIndex(j) \/ FailIndex(j)
       \/ \E done \in SUBSET HeldBy(j) : CommitReembed(j, done)
  \/ Backfill \/ Rotate

Spec == Init /\ [][Next]_vars

-------------------------------------------------------------------------------
\* A cached answer states the rule of a skill that is published with that very text, or
\* the evidence of one that is not deleted; save while the request that changed it has
\* not cleared the cache yet, where its clearing was lost, where the answer had been
\* retrieved before the change and was stored after it, or where a late reject took the
\* skill down.  No order of the other steps serves a superseded rule.
Stands(answer) ==
  IF answer.text = 0 THEN Live(answer.skill)
  ELSE Published(answer.skill) /\ skill[answer.skill].text = answer.text
CachedAnswerStands ==
  \A f \in Facets : cache[f] # NoAnswer =>
    \/ Stands(cache[f]) \/ f \in tainted
    \/ \E w \in Writers : writer[w].phase = "committed" /\ writer[w].skill = cache[f].skill

\* What brain_index_backfill promises of the labels of chunks (sync_skill_version_current):
\* a chunk is labelled current if and only if it is of the version in force, or else it is
\* about to be relabelled: a reindexing is to be enqueued by the request that moved the
\* version, queued or running, or it was lost.  An approval that commits from a stale copy
\* takes the version back to one whose chunk says superseded, and that too is relabelled.
Relabelled(s) ==
  \/ s \in unlabelled \/ due > 0
  \/ \E j \in Jobs : job[j].op = "index"
  \/ \E w \in Writers : /\ writer[w].skill = s /\ writer[w].op \in Publishing
                        /\ writer[w].phase \in {"committed", "cleared"}
LabelsFollowVersions ==
  \A s \in Skills, v \in Versions :
    chunk[s][v].model # 0 /\ chunk[s][v].current # (v = skill[s].ver) => Relabelled(s)

\* The vector of a skill is of its trigger and its rule as they are (SkillsService.update,
\* the two phases of ReviewsService, reembed_skills), unless it was committed after a
\* column it had taken from the row, and not from the request, was rewritten.
VectorOfText ==
  \A s \in Skills : Live(s) =>
    \/ skill[s].vec.trigger = skill[s].trigger /\ skill[s].vec.text = skill[s].text
    \/ s \in overlapped
===============================================================================
