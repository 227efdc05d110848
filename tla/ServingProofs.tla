------------------------------ MODULE ServingProofs ----------------------------
(***************************************************************************)
(* The cached answers, the vectors and the labels of the index, for any    *)
(* number of skills, questions, requests and jobs; and the streamed        *)
(* replies and the conversations of Chat.                                  *)
(***************************************************************************)
EXTENDS Serving, Chat, WellFoundedInduction, SequenceTheorems, FiniteSetTheorems, TLAPS

SkillRow == [status: {"draft", "review", "active", "deleted"}, trigger: Texts, text: Texts,
             ver: Versions, vec: Vector]
ReaderRow == [phase: {"idle", "missed", "holding"}, facet: Facets,
              answer: Answer \cup {NoAnswer}, raced: BOOLEAN]
WriterRow == [phase: {"idle", "ready", "copied", "committed", "cleared"}, op: Operations,
              skill: Skills, trigger: Given, text: Given, vec: Vector, ver: Versions,
              bare: BOOLEAN, raced: BOOLEAN]
ChunkRow == [model: 0..MaxModel, current: BOOLEAN]
JobRow == [op: {"idle", "index", "reembed"}, plan: SUBSET (Skills \X Versions),
           cited: SUBSET Skills, held: SUBSET HeldRow, raced: SUBSET Skills, model: Models]

StateTyped ==
  /\ skill \in [Skills -> SkillRow] /\ history \in [Skills -> SUBSET Versions]
  /\ model \in Models /\ cache \in [Facets -> Answer \cup {NoAnswer}]
  /\ reader \in [Readers -> ReaderRow] /\ writer \in [Writers -> WriterRow]
  /\ chunk \in [Skills -> [Versions -> ChunkRow]]
  /\ evidence \subseteq Skills /\ due \in 0..MaxDue /\ job \in [Jobs -> JobRow]
  /\ tainted \subseteq Facets /\ overlapped \subseteq Skills /\ unlabelled \subseteq Skills

LEMMA TypedState == TypeOK <=> StateTyped
BY DEF TypeOK, StateTyped, SkillRow, ReaderRow, WriterRow, ChunkRow, JobRow

LEMMA FirstValues ==
  /\ 1 \in Texts /\ 1 \in Models /\ 1 \in Versions /\ NoAnswer.skill \in Skills
  /\ FirstVector \in Vector
  /\ NoReader \in ReaderRow /\ NoWriter \in WriterRow /\ NoChunk \in ChunkRow /\ NoJob \in JobRow
<1>1. 1 \in Texts /\ 1 \in Models /\ 1 \in Versions
  BY ServingConstants DEF Texts, Models, Versions
<1>2. NoAnswer.skill \in Skills
  BY ServingConstants DEF NoAnswer
<1>3. NoReader \in ReaderRow
  BY DEF NoReader, ReaderRow, Facets
<1>4. FirstVector \in Vector
  BY <1>1 DEF FirstVector, Vector
<1>5. NoWriter \in WriterRow
  BY <1>1, <1>2, <1>4, ServingConstants DEF NoWriter, WriterRow, Operations, Given
<1>6. NoChunk \in ChunkRow /\ NoJob \in JobRow
  BY <1>1, ServingConstants DEF NoChunk, ChunkRow, NoJob, JobRow
<1> QED
  BY <1>1, <1>2, <1>3, <1>4, <1>5, <1>6

LEMMA TypesStart == Init => TypeOK
<1> SUFFICES ASSUME Init PROVE StateTyped
  BY TypedState
<1>1. [status |-> "review", trigger |-> 1, text |-> 1, ver |-> 1, vec |-> FirstVector] \in SkillRow
  BY FirstValues DEF SkillRow
<1>2. skill \in [Skills -> SkillRow] /\ due \in 0..MaxDue
  BY <1>1, ServingConstants DEF Init
<1> QED
  BY <1>2, FirstValues DEF Init, StateTyped

\* A column given, or that of the row, is a text.
LEMMA ColumnsAreTexts ==
  ASSUME NEW given \in Given, NEW old \in Texts
  PROVE  Or(given, old) \in Texts
BY ServingConstants DEF Or, Given, Texts

\* What a commit leaves of the row it addresses, field by field.
LEMMA WrittenRows ==
  ASSUME NEW k \in WriterRow, NEW row \in SkillRow, k.op \in Numbering => k.ver < MaxVersion
  PROVE  RowAfter(k, row) \in SkillRow /\ NewVersions(k) \subseteq Versions
<1>1. StatusAfter(k.op, row.status) \in {"draft", "review", "active", "deleted"}
  <2>1. row.status \in {"draft", "review", "active", "deleted"}
    BY DEF SkillRow
  <2> QED
    BY <2>1 DEF StatusAfter
<1>2. Or(k.trigger, row.trigger) \in Texts /\ Or(k.text, row.text) \in Texts
  BY ColumnsAreTexts DEF WriterRow, SkillRow
<1>3. k.ver \in Versions /\ (k.op \in Numbering => k.ver + 1 \in Versions)
  BY ServingConstants DEF WriterRow, Versions
<1>4. row.ver \in Versions /\ row.vec \in Vector /\ k.vec \in Vector
  BY DEF WriterRow, SkillRow
<1>5. RowAfter(k, row) \in SkillRow
  <2> DEFINE status == StatusAfter(k.op, row.status)
             trigger == Or(k.trigger, row.trigger)
             text == Or(k.text, row.text)
             ver == IF k.op \in Numbering THEN k.ver + 1 ELSE row.ver
             vec == IF Embeds(k) THEN k.vec ELSE row.vec
  <2>1. ver \in Versions /\ vec \in Vector
    BY <1>3, <1>4
  <2>2. RowAfter(k, row) = [status |-> status, trigger |-> trigger, text |-> text,
                            ver |-> ver, vec |-> vec]
    BY DEF RowAfter
  <2> HIDE DEF status, trigger, text, ver, vec
  <2>3. status \in {"draft", "review", "active", "deleted"} /\ trigger \in Texts /\ text \in Texts
    BY <1>1, <1>2 DEF status, trigger, text
  <2> QED
    BY <2>1, <2>2, <2>3 DEF SkillRow
<1>6. NewVersions(k) \subseteq Versions
  BY <1>3 DEF NewVersions, Numbering
<1> QED
  BY <1>5, <1>6

LEMMA TypesStay == TypeOK /\ [Next]_vars => TypeOK'
<1> SUFFICES ASSUME StateTyped, [Next]_vars PROVE StateTyped'
  BY DEF TypeOK, StateTyped, SkillRow, ReaderRow, WriterRow, ChunkRow, JobRow
<1>0. /\ skill \in [Skills -> SkillRow] /\ history \in [Skills -> SUBSET Versions]
      /\ model \in Models /\ cache \in [Facets -> Answer \cup {NoAnswer}]
      /\ reader \in [Readers -> ReaderRow] /\ writer \in [Writers -> WriterRow]
      /\ chunk \in [Skills -> [Versions -> ChunkRow]]
      /\ evidence \subseteq Skills /\ due \in 0..MaxDue /\ job \in [Jobs -> JobRow]
      /\ tainted \subseteq Facets /\ overlapped \subseteq Skills /\ unlabelled \subseteq Skills
  BY DEF StateTyped
<1>r. ASSUME NEW r \in Readers PROVE reader[r] \in ReaderRow /\ reader[r].facet \in Facets
                                     /\ reader[r].answer \in Answer \cup {NoAnswer}
  BY <1>0 DEF ReaderRow
<1>w. ASSUME NEW w \in Writers PROVE writer[w] \in WriterRow /\ writer[w].skill \in Skills
  BY <1>0 DEF WriterRow
<1>v. \A f \in Facets, s \in Skills : Serving(s) \subseteq Facets
  BY DEF Serving
\* A request goes on to its next phase, or ends.
<1>p. ASSUME NEW w \in Writers, NEW phase \in {"committed", "cleared"}, NEW b \in BOOLEAN,
             writer' = [writer EXCEPT ![w] = IF b THEN [@ EXCEPT !.phase = phase] ELSE NoWriter]
      PROVE  writer' \in [Writers -> WriterRow]
  <2>1. [writer[w] EXCEPT !.phase = phase] \in WriterRow
    BY <1>0 DEF WriterRow
  <2> QED
    BY <1>0, <1>p, <2>1, FirstValues
<1>1. ASSUME NEW r \in Readers, NEW f \in Facets, Miss(r, f) PROVE StateTyped'
  <2>1. reader' \in [Readers -> ReaderRow]
    BY <1>0, <1>1 DEF Miss, ReaderRow
  <2> QED
    BY <1>0, <1>1, <2>1 DEF Miss, StateTyped
<1>2. ASSUME NEW r \in Readers, NEW answer \in Answer, Retrieve(r, answer) PROVE StateTyped'
  <2>1. reader' \in [Readers -> ReaderRow]
    BY <1>0, <1>2 DEF Retrieve, ReaderRow
  <2> QED
    BY <1>0, <1>2, <2>1 DEF Retrieve, StateTyped
<1>3. ASSUME NEW r \in Readers, StoreAnswer(r) PROVE StateTyped'
  <2>1. reader' \in [Readers -> ReaderRow] /\ cache' \in [Facets -> Answer \cup {NoAnswer}]
        /\ tainted' \subseteq Facets
    BY <1>0, <1>3, <1>r, FirstValues DEF StoreAnswer
  <2> QED
    BY <1>0, <1>3, <2>1 DEF StoreAnswer, StateTyped
<1>4. ASSUME NEW r \in Readers, DropAnswer(r) PROVE StateTyped'
  <2>1. reader' \in [Readers -> ReaderRow]
    BY <1>0, <1>4, FirstValues DEF DropAnswer
  <2> QED
    BY <1>0, <1>4, <2>1 DEF DropAnswer, StateTyped
<1>5. ASSUME NEW f \in Facets, Expire(f) PROVE StateTyped'
  <2>1. cache' \in [Facets -> Answer \cup {NoAnswer}]
    BY <1>0, <1>5 DEF Expire
  <2> QED
    BY <1>0, <1>5, <2>1 DEF Expire, StateTyped
<1>6. ASSUME NEW w \in Writers, NEW op \in Operations, NEW s \in Skills, NEW trigger \in Given,
             NEW text \in Given, BeginWrite(w, op, s, trigger, text)
      PROVE  StateTyped'
  <2>1. Merged(skill[s], trigger, text) \in Vector
    <3>1. skill[s].trigger \in Texts /\ skill[s].text \in Texts
      BY <1>0 DEF SkillRow
    <3> QED
      BY <1>0, <3>1, ColumnsAreTexts DEF Merged, Vector
  <2>2. [NoWriter EXCEPT !.phase = "ready", !.op = op, !.skill = s, !.trigger = trigger,
                         !.text = text, !.vec = Merged(skill[s], trigger, text)] \in WriterRow
    BY <2>1, FirstValues DEF WriterRow
  <2>3. writer' \in [Writers -> WriterRow]
    BY <1>0, <1>6, <2>2 DEF BeginWrite
  <2> QED
    BY <1>0, <1>6, <2>3 DEF BeginWrite, StateTyped
<1>20. ASSUME NEW w \in Writers, Copy(w) PROVE StateTyped'
  <2>0. PICK s \in Skills : s = writer[w].skill
    BY <1>w
  <2> DEFINE text == IF writer[w].op = "revise" THEN Or(writer[w].text, skill[s].text)
                     ELSE writer[w].text
  <2>1. text \in Given
    <3>1. writer[w].text \in Given /\ skill[s].text \in Texts
      BY <1>0 DEF WriterRow, SkillRow
    <3>2. Or(writer[w].text, skill[s].text) \in Given
      BY <3>1, ServingConstants DEF Or, Given, Texts
    <3> QED
      BY <3>1, <3>2
  <2>2. writer' = [writer EXCEPT ![w] = [writer[w] EXCEPT !.phase = "copied", !.ver = skill[s].ver,
                                                          !.bare = (history[s] = {}), !.text = text]]
    BY <1>0, <1>20, <2>0 DEF Copy, WriterRow
  <2> HIDE DEF text
  <2>3. [writer[w] EXCEPT !.phase = "copied", !.ver = skill[s].ver, !.bare = (history[s] = {}),
                          !.text = text] \in WriterRow
    BY <1>0, <2>1 DEF WriterRow, SkillRow
  <2>4. writer' \in [Writers -> WriterRow]
    BY <1>0, <2>2, <2>3
  <2> QED
    BY <1>0, <1>20, <2>4 DEF Copy, StateTyped
<1>21. ASSUME NEW w \in Writers, ApproveGone(w) PROVE StateTyped'
  <2>1. writer' \in [Writers -> WriterRow]
    BY <1>0, <1>21 DEF ApproveGone, WriterRow
  <2> QED
    BY <1>0, <1>21, <2>1 DEF ApproveGone, StateTyped
<1>7. ASSUME NEW w \in Writers, CommitWrite(w) PROVE StateTyped'
  <2>0. PICK s \in Skills : s = writer[w].skill
    BY <1>w
  <2>k. PICK k \in WriterRow : k = writer[w]
    BY <1>w
  <2>1. RowAfter(k, skill[s]) \in SkillRow /\ NewVersions(k) \subseteq Versions
    BY <1>0, <1>7, <2>k, WrittenRows DEF CommitWrite
  <2>2. /\ skill' = [skill EXCEPT ![s] = RowAfter(k, @)]
        /\ history' = [history EXCEPT ![s] = @ \cup NewVersions(k)]
    BY <1>7, <2>0, <2>k DEF CommitWrite
  <2>3. skill' \in [Skills -> SkillRow] /\ history' \in [Skills -> SUBSET Versions]
    BY <1>0, <2>1, <2>2
  <2>4. writer' = [v \in Writers |->
          IF v # w THEN [writer[v] EXCEPT !.raced = @ \/ Outdates(k, writer[v])]
          ELSE IF Clears(k.op) THEN [NoWriter EXCEPT !.phase = "committed", !.op = k.op, !.skill = s]
          ELSE NoWriter]
    BY <1>7, <2>0, <2>k DEF CommitWrite
  <2>5. writer' \in [Writers -> WriterRow]
    <3>1. ASSUME NEW v \in Writers
          PROVE  [writer[v] EXCEPT !.raced = @ \/ Outdates(k, writer[v])] \in WriterRow
      <4> DEFINE b == writer[v].raced \/ Outdates(k, writer[v])
      <4>1. b \in BOOLEAN
        BY DEF Outdates, Embeds
      <4> HIDE DEF b
      <4>2. [writer[v] EXCEPT !.raced = b] \in WriterRow
        BY <1>0, <4>1 DEF WriterRow
      <4> QED
        BY <4>2 DEF b
    <3>2. [NoWriter EXCEPT !.phase = "committed", !.op = k.op, !.skill = s] \in WriterRow
      BY FirstValues DEF WriterRow
    <3> QED
      BY <2>4, <3>1, <3>2, FirstValues
  <2>6. \A r \in Readers : [reader[r] EXCEPT !.raced = TRUE] \in ReaderRow
    BY <1>0 DEF ReaderRow
  <2>7. reader' = [r \in Readers |->
          IF reader[r].phase = "holding" /\ reader[r].answer.skill = s
          THEN [reader[r] EXCEPT !.raced = TRUE] ELSE reader[r]]
    BY <1>7, <2>0 DEF CommitWrite
  <2>8. reader' \in [Readers -> ReaderRow]
    BY <1>r, <2>6, <2>7
  <2>9. tainted' \subseteq Facets /\ overlapped' \subseteq Skills
    BY <1>0, <1>7, <2>0 DEF CommitWrite, Serving
  <2>10. \A j \in Jobs : [job[j] EXCEPT !.raced = @ \cup {s}] \in JobRow
    BY <1>0 DEF JobRow
  <2>11. job' \in [Jobs -> JobRow]
    BY <1>0, <1>7, <2>0, <2>10 DEF CommitWrite
  <2> QED
    BY <1>0, <1>7, <2>3, <2>5, <2>8, <2>9, <2>11 DEF CommitWrite, StateTyped
<1>8. ASSUME NEW w \in Writers, FailWrite(w) PROVE StateTyped'
  <2>1. writer' \in [Writers -> WriterRow]
    BY <1>0, <1>8, FirstValues DEF FailWrite
  <2> QED
    BY <1>0, <1>8, <2>1 DEF FailWrite, StateTyped
<1>9. ASSUME NEW w \in Writers, ClearCache(w) PROVE StateTyped'
  <2>1. writer' \in [Writers -> WriterRow]
    BY <1>9, <1>0, <1>p DEF ClearCache
  <2>2. cache' \in [Facets -> Answer \cup {NoAnswer}]
    BY <1>9 DEF ClearCache, Cleared
  <2> QED
    BY <1>0, <1>9, <2>1, <2>2 DEF ClearCache, StateTyped
<1>10. ASSUME NEW w \in Writers, MissClearing(w) PROVE StateTyped'
  <2>1. writer' \in [Writers -> WriterRow] /\ tainted' \subseteq Facets
    BY <1>10, <1>0, <1>p DEF MissClearing, Serving
  <2> QED
    BY <1>0, <1>10, <2>1 DEF MissClearing, StateTyped
<1>11. ASSUME NEW w \in Writers, ScheduleReindex(w) PROVE StateTyped'
  <2>1. writer' \in [Writers -> WriterRow] /\ due' \in 0..MaxDue
    BY <1>0, <1>11, FirstValues, ServingConstants DEF ScheduleReindex
  <2> QED
    BY <1>0, <1>11, <2>1 DEF ScheduleReindex, StateTyped
<1>12. ASSUME NEW w \in Writers, DieWriting(w) PROVE StateTyped'
  <2>1. /\ writer' \in [Writers -> WriterRow] /\ tainted' \subseteq Facets
        /\ unlabelled' \subseteq Skills
    BY <1>0, <1>12, <1>w, FirstValues DEF DieWriting, Serving
  <2> QED
    BY <1>0, <1>12, <2>1 DEF DieWriting, StateTyped
<1>13. ASSUME NEW j \in Jobs, NEW force \in BOOLEAN, StartIndex(j, force) PROVE StateTyped'
  <2> DEFINE plan == {p \in Skills \X Versions :
                        /\ Published(p[1]) /\ p[2] \in IndexRows(p[1])
                        /\ force \/ ~FreshChunk(p[1], p[2])}
  <2>0. plan \subseteq Skills \X Versions /\ Quoted \subseteq Skills
    BY DEF Quoted
  <2>2. job' = [job EXCEPT ![j] = [NoJob EXCEPT !.op = "index", !.model = model, !.cited = Quoted,
                                                !.plan = plan]]
    BY <1>13 DEF StartIndex
  <2> HIDE DEF plan
  <2>1. [NoJob EXCEPT !.op = "index", !.model = model, !.cited = Quoted, !.plan = plan] \in JobRow
    BY <1>0, <2>0, FirstValues DEF JobRow
  <2>3. job' \in [Jobs -> JobRow] /\ due' \in 0..MaxDue
    BY <1>0, <1>13, <2>1, <2>2, ServingConstants DEF StartIndex
  <2> QED
    BY <1>0, <1>13, <2>3 DEF StartIndex, StateTyped
<1>14. ASSUME NEW j \in Jobs, NEW force \in BOOLEAN, StartReembed(j, force) PROVE StateTyped'
  <2> DEFINE held == {[skill |-> s, trigger |-> skill[s].trigger, text |-> skill[s].text] :
                        s \in {t \in Skills : Stale(t) \/ (force /\ Live(t))}}
  <2>0. held \subseteq HeldRow
    BY <1>0 DEF HeldRow, SkillRow
  <2>2. job' = [job EXCEPT ![j] = [NoJob EXCEPT !.op = "reembed", !.model = model, !.held = held]]
    BY <1>14 DEF StartReembed
  <2> HIDE DEF held
  <2>1. [NoJob EXCEPT !.op = "reembed", !.model = model, !.held = held] \in JobRow
    BY <1>0, <2>0, FirstValues DEF JobRow
  <2>3. job' \in [Jobs -> JobRow]
    BY <1>0, <2>1, <2>2
  <2> QED
    BY <1>0, <1>14, <2>3 DEF StartReembed, StateTyped
<1>15. ASSUME NEW j \in Jobs, CommitIndex(j) PROVE StateTyped'
  <2>1. ASSUME NEW s \in Skills, NEW v \in Versions PROVE Upserted(j, s, v) \in 0..MaxModel
    <3>1. job[j].model \in 0..MaxModel
      BY <1>0, ServingConstants DEF JobRow, Models
    <3>2. chunk[s][v].model \in 0..MaxModel
      BY <1>0 DEF ChunkRow
    <3> QED
      BY <3>1, <3>2 DEF Upserted
  <2>2. ASSUME NEW s \in Skills, NEW v \in Versions
        PROVE  [model |-> Upserted(j, s, v),
                current |-> Upserted(j, s, v) # 0 /\ IsCurrent(s, v, job[j].plan)] \in ChunkRow
    BY <2>1 DEF ChunkRow, IsCurrent
  <2>3. chunk' \in [Skills -> [Versions -> ChunkRow]]
    BY <1>15, <2>2 DEF CommitIndex
  <2>4. evidence' \subseteq Skills /\ job' \in [Jobs -> JobRow] /\ unlabelled' \subseteq Skills
    BY <1>0, <1>15, FirstValues DEF CommitIndex, WithEvidence, JobRow
  <2> QED
    BY <1>0, <1>15, <2>3, <2>4 DEF CommitIndex, StateTyped
<1>16. ASSUME NEW j \in Jobs, FailIndex(j) PROVE StateTyped'
  <2>1. job' \in [Jobs -> JobRow] /\ unlabelled' \subseteq Skills
    BY <1>0, <1>16, FirstValues DEF FailIndex
  <2> QED
    BY <1>0, <1>16, <2>1 DEF FailIndex, StateTyped
<1>17. ASSUME NEW j \in Jobs, NEW done \in SUBSET HeldBy(j), CommitReembed(j, done)
       PROVE  StateTyped'
  <2>1. job[j].held \subseteq HeldRow /\ job[j].model \in Models
    BY <1>0 DEF JobRow
  <2>2. ASSUME NEW s \in Skills, s \in done
        PROVE  VectorOf(CHOOSE row \in job[j].held : row.skill = s, job[j].model) \in Vector
    <3>1. (CHOOSE row \in job[j].held : row.skill = s) \in HeldRow
      BY <2>1, <2>2 DEF HeldBy
    <3> QED
      BY <2>1, <3>1 DEF VectorOf, Vector, HeldRow
  <2>3. ASSUME NEW s \in Skills, NEW v \in Vector PROVE [skill[s] EXCEPT !.vec = v] \in SkillRow
    BY <1>0 DEF SkillRow
  <2>4. skill' \in [Skills -> SkillRow]
    BY <1>0, <1>17, <2>2, <2>3 DEF CommitReembed
  <2>5. job' \in [Jobs -> JobRow] /\ overlapped' \subseteq Skills
    BY <1>0, <1>17, FirstValues DEF CommitReembed, JobRow
  <2> QED
    BY <1>0, <1>17, <2>4, <2>5 DEF CommitReembed, StateTyped
<1>18. CASE Backfill \/ Rotate
  <2>1. due' \in 0..MaxDue /\ model' \in Models
    BY <1>0, <1>18, ServingConstants DEF Backfill, Rotate, Models
  <2> QED
    BY <1>0, <1>18, <2>1 DEF Backfill, Rotate, StateTyped
<1>19. CASE UNCHANGED vars
  BY <1>0, <1>19 DEF vars, StateTyped
<1> QED
  BY <1>1, <1>2, <1>3, <1>4, <1>5, <1>6, <1>7, <1>8, <1>9, <1>10, <1>11, <1>12, <1>13, <1>14,
     <1>15, <1>16, <1>17, <1>18, <1>19, <1>20, <1>21
  DEF Next

\* Skills, cached answers, questions, requests, chunks and jobs are of their types.
THEOREM ServingTypesHold == Spec => []TypeOK
BY TypesStart, TypesStay, PTL DEF Spec

-------------------------------------------------------------------------------
\* A question holds an answer that stands, unless its skill changed since it was retrieved.
AnswersHeldStand ==
  \A r \in Readers : reader[r].phase = "holding" /\ ~reader[r].raced => Stands(reader[r].answer)

AnswersInvariant == TypeOK /\ AnswersHeldStand /\ CachedAnswerStands

LabelsInvariant == TypeOK /\ LabelsFollowVersions

\* What a reembed_skills holds is the text of the row, or a commit has outdated it since.
TextsHeldFollow ==
  \A j \in Jobs : \A row \in job[j].held :
    \/ row.skill \in job[j].raced
    \/ row.trigger = skill[row.skill].trigger /\ row.text = skill[row.skill].text

\* The vector a request goes to store is of the row as its columns will leave it, or a
\* commit has outdated it since; a request that embeds nothing gives no column.
VectorMadeFollows(k) ==
  k.phase \in {"ready", "copied"} =>
    /\ Embeds(k) /\ ~k.raced =>
         /\ k.vec.trigger = Or(k.trigger, skill[k.skill].trigger)
         /\ k.vec.text = Or(k.text, skill[k.skill].text)
    /\ ~Embeds(k) => k.trigger = 0 /\ k.text = 0

VectorsMadeFollow == \A w \in Writers : VectorMadeFollows(writer[w])
VectorsInvariant == TypeOK /\ TextsHeldFollow /\ VectorsMadeFollow /\ VectorOfText

-------------------------------------------------------------------------------
LEMMA AnswersStart == Init => AnswersInvariant
<1> SUFFICES ASSUME Init PROVE AnswersInvariant
  OBVIOUS
<1>1. TypeOK
  BY TypesStart
<1>2. AnswersHeldStand /\ CachedAnswerStands
  BY DEF Init, NoReader, AnswersHeldStand, CachedAnswerStands
<1> QED
  BY <1>1, <1>2 DEF AnswersInvariant

LEMMA AnswersStay == AnswersInvariant /\ [Next]_vars => AnswersInvariant'
<1> SUFFICES ASSUME AnswersInvariant, [Next]_vars PROVE AnswersHeldStand' /\ CachedAnswerStands'
  BY TypesStay DEF AnswersInvariant
<1>t. StateTyped
  BY TypedState DEF AnswersInvariant
<1>0. /\ skill \in [Skills -> SkillRow] /\ cache \in [Facets -> Answer \cup {NoAnswer}]
      /\ reader \in [Readers -> ReaderRow] /\ writer \in [Writers -> WriterRow]
      /\ job \in [Jobs -> JobRow] /\ tainted \subseteq Facets
  BY <1>t DEF StateTyped
<1>e. AnswersHeldStand /\ CachedAnswerStands
  BY DEF AnswersInvariant
<1>a. \A r \in Readers : reader[r] \in ReaderRow /\ reader[r].facet \in Facets
  BY <1>0 DEF ReaderRow
\* What stands goes on standing while no row changes but in its vector.
<1> DEFINE RowsKept == \A s \in Skills : /\ skill'[s].status = skill[s].status
                                         /\ skill'[s].text = skill[s].text
<1>b. ASSUME RowsKept, NEW a \in Answer, Stands(a) PROVE Stands(a)'
  BY <1>b DEF Answer, Stands, Live, Published
<1>n. NoAnswer.text # 0 /\ NoAnswer.skill \in Skills /\ NoAnswer.text \notin Texts
  BY ServingConstants, FirstValues DEF NoAnswer, Texts
\* An answer that stands is no NoAnswer.
<1>c. ASSUME RowsKept, UNCHANGED <<cache, tainted>>,
             \A w \in Writers : writer[w].phase = "committed" =>
                                writer'[w].phase = "committed" /\ writer'[w].skill = writer[w].skill
      PROVE  CachedAnswerStands'
  <2> SUFFICES ASSUME NEW f \in Facets, cache[f] # NoAnswer, f \notin tainted,
                      \A w \in Writers : ~(writer[w].phase = "committed" /\ writer[w].skill = cache[f].skill)
               PROVE  Stands(cache[f])'
    BY <1>c DEF CachedAnswerStands
  <2>1. Stands(cache[f]) /\ cache[f] \in Answer
    BY <1>0, <1>e DEF CachedAnswerStands
  <2>2. PICK a \in Answer : a = cache[f]
    BY <2>1
  <2> QED
    BY <1>b, <1>c, <2>1, <2>2
<1>d. ASSUME RowsKept,
             \A r \in Readers : reader'[r].phase = "holding" /\ ~reader'[r].raced =>
               reader[r].phase = "holding" /\ ~reader[r].raced /\ reader'[r].answer = reader[r].answer
      PROVE  AnswersHeldStand'
  <2> SUFFICES ASSUME NEW r \in Readers, reader[r].phase = "holding", ~reader[r].raced,
                      reader'[r].answer = reader[r].answer
               PROVE  Stands(reader[r].answer)'
    BY <1>d DEF AnswersHeldStand
  <2>1. Stands(reader[r].answer)
    BY <1>e DEF AnswersHeldStand
  <2>2. reader[r].answer \in Answer
    <3>1. reader[r].answer \in Answer \cup {NoAnswer}
      BY <1>a DEF ReaderRow
    <3>2. reader[r].answer # NoAnswer
      BY <1>0, <1>n, <2>1 DEF Stands, SkillRow
    <3> QED
      BY <3>1, <3>2
  <2>3. PICK a \in Answer : a = reader[r].answer
    BY <2>2
  <2> QED
    BY <1>b, <1>d, <2>1, <2>3
<1>1. ASSUME NEW r \in Readers, NEW f \in Facets, Miss(r, f)
      PROVE  AnswersHeldStand' /\ CachedAnswerStands'
  <2>1. UNCHANGED <<skill, cache, tainted, writer>>
    BY <1>1 DEF Miss
  <2>2. \A q \in Readers : reader'[q].phase = "holding" => q # r /\ reader'[q] = reader[q]
    BY <1>0, <1>1 DEF Miss, ReaderRow
  <2> QED
    BY <1>c, <1>d, <2>1, <2>2
<1>2. ASSUME NEW r \in Readers, NEW answer \in Answer, Retrieve(r, answer)
      PROVE  AnswersHeldStand' /\ CachedAnswerStands'
  <2>1. UNCHANGED <<skill, cache, tainted, writer>> /\ answer \in Found(reader[r].facet)
    BY <1>2 DEF Retrieve
  <2>2. Stands(answer)
    BY <1>0, <2>1, ServingConstants DEF Found, Stands, SkillRow, Texts
  <2>3. /\ reader'[r].answer = answer
        /\ \A q \in Readers \ {r} : reader'[q] = reader[q]
    BY <1>0, <1>2 DEF Retrieve, ReaderRow
  <2>4. AnswersHeldStand'
    BY <1>e, <2>1, <2>2, <2>3 DEF AnswersHeldStand, Stands, Live, Published
  <2> QED
    BY <1>c, <2>1, <2>4
<1>3. ASSUME NEW r \in Readers, StoreAnswer(r) PROVE AnswersHeldStand' /\ CachedAnswerStands'
  <2>0. PICK f \in Facets : f = reader[r].facet
    BY <1>a
  <2>1. /\ UNCHANGED <<skill, writer>> /\ reader[r].phase = "holding"
        /\ cache' = [cache EXCEPT ![f] = reader[r].answer]
        /\ tainted' = IF reader[r].raced THEN tainted \cup {f} ELSE tainted \ {f}
        /\ reader' = [reader EXCEPT ![r] = NoReader]
    BY <1>3, <2>0 DEF StoreAnswer
  <2>2. \A q \in Readers : reader'[q].phase = "holding" => q # r /\ reader'[q] = reader[q]
    BY <1>0, <2>1 DEF NoReader
  <2>3. AnswersHeldStand'
    BY <1>d, <2>1, <2>2
  <2>4. ~reader[r].raced => Stands(reader[r].answer)
    BY <1>e, <2>1 DEF AnswersHeldStand
  <2>5. CachedAnswerStands'
    BY <1>0, <1>e, <2>1, <2>4 DEF CachedAnswerStands, Stands, Live, Published
  <2> QED
    BY <2>3, <2>5
<1>4. ASSUME NEW r \in Readers, DropAnswer(r) PROVE AnswersHeldStand' /\ CachedAnswerStands'
  <2>1. UNCHANGED <<skill, cache, tainted, writer>>
    BY <1>4 DEF DropAnswer
  <2>2. \A q \in Readers : reader'[q].phase = "holding" => q # r /\ reader'[q] = reader[q]
    BY <1>0, <1>4 DEF DropAnswer, NoReader
  <2> QED
    BY <1>c, <1>d, <2>1, <2>2
<1>5. ASSUME NEW f \in Facets, Expire(f) PROVE AnswersHeldStand' /\ CachedAnswerStands'
  <2>1. /\ UNCHANGED <<skill, reader, writer>> /\ tainted' = tainted \ {f}
        /\ cache' = [cache EXCEPT ![f] = NoAnswer]
    BY <1>5 DEF Expire
  <2>2. AnswersHeldStand'
    BY <1>d, <2>1
  <2>3. CachedAnswerStands'
    BY <1>0, <1>e, <2>1 DEF CachedAnswerStands, Stands, Live, Published
  <2> QED
    BY <2>2, <2>3
<1>6. ASSUME NEW w \in Writers,
             \/ \E op \in Operations, s \in Skills, trigger, text \in Given :
                  BeginWrite(w, op, s, trigger, text)
             \/ Copy(w) \/ ApproveGone(w)
      PROVE  AnswersHeldStand' /\ CachedAnswerStands'
  <2>1. UNCHANGED <<skill, cache, tainted, reader>> /\ writer[w].phase # "committed"
    BY <1>6 DEF BeginWrite, Copy, ApproveGone
  <2>2. \A x \in Writers \ {w} : writer'[x] = writer[x]
    BY <1>0, <1>6 DEF BeginWrite, Copy, ApproveGone
  <2>3. \A x \in Writers : writer[x].phase = "committed" => writer'[x] = writer[x]
    BY <2>1, <2>2
  <2> QED
    BY <1>c, <1>d, <2>1, <2>3
<1>7. ASSUME NEW w \in Writers, CommitWrite(w) PROVE AnswersHeldStand' /\ CachedAnswerStands'
  <2>0. PICK s \in Skills : s = writer[w].skill
    BY <1>0 DEF WriterRow
  <2>1. /\ \A z \in Skills \ {s} : skill'[z] = skill[z]
        /\ cache' = cache /\ writer[w].phase # "committed"
        /\ tainted' = IF Clears(writer[w].op) THEN tainted ELSE tainted \cup Serving(s)
    BY <1>0, <1>7, <2>0 DEF CommitWrite
  <2>k. PICK k \in WriterRow : k = writer[w]
    BY <1>0
  <2>a. writer' = [v \in Writers |->
          IF v # w THEN [writer[v] EXCEPT !.raced = @ \/ Outdates(k, writer[v])]
          ELSE IF Clears(k.op) THEN [NoWriter EXCEPT !.phase = "committed", !.op = k.op, !.skill = s]
          ELSE NoWriter]
    BY <1>7, <2>0, <2>k DEF CommitWrite
  <2>b. [NoWriter EXCEPT !.phase = "committed", !.op = k.op, !.skill = s].phase = "committed"
        /\ [NoWriter EXCEPT !.phase = "committed", !.op = k.op, !.skill = s].skill = s
    BY FirstValues DEF WriterRow
  <2>c. ASSUME NEW x \in Writers \ {w}
        PROVE  writer'[x].phase = writer[x].phase /\ writer'[x].skill = writer[x].skill
    <3>1. writer'[x] = [writer[x] EXCEPT !.raced = @ \/ Outdates(k, writer[x])]
      BY <2>a
    <3> QED
      BY <1>0, <3>1 DEF WriterRow
  <2>2. /\ Clears(writer[w].op) => writer'[w].phase = "committed" /\ writer'[w].skill = s
        /\ \A x \in Writers \ {w} : writer'[x].phase = writer[x].phase
                                    /\ writer'[x].skill = writer[x].skill
    BY <2>k, <2>a, <2>b, <2>c
  <2>3. ASSUME NEW a \in Answer, a.skill # s, Stands(a) PROVE Stands(a)'
    BY <2>1, <2>3 DEF Answer, Stands, Live, Published
  <2>4. ASSUME NEW f \in Facets, cache'[f] # NoAnswer, f \notin tainted',
               \A x \in Writers : ~(writer'[x].phase = "committed" /\ writer'[x].skill = cache'[f].skill)
        PROVE  Stands(cache[f])'
    <3>1. cache[f] \in Answer /\ cache[f].skill # s /\ f \notin tainted
      BY <1>0, <2>1, <2>2, <2>4 DEF Serving
    <3>2. \A x \in Writers : ~(writer[x].phase = "committed" /\ writer[x].skill = cache[f].skill)
      BY <2>1, <2>2, <2>4
    <3>3. Stands(cache[f])
      BY <1>e, <2>1, <2>4, <3>1, <3>2 DEF CachedAnswerStands
    <3>4. PICK a \in Answer : a = cache[f]
      BY <3>1
    <3> QED
      BY <2>1, <2>3, <3>1, <3>3, <3>4
  <2>5. ASSUME NEW r \in Readers, reader'[r].phase = "holding", ~reader'[r].raced
        PROVE  Stands(reader[r].answer)'
    <3>1. reader'[r] = IF reader[r].phase = "holding" /\ reader[r].answer.skill = s
                       THEN [reader[r] EXCEPT !.raced = TRUE] ELSE reader[r]
      BY <1>7, <2>0 DEF CommitWrite
    <3>2. reader'[r] = reader[r] /\ ~(reader[r].phase = "holding" /\ reader[r].answer.skill = s)
      BY <1>a, <2>5, <3>1 DEF ReaderRow
    <3>3. Stands(reader[r].answer) /\ reader[r].answer \in Answer \cup {NoAnswer}
      BY <1>a, <1>e, <2>5, <3>2 DEF AnswersHeldStand, ReaderRow
    <3>4. reader[r].answer # NoAnswer
      BY <1>0, <1>n, <3>3 DEF Stands, SkillRow
    <3>5. PICK a \in Answer : a = reader[r].answer
      BY <3>3, <3>4
    <3> QED
      BY <2>3, <2>5, <3>2, <3>3, <3>5
  <2> QED
    BY <2>4, <2>5 DEF AnswersHeldStand, CachedAnswerStands
<1>8. ASSUME NEW w \in Writers, FailWrite(w) PROVE AnswersHeldStand' /\ CachedAnswerStands'
  <2>1. UNCHANGED <<skill, cache, tainted, reader>> /\ writer[w].phase # "committed"
    BY <1>8 DEF FailWrite
  <2>2. \A x \in Writers \ {w} : writer'[x] = writer[x]
    BY <1>0, <1>8 DEF FailWrite
  <2>3. \A x \in Writers : writer[x].phase = "committed" => writer'[x] = writer[x]
    BY <2>1, <2>2
  <2> QED
    BY <1>c, <1>d, <2>1, <2>3
<1>9. ASSUME NEW w \in Writers, ClearCache(w) PROVE AnswersHeldStand' /\ CachedAnswerStands'
  <2>1. UNCHANGED <<skill, reader>> /\ \A f \in Facets : cache'[f] = NoAnswer
    BY <1>9 DEF ClearCache, Cleared
  <2> QED
    BY <1>d, <2>1 DEF CachedAnswerStands
\* A clearing that is lost taints what still answers from the skill.
<1>h. ASSUME NEW w \in Writers, UNCHANGED <<skill, cache, reader>>, tainted \subseteq tainted',
             writer[w].phase = "committed" => Serving(writer[w].skill) \subseteq tainted',
             \A x \in Writers \ {w} : writer'[x] = writer[x]
      PROVE  AnswersHeldStand' /\ CachedAnswerStands'
  <2>1. AnswersHeldStand'
    BY <1>d, <1>h
  <2>2. ASSUME NEW f \in Facets, cache[f] # NoAnswer, f \notin tainted',
               \A x \in Writers : ~(writer'[x].phase = "committed" /\ writer'[x].skill = cache[f].skill)
        PROVE  Stands(cache[f])'
    <3>1. \A x \in Writers : ~(writer[x].phase = "committed" /\ writer[x].skill = cache[f].skill)
      BY <1>h, <2>2 DEF Serving
    <3>2. Stands(cache[f])
      BY <1>e, <1>h, <2>2, <3>1 DEF CachedAnswerStands
    <3> QED
      BY <1>h, <3>2 DEF Stands, Live, Published
  <2> QED
    BY <1>h, <2>1, <2>2 DEF CachedAnswerStands
<1>10. ASSUME NEW w \in Writers, MissClearing(w) PROVE AnswersHeldStand' /\ CachedAnswerStands'
  <2>1. /\ UNCHANGED <<skill, cache, reader>> /\ tainted' = tainted \cup Serving(writer[w].skill)
        /\ \A x \in Writers \ {w} : writer'[x] = writer[x]
    BY <1>0, <1>10 DEF MissClearing
  <2> QED
    BY <1>h, <2>1
<1>11. ASSUME NEW w \in Writers, ScheduleReindex(w) PROVE AnswersHeldStand' /\ CachedAnswerStands'
  <2>1. /\ UNCHANGED <<skill, cache, reader, tainted>> /\ writer[w].phase # "committed"
        /\ \A x \in Writers \ {w} : writer'[x] = writer[x]
    BY <1>0, <1>11 DEF ScheduleReindex
  <2> QED
    BY <1>h, <2>1
<1>12. ASSUME NEW w \in Writers, DieWriting(w) PROVE AnswersHeldStand' /\ CachedAnswerStands'
  <2>1. /\ UNCHANGED <<skill, cache, reader>>
        /\ tainted' = IF writer[w].phase = "committed"
                      THEN tainted \cup Serving(writer[w].skill) ELSE tainted
        /\ \A x \in Writers \ {w} : writer'[x] = writer[x]
    BY <1>0, <1>12 DEF DieWriting
  <2> QED
    BY <1>h, <2>1
\* A job of the index, a backfill and another model touch neither skills nor answers.
<1>13. ASSUME UNCHANGED <<skill, cache, reader, writer, tainted>>
       PROVE  AnswersHeldStand' /\ CachedAnswerStands'
  BY <1>c, <1>d, <1>13
<1>14. ASSUME NEW j \in Jobs, NEW done \in SUBSET HeldBy(j), CommitReembed(j, done)
       PROVE  AnswersHeldStand' /\ CachedAnswerStands'
  <2>1. UNCHANGED <<cache, reader, writer, tainted>>
    BY <1>14 DEF CommitReembed
  <2>2. RowsKept
    BY <1>0, <1>14 DEF CommitReembed, SkillRow
  <2> QED
    BY <1>c, <1>d, <2>1, <2>2
<1>15. ASSUME NEW j \in Jobs, NEW force \in BOOLEAN,
              StartIndex(j, force) \/ StartReembed(j, force) \/ CommitIndex(j) \/ FailIndex(j)
       PROVE  UNCHANGED <<skill, cache, reader, writer, tainted>>
  BY <1>15 DEF StartIndex, StartReembed, CommitIndex, FailIndex
<1>16. CASE Backfill \/ Rotate \/ UNCHANGED vars
  <2>1. UNCHANGED <<skill, cache, reader, writer, tainted>>
    BY <1>16 DEF Backfill, Rotate, vars
  <2> QED
    BY <1>13, <2>1
<1> QED
  BY <1>1, <1>2, <1>3, <1>4, <1>5, <1>6, <1>7, <1>8, <1>9, <1>10, <1>11, <1>12, <1>13, <1>14,
     <1>15, <1>16
  DEF Next

\* BrainCache.invalidate_skills (pipeline/cache.py) runs after the commit, outside of the
\* transaction: however questions, changes of skills, lost clearings and jobs overlap, an
\* answer in the cache states what its skill now says, save in the cases the property
\* names.
THEOREM CacheStands == Spec => []CachedAnswerStands
<1>1. AnswersInvariant => CachedAnswerStands
  BY DEF AnswersInvariant
<1> QED
  BY <1>1, AnswersStart, AnswersStay, PTL DEF Spec

-------------------------------------------------------------------------------
LEMMA LabelsStart == Init => LabelsInvariant
<1> SUFFICES ASSUME Init PROVE LabelsFollowVersions
  BY TypesStart DEF LabelsInvariant
<1>1. \A s \in Skills, v \in Versions : chunk[s][v].model = 0
  BY DEF Init, NoChunk
<1> QED
  BY <1>1 DEF LabelsFollowVersions

LEMMA LabelsStay == LabelsInvariant /\ [Next]_vars => LabelsInvariant'
<1> SUFFICES ASSUME LabelsInvariant, [Next]_vars PROVE LabelsFollowVersions'
  BY TypesStay DEF LabelsInvariant
<1>t. StateTyped
  BY TypedState DEF LabelsInvariant
<1>0. /\ skill \in [Skills -> SkillRow] /\ writer \in [Writers -> WriterRow]
      /\ chunk \in [Skills -> [Versions -> ChunkRow]]
      /\ due \in 0..MaxDue /\ job \in [Jobs -> JobRow] /\ unlabelled \subseteq Skills
  BY <1>t DEF StateTyped
<1>e. LabelsFollowVersions
  BY DEF LabelsInvariant
\* A step that moves no version and no label, and loses no reindexing.
<1> DEFINE VersionsKept == \A s \in Skills : skill'[s].ver = skill[s].ver
<1>k. ASSUME VersionsKept, UNCHANGED chunk, \A s \in Skills : Relabelled(s) => Relabelled(s)'
      PROVE  LabelsFollowVersions'
  BY <1>e, <1>k DEF LabelsFollowVersions
\* The requests other than w go on as they were.
<1>q. ASSUME NEW w \in Writers, \A x \in Writers \ {w} : /\ writer'[x].phase = writer[x].phase
                                                         /\ writer'[x].op = writer[x].op
                                                         /\ writer'[x].skill = writer[x].skill,
             \A j \in Jobs : job'[j].op = job[j].op, UNCHANGED unlabelled,
             due' = due \/ due' = due + 1,
             NEW s \in Skills, Relabelled(s)
      PROVE  \/ Relabelled(s)'
             \/ /\ writer[w].skill = s /\ writer[w].op \in Publishing
                /\ writer[w].phase \in {"committed", "cleared"}
  <2>1. CASE s \in unlabelled \/ due > 0
    BY <1>0, <1>q, <2>1 DEF Relabelled
  <2>2. CASE \E j \in Jobs : job[j].op = "index"
    <3>1. \E j \in Jobs : job'[j].op = "index"
      BY <1>q, <2>2
    <3> QED
      BY <3>1 DEF Relabelled
  <2>3. ASSUME NEW x \in Writers, writer[x].skill = s, writer[x].op \in Publishing,
               writer[x].phase \in {"committed", "cleared"}, x # w
        PROVE  Relabelled(s)'
    <3>1. /\ writer'[x].skill = s /\ writer'[x].op \in Publishing
          /\ writer'[x].phase \in {"committed", "cleared"}
      BY <1>q, <2>3
    <3> QED
      BY <3>1 DEF Relabelled
  <2> QED
    BY <1>q, <2>1, <2>2, <2>3 DEF Relabelled
<1>1. ASSUME NEW w \in Writers,
             \/ \E op \in Operations, s \in Skills, trigger, text \in Given :
                  BeginWrite(w, op, s, trigger, text)
             \/ Copy(w) \/ ApproveGone(w) \/ FailWrite(w)
      PROVE  LabelsFollowVersions'
  <2>1. /\ UNCHANGED <<skill, chunk, job, unlabelled, due>>
        /\ writer[w].phase \notin {"committed", "cleared"}
        /\ \A x \in Writers \ {w} : writer'[x] = writer[x]
    BY <1>0, <1>1 DEF BeginWrite, Copy, ApproveGone, FailWrite
  <2>2. \A z \in Skills : Relabelled(z) => Relabelled(z)'
    BY <1>q, <2>1
  <2> QED
    BY <1>k, <2>1, <2>2
<1>2. ASSUME NEW w \in Writers, ClearCache(w) \/ MissClearing(w) PROVE LabelsFollowVersions'
  <2>1. /\ UNCHANGED <<skill, chunk, job, unlabelled, due>>
        /\ writer' = [writer EXCEPT ![w] = IF writer[w].op \in Publishing
                                           THEN [writer[w] EXCEPT !.phase = "cleared"] ELSE NoWriter]
        /\ \A x \in Writers \ {w} : writer'[x] = writer[x]
    BY <1>0, <1>2 DEF ClearCache, MissClearing
  <2>2. writer[w].op \in Publishing =>
          /\ writer'[w].skill = writer[w].skill /\ writer'[w].op = writer[w].op
          /\ writer'[w].phase = "cleared"
    BY <1>0, <2>1 DEF WriterRow
  <2>3. \A z \in Skills : Relabelled(z) => Relabelled(z)'
    BY <1>q, <2>1, <2>2 DEF Relabelled
  <2> QED
    BY <1>k, <2>1, <2>3
<1>3. ASSUME NEW w \in Writers, ScheduleReindex(w) PROVE LabelsFollowVersions'
  <2>1. UNCHANGED <<skill, chunk>> /\ due' = due + 1
    BY <1>3 DEF ScheduleReindex
  <2>2. \A z \in Skills : Relabelled(z)'
    BY <1>0, <2>1 DEF Relabelled
  <2> QED
    BY <1>k, <2>1, <2>2
<1>4. ASSUME NEW w \in Writers, DieWriting(w) PROVE LabelsFollowVersions'
  <2>1. /\ UNCHANGED <<skill, chunk, job, due>>
        /\ unlabelled' = IF writer[w].op \in Publishing
                         THEN unlabelled \cup {writer[w].skill} ELSE unlabelled
        /\ \A x \in Writers \ {w} : writer'[x] = writer[x]
    BY <1>0, <1>4 DEF DieWriting
  <2>2. \A z \in Skills : Relabelled(z) => Relabelled(z)'
    BY <2>1 DEF Relabelled
  <2> QED
    BY <1>k, <2>1, <2>2
<1>5. ASSUME NEW w \in Writers, CommitWrite(w) PROVE LabelsFollowVersions'
  <2>0. PICK s \in Skills : s = writer[w].skill
    BY <1>0 DEF WriterRow
  <2>k. PICK k \in WriterRow : k = writer[w]
    BY <1>0
  <2>1. /\ skill' = [skill EXCEPT ![s] = RowAfter(k, @)] /\ UNCHANGED <<chunk, due, unlabelled>>
        /\ writer[w].phase \notin {"committed", "cleared"}
        /\ writer' = [v \in Writers |->
             IF v # w THEN [writer[v] EXCEPT !.raced = @ \/ Outdates(k, writer[v])]
             ELSE IF Clears(k.op) THEN [NoWriter EXCEPT !.phase = "committed", !.op = k.op, !.skill = s]
             ELSE NoWriter]
    BY <1>5, <2>0, <2>k DEF CommitWrite
  <2>2. ASSUME NEW x \in Writers \ {w}
        PROVE  /\ writer'[x].phase = writer[x].phase /\ writer'[x].op = writer[x].op
               /\ writer'[x].skill = writer[x].skill
    <3>1. writer'[x] = [writer[x] EXCEPT !.raced = @ \/ Outdates(k, writer[x])]
      BY <2>1
    <3> QED
      BY <1>0, <3>1 DEF WriterRow
  <2>3. ASSUME NEW j \in Jobs PROVE job'[j].op = job[j].op
    <3>1. job'[j] = job[j] \/ job'[j] = [job[j] EXCEPT !.raced = @ \cup {s}]
      BY <1>5, <2>0 DEF CommitWrite
    <3> QED
      BY <1>0, <3>1 DEF JobRow
  <2>4. \A z \in Skills : Relabelled(z) => Relabelled(z)'
    BY <1>q, <2>1, <2>2, <2>3
  <2>5. CASE k.op \in Numbering
    <3>1. writer'[w] = [NoWriter EXCEPT !.phase = "committed", !.op = k.op, !.skill = s]
      BY <2>1, <2>5 DEF Clears, Numbering
    <3>2. /\ writer'[w].phase = "committed" /\ writer'[w].skill = s /\ writer'[w].op \in Publishing
      BY <2>5, <3>1, FirstValues DEF WriterRow, Publishing, Approvals, Numbering
    <3>3. Relabelled(s)'
      BY <3>2 DEF Relabelled
    <3>4. \A z \in Skills \ {s} : skill'[z] = skill[z]
      BY <1>0, <2>1
    <3>5. ASSUME NEW z \in Skills, NEW v \in Versions, chunk[z][v].model # 0,
                 chunk[z][v].current # (v = skill'[z].ver)
          PROVE  Relabelled(z)'
      <4>1. CASE z = s
        BY <3>3, <4>1
      <4>2. CASE z # s
        <5>1. Relabelled(z)
          BY <1>e, <3>4, <3>5, <4>2 DEF LabelsFollowVersions
        <5> QED
          BY <2>4, <5>1
      <4> QED
        BY <4>1, <4>2
    <3> QED
      BY <2>1, <3>5 DEF LabelsFollowVersions
  <2>6. CASE k.op \notin Numbering
    <3>1. RowAfter(k, skill[s]).ver = skill[s].ver
      BY <2>6 DEF RowAfter
    <3>2. VersionsKept
      BY <1>0, <2>1, <3>1
    <3> QED
      BY <1>k, <2>1, <2>4, <3>2
  <2> QED
    BY <2>5, <2>6
<1>6. ASSUME NEW j \in Jobs, NEW force \in BOOLEAN, StartIndex(j, force) \/ StartReembed(j, force)
      PROVE  LabelsFollowVersions'
  <2>1. UNCHANGED <<skill, chunk, writer, unlabelled>>
    BY <1>6 DEF StartIndex, StartReembed
  <2>2. \A i \in Jobs \ {j} : job'[i] = job[i]
    BY <1>0, <1>6 DEF StartIndex, StartReembed
  <2>3. job[j].op = "idle" /\ (job'[j].op = "index" \/ due' = due)
    <3>1. CASE StartIndex(j, force)
      <4> DEFINE plan == {p \in Skills \X Versions :
                            /\ Published(p[1]) /\ p[2] \in IndexRows(p[1])
                            /\ force \/ ~FreshChunk(p[1], p[2])}
      <4>1. job[j].op = "idle" /\ job'[j] = [NoJob EXCEPT !.op = "index", !.model = model,
                                                         !.cited = Quoted, !.plan = plan]
        BY <1>0, <3>1 DEF StartIndex
      <4> HIDE DEF plan
      <4> QED
        BY <4>1, FirstValues DEF JobRow
    <3>2. CASE StartReembed(j, force)
      BY <3>2 DEF StartReembed
    <3> QED
      BY <1>6, <3>1, <3>2
  <2>4. \A z \in Skills : Relabelled(z) => Relabelled(z)'
    BY <2>1, <2>2, <2>3 DEF Relabelled
  <2> QED
    BY <1>k, <2>1, <2>4
\* Every chunk is relabelled, after the versions of that moment.
<1>7. ASSUME NEW j \in Jobs, CommitIndex(j) PROVE LabelsFollowVersions'
  <2>1. UNCHANGED skill
    BY <1>7 DEF CommitIndex
  <2>2. ASSUME NEW s \in Skills, NEW v \in Versions, chunk'[s][v].model # 0
        PROVE  chunk'[s][v].current = (v = skill[s].ver)
    <3>1. chunk'[s][v] = [model |-> Upserted(j, s, v),
                          current |-> Upserted(j, s, v) # 0 /\ v = skill[s].ver]
      BY <1>7 DEF CommitIndex, IsCurrent
    <3>2. Upserted(j, s, v) # 0
      BY <2>2, <3>1
    <3> QED
      BY <3>1, <3>2
  <2> QED
    BY <2>1, <2>2 DEF LabelsFollowVersions
<1>8. ASSUME NEW j \in Jobs, FailIndex(j) PROVE LabelsFollowVersions'
  <2>1. UNCHANGED <<skill, chunk>> /\ unlabelled' = Skills
    BY <1>8 DEF FailIndex
  <2>2. \A z \in Skills : Relabelled(z)'
    BY <2>1 DEF Relabelled
  <2> QED
    BY <1>k, <2>1, <2>2
<1>9. ASSUME NEW j \in Jobs, NEW done \in SUBSET HeldBy(j), CommitReembed(j, done)
      PROVE  LabelsFollowVersions'
  <2>1. /\ UNCHANGED <<chunk, writer, due, unlabelled>> /\ VersionsKept
        /\ job[j].op = "reembed" /\ \A i \in Jobs \ {j} : job'[i] = job[i]
    BY <1>0, <1>9 DEF CommitReembed, SkillRow
  <2>2. \A z \in Skills : Relabelled(z) => Relabelled(z)'
    BY <2>1 DEF Relabelled
  <2> QED
    BY <1>k, <2>1, <2>2
\* Questions, backfills and other models.
<1>10. ASSUME UNCHANGED <<skill, chunk, writer, job, unlabelled>>, due' = due \/ due' = due + 1
       PROVE  LabelsFollowVersions'
  <2>1. \A z \in Skills : Relabelled(z) => Relabelled(z)'
    BY <1>0, <1>10 DEF Relabelled
  <2> QED
    BY <1>k, <1>10, <2>1
<1>11. ASSUME NEW r \in Readers,
              \/ \E f \in Facets : Miss(r, f)
              \/ \E answer \in Answer : Retrieve(r, answer)
              \/ StoreAnswer(r) \/ DropAnswer(r)
       PROVE  UNCHANGED <<skill, chunk, writer, job, unlabelled, due>>
  BY <1>11 DEF Miss, Retrieve, StoreAnswer, DropAnswer
<1>12. ASSUME (\E f \in Facets : Expire(f)) \/ Backfill \/ Rotate \/ UNCHANGED vars
       PROVE  UNCHANGED <<skill, chunk, writer, job, unlabelled>>
              /\ (due' = due \/ due' = due + 1)
  BY <1>12 DEF Expire, Backfill, Rotate, vars
<1> QED
  BY <1>1, <1>2, <1>3, <1>4, <1>5, <1>6, <1>7, <1>8, <1>9, <1>10, <1>11, <1>12 DEF Next

\* brain_index_backfill labels every chunk in its one transaction
\* (sync_skill_version_current): however backfills, publications and approvals from a stale
\* copy overlap, a chunk's label agrees with the version in force, either way, or a
\* reindexing is already on its way to it or was lost.
THEOREM LabelsFollow == Spec => []LabelsFollowVersions
<1>1. LabelsInvariant => LabelsFollowVersions
  BY DEF LabelsInvariant
<1> QED
  BY <1>1, LabelsStart, LabelsStay, PTL DEF Spec

-------------------------------------------------------------------------------
LEMMA VectorsStart == Init => VectorsInvariant
<1> SUFFICES ASSUME Init PROVE VectorsInvariant
  OBVIOUS
<1>1. TextsHeldFollow /\ VectorOfText
  BY DEF Init, NoJob, FirstVector, TextsHeldFollow, VectorOfText
<1>2. VectorsMadeFollow
  BY DEF Init, NoWriter, VectorsMadeFollow, VectorMadeFollows
<1> QED
  BY <1>1, <1>2, TypesStart DEF VectorsInvariant

LEMMA VectorsStay == VectorsInvariant /\ [Next]_vars => VectorsInvariant'
<1> SUFFICES ASSUME VectorsInvariant, [Next]_vars
             PROVE  TextsHeldFollow' /\ VectorsMadeFollow' /\ VectorOfText'
  BY TypesStay DEF VectorsInvariant
<1>t. StateTyped
  BY TypedState DEF VectorsInvariant
<1>0. /\ skill \in [Skills -> SkillRow] /\ writer \in [Writers -> WriterRow]
      /\ job \in [Jobs -> JobRow] /\ overlapped \subseteq Skills
  BY <1>t DEF StateTyped
<1>e. TextsHeldFollow /\ VectorsMadeFollow /\ VectorOfText
  BY DEF VectorsInvariant
<1>i. \A s \in Skills : skill[s].trigger \in Texts /\ skill[s].text \in Texts
  BY <1>0 DEF SkillRow
\* Columns given and held while the rows keep theirs.
<1> DEFINE ColumnsKept == \A s \in Skills : /\ skill'[s].trigger = skill[s].trigger
                                            /\ skill'[s].text = skill[s].text
<1>h. ASSUME ColumnsKept, \A j \in Jobs : job'[j] = job[j] \/ job'[j].held = {}
      PROVE  TextsHeldFollow'
  <2>1. \A j \in Jobs : \A row \in job[j].held : row.skill \in Skills
    BY <1>0 DEF JobRow, HeldRow
  <2> QED
    BY <1>e, <1>h, <2>1 DEF TextsHeldFollow
<1>m. ASSUME ColumnsKept,
             \A w \in Writers : writer'[w] = writer[w]
                                \/ writer'[w].phase \notin {"ready", "copied"}
      PROVE  VectorsMadeFollow'
  <2> SUFFICES ASSUME NEW w \in Writers, writer'[w].phase \in {"ready", "copied"}
               PROVE  VectorMadeFollows(writer[w])'
    BY DEF VectorsMadeFollow, VectorMadeFollows
  <2>1. writer'[w] = writer[w] /\ VectorMadeFollows(writer[w]) /\ writer[w].skill \in Skills
    BY <1>0, <1>e, <1>m DEF VectorsMadeFollow, WriterRow
  <2> QED
    BY <1>m, <2>1 DEF VectorMadeFollows, Embeds, Or
<1>1. ASSUME NEW w \in Writers, CommitWrite(w)
      PROVE  TextsHeldFollow' /\ VectorsMadeFollow' /\ VectorOfText'
  <2>0. PICK s \in Skills : s = writer[w].skill
    BY <1>0 DEF WriterRow
  <2>k. PICK k \in WriterRow : k = writer[w]
    BY <1>0
  <2>1. /\ skill' = [skill EXCEPT ![s] = RowAfter(k, @)] /\ k.skill = s
        /\ k.phase \in {"ready", "copied"} /\ (k.op = "edit" => Live(s))
        /\ job' = [j \in Jobs |-> IF Embeds(k) /\ s \in HeldBy(j)
                                  THEN [job[j] EXCEPT !.raced = @ \cup {s}] ELSE job[j]]
        /\ overlapped' = IF ~Embeds(k) THEN overlapped
                         ELSE IF k.raced THEN overlapped \cup {s} ELSE overlapped \ {s}
        /\ writer' = [v \in Writers |->
             IF v # w THEN [writer[v] EXCEPT !.raced = @ \/ Outdates(k, writer[v])]
             ELSE IF Clears(k.op) THEN [NoWriter EXCEPT !.phase = "committed", !.op = k.op, !.skill = s]
             ELSE NoWriter]
    BY <1>1, <2>0, <2>k DEF CommitWrite
  <2>2. /\ \A z \in Skills \ {s} : skill'[z] = skill[z]
        /\ skill'[s].trigger = Or(k.trigger, skill[s].trigger)
        /\ skill'[s].text = Or(k.text, skill[s].text)
        /\ skill'[s].vec = IF Embeds(k) THEN k.vec ELSE skill[s].vec
        /\ skill'[s].status = StatusAfter(k.op, skill[s].status)
    BY <1>0, <2>1 DEF RowAfter
  <2>3. VectorMadeFollows(k)
    BY <1>e, <2>k DEF VectorsMadeFollow
  <2>4. ~Embeds(k) => skill'[s].trigger = skill[s].trigger /\ skill'[s].text = skill[s].text
    BY <2>1, <2>2, <2>3 DEF VectorMadeFollows, Or
  <2>5. TextsHeldFollow'
    <3> SUFFICES ASSUME NEW j \in Jobs, NEW row \in job'[j].held
                 PROVE  \/ row.skill \in job'[j].raced
                        \/ row.trigger = skill'[row.skill].trigger /\ row.text = skill'[row.skill].text
      BY DEF TextsHeldFollow
    <3>1. /\ job'[j].held = job[j].held /\ job[j].raced \subseteq job'[j].raced
          /\ Embeds(k) /\ s \in HeldBy(j) => s \in job'[j].raced
      BY <1>0, <2>1 DEF JobRow
    <3>2. row.skill \in Skills /\ row.skill \in HeldBy(j)
      BY <1>0, <3>1 DEF JobRow, HeldRow, HeldBy
    <3>3. \/ row.skill \in job[j].raced
          \/ row.trigger = skill[row.skill].trigger /\ row.text = skill[row.skill].text
      BY <1>e, <3>1 DEF TextsHeldFollow
    <3> QED
      BY <2>2, <2>4, <3>1, <3>2, <3>3
  <2>6. VectorsMadeFollow'
    <3>1. ASSUME NEW v \in Writers, v # w PROVE VectorMadeFollows(writer[v])'
      <4>0. PICK o \in WriterRow : o = writer[v]
        BY <1>0
      <4>1. VectorMadeFollows(o) /\ o.skill \in Skills
        BY <1>e, <4>0 DEF VectorsMadeFollow, WriterRow
      <4> DEFINE b == o.raced \/ Outdates(k, o)
      <4>2. writer'[v] = [o EXCEPT !.raced = b]
        BY <2>1, <3>1, <4>0
      <4> HIDE DEF b
      <4>3. /\ writer'[v].phase = o.phase /\ writer'[v].op = o.op /\ writer'[v].skill = o.skill
            /\ writer'[v].trigger = o.trigger /\ writer'[v].text = o.text /\ writer'[v].vec = o.vec
            /\ writer'[v].raced = b
        BY <4>2 DEF WriterRow
      <4> DEFINE row == skill[o.skill]
      <4>4. ASSUME o.phase \in {"ready", "copied"}, Embeds(o), ~b
            PROVE  /\ o.vec.trigger = Or(o.trigger, skill'[o.skill].trigger)
                   /\ o.vec.text = Or(o.text, skill'[o.skill].text)
        <5>1. ~o.raced /\ ~Outdates(k, o)
          BY <4>4 DEF b
        <5>2. o.vec.trigger = Or(o.trigger, row.trigger) /\ o.vec.text = Or(o.text, row.text)
          BY <4>1, <4>4, <5>1 DEF VectorMadeFollows
        <5>3. CASE o.skill # s
          BY <2>2, <4>1, <5>2, <5>3
        <5>4. CASE o.skill = s
          <6>1. (k.trigger = 0 \/ o.trigger # 0) /\ (k.text = 0 \/ o.text # 0)
            BY <2>1, <4>4, <5>1, <5>4 DEF Outdates
          <6> QED
            BY <2>2, <5>2, <5>4, <6>1 DEF Or
        <5> QED
          BY <5>3, <5>4
      <4>5. ASSUME o.phase \in {"ready", "copied"}, ~Embeds(o) PROVE o.trigger = 0 /\ o.text = 0
        BY <4>1, <4>5 DEF VectorMadeFollows
      <4> QED
        BY <4>3, <4>4, <4>5 DEF VectorMadeFollows, Embeds
    <3>2. writer'[w].phase \notin {"ready", "copied"}
      BY <2>1, FirstValues DEF NoWriter
    <3> QED
      BY <3>1, <3>2 DEF VectorsMadeFollow, VectorMadeFollows
  <2>7. ASSUME NEW z \in Skills, Live(z)'
        PROVE  \/ skill'[z].vec.trigger = skill'[z].trigger /\ skill'[z].vec.text = skill'[z].text
               \/ z \in overlapped'
    <3>1. CASE z # s
      BY <1>e, <2>1, <2>2, <2>7, <3>1 DEF VectorOfText, Live
    <3>2. CASE z = s /\ Embeds(k)
      BY <2>1, <2>2, <2>3, <3>2 DEF VectorMadeFollows
    <3>3. CASE z = s /\ ~Embeds(k)
      <4>1. Live(s)
        BY <2>2, <2>7, <3>3 DEF Live, StatusAfter
      <4> QED
        BY <1>e, <2>1, <2>2, <2>4, <3>3, <4>1 DEF VectorOfText
    <3> QED
      BY <3>1, <3>2, <3>3
  <2> QED
    BY <2>5, <2>6, <2>7 DEF VectorOfText
<1>2. ASSUME NEW w \in Writers, NEW op \in Operations, NEW s \in Skills, NEW trigger \in Given,
             NEW text \in Given, BeginWrite(w, op, s, trigger, text)
      PROVE  TextsHeldFollow' /\ VectorsMadeFollow' /\ VectorOfText'
  <2>1. UNCHANGED <<skill, job, overlapped>> /\ \A x \in Writers \ {w} : writer'[x] = writer[x]
    BY <1>0, <1>2 DEF BeginWrite
  <2> DEFINE v == Merged(skill[s], trigger, text)
  <2>2. writer'[w] = [NoWriter EXCEPT !.phase = "ready", !.op = op, !.skill = s, !.trigger = trigger,
                                      !.text = text, !.vec = v]
    BY <1>0, <1>2 DEF BeginWrite
  <2>3. v.trigger = Or(trigger, skill[s].trigger) /\ v.text = Or(text, skill[s].text)
    BY DEF Merged
  <2> HIDE DEF v
  <2>4. /\ writer'[w].op = op /\ writer'[w].skill = s /\ writer'[w].trigger = trigger
        /\ writer'[w].text = text /\ writer'[w].vec = v
    BY <2>2, FirstValues DEF WriterRow
  <2>5. op \notin {"revise", "write", "edit"} => trigger = 0 /\ text = 0
    BY <1>2 DEF BeginWrite
  <2>6. VectorMadeFollows(writer[w])'
    BY <2>1, <2>3, <2>4, <2>5 DEF VectorMadeFollows, Embeds
  <2>7. \A x \in Writers \ {w} : VectorMadeFollows(writer[x])'
    BY <1>e, <2>1 DEF VectorsMadeFollow, VectorMadeFollows, Embeds
  <2> QED
    BY <1>e, <1>h, <2>1, <2>6, <2>7 DEF VectorsMadeFollow, VectorOfText, Live
<1>3. ASSUME NEW w \in Writers, Copy(w) PROVE TextsHeldFollow' /\ VectorsMadeFollow' /\ VectorOfText'
  <2>0. PICK k \in WriterRow : k = writer[w]
    BY <1>0
  <2>1. /\ UNCHANGED <<skill, job, overlapped>> /\ k.phase = "ready"
        /\ \A x \in Writers \ {w} : writer'[x] = writer[x]
    BY <1>0, <1>3, <2>0 DEF Copy
  <2> DEFINE row == skill[k.skill]
  <2>2. /\ writer'[w].op = k.op /\ writer'[w].skill = k.skill /\ writer'[w].trigger = k.trigger
        /\ writer'[w].vec = k.vec /\ writer'[w].raced = k.raced
        /\ writer'[w].text = IF k.op = "revise" THEN Or(k.text, row.text) ELSE k.text
    BY <1>0, <1>3, <2>0 DEF Copy, WriterRow
  <2>3. VectorMadeFollows(k) /\ k.skill \in Skills
    BY <1>e, <2>0 DEF VectorsMadeFollow, WriterRow
  <2>4. row.text # 0 /\ row.text \in Texts
    BY <1>i, <2>3, ServingConstants DEF Texts
  <2>5. Or(writer'[w].text, row.text) = Or(k.text, row.text)
    BY <2>2, <2>4 DEF Or
  <2>6. VectorMadeFollows(writer[w])'
    BY <2>1, <2>2, <2>3, <2>5 DEF VectorMadeFollows, Embeds
  <2>7. \A x \in Writers \ {w} : VectorMadeFollows(writer[x])'
    BY <1>e, <2>1 DEF VectorsMadeFollow, VectorMadeFollows, Embeds
  <2> QED
    BY <1>e, <1>h, <2>1, <2>6, <2>7 DEF VectorsMadeFollow, VectorOfText, Live
<1>4. ASSUME NEW w \in Writers,
             \/ ApproveGone(w) \/ FailWrite(w) \/ ClearCache(w) \/ MissClearing(w)
             \/ ScheduleReindex(w) \/ DieWriting(w)
      PROVE  TextsHeldFollow' /\ VectorsMadeFollow' /\ VectorOfText'
  <2>1. UNCHANGED <<skill, job, overlapped>>
    BY <1>4 DEF ApproveGone, FailWrite, ClearCache, MissClearing, ScheduleReindex, DieWriting
  <2>2. /\ \A x \in Writers \ {w} : writer'[x] = writer[x]
        /\ writer'[w].phase \in {"committed", "cleared", "idle"}
    BY <1>0, <1>4, FirstValues
    DEF ApproveGone, FailWrite, ClearCache, MissClearing, ScheduleReindex, DieWriting, WriterRow, NoWriter
  <2> QED
    BY <1>e, <1>h, <1>m, <2>1, <2>2 DEF VectorOfText, Live
<1>5. ASSUME NEW j \in Jobs, NEW force \in BOOLEAN, StartReembed(j, force)
      PROVE  TextsHeldFollow' /\ VectorsMadeFollow' /\ VectorOfText'
  <2> DEFINE held == {[skill |-> s, trigger |-> skill[s].trigger, text |-> skill[s].text] :
                        s \in {t \in Skills : Stale(t) \/ (force /\ Live(t))}}
  <2>1. /\ UNCHANGED <<skill, writer, overlapped>> /\ \A i \in Jobs \ {j} : job'[i] = job[i]
        /\ job'[j] = [NoJob EXCEPT !.op = "reembed", !.model = model, !.held = held]
    BY <1>0, <1>5 DEF StartReembed
  <2>2. \A row \in held : row.trigger = skill[row.skill].trigger /\ row.text = skill[row.skill].text
    OBVIOUS
  <2> HIDE DEF held
  <2>3. job'[j].held = held
    BY <2>1, FirstValues DEF JobRow
  <2>4. TextsHeldFollow'
    BY <1>e, <2>1, <2>2, <2>3 DEF TextsHeldFollow
  <2> QED
    BY <1>e, <1>m, <2>1, <2>4 DEF VectorOfText, Live
<1>6. ASSUME NEW j \in Jobs, NEW done \in SUBSET HeldBy(j), CommitReembed(j, done)
      PROVE  TextsHeldFollow' /\ VectorsMadeFollow' /\ VectorOfText'
  <2>1. /\ UNCHANGED writer /\ \A i \in Jobs : job'[i] = job[i] \/ job'[i].held = {}
        /\ overlapped' = (overlapped \ done) \cup (done \cap job[j].raced)
    BY <1>0, <1>6 DEF CommitReembed, NoJob
  <2>2. ASSUME NEW s \in Skills
        PROVE  /\ skill'[s].status = skill[s].status /\ skill'[s].text = skill[s].text
               /\ skill'[s].trigger = skill[s].trigger
               /\ s \notin done => skill'[s].vec = skill[s].vec
               /\ s \in done /\ s \notin job[j].raced =>
                    skill'[s].vec.trigger = skill[s].trigger /\ skill'[s].vec.text = skill[s].text
    <3>1. CASE s \in done
      <4>1. PICK row : row = CHOOSE x \in job[j].held : x.skill = s
        OBVIOUS
      <4>2. row \in job[j].held /\ row.skill = s
        BY <3>1, <4>1 DEF HeldBy
      <4>3. s \in job[j].raced \/ (row.trigger = skill[s].trigger /\ row.text = skill[s].text)
        BY <1>e, <4>2 DEF TextsHeldFollow
      <4>4. skill'[s] = [skill[s] EXCEPT !.vec = VectorOf(row, job[j].model)]
        BY <1>6, <3>1, <4>1 DEF CommitReembed
      <4> QED
        BY <1>0, <3>1, <4>3, <4>4 DEF SkillRow, VectorOf
    <3>2. CASE s \notin done
      BY <1>6, <3>2 DEF CommitReembed
    <3> QED
      BY <3>1, <3>2
  <2>3. ColumnsKept
    BY <2>2
  <2>4. VectorOfText'
    BY <1>e, <2>1, <2>2 DEF VectorOfText, Live
  <2> QED
    BY <1>h, <1>m, <2>1, <2>3, <2>4
<1>7. ASSUME NEW j \in Jobs, (\E force \in BOOLEAN : StartIndex(j, force)) \/ CommitIndex(j) \/ FailIndex(j)
      PROVE  TextsHeldFollow' /\ VectorsMadeFollow' /\ VectorOfText'
  <2>1. UNCHANGED <<skill, writer, overlapped>> /\ \A i \in Jobs \ {j} : job'[i] = job[i]
    BY <1>0, <1>7 DEF StartIndex, CommitIndex, FailIndex
  <2>2. job'[j].held = {}
    <3>1. ASSUME NEW force \in BOOLEAN, StartIndex(j, force) PROVE job'[j].held = {}
      <4> DEFINE plan == {p \in Skills \X Versions :
                            /\ Published(p[1]) /\ p[2] \in IndexRows(p[1])
                            /\ force \/ ~FreshChunk(p[1], p[2])}
      <4>1. job'[j] = [NoJob EXCEPT !.op = "index", !.model = model, !.cited = Quoted, !.plan = plan]
        BY <1>0, <3>1 DEF StartIndex
      <4> HIDE DEF plan
      <4> QED
        BY <4>1 DEF NoJob
    <3>2. CASE CommitIndex(j) \/ FailIndex(j)
      BY <1>0, <3>2 DEF CommitIndex, FailIndex, NoJob
    <3> QED
      BY <1>7, <3>1, <3>2
  <2> QED
    BY <1>e, <1>h, <1>m, <2>1, <2>2 DEF VectorOfText, Live
<1>8. ASSUME UNCHANGED <<skill, overlapped, job, writer>>
      PROVE  TextsHeldFollow' /\ VectorsMadeFollow' /\ VectorOfText'
  BY <1>e, <1>h, <1>m, <1>8 DEF VectorOfText, Live
<1>9. ASSUME NEW r \in Readers,
             \/ \E f \in Facets : Miss(r, f)
             \/ \E answer \in Answer : Retrieve(r, answer)
             \/ StoreAnswer(r) \/ DropAnswer(r)
      PROVE  UNCHANGED <<skill, overlapped, job, writer>>
  BY <1>9 DEF Miss, Retrieve, StoreAnswer, DropAnswer
<1>10. ASSUME (\E f \in Facets : Expire(f)) \/ Backfill \/ Rotate \/ UNCHANGED vars
       PROVE  UNCHANGED <<skill, overlapped, job, writer>>
  BY <1>10 DEF Expire, Backfill, Rotate, vars
<1> QED
  BY <1>1, <1>2, <1>3, <1>4, <1>5, <1>6, <1>7, <1>8, <1>9, <1>10 DEF Next

\* A vector is made with no transaction open, from the columns a request gives merged with
\* the row it read (SkillsService.update, ReviewsService), or from the row alone
\* (reembed_skills), and stored unguarded: the vector of a skill that is not deleted is of
\* its trigger and its rule, unless a column taken from the row was rewritten before it
\* was stored.
THEOREM VectorsAreOfTheirText == Spec => []VectorOfText
<1>1. VectorsInvariant => VectorOfText
  BY DEF VectorsInvariant
<1> QED
  BY <1>1, VectorsStart, VectorsStay, PTL DEF Spec

-------------------------------------------------------------------------------
(***************************************************************************)
(* Chat: the decoder of a streamed reply, and the requests that use it.    *)
(* The decoder is a recursive function; that it exists is proved from the  *)
(* end of the text, and what it returns for a text that arrives in pieces  *)
(* by the same induction.                                                  *)
(***************************************************************************)

\* An induction over the positions of a text, from its end: the library's own takes an
\* operator, so it is stated here for sets.
LEMMA NatOrder ==
  \E R : IsWellFoundedOn(R, Nat) /\ \A x, y \in Nat : x < y => <<x, y>> \in R
BY NatLessThanWellFounded DEF OpToRel

\* A set of naturals has a least member.
LEMMA LeastOf == ASSUME NEW T \in SUBSET Nat, T # {} PROVE \E x \in T : \A y \in T : x <= y
<1>1. PICK R : IsWellFoundedOn(R, Nat) /\ \A x, y \in Nat : x < y => <<x, y>> \in R
  BY NatOrder
<1>2. \E x \in T : \A y \in T : ~(<<y, x>> \in R)
  <2>1. IsWellFoundedOn(R, Nat) /\ T \subseteq Nat /\ T # {}
    BY <1>1
  <2> QED BY <2>1, WFMin
<1>3. PICK x \in T : \A y \in T : ~(<<y, x>> \in R)
  BY <1>2
<1>4. \A y \in T : x \in Nat /\ y \in Nat /\ ~(y < x)
  BY <1>1, <1>3
<1>5. \A y \in T : x <= y
  BY <1>4
<1> QED BY <1>3, <1>5

\* A set with every natural whose predecessors it has is all of them.
LEMMA AllOf == ASSUME NEW T, \A n \in Nat : (\A m \in Nat : m < n => m \in T) => n \in T
               PROVE  Nat \subseteq T
<1> SUFFICES ASSUME Nat \ T # {} PROVE FALSE
  OBVIOUS
<1>1. PICK x \in Nat \ T : \A y \in Nat \ T : x <= y
  BY LeastOf
<1> QED BY <1>1

\* Places(raw): where decoding may begin.
Places(raw) == 1..(Len(raw) + 1)

\* A set with every place whose later places it has is all of them.
LEMMA FromTheEnd ==
  ASSUME NEW raw \in Seq(Symbols), NEW T,
         \A i \in Places(raw) : (\A j \in Places(raw) : j > i => j \in T) => i \in T
  PROVE  Places(raw) \subseteq T
<1> DEFINE n == Len(raw)
<1> DEFINE Up == {k \in Nat : k <= n => n + 1 - k \in T}
<1>0. n \in Nat
  OBVIOUS
<1>1. ASSUME NEW k \in Nat, \A m \in Nat : m < k => m \in Up
      PROVE  k \in Up
  <2> SUFFICES ASSUME k <= n PROVE n + 1 - k \in T
    OBVIOUS
  <2>1. n + 1 - k \in Places(raw)
    BY <1>0 DEF Places
  <2>2. ASSUME NEW j \in Places(raw), j > n + 1 - k PROVE j \in T
    <3>1. j \in Int /\ 1 <= j /\ j <= n + 1
      BY <1>0 DEF Places
    <3>2. n + 1 - j \in Nat /\ n + 1 - j < k /\ n + 1 - j <= n
      BY <3>1, <2>2, <1>0
    <3>3. n + 1 - j \in Up
      BY <3>2, <1>1
    <3>4. n + 1 - (n + 1 - j) = j
      BY <3>1, <1>0
    <3> HIDE DEF n
    <3> QED BY <3>2, <3>3, <3>4
  <2> QED BY <2>1, <2>2
<1>2. Nat \subseteq Up
  <2> HIDE DEF Up
  <2> QED BY <1>1, AllOf
<1>3. ASSUME NEW i \in Places(raw) PROVE i \in T
  <2>1. i \in Int /\ 1 <= i /\ i <= n + 1
    BY <1>0 DEF Places
  <2>2. n + 1 - i \in Nat /\ n + 1 - i <= n /\ n + 1 - (n + 1 - i) = i
    BY <2>1, <1>0
  <2>3. n + 1 - i \in Up
    BY <2>2, <1>2
  <2> HIDE DEF n
  <2> QED BY <2>2, <2>3
<1> QED BY <1>3

\* What an answer is written with.
Letters == Symbols \cup {"pair", "none", "question"}

\* A character lies within what has arrived.
LEMMA CharacterTyped ==
  ASSUME NEW raw \in Seq(Symbols), NEW i \in 1..Len(raw), NEW c, c = Character(raw, i), c # Held
  PROVE  /\ c.text \in Seq(Letters)
         /\ c.length \in Int /\ c.length > 0
         /\ i + c.length \in Places(raw)
<1>1. CASE raw[i] # "\\"
  <2>1. c = [text |-> <<raw[i]>>, length |-> 1]
    BY <1>1 DEF Character
  <2>2. raw[i] \in Letters
    BY DEF Letters
  <2> QED BY <2>1, <2>2 DEF Places
<1>2. CASE raw[i] = "\\" /\ i + 1 <= Len(raw) /\ raw[i + 1] # "u"
  <2>1. c = [text |-> <<raw[i + 1]>>, length |-> 2]
    BY <1>2 DEF Character
  <2>2. raw[i + 1] \in Letters
    BY <1>2 DEF Letters
  <2> QED BY <1>2, <2>1, <2>2 DEF Places
<1>3. CASE raw[i] = "\\" /\ i + 1 <= Len(raw) /\ raw[i + 1] = "u"
  <2>1. c = Unicode(raw, i)
    BY <1>3 DEF Character
  <2>2. i + 2 <= Len(raw)
    BY <2>1, SMT DEF Unicode
  <2>3. CASE /\ i + 5 <= Len(raw) /\ raw[i + 2] = High /\ raw[i + 3] = "\\"
             /\ raw[i + 4] = "u" /\ raw[i + 5] = Low
    <3>1. c = [text |-> <<"pair">>, length |-> 6]
      BY <2>1, <2>2, <2>3 DEF Unicode
    <3>2. "pair" \in Letters
      BY DEF Letters
    <3> QED BY <3>1, <3>2, <2>3 DEF Places
  <2>4. CASE ~(/\ i + 5 <= Len(raw) /\ raw[i + 2] = High /\ raw[i + 3] = "\\"
               /\ raw[i + 4] = "u" /\ raw[i + 5] = Low)
    <3>1. c = [text |-> <<raw[i + 2]>>, length |-> 3]
      BY <2>1, <2>2, <2>4 DEF Unicode
    <3>2. raw[i + 2] \in Letters
      BY <2>2 DEF Letters
    <3> QED BY <3>1, <3>2, <2>2 DEF Places
  <2> QED BY <2>3, <2>4
<1>4. CASE raw[i] = "\\" /\ ~(i + 1 <= Len(raw))
  BY <1>4 DEF Character
<1> QED BY <1>1, <1>2, <1>3, <1>4

\* What arrives later does not change a character that is not held back.
LEMMA CharacterStays ==
  ASSUME NEW raw \in Seq(Symbols), NEW piece \in Seq(Symbols), NEW i \in 1..Len(raw),
         Character(raw, i) # Held
  PROVE  Character(raw \o piece, i) = Character(raw, i)
<1> DEFINE all == raw \o piece
<1>0. /\ all \in Seq(Symbols) /\ Len(all) \in Nat /\ Len(raw) \in Nat /\ Len(raw) <= Len(all)
      /\ \A j \in 1..Len(raw) : all[j] = raw[j]
  OBVIOUS
<1> SUFFICES Character(all, i) = Character(raw, i)
  OBVIOUS
<1> HIDE DEF all
<1>1. CASE raw[i] # "\\"
  BY <1>0, <1>1 DEF Character
<1>2. CASE raw[i] = "\\" /\ i + 1 <= Len(raw) /\ raw[i + 1] # "u"
  BY <1>0, <1>2 DEF Character
<1>3. CASE raw[i] = "\\" /\ i + 1 <= Len(raw) /\ raw[i + 1] = "u"
  <2>0. Character(raw, i) = Unicode(raw, i) /\ Character(all, i) = Unicode(all, i)
    BY <1>0, <1>3 DEF Character
  <2>1. i + 2 <= Len(raw) /\ (raw[i + 2] = High => i + 5 <= Len(raw))
    BY <2>0 DEF Unicode
  <2>2. all[i + 2] = raw[i + 2] /\ i + 2 <= Len(all)
    BY <1>0, <2>1
  <2>3. CASE raw[i + 2] = High
    <3>1. i + 5 <= Len(raw) /\ i + 5 <= Len(all)
      BY <1>0, <2>1, <2>3
    <3>2. all[i + 3] = raw[i + 3] /\ all[i + 4] = raw[i + 4] /\ all[i + 5] = raw[i + 5]
      BY <1>0, <3>1
    <3> QED BY <1>0, <2>0, <2>1, <2>2, <2>3, <3>1, <3>2 DEF Unicode
  <2>4. CASE raw[i + 2] # High
    BY <1>0, <2>0, <2>1, <2>2, <2>4 DEF Unicode
  <2> QED BY <2>3, <2>4
<1>4. CASE raw[i] = "\\" /\ ~(i + 1 <= Len(raw))
  BY <1>4 DEF Character
<1> QED BY <1>1, <1>2, <1>3, <1>4

\* Decoded(raw): what decoding may return.
Decoded(raw) == [text : Seq(Letters), cursor : Places(raw), complete : BOOLEAN]

\* Where decoding goes on after the character at i.
LEMMA Onward ==
  ASSUME NEW raw \in Seq(Symbols), NEW i \in Places(raw), NEW rest,
         NEW after \in Decoded(raw), NEW c, c = Character(raw, i),
         \A j \in Places(raw) : j > i => rest[j] \in Decoded(raw)
  PROVE  /\ ConsumeAt(raw, i, rest) \in Decoded(raw)
         /\ i \in 1..Len(raw) /\ raw[i] # Quote /\ c # Held
              => /\ i + c.length \in Places(raw) /\ i + c.length > i
                 /\ rest[i + c.length] \in Decoded(raw)
                 /\ c.text \in Seq(Letters)
<1>0. i \in Int /\ 1 <= i /\ i <= Len(raw) + 1 /\ Len(raw) \in Nat
  BY DEF Places
<1>1. << >> \in Seq(Letters)
  OBVIOUS
<1>2. CASE i > Len(raw)
  <2>1. ConsumeAt(raw, i, rest) = [text |-> <<>>, cursor |-> i, complete |-> FALSE]
    BY <1>2 DEF ConsumeAt
  <2> QED BY <2>1, <1>0, <1>1, <1>2 DEF Decoded
<1>3. CASE i <= Len(raw) /\ raw[i] = Quote
  <2>1. ConsumeAt(raw, i, rest) = [text |-> <<>>, cursor |-> i + 1, complete |-> TRUE]
    BY <1>0, <1>3 DEF ConsumeAt
  <2>2. i + 1 \in Places(raw)
    BY <1>0, <1>3 DEF Places
  <2> QED BY <2>1, <2>2, <1>0, <1>1, <1>3 DEF Decoded
<1>4. CASE i <= Len(raw) /\ raw[i] # Quote /\ c = Held
  <2>1. ConsumeAt(raw, i, rest) = [text |-> <<>>, cursor |-> i, complete |-> FALSE]
    BY <1>0, <1>4 DEF ConsumeAt
  <2> QED BY <2>1, <1>0, <1>1, <1>4 DEF Decoded
<1>5. CASE i <= Len(raw) /\ raw[i] # Quote /\ c # Held
  <2>1. i \in 1..Len(raw)
    BY <1>0, <1>5
  <2>2. /\ c.text \in Seq(Letters)
        /\ c.length \in Int /\ c.length > 0
        /\ i + c.length \in Places(raw)
    BY <2>1, <1>5, CharacterTyped
  <2>3. i + c.length > i
    BY <1>0, <2>2
  <2>4. rest[i + c.length] \in Decoded(raw)
    BY <2>2, <2>3
  <2>5. ConsumeAt(raw, i, rest)
          = [rest[i + c.length] EXCEPT !.text = c.text \o rest[i + c.length].text]
    BY <1>0, <1>5 DEF ConsumeAt
  <2>6. c.text \o rest[i + c.length].text \in Seq(Letters)
    BY <2>2, <2>4 DEF Decoded
  <2>7. ConsumeAt(raw, i, rest) \in Decoded(raw)
    BY <2>4, <2>5, <2>6 DEF Decoded
  <2> QED BY <2>2, <2>3, <2>4, <2>7
<1> QED BY <1>0, <1>2, <1>3, <1>4, <1>5

\* Decoding from i looks only at what decoding from later on gives.
LEMMA OnlyLater ==
  ASSUME NEW raw \in Seq(Symbols), NEW i \in Places(raw), NEW f, NEW g,
         \A j \in Places(raw) : j > i => f[j] = g[j]
  PROVE  ConsumeAt(raw, i, f) = ConsumeAt(raw, i, g)
<1>0. i \in Int /\ 1 <= i /\ i <= Len(raw) + 1 /\ Len(raw) \in Nat
  BY DEF Places
<1> DEFINE c == Character(raw, i)
<1>1. CASE i > Len(raw) \/ raw[i] = Quote \/ c = Held
  BY <1>1 DEF ConsumeAt
<1>2. CASE i <= Len(raw) /\ raw[i] # Quote /\ c # Held
  <2>1. i \in 1..Len(raw)
    BY <1>0, <1>2
  <2>2. c.length \in Int /\ c.length > 0 /\ i + c.length \in Places(raw)
    BY <2>1, <1>2, CharacterTyped
  <2>3. f[i + c.length] = g[i + c.length]
    BY <1>0, <2>2
  <2> QED BY <1>0, <1>2, <2>3 DEF ConsumeAt
<1> QED BY <1>0, <1>1, <1>2

\* A function that decodes from every place exists, built from the end.
LEMMA DecoderExists ==
  ASSUME NEW raw \in Seq(Symbols)
  PROVE  \E f \in [Places(raw) -> Decoded(raw)] :
           \A i \in Places(raw) : f[i] = ConsumeAt(raw, i, f)
<1> DEFINE n == Len(raw)
           Works(f, k) == \A i \in Places(raw) : i >= n + 2 - k => f[i] = ConsumeAt(raw, i, f)
           Built == {k \in Nat : k <= n + 1 =>
                       \E f \in [Places(raw) -> Decoded(raw)] : Works(f, k)}
<1>0. n \in Nat /\ \A i \in Places(raw) : i \in Int /\ 1 <= i /\ i <= n + 1
  BY DEF Places
<1>1. ASSUME NEW k \in Nat, \A m \in Nat : m < k => m \in Built
      PROVE  k \in Built
  <2> SUFFICES ASSUME k <= n + 1
               PROVE  \E f \in [Places(raw) -> Decoded(raw)] : Works(f, k)
    OBVIOUS
  <2>1. CASE k = 0
    <3> DEFINE f == [i \in Places(raw) |-> [text |-> << >>, cursor |-> i, complete |-> FALSE]]
    <3>1. f \in [Places(raw) -> Decoded(raw)]
      BY DEF Decoded
    <3>2. Works(f, k)
      BY <1>0, <2>1
    <3> HIDE DEF f, Works
    <3> QED BY <3>1, <3>2
  <2>2. CASE k # 0
    <3>1. k - 1 \in Nat /\ k - 1 < k /\ k - 1 <= n + 1
      BY <2>2, <1>0
    <3>2. PICK f \in [Places(raw) -> Decoded(raw)] : Works(f, k - 1)
      <4> HIDE DEF Works
      <4> QED BY <3>1, <1>1
    <3> DEFINE p == n + 2 - k
               v == ConsumeAt(raw, p, f)
               g == [f EXCEPT ![p] = v]
    <3>3. p \in Places(raw)
      BY <1>0, <2>2 DEF Places
    <3>4. v \in Decoded(raw)
      <4>1. \A j \in Places(raw) : j > p => f[j] \in Decoded(raw)
        OBVIOUS
      <4>2. f[p] \in Decoded(raw)
        BY <3>3
      <4> HIDE DEF p
      <4> QED BY <3>3, <4>1, <4>2, Onward
    <3>5. g \in [Places(raw) -> Decoded(raw)]
      <4> HIDE DEF v, p
      <4> QED BY <3>3, <3>4
    <3>6. ASSUME NEW i \in Places(raw), i >= p PROVE g[i] = ConsumeAt(raw, i, g)
      <4>1. \A j \in Places(raw) : j > i => f[j] = g[j]
        <5> HIDE DEF v
        <5> QED BY <3>6, <1>0, <3>3
      <4>2. ConsumeAt(raw, i, f) = ConsumeAt(raw, i, g)
        <5> HIDE DEF g
        <5> QED BY <4>1, OnlyLater
      <4>3. g[i] = ConsumeAt(raw, i, f)
        <5>1. CASE i = p
          <6> HIDE DEF p
          <6> QED BY <5>1, <3>3
        <5>2. CASE i # p
          <6>1. i >= n + 2 - (k - 1)
            BY <5>2, <3>6, <1>0, <3>1
          <6>2. f[i] = ConsumeAt(raw, i, f)
            BY <6>1, <3>2
          <6>3. g[i] = f[i]
            <7> HIDE DEF p, v
            <7> QED BY <5>2
          <6> QED BY <6>2, <6>3
        <5> QED BY <5>1, <5>2
      <4> QED BY <4>2, <4>3
    <3>7. Works(g, k)
      <4> HIDE DEF g
      <4> QED BY <3>6
    <3> HIDE DEF g, Works
    <3> QED BY <3>5, <3>7
  <2> QED BY <2>1, <2>2
<1>2. Nat \subseteq Built
  <2> HIDE DEF Built
  <2> QED BY <1>1, AllOf
<1>3. PICK f \in [Places(raw) -> Decoded(raw)] : Works(f, n + 1)
  <2>1. n + 1 \in Built /\ n + 1 <= n + 1
    <3> HIDE DEF Built, n
    <3> QED BY <1>0, <1>2
  <2> HIDE DEF Works, n
  <2> QED BY <2>1
<1>4. \A i \in Places(raw) : f[i] = ConsumeAt(raw, i, f)
  BY <1>0, <1>3
<1> QED BY <1>4

\* What the recursive function returns: the decoder's equation and its type.
LEMMA Consumed ==
  ASSUME NEW raw \in Seq(Symbols)
  PROVE  /\ \A i \in Places(raw) : Consume(raw, i) \in Decoded(raw)
         /\ \A i \in Places(raw) :
              Consume(raw, i) = ConsumeAt(raw, i, [j \in Places(raw) |-> Consume(raw, j)])
<1> DEFINE Is(f) == f = [j \in Places(raw) |-> ConsumeAt(raw, j, f)]
           all == CHOOSE f : Is(f)
<1>1. PICK f \in [Places(raw) -> Decoded(raw)] :
        \A i \in Places(raw) : f[i] = ConsumeAt(raw, i, f)
  BY DecoderExists
<1>2. Is(f)
  BY <1>1
<1>3. Is(all)
  <2> HIDE DEF Is
  <2> QED BY <1>2
<1>4. \A i \in Places(raw) : Consume(raw, i) = all[i]
  BY DEF Consume, Places
<1> HIDE DEF all
<1>5. \A i \in Places(raw) : all[i] = ConsumeAt(raw, i, all)
  BY <1>3
<1>6. all = [j \in Places(raw) |-> Consume(raw, j)]
  BY <1>3, <1>4
<1> DEFINE T == {i \in Places(raw) : all[i] \in Decoded(raw)}
<1>7. ASSUME NEW i \in Places(raw), \A j \in Places(raw) : j > i => j \in T
      PROVE  i \in T
  <2>1. \A j \in Places(raw) : j > i => all[j] \in Decoded(raw)
    BY <1>7
  <2>2. f[i] \in Decoded(raw)
    BY <1>1
  <2>3. ConsumeAt(raw, i, all) \in Decoded(raw)
    BY <2>1, <2>2, Onward
  <2> QED BY <2>3, <1>5
<1>8. Places(raw) \subseteq T
  <2> HIDE DEF T
  <2> QED BY <1>7, FromTheEnd
<1> QED BY <1>4, <1>5, <1>6, <1>8

\* The equation of the decoder, case by case.
LEMMA ConsumedTyped ==
  ASSUME NEW raw \in Seq(Symbols), NEW i \in Places(raw)
  PROVE  Consume(raw, i) \in Decoded(raw)
BY Consumed

LEMMA ConsumedHeld ==
  ASSUME NEW raw \in Seq(Symbols), NEW i \in Places(raw),
         i > Len(raw) \/ (i <= Len(raw) /\ raw[i] # Quote /\ Character(raw, i) = Held)
  PROVE  Consume(raw, i) = [text |-> <<>>, cursor |-> i, complete |-> FALSE]
<1> DEFINE of == [j \in Places(raw) |-> Consume(raw, j)]
<1>1. Consume(raw, i) = ConsumeAt(raw, i, of)
  BY Consumed
<1>2. i \in Int /\ Len(raw) \in Nat
  BY DEF Places
<1> HIDE DEF of
<1> QED BY <1>1, <1>2 DEF ConsumeAt

LEMMA ConsumedEnd ==
  ASSUME NEW raw \in Seq(Symbols), NEW i \in Places(raw), i <= Len(raw), raw[i] = Quote
  PROVE  Consume(raw, i) = [text |-> <<>>, cursor |-> i + 1, complete |-> TRUE]
<1> DEFINE of == [j \in Places(raw) |-> Consume(raw, j)]
<1>1. Consume(raw, i) = ConsumeAt(raw, i, of)
  BY Consumed
<1>2. i \in Int /\ Len(raw) \in Nat
  BY DEF Places
<1> HIDE DEF of
<1> QED BY <1>1, <1>2 DEF ConsumeAt

\* What is decoded from a place, after a text.
After(text, a) == [a EXCEPT !.text = text \o a.text]

LEMMA ConsumedOn ==
  ASSUME NEW raw \in Seq(Symbols), NEW i \in Places(raw), i <= Len(raw), raw[i] # Quote,
         NEW c, c = Character(raw, i), c # Held, NEW k, k = i + c.length
  PROVE  /\ c.text \in Seq(Letters)
         /\ k \in Places(raw) /\ k > i
         /\ Consume(raw, i) = After(c.text, Consume(raw, k))
<1> DEFINE of == [j \in Places(raw) |-> Consume(raw, j)]
<1>0. i \in Int /\ 1 <= i /\ Len(raw) \in Nat
  BY DEF Places
<1>1. Consume(raw, i) = ConsumeAt(raw, i, of)
  BY Consumed
<1>2. i \in 1..Len(raw)
  BY <1>0
<1>3. k \in Places(raw) /\ k > i /\ c.text \in Seq(Letters)
  BY <1>0, <1>2, CharacterTyped
<1>4. of[k] = Consume(raw, k)
  BY <1>3
<1> HIDE DEF of
<1>5. Consume(raw, i) = After(c.text, of[k])
  BY <1>0, <1>1 DEF ConsumeAt, After
<1> QED BY <1>3, <1>4, <1>5

\* Decoding from where an unfinished decoding ended goes on with it.
Resumed(raw, a) == After(a.text, Consume(raw, a.cursor))

\* Joining texts is associative.
LEMMA ThreeTexts ==
  ASSUME NEW s \in Seq(Letters), NEW t \in Seq(Letters), NEW u \in Seq(Letters)
  PROVE  (s \o t) \o u = s \o (t \o u)
BY ConcatAssociative

\* However what arrives is cut, decoding the first part and going on from there is decoding
\* the whole.
LEMMA Resuming ==
  ASSUME NEW raw \in Seq(Symbols), NEW piece \in Seq(Symbols), NEW i \in Places(raw)
  PROVE  LET a == Consume(raw, i)
         IN Consume(raw \o piece, i) = IF a.complete THEN a ELSE Resumed(raw \o piece, a)
<1> DEFINE all == raw \o piece
           Same(j) == Consume(all, j) = IF Consume(raw, j).complete THEN Consume(raw, j)
                                        ELSE Resumed(all, Consume(raw, j))
           T == {j \in Places(raw) : Same(j)}
<1>0. /\ all \in Seq(Symbols) /\ Len(all) \in Nat /\ Len(raw) \in Nat /\ Len(raw) <= Len(all)
      /\ \A j \in 1..Len(raw) : all[j] = raw[j]
  OBVIOUS
<1>1. Places(raw) \subseteq Places(all)
  BY <1>0 DEF Places
<1>2. \A j \in Places(raw) : Character(raw, j) # Held /\ j \in 1..Len(raw)
                               => Character(all, j) = Character(raw, j)
  BY CharacterStays
<1> HIDE DEF all
<1>4. ASSUME NEW j \in Places(raw), \A k \in Places(raw) : k > j => k \in T
      PROVE  j \in T
  <2> DEFINE a == Consume(raw, j)
             c == Character(raw, j)
  <2>0. /\ j \in Int /\ 1 <= j /\ j <= Len(raw) + 1
        /\ j \in Places(all)
    <3> HIDE DEF T, Same
    <3> QED BY <1>0, <1>1 DEF Places
  <2>5. a \in Decoded(raw) /\ Consume(all, j) \in Decoded(all)
    <3> HIDE DEF T, Same
    <3> QED BY <1>0, <2>0, ConsumedTyped
  <2> SUFFICES Same(j)
    OBVIOUS
  <2>1. CASE a = [text |-> <<>>, cursor |-> j, complete |-> FALSE]
    <3>1. Consume(all, j).text \in Seq(Letters)
      BY <2>5 DEF Decoded
    <3>2. <<>> \o Consume(all, j).text = Consume(all, j).text
      BY <3>1
    <3>3. [Consume(all, j) EXCEPT !.text = Consume(all, j).text] = Consume(all, j)
      BY <2>5 DEF Decoded
    <3>4. Resumed(all, a) = Consume(all, j)
      BY <2>1, <3>2, <3>3 DEF Resumed, After
    <3> QED BY <2>1, <3>4
  <2>2. CASE j <= Len(raw) /\ raw[j] = Quote
    <3>0. j <= Len(all) /\ all[j] = Quote
      BY <1>0, <2>0, <2>2
    <3>1. a = [text |-> <<>>, cursor |-> j + 1, complete |-> TRUE]
      <4> HIDE DEF T, Same
      <4> QED BY <2>2, ConsumedEnd
    <3>2. Consume(all, j) = [text |-> <<>>, cursor |-> j + 1, complete |-> TRUE]
      <4> HIDE DEF T, Same
      <4> QED BY <1>0, <2>0, <3>0, ConsumedEnd
    <3> QED BY <3>1, <3>2
  <2>3. CASE j <= Len(raw) /\ raw[j] # Quote /\ c # Held
    <3> DEFINE k == j + c.length
               b == Consume(raw, k)
    <3>1. j \in 1..Len(raw) /\ j <= Len(all) /\ all[j] # Quote
      BY <1>0, <2>0, <2>3
    <3>2. Character(all, j) = c
      BY <1>2, <2>3, <3>1
    <3>3. /\ c.text \in Seq(Letters) /\ k \in Places(raw) /\ k > j
          /\ a = After(c.text, b)
      <4>1. c = Character(raw, j) /\ k = j + c.length /\ a = Consume(raw, j) /\ b = Consume(raw, k)
        OBVIOUS
      <4> HIDE DEF T, Same, a, b, c, k
      <4>2. j <= Len(raw) /\ raw[j] # Quote /\ c # Held
        BY <2>3
      <4>3. c.text \in Seq(Letters)
        BY <4>1, <4>2, ConsumedOn
      <4>4. k \in Places(raw) /\ k > j
        BY <4>1, <4>2, ConsumedOn
      <4>5. Consume(raw, j) = After(c.text, Consume(raw, k))
        BY <4>1, <4>2, ConsumedOn
      <4> QED BY <4>1, <4>3, <4>4, <4>5
    <3>8. k \in Places(all)
      <4> HIDE DEF k
      <4> QED BY <1>1, <3>3
    <3>4. Consume(all, j) = After(c.text, Consume(all, k))
      <4>1. k = j + c.length
        OBVIOUS
      <4> HIDE DEF T, Same, a, b, c, k
      <4> QED BY <1>0, <2>0, <2>3, <3>1, <3>2, <4>1, ConsumedOn
    <3>5. b \in Decoded(raw) /\ Consume(all, k) \in Decoded(all)
      <4> HIDE DEF T, Same, k
      <4> QED BY <1>0, <3>3, <3>8, ConsumedTyped
    <3>6. Same(k)
      <4> HIDE DEF Same, k
      <4> QED BY <1>4, <3>3
    <3>7. Consume(all, k) = IF b.complete THEN b ELSE Resumed(all, b)
      BY <3>6
    <3> HIDE DEF c, k, a, b
    <3>11. CASE b.complete
      <4>1. Consume(all, k) = b
        BY <3>7, <3>11
      <4>2. a.complete
        BY <3>5, <3>3, <3>11 DEF Decoded, After
      <4> QED BY <3>3, <3>4, <4>1, <4>2 DEF a
    <3>12. CASE ~b.complete
      <4> DEFINE r == Consume(all, b.cursor)
      <4>1. Consume(all, k) = [r EXCEPT !.text = b.text \o r.text]
        BY <3>7, <3>12 DEF Resumed, After
      <4>2. ~a.complete /\ a.cursor = b.cursor /\ a.text = c.text \o b.text
        BY <3>5, <3>3, <3>12 DEF Decoded, After
      <4>3. r \in Decoded(all)
        <5>1. b.cursor \in Places(all)
          BY <3>5, <1>1 DEF Decoded
        <5> QED BY <5>1, <1>0, ConsumedTyped
      <4>4. Resumed(all, a) = [r EXCEPT !.text = a.text \o r.text]
        BY <4>2 DEF Resumed, After
      <4>5. b.text \in Seq(Letters) /\ r.text \in Seq(Letters)
        BY <3>5, <4>3 DEF Decoded
      <4> HIDE DEF r
      <4>6. (c.text \o b.text) \o r.text = c.text \o (b.text \o r.text)
        BY <3>3, <4>5, ThreeTexts
      <4>7. Consume(all, j) = [r EXCEPT !.text = c.text \o (b.text \o r.text)]
        BY <3>4, <4>1, <4>3 DEF Decoded, After
      <4>8. Consume(all, j) = Resumed(all, a)
        BY <4>2, <4>4, <4>6, <4>7
      <4> QED BY <4>2, <4>8 DEF a
    <3> QED BY <3>11, <3>12
  <2>4. CASE j > Len(raw) \/ (j <= Len(raw) /\ raw[j] # Quote /\ c = Held)
    <3>1. a = [text |-> <<>>, cursor |-> j, complete |-> FALSE]
      <4> HIDE DEF T, Same
      <4> QED BY <2>4, ConsumedHeld
    <3> QED BY <2>1, <3>1
  <2> QED BY <1>0, <2>0, <2>2, <2>3, <2>4
<1>5. Places(raw) \subseteq T
  <2> HIDE DEF T
  <2> QED BY <1>4, FromTheEnd
<1>6. Same(i)
  BY <1>5
<1> QED BY <1>6 DEF all

(***************************************************************************)
(* The requests.                                                           *)
(***************************************************************************)
Replies == [trust : BOOLEAN, text : Seq(Letters)]
Phases == {"idle", "embedding", "writing", "judged", "ready", "storing", "done", "failed"}
AskRows == [phase : Phases, live : BOOLEAN, to : {Thread, Foreign} \cup Askers,
            head : {"unseen", "grounded", "ungrounded"}, raw : Seq(Symbols), cursor : Nat,
            parts : Seq(Letters), complete : BOOLEAN, tokens : Seq(Letters), core : Replies,
            at : Nat]

\* What has been decoded is what the whole decodes to.
DecodesWhole(a) ==
  /\ Len(a.raw) <= MaxText
  /\ Consume(a.raw, 1) = [text |-> a.parts, cursor |-> a.cursor, complete |-> a.complete]

\* What has been shown is what has been decoded of an answer that was called grounded.
ShowsDecoded(a) ==
  /\ a.head = "unseen" => a.parts = <<>> /\ a.tokens = <<>>
  /\ a.head = "ungrounded" => a.tokens = <<>>
  /\ a.head = "grounded" => a.tokens = a.parts
  /\ a.phase \in {"idle", "embedding"} \/ (a.phase = "writing" /\ ~a.live) => a.head = "unseen"
  /\ a.phase \in {"judged", "ready", "storing", "done"} /\ a.tokens # <<>>
       => a.core = [trust |-> TRUE, text |-> a.tokens]

AskStands(a) ==
  /\ DecodesWhole(a) /\ ShowsDecoded(a)
  /\ a.phase \in {"storing", "done"} => a.at # 0

\* The rows of a turn that has been stored.
TurnRows(r, a) ==
  {[conversation |-> a.to, turn |-> r, role |-> "user", text |-> <<"question">>, at |-> a.at],
   [conversation |-> a.to, turn |-> r, role |-> "assistant", text |-> a.core.text, at |-> a.at]}

AsksStand ==
  /\ ask \in [Askers -> AskRows] /\ logged \subseteq Askers /\ remembered \in Replies
  /\ clock \in Nat
  /\ \A r \in Askers : AskStands(ask[r]) /\ ask[r].at <= clock
  /\ \A r, q \in Askers : ask[r].at # 0 /\ ask[r].at = ask[q].at => r = q
TurnsStand ==
  /\ IsFiniteSet(messages)
  /\ \A m \in messages : /\ m.turn \in Askers /\ ask[m.turn].phase = "done"
                         /\ m \in TurnRows(m.turn, ask[m.turn])
ChatInvariant == AsksStand /\ TurnsStand

\* Nothing decodes to nothing.
LEMMA FirstDecoded == Consume(<<>>, 1) = [text |-> <<>>, cursor |-> 1, complete |-> FALSE]
<1>1. <<>> \in Seq(Symbols) /\ 1 \in Places(<<>>) /\ 1 > Len(<<>>)
  BY DEF Places
<1> QED BY <1>1, ConsumedHeld

\* A request that has not been made has the type of one.
LEMMA FirstAskTyped == NoReply \in Replies /\ Fresh \in AskRows
<1>1. NoReply \in Replies
  <2>1. <<"none">> \in Seq(Letters)
    BY DEF Letters
  <2> QED BY <2>1 DEF NoReply, Replies
<1>2. Fresh \in AskRows
  BY <1>1 DEF Fresh, AskRows, Phases
<1> QED BY <1>1, <1>2

\* The invariant holds at first.
LEMMA ChatBegins == ChatInit => ChatInvariant
<1> SUFFICES ASSUME ChatInit PROVE ChatInvariant
  OBVIOUS
<1>1. NoReply \in Replies
  BY FirstAskTyped
<1>2. Fresh \in AskRows
  BY FirstAskTyped
<1>3. AskStands(Fresh)
  BY FirstDecoded, ChatConstants DEF Fresh, AskStands, DecodesWhole, ShowsDecoded
<1>4. AsksStand
  <2>1. \A r \in Askers : ask[r] = Fresh
    BY DEF ChatInit
  <2>2. Fresh.at = 0
    BY DEF Fresh
  <2>3. ask \in [Askers -> AskRows]
    BY <1>2 DEF ChatInit
  <2>4. logged \subseteq Askers /\ remembered \in Replies /\ clock = 0
    BY <1>1 DEF ChatInit
  <2> QED BY <1>3, <2>1, <2>2, <2>3, <2>4 DEF AsksStand
<1>5. TurnsStand
  BY FS_EmptySet DEF ChatInit, TurnsStand
<1> QED BY <1>4, <1>5 DEF ChatInvariant

\* A piece is a sequence of symbols.
LEMMA PieceTyped == ASSUME NEW piece \in Pieces PROVE piece \in Seq(Symbols)
<1>1. PICK n \in 1..MaxPiece : piece \in [1..n -> Symbols]
  BY DEF Pieces
<1> QED BY <1>1

\* A piece that arrives: what it leaves of the request.
LEMMA FedStands ==
  ASSUME NEW r \in Askers, NEW verdict \in {"grounded", "ungrounded"}, NEW piece \in Pieces,
         AsksStand, Feed(r, verdict, piece)
  PROVE  \E b \in AskRows : /\ AskStands(b) /\ ask' = [ask EXCEPT ![r] = b]
                            /\ b.at = ask[r].at /\ ask[r].phase = "writing"
<1> DEFINE raw == ask[r].raw \o piece
           new == IF ask[r].complete
                    THEN [text |-> <<>>, cursor |-> ask[r].cursor, complete |-> TRUE]
                    ELSE Consume(raw, ask[r].cursor)
           a == [ask[r] EXCEPT !.raw = raw, !.cursor = new.cursor, !.complete = new.complete,
                               !.parts = @ \o new.text,
                               !.head = IF @ = "unseen" THEN verdict ELSE @]
           b == IF Shown(a) THEN [a EXCEPT !.tokens = @ \o new.text] ELSE a
<1>1. /\ ask[r].phase = "writing" /\ ask[r].live /\ Len(raw) <= MaxText
      /\ ask[r].head # "unseen" => verdict = ask[r].head
      /\ ask' = [ask EXCEPT ![r] = b]
  BY DEF Feed
<1>2. ask[r] \in AskRows /\ AskStands(ask[r])
  BY DEF AsksStand
<1>3. /\ piece \in Seq(Symbols) /\ ask[r].raw \in Seq(Symbols) /\ raw \in Seq(Symbols)
      /\ 1 \in Places(ask[r].raw) /\ 1 \in Places(raw)
  <2>1. piece \in Seq(Symbols) /\ ask[r].raw \in Seq(Symbols)
    BY <1>2, PieceTyped DEF AskRows
  <2>2. raw \in Seq(Symbols) /\ Len(raw) \in Nat /\ Len(ask[r].raw) \in Nat
    BY <2>1
  <2> QED BY <2>1, <2>2 DEF Places
<1> HIDE DEF raw
<1>4. Consume(ask[r].raw, 1)
        = [text |-> ask[r].parts, cursor |-> ask[r].cursor, complete |-> ask[r].complete]
  BY <1>2 DEF AskStands, DecodesWhole
<1>5. /\ new \in [text : Seq(Letters), cursor : Nat, complete : BOOLEAN]
      /\ Consume(raw, 1) = [text |-> ask[r].parts \o new.text, cursor |-> new.cursor,
                            complete |-> new.complete]
  <2>0. ask[r].parts \in Seq(Letters) /\ ask[r].cursor \in Nat /\ ask[r].complete \in BOOLEAN
    BY <1>2 DEF AskRows
  <2>1. CASE ask[r].complete
    <3>1. new = [text |-> <<>>, cursor |-> ask[r].cursor, complete |-> TRUE]
      BY <2>1
    <3>2. Consume(raw, 1) = Consume(ask[r].raw, 1)
      BY <1>3, <1>4, <2>1, Resuming DEF raw
    <3>3. ask[r].parts \o <<>> = ask[r].parts
      BY <2>0
    <3> HIDE DEF new
    <3> QED BY <1>4, <2>0, <2>1, <3>1, <3>2, <3>3
  <2>2. CASE ~ask[r].complete
    <3>1. new = Consume(raw, ask[r].cursor)
      BY <2>2
    <3>2. Consume(raw, 1) = Resumed(raw, Consume(ask[r].raw, 1))
      BY <1>3, <1>4, <2>2, Resuming DEF raw
    <3>3. ask[r].cursor \in Places(raw)
      <4>1. Consume(ask[r].raw, 1) \in Decoded(ask[r].raw)
        BY <1>3, ConsumedTyped
      <4>2. ask[r].cursor \in Places(ask[r].raw)
        BY <1>4, <4>1 DEF Decoded
      <4>3. Len(raw) \in Nat /\ Len(ask[r].raw) \in Nat /\ Len(ask[r].raw) <= Len(raw)
        BY <1>3 DEF raw
      <4> QED BY <4>2, <4>3 DEF Places
    <3>4. new \in Decoded(raw)
      BY <1>3, <3>1, <3>3, ConsumedTyped
    <3>5. Consume(raw, 1) = After(ask[r].parts, new)
      BY <1>4, <3>1, <3>2 DEF Resumed
    <3> HIDE DEF new
    <3>6. new \in [text : Seq(Letters), cursor : Nat, complete : BOOLEAN]
      BY <1>3, <3>4 DEF Decoded, Places
    <3>7. After(ask[r].parts, new) = [text |-> ask[r].parts \o new.text, cursor |-> new.cursor,
                                      complete |-> new.complete]
      <4>1. ask[r].parts \o new.text \in Seq(Letters)
        BY <2>0, <3>6
      <4>2. After(ask[r].parts, new) \in [text : Seq(Letters), cursor : Nat, complete : BOOLEAN]
        BY <3>6, <4>1 DEF After
      <4> DEFINE w == After(ask[r].parts, new)
      <4>3. w.text = ask[r].parts \o new.text /\ w.cursor = new.cursor /\ w.complete = new.complete
        BY <3>6 DEF After
      <4>4. w = [text |-> w.text, cursor |-> w.cursor, complete |-> w.complete]
        <5> HIDE DEF w
        <5> QED BY <4>2 DEF w
      <4> HIDE DEF w
      <4> QED BY <4>3, <4>4 DEF w
    <3> QED BY <3>5, <3>6, <3>7
  <2> QED BY <2>0, <2>1, <2>2
<1> HIDE DEF new
<1>6. /\ a \in AskRows /\ a.raw = raw /\ a.parts = ask[r].parts \o new.text
      /\ a.cursor = new.cursor /\ a.complete = new.complete /\ a.tokens = ask[r].tokens
      /\ a.head = (IF ask[r].head = "unseen" THEN verdict ELSE ask[r].head)
      /\ a.at = ask[r].at /\ a.phase = "writing" /\ a.live
  <2>1. ask[r].parts \o new.text \in Seq(Letters)
    BY <1>2, <1>5 DEF AskRows
  <2> QED BY <1>1, <1>2, <1>3, <1>5, <2>1 DEF AskRows
<1> HIDE DEF a
<1>7. /\ b \in AskRows /\ b.raw = raw /\ b.parts = a.parts /\ b.cursor = a.cursor
      /\ b.complete = a.complete /\ b.head = a.head /\ b.at = a.at /\ b.phase = "writing"
      /\ b.live
      /\ b.tokens = IF a.head = "grounded" THEN ask[r].tokens \o new.text ELSE ask[r].tokens
  <2>1. ask[r].tokens \o new.text \in Seq(Letters)
    BY <1>2, <1>5 DEF AskRows
  <2>2. CASE a.head = "grounded"
    BY <1>6, <2>1, <2>2 DEF AskRows, Shown
  <2>3. CASE a.head # "grounded"
    BY <1>6, <2>3 DEF Shown
  <2> QED BY <2>2, <2>3
<1> HIDE DEF b
<1>8. DecodesWhole(b)
  BY <1>1, <1>5, <1>6, <1>7 DEF DecodesWhole
<1>9. ShowsDecoded(b)
  <2>1. ShowsDecoded(ask[r]) /\ ask[r].head \in {"unseen", "grounded", "ungrounded"}
    BY <1>2 DEF AskStands, AskRows
  <2>2. a.head \in {"grounded", "ungrounded"} /\ (ask[r].head # "unseen" => a.head = ask[r].head)
    BY <1>1, <1>6, <2>1
  <2>3. a.head = "grounded" => ask[r].tokens = ask[r].parts
    BY <2>1, <2>2 DEF ShowsDecoded
  <2>4. a.head = "ungrounded" => ask[r].tokens = <<>>
    BY <2>1, <2>2 DEF ShowsDecoded
  <2> QED BY <1>6, <1>7, <2>2, <2>3, <2>4 DEF ShowsDecoded
<1> QED BY <1>1, <1>6, <1>7, <1>8, <1>9 DEF AskStands

\* What a step does to one request, the times apart, leaves the requests as they should be.
LEMMA OneAskChanges ==
  ASSUME AsksStand, NEW r \in Askers, NEW STATE b, b \in AskRows, AskStands(b),
         ask' = [ask EXCEPT ![r] = b], clock' \in Nat, clock' >= clock,
         b.at <= clock', b.at = ask[r].at \/ b.at > clock \/ b.at = 0,
         logged' \subseteq Askers, remembered' \in Replies
  PROVE  AsksStand'
<1>1. ask' \in [Askers -> AskRows] /\ \A q \in Askers : ask'[q] = IF q = r THEN b ELSE ask[q]
  BY DEF AsksStand
<1>2. clock \in Nat /\ \A q \in Askers : ask[q].at \in Nat /\ ask[q].at <= clock
  BY DEF AsksStand, AskRows
<1>3. b.at \in Nat
  BY DEF AskRows
<1>4. \A q \in Askers : AskStands(ask'[q]) /\ ask'[q].at <= clock'
  BY <1>1, <1>2 DEF AsksStand
<1>5. ASSUME NEW p \in Askers, NEW q \in Askers, ask'[p].at # 0, ask'[p].at = ask'[q].at
      PROVE  p = q
  <2>1. ask[p].at # 0 /\ ask[p].at = ask[q].at => p = q
    BY DEF AsksStand
  <2> QED BY <1>1, <1>2, <1>3, <1>5, <2>1
<1> QED BY <1>1, <1>4, <1>5 DEF AsksStand

\* What it does to the rows of turns that are not yet done.
LEMMA OtherTurnsStay ==
  ASSUME AsksStand, TurnsStand, NEW r \in Askers, NEW STATE b, ask[r].phase # "done",
         ask' = [ask EXCEPT ![r] = b], UNCHANGED messages
  PROVE  TurnsStand'
<1>1. \A m \in messages : ask'[m.turn] = ask[m.turn]
  BY DEF AsksStand, TurnsStand
<1> QED BY <1>1 DEF TurnsStand

\* A step of one request that is not done.
OneAsk(r) ==
  /\ ask[r].phase # "done"
  /\ \E b \in AskRows : /\ AskStands(b) /\ ask' = [ask EXCEPT ![r] = b] /\ b.at <= clock'
                        /\ b.at = ask[r].at \/ b.at > clock \/ b.at = 0
  /\ clock' \in Nat /\ clock' >= clock
  /\ logged' \subseteq Askers /\ remembered' \in Replies /\ UNCHANGED messages

\* Such a step keeps the invariant.
LEMMA OneAskGoesOn ==
  ASSUME ChatInvariant, NEW r \in Askers, OneAsk(r)
  PROVE  ChatInvariant'
<1>0. AsksStand /\ TurnsStand
  BY DEF ChatInvariant
<1>1. PICK b \in AskRows : /\ AskStands(b) /\ ask' = [ask EXCEPT ![r] = b] /\ b.at <= clock'
                           /\ b.at = ask[r].at \/ b.at > clock \/ b.at = 0
  BY DEF OneAsk
<1>2. /\ ask[r].phase # "done" /\ clock' \in Nat /\ clock' >= clock
      /\ logged' \subseteq Askers /\ remembered' \in Replies /\ UNCHANGED messages
  BY DEF OneAsk
<1>3. AsksStand'
  BY <1>0, <1>1, <1>2, OneAskChanges
<1>4. TurnsStand'
  BY <1>0, <1>1, <1>2, OtherTurnsStay
<1> QED BY <1>3, <1>4 DEF ChatInvariant

\* A step that begins no transaction and stores nothing is such a step.
LEMMA OneAskStep ==
  ASSUME AsksStand, NEW r \in Askers, ask[r].phase # "done",
         NEW STATE b, b \in AskRows, AskStands(b), ask' = [ask EXCEPT ![r] = b],
         b.at = ask[r].at \/ b.at = 0, UNCHANGED <<messages, logged, clock>>,
         remembered' = remembered \/ remembered' \in Replies
  PROVE  OneAsk(r)
<1>1. /\ clock \in Nat /\ ask[r].at <= clock /\ logged \subseteq Askers
      /\ remembered \in Replies
  BY DEF AsksStand
<1>2. clock' \in Nat /\ clock' >= clock /\ UNCHANGED messages
  BY <1>1
<1>3. logged' \subseteq Askers /\ remembered' \in Replies
  BY <1>1
<1>4. b.at <= clock' /\ (b.at = ask[r].at \/ b.at > clock \/ b.at = 0)
  BY <1>1
<1> QED BY <1>2, <1>3, <1>4 DEF OneAsk

\* Every step keeps the invariant.
LEMMA ChatGoesOn == ChatInvariant /\ [ChatNext]_chatVars => ChatInvariant'
<1> SUFFICES ASSUME ChatInvariant, [ChatNext]_chatVars PROVE ChatInvariant'
  OBVIOUS
<1>0. AsksStand /\ TurnsStand
  BY DEF ChatInvariant
<1>t. /\ \A r \in Askers : /\ ask[r] \in AskRows /\ AskStands(ask[r])
                           /\ ask[r].at \in Nat /\ ask[r].at <= clock
      /\ logged \subseteq Askers /\ remembered \in Replies /\ clock \in Nat
      /\ NoReply \in Replies
  BY <1>0, FirstAskTyped DEF AsksStand, AskRows
<1>2. CASE Forget
  BY <1>0, <1>t, <1>2 DEF Forget, ChatInvariant, AsksStand, TurnsStand
<1>3. ASSUME NEW r \in Askers, NEW live \in BOOLEAN, NEW to \in {Thread, Foreign, r},
             Ask(r, live, to)
      PROVE  ChatInvariant'
  <2> DEFINE b == [Fresh EXCEPT !.live = live, !.to = to,
                     !.phase = IF remembered.trust THEN "ready" ELSE "embedding",
                     !.core = remembered]
  <2>1. b \in AskRows
    <3>1. Fresh \in AskRows /\ remembered \in Replies /\ to \in {Thread, Foreign} \cup Askers
      BY <1>t, FirstAskTyped
    <3> QED BY <3>1 DEF AskRows, Phases
  <2>2. AskStands(b) /\ b.at = 0
    <3>1. DecodesWhole(b)
      BY FirstDecoded, ChatConstants DEF DecodesWhole, Fresh
    <3>2. ShowsDecoded(b)
      BY DEF ShowsDecoded, Fresh
    <3> QED BY <3>1, <3>2 DEF AskStands, Fresh
  <2>3. ask[r].phase # "done" /\ ask' = [ask EXCEPT ![r] = b]
        /\ UNCHANGED <<messages, logged, remembered, clock>>
    BY <1>3 DEF Ask
  <2> HIDE DEF b
  <2>5. OneAsk(r)
    BY <1>0, <2>1, <2>2, <2>3, OneAskStep
  <2> QED BY <2>5, OneAskGoesOn
<1>4. ASSUME NEW r \in Askers, NEW found \in BOOLEAN, Look(r, found)
      PROVE  ChatInvariant'
  <2> DEFINE b == [ask[r] EXCEPT !.phase = IF found THEN "writing" ELSE "judged"]
  <2>r. ask[r] \in AskRows /\ AskStands(ask[r])
    BY <1>t
  <2>1. b \in AskRows
    BY <2>r DEF AskRows, Phases
  <2>2. AskStands(b) /\ b.at = ask[r].at
    BY <2>r, <1>4 DEF Look, AskRows, AskStands, DecodesWhole, ShowsDecoded
  <2>3. ask[r].phase # "done" /\ ask' = [ask EXCEPT ![r] = b]
        /\ UNCHANGED <<messages, logged, remembered, clock>>
    BY <1>4 DEF Look
  <2> HIDE DEF b
  <2>5. OneAsk(r)
    BY <1>0, <2>1, <2>2, <2>3, OneAskStep
  <2> QED BY <2>5, OneAskGoesOn
<1>5. ASSUME NEW r \in Askers, NEW grounded \in BOOLEAN, Reply(r, grounded)
      PROVE  ChatInvariant'
  <2> DEFINE b == [ask[r] EXCEPT !.phase = "judged", !.core = Core(grounded, <<"u">>)]
  <2>0. Core(grounded, <<"u">>) \in Replies
    <3>1. <<"u">> \in Seq(Letters)
      BY DEF Letters, Symbols
    <3> QED BY <1>t, <3>1 DEF Core, Replies
  <2>r. ask[r] \in AskRows /\ AskStands(ask[r])
    BY <1>t
  <2>1. b \in AskRows
    BY <2>r, <2>0 DEF AskRows, Phases
  <2>2. AskStands(b) /\ b.at = ask[r].at
    BY <2>r, <1>5, <2>0 DEF Reply, AskRows, AskStands, DecodesWhole, ShowsDecoded
  <2>3. ask[r].phase # "done" /\ ask' = [ask EXCEPT ![r] = b]
        /\ UNCHANGED <<messages, logged, remembered, clock>>
    BY <1>5 DEF Reply
  <2> HIDE DEF b
  <2>5. OneAsk(r)
    BY <1>0, <2>1, <2>2, <2>3, OneAskStep
  <2> QED BY <2>5, OneAskGoesOn
<1>6. ASSUME NEW r \in Askers, NEW verdict \in {"grounded", "ungrounded"}, NEW piece \in Pieces,
             Feed(r, verdict, piece)
      PROVE  ChatInvariant'
  <2>1. PICK b \in AskRows : /\ AskStands(b) /\ ask' = [ask EXCEPT ![r] = b]
                             /\ b.at = ask[r].at /\ ask[r].phase = "writing"
    BY <1>0, <1>6, FedStands
  <2>2. UNCHANGED <<messages, logged, remembered, clock>>
    BY <1>6 DEF Feed
  <2>5. OneAsk(r)
    BY <1>0, <2>1, <2>2, OneAskStep
  <2> QED BY <2>5, OneAskGoesOn
<1>7. ASSUME NEW r \in Askers, EndReply(r)
      PROVE  ChatInvariant'
  <2> DEFINE b == [ask[r] EXCEPT !.phase = "judged",
                                 !.core = Core(ask[r].head = "grounded", ask[r].parts)]
  <2>0. Core(ask[r].head = "grounded", ask[r].parts) \in Replies
    BY <1>t DEF Core, Replies, AskRows
  <2>r. ask[r] \in AskRows /\ AskStands(ask[r])
    BY <1>t
  <2>1. b \in AskRows
    BY <2>r, <2>0 DEF AskRows, Phases
  <2>2. AskStands(b) /\ b.at = ask[r].at
    BY <2>r, <1>7, <2>0 DEF EndReply, AskRows, AskStands, DecodesWhole, ShowsDecoded, Core
  <2>3. ask[r].phase # "done" /\ ask' = [ask EXCEPT ![r] = b]
        /\ UNCHANGED <<messages, logged, remembered, clock>>
    BY <1>7 DEF EndReply
  <2> HIDE DEF b
  <2>5. OneAsk(r)
    BY <1>0, <2>1, <2>2, <2>3, OneAskStep
  <2> QED BY <2>5, OneAskGoesOn
<1>8. ASSUME NEW r \in Askers, Remember(r)
      PROVE  ChatInvariant'
  <2> DEFINE b == [ask[r] EXCEPT !.phase = "ready"]
  <2>r. ask[r] \in AskRows /\ AskStands(ask[r])
    BY <1>t
  <2>1. b \in AskRows
    BY <2>r DEF AskRows, Phases
  <2>4. remembered' \in Replies
    BY <1>t, <1>8, <2>r DEF Remember, AskRows
  <2>2. AskStands(b) /\ b.at = ask[r].at
    BY <2>r, <1>8 DEF Remember, AskRows, AskStands, DecodesWhole, ShowsDecoded
  <2>3. ask[r].phase # "done" /\ ask' = [ask EXCEPT ![r] = b]
        /\ UNCHANGED <<messages, logged, clock>>
    BY <1>8 DEF Remember
  <2> HIDE DEF b
  <2>5. OneAsk(r)
    BY <1>0, <2>1, <2>2, <2>3, <2>4, OneAskStep
  <2> QED BY <2>5, OneAskGoesOn
<1>9. ASSUME NEW r \in Askers, BeginTurn(r)
      PROVE  ChatInvariant'
  <2> DEFINE b == [ask[r] EXCEPT !.phase = "storing", !.at = clock + 1]
  <2>r. ask[r] \in AskRows /\ AskStands(ask[r]) /\ clock + 1 \in Nat /\ clock + 1 # 0
    BY <1>t
  <2>1. b \in AskRows
    BY <2>r DEF AskRows, Phases
  <2>2. AskStands(b) /\ b.at = clock + 1
    BY <2>r, <1>9 DEF BeginTurn, AskRows, AskStands, DecodesWhole, ShowsDecoded
  <2>3. ask[r].phase # "done" /\ ask' = [ask EXCEPT ![r] = b] /\ clock' = clock + 1
        /\ UNCHANGED <<messages, logged, remembered>>
    BY <1>9 DEF BeginTurn
  <2> HIDE DEF b
  <2>5. OneAsk(r)
    <3>1. clock' \in Nat /\ clock' >= clock /\ UNCHANGED messages
      BY <1>t, <2>3
    <3>2. logged' \subseteq Askers /\ remembered' \in Replies
      BY <1>t, <2>3
    <3>3. b.at <= clock' /\ (b.at = ask[r].at \/ b.at > clock \/ b.at = 0)
      BY <1>t, <2>2, <2>3
    <3>4. ask' = [ask EXCEPT ![r] = b] /\ ask[r].phase # "done"
      BY <2>3
    <3> QED BY <3>1, <3>2, <3>3, <3>4, <2>1, <2>2 DEF OneAsk
  <2> QED BY <2>5, OneAskGoesOn
<1>10. ASSUME NEW r \in Askers, CommitTurn(r)
       PROVE  ChatInvariant'
  <2> DEFINE b == [ask[r] EXCEPT !.phase = "done"]
  <2>r. ask[r] \in AskRows /\ AskStands(ask[r])
    BY <1>t
  <2>1. b \in AskRows
    BY <2>r DEF AskRows, Phases
  <2>2. /\ AskStands(b) /\ b.at = ask[r].at /\ b.phase = "done" /\ b.to = ask[r].to
        /\ b.core = ask[r].core
    BY <2>r, <1>10 DEF CommitTurn, AskRows, AskStands, DecodesWhole, ShowsDecoded
  <2>3. ask[r].phase = "storing" /\ ask' = [ask EXCEPT ![r] = b]
        /\ UNCHANGED <<remembered, clock>> /\ logged' = logged \cup {r}
    BY <1>10 DEF CommitTurn
  <2>4. messages' \subseteq messages \cup TurnRows(r, b) /\ IsFiniteSet(messages')
    <3> DEFINE rows == {Message(r, "user", <<"question">>),
                        Message(r, "assistant", ask[r].core.text)}
    <3>1. rows = TurnRows(r, b)
      BY <2>2 DEF Message, TurnRows
    <3>2. IsFiniteSet(messages) /\ IsFiniteSet(rows)
      <4>1. rows = {Message(r, "user", <<"question">>)}
                     \cup {Message(r, "assistant", ask[r].core.text)}
        OBVIOUS
      <4> HIDE DEF rows
      <4> QED BY <1>0, <4>1, FS_Singleton, FS_AddElement DEF TurnsStand
    <3>3. IsFiniteSet(messages \cup rows)
      <4> HIDE DEF rows
      <4> QED BY <3>2, FS_Union
    <3>4. messages' = messages \/ messages' = messages \cup rows
      BY <1>10 DEF CommitTurn
    <3> HIDE DEF rows, b
    <3> QED BY <3>1, <3>2, <3>3, <3>4
  <2> HIDE DEF b
  <2>5. AsksStand'
    <3>1. /\ clock' \in Nat /\ clock' >= clock /\ logged' \subseteq Askers
          /\ remembered' \in Replies /\ b.at <= clock'
      BY <1>t, <2>2, <2>3
    <3> QED BY <1>0, <2>1, <2>2, <2>3, <3>1, OneAskChanges
  <2>6. TurnsStand'
    <3>1. ask'[r] = b /\ \A q \in Askers \ {r} : ask'[q] = ask[q]
      BY <2>1, <2>3, <1>0 DEF AsksStand
    <3>2. ASSUME NEW m \in messages'
          PROVE  /\ m.turn \in Askers /\ ask'[m.turn].phase = "done"
                 /\ m \in TurnRows(m.turn, ask'[m.turn])
      <4>1. CASE m \in messages
        <5>1. m.turn \in Askers \ {r}
          BY <1>0, <2>3, <4>1 DEF TurnsStand
        <5> QED BY <1>0, <3>1, <4>1, <5>1 DEF TurnsStand
      <4>2. CASE m \in TurnRows(r, b)
        <5>1. m.turn = r
          BY <4>2 DEF TurnRows
        <5> QED BY <2>2, <3>1, <4>2, <5>1
      <4> QED BY <2>4, <4>1, <4>2
    <3> QED BY <2>4, <3>2 DEF TurnsStand
  <2> QED BY <2>5, <2>6 DEF ChatInvariant
<1>11. ASSUME NEW r \in Askers, FailAsk(r)
       PROVE  ChatInvariant'
  <2> DEFINE b == [ask[r] EXCEPT !.phase = "failed"]
  <2>r. ask[r] \in AskRows /\ AskStands(ask[r])
    BY <1>t
  <2>1. b \in AskRows
    BY <2>r DEF AskRows, Phases
  <2>2. AskStands(b) /\ b.at = ask[r].at
    BY <2>r, <1>11 DEF FailAsk, AskRows, AskStands, DecodesWhole, ShowsDecoded
  <2>3. ask[r].phase # "done" /\ ask' = [ask EXCEPT ![r] = b]
        /\ UNCHANGED <<messages, logged, remembered, clock>>
    BY <1>11 DEF FailAsk
  <2> HIDE DEF b
  <2>5. OneAsk(r)
    BY <1>0, <2>1, <2>2, <2>3, OneAskStep
  <2> QED BY <2>5, OneAskGoesOn
<1>12. CASE UNCHANGED chatVars
  BY <1>0, <1>12 DEF chatVars, ChatInvariant, AsksStand, TurnsStand
<1> QED
  BY <1>2, <1>3, <1>4, <1>5, <1>6, <1>7, <1>8, <1>9, <1>10, <1>11, <1>12 DEF ChatNext

\* The invariant implies the types and the two properties that need an argument.
LEMMA ChatIsTyped == ChatInvariant => ChatTypeOK
<1> SUFFICES ASSUME ChatInvariant PROVE ChatTypeOK
  OBVIOUS
<1>0. AsksStand /\ TurnsStand
  BY DEF ChatInvariant
<1>1. ASSUME NEW r \in Askers
      PROVE  /\ ask[r].phase \in {"idle", "embedding", "writing", "judged", "ready", "storing",
                                  "done", "failed"}
             /\ ask[r].head \in {"unseen", "grounded", "ungrounded"} /\ ask[r].live \in BOOLEAN
             /\ ask[r].cursor \in 1..(MaxText + MaxPiece + 1) /\ ask[r].complete \in BOOLEAN
             /\ ask[r].at \in 0..clock /\ ask[r].core.trust \in BOOLEAN
  <2>1. ask[r] \in AskRows /\ DecodesWhole(ask[r]) /\ ask[r].at <= clock
    BY <1>0 DEF AsksStand, AskStands
  <2>2. ask[r].cursor \in 1..(MaxText + MaxPiece + 1)
    <3>1. ask[r].raw \in Seq(Symbols) /\ Len(ask[r].raw) \in Nat /\ Len(ask[r].raw) <= MaxText
      BY <2>1 DEF AskRows, DecodesWhole
    <3>2. 1 \in Places(ask[r].raw)
      BY <3>1 DEF Places
    <3>3. Consume(ask[r].raw, 1) \in Decoded(ask[r].raw)
      BY <3>1, <3>2, ConsumedTyped
    <3>4. ask[r].cursor \in Places(ask[r].raw)
      BY <2>1, <3>3 DEF DecodesWhole, Decoded
    <3> QED BY <3>1, <3>4, ChatConstants DEF Places
  <2> QED BY <1>0, <2>1, <2>2 DEF AskRows, Phases, Replies, AsksStand
<1>2. \A m \in messages : m.turn \in Askers /\ m.role \in {"user", "assistant"}
  BY <1>0 DEF TurnsStand, TurnRows
<1>3. logged \subseteq Askers /\ remembered.trust \in BOOLEAN /\ clock \in Nat
  BY <1>0 DEF AsksStand, Replies
<1> QED BY <1>1, <1>2, <1>3 DEF ChatTypeOK

LEMMA NothingShownIsTakenBack == ChatInvariant => ShownIsStored
<1> SUFFICES ASSUME ChatInvariant, NEW r \in Askers
             PROVE  /\ ask[r].phase \in {"judged", "ready", "storing", "done"}
                         /\ ask[r].tokens # <<>>
                         => ask[r].core = [trust |-> TRUE, text |-> ask[r].tokens]
                    /\ \A m \in messages :
                         m.turn = r /\ m.role = "assistant" /\ ask[r].tokens # <<>>
                           => m.text = ask[r].tokens
  BY DEF ShownIsStored
<1>1. ShowsDecoded(ask[r])
  BY DEF ChatInvariant, AsksStand, AskStands
<1>2. ask[r].phase \in {"judged", "ready", "storing", "done"} /\ ask[r].tokens # <<>>
        => ask[r].core = [trust |-> TRUE, text |-> ask[r].tokens]
  BY <1>1 DEF ShowsDecoded
<1>3. ASSUME NEW m \in messages, m.turn = r, m.role = "assistant", ask[r].tokens # <<>>
      PROVE  m.text = ask[r].tokens
  <2>1. ask[r].phase = "done" /\ m \in TurnRows(r, ask[r])
    BY <1>3 DEF ChatInvariant, TurnsStand
  <2>2. m.text = ask[r].core.text
    BY <1>3, <2>1 DEF TurnRows
  <2> QED BY <1>2, <1>3, <2>1, <2>2
<1> QED BY <1>2, <1>3

\* A replay has each row once.
LEMMA ReplaysAreOnce ==
  ASSUME TurnsStand, NEW c, NEW s \in Replays(c)
  PROVE  \E n \in Nat : /\ s \in [1..n -> messages]
                        /\ \A i, j \in 1..n : s[i] = s[j] => i = j
                        /\ \A i, j \in 1..n : i < j => s[i].at <= s[j].at
<1> DEFINE rows == {m \in messages : m.conversation = c}
           n == Cardinality(rows)
<1>1. IsFiniteSet(rows)
  BY FS_Subset DEF TurnsStand
<1>2. n \in Nat
  BY <1>1, FS_CardinalityType
<1>3. /\ s \in [1..n -> rows] /\ \A m \in rows : \E i \in 1..n : s[i] = m
      /\ \A i, j \in 1..n : i < j => s[i].at <= s[j].at
  BY DEF Replays
<1>4. IsFiniteSet(1..n) /\ Cardinality(1..n) = n
  BY <1>2, FS_Interval
<1> HIDE DEF n
<1>5. s \in Surjection(1..n, rows)
  BY <1>3 DEF Surjection
<1>6. s \in Injection(1..n, rows)
  BY <1>4, <1>5, FS_SurjSameCardinalityImpliesInj DEF n
<1>7. \A i, j \in 1..n : s[i] = s[j] => i = j
  BY <1>6 DEF Injection, IsInjective
<1>8. s \in [1..n -> messages]
  BY <1>3
<1> QED BY <1>2, <1>3, <1>7, <1>8

LEMMA TurnsStayWhole == ChatInvariant => TurnsAreReplayedWhole
<1> SUFFICES ASSUME ChatInvariant, NEW c, NEW s \in Replays(c)
             PROVE  \A i, j \in DOMAIN s : s[i].turn = s[j].turn => i - j \in {-1, 0, 1}
  BY DEF TurnsAreReplayedWhole
<1>0. AsksStand /\ TurnsStand
  BY DEF ChatInvariant
<1>1. PICK n \in Nat : /\ s \in [1..n -> messages]
                       /\ \A i, j \in 1..n : s[i] = s[j] => i = j
                       /\ \A i, j \in 1..n : i < j => s[i].at <= s[j].at
  BY <1>0, ReplaysAreOnce
<1>2. \A i \in 1..n : /\ s[i].turn \in Askers /\ s[i].at = ask[s[i].turn].at
                      /\ s[i].at \in Nat /\ s[i].at # 0
                      /\ s[i] \in TurnRows(s[i].turn, ask[s[i].turn])
  <2> TAKE i \in 1..n
  <2> DEFINE m == s[i]
  <2>1. m \in messages
    BY <1>1
  <2> HIDE DEF m
  <2>2. m.turn \in Askers /\ ask[m.turn].phase = "done" /\ m \in TurnRows(m.turn, ask[m.turn])
    BY <1>0, <2>1 DEF TurnsStand
  <2>3. m.at = ask[m.turn].at
    BY <2>2 DEF TurnRows
  <2>4. ask[m.turn] \in AskRows /\ ask[m.turn].at # 0
    BY <1>0, <2>2 DEF AsksStand, AskStands
  <2>5. ask[m.turn].at \in Nat
    BY <2>4 DEF AskRows
  <2> QED BY <2>2, <2>3, <2>4, <2>5 DEF m
<1>3. ASSUME NEW i \in 1..n, NEW j \in 1..n, s[i].turn = s[j].turn, i + 1 < j
      PROVE  FALSE
  <2>1. i + 1 \in 1..n /\ i < i + 1 /\ i + 1 < j
    BY <1>3
  <2>2. s[i].at <= s[i + 1].at /\ s[i + 1].at <= s[j].at
    BY <1>1, <2>1
  <2>3. s[i].at = s[j].at
    BY <1>2, <1>3
  <2>4. s[i + 1].at = s[i].at
    BY <1>2, <2>1, <2>2, <2>3
  <2>5. s[i + 1].turn = s[i].turn
    <3>1. ask[s[i + 1].turn].at # 0 /\ ask[s[i + 1].turn].at = ask[s[i].turn].at
      BY <1>2, <2>1, <2>4
    <3>2. s[i + 1].turn \in Askers /\ s[i].turn \in Askers
      BY <1>2, <2>1
    <3> QED BY <1>0, <3>1, <3>2 DEF AsksStand
  <2> DEFINE t == s[i].turn
  <2>6. s[i] \in TurnRows(t, ask[t]) /\ s[j] \in TurnRows(t, ask[t])
        /\ s[i + 1] \in TurnRows(t, ask[t])
    BY <1>2, <1>3, <2>1, <2>5
  <2>7. s[i] # s[j] /\ s[i] # s[i + 1] /\ s[i + 1] # s[j]
    BY <1>1, <2>1
  <2> QED BY <2>6, <2>7 DEF TurnRows
<1>4. DOMAIN s = 1..n
  BY <1>1
<1> QED BY <1>3, <1>4

\* The invariant holds for good.
LEMMA ChatKeeps == ChatSpec => []ChatInvariant
<1>1. ChatInit => ChatInvariant
  BY ChatBegins
<1>2. ChatInvariant /\ [ChatNext]_chatVars => ChatInvariant'
  BY ChatGoesOn
<1> QED BY <1>1, <1>2, PTL DEF ChatSpec

\* The variables of the conversations keep their types.
THEOREM ChatTypesHold == ChatSpec => []ChatTypeOK
BY ChatKeeps, ChatIsTyped, PTL

\* A reply decodes to the same text however it is cut into pieces
\* (modules/brain/stream_parser.py), for replies and pieces of any length.
THEOREM PiecesAreJoined == ChatSpec => []PiecesDoNotShow
<1>1. ChatInvariant => PiecesDoNotShow
  <2> SUFFICES ASSUME ChatInvariant, NEW r \in Askers
               PROVE  /\ ask[r].parts = Consume(ask[r].raw, 1).text
                      /\ ask[r].complete = Consume(ask[r].raw, 1).complete
    BY DEF PiecesDoNotShow
  <2>1. DecodesWhole(ask[r])
    BY DEF ChatInvariant, AsksStand, AskStands
  <2> QED BY <2>1 DEF DecodesWhole
<1> QED BY <1>1, ChatKeeps, PTL

\* What a browser watched arrive is what is stored (modules/brain/service.py), for any number
\* of requests.
THEOREM ShownStays == ChatSpec => []ShownIsStored
BY ChatKeeps, NothingShownIsTakenBack, PTL

\* A conversation is read back turn by turn (modules/brain/repository.py), however many turns
\* overlap.
THEOREM TurnsAreWhole == ChatSpec => []TurnsAreReplayedWhole
BY ChatKeeps, TurnsStayWhole, PTL
===============================================================================
