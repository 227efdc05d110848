--------------------------- MODULE ReviewQueueProofs ---------------------------
(***************************************************************************)
(* Theorems about the review queue, for any number of skills, cards and    *)
(* concurrent requests.                                                    *)
(***************************************************************************)
EXTENDS ReviewQueue, TLAPS

LEMMA EmptyRowsTyped ==
  /\ NoSkillRow \in SkillRow
  /\ NoCardRow \in CardRow
  /\ NoJob \in Job
  /\ NoEditJob \in EditJob
  /\ NoMatch \in Match
<1>1. (CHOOSE t \in Triggers : TRUE) \in Triggers
  BY SomeTrigger
<1>2. NoSkillRow \in SkillRow
  BY <1>1 DEF NoSkillRow, SkillRow, Texts, Vectors, Exceptions, Confidences, HumanConfidence
<1>3. NoCardRow \in CardRow
  BY DEF NoCardRow, CardRow, Kinds, Texts, Exceptions
<1>4. NoJob \in Job
  BY <1>2 DEF NoJob, Job, Texts, Exceptions, Prepared, Vectors
<1>5. NoEditJob \in EditJob
  BY <1>2, <1>1 DEF NoEditJob, EditJob, NoSkillRow, SkillRow, Texts, Vectors
<1>6. QED
  BY <1>2, <1>3, <1>4, <1>5 DEF NoMatch, Match, Texts

-------------------------------------------------------------------------------
(***************************************************************************)
(* The rows the statements write have the columns of their tables.         *)
(***************************************************************************)
LEMMA ConfidencesTyped ==
  /\ HumanConfidence \in Confidences
  /\ DraftConfidence \in Confidences /\ ReviewConfidence \in Confidences
  /\ \A conf \in Confidences : Lowered(conf) \in Confidences
BY DEF Confidences, HumanConfidence, DraftConfidence, ReviewConfidence, Lowered

LEMMA NewSkillTyped ==
  ASSUME NEW status \in {"draft", "review"}, NEW trigger \in Triggers,
         NEW rule \in Rules, NEW exc \in SUBSET Exceptions, NEW acts \in Texts,
         NEW conf \in Confidences
  PROVE  NewSkill(status, trigger, rule, exc, acts, conf) \in SkillRow
BY DEF NewSkill, SkillRow, SkillVector, Vectors, Texts

LEMMA NewCardTyped ==
  ASSUME NEW kind \in Kinds, NEW s \in Skills, NEW before \in Texts,
         NEW after \in Texts, NEW exc \in SUBSET Exceptions, NEW acts \in Texts
  PROVE  NewCard(kind, s, before, after, exc, acts) \in CardRow
BY DEF NewCard, CardRow

LEMMA VersionTyped ==
  ASSUME NEW v \in Nat, NEW rule \in Texts, NEW exc \in SUBSET Exceptions,
         NEW change \in {"create", "human_edit"}, NEW c \in Cards
  PROVE  Version(v, rule, exc, change, c) \in VersionRow
BY DEF Version, VersionRow

LEMMA UpdateSkillLogicTyped ==
  ASSUME NEW row \in SkillRow, NEW rule \in Texts, NEW exc \in SUBSET Exceptions,
         NEW acts \in Texts, NEW v \in Nat, NEW vec \in Vectors
  PROVE  UpdateSkillLogic(row, rule, exc, acts, v, vec) \in SkillRow
BY ConfidencesTyped DEF UpdateSkillLogic, SkillRow

LEMMA ApplyExceptionTyped ==
  ASSUME NEW row \in SkillRow, NEW exc \in SUBSET Exceptions, NEW v \in Nat
  PROVE  ApplyException(row, exc, v) \in SkillRow
BY ConfidencesTyped DEF ApplyException, SkillRow

\* What an approval writes, given the copy of the skill the request holds.
LEMMA ApprovalTyped ==
  ASSUME NEW c \in Cards, cards[c] \in CardRow, NEW job \in Job,
         NEW row \in SkillRow, RewritesRule(cards[c]) => job.vec # NoVector
  PROVE  /\ ApprovedSkill(c, job, row) \in SkillRow
         /\ ApprovalVersions(c, job) \subseteq VersionRow
         /\ Baseline(c, job) \subseteq VersionRow
<1> DEFINE card == cards[c]
           snap == job.snap
<1>1. /\ snap \in SkillRow /\ snap.ver \in Nat /\ snap.rule \in Texts
      /\ snap.exc \in SUBSET Exceptions
  BY DEF Job, SkillRow
<1>2. /\ card.kind \in Kinds /\ card.after \in Texts /\ card.acts \in Texts
      /\ card.exc \in SUBSET Exceptions
  BY DEF CardRow
<1>3. NextVersion(snap.ver) \in Nat
  BY <1>1 DEF NextVersion
<1>4. ProposedRule(card, snap) \in Texts
  BY <1>1, <1>2 DEF ProposedRule
<1>5. (snap.exc \cup ProposedExceptions(card, snap)) \in SUBSET Exceptions
  BY <1>1, <1>2, <1>4 DEF ProposedExceptions, Exceptions
<1>6. Baseline(c, job) \subseteq VersionRow
  BY <1>1, VersionTyped DEF Baseline
<1>7. CASE card.kind = "new_decision"
  <2>1. ApprovalVersions(c, job) = {Version(snap.ver, snap.rule, snap.exc, "create", c)}
    BY <1>7 DEF ApprovalVersions, RewritesRule
  <2>2. ApprovedSkill(c, job, row)
          = [row EXCEPT !.status = "active", !.conf = HumanConfidence]
    BY <1>7 DEF ApprovedSkill, RewritesRule
  <2>3. [row EXCEPT !.status = "active", !.conf = HumanConfidence] \in SkillRow
    BY ConfidencesTyped DEF SkillRow
  <2>4. Version(snap.ver, snap.rule, snap.exc, "create", c) \in VersionRow
    BY <1>1, VersionTyped
  <2>5. QED
    BY <1>6, <2>1, <2>2, <2>3, <2>4
<1>8. CASE RewritesRule(card)
  <2>1. ApprovalVersions(c, job) = Baseline(c, job) \cup
          {Version(NextVersion(snap.ver), ProposedRule(card, snap), card.exc,
                   "human_edit", c)}
    BY <1>8 DEF ApprovalVersions, RewritesRule
  <2>2. ApprovedSkill(c, job, row)
          = UpdateSkillLogic(row, ProposedRule(card, snap), card.exc, card.acts,
                             NextVersion(snap.ver), job.vec)
    BY <1>8 DEF ApprovedSkill, RewritesRule
  <2>3. job.vec \in Vectors
    BY <1>8 DEF Job
  <2>4. QED
    BY <1>2, <1>3, <1>4, <1>6, <2>1, <2>2, <2>3, VersionTyped,
       UpdateSkillLogicTyped
<1>9. CASE card.kind = "exception"
  <2>1. ApprovalVersions(c, job) = Baseline(c, job) \cup
          {Version(NextVersion(snap.ver), snap.rule,
                   snap.exc \cup ProposedExceptions(card, snap), "human_edit", c)}
    BY <1>9 DEF ApprovalVersions, RewritesRule
  <2>2. ApprovedSkill(c, job, row)
          = ApplyException(row, snap.exc \cup ProposedExceptions(card, snap),
                           NextVersion(snap.ver))
    BY <1>9 DEF ApprovedSkill, RewritesRule
  <2>3. QED
    BY <1>1, <1>3, <1>5, <1>6, <2>1, <2>2, VersionTyped, ApplyExceptionTyped
<1>10. QED
  BY <1>2, <1>7, <1>8, <1>9 DEF Kinds, RewritesRule
-------------------------------------------------------------------------------
(***************************************************************************)
(* What every step leaves of the rows others hold on to: a card keeps its  *)
(* skill and its kind, a skill stays, a deletion is for good, and no label *)
(* moves back to the first.                                                *)
(***************************************************************************)
CardsPersist ==
  \A c \in Cards : cards[c].status # "none" =>
    /\ cards'[c].skill = cards[c].skill
    /\ cards'[c].kind = cards[c].kind
    /\ cards'[c].status # "none"
SkillsPersist ==
  \A s \in Skills : skills[s].status # "none" =>
    /\ skills'[s].status # "none"
    /\ skills[s].deleted => skills'[s].deleted
    /\ skills'[s].ver = 1 => skills[s].ver = 1
RowsPersist == CardsPersist /\ SkillsPersist
HeldCardsStayPending ==
  \A q \in Reviewers : rphase[q] = "locked" => IsPending(cards'[rjob[q].card])

\* A request that holds on to nothing new is as well off after such a step.
LEMMA RequestPersists ==
  ASSUME CardsHaveSkills, RowsPersist,
         NEW phase, NEW job \in Job, RequestOK(phase, job),
         phase = "locked" => IsPending(cards'[job.card])
  PROVE  RequestOK(phase, job)'
<1>1. \A c \in Cards : cards[c].status # "none" =>
        /\ cards'[c].status # "none"
        /\ RewritesRule(cards'[c]) <=> RewritesRule(cards[c])
        /\ cards'[c].skill = cards[c].skill
        /\ cards[c].skill \in Skills /\ skills[cards[c].skill].status # "none"
  BY DEF RowsPersist, CardsPersist, SkillsPersist, RewritesRule, CardsHaveSkills, Exists
<1>2. HoldsCard(phase, job)' <=> HoldsCard(phase, job)
  BY DEF HoldsCard
<1>3. ASSUME phase = "locked"
      PROVE  /\ IsPending(cards[job.card])' /\ CopyIsOlder(job)'
             /\ job.op = "approve" => VectorIsReady(job.card, job.vec, job.snap)'
  <2>1. job.card \in Cards /\ cards[job.card].status # "none"
    BY <1>3 DEF RequestOK, HoldsCard
  <2>2. CopyIsOlder(job)'
    BY <1>1, <1>3, <2>1 DEF CopyIsOlder, RequestOK, RowsPersist, SkillsPersist
  <2>3. job.op = "approve" => VectorIsReady(job.card, job.vec, job.snap)'
    BY <1>1, <1>3, <2>1 DEF VectorIsReady, RequestOK
  <2>4. QED
    BY <1>3, <2>2, <2>3
<1>4. ASSUME NEW item \in job.todo
      PROVE  /\ cards'[item.card].status # "none"
             /\ VectorIsReady(item.card, item.vec, skills[cards[item.card].skill])'
  <2>1. item.card \in Cards
    BY DEF Job, Prepared
  <2>2. cards[item.card].status # "none"
    BY DEF RequestOK
  <2>3. VectorIsReady(item.card, item.vec, skills[cards[item.card].skill])
    BY DEF RequestOK
  <2>4. QED
    BY <1>1, <2>1, <2>2, <2>3 DEF VectorIsReady, RowsPersist, SkillsPersist
<1>5. QED
  BY <1>1, <1>2, <1>3, <1>4 DEF RequestOK

\* A step of the request p, whose new locals are fit, keeps all requests fit.
LEMMA ReviewerStepKeeps ==
  ASSUME ReviewerInv, CardsHaveSkills, RowsPersist,
         NEW p \in Reviewers, NEW phase \in {"idle", "prepared", "locked"},
         NEW job \in Job, Enter(p, phase, job), RequestOK(phase, job)',
         phase = "locked" => (\A q \in Reviewers \ {p} :
                                ~(rphase[q] = "locked" /\ rjob[q].card = job.card)),
         \A q \in Reviewers \ {p} : rphase[q] = "locked" => IsPending(cards'[rjob[q].card])
  PROVE  ReviewerInv'
<1>1. ReviewTypeOK'
  BY DEF ReviewerInv, ReviewTypeOK, Enter
<1>2. \A q \in Reviewers : /\ rphase'[q] = IF q = p THEN phase ELSE rphase[q]
                           /\ rjob'[q] = IF q = p THEN job ELSE rjob[q]
  BY DEF ReviewerInv, ReviewTypeOK, Enter
<1>3. LocksAreExclusive'
  BY <1>2 DEF ReviewerInv, LocksAreExclusive
<1>4. ASSUME NEW q \in Reviewers PROVE RequestOK(rphase[q], rjob[q])'
  <2>1. CASE q = p
    BY <1>2, <2>1 DEF RequestOK, HoldsCard, CopyIsOlder, VectorIsReady
  <2>2. CASE q # p
    <3>1. RequestOK(rphase[q], rjob[q]) /\ rjob[q] \in Job
      BY DEF ReviewerInv, ReviewTypeOK
    <3>2. rphase[q] = "locked" => IsPending(cards'[rjob[q].card])
      BY <2>2
    <3>3. rphase'[q] = rphase[q] /\ rjob'[q] = rjob[q]
      BY <1>2, <2>2
    <3> DEFINE ph == rphase[q]
               jb == rjob[q]
    <3>4. ASSUME NEW x, NEW y \in Job, RequestOK(x, y),
                 x = "locked" => IsPending(cards'[y.card])
          PROVE  RequestOK(x, y)'
      BY <3>4, RequestPersists
    <3>5. QED
      BY <3>1, <3>2, <3>3, <3>4
  <2>3. QED
    BY <2>1, <2>2
<1>5. QED
  BY <1>1, <1>3, <1>4 DEF ReviewerInv

\* Other components' steps leave the requests as fit as they were.
LEMMA ReviewersKeep ==
  ASSUME ReviewerInv, CardsHaveSkills, RowsPersist, HeldCardsStayPending,
         UNCHANGED reviewVars
  PROVE  ReviewerInv'
<1>1. ReviewTypeOK' /\ LocksAreExclusive'
  BY DEF ReviewerInv, ReviewTypeOK, LocksAreExclusive, reviewVars
<1>2. ASSUME NEW q \in Reviewers PROVE RequestOK(rphase[q], rjob[q])'
  <2>1. /\ RequestOK(rphase[q], rjob[q]) /\ rjob[q] \in Job
        /\ rphase[q] = "locked" => IsPending(cards'[rjob[q].card])
    BY DEF ReviewerInv, ReviewTypeOK, HeldCardsStayPending
  <2>2. ASSUME NEW x, NEW y \in Job, RequestOK(x, y),
               x = "locked" => IsPending(cards'[y.card])
        PROVE  RequestOK(x, y)'
    BY <2>2, RequestPersists
  <2>3. rphase'[q] = rphase[q] /\ rjob'[q] = rjob[q]
    BY DEF reviewVars
  <2>4. QED
    BY <2>1, <2>2, <2>3
<1>3. QED
  BY <1>1, <1>2 DEF ReviewerInv

LEMMA WritersKeep ==
  ASSUME WriterInv, RowsPersist, UNCHANGED writerVars
  PROVE  WriterInv'
BY DEF WriterInv, WriterTypeOK, MatchesNameSkills, RowsPersist, SkillsPersist,
       Exists, writerVars, Match

LEMMA EditorsKeep ==
  ASSUME EditorInv, UNCHANGED editorVars
  PROVE  EditorInv'
BY DEF EditorInv, EditorTypeOK, EditsNameSkills, editorVars

-------------------------------------------------------------------------------
(***************************************************************************)
(* The effect of one statement on the tables.                              *)
(***************************************************************************)
LEMMA StoreUntouched ==
  ASSUME StoreInv, ReviewerInv, UNCHANGED storeVars
  PROVE  StoreInv' /\ RowsPersist /\ HeldCardsStayPending
<1>1. StoreInv'
  BY DEF StoreInv, StoreTypeOK, CardsHaveSkills, MovedVersionRecorded, Recorded,
         OneDecisionCard, PendingCardsOf, Exists, storeVars
<1>2. RowsPersist
  BY DEF RowsPersist, CardsPersist, SkillsPersist, storeVars
<1>3. HeldCardsStayPending
  BY DEF HeldCardsStayPending, ReviewerInv, RequestOK, storeVars
<1>4. QED
  BY <1>1, <1>2, <1>3

\* A fresh card about a skill that is there, and, if it is a decision card, one
\* that shows no other.
LEMMA InsertCardKeeps ==
  ASSUME StoreInv, ReviewerInv, NEW c \in Cards, NEW row \in CardRow,
         InsertCard(c, row), row.status = "pending", row.skill \in Skills,
         SkillsPersist, Exists(row.skill)',
         row.kind = "new_decision" => PendingCardsOf(row.skill) = {}
  PROVE  /\ cards' \in [Cards -> CardRow]
         /\ CardsHaveSkills' /\ OneDecisionCard'
         /\ CardsPersist /\ HeldCardsStayPending
<1>1. cards \in [Cards -> CardRow] /\ cards[c].status = "none"
      /\ cards' = [cards EXCEPT ![c] = row]
  BY DEF StoreInv, StoreTypeOK, InsertCard
<1>2. cards' \in [Cards -> CardRow] /\ CardsPersist
  BY <1>1 DEF CardsPersist
<1>3. CardsHaveSkills'
  BY <1>1 DEF CardsHaveSkills, StoreInv, SkillsPersist, Exists
<1>4. HeldCardsStayPending
  <2> SUFFICES ASSUME NEW q \in Reviewers, rphase[q] = "locked"
               PROVE  IsPending(cards'[rjob[q].card])
    BY DEF HeldCardsStayPending
  <2>1. IsPending(cards[rjob[q].card]) /\ rjob[q].card \in Cards
    BY DEF ReviewerInv, RequestOK, HoldsCard
  <2>2. QED
    BY <1>1, <2>1 DEF IsPending
<1>5. OneDecisionCard'
  <2> SUFFICES ASSUME NEW s \in Skills, NEW d \in Cards, NEW e \in Cards,
                      cards'[d].skill = s, cards'[e].skill = s,
                      IsPending(cards'[d]), IsPending(cards'[e]),
                      cards'[d].kind = "new_decision",
                      cards'[e].kind = "new_decision"
               PROVE  d = e
    BY DEF OneDecisionCard, PendingCardsOf
  <2>1. CASE d # c /\ e # c
    <3>1. d \in PendingCardsOf(s) /\ e \in PendingCardsOf(s)
      BY <1>1, <2>1 DEF PendingCardsOf
    <3>2. QED
      BY <1>1, <2>1, <3>1 DEF StoreInv, OneDecisionCard
  <2>2. CASE d = c /\ e # c
    BY <1>1, <2>2 DEF PendingCardsOf
  <2>3. CASE d # c /\ e = c
    BY <1>1, <2>3 DEF PendingCardsOf
  <2>4. QED
    BY <2>1, <2>2, <2>3
<1>6. QED
  BY <1>2, <1>3, <1>4, <1>5

\* A card is resolved by the request that holds it.
LEMMA ResolveCardKeeps ==
  ASSUME StoreInv, ReviewerInv, NEW p \in Reviewers, rphase[p] = "locked",
         NEW status \in {"approved", "rejected"},
         ResolveCard(rjob[p].card, status), SkillsPersist
  PROVE  /\ cards' \in [Cards -> CardRow]
         /\ CardsHaveSkills' /\ OneDecisionCard' /\ CardsPersist
         /\ \A q \in Reviewers \ {p} :
              rphase[q] = "locked" => IsPending(cards'[rjob[q].card])
<1> DEFINE c == rjob[p].card
<1>1. /\ cards \in [Cards -> CardRow] /\ c \in Cards /\ IsPending(cards[c])
      /\ cards' = [cards EXCEPT ![c].status = status]
  BY DEF StoreInv, StoreTypeOK, ResolveCard, ReviewerInv, RequestOK, HoldsCard
<1>2. cards' \in [Cards -> CardRow] /\ CardsPersist
  BY <1>1 DEF CardsPersist, CardRow
<1>3. CardsHaveSkills'
  BY <1>1 DEF CardsHaveSkills, StoreInv, SkillsPersist, Exists, IsPending
<1>4. ASSUME NEW q \in Reviewers \ {p}, rphase[q] = "locked"
      PROVE  IsPending(cards'[rjob[q].card])
  <2>1. IsPending(cards[rjob[q].card]) /\ rjob[q].card \in Cards
    BY <1>4 DEF ReviewerInv, RequestOK, HoldsCard
  <2>2. rjob[q].card # c
    BY <1>4 DEF ReviewerInv, LocksAreExclusive
  <2>3. QED
    BY <1>1, <2>1, <2>2 DEF IsPending
<1>5. OneDecisionCard'
  <2>1. \A d \in Cards : /\ IsPending(cards'[d]) => IsPending(cards[d])
                         /\ cards'[d].skill = cards[d].skill
                         /\ cards'[d].kind = cards[d].kind
    BY <1>1 DEF IsPending
  <2>2. QED
    BY <2>1 DEF OneDecisionCard, PendingCardsOf, StoreInv
<1>6. QED
  BY <1>2, <1>3, <1>4, <1>5

\* One skills row is written, and the history only grows.
LEMMA WriteSkillKeeps ==
  ASSUME StoreInv, NEW s \in Skills, NEW row \in SkillRow,
         skills' = [skills EXCEPT ![s] = row],
         versions' \in [Skills -> SUBSET VersionRow],
         \A x \in Skills : versions[x] \subseteq versions'[x],
         row.status # "none", row.ver # 0,
         Exists(s) => (skills[s].deleted => row.deleted),
         Exists(s) => (row.ver = 1 => skills[s].ver = 1),
         (row.ver # 1 \/ row.status = "active") =>
           \E entry \in versions'[s] : entry.ver = row.ver
  PROVE  /\ skills' \in [Skills -> SkillRow]
         /\ MovedVersionRecorded' /\ SkillsPersist
<1>1. skills \in [Skills -> SkillRow]
  BY DEF StoreInv, StoreTypeOK
<1>2. skills' \in [Skills -> SkillRow] /\ SkillsPersist
  BY <1>1 DEF SkillsPersist, Exists
<1>3. MovedVersionRecorded'
  BY <1>1 DEF MovedVersionRecorded, StoreInv, Recorded
<1>4. QED
  BY <1>2, <1>3

-------------------------------------------------------------------------------
(***************************************************************************)
(* The reviewers' steps.                                                   *)
(***************************************************************************)
\* The locals of a request are typed whatever field of them a step replaces.
LEMMA JobTyped ==
  ASSUME NEW job \in Job
  PROVE  /\ \A todo \in SUBSET Prepared : [NoJob EXCEPT !.todo = todo] \in Job
         /\ \A c \in Cards, vec \in Vectors \cup {NoVector}, snap \in SkillRow,
              versioned \in BOOLEAN :
              [job EXCEPT !.card = c, !.vec = vec, !.snap = snap,
                          !.versioned = versioned] \in Job
         /\ \A snap \in SkillRow : [job EXCEPT !.snap = snap] \in Job
         /\ \A c \in Cards, snap \in SkillRow :
              [NoJob EXCEPT !.op = "reject", !.card = c, !.snap = snap] \in Job
         /\ \A c \in Cards, rule \in Texts, exc \in SUBSET Exceptions,
              acts \in Texts, keep \in SUBSET Blocks, vec \in Vectors :
              [NoJob EXCEPT !.op = "write", !.card = c, !.rule = rule, !.exc = exc,
                            !.acts = acts, !.keep = keep, !.vec = vec] \in Job
<1>1. NoJob \in Job
  BY EmptyRowsTyped
<1>2. \A todo \in SUBSET Prepared : [NoJob EXCEPT !.todo = todo] \in Job
  BY <1>1 DEF Job
<1>3. \A c \in Cards, vec \in Vectors \cup {NoVector}, snap \in SkillRow,
        versioned \in BOOLEAN :
        [job EXCEPT !.card = c, !.vec = vec, !.snap = snap,
                    !.versioned = versioned] \in Job
  BY DEF Job
<1>4. \A snap \in SkillRow : [job EXCEPT !.snap = snap] \in Job
  BY DEF Job
<1>5. \A c \in Cards, snap \in SkillRow :
        [NoJob EXCEPT !.op = "reject", !.card = c, !.snap = snap] \in Job
  BY <1>1 DEF Job
<1>6. \A c \in Cards, rule \in Texts, exc \in SUBSET Exceptions,
        acts \in Texts, keep \in SUBSET Blocks, vec \in Vectors :
        [NoJob EXCEPT !.op = "write", !.card = c, !.rule = rule, !.exc = exc,
                      !.acts = acts, !.keep = keep, !.vec = vec] \in Job
  BY <1>1 DEF Job
<1>7. QED
  BY <1>2, <1>3, <1>4, <1>5, <1>6

\* What an idle request holds on to is nothing, and a vector is not no vector.
LEMMA NothingHeld ==
  /\ RequestOK("idle", NoJob)'
  /\ \A trigger \in Triggers, rule \in Texts :
       SkillVector(trigger, rule) \in Vectors /\ SkillVector(trigger, rule) # NoVector
<1>1. RequestOK("idle", NoJob)'
  BY DEF RequestOK, HoldsCard, NoJob
<1>2. \A trigger \in Triggers, rule \in Texts :
       SkillVector(trigger, rule) \in Vectors /\ SkillVector(trigger, rule) # NoVector
  BY NullsAreNotValues DEF SkillVector, Vectors, Texts
<1>3. QED
  BY <1>1, <1>2

\* A request that returns leaves the others as fit as they were.
LEMMA LeaveKeeps ==
  ASSUME ReviewerInv, CardsHaveSkills, RowsPersist, NEW p \in Reviewers, Leave(p),
         \A q \in Reviewers \ {p} : rphase[q] = "locked" => IsPending(cards'[rjob[q].card])
  PROVE  ReviewerInv'
<1>1. NoJob \in Job /\ Enter(p, "idle", NoJob) /\ RequestOK("idle", NoJob)'
  BY EmptyRowsTyped, NothingHeld DEF Leave
<1>2. QED
  BY <1>1, ReviewerStepKeeps

\* So does one that goes on to the rest of its batch.
LEMMA ContinueKeeps ==
  ASSUME ReviewerInv, CardsHaveSkills, RowsPersist, NEW p \in Reviewers, NEW item,
         Continue(p, item),
         \A q \in Reviewers \ {p} : rphase[q] = "locked" => IsPending(cards'[rjob[q].card])
  PROVE  ReviewerInv'
<1> DEFINE rest == rjob[p].todo \ {item}
<1>1. CASE rest = {}
  BY <1>1, LeaveKeeps DEF Continue
<1>2. CASE rest # {}
  <2>1. Enter(p, "prepared", [NoJob EXCEPT !.todo = rest])
    BY <1>2 DEF Continue
  <2>2. NoJob \in Job /\ rjob[p] \in Job /\ rest \in SUBSET Prepared
    BY EmptyRowsTyped DEF ReviewerInv, ReviewTypeOK, Job
  <2>3. PICK job \in Job : /\ job = [NoJob EXCEPT !.todo = rest]
                          /\ job.op = "approve" /\ job.todo = rest
    BY <2>2, JobTyped DEF NoJob
  <2>4. Enter(p, "prepared", job)
    BY <2>1, <2>3 DEF Enter
  <2>5. RequestOK("prepared", job)
    BY <2>3 DEF RequestOK, HoldsCard, ReviewerInv
  <2>6. RequestOK("prepared", job)'
    BY <2>5, RequestPersists
  <2>7. QED
    BY <2>4, <2>6, ReviewerStepKeeps
<1>3. QED
  BY <1>1, <1>2

LEMMA BeginApproveKeeps ==
  ASSUME StoreInv, ReviewerInv, NEW p \in Reviewers, NEW ids \in SUBSET Cards,
         BeginApprove(p, ids)
  PROVE  StoreInv' /\ RowsPersist /\ ReviewerInv'
<1> DEFINE pending == {c \in ids : IsPending(cards[c])}
           todo == {[card |-> c, vec |-> PeekVector(c)] : c \in pending}
<1>1. Enter(p, "prepared", [NoJob EXCEPT !.todo = todo]) /\ UNCHANGED storeVars
  BY DEF BeginApprove
<1>2. StoreInv' /\ RowsPersist /\ HeldCardsStayPending
  BY <1>1, StoreUntouched
<1>3. ASSUME NEW c \in pending
      PROVE  /\ PeekVector(c) \in Vectors \cup {NoVector}
             /\ cards[c].status # "none"
             /\ VectorIsReady(c, PeekVector(c), skills[cards[c].skill])
  <2> DEFINE row == skills[cards[c].skill]
  <2>1. /\ cards[c] \in CardRow /\ cards[c].status # "none"
        /\ row \in SkillRow /\ row.status # "none"
    BY DEF StoreInv, StoreTypeOK, CardsHaveSkills, Exists, IsPending
  <2>2. SkillVector(row.trig, ProposedRule(cards[c], row)) \in Vectors
        /\ SkillVector(row.trig, ProposedRule(cards[c], row)) # NoVector
    BY <2>1, NothingHeld DEF ProposedRule, SkillRow, CardRow
  <2>3. QED
    BY <2>1, <2>2 DEF PeekVector, VectorIsReady, Live
<1>4. todo \in SUBSET Prepared
  BY <1>3 DEF Prepared
<1>5. PICK job \in Job : /\ job = [NoJob EXCEPT !.todo = todo]
                        /\ job.op = "approve" /\ job.todo = todo
  BY <1>4, JobTyped, EmptyRowsTyped DEF NoJob
<1>6. RequestOK("prepared", job)
  BY <1>3, <1>5 DEF RequestOK, HoldsCard
<1>7. RequestOK("prepared", job)'
  BY <1>2, <1>6, RequestPersists DEF StoreInv
<1>8. Enter(p, "prepared", job)
  BY <1>1, <1>5 DEF Enter
<1>9. ReviewerInv'
  BY <1>2, <1>7, <1>8, ReviewerStepKeeps DEF StoreInv, HeldCardsStayPending
<1>10. QED
  BY <1>2, <1>9

\* A copy a request takes of a skill that is there is at the first label when the
\* skill is, and was not deleted if the skill is not.
LEMMA SnapshotFits ==
  ASSUME StoreInv, NEW c \in Cards, cards[c].status # "none"
  PROVE  /\ cards[c] \in CardRow /\ cards[c].skill \in Skills
         /\ skills[cards[c].skill] \in SkillRow
         /\ skills[cards[c].skill].status # "none"
         /\ skills[cards[c].skill].ver # 0
BY DEF StoreInv, StoreTypeOK, CardsHaveSkills, MovedVersionRecorded, Exists

LEMMA LockApproveKeeps ==
  ASSUME StoreInv, ReviewerInv, NEW p \in Reviewers, NEW item \in rjob[p].todo,
         LockApprove(p, item)
  PROVE  StoreInv' /\ RowsPersist /\ ReviewerInv'
<1> DEFINE c == item.card
           row == skills[cards[c].skill]
<1>1. /\ rphase[p] = "prepared" /\ rjob[p].op = "approve" /\ ~Locked(c)
      /\ IsPending(cards[c]) /\ UNCHANGED storeVars
      /\ Enter(p, "locked",
               [rjob[p] EXCEPT !.card = c, !.vec = item.vec, !.snap = row,
                               !.versioned = versions[cards[c].skill] # {}])
  BY DEF LockApprove
<1>2. StoreInv' /\ RowsPersist /\ HeldCardsStayPending
  BY <1>1, StoreUntouched
<1>3. /\ rjob[p] \in Job /\ c \in Cards /\ item.vec \in Vectors \cup {NoVector}
      /\ RequestOK("prepared", rjob[p])
  BY <1>1 DEF ReviewerInv, ReviewTypeOK, Job, Prepared
<1>4. cards[c].status # "none" /\ row \in SkillRow /\ row.ver # 0
  BY <1>1, <1>3, SnapshotFits DEF IsPending
<1>5. PICK job \in Job :
        /\ job = [rjob[p] EXCEPT !.card = c, !.vec = item.vec, !.snap = row,
                                 !.versioned = versions[cards[c].skill] # {}]
        /\ job.op = "approve" /\ job.todo = rjob[p].todo
        /\ job.card = c /\ job.vec = item.vec /\ job.snap = row
  <2>1. (versions[cards[c].skill] # {}) \in BOOLEAN
    OBVIOUS
  <2>2. [rjob[p] EXCEPT !.card = c, !.vec = item.vec, !.snap = row,
                        !.versioned = versions[cards[c].skill] # {}] \in Job
    BY <1>3, <1>4, <2>1, JobTyped
  <2>3. QED
    BY <1>1, <1>3, <2>2 DEF Job
<1>6. RequestOK("locked", job)
  <2>1. /\ VectorIsReady(c, item.vec, row)
        /\ \A it \in job.todo :
             /\ cards[it.card].status # "none"
             /\ VectorIsReady(it.card, it.vec, skills[cards[it.card].skill])
    BY <1>3, <1>5 DEF RequestOK
  <2>2. CopyIsOlder(job)
    BY <1>4, <1>5 DEF CopyIsOlder
  <2>3. QED
    BY <1>1, <1>3, <1>4, <1>5, <2>1, <2>2 DEF RequestOK, HoldsCard
<1>7. RequestOK("locked", job)'
  <2>1. IsPending(cards'[job.card])
    BY <1>1, <1>5 DEF storeVars
  <2>2. QED
    BY <1>2, <1>6, <2>1, RequestPersists DEF StoreInv
<1>8. Enter(p, "locked", job)
  BY <1>1, <1>5 DEF Enter
<1>9. \A q \in Reviewers \ {p} : ~(rphase[q] = "locked" /\ rjob[q].card = job.card)
  BY <1>1, <1>5 DEF Locked
<1>10. ReviewerInv'
  BY <1>2, <1>7, <1>8, <1>9, ReviewerStepKeeps DEF StoreInv, HeldCardsStayPending
<1>11. QED
  BY <1>2, <1>10

LEMMA BeginRejectKeeps ==
  ASSUME StoreInv, ReviewerInv, NEW p \in Reviewers, NEW c \in Cards,
         BeginReject(p, c)
  PROVE  StoreInv' /\ RowsPersist /\ ReviewerInv'
<1> DEFINE row == skills[cards[c].skill]
<1>1. /\ ~Locked(c) /\ IsPending(cards[c]) /\ UNCHANGED storeVars
      /\ Enter(p, "locked",
               [NoJob EXCEPT !.op = "reject", !.card = c, !.snap = row])
  BY DEF BeginReject
<1>2. StoreInv' /\ RowsPersist /\ HeldCardsStayPending
  BY <1>1, StoreUntouched
<1>3. cards[c].status # "none" /\ row \in SkillRow /\ row.ver # 0
  BY <1>1, SnapshotFits DEF IsPending
<1>4. PICK job \in Job :
        /\ job = [NoJob EXCEPT !.op = "reject", !.card = c, !.snap = row]
        /\ job.op = "reject" /\ job.todo = {} /\ job.card = c /\ job.snap = row
  BY <1>3, EmptyRowsTyped, JobTyped DEF NoJob
<1>5. RequestOK("locked", job)
  <2>1. CopyIsOlder(job)
    BY <1>3, <1>4 DEF CopyIsOlder
  <2>2. QED
    BY <1>1, <1>3, <1>4, <2>1 DEF RequestOK, HoldsCard
<1>6. RequestOK("locked", job)'
  <2>1. IsPending(cards'[job.card])
    BY <1>1, <1>4 DEF storeVars
  <2>2. QED
    BY <1>2, <1>5, <2>1, RequestPersists DEF StoreInv
<1>7. Enter(p, "locked", job)
  BY <1>1, <1>4 DEF Enter
<1>8. \A q \in Reviewers \ {p} : ~(rphase[q] = "locked" /\ rjob[q].card = job.card)
  BY <1>1, <1>4 DEF Locked
<1>9. ReviewerInv'
  BY <1>2, <1>6, <1>7, <1>8, ReviewerStepKeeps DEF StoreInv, HeldCardsStayPending
<1>10. QED
  BY <1>2, <1>9

LEMMA BeginWriteKeeps ==
  ASSUME StoreInv, ReviewerInv, NEW p \in Reviewers, NEW c \in Cards,
         NEW rule \in Texts, NEW exc \in SUBSET Exceptions, NEW acts \in Texts,
         NEW keep \in SUBSET Blocks, BeginWrite(p, c, rule, exc, acts, keep)
  PROVE  StoreInv' /\ RowsPersist /\ ReviewerInv'
<1> DEFINE vec == SkillVector(skills[cards[c].skill].trig, rule)
<1>1. /\ IsPending(cards[c]) /\ UNCHANGED storeVars
      /\ Enter(p, "prepared",
               [NoJob EXCEPT !.op = "write", !.card = c, !.rule = rule, !.exc = exc,
                             !.acts = acts, !.keep = keep, !.vec = vec])
  BY DEF BeginWrite
<1>2. StoreInv' /\ RowsPersist /\ HeldCardsStayPending
  BY <1>1, StoreUntouched
<1>3. cards[c].status # "none" /\ vec \in Vectors /\ vec # NoVector
  BY <1>1, SnapshotFits, NothingHeld DEF IsPending, SkillRow
<1>4. PICK job \in Job :
        /\ job = [NoJob EXCEPT !.op = "write", !.card = c, !.rule = rule,
                     !.exc = exc, !.acts = acts, !.keep = keep, !.vec = vec]
        /\ job.op = "write" /\ job.todo = {} /\ job.card = c /\ job.vec = vec
  BY <1>3, EmptyRowsTyped, JobTyped DEF NoJob
<1>5. RequestOK("prepared", job)
  BY <1>3, <1>4 DEF RequestOK, HoldsCard
<1>6. RequestOK("prepared", job)'
  BY <1>2, <1>5, RequestPersists DEF StoreInv
<1>7. Enter(p, "prepared", job)
  BY <1>1, <1>4 DEF Enter
<1>8. ReviewerInv'
  BY <1>2, <1>6, <1>7, ReviewerStepKeeps DEF StoreInv, HeldCardsStayPending
<1>9. QED
  BY <1>2, <1>8

LEMMA LockWriteKeeps ==
  ASSUME StoreInv, ReviewerInv, NEW p \in Reviewers, LockWrite(p)
  PROVE  StoreInv' /\ RowsPersist /\ ReviewerInv'
<1> DEFINE c == rjob[p].card
           row == skills[cards[c].skill]
<1>1. /\ rphase[p] = "prepared" /\ rjob[p].op = "write" /\ ~Locked(c)
      /\ UNCHANGED storeVars
      /\ IF IsPending(cards[c]) /\ Live(row)
         THEN Enter(p, "locked", [rjob[p] EXCEPT !.snap = row]) ELSE Leave(p)
  BY DEF LockWrite
<1>2. StoreInv' /\ RowsPersist /\ HeldCardsStayPending
  BY <1>1, StoreUntouched
<1>3. CASE ~(IsPending(cards[c]) /\ Live(row))
  BY <1>1, <1>2, <1>3, LeaveKeeps DEF StoreInv, HeldCardsStayPending
<1>4. CASE IsPending(cards[c]) /\ Live(row)
  <2>1. rjob[p] \in Job /\ RequestOK("prepared", rjob[p]) /\ c \in Cards
    BY <1>1 DEF ReviewerInv, ReviewTypeOK, RequestOK, HoldsCard
  <2>2. cards[c].status # "none" /\ row \in SkillRow /\ row.ver # 0
    BY <1>4, <2>1, SnapshotFits DEF IsPending
  <2>3. PICK job \in Job :
          /\ job = [rjob[p] EXCEPT !.snap = row]
          /\ job.op = "write" /\ job.todo = rjob[p].todo /\ job.card = c
          /\ job.vec = rjob[p].vec /\ job.snap = row
    <3>1. [rjob[p] EXCEPT !.snap = row] \in Job
      BY <2>1, <2>2, JobTyped
    <3>2. QED
      BY <1>1, <2>1, <3>1 DEF Job
  <2>4. RequestOK("locked", job)
    <3>1. CopyIsOlder(job)
      BY <2>2, <2>3 DEF CopyIsOlder
    <3>2. QED
      BY <1>1, <1>4, <2>1, <2>2, <2>3, <3>1 DEF RequestOK, HoldsCard
  <2>5. RequestOK("locked", job)'
    <3>1. IsPending(cards'[job.card])
      BY <1>1, <1>4, <2>3 DEF storeVars
    <3>2. QED
      BY <1>2, <2>4, <3>1, RequestPersists DEF StoreInv
  <2>6. Enter(p, "locked", job)
    BY <1>1, <1>4, <2>3 DEF Enter
  <2>7. \A q \in Reviewers \ {p} : ~(rphase[q] = "locked" /\ rjob[q].card = job.card)
    BY <1>1, <2>3 DEF Locked
  <2>8. ReviewerInv'
    BY <1>2, <2>5, <2>6, <2>7, ReviewerStepKeeps DEF StoreInv, HeldCardsStayPending
  <2>9. QED
    BY <1>2, <2>8
<1>5. QED
  BY <1>3, <1>4

\* What a request that holds the lock of its card can rely on.
LEMMA LockedFacts ==
  ASSUME StoreInv, ReviewerInv, NEW p \in Reviewers, rphase[p] = "locked"
  PROVE  LET job == rjob[p]
             c == job.card
             s == cards[c].skill
         IN /\ job \in Job /\ c \in Cards /\ s \in Skills
            /\ cards[c] \in CardRow /\ skills[s] \in SkillRow
            /\ skills[s].status # "none" /\ skills[s].ver # 0
            /\ job.snap \in SkillRow /\ job.snap.ver # 0
            /\ skills[s].ver = 1 => job.snap.ver = 1
            /\ (job.op = "approve" /\ Live(job.snap)) =>
                 (RewritesRule(cards[c]) => job.vec # NoVector)
            /\ job.op = "write" => job.vec # NoVector
<1> DEFINE job == rjob[p]
<1>1. job \in Job /\ RequestOK("locked", job)
  BY DEF ReviewerInv, ReviewTypeOK
<1>2. job.card \in Cards /\ cards[job.card].status # "none"
  BY <1>1 DEF RequestOK, HoldsCard
<1>3. job.snap \in SkillRow /\ CopyIsOlder(job)
  BY <1>1 DEF RequestOK, Job
<1>4. (job.op = "approve" /\ Live(job.snap)) =>
        (RewritesRule(cards[job.card]) => job.vec # NoVector)
  BY <1>1 DEF RequestOK, VectorIsReady, Live
<1>5. job.op = "write" => job.vec # NoVector
  BY <1>1 DEF RequestOK
<1>6. QED
  BY <1>1, <1>2, <1>3, <1>4, <1>5, SnapshotFits DEF CopyIsOlder

LEMMA CommitRejectKeeps ==
  ASSUME StoreInv, ReviewerInv, NEW p \in Reviewers, CommitReject(p)
  PROVE  StoreInv' /\ RowsPersist /\ ReviewerInv'
<1> DEFINE job == rjob[p]
           c == job.card
           s == cards[c].skill
           row == [skills[s] EXCEPT !.status = "draft"]
<1>1. /\ rphase[p] = "locked" /\ ResolveCard(c, "rejected") /\ Leave(p)
      /\ UNCHANGED versions
      /\ \/ UNCHANGED skills
         \/ skills' = [skills EXCEPT ![s].status = "draft"]
  BY DEF CommitReject
<1>2. s \in Skills /\ skills[s] \in SkillRow /\ skills[s].status # "none"
  BY <1>1, LockedFacts
<1>3. /\ versions' \in [Skills -> SUBSET VersionRow]
      /\ \A x \in Skills : versions[x] \subseteq versions'[x]
  BY <1>1 DEF StoreInv, StoreTypeOK
<1>4. skills' \in [Skills -> SkillRow] /\ MovedVersionRecorded' /\ SkillsPersist
  <2>1. CASE UNCHANGED skills
    BY <1>1, <2>1 DEF StoreInv, StoreTypeOK, MovedVersionRecorded, Recorded,
                      SkillsPersist
  <2>2. CASE skills' = [skills EXCEPT ![s].status = "draft"]
    <3>1. row \in SkillRow /\ row.status = "draft" /\ row.ver = skills[s].ver
          /\ row.deleted = skills[s].deleted
      BY <1>2 DEF SkillRow
    <3>2. skills' = [skills EXCEPT ![s] = row]
      BY <2>2
    <3>3. row.ver # 0
          /\ (row.ver # 1 => \E entry \in versions'[s] : entry.ver = row.ver)
      BY <1>1, <1>2, <3>1 DEF StoreInv, MovedVersionRecorded, Recorded
    <3> HIDE DEF row
    <3>4. QED
      BY <1>2, <1>3, <3>1, <3>2, <3>3, WriteSkillKeeps DEF Exists
  <2>3. QED
    BY <1>1, <2>1, <2>2
<1>5. /\ cards' \in [Cards -> CardRow]
      /\ CardsHaveSkills' /\ OneDecisionCard' /\ CardsPersist
      /\ \A q \in Reviewers \ {p} :
           rphase[q] = "locked" => IsPending(cards'[rjob[q].card])
  BY <1>1, <1>4, ResolveCardKeeps
<1>6. StoreInv' /\ RowsPersist
  BY <1>3, <1>4, <1>5 DEF StoreInv, StoreTypeOK, RowsPersist
<1>7. QED
  BY <1>1, <1>5, <1>6, LeaveKeeps DEF StoreInv

LEMMA CommitWriteKeeps ==
  ASSUME StoreInv, ReviewerInv, NEW p \in Reviewers, CommitWrite(p)
  PROVE  StoreInv' /\ RowsPersist /\ ReviewerInv'
<1> DEFINE job == rjob[p]
           c == job.card
           s == cards[c].skill
           v == NextVersion(job.snap.ver)
           exc == IF "exceptions" \in job.keep THEN job.snap.exc ELSE job.exc
           acts == IF "actions" \in job.keep THEN skills[s].acts ELSE job.acts
           row == UpdateSkillLogic(skills[s], job.rule, exc, acts, v, job.vec)
           entry == Version(v, job.rule, exc, "human_edit", c)
<1>1. /\ rphase[p] = "locked" /\ job.op = "write" /\ ResolveCard(c, "approved")
      /\ Leave(p)
      /\ versions' = [versions EXCEPT ![s] = @ \cup {entry}]
      /\ skills' = [skills EXCEPT ![s] = row]
  BY DEF CommitWrite
<1>2. /\ job \in Job /\ c \in Cards /\ s \in Skills /\ skills[s] \in SkillRow
      /\ job.snap \in SkillRow /\ job.snap.ver # 0 /\ job.vec # NoVector
      /\ skills[s].status # "none"
  BY <1>1, LockedFacts
<1>3. /\ job.rule \in Texts /\ exc \in SUBSET Exceptions /\ acts \in Texts
      /\ job.vec \in Vectors /\ job.snap.ver \in Nat
      /\ v \in Nat /\ v # 0 /\ v # 1
  BY <1>2 DEF Job, SkillRow, NextVersion
<1>4. row \in SkillRow
  BY <1>2, <1>3, UpdateSkillLogicTyped
<1>5. entry \in VersionRow /\ entry.ver = v
  BY <1>2, <1>3, VersionTyped DEF Version
<1>6. row.ver = v /\ row.status = "active" /\ row.deleted = skills[s].deleted
  BY <1>2 DEF UpdateSkillLogic, SkillRow
<1>7. /\ versions' \in [Skills -> SUBSET VersionRow]
      /\ \A x \in Skills : versions[x] \subseteq versions'[x]
      /\ entry \in versions'[s]
  BY <1>1, <1>2, <1>5 DEF StoreInv, StoreTypeOK
<1> HIDE DEF row, entry, v
<1>8. \E old \in versions'[s] : old.ver = row.ver
  BY <1>5, <1>6, <1>7
<1>9. skills' \in [Skills -> SkillRow] /\ MovedVersionRecorded' /\ SkillsPersist
  BY <1>1, <1>2, <1>3, <1>4, <1>6, <1>7, <1>8, WriteSkillKeeps DEF Exists
<1>10. /\ cards' \in [Cards -> CardRow]
       /\ CardsHaveSkills' /\ OneDecisionCard' /\ CardsPersist
       /\ \A q \in Reviewers \ {p} :
            rphase[q] = "locked" => IsPending(cards'[rjob[q].card])
  BY <1>1, <1>9, ResolveCardKeeps
<1>11. StoreInv' /\ RowsPersist
  BY <1>7, <1>9, <1>10 DEF StoreInv, StoreTypeOK, RowsPersist
<1>12. QED
  BY <1>1, <1>10, <1>11, LeaveKeeps DEF StoreInv

\* The label an approval leaves is recorded with it, and no step takes a moved
\* label back to the first.
LEMMA ApprovalRecorded ==
  ASSUME NEW c \in Cards, cards[c] \in CardRow, NEW job \in Job,
         NEW row \in SkillRow, row.ver # 0, job.snap.ver # 0,
         row.ver = 1 => job.snap.ver = 1,
         NEW new, new = ApprovedSkill(c, job, row)
  PROVE  /\ new.status = "active" /\ new.deleted = row.deleted /\ new.ver # 0
         /\ new.ver = 1 => row.ver = 1
         /\ (new.ver = row.ver /\ row.ver # 1)
            \/ \E entry \in ApprovalVersions(c, job) : entry.ver = new.ver
<1> DEFINE card == cards[c]
           snap == job.snap
<1>1. snap.ver \in Nat /\ row.ver \in Nat /\ card.kind \in Kinds
  BY DEF Job, SkillRow, CardRow
<1>2. /\ NextVersion(snap.ver) # 0 /\ NextVersion(snap.ver) # 1
  BY <1>1 DEF NextVersion
<1>3. CASE card.kind = "new_decision"
  <2>1. ApprovalVersions(c, job) = {Version(snap.ver, snap.rule, snap.exc, "create", c)}
    BY <1>3 DEF ApprovalVersions, RewritesRule
  <2>2. new = [row EXCEPT !.status = "active", !.conf = HumanConfidence]
    BY <1>3 DEF ApprovedSkill, RewritesRule
  <2>3. new.status = "active" /\ new.deleted = row.deleted /\ new.ver = row.ver
    BY <2>2 DEF SkillRow
  <2>4. Version(snap.ver, snap.rule, snap.exc, "create", c).ver = snap.ver
    BY DEF Version
  <2>5. \E entry \in ApprovalVersions(c, job) : entry.ver = snap.ver
    BY <2>1, <2>4
  <2>6. QED
    BY <2>3, <2>5
<1>4. CASE RewritesRule(card)
  <2> DEFINE entry == Version(NextVersion(snap.ver), ProposedRule(card, snap),
                              card.exc, "human_edit", c)
  <2>1. entry \in ApprovalVersions(c, job)
    BY <1>4 DEF ApprovalVersions, RewritesRule
  <2>2. new = UpdateSkillLogic(row, ProposedRule(card, snap), card.exc, card.acts,
                               NextVersion(snap.ver), job.vec)
    BY <1>4 DEF ApprovedSkill, RewritesRule
  <2>3. /\ new.status = "active" /\ new.deleted = row.deleted
        /\ new.ver = NextVersion(snap.ver)
    BY <2>2 DEF UpdateSkillLogic, SkillRow
  <2>4. entry.ver = NextVersion(snap.ver)
    BY DEF Version
  <2> HIDE DEF entry
  <2>5. QED
    BY <1>2, <2>1, <2>3, <2>4
<1>5. CASE card.kind = "exception"
  <2> DEFINE entry == Version(NextVersion(snap.ver), snap.rule,
                              snap.exc \cup ProposedExceptions(card, snap),
                              "human_edit", c)
  <2>1. entry \in ApprovalVersions(c, job)
    BY <1>5 DEF ApprovalVersions, RewritesRule
  <2>2. new = ApplyException(row, snap.exc \cup ProposedExceptions(card, snap),
                             NextVersion(snap.ver))
    BY <1>5 DEF ApprovedSkill, RewritesRule
  <2>3. /\ new.status = "active" /\ new.deleted = row.deleted
        /\ new.ver = NextVersion(snap.ver)
    BY <2>2 DEF ApplyException, SkillRow
  <2>4. entry.ver = NextVersion(snap.ver)
    BY DEF Version
  <2> HIDE DEF entry
  <2>5. QED
    BY <1>2, <2>1, <2>3, <2>4
<1>6. QED
  BY <1>1, <1>3, <1>4, <1>5 DEF Kinds, RewritesRule

LEMMA CommitApproveKeeps ==
  ASSUME StoreInv, ReviewerInv, NEW p \in Reviewers, CommitApprove(p)
  PROVE  StoreInv' /\ RowsPersist /\ ReviewerInv'
<1> DEFINE job == rjob[p]
           c == job.card
           s == cards[c].skill
           row == ApprovedSkill(c, job, skills[s])
           entries == ApprovalVersions(c, job)
<1>1. /\ rphase[p] = "locked" /\ job.op = "approve" /\ ResolveCard(c, "approved")
      /\ Continue(p, [card |-> c, vec |-> job.vec])
      /\ IF Live(job.snap)
         THEN /\ skills' = [skills EXCEPT ![s] = row]
              /\ versions' = [versions EXCEPT ![s] = @ \cup entries]
         ELSE UNCHANGED <<skills, versions>>
  BY DEF CommitApprove
<1>2. /\ job \in Job /\ c \in Cards /\ cards[c] \in CardRow /\ s \in Skills
      /\ skills[s] \in SkillRow /\ skills[s].status # "none"
      /\ job.snap.ver # 0 /\ (skills[s].ver = 1 => job.snap.ver = 1)
      /\ skills[s].ver # 0
      /\ Live(job.snap) => (RewritesRule(cards[c]) => job.vec # NoVector)
  BY <1>1, LockedFacts
<1>3. /\ skills' \in [Skills -> SkillRow] /\ MovedVersionRecorded' /\ SkillsPersist
      /\ versions' \in [Skills -> SUBSET VersionRow]
  <2>1. CASE ~Live(job.snap)
    BY <1>1, <2>1 DEF StoreInv, StoreTypeOK, MovedVersionRecorded, Recorded,
                      SkillsPersist
  <2>2. CASE Live(job.snap)
    <3>1. row \in SkillRow /\ entries \subseteq VersionRow
      BY <1>2, <2>2, ApprovalTyped
    <3>2. /\ row.status = "active" /\ row.deleted = skills[s].deleted /\ row.ver # 0
          /\ row.ver = 1 => skills[s].ver = 1
          /\ (row.ver = skills[s].ver /\ skills[s].ver # 1)
             \/ \E entry \in entries : entry.ver = row.ver
      BY <1>2, ApprovalRecorded
    <3> HIDE DEF row, entries
    <3>3. /\ versions' \in [Skills -> SUBSET VersionRow]
          /\ \A x \in Skills : versions[x] \subseteq versions'[x]
          /\ entries \subseteq versions'[s]
      BY <1>1, <1>2, <2>2, <3>1 DEF StoreInv, StoreTypeOK
    <3>4. \E entry \in versions'[s] : entry.ver = row.ver
      BY <1>2, <3>2, <3>3 DEF StoreInv, MovedVersionRecorded, Recorded
    <3>5. skills' = [skills EXCEPT ![s] = row]
      BY <1>1, <2>2
    <3>6. QED
      BY <1>2, <3>1, <3>2, <3>3, <3>4, <3>5, WriteSkillKeeps DEF Exists
  <2>3. QED
    BY <2>1, <2>2
<1>4. /\ cards' \in [Cards -> CardRow]
      /\ CardsHaveSkills' /\ OneDecisionCard' /\ CardsPersist
      /\ \A q \in Reviewers \ {p} :
           rphase[q] = "locked" => IsPending(cards'[rjob[q].card])
  BY <1>1, <1>3, ResolveCardKeeps
<1>5. StoreInv' /\ RowsPersist
  BY <1>3, <1>4 DEF StoreInv, StoreTypeOK, RowsPersist
<1>6. QED
  BY <1>1, <1>4, <1>5, ContinueKeeps DEF StoreInv

LEMMA ReviewStepKeeps ==
  ASSUME StoreInv, ReviewerInv, NEW p \in Reviewers, ReviewStep(p)
  PROVE  StoreInv' /\ RowsPersist /\ ReviewerInv'
<1>1. CASE \E ids \in SUBSET Cards : BeginApprove(p, ids)
  BY <1>1, BeginApproveKeeps
<1>2. CASE \E item \in rjob[p].todo : LockApprove(p, item)
  BY <1>2, LockApproveKeeps
<1>3. ASSUME NEW item \in rjob[p].todo, SkipApprove(p, item)
      PROVE  StoreInv' /\ RowsPersist /\ ReviewerInv'
  <2>1. Continue(p, item) /\ UNCHANGED storeVars
    BY <1>3 DEF SkipApprove
  <2>2. StoreInv' /\ RowsPersist /\ HeldCardsStayPending
    BY <2>1, StoreUntouched
  <2>3. QED
    BY <2>1, <2>2, ContinueKeeps DEF StoreInv, HeldCardsStayPending
<1>4. CASE CommitApprove(p)
  BY <1>4, CommitApproveKeeps
<1>5. CASE \E c \in Cards : BeginReject(p, c)
  BY <1>5, BeginRejectKeeps
<1>6. CASE CommitReject(p)
  BY <1>6, CommitRejectKeeps
<1>7. ASSUME NEW c \in Cards, NEW rule \in Rules, NEW exc \in SUBSET Clauses,
             NEW keep \in SUBSET Blocks, BeginWrite(p, c, rule, exc, rule, keep)
      PROVE  StoreInv' /\ RowsPersist /\ ReviewerInv'
  <2>1. rule \in Texts /\ exc \in SUBSET Exceptions
    BY DEF Texts, Exceptions
  <2>2. QED
    BY <1>7, <2>1, BeginWriteKeeps
<1>8. ASSUME NEW c \in Cards, ResolveSourceA(p, c) \/ ResolveSourceB(p, c)
      PROVE  StoreInv' /\ RowsPersist /\ ReviewerInv'
  <2>1. cards[c] \in CardRow
    BY DEF StoreInv, StoreTypeOK
  <2>2. /\ cards[c].before \in Texts /\ cards[c].after \in Texts
        /\ cards[c].exc \in SUBSET Exceptions /\ cards[c].acts \in Texts
        /\ NoRule \in Texts
    BY <2>1 DEF CardRow, Texts
  <2>3. \/ BeginWrite(p, c, cards[c].before, {}, NoRule, Blocks)
        \/ BeginWrite(p, c, cards[c].after, cards[c].exc, cards[c].acts, {})
    BY <1>8 DEF ResolveSourceA, ResolveSourceB
  <2>4. {} \in SUBSET Exceptions /\ Blocks \in SUBSET Blocks /\ {} \in SUBSET Blocks
    OBVIOUS
  <2>5. QED
    BY <2>2, <2>3, <2>4, BeginWriteKeeps
<1>9. CASE LockWrite(p)
  BY <1>9, LockWriteKeeps
<1>10. CASE CommitWrite(p)
  BY <1>10, CommitWriteKeeps
<1>11. CASE Abandon(p)
  <2>1. Leave(p) /\ UNCHANGED storeVars
    BY <1>11 DEF Abandon
  <2>2. StoreInv' /\ RowsPersist /\ HeldCardsStayPending
    BY <2>1, StoreUntouched
  <2>3. QED
    BY <2>1, <2>2, LeaveKeeps DEF StoreInv, HeldCardsStayPending
<1>12. QED
  BY <1>1, <1>2, <1>3, <1>4, <1>5, <1>6, <1>7, <1>8, <1>9, <1>10, <1>11
     DEF ReviewStep

-------------------------------------------------------------------------------
(***************************************************************************)
(* The extraction jobs' steps.                                             *)
(***************************************************************************)
\* A new skill is at its first label, unpublished and without a card.
LEMMA NewSkillKeeps ==
  ASSUME StoreInv, NEW s \in Skills, ~Exists(s), UNCHANGED versions,
         NEW row \in SkillRow, row.status \in {"draft", "review"}, row.ver = 1,
         skills' = [skills EXCEPT ![s] = row]
  PROVE  /\ skills' \in [Skills -> SkillRow] /\ versions' \in [Skills -> SUBSET VersionRow]
         /\ MovedVersionRecorded' /\ SkillsPersist
         /\ \A x \in Skills : (x = s \/ Exists(x)) => skills'[x].status # "none"
         /\ PendingCardsOf(s) = {}
<1>1. /\ versions' \in [Skills -> SUBSET VersionRow]
      /\ \A x \in Skills : versions[x] \subseteq versions'[x]
  BY DEF StoreInv, StoreTypeOK
<1>2. /\ skills' \in [Skills -> SkillRow] /\ MovedVersionRecorded' /\ SkillsPersist
  <2>1. row.status # "none" /\ row.status # "active" /\ row.ver # 0
    OBVIOUS
  <2>2. (row.ver # 1 \/ row.status = "active") =>
          \E entry \in versions'[s] : entry.ver = row.ver
    BY <2>1
  <2>3. QED
    BY <1>1, <2>1, <2>2, WriteSkillKeeps
<1>3. PendingCardsOf(s) = {}
  BY DEF StoreInv, CardsHaveSkills, PendingCardsOf, IsPending
<1>4. \A x \in Skills : (x = s \/ Exists(x)) => skills'[x].status # "none"
  BY DEF StoreInv, StoreTypeOK, Exists
<1>5. QED
  BY <1>1, <1>2, <1>3, <1>4

LEMMA WriterDone ==
  ASSUME WriterInv, RowsPersist, NEW w \in Workers, Done(w)
  PROVE  WriterInv'
<1>1. NoMatch \in Match /\ NoMatch.skill = NoSkill
  BY EmptyRowsTyped DEF NoMatch
<1>2. WriterTypeOK'
  BY <1>1 DEF WriterInv, WriterTypeOK, Done
<1>3. MatchesNameSkills'
  BY <1>1, NullsAreNotValues DEF WriterInv, WriterTypeOK, MatchesNameSkills, Done,
     RowsPersist, SkillsPersist, Exists, Match
<1>4. QED
  BY <1>2, <1>3 DEF WriterInv

LEMMA WriterStepKeeps ==
  ASSUME StoreInv, ReviewerInv, WriterInv, NEW w \in Workers, WriterStep(w)
  PROVE  StoreInv' /\ RowsPersist /\ HeldCardsStayPending /\ WriterInv'
<1>1. ASSUME NEW s \in Skills, NEW scope, Search(w, scope, s)
      PROVE  StoreInv' /\ RowsPersist /\ HeldCardsStayPending /\ WriterInv'
  <2>1. /\ Live(skills[s]) /\ UNCHANGED storeVars
        /\ wphase' = [wphase EXCEPT ![w] = "matched"]
        /\ match' = [match EXCEPT ![w] = [skill |-> s, rule |-> skills[s].rule]]
    BY <1>1 DEF Search
  <2>2. StoreInv' /\ RowsPersist /\ HeldCardsStayPending
    BY <2>1, StoreUntouched
  <2>3. [skill |-> s, rule |-> skills[s].rule] \in Match
    BY DEF StoreInv, StoreTypeOK, SkillRow, Match
  <2>4. WriterTypeOK'
    BY <2>1, <2>3 DEF WriterInv, WriterTypeOK
  <2>5. MatchesNameSkills'
    BY <2>1 DEF WriterInv, WriterTypeOK, MatchesNameSkills, Exists, Live, storeVars
  <2>6. QED
    BY <2>2, <2>4, <2>5 DEF WriterInv
<1>2. CASE SearchNothing(w)
  <2>1. UNCHANGED storeVars /\ UNCHANGED match
        /\ wphase' = [wphase EXCEPT ![w] = "matched"]
    BY <1>2 DEF SearchNothing, storeVars
  <2>2. StoreInv' /\ RowsPersist /\ HeldCardsStayPending
    BY <2>1, StoreUntouched
  <2>3. WriterInv'
    BY <2>1 DEF WriterInv, WriterTypeOK, MatchesNameSkills, Exists, storeVars
  <2>4. QED
    BY <2>2, <2>3
<1>3. ASSUME NEW s \in Skills, NEW c \in Cards, NEW rule \in Rules,
             NEW exc \in SUBSET Clauses, NEW trigger \in Triggers,
             NEW conf \in {DraftConfidence, ReviewConfidence},
             WriteNewSkill(w, s, c, rule, exc, trigger, conf)
      PROVE  StoreInv' /\ RowsPersist /\ HeldCardsStayPending /\ WriterInv'
  <2> DEFINE row == NewSkill(Route(conf), trigger, rule, exc, rule, conf)
             card == NewCard("new_decision", s, NoRule, rule, exc, rule)
  <2>1. /\ ~Exists(s) /\ skills' = [skills EXCEPT ![s] = row] /\ UNCHANGED versions
        /\ InsertCard(c, card) \/ UNCHANGED cards
        /\ Done(w)
    BY <1>3 DEF WriteNewSkill
  <2>2. rule \in Texts /\ exc \in SUBSET Exceptions /\ NoRule \in Texts
        /\ conf \in Confidences /\ Route(conf) \in {"draft", "review"}
    BY ConfidencesTyped DEF Texts, Exceptions, Route
  <2>3. row \in SkillRow /\ row.status \in {"draft", "review"} /\ row.ver = 1
    BY <2>2, NewSkillTyped DEF NewSkill
  <2>4. card \in CardRow /\ card.status = "pending" /\ card.skill = s
    BY <2>2, NewCardTyped DEF NewCard, Kinds
  <2> HIDE DEF row, card
  <2>5. /\ skills' \in [Skills -> SkillRow]
        /\ versions' \in [Skills -> SUBSET VersionRow]
        /\ MovedVersionRecorded' /\ SkillsPersist
        /\ \A x \in Skills : (x = s \/ Exists(x)) => skills'[x].status # "none"
        /\ PendingCardsOf(s) = {}
    BY <2>1, <2>3, NewSkillKeeps
  <2>6. /\ cards' \in [Cards -> CardRow]
        /\ CardsHaveSkills' /\ OneDecisionCard'
        /\ CardsPersist /\ HeldCardsStayPending
    <3>1. CASE InsertCard(c, card)
      BY <2>4, <2>5, <3>1, InsertCardKeeps DEF Exists
    <3>2. CASE UNCHANGED cards
      BY <2>5, <3>2 DEF StoreInv, StoreTypeOK, CardsHaveSkills, OneDecisionCard,
         PendingCardsOf, CardsPersist, HeldCardsStayPending, ReviewerInv, RequestOK,
         Exists
    <3>3. QED
      BY <2>1, <3>1, <3>2
  <2>7. StoreInv' /\ RowsPersist
    BY <2>5, <2>6 DEF StoreInv, StoreTypeOK, RowsPersist
  <2>8. QED
    BY <2>1, <2>6, <2>7, WriterDone
<1>4. ASSUME NEW c \in Cards, NEW kind \in Kinds, NEW rule \in Rules,
             NEW exc \in SUBSET Clauses, WriteMatched(w, c, kind, rule, exc)
      PROVE  StoreInv' /\ RowsPersist /\ HeldCardsStayPending /\ WriterInv'
  <2> DEFINE s == match[w].skill
             card == NewCard(kind, s, match[w].rule, rule, exc, rule)
  <2>1. /\ s # NoSkill /\ kind # "new_decision" /\ InsertCard(c, card)
        /\ UNCHANGED <<skills, versions>> /\ Done(w)
    BY <1>4 DEF WriteMatched
  <2>2. s \in Skills /\ match[w].rule \in Texts /\ Exists(s)
    BY <2>1 DEF WriterInv, WriterTypeOK, Match, MatchesNameSkills
  <2>3. rule \in Texts /\ exc \in SUBSET Exceptions
    BY DEF Texts, Exceptions
  <2>4. card \in CardRow /\ card.status = "pending" /\ card.skill = s
        /\ card.kind # "new_decision"
    BY <2>1, <2>2, <2>3, NewCardTyped DEF NewCard
  <2>5. SkillsPersist /\ skills'[s].status # "none"
    BY <2>1, <2>2 DEF SkillsPersist, Exists
  <2> HIDE DEF card
  <2>6. /\ cards' \in [Cards -> CardRow]
        /\ CardsHaveSkills' /\ OneDecisionCard'
        /\ CardsPersist /\ HeldCardsStayPending
    BY <2>1, <2>2, <2>4, <2>5, InsertCardKeeps DEF Exists
  <2>7. StoreInv' /\ RowsPersist
    BY <2>1, <2>5, <2>6 DEF StoreInv, StoreTypeOK, RowsPersist,
                            MovedVersionRecorded, Recorded
  <2>8. QED
    BY <2>1, <2>6, <2>7, WriterDone
<1>5. CASE WriteNothing(w)
  <2>1. UNCHANGED storeVars /\ Done(w)
    BY <1>5 DEF WriteNothing
  <2>2. QED
    BY <2>1, StoreUntouched, WriterDone
<1>6. QED
  BY <1>1, <1>2, <1>3, <1>4, <1>5 DEF WriterStep

-------------------------------------------------------------------------------
(***************************************************************************)
(* The dashboard's and the agents' steps.                                  *)
(***************************************************************************)
LEMMA StartEditKeeps ==
  ASSUME EditorInv, NEW e \in Editors, NEW job \in EditJob, StartEdit(e, job),
         job.skill \in Skills, job.op = "override" => job.call \in Calls,
         UNCHANGED calls
  PROVE  EditorInv'
<1>1. EditorTypeOK'
  BY DEF EditorInv, EditorTypeOK, StartEdit
<1>2. EditsNameSkills'
  BY DEF EditorInv, EditorTypeOK, EditsNameSkills, StartEdit
<1>3. QED
  BY <1>1, <1>2 DEF EditorInv

LEMMA EndEditKeeps ==
  ASSUME EditorInv, NEW e \in Editors, EndEdit(e), calls' \in [Calls -> CallRow]
  PROVE  EditorInv'
<1>1. NoEditJob \in EditJob
  BY EmptyRowsTyped
<1>2. EditorTypeOK'
  BY <1>1 DEF EditorInv, EditorTypeOK, EndEdit
<1>3. EditsNameSkills'
  BY DEF EditorInv, EditorTypeOK, EditsNameSkills, EndEdit
<1>4. QED
  BY <1>2, <1>3 DEF EditorInv

\* One skill is updated in place: its label stays and nothing is published.
LEMMA UpdateSkillKeeps ==
  ASSUME StoreInv, NEW s \in Skills, Exists(s), UNCHANGED versions,
         NEW row \in SkillRow, row.status # "none", row.ver = skills[s].ver,
         row.status = "active" => skills[s].status = "active",
         skills[s].deleted => row.deleted,
         skills' = [skills EXCEPT ![s] = row]
  PROVE  /\ skills' \in [Skills -> SkillRow] /\ versions' \in [Skills -> SUBSET VersionRow]
         /\ MovedVersionRecorded' /\ SkillsPersist
<1>1. /\ versions' \in [Skills -> SUBSET VersionRow]
      /\ \A x \in Skills : versions[x] \subseteq versions'[x]
  BY DEF StoreInv, StoreTypeOK
<1>2. row.ver # 0
  BY DEF StoreInv, MovedVersionRecorded
<1>3. (row.ver # 1 \/ row.status = "active") =>
        \E entry \in versions'[s] : entry.ver = row.ver
  BY DEF StoreInv, MovedVersionRecorded, Recorded
<1>4. QED
  BY <1>1, <1>2, <1>3, WriteSkillKeeps

\* Nothing happens to the cards.
LEMMA CardsUntouched ==
  ASSUME StoreInv, ReviewerInv, UNCHANGED cards, SkillsPersist
  PROVE  /\ cards' \in [Cards -> CardRow] /\ CardsHaveSkills' /\ OneDecisionCard'
         /\ CardsPersist /\ HeldCardsStayPending
BY DEF StoreInv, StoreTypeOK, CardsHaveSkills, OneDecisionCard, PendingCardsOf,
       CardsPersist, HeldCardsStayPending, ReviewerInv, RequestOK, Exists,
       SkillsPersist

LEMMA CreateSkillKeeps ==
  ASSUME StoreInv, ReviewerInv, EditorInv, NEW e \in Editors, NEW s \in Skills,
         NEW c \in Cards, NEW trigger \in Triggers, NEW rule \in Rules,
         CreateSkill(e, s, c, trigger, rule)
  PROVE  StoreInv' /\ RowsPersist /\ HeldCardsStayPending /\ EditorInv'
<1> DEFINE row == NewSkill("draft", trigger, rule, {}, NoRule, HumanConfidence)
           card == NewCard("new_decision", s, NoRule, rule, {}, NoRule)
<1>1. /\ ~Exists(s) /\ skills' = [skills EXCEPT ![s] = row] /\ UNCHANGED versions
      /\ InsertCard(c, card) /\ UNCHANGED editorVars
  BY DEF CreateSkill
<1>2. row \in SkillRow /\ row.status \in {"draft", "review"} /\ row.ver = 1
  <2>1. NoRule \in Texts /\ {} \in SUBSET Exceptions
    BY DEF Texts
  <2>2. QED
    BY <2>1, NewSkillTyped, ConfidencesTyped DEF NewSkill
<1>3. card \in CardRow /\ card.status = "pending" /\ card.skill = s
  BY NewCardTyped DEF NewCard, Kinds, Texts
<1> HIDE DEF row, card
<1>4. /\ skills' \in [Skills -> SkillRow]
      /\ versions' \in [Skills -> SUBSET VersionRow]
      /\ MovedVersionRecorded' /\ SkillsPersist
      /\ \A x \in Skills : (x = s \/ Exists(x)) => skills'[x].status # "none"
      /\ PendingCardsOf(s) = {}
  BY <1>1, <1>2, NewSkillKeeps
<1>5. /\ cards' \in [Cards -> CardRow]
      /\ CardsHaveSkills' /\ OneDecisionCard'
      /\ CardsPersist /\ HeldCardsStayPending
  BY <1>1, <1>3, <1>4, InsertCardKeeps DEF Exists
<1>6. StoreInv' /\ RowsPersist
  BY <1>4, <1>5 DEF StoreInv, StoreTypeOK, RowsPersist
<1>7. QED
  BY <1>1, <1>5, <1>6, EditorsKeep

LEMMA DeleteSkillKeeps ==
  ASSUME StoreInv, ReviewerInv, EditorInv, NEW e \in Editors, NEW s \in Skills,
         DeleteSkill(e, s)
  PROVE  StoreInv' /\ RowsPersist /\ HeldCardsStayPending /\ EditorInv'
<1> DEFINE row == [skills[s] EXCEPT !.deleted = TRUE]
<1>1. /\ Live(skills[s]) /\ skills' = [skills EXCEPT ![s] = row]
      /\ UNCHANGED versions /\ UNCHANGED cards /\ UNCHANGED editorVars
  BY DEF DeleteSkill
<1>2. skills[s] \in SkillRow /\ Exists(s)
  BY <1>1 DEF StoreInv, StoreTypeOK, Live, Exists
<1>3. row \in SkillRow /\ row.status = skills[s].status /\ row.ver = skills[s].ver
      /\ row.deleted
  BY <1>2 DEF SkillRow
<1> HIDE DEF row
<1>4. /\ skills' \in [Skills -> SkillRow] /\ versions' \in [Skills -> SUBSET VersionRow]
      /\ MovedVersionRecorded' /\ SkillsPersist
  BY <1>1, <1>2, <1>3, UpdateSkillKeeps DEF Exists
<1>5. StoreInv' /\ RowsPersist /\ HeldCardsStayPending
  BY <1>1, <1>4, CardsUntouched DEF StoreInv, StoreTypeOK, RowsPersist
<1>6. QED
  BY <1>1, <1>5, EditorsKeep

LEMMA CommitEditKeeps ==
  ASSUME StoreInv, ReviewerInv, EditorInv, NEW e \in Editors, CommitEdit(e)
  PROVE  StoreInv' /\ RowsPersist /\ HeldCardsStayPending /\ EditorInv'
<1> DEFINE job == ejob[e]
           s == job.skill
           row == EditedSkill(skills[s], job)
<1>1. /\ ephase[e] = "read" /\ EndEdit(e) /\ UNCHANGED versions
      /\ UNCHANGED cards /\ UNCHANGED calls
      /\ IF Live(skills[s]) THEN skills' = [skills EXCEPT ![s] = row]
                            ELSE UNCHANGED skills
  BY DEF CommitEdit, AtCommit
<1>2. job \in EditJob /\ s \in Skills /\ skills[s] \in SkillRow
  BY <1>1 DEF EditorInv, EditorTypeOK, EditsNameSkills, StoreInv, StoreTypeOK
<1>3. /\ skills' \in [Skills -> SkillRow] /\ versions' \in [Skills -> SUBSET VersionRow]
      /\ MovedVersionRecorded' /\ SkillsPersist
  <2>1. CASE ~Live(skills[s])
    BY <1>1, <2>1 DEF StoreInv, StoreTypeOK, MovedVersionRecorded, Recorded,
                      SkillsPersist
  <2>2. CASE Live(skills[s])
    <3>1. /\ row \in SkillRow /\ row.status = skills[s].status
          /\ row.ver = skills[s].ver /\ row.deleted = skills[s].deleted
      BY <1>2 DEF EditedSkill, EditJob, SkillRow
    <3> HIDE DEF row
    <3>2. Exists(s) /\ skills' = [skills EXCEPT ![s] = row]
      BY <1>1, <2>2 DEF Live, Exists
    <3>3. QED
      BY <1>1, <1>2, <3>1, <3>2, UpdateSkillKeeps DEF Exists
  <2>3. QED
    BY <2>1, <2>2
<1>4. StoreInv' /\ RowsPersist /\ HeldCardsStayPending
  BY <1>1, <1>3, CardsUntouched DEF StoreInv, StoreTypeOK, RowsPersist
<1>5. calls' \in [Calls -> CallRow]
  BY <1>1 DEF EditorInv, EditorTypeOK
<1>6. QED
  BY <1>1, <1>4, <1>5, EndEditKeeps

LEMMA CommitSubmitKeeps ==
  ASSUME StoreInv, ReviewerInv, EditorInv, NEW e \in Editors, NEW c \in Cards,
         CommitSubmit(e, c)
  PROVE  StoreInv' /\ RowsPersist /\ HeldCardsStayPending /\ EditorInv'
<1> DEFINE job == ejob[e]
           s == job.skill
           row == [skills[s] EXCEPT !.status = "review"]
           card == NewCard("new_decision", s, NoRule, job.rule, {}, NoRule)
<1>1. /\ ephase[e] = "read" /\ EndEdit(e) /\ UNCHANGED versions
      /\ UNCHANGED calls
      /\ IF Live(skills[s]) /\ skills[s].status = "draft"
         THEN /\ skills' = [skills EXCEPT ![s] = row]
              /\ IF PendingCardsOf(s) = {} THEN InsertCard(c, card)
                                           ELSE UNCHANGED cards
         ELSE UNCHANGED <<skills, cards>>
  BY DEF CommitSubmit, AtCommit, NeedsCard
<1>2. job \in EditJob /\ s \in Skills /\ skills[s] \in SkillRow
  BY <1>1 DEF EditorInv, EditorTypeOK, EditsNameSkills, StoreInv, StoreTypeOK
<1>3. calls' \in [Calls -> CallRow]
  BY <1>1 DEF EditorInv, EditorTypeOK
<1>4. EditorInv'
  BY <1>1, <1>3, EndEditKeeps
<1>5. CASE UNCHANGED <<skills, cards>>
  BY <1>1, <1>4, <1>5, StoreUntouched DEF storeVars
<1>6. CASE Live(skills[s]) /\ skills[s].status = "draft"
  <2>1. /\ row \in SkillRow /\ row.status = "review"
        /\ row.ver = skills[s].ver /\ row.deleted = skills[s].deleted
    BY <1>2 DEF SkillRow
  <2>2. card \in CardRow /\ card.status = "pending" /\ card.skill = s
    <3>1. job.rule \in Texts /\ NoRule \in Texts /\ "new_decision" \in Kinds
      BY <1>2 DEF EditJob, Texts, Kinds
    <3>2. QED
      BY <1>2, <3>1, NewCardTyped DEF NewCard
  <2> HIDE DEF row, card
  <2>3. Exists(s) /\ skills' = [skills EXCEPT ![s] = row]
    BY <1>1, <1>6 DEF Live, Exists
  <2>4. /\ skills' \in [Skills -> SkillRow] /\ versions' \in [Skills -> SUBSET VersionRow]
        /\ MovedVersionRecorded' /\ SkillsPersist
    BY <1>1, <1>2, <2>1, <2>3, UpdateSkillKeeps
  <2>5. skills'[s].status # "none"
    BY <1>2, <2>3, <2>4 DEF SkillsPersist, Exists
  <2>6. /\ cards' \in [Cards -> CardRow]
        /\ CardsHaveSkills' /\ OneDecisionCard'
        /\ CardsPersist /\ HeldCardsStayPending
    <3>1. CASE PendingCardsOf(s) = {} /\ InsertCard(c, card)
      BY <1>2, <2>2, <2>4, <2>5, <3>1, InsertCardKeeps DEF Exists
    <3>2. CASE UNCHANGED cards
      BY <2>4, <3>2, CardsUntouched
    <3>3. QED
      BY <1>1, <1>6, <3>1, <3>2
  <2>7. QED
    BY <1>4, <2>4, <2>6 DEF StoreInv, StoreTypeOK, RowsPersist
<1>7. QED
  BY <1>1, <1>5, <1>6

LEMMA CommitOverrideKeeps ==
  ASSUME StoreInv, ReviewerInv, EditorInv, NEW e \in Editors, NEW c \in Cards,
         CommitOverride(e, c)
  PROVE  StoreInv' /\ RowsPersist /\ HeldCardsStayPending /\ EditorInv'
<1> DEFINE job == ejob[e]
           s == job.skill
           conf == Lowered(skills[s].conf)
           row == [skills[s] EXCEPT !.conf = conf]
           card == NewCard("policy_change", s, skills[s].rule, NoRule, {}, NoRule)
<1>1. /\ ephase[e] = "read" /\ job.op = "override" /\ EndEdit(e)
      /\ UNCHANGED versions
      /\ calls' = [calls EXCEPT ![job.call].overridden = TRUE]
      /\ \/ /\ Live(skills[s])
            /\ skills' = [skills EXCEPT ![s] = row]
            /\ InsertCard(c, card) \/ UNCHANGED cards
         \/ UNCHANGED <<skills, cards>>
  BY DEF CommitOverride, AtCommit
<1>2. job \in EditJob /\ s \in Skills /\ skills[s] \in SkillRow /\ job.call \in Calls
  BY <1>1 DEF EditorInv, EditorTypeOK, EditsNameSkills, StoreInv, StoreTypeOK
<1>3. calls' \in [Calls -> CallRow]
  BY <1>1, <1>2 DEF EditorInv, EditorTypeOK, CallRow
<1>4. EditorInv'
  BY <1>1, <1>3, EndEditKeeps
<1>5. CASE UNCHANGED <<skills, cards>>
  BY <1>1, <1>4, <1>5, StoreUntouched DEF storeVars
<1>6. CASE /\ Live(skills[s])
           /\ skills' = [skills EXCEPT ![s] = row]
           /\ InsertCard(c, card) \/ UNCHANGED cards
  <2>1. /\ row \in SkillRow /\ row.status = skills[s].status
        /\ row.ver = skills[s].ver /\ row.deleted = skills[s].deleted
    <3>1. conf \in Confidences
      BY <1>2, ConfidencesTyped DEF SkillRow
    <3>2. QED
      BY <1>2, <3>1 DEF SkillRow
  <2>2. /\ card \in CardRow /\ card.status = "pending" /\ card.skill = s
        /\ card.kind = "policy_change"
    <3>1. skills[s].rule \in Texts /\ NoRule \in Texts /\ "policy_change" \in Kinds
      BY <1>2 DEF SkillRow, Texts, Kinds
    <3>2. QED
      BY <1>2, <3>1, NewCardTyped DEF NewCard
  <2> HIDE DEF row, card
  <2>3. Exists(s) /\ skills' = [skills EXCEPT ![s] = row]
    BY <1>6 DEF Live, Exists
  <2>4. /\ skills' \in [Skills -> SkillRow] /\ versions' \in [Skills -> SUBSET VersionRow]
        /\ MovedVersionRecorded' /\ SkillsPersist
    BY <1>1, <1>2, <2>1, <2>3, UpdateSkillKeeps DEF Exists
  <2>5. skills'[s].status # "none"
    BY <1>2, <2>3, <2>4 DEF SkillsPersist, Exists
  <2>6. /\ cards' \in [Cards -> CardRow]
        /\ CardsHaveSkills' /\ OneDecisionCard'
        /\ CardsPersist /\ HeldCardsStayPending
    <3>1. CASE InsertCard(c, card)
      BY <1>2, <2>2, <2>4, <2>5, <3>1, InsertCardKeeps DEF Exists
    <3>2. CASE UNCHANGED cards
      BY <2>4, <3>2, CardsUntouched
    <3>3. QED
      BY <1>6, <3>1, <3>2
  <2>7. QED
    BY <1>4, <2>4, <2>6 DEF StoreInv, StoreTypeOK, RowsPersist
<1>7. QED
  BY <1>1, <1>5, <1>6

LEMMA EditJobTyped ==
  /\ \A s \in Skills, fields \in SUBSET Fields, trigger \in Triggers,
       rule \in Texts, vec \in Vectors :
       [NoEditJob EXCEPT !.op = "edit", !.skill = s, !.fields = fields,
                         !.trig = trigger, !.rule = rule, !.vec = vec] \in EditJob
  /\ \A s \in Skills, rule \in Texts :
       [NoEditJob EXCEPT !.op = "submit", !.skill = s, !.rule = rule] \in EditJob
  /\ \A s \in Skills, i \in Calls :
       [NoEditJob EXCEPT !.op = "override", !.skill = s, !.call = i] \in EditJob
<1>1. NoEditJob \in EditJob
  BY EmptyRowsTyped
<1>2. \A s \in Skills, fields \in SUBSET Fields, trigger \in Triggers,
       rule \in Texts, vec \in Vectors :
       [NoEditJob EXCEPT !.op = "edit", !.skill = s, !.fields = fields,
                         !.trig = trigger, !.rule = rule, !.vec = vec] \in EditJob
  BY <1>1 DEF EditJob
<1>3. \A s \in Skills, rule \in Texts :
       [NoEditJob EXCEPT !.op = "submit", !.skill = s, !.rule = rule] \in EditJob
  BY <1>1 DEF EditJob
<1>4. \A s \in Skills, i \in Calls :
       [NoEditJob EXCEPT !.op = "override", !.skill = s, !.call = i] \in EditJob
  BY <1>1 DEF EditJob
<1>5. QED
  BY <1>2, <1>3, <1>4

\* A read takes down a skill that is there, and an override a logged call.
LEMMA EditReadKeeps ==
  ASSUME StoreInv, ReviewerInv, EditorInv, NEW e \in Editors,
         \/ \E s \in Skills, fields \in SUBSET Fields, trigger \in Triggers,
              rule \in Rules : BeginEdit(e, s, fields, trigger, rule)
         \/ \E s \in Skills : BeginSubmit(e, s)
         \/ \E i \in Calls : BeginOverride(e, i)
  PROVE  StoreInv' /\ RowsPersist /\ HeldCardsStayPending /\ EditorInv'
<1>1. UNCHANGED storeVars /\ UNCHANGED calls
  BY DEF BeginEdit, BeginSubmit, BeginOverride
<1>2. EditorInv'
  <2>1. ASSUME NEW s \in Skills, NEW fields \in SUBSET Fields,
               NEW trigger \in Triggers, NEW rule \in Rules,
               BeginEdit(e, s, fields, trigger, rule)
        PROVE  EditorInv'
    <3> DEFINE newTrigger == IF "trigger" \in fields THEN trigger ELSE skills[s].trig
               newRule == IF "rule" \in fields THEN rule ELSE skills[s].rule
    <3>1. newTrigger \in Triggers /\ newRule \in Texts
      BY DEF StoreInv, StoreTypeOK, SkillRow, Texts
    <3>2. SkillVector(newTrigger, newRule) \in Vectors
      BY <3>1, NothingHeld
    <3>3. StartEdit(e, [NoEditJob EXCEPT !.op = "edit", !.skill = s,
             !.fields = fields, !.trig = newTrigger, !.rule = newRule,
             !.vec = SkillVector(newTrigger, newRule)])
      BY <2>1 DEF BeginEdit
    <3> HIDE DEF newTrigger, newRule
    <3>4. PICK job \in EditJob :
            /\ job = [NoEditJob EXCEPT !.op = "edit", !.skill = s,
                 !.fields = fields, !.trig = newTrigger, !.rule = newRule,
                 !.vec = SkillVector(newTrigger, newRule)]
            /\ job.skill = s /\ job.op = "edit"
      <4> DEFINE vec == SkillVector(newTrigger, newRule)
      <4> HIDE DEF vec
      <4>1. [NoEditJob EXCEPT !.op = "edit", !.skill = s, !.fields = fields,
                !.trig = newTrigger, !.rule = newRule, !.vec = vec] \in EditJob
        BY <3>1, <3>2, EditJobTyped DEF vec
      <4>2. QED
        BY <4>1 DEF NoEditJob, vec
    <3>5. StartEdit(e, job)
      BY <3>3, <3>4 DEF StartEdit
    <3>6. QED
      BY <1>1, <3>4, <3>5, StartEditKeeps
  <2>2. ASSUME NEW s \in Skills, BeginSubmit(e, s)
        PROVE  EditorInv'
    <3>1. StartEdit(e, [NoEditJob EXCEPT !.op = "submit", !.skill = s,
                                         !.rule = skills[s].rule])
      BY <2>2 DEF BeginSubmit
    <3>2. skills[s].rule \in Texts
      BY DEF StoreInv, StoreTypeOK, SkillRow
    <3>3. PICK job \in EditJob :
            /\ job = [NoEditJob EXCEPT !.op = "submit", !.skill = s,
                                       !.rule = skills[s].rule]
            /\ job.skill = s /\ job.op = "submit"
      BY <3>2, EditJobTyped DEF NoEditJob
    <3>4. StartEdit(e, job)
      BY <3>1, <3>3 DEF StartEdit
    <3>5. QED
      BY <1>1, <3>3, <3>4, StartEditKeeps
  <2>3. ASSUME NEW i \in Calls, BeginOverride(e, i)
        PROVE  EditorInv'
    <3>1. /\ StartEdit(e, [NoEditJob EXCEPT !.op = "override",
                             !.skill = calls[i].skill, !.call = i])
          /\ calls[i].skill # NoSkill
      BY <2>3 DEF BeginOverride
    <3>2. calls[i].skill \in Skills
      BY <3>1 DEF EditorInv, EditorTypeOK, CallRow
    <3>3. PICK job \in EditJob :
            /\ job = [NoEditJob EXCEPT !.op = "override",
                             !.skill = calls[i].skill, !.call = i]
            /\ job.skill = calls[i].skill /\ job.call = i
      BY <3>2, EditJobTyped DEF NoEditJob
    <3>4. StartEdit(e, job)
      BY <3>1, <3>3 DEF StartEdit
    <3>5. QED
      BY <1>1, <3>2, <3>3, <3>4, StartEditKeeps
  <2>4. QED
    BY <2>1, <2>2, <2>3
<1>3. QED
  BY <1>1, <1>2, StoreUntouched

LEMMA EditorStepKeeps ==
  ASSUME StoreInv, ReviewerInv, EditorInv, NEW e \in Editors, EditorStep(e)
  PROVE  StoreInv' /\ RowsPersist /\ HeldCardsStayPending /\ EditorInv'
<1>1. CASE \E s \in Skills, c \in Cards, trigger \in Triggers, rule \in Rules :
             CreateSkill(e, s, c, trigger, rule)
  BY <1>1, CreateSkillKeeps
<1>2. CASE \E s \in Skills : DeleteSkill(e, s)
  BY <1>2, DeleteSkillKeeps
<1>3. CASE \/ \E s \in Skills, fields \in SUBSET Fields, trigger \in Triggers,
                rule \in Rules : BeginEdit(e, s, fields, trigger, rule)
           \/ \E s \in Skills : BeginSubmit(e, s)
           \/ \E i \in Calls : BeginOverride(e, i)
  BY <1>3, EditReadKeeps
<1>4. CASE CommitEdit(e)
  BY <1>4, CommitEditKeeps
<1>5. CASE \E c \in Cards : CommitSubmit(e, c)
  BY <1>5, CommitSubmitKeeps
<1>6. CASE \E c \in Cards : CommitOverride(e, c)
  BY <1>6, CommitOverrideKeeps
<1>7. CASE AbandonEdit(e)
  <2>1. EndEdit(e) /\ UNCHANGED storeVars /\ UNCHANGED calls
    BY <1>7 DEF AbandonEdit
  <2>2. calls' \in [Calls -> CallRow]
    BY <2>1 DEF EditorInv, EditorTypeOK
  <2>3. QED
    BY <2>1, <2>2, StoreUntouched, EndEditKeeps
<1>8. QED
  BY <1>1, <1>2, <1>3, <1>4, <1>5, <1>6, <1>7 DEF EditorStep

LEMMA AgentStepKeeps ==
  ASSUME StoreInv, ReviewerInv, EditorInv, AgentStep
  PROVE  StoreInv' /\ RowsPersist /\ HeldCardsStayPending /\ EditorInv'
<1>1. PICK i \in Calls, s \in Skills : Query(i, s)
  BY DEF AgentStep
<1>2. /\ UNCHANGED storeVars /\ UNCHANGED ephase /\ UNCHANGED ejob
      /\ calls' = [calls EXCEPT ![i].skill = s]
  BY <1>1 DEF Query
<1>3. EditorInv'
  BY <1>2 DEF EditorInv, EditorTypeOK, EditsNameSkills, CallRow
<1>4. QED
  BY <1>2, <1>3, StoreUntouched

-------------------------------------------------------------------------------
(***************************************************************************)
(* The invariant of the queue.                                             *)
(***************************************************************************)
LEMMA InitHolds == Init => QueueInvariant
<1> SUFFICES ASSUME Init PROVE QueueInvariant
  OBVIOUS
<1> USE DEF Init, StoreInit, ReviewInit, WriterInit, EditorInit
<1>1. /\ NoSkillRow \in SkillRow /\ NoCardRow \in CardRow /\ NoJob \in Job
      /\ NoEditJob \in EditJob /\ NoMatch \in Match
  BY EmptyRowsTyped
<1>2. StoreInv
  <2>1. StoreTypeOK
    BY <1>1 DEF StoreTypeOK
  <2>2. CardsHaveSkills /\ OneDecisionCard
    BY DEF CardsHaveSkills, OneDecisionCard, PendingCardsOf, IsPending, NoCardRow
  <2>3. MovedVersionRecorded
    BY DEF MovedVersionRecorded, NoSkillRow
  <2>4. QED
    BY <2>1, <2>2, <2>3 DEF StoreInv
<1>3. ReviewerInv
  BY <1>1 DEF ReviewerInv, ReviewTypeOK, LocksAreExclusive, RequestOK, HoldsCard, NoJob
<1>4. WriterInv
  BY <1>1 DEF WriterInv, WriterTypeOK, MatchesNameSkills, NoMatch
<1>5. EditorInv
  <2>1. [skill |-> NoSkill, overridden |-> FALSE] \in CallRow
    BY DEF CallRow
  <2>2. QED
    BY <1>1, <2>1 DEF EditorInv, EditorTypeOK, EditsNameSkills
<1>6. QED
  BY <1>2, <1>3, <1>4, <1>5 DEF QueueInvariant

LEMMA NextKeeps == QueueInvariant /\ [Next]_vars => QueueInvariant'
<1> SUFFICES ASSUME QueueInvariant, [Next]_vars PROVE QueueInvariant'
  OBVIOUS
<1>1. StoreInv /\ ReviewerInv /\ WriterInv /\ EditorInv /\ CardsHaveSkills
  BY DEF QueueInvariant, StoreInv
<1>2. ASSUME NEW p \in Reviewers, ReviewStep(p), UNCHANGED <<writerVars, editorVars>>
      PROVE  QueueInvariant'
  <2>1. StoreInv' /\ RowsPersist /\ ReviewerInv'
    BY <1>1, <1>2, ReviewStepKeeps
  <2>2. QED
    BY <1>1, <1>2, <2>1, WritersKeep, EditorsKeep DEF QueueInvariant
<1>3. ASSUME NEW w \in Workers, WriterStep(w), UNCHANGED <<reviewVars, editorVars>>
      PROVE  QueueInvariant'
  <2>1. StoreInv' /\ RowsPersist /\ HeldCardsStayPending /\ WriterInv'
    BY <1>1, <1>3, WriterStepKeeps
  <2>2. QED
    BY <1>1, <1>3, <2>1, ReviewersKeep, EditorsKeep DEF QueueInvariant
<1>4. ASSUME \/ \E e \in Editors : EditorStep(e)
             \/ AgentStep,
             UNCHANGED <<reviewVars, writerVars>>
      PROVE  QueueInvariant'
  <2>1. StoreInv' /\ RowsPersist /\ HeldCardsStayPending /\ EditorInv'
    BY <1>1, <1>4, EditorStepKeeps, AgentStepKeeps
  <2>2. QED
    BY <1>1, <1>4, <2>1, ReviewersKeep, WritersKeep DEF QueueInvariant
<1>5. CASE UNCHANGED vars
  <2>1. UNCHANGED <<storeVars, reviewVars, writerVars, editorVars>>
    BY <1>5 DEF vars
  <2>2. StoreInv' /\ RowsPersist /\ HeldCardsStayPending
    BY <1>1, <2>1, StoreUntouched
  <2>3. QED
    BY <1>1, <2>1, <2>2, ReviewersKeep, WritersKeep, EditorsKeep DEF QueueInvariant
<1>6. QED
  BY <1>2, <1>3, <1>4, <1>5 DEF Next

\* The inductive invariant: what the tables hold and what every request in flight
\* knows of them, at every moment of any interleaving.
THEOREM QueueIsConsistent == Spec => []QueueInvariant
<1>1. Init => QueueInvariant
  BY InitHolds
<1>2. QueueInvariant /\ [Next]_vars => QueueInvariant'
  BY NextKeeps
<1>3. QED
  BY <1>1, <1>2, PTL DEF Spec

\* Rows and requests are always of the shape the schema and the functions declare.
THEOREM TypesHold == Spec => []TypeOK
<1>1. QueueInvariant => TypeOK
  BY DEF QueueInvariant, StoreInv, ReviewerInv, WriterInv, EditorInv, TypeOK
<1>2. QED
  BY <1>1, QueueIsConsistent, PTL

\* The version label a published skill is served under has a row in its history,
\* whichever approvals, writes and rejects overlapped.
THEOREM PublishedVersionsAreRecorded == Spec => []PublishedVersionRecorded
<1>1. QueueInvariant => PublishedVersionRecorded
  BY DEF QueueInvariant, StoreInv, MovedVersionRecorded, PublishedVersionRecorded,
         Published
<1>2. QED
  BY <1>1, QueueIsConsistent, PTL

\* A skill never has two decision cards open.
THEOREM DecisionCardsAreUnique == Spec => []OneDecisionCard
<1>1. QueueInvariant => OneDecisionCard
  BY DEF QueueInvariant, StoreInv
<1>2. QED
  BY <1>1, QueueIsConsistent, PTL

\* Phase 2 of an approval that rewrites a live rule finds the vector of phase 1.
THEOREM RewritesHaveVectors == Spec => []RewriteHasVector
<1>1. QueueInvariant => RewriteHasVector
  <2> SUFFICES ASSUME QueueInvariant, NEW p \in Reviewers, rphase[p] = "locked",
                      rjob[p].op = "approve", Live(rjob[p].snap),
                      RewritesRule(cards[rjob[p].card])
               PROVE  rjob[p].vec # NoVector
    BY DEF RewriteHasVector
  <2>1. RequestOK("locked", rjob[p])
    BY DEF QueueInvariant, ReviewerInv
  <2>2. QED
    BY <2>1 DEF RequestOK, VectorIsReady, Live
<1>2. QED
  BY <1>1, QueueIsConsistent, PTL

-------------------------------------------------------------------------------
(***************************************************************************)
(* The queue keeps the auditor's ledger.                                   *)
(***************************************************************************)
SamePublished == \A s \in Skills : Published(skills'[s]) <=> Published(skills[s])

LEMMA LedgerStutters ==
  ASSUME UNCHANGED cards, UNCHANGED versions, SamePublished
  PROVE  UNCHANGED Ledger!ledgerVars
BY DEF Ledger!ledgerVars, SamePublished

LEMMA LedgerOpens ==
  ASSUME StoreInv, NEW c \in Cards, NEW row, InsertCard(c, row), NEW s \in Skills,
         row.status = "pending", row.skill = s, UNCHANGED versions, SamePublished
  PROVE  \E d \in Cards, x \in Skills : Ledger!Open(d, x)
<1>1. Ledger!Open(c, s)
  BY DEF Ledger!Open, InsertCard, StoreInv, StoreTypeOK, SamePublished
<1>2. QED
  BY <1>1

LEMMA LedgerApproves ==
  ASSUME StoreInv, NEW c \in Cards, NEW s \in Skills, s = cards[c].skill,
         ResolveCard(c, "approved"), versions[s] \subseteq versions'[s],
         \A entry \in versions'[s] \ versions[s] : entry.by = c,
         \A x \in Skills \ {s} : versions'[x] = versions[x] /\ skills'[x] = skills[x],
         Published(skills[s]) => Published(skills'[s])
  PROVE  Ledger!Approve(c)
<1> DEFINE Entries(rows) == {[ver |-> row.ver, change |-> row.change, by |-> row.by] :
                              row \in rows}
           history == [x \in Skills |-> Entries(versions[x])]
           published == {x \in Skills : Published(skills[x])}
<1>1. /\ cards \in [Cards -> CardRow] /\ cards[c].status = "pending"
      /\ cards' = [cards EXCEPT ![c].status = "approved"]
  BY DEF ResolveCard, StoreInv, StoreTypeOK, IsPending
<1>2. /\ [d \in Cards |-> cards[d].status]' =
           [[d \in Cards |-> cards[d].status] EXCEPT ![c] = "approved"]
      /\ [d \in Cards |-> cards[d].skill]' = [d \in Cards |-> cards[d].skill]
  BY <1>1 DEF CardRow
<1>3. history' = [history EXCEPT ![s] = history'[s]]
  OBVIOUS
<1>4. history[s] \subseteq history'[s]
  OBVIOUS
<1>5. \A row \in history'[s] \ history[s] : row.by = c
  <2> SUFFICES ASSUME NEW row \in history'[s], row \notin history[s]
               PROVE  row.by = c
    OBVIOUS
  <2>1. PICK entry \in versions'[s] :
          row = [ver |-> entry.ver, change |-> entry.change, by |-> entry.by]
    OBVIOUS
  <2>2. entry \notin versions[s]
    BY <2>1
  <2>3. entry.by = c /\ row.by = entry.by
    BY <2>1, <2>2
  <2>4. QED
    BY <2>3
<1>6. published' \in {published, published \cup {s}}
  OBVIOUS
<1>7. QED
  BY <1>1, <1>2, <1>3, <1>4, <1>5, <1>6 DEF Ledger!Approve

LEMMA LedgerRejects ==
  ASSUME StoreInv, NEW c \in Cards, NEW s \in Skills, s = cards[c].skill,
         ResolveCard(c, "rejected"), UNCHANGED versions,
         \A x \in Skills \ {s} : skills'[x] = skills[x],
         Published(skills'[s]) => Published(skills[s])
  PROVE  Ledger!Reject(c)
<1> DEFINE published == {x \in Skills : Published(skills[x])}
<1>1. /\ cards \in [Cards -> CardRow] /\ cards[c].status = "pending"
      /\ cards' = [cards EXCEPT ![c].status = "rejected"]
  BY DEF ResolveCard, StoreInv, StoreTypeOK, IsPending
<1>2. /\ [d \in Cards |-> cards[d].status]' =
           [[d \in Cards |-> cards[d].status] EXCEPT ![c] = "rejected"]
      /\ [d \in Cards |-> cards[d].skill]' = [d \in Cards |-> cards[d].skill]
  BY <1>1 DEF CardRow
<1>3. published' \in {published, published \ {s}}
  OBVIOUS
<1>4. QED
  BY <1>1, <1>2, <1>3 DEF Ledger!Reject

\* An approval's history rows name its card, and it takes nothing from agents.
LEMMA ApprovalRowsNameCard ==
  ASSUME NEW c \in Cards, cards[c] \in CardRow, NEW job
  PROVE  \A entry \in ApprovalVersions(c, job) : entry.by = c
<1>1. \A v, rule, exc, change : Version(v, rule, exc, change, c).by = c
  BY DEF Version
<1>2. \A entry \in Baseline(c, job) : entry.by = c
  BY <1>1 DEF Baseline
<1>3. CASE cards[c].kind = "new_decision"
  BY <1>1, <1>3 DEF ApprovalVersions, RewritesRule
<1>4. CASE RewritesRule(cards[c])
  BY <1>1, <1>2, <1>4 DEF ApprovalVersions, RewritesRule
<1>5. CASE cards[c].kind = "exception"
  BY <1>1, <1>2, <1>5 DEF ApprovalVersions, RewritesRule
<1>6. QED
  BY <1>3, <1>4, <1>5 DEF CardRow, Kinds, RewritesRule

LEMMA CommitApproveMaps ==
  ASSUME StoreInv, ReviewerInv, NEW p \in Reviewers, CommitApprove(p)
  PROVE  \E c \in Cards : Ledger!Approve(c)
<1>0. PICK c, s : c = rjob[p].card /\ s = cards[c].skill
  OBVIOUS
<1> DEFINE job == rjob[p]
           row == ApprovedSkill(c, job, skills[s])
<1>1. /\ rphase[p] = "locked" /\ ResolveCard(c, "approved")
      /\ IF Live(job.snap)
         THEN /\ skills' = [skills EXCEPT ![s] = row]
              /\ versions' = [versions EXCEPT ![s] = @ \cup ApprovalVersions(c, job)]
         ELSE UNCHANGED <<skills, versions>>
  BY <1>0 DEF CommitApprove
<1>2. /\ job \in Job /\ c \in Cards /\ cards[c] \in CardRow /\ s \in Skills
      /\ skills[s] \in SkillRow /\ skills[s].ver # 0
      /\ job.snap.ver # 0 /\ (skills[s].ver = 1 => job.snap.ver = 1)
  BY <1>0, <1>1, LockedFacts
<1>3. /\ skills \in [Skills -> SkillRow] /\ versions \in [Skills -> SUBSET VersionRow]
  BY DEF StoreInv, StoreTypeOK
<1>4. CASE ~Live(job.snap)
  <2>1. versions' = versions /\ skills' = skills
    BY <1>1, <1>4
  <2>2. QED
    BY <1>0, <1>1, <1>2, <2>1, LedgerApproves
<1>5. CASE Live(job.snap)
  <2> DEFINE entries == ApprovalVersions(c, job)
  <2>1. \A entry \in entries : entry.by = c
    BY <1>2, ApprovalRowsNameCard
  <2>2. row.status = "active" /\ row.deleted = skills[s].deleted
    BY <1>2, ApprovalRecorded
  <2> HIDE DEF row, entries
  <2>3. Published(skills[s]) => Published(row)
    BY <2>2 DEF Published, Live
  <2>4. /\ skills' = [skills EXCEPT ![s] = row]
        /\ versions' = [versions EXCEPT ![s] = @ \cup entries]
    BY <1>1, <1>5 DEF row, entries
  <2>5. versions'[s] = versions[s] \cup entries
    BY <1>2, <1>3, <2>4
  <2>6. /\ \A x \in Skills \ {s} : versions'[x] = versions[x] /\ skills'[x] = skills[x]
        /\ Published(skills[s]) => Published(skills'[s])
    BY <1>2, <1>3, <2>3, <2>4
  <2>7. /\ versions[s] \subseteq versions'[s]
        /\ \A entry \in versions'[s] \ versions[s] : entry.by = c
    BY <2>1, <2>5
  <2>8. QED
    BY <1>0, <1>1, <1>2, <2>6, <2>7, LedgerApproves
<1>6. QED
  BY <1>4, <1>5

LEMMA CommitWriteMaps ==
  ASSUME StoreInv, ReviewerInv, NEW p \in Reviewers, CommitWrite(p)
  PROVE  \E c \in Cards : Ledger!Approve(c)
<1>0. PICK c, s : c = rjob[p].card /\ s = cards[c].skill
  OBVIOUS
<1> DEFINE job == rjob[p]
           v == NextVersion(job.snap.ver)
           exc == IF "exceptions" \in job.keep THEN job.snap.exc ELSE job.exc
           acts == IF "actions" \in job.keep THEN skills[s].acts ELSE job.acts
           row == UpdateSkillLogic(skills[s], job.rule, exc, acts, v, job.vec)
           entry == Version(v, job.rule, exc, "human_edit", c)
<1>1. /\ rphase[p] = "locked" /\ ResolveCard(c, "approved")
      /\ versions' = [versions EXCEPT ![s] = @ \cup {entry}]
      /\ skills' = [skills EXCEPT ![s] = row]
  BY <1>0 DEF CommitWrite
<1>2. c \in Cards /\ s \in Skills /\ skills[s] \in SkillRow
  BY <1>0, <1>1, LockedFacts
<1>3. row.status = "active" /\ row.deleted = skills[s].deleted
  BY <1>2 DEF UpdateSkillLogic, SkillRow
<1>4. entry.by = c
  BY DEF Version
<1> HIDE DEF row, entry
<1>5. Published(skills[s]) => Published(row)
  BY <1>3 DEF Published, Live
<1>6. /\ skills \in [Skills -> SkillRow] /\ versions \in [Skills -> SUBSET VersionRow]
  BY DEF StoreInv, StoreTypeOK
<1>7. versions'[s] = versions[s] \cup {entry}
  BY <1>1, <1>2, <1>6
<1>8. /\ \A x \in Skills \ {s} : versions'[x] = versions[x] /\ skills'[x] = skills[x]
      /\ Published(skills[s]) => Published(skills'[s])
  BY <1>1, <1>2, <1>5, <1>6
<1>9. /\ versions[s] \subseteq versions'[s]
      /\ \A e \in versions'[s] \ versions[s] : e.by = c
  BY <1>4, <1>7
<1>10. QED
  BY <1>0, <1>1, <1>2, <1>8, <1>9, LedgerApproves

LEMMA CommitRejectMaps ==
  ASSUME StoreInv, ReviewerInv, NEW p \in Reviewers, CommitReject(p)
  PROVE  \E c \in Cards : Ledger!Reject(c)
<1>0. PICK c, s : c = rjob[p].card /\ s = cards[c].skill
  OBVIOUS
<1>1. /\ rphase[p] = "locked" /\ ResolveCard(c, "rejected") /\ UNCHANGED versions
      /\ \/ UNCHANGED skills
         \/ skills' = [skills EXCEPT ![s].status = "draft"]
  BY <1>0 DEF CommitReject
<1>2. c \in Cards /\ s \in Skills
  BY <1>0, <1>1, LockedFacts
<1>3. skills \in [Skills -> SkillRow]
  BY DEF StoreInv, StoreTypeOK
<1>4. /\ \A x \in Skills \ {s} : skills'[x] = skills[x]
      /\ Published(skills'[s]) => Published(skills[s])
  BY <1>1, <1>2, <1>3 DEF Published, SkillRow
<1>5. QED
  BY <1>0, <1>1, <1>2, <1>4, LedgerRejects

LedgerStep == Ledger!Next \/ UNCHANGED Ledger!ledgerVars

LEMMA ReviewStepMaps ==
  ASSUME StoreInv, ReviewerInv, NEW p \in Reviewers, ReviewStep(p)
  PROVE  LedgerStep
<1>1. CASE UNCHANGED storeVars
  BY <1>1, LedgerStutters DEF storeVars, SamePublished, LedgerStep
<1>2. CASE CommitApprove(p)
  BY <1>2, CommitApproveMaps DEF LedgerStep, Ledger!Next
<1>3. CASE CommitReject(p)
  BY <1>3, CommitRejectMaps DEF LedgerStep, Ledger!Next
<1>4. CASE CommitWrite(p)
  BY <1>4, CommitWriteMaps DEF LedgerStep, Ledger!Next
<1>5. UNCHANGED storeVars \/ CommitApprove(p) \/ CommitReject(p) \/ CommitWrite(p)
  BY DEF ReviewStep, BeginApprove, LockApprove, SkipApprove, BeginReject, BeginWrite,
         ResolveSourceA, ResolveSourceB, LockWrite, Abandon
<1>6. QED
  BY <1>1, <1>2, <1>3, <1>4, <1>5

\* A step that opens at most one card and publishes nothing is one of the ledger's.
LEMMA ProposalMaps ==
  ASSUME StoreInv, UNCHANGED versions, SamePublished,
         \/ UNCHANGED cards
         \/ \E c \in Cards, row \in CardRow :
              InsertCard(c, row) /\ row.status = "pending" /\ row.skill \in Skills
  PROVE  LedgerStep
BY LedgerStutters, LedgerOpens DEF LedgerStep, Ledger!Next

LEMMA OneSkillSamePublished ==
  ASSUME StoreInv, NEW s \in Skills, NEW row, skills' = [skills EXCEPT ![s] = row],
         Published(row) <=> Published(skills[s])
  PROVE  SamePublished
BY DEF SamePublished, StoreInv, StoreTypeOK

LEMMA WriterStepMaps ==
  ASSUME StoreInv, WriterInv, NEW w \in Workers, WriterStep(w)
  PROVE  LedgerStep
<1>1. CASE UNCHANGED storeVars
  BY <1>1, LedgerStutters DEF storeVars, SamePublished, LedgerStep
<1>2. ASSUME NEW s \in Skills, NEW c \in Cards, NEW rule \in Rules,
             NEW exc \in SUBSET Clauses, NEW trigger \in Triggers,
             NEW conf \in {DraftConfidence, ReviewConfidence},
             WriteNewSkill(w, s, c, rule, exc, trigger, conf)
      PROVE  LedgerStep
  <2> DEFINE row == NewSkill(Route(conf), trigger, rule, exc, rule, conf)
             card == NewCard("new_decision", s, NoRule, rule, exc, rule)
  <2>1. /\ ~Exists(s) /\ skills' = [skills EXCEPT ![s] = row] /\ UNCHANGED versions
        /\ InsertCard(c, card) \/ UNCHANGED cards
    BY <1>2 DEF WriteNewSkill
  <2>2. ~Published(row) /\ ~Published(skills[s])
    BY <2>1 DEF Published, Live, Exists, NewSkill, Route
  <2>3. card \in CardRow /\ card.status = "pending" /\ card.skill = s
    <3>1. rule \in Texts /\ exc \in SUBSET Exceptions /\ NoRule \in Texts
          /\ "new_decision" \in Kinds
      BY DEF Texts, Exceptions, Kinds
    <3>2. QED
      BY <3>1, NewCardTyped DEF NewCard
  <2> HIDE DEF row, card
  <2>4. SamePublished
    BY <2>1, <2>2, OneSkillSamePublished
  <2>5. QED
    BY <2>1, <2>3, <2>4, ProposalMaps
<1>3. ASSUME NEW c \in Cards, NEW kind \in Kinds, NEW rule \in Rules,
             NEW exc \in SUBSET Clauses, WriteMatched(w, c, kind, rule, exc)
      PROVE  LedgerStep
  <2> DEFINE s == match[w].skill
             card == NewCard(kind, s, match[w].rule, rule, exc, rule)
  <2>1. s # NoSkill /\ InsertCard(c, card) /\ UNCHANGED <<skills, versions>>
    BY <1>3 DEF WriteMatched
  <2>2. s \in Skills /\ match[w].rule \in Texts
    BY <2>1 DEF WriterInv, WriterTypeOK, Match
  <2>3. card \in CardRow /\ card.status = "pending" /\ card.skill = s
    <3>1. rule \in Texts /\ exc \in SUBSET Exceptions
      BY DEF Texts, Exceptions
    <3>2. QED
      BY <2>2, <3>1, NewCardTyped DEF NewCard
  <2> HIDE DEF card
  <2>4. SamePublished
    BY <2>1 DEF SamePublished
  <2>5. QED
    BY <2>1, <2>2, <2>3, <2>4, ProposalMaps
<1>4. QED
  <2>1. ASSUME NEW s \in Skills, NEW scope, Search(w, scope, s) PROVE UNCHANGED storeVars
    BY <2>1 DEF Search
  <2>2. SearchNothing(w) \/ WriteNothing(w) => UNCHANGED storeVars
    BY DEF SearchNothing, WriteNothing, storeVars
  <2>3. QED
    BY <1>1, <1>2, <1>3, <2>1, <2>2 DEF WriterStep

LEMMA EditorStepMaps ==
  ASSUME StoreInv, EditorInv, NEW e \in Editors, EditorStep(e)
  PROVE  LedgerStep
<1>1. CASE UNCHANGED storeVars
  BY <1>1, LedgerStutters DEF storeVars, SamePublished, LedgerStep
<1>2. ASSUME NEW s \in Skills, NEW c \in Cards, NEW trigger \in Triggers,
             NEW rule \in Rules, CreateSkill(e, s, c, trigger, rule)
      PROVE  LedgerStep
  <2> DEFINE row == NewSkill("draft", trigger, rule, {}, NoRule, HumanConfidence)
             card == NewCard("new_decision", s, NoRule, rule, {}, NoRule)
  <2>1. /\ ~Exists(s) /\ skills' = [skills EXCEPT ![s] = row] /\ UNCHANGED versions
        /\ InsertCard(c, card)
    BY <1>2 DEF CreateSkill
  <2>2. ~Published(row) /\ ~Published(skills[s])
    BY <2>1 DEF Published, Live, Exists, NewSkill
  <2>3. card \in CardRow /\ card.status = "pending" /\ card.skill = s
    BY NewCardTyped DEF NewCard, Kinds, Texts
  <2> HIDE DEF row, card
  <2>4. SamePublished
    BY <2>1, <2>2, OneSkillSamePublished
  <2>5. QED
    BY <2>1, <2>3, <2>4, ProposalMaps
<1>3. ASSUME NEW s \in Skills, DeleteSkill(e, s)
      PROVE  LedgerStep
  <2> DEFINE published == {x \in Skills : Published(skills[x])}
  <2>1. /\ skills' = [skills EXCEPT ![s].deleted = TRUE]
        /\ UNCHANGED versions /\ UNCHANGED cards
        /\ skills \in [Skills -> SkillRow]
    BY <1>3 DEF DeleteSkill, StoreInv, StoreTypeOK
  <2>2. /\ ~Published(skills'[s])
        /\ \A x \in Skills \ {s} : skills'[x] = skills[x]
    BY <2>1 DEF Published, Live, SkillRow
  <2>3. CASE ~Published(skills[s])
    BY <2>1, <2>2, <2>3, LedgerStutters DEF SamePublished, LedgerStep
  <2>4. CASE Published(skills[s])
    <3>1. s \in published /\ published' = published \ {s}
      BY <2>2, <2>4
    <3>2. Ledger!Withdraw(s)
      BY <2>1, <3>1 DEF Ledger!Withdraw
    <3>3. QED
      BY <3>2 DEF LedgerStep, Ledger!Next
  <2>5. QED
    BY <2>3, <2>4
<1>4. CASE CommitEdit(e)
  <2>1. PICK job \in EditJob : job = ejob[e] /\ job.skill \in Skills
    BY <1>4 DEF CommitEdit, AtCommit, EditorInv, EditorTypeOK, EditsNameSkills
  <2> DEFINE s == job.skill
             row == EditedSkill(skills[s], job)
  <2>2. /\ UNCHANGED versions /\ UNCHANGED cards
        /\ skills' = [skills EXCEPT ![s] = row] \/ UNCHANGED skills
    BY <1>4, <2>1 DEF CommitEdit
  <2>3. Published(row) <=> Published(skills[s])
    BY <2>1 DEF Published, Live, EditedSkill, StoreInv, StoreTypeOK, SkillRow
  <2> HIDE DEF row
  <2>4. SamePublished
    BY <2>1, <2>2, <2>3, OneSkillSamePublished DEF SamePublished
  <2>5. QED
    BY <2>2, <2>4, ProposalMaps
<1>5. ASSUME NEW c \in Cards, CommitSubmit(e, c)
      PROVE  LedgerStep
  <2>1. PICK job \in EditJob : job = ejob[e] /\ job.skill \in Skills
    BY <1>5 DEF CommitSubmit, AtCommit, EditorInv, EditorTypeOK, EditsNameSkills
  <2> DEFINE s == job.skill
             row == [skills[s] EXCEPT !.status = "review"]
             card == NewCard("new_decision", s, NoRule, job.rule, {}, NoRule)
  <2>2. /\ UNCHANGED versions
        /\ \/ UNCHANGED <<skills, cards>>
           \/ /\ skills[s].status = "draft" /\ skills' = [skills EXCEPT ![s] = row]
              /\ InsertCard(c, card) \/ UNCHANGED cards
    BY <1>5, <2>1 DEF CommitSubmit, NeedsCard
  <2>3. card \in CardRow /\ card.status = "pending" /\ card.skill = s
    <3>1. job.rule \in Texts /\ NoRule \in Texts /\ "new_decision" \in Kinds
      BY <2>1 DEF EditJob, Texts, Kinds
    <3>2. QED
      BY <2>1, <3>1, NewCardTyped DEF NewCard
  <2>4. skills[s].status = "draft" => (Published(row) <=> Published(skills[s]))
    BY <2>1 DEF Published, Live, StoreInv, StoreTypeOK, SkillRow
  <2> HIDE DEF row, card
  <2>5. SamePublished
    BY <2>1, <2>2, <2>4, OneSkillSamePublished DEF SamePublished
  <2>6. QED
    BY <2>1, <2>2, <2>3, <2>5, ProposalMaps
<1>6. ASSUME NEW c \in Cards, CommitOverride(e, c)
      PROVE  LedgerStep
  <2>1. PICK job \in EditJob : job = ejob[e] /\ job.skill \in Skills
    BY <1>6 DEF CommitOverride, AtCommit, EditorInv, EditorTypeOK, EditsNameSkills
  <2> DEFINE s == job.skill
             row == [skills[s] EXCEPT !.conf = Lowered(skills[s].conf)]
             card == NewCard("policy_change", s, skills[s].rule, NoRule, {}, NoRule)
  <2>2. /\ UNCHANGED versions
        /\ \/ UNCHANGED <<skills, cards>>
           \/ /\ skills' = [skills EXCEPT ![s] = row]
              /\ InsertCard(c, card) \/ UNCHANGED cards
    BY <1>6, <2>1 DEF CommitOverride
  <2>3. card \in CardRow /\ card.status = "pending" /\ card.skill = s
    <3>1. skills[s].rule \in Texts /\ NoRule \in Texts /\ "policy_change" \in Kinds
      BY <2>1 DEF StoreInv, StoreTypeOK, SkillRow, Texts, Kinds
    <3>2. QED
      BY <2>1, <3>1, NewCardTyped DEF NewCard
  <2>4. Published(row) <=> Published(skills[s])
    BY <2>1 DEF Published, Live, StoreInv, StoreTypeOK, SkillRow
  <2> HIDE DEF row, card
  <2>5. SamePublished
    BY <2>1, <2>2, <2>4, OneSkillSamePublished DEF SamePublished
  <2>6. QED
    BY <2>1, <2>2, <2>3, <2>5, ProposalMaps
<1>7. QED
  <2>1. (\/ \E s \in Skills, fields \in SUBSET Fields, trigger \in Triggers,
              rule \in Rules : BeginEdit(e, s, fields, trigger, rule)
         \/ \E s \in Skills : BeginSubmit(e, s)
         \/ \E i \in Calls : BeginOverride(e, i)
         \/ AbandonEdit(e)) => UNCHANGED storeVars
    BY DEF BeginEdit, BeginSubmit, BeginOverride, AbandonEdit
  <2>2. QED
    BY <1>1, <1>2, <1>3, <1>4, <1>5, <1>6, <2>1 DEF EditorStep

LEMMA InitMaps == Init => Ledger!Init
BY DEF Init, StoreInit, Ledger!Init, NoCardRow, NoSkillRow, Published, Live

LEMMA NextMaps == QueueInvariant /\ [Next]_vars => LedgerStep
<1> SUFFICES ASSUME QueueInvariant, [Next]_vars PROVE LedgerStep
  OBVIOUS
<1>1. StoreInv /\ ReviewerInv /\ WriterInv /\ EditorInv
  BY DEF QueueInvariant
<1>2. CASE \E p \in Reviewers : ReviewStep(p)
  BY <1>1, <1>2, ReviewStepMaps
<1>3. CASE \E w \in Workers : WriterStep(w)
  BY <1>1, <1>3, WriterStepMaps
<1>4. CASE \E e \in Editors : EditorStep(e)
  BY <1>1, <1>4, EditorStepMaps
<1>5. CASE AgentStep \/ UNCHANGED vars
  <2>1. UNCHANGED storeVars
    BY <1>5 DEF AgentStep, Query, vars
  <2>2. QED
    BY <2>1, LedgerStutters DEF storeVars, SamePublished, LedgerStep
<1>6. QED
  BY <1>2, <1>3, <1>4, <1>5 DEF Next

\* The review queue implements the audit ledger: however its requests overlap,
\* each card is resolved once, each history row is added by the approval of the
\* card it names and stays, and nothing but such an approval publishes a skill.
THEOREM LedgerIsImplemented == Spec => ImplementsLedger
<1>1. Init => Ledger!Init
  BY InitMaps
<1>2. QueueInvariant /\ [Next]_vars => [Ledger!Next]_(Ledger!ledgerVars)
  BY NextMaps DEF LedgerStep
<1>3. QED
  BY <1>1, <1>2, QueueIsConsistent, PTL DEF Spec, ImplementsLedger, Ledger!Spec
===============================================================================
