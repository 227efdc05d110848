------------------------------ MODULE ReviewQueue ------------------------------
(***************************************************************************)
(* The review queue of one workspace: extraction jobs propose, reviewers   *)
(* resolve, dashboard users edit and agents give feedback, all on the same *)
(* rows and at the same time.                                              *)
(***************************************************************************)
EXTENDS ReviewService, SkillWriter, SkillService

vars == <<storeVars, reviewVars, writerVars, editorVars>>

Init == StoreInit /\ ReviewInit /\ WriterInit /\ EditorInit

Next ==
  \/ \E p \in Reviewers : ReviewStep(p) /\ UNCHANGED <<writerVars, editorVars>>
  \/ \E w \in Workers : WriterStep(w) /\ UNCHANGED <<reviewVars, editorVars>>
  \/ \E e \in Editors : EditorStep(e) /\ UNCHANGED <<reviewVars, writerVars>>
  \/ AgentStep /\ UNCHANGED <<reviewVars, writerVars>>

Spec == Init /\ [][Next]_vars

\* The event loop runs every request on, and Postgres grants a row lock to its
\* waiters in turn: a step that is possible time and again is taken.
FairSpec ==
  Spec /\ \A p \in Reviewers :
            SF_vars(RequestGoesOn(p) /\ UNCHANGED <<writerVars, editorVars>>)

-------------------------------------------------------------------------------
\* Every row has the columns the schema gives it and every request the local
\* variables its function declares.
TypeOK == StoreTypeOK /\ ReviewTypeOK /\ WriterTypeOK /\ EditorTypeOK

Recorded(s, v) == \E row \in versions[s] : row.ver = v

\* The version an agent is served always stands in the history: approve, write
\* and bulk approve insert the skill_versions row in the transaction that moves
\* the skill, so whichever of two overlapping approvals commits last, the label
\* it leaves on a published skill has a row.
PublishedVersionRecorded ==
  \A s \in Skills : Published(skills[s]) => Recorded(s, skills[s].ver)

\* Why that is so.  A card is only ever about a skill that is there; a version
\* label other than the first was left by a resolution, which recorded it; and
\* a skill still at its first label was at it in every copy a request holds, so
\* confirming that copy records the right label.
CardsHaveSkills ==
  \A c \in Cards : cards[c].status # "none" =>
    cards[c].skill \in Skills /\ Exists(cards[c].skill)
MovedVersionRecorded ==
  \A s \in Skills :
    /\ skills[s].ver # 0
    /\ (skills[s].ver # 1 \/ skills[s].status = "active") => Recorded(s, skills[s].ver)

\* What a reviewer's request in phase knows about the rows it read: the cards it
\* prepared are there, a card it locked is still pending, the copy of the skill
\* is at the first label if the skill is, and a rewrite without a vector is one
\* of a skill that was deleted before the card was peeked.
HoldsCard(phase, job) == phase = "locked" \/ (phase = "prepared" /\ job.op = "write")
CopyIsOlder(job) ==
  /\ job.snap.ver # 0
  /\ skills[cards[job.card].skill].ver = 1 => job.snap.ver = 1
VectorIsReady(c, vec, row) ==
  (RewritesRule(cards[c]) /\ vec = NoVector) => row.deleted
RequestOK(phase, job) ==
  /\ HoldsCard(phase, job) => job.card \in Cards /\ cards[job.card].status # "none"
  /\ phase = "locked" =>
       /\ IsPending(cards[job.card])
       /\ CopyIsOlder(job)
       /\ job.op = "approve" => VectorIsReady(job.card, job.vec, job.snap)
  /\ \A item \in job.todo :
       /\ cards[item.card].status # "none"
       /\ VectorIsReady(item.card, item.vec, skills[cards[item.card].skill])
  /\ job.op = "write" => job.vec # NoVector

\* The row lock: no two requests hold one card.
LocksAreExclusive ==
  \A p, q \in Reviewers :
    (rphase[p] = "locked" /\ rphase[q] = "locked" /\ rjob[p].card = rjob[q].card)
    => p = q
\* What an extraction job or a dashboard request found is a skill for good.
MatchesNameSkills ==
  \A w \in Workers : match[w].skill # NoSkill => Exists(match[w].skill)
EditsNameSkills ==
  \A e \in Editors : ephase[e] = "read" =>
    /\ ejob[e].skill \in Skills
    /\ ejob[e].op = "override" => ejob[e].call \in Calls

\* The queue shows a skill at most one decision card at a time, however many
\* submits, rejects, creates and extractions run: submit_for_review reuses an
\* open card and only opens one when there is none.
OneDecisionCard ==
  \A s \in Skills : \A c, d \in PendingCardsOf(s) :
    (cards[c].kind = "new_decision" /\ cards[d].kind = "new_decision") => c = d

StoreInv == StoreTypeOK /\ CardsHaveSkills /\ MovedVersionRecorded /\ OneDecisionCard
ReviewerInv == ReviewTypeOK /\ LocksAreExclusive
                 /\ \A p \in Reviewers : RequestOK(rphase[p], rjob[p])
WriterInv == WriterTypeOK /\ MatchesNameSkills
EditorInv == EditorTypeOK /\ EditsNameSkills
QueueInvariant == StoreInv /\ ReviewerInv /\ WriterInv /\ EditorInv

\* An approval that rewrites a live rule always carries the vector phase 1
\* computed for it: no kind that phase 2 treats as a rewrite was left out by
\* _peek_approve, and no skill comes alive between the two phases.
RewriteHasVector ==
  \A p \in Reviewers :
    (/\ rphase[p] = "locked" /\ rjob[p].op = "approve" /\ Live(rjob[p].snap)
     /\ RewritesRule(cards[rjob[p].card]))
    => rjob[p].vec # NoVector

\* Requests that wait for each other's cards all return: a batch locks one card
\* per transaction, and a card another request resolved is skipped.
RequestsReturn ==
  \A p \in Reviewers : rphase[p] # "idle" ~> rphase[p] = "idle"

\* What the queue means to an auditor (AuditLedger): every card is resolved at
\* most once whichever requests race for it, a history row is never changed and
\* names the approval that wrote it, and nothing but an approval publishes.
Ledger == INSTANCE AuditLedger WITH
  state <- [c \in Cards |-> cards[c].status],
  subject <- [c \in Cards |-> cards[c].skill],
  history <- [s \in Skills |->
               {[ver |-> row.ver, change |-> row.change, by |-> row.by] :
                 row \in versions[s]}],
  published <- {s \in Skills : Published(skills[s])}
ImplementsLedger == Ledger!Spec

\* "the rule is unchanged; only its carve-outs grow" (pipeline/repository.py:302): an
\* approved exception keeps the carve-outs that are live by then.  The card was given
\* the whole list it found when it was opened, and writes it back.
CarveOutsOnlyGrow ==
  [][\A p \in Reviewers :
       (CommitApprove(p) /\ cards[rjob[p].card].kind = "exception")
       => \A s \in Skills : skills[s].exc \subseteq skills'[s].exc]_vars
===============================================================================
