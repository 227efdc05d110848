------------------------------ MODULE SkillWriter ------------------------------
(***************************************************************************)
(* pipeline/stages/skill_writer.py and the part of pipeline/orchestrator.py *)
(* around it: an extraction job searches the skills near its draft in a    *)
(* read transaction, asks the LLM what the draft is to the one it found    *)
(* (no transaction open), and writes in a later transaction, from the copy *)
(* of the skill it read.  The LLM's answer is a free choice.               *)
(***************************************************************************)
EXTENDS SkillStore

CONSTANT Workers         \* concurrent extraction jobs

VARIABLES
  wphase,      \* wphase[w]: "idle", or "matched" after the boundary search
  match        \* match[w]: the SimilarSkill the job holds on to, or none

writerVars == <<wphase, match>>

Match == [skill: Skills \cup {NoSkill}, rule: Texts]
NoMatch == [skill |-> NoSkill, rule |-> NoRule]

WriterTypeOK ==
  /\ wphase \in [Workers -> {"idle", "matched"}]
  /\ match \in [Workers -> Match]

WriterInit ==
  /\ wphase = [w \in Workers |-> "idle"]
  /\ match = [w \in Workers |-> NoMatch]

PublishedScope == {"active"}
SweepScope == {"active", "review"}

\* A mutant: a draft that scores well enough goes live unreviewed.
AutoPublish(conf) == IF conf < ReviewConfidence THEN "draft" ELSE "active"

\* route: a score below the floor is a draft nobody is asked about.
Route(conf) == IF conf < ReviewConfidence THEN "draft" ELSE "review"

Done(w) ==
  /\ wphase' = [wphase EXCEPT ![w] = "idle"]
  /\ match' = [match EXCEPT ![w] = NoMatch]

\* similar_skills, then the boundary classifier's pick.
Search(w, scope, s) ==
  /\ wphase[w] = "idle"
  /\ Live(skills[s]) /\ skills[s].status \in scope
  /\ wphase' = [wphase EXCEPT ![w] = "matched"]
  /\ match' = [match EXCEPT ![w] = [skill |-> s, rule |-> skills[s].rule]]
  /\ UNCHANGED storeVars

SearchNothing(w) ==
  /\ wphase[w] = "idle"
  /\ wphase' = [wphase EXCEPT ![w] = "matched"]
  /\ UNCHANGED <<match, storeVars>>

\* write_new_skill: also what a draft the LLM calls NEW despite a match becomes.
WriteNewSkill(w, s, c, rule, exc, trigger, conf) ==
  /\ wphase[w] = "matched"
  /\ ~Exists(s)
  /\ skills' = [skills EXCEPT ![s] = NewSkill(Route(conf), trigger, rule, exc,
                                              rule, conf)]
  /\ IF Route(conf) = "review"
     THEN InsertCard(c, NewCard("new_decision", s, NoRule, rule, exc, rule))
     ELSE UNCHANGED cards
  /\ UNCHANGED versions
  /\ Done(w)

\* write_update, write_exception and write_contradiction open a card against the
\* matched skill and leave the skill alone.
WriteMatched(w, c, kind, rule, exc) ==
  /\ wphase[w] = "matched" /\ match[w].skill # NoSkill
  /\ kind \in Kinds \ {"new_decision"}
  /\ InsertCard(c, NewCard(kind, match[w].skill, match[w].rule, rule, exc, rule))
  /\ UNCHANGED <<skills, versions>>
  /\ Done(w)

\* write_duplicate (only source_ids grow), an UPDATE or EXCEPTION scored below
\* the floor, a discarded event, or a run that fails and is dead-lettered.
WriteNothing(w) ==
  /\ wphase[w] = "matched"
  /\ UNCHANGED storeVars
  /\ Done(w)

WriterStep(w) ==
  \/ \E s \in Skills : Search(w, PublishedScope, s) \/ Search(w, SweepScope, s)
  \/ SearchNothing(w)
  \/ \E s \in Skills, c \in Cards, rule \in Rules, exc \in SUBSET Clauses,
        trigger \in Triggers, conf \in {DraftConfidence, ReviewConfidence} :
       WriteNewSkill(w, s, c, rule, exc, trigger, conf)
  \/ \E c \in Cards, kind \in Kinds, rule \in Rules, exc \in SUBSET Clauses :
       WriteMatched(w, c, kind, rule, exc)
  \/ WriteNothing(w)
===============================================================================
