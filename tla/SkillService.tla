----------------------------- MODULE SkillService ------------------------------
(***************************************************************************)
(* modules/skills/service.py: the dashboard's edits of skills and the      *)
(* agents' override feedback.  An edit reads the skill, embeds the merged  *)
(* text with no transaction open and then updates the columns it was given;*)
(* submit and override read in the same transaction they write in, but     *)
(* without a lock on what they read.                                       *)
(***************************************************************************)
EXTENDS SkillStore

CONSTANTS
  Editors,     \* concurrent requests to the skills API
  Calls,       \* ids of agent_interactions rows
  NoCall

ASSUME NoCallIsNoCall == NoCall \notin Calls

VARIABLES
  ephase,      \* ephase[e]: "idle", or "read" after the request's first read
  ejob,        \* ejob[e]: its local variables
  calls        \* calls[i]: the agent_interactions row

editorVars == <<ephase, ejob, calls>>

Fields == {"trigger", "rule"}
EditJob == [op: {"edit", "submit", "override"}, skill: Skills \cup {NoSkill},
            fields: SUBSET Fields, trig: Triggers, rule: Texts, vec: Vectors,
            call: Calls \cup {NoCall}]
NoEditJob == [op |-> "edit", skill |-> NoSkill, fields |-> {},
              trig |-> NoSkillRow.trig, rule |-> NoRule, vec |-> NoSkillRow.vec,
              call |-> NoCall]
CallRow == [skill: Skills \cup {NoSkill}, overridden: BOOLEAN]

EditorTypeOK ==
  /\ ephase \in [Editors -> {"idle", "read"}]
  /\ ejob \in [Editors -> EditJob]
  /\ calls \in [Calls -> CallRow]

EditorInit ==
  /\ ephase = [e \in Editors |-> "idle"]
  /\ ejob = [e \in Editors |-> NoEditJob]
  /\ calls = [i \in Calls |-> [skill |-> NoSkill, overridden |-> FALSE]]

StartEdit(e, job) ==
  /\ ephase[e] = "idle"
  /\ ephase' = [ephase EXCEPT ![e] = "read"]
  /\ ejob' = [ejob EXCEPT ![e] = job]
EndEdit(e) ==
  /\ ephase' = [ephase EXCEPT ![e] = "idle"]
  /\ ejob' = [ejob EXCEPT ![e] = NoEditJob]
AtCommit(e, op) == ephase[e] = "read" /\ ejob[e].op = op

\* create: the skill starts as a draft although its card is already open.
CreateSkill(e, s, c, trigger, rule) ==
  /\ ephase[e] = "idle"
  /\ ~Exists(s)
  /\ skills' = [skills EXCEPT ![s] = NewSkill("draft", trigger, rule, {}, NoRule,
                                              HumanConfidence)]
  /\ InsertCard(c, NewCard("new_decision", s, NoRule, rule, {}, NoRule))
  /\ UNCHANGED <<versions, editorVars>>

\* delete: UPDATE ... WHERE deleted_at IS NULL.
DeleteSkill(e, s) ==
  /\ ephase[e] = "idle"
  /\ Live(skills[s])
  /\ skills' = [skills EXCEPT ![s].deleted = TRUE]
  /\ UNCHANGED <<versions, cards, editorVars>>

BeginEdit(e, s, fields, trigger, rule) ==
  LET row == skills[s]
      newTrigger == IF "trigger" \in fields THEN trigger ELSE row.trig
      newRule == IF "rule" \in fields THEN rule ELSE row.rule
  IN /\ fields # {}
     /\ Live(row)
     /\ StartEdit(e, [NoEditJob EXCEPT !.op = "edit", !.skill = s,
                        !.fields = fields, !.trig = newTrigger, !.rule = newRule,
                        !.vec = SkillVector(newTrigger, newRule)])
     /\ UNCHANGED <<storeVars, calls>>

\* Only the fields of the request are written, and the vector with them.
EditedSkill(row, job) ==
  [row EXCEPT !.trig = IF "trigger" \in job.fields THEN job.trig ELSE @,
              !.rule = IF "rule" \in job.fields THEN job.rule ELSE @,
              !.vec = job.vec]

CommitEdit(e) ==
  LET job == ejob[e]
      s == job.skill
  IN /\ AtCommit(e, "edit")
     /\ IF Live(skills[s])
        THEN skills' = [skills EXCEPT ![s] = EditedSkill(@, job)]
        ELSE UNCHANGED skills
     /\ EndEdit(e)
     /\ UNCHANGED <<versions, cards, calls>>

BeginSubmit(e, s) ==
  /\ Live(skills[s]) /\ skills[s].status = "draft"
  /\ StartEdit(e, [NoEditJob EXCEPT !.op = "submit", !.skill = s,
                                    !.rule = skills[s].rule])
  /\ UNCHANGED <<storeVars, calls>>

\* A mutant: a submit opens a card whatever cards are open.
AlwaysNeedsCard(s) == Exists(s)

\* pending_review_id: a card of any kind will do.
NeedsCard(s) == PendingCardsOf(s) = {}

\* promote_draft_to_review is a compare-and-set; any open card of the skill is
\* taken for the card the queue renders, and a new one is opened without one.
CommitSubmit(e, c) ==
  LET job == ejob[e]
      s == job.skill
  IN /\ AtCommit(e, "submit")
     /\ IF Live(skills[s]) /\ skills[s].status = "draft"
        THEN /\ skills' = [skills EXCEPT ![s].status = "review"]
             /\ IF NeedsCard(s)
                THEN InsertCard(c, NewCard("new_decision", s, NoRule, job.rule, {},
                                           NoRule))
                ELSE UNCHANGED cards
        ELSE UNCHANGED <<skills, cards>>       \* ConflictError
     /\ EndEdit(e)
     /\ UNCHANGED <<versions, calls>>

\* query: an agent is served a published skill and the call is logged.
Query(i, s) ==
  /\ calls[i].skill = NoSkill
  /\ Published(skills[s])
  /\ calls' = [calls EXCEPT ![i].skill = s]
  /\ UNCHANGED <<storeVars, ephase, ejob>>

\* override reads the interaction without a lock ...
BeginOverride(e, i) ==
  /\ calls[i].skill # NoSkill
  /\ ~calls[i].overridden
  /\ StartEdit(e, [NoEditJob EXCEPT !.op = "override", !.skill = calls[i].skill,
                                    !.call = i])
  /\ UNCHANGED <<storeVars, calls>>

Lowered(conf) == IF conf = 0 THEN 0 ELSE conf - 1

\* ... marks it, lowers the confidence and below the floor opens a card that
\* proposes no text and carries no proposed_skill.
CommitOverride(e, c) ==
  LET job == ejob[e]
      s == job.skill
      conf == Lowered(skills[s].conf)
  IN /\ AtCommit(e, "override")
     /\ calls' = [calls EXCEPT ![job.call].overridden = TRUE]
     /\ IF Live(skills[s])
        THEN /\ skills' = [skills EXCEPT ![s].conf = conf]
             /\ IF conf < AutoPublishFloor
                THEN InsertCard(c, NewCard("policy_change", s, skills[s].rule,
                                           NoRule, {}, NoRule))
                ELSE UNCHANGED cards
        ELSE UNCHANGED <<skills, cards>>
     /\ EndEdit(e)
     /\ UNCHANGED versions

AbandonEdit(e) ==
  /\ ephase[e] = "read"
  /\ EndEdit(e)
  /\ UNCHANGED <<storeVars, calls>>

EditorStep(e) ==
  \/ \E s \in Skills, c \in Cards, trigger \in Triggers, rule \in Rules :
       CreateSkill(e, s, c, trigger, rule)
  \/ \E s \in Skills : DeleteSkill(e, s)
  \/ \E s \in Skills, fields \in SUBSET Fields, trigger \in Triggers, rule \in Rules :
       BeginEdit(e, s, fields, trigger, rule)
  \/ CommitEdit(e)
  \/ \E s \in Skills : BeginSubmit(e, s)
  \/ \E c \in Cards : CommitSubmit(e, c)
  \/ \E i \in Calls : BeginOverride(e, i)
  \/ \E c \in Cards : CommitOverride(e, c)
  \/ AbandonEdit(e)

AgentStep == \E i \in Calls, s \in Skills : Query(i, s)
===============================================================================
