------------------------------ MODULE SkillStore ------------------------------
(***************************************************************************)
(* The three tables of one workspace that the review queue is about:       *)
(* skills, skill_versions and reviews (a review is called a card here, as  *)
(* the dashboard does).  The operators below are the SQL statements of     *)
(* pipeline/repository.py, reviews/repository.py and skills/repository.py, *)
(* each as the value of the row it leaves behind; the modules that extend  *)
(* this one say which request issues which statement, and when.            *)
(*                                                                         *)
(* A rule stands for a base_logic text, a clause for one entry of          *)
(* exceptions_block; the actions block of a skill is identified with the   *)
(* rule it was extracted for.                                              *)
(***************************************************************************)
EXTENDS Naturals, FiniteSets

CONSTANTS
  Skills,      \* ids of skills rows
  Cards,       \* ids of reviews rows
  Rules,       \* base_logic texts
  Clauses,     \* carve-outs an extraction or a reviewer may state
  Triggers,    \* trigger texts
  NoRule,      \* a NULL text
  NoSkill,     \* a NULL skill id
  NoCard,      \* a NULL review id
  NoVector     \* no embedding was computed

ASSUME NullsAreNotValues ==
  /\ NoRule \notin Rules
  /\ NoSkill \notin Skills
  /\ NoCard \notin Cards
  /\ NoVector \notin Triggers \X (Rules \cup {NoRule})

\* The trigger column of a skill always holds a text.
ASSUME SomeTrigger == Triggers # {}

VARIABLES
  skills,      \* skills[s]: the row of skill s
  versions,    \* versions[s]: the skill_versions rows of skill s
  cards        \* cards[c]: the reviews row of card c

storeVars == <<skills, versions, cards>>

Texts == Rules \cup {NoRule}
\* An exception card without carve-outs records {condition, action} of its own
\* rule instead, so a text may stand in an exceptions block.
Exceptions == Clauses \cup Texts
Vectors == Triggers \X Texts
Kinds == {"new_decision", "policy_change", "exception", "contradiction"}

\* Confidence counts in steps of 0.05, the amount one override takes off.  In floating
\* point 1.0 less two of them falls short of the floor of 0.9, so two steps are below it.
HumanConfidence == 20
Confidences == 0 .. HumanConfidence
AutoPublishFloor == 19
ReviewConfidence == 14       \* a pipeline score at the review queue floor
DraftConfidence == 10        \* one below it

SkillRow == [status: {"none", "draft", "review", "active"}, ver: Nat,
             trig: Triggers, rule: Texts, exc: SUBSET Exceptions, acts: Texts,
             vec: Vectors, conf: Confidences, deleted: BOOLEAN]
VersionRow == [ver: Nat, rule: Texts, exc: SUBSET Exceptions,
               change: {"create", "human_edit"}, by: Cards]
CardRow == [status: {"none", "pending", "approved", "rejected"}, kind: Kinds,
            skill: Skills \cup {NoSkill}, before: Texts, after: Texts,
            exc: SUBSET Exceptions, acts: Texts]

StoreTypeOK ==
  /\ skills \in [Skills -> SkillRow]
  /\ versions \in [Skills -> SUBSET VersionRow]
  /\ cards \in [Cards -> CardRow]

NoCardRow == [status |-> "none", kind |-> "new_decision", skill |-> NoSkill,
              before |-> NoRule, after |-> NoRule, exc |-> {}, acts |-> NoRule]
NoSkillRow == [status |-> "none", ver |-> 1, trig |-> CHOOSE t \in Triggers : TRUE,
               rule |-> NoRule, exc |-> {}, acts |-> NoRule,
               vec |-> <<CHOOSE t \in Triggers : TRUE, NoRule>>,
               conf |-> 0, deleted |-> FALSE]

StoreInit ==
  /\ skills = [s \in Skills |-> NoSkillRow]
  /\ versions = [s \in Skills |-> {}]
  /\ cards = [c \in Cards |-> NoCardRow]

(***************************************************************************)
(* Reads.                                                                  *)
(***************************************************************************)
Exists(s) == skills[s].status # "none"
\* get_skill and every other read filter deleted_at IS NULL.
Live(row) == row.status # "none" /\ ~row.deleted
\* PUBLISHED_STATUSES; "stable" is never written by the code.
Published(row) == Live(row) /\ row.status = "active"
\* The pending test of _load_pending and of resolve's WHERE clause.
IsPending(card) == card.status = "pending"
PendingCardsOf(s) == {c \in Cards : cards[c].skill = s /\ IsPending(cards[c])}

SkillVector(trigger, rule) == <<trigger, rule>>

(***************************************************************************)
(* Writes, as the rows they leave.                                         *)
(***************************************************************************)
NextVersion(v) == v + 1

NewSkill(status, trigger, rule, exc, acts, conf) ==
  [status |-> status, ver |-> 1, trig |-> trigger, rule |-> rule, exc |-> exc,
   acts |-> acts, vec |-> SkillVector(trigger, rule), conf |-> conf,
   deleted |-> FALSE]

NewCard(kind, s, before, after, exc, acts) ==
  [status |-> "pending", kind |-> kind, skill |-> s, before |-> before,
   after |-> after, exc |-> exc, acts |-> acts]

Version(v, rule, exc, change, c) ==
  [ver |-> v, rule |-> rule, exc |-> exc, change |-> change, by |-> c]

\* update_skill_logic: every column of the rule, its vector and its standing.
UpdateSkillLogic(row, rule, exc, acts, v, vec) ==
  [row EXCEPT !.rule = rule, !.exc = exc, !.acts = acts, !.ver = v,
              !.conf = HumanConfidence, !.vec = vec, !.status = "active"]

\* apply_exception: the rule and its vector stay put.
ApplyException(row, exc, v) ==
  [row EXCEPT !.exc = exc, !.ver = v, !.conf = HumanConfidence,
              !.status = "active"]

\* insert_review: a fresh id, written pending.
InsertCard(c, row) ==
  /\ cards[c].status = "none"
  /\ cards' = [cards EXCEPT ![c] = row]

\* resolve: UPDATE ... WHERE id = c AND status = 'pending'.
ResolveCard(c, status) ==
  /\ IsPending(cards[c])
  /\ cards' = [cards EXCEPT ![c].status = status]
===============================================================================
