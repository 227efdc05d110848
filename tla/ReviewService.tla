----------------------------- MODULE ReviewService -----------------------------
(***************************************************************************)
(* modules/reviews/service.py: the requests that resolve cards.  Approve,  *)
(* bulk approve and write read the card and its skill, call the embedding  *)
(* provider with no transaction open, and only then lock the card          *)
(* (SELECT ... FOR UPDATE), read the skill again WITHOUT a lock, write and *)
(* commit.  The engines use Postgres' default READ COMMITTED, so another   *)
(* request may commit a change to the skill between that read and the      *)
(* write: a request is therefore "prepared" after its first read, "locked" *)
(* after the second, and its writes and commit are one step.               *)
(***************************************************************************)
EXTENDS SkillStore

CONSTANT Reviewers       \* concurrent requests to the reviews API

VARIABLES
  rphase,      \* rphase[p]: how far the request of p has come
  rjob         \* rjob[p]: the local variables of that request

reviewVars == <<rphase, rjob>>

Blocks == {"exceptions", "actions"}
Prepared == [card: Cards, vec: Vectors \cup {NoVector}]
Job == [op: {"approve", "reject", "write"}, todo: SUBSET Prepared,
        card: Cards \cup {NoCard}, rule: Texts, exc: SUBSET Exceptions,
        acts: Texts, keep: SUBSET Blocks, vec: Vectors \cup {NoVector},
        snap: SkillRow, versioned: BOOLEAN]
NoJob == [op |-> "approve", todo |-> {}, card |-> NoCard, rule |-> NoRule,
          exc |-> {}, acts |-> NoRule, keep |-> {}, vec |-> NoVector,
          snap |-> NoSkillRow, versioned |-> FALSE]

ReviewTypeOK ==
  /\ rphase \in [Reviewers -> {"idle", "prepared", "locked"}]
  /\ rjob \in [Reviewers -> Job]

ReviewInit ==
  /\ rphase = [p \in Reviewers |-> "idle"]
  /\ rjob = [p \in Reviewers |-> NoJob]

Locked(c) == \E p \in Reviewers : rphase[p] = "locked" /\ rjob[p].card = c

Enter(p, phase, job) ==
  /\ rphase' = [rphase EXCEPT ![p] = phase]
  /\ rjob' = [rjob EXCEPT ![p] = job]
Leave(p) == Enter(p, "idle", NoJob)

(***************************************************************************)
(* What a card does to its skill.                                          *)
(***************************************************************************)
RewritesRule(card) == card.kind \in {"policy_change", "contradiction"}
\* after_text, or the skill's own rule when the card proposes none.
ProposedRule(card, row) == IF card.after = NoRule THEN row.rule ELSE card.after
\* The carve-outs of the card, or one made of the rule it extracted.
ProposedExceptions(card, row) ==
  IF card.exc = {} THEN {ProposedRule(card, row)} ELSE card.exc

\* _peek_approve: the text to embed, computed from the unlocked first read.
PeekVector(c) ==
  LET row == skills[cards[c].skill]
  IN IF Live(row) /\ RewritesRule(cards[c])
     THEN SkillVector(row.trig, ProposedRule(cards[c], row))
     ELSE NoVector

\* _ensure_v1_baseline: the first row of a history is the state before it.
Baseline(c, job) ==
  IF job.versioned THEN {}
  ELSE {Version(job.snap.ver, job.snap.rule, job.snap.exc, "create", c)}

\* A mutant: the publication of a new decision is not recorded.
ChangesOnly(c, job) ==
  LET card == cards[c]
      snap == job.snap
  IN CASE card.kind = "new_decision" -> {}
       [] RewritesRule(card) ->
            Baseline(c, job) \cup
            {Version(NextVersion(snap.ver), ProposedRule(card, snap), card.exc,
                     "human_edit", c)}
       [] card.kind = "exception" ->
            Baseline(c, job) \cup
            {Version(NextVersion(snap.ver), snap.rule,
                     snap.exc \cup ProposedExceptions(card, snap), "human_edit", c)}

\* _apply_approval, the skill_versions rows it inserts.
ApprovalVersions(c, job) ==
  LET card == cards[c]
      snap == job.snap
  IN CASE card.kind = "new_decision" ->
            {Version(snap.ver, snap.rule, snap.exc, "create", c)}
       [] RewritesRule(card) ->
            Baseline(c, job) \cup
            {Version(NextVersion(snap.ver), ProposedRule(card, snap), card.exc,
                     "human_edit", c)}
       [] card.kind = "exception" ->
            Baseline(c, job) \cup
            {Version(NextVersion(snap.ver), snap.rule,
                     snap.exc \cup ProposedExceptions(card, snap), "human_edit", c)}

\* _apply_approval, the UPDATE of the skills row: it writes values computed from
\* the snapshot into the columns it names and leaves the others as they are now.
ApprovedSkill(c, job, row) ==
  LET card == cards[c]
      snap == job.snap
  IN CASE card.kind = "new_decision" ->
            [row EXCEPT !.status = "active", !.conf = HumanConfidence]
       [] RewritesRule(card) ->
            UpdateSkillLogic(row, ProposedRule(card, snap), card.exc, card.acts,
                             NextVersion(snap.ver), job.vec)
       [] card.kind = "exception" ->
            ApplyException(row, snap.exc \cup ProposedExceptions(card, snap),
                           NextVersion(snap.ver))

(***************************************************************************)
(* approve and bulk_approve.                                               *)
(***************************************************************************)
\* Phase A / phase 1: peek every pending card of the request, then embed.
BeginApprove(p, ids) ==
  LET pending == {c \in ids : IsPending(cards[c])}
  IN /\ rphase[p] = "idle"
     /\ pending # {}
     /\ Enter(p, "prepared",
              [NoJob EXCEPT !.todo = {[card |-> c, vec |-> PeekVector(c)] :
                                        c \in pending}])
     /\ UNCHANGED storeVars

\* A mutant: the card just dealt with stays on the list.
RetryForever(p, item) ==
  Enter(p, "prepared", [NoJob EXCEPT !.todo = rjob[p].todo \cup {item}])

\* The request goes on to the next card of the batch, or returns.
Continue(p, item) ==
  LET rest == rjob[p].todo \ {item}
  IN IF rest = {} THEN Leave(p)
     ELSE Enter(p, "prepared", [NoJob EXCEPT !.todo = rest])

LockApprove(p, item) ==
  /\ rphase[p] = "prepared" /\ rjob[p].op = "approve"
  /\ item \in rjob[p].todo
  /\ ~Locked(item.card)
  /\ IsPending(cards[item.card])
  /\ Enter(p, "locked",
           [rjob[p] EXCEPT !.card = item.card, !.vec = item.vec,
                           !.snap = skills[cards[item.card].skill],
                           !.versioned = versions[cards[item.card].skill] # {}])
  /\ UNCHANGED storeVars

\* Another request resolved the card first: ConflictError, the item is skipped.
SkipApprove(p, item) ==
  /\ rphase[p] = "prepared" /\ rjob[p].op = "approve"
  /\ item \in rjob[p].todo
  /\ ~Locked(item.card)
  /\ ~IsPending(cards[item.card])
  /\ Continue(p, item)
  /\ UNCHANGED storeVars

CommitApprove(p) ==
  LET job == rjob[p]
      c == job.card
      s == cards[c].skill
  IN /\ rphase[p] = "locked" /\ job.op = "approve"
     /\ ResolveCard(c, "approved")
     /\ IF Live(job.snap)
        THEN /\ skills' = [skills EXCEPT ![s] = ApprovedSkill(c, job, skills[s])]
             /\ versions' = [versions EXCEPT ![s] = @ \cup ApprovalVersions(c, job)]
        ELSE UNCHANGED <<skills, versions>>    \* the skill was deleted meanwhile
     /\ Continue(p, [card |-> c, vec |-> job.vec])

(***************************************************************************)
(* reject: one transaction, but the skill it reads is not locked either.   *)
(***************************************************************************)
BeginReject(p, c) ==
  /\ rphase[p] = "idle"
  /\ ~Locked(c)
  /\ IsPending(cards[c])
  /\ Enter(p, "locked", [NoJob EXCEPT !.op = "reject", !.card = c,
                                      !.snap = skills[cards[c].skill]])
  /\ UNCHANGED storeVars

CommitReject(p) ==
  LET job == rjob[p]
      card == cards[job.card]
  IN /\ rphase[p] = "locked" /\ job.op = "reject"
     /\ ResolveCard(job.card, "rejected")
     /\ IF card.kind = "new_decision" /\ Live(job.snap) /\ job.snap.status = "review"
        THEN skills' = [skills EXCEPT ![card.skill].status = "draft"]
        ELSE UNCHANGED skills
     /\ UNCHANGED versions
     /\ Leave(p)

(***************************************************************************)
(* write and resolve_contradiction: both end in _apply_write.              *)
(***************************************************************************)
\* keep names the blocks the request leaves out (None).
BeginWrite(p, c, rule, exc, acts, keep) ==
  /\ rphase[p] = "idle"
  /\ IsPending(cards[c])
  /\ Live(skills[cards[c].skill])
  /\ Enter(p, "prepared",
           [NoJob EXCEPT !.op = "write", !.card = c, !.rule = rule, !.exc = exc,
                         !.acts = acts, !.keep = keep,
                         !.vec = SkillVector(skills[cards[c].skill].trig, rule)])
  /\ UNCHANGED storeVars

ResolveSourceA(p, c) ==
  /\ cards[c].kind = "contradiction"
  /\ cards[c].before # NoRule
  /\ BeginWrite(p, c, cards[c].before, {}, NoRule, Blocks)

ResolveSourceB(p, c) ==
  /\ cards[c].kind = "contradiction"
  /\ cards[c].after # NoRule
  /\ BeginWrite(p, c, cards[c].after, cards[c].exc, cards[c].acts, {})

LockWrite(p) ==
  LET c == rjob[p].card
      row == skills[cards[c].skill]
  IN /\ rphase[p] = "prepared" /\ rjob[p].op = "write"
     /\ ~Locked(c)
     /\ IF IsPending(cards[c]) /\ Live(row)
        THEN Enter(p, "locked", [rjob[p] EXCEPT !.snap = row])
        ELSE Leave(p)                        \* ConflictError or NotFoundError
     /\ UNCHANGED storeVars

CommitWrite(p) ==
  LET job == rjob[p]
      s == cards[job.card].skill
      v == NextVersion(job.snap.ver)
      exc == IF "exceptions" \in job.keep THEN job.snap.exc ELSE job.exc
      acts == IF "actions" \in job.keep THEN skills[s].acts ELSE job.acts
  IN /\ rphase[p] = "locked" /\ job.op = "write"
     /\ ResolveCard(job.card, "approved")
     /\ versions' = [versions EXCEPT ![s] =
                       @ \cup {Version(v, job.rule, exc, "human_edit", job.card)}]
     /\ skills' = [skills EXCEPT ![s] =
                     UpdateSkillLogic(@, job.rule, exc, acts, v, job.vec)]
     /\ Leave(p)

\* The embedding provider fails, the connection drops or the process dies: an
\* open transaction rolls back and nothing was written before it.
Abandon(p) ==
  /\ rphase[p] # "idle"
  /\ Leave(p)
  /\ UNCHANGED storeVars

ReviewStep(p) ==
  \/ \E ids \in SUBSET Cards : BeginApprove(p, ids)
  \/ \E item \in rjob[p].todo : LockApprove(p, item) \/ SkipApprove(p, item)
  \/ CommitApprove(p)
  \/ \E c \in Cards : BeginReject(p, c)
  \/ CommitReject(p)
  \/ \E c \in Cards, rule \in Rules, exc \in SUBSET Clauses, keep \in SUBSET Blocks :
       /\ "exceptions" \in keep => exc = {}
       /\ BeginWrite(p, c, rule, exc, rule, keep)
  \/ \E c \in Cards : ResolveSourceA(p, c) \/ ResolveSourceB(p, c)
  \/ LockWrite(p)
  \/ CommitWrite(p)
  \/ Abandon(p)

\* What a request in flight does next when nothing goes wrong.
RequestGoesOn(p) ==
  \/ \E item \in rjob[p].todo : LockApprove(p, item) \/ SkipApprove(p, item)
  \/ CommitApprove(p)
  \/ CommitReject(p)
  \/ LockWrite(p)
  \/ CommitWrite(p)
===============================================================================
