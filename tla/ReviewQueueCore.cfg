\* Two overlapping reviewers, one extraction job, two requests of the dashboard, two
\* overridden calls, two cards.
SPECIFICATION Spec
CONSTANTS
  Skills = {s1}
  Cards = {c1, c2}
  Rules = {a}
  Clauses = {}
  Triggers = {t1}
  Reviewers = {p1, p2}
  Workers = {w1}
  Editors = {e1, e2}
  Slow = {e1}
  Calls = {1, 2}
  NoRule = NoRule
  NoSkill = NoSkill
  NoCard = NoCard
  NoCall = NoCall
  NoVector = NoVector
CONSTRAINT Bounds
SYMMETRY Interchangeable
INVARIANTS PublishedVersionRecorded OneDecisionCard
PROPERTY ImplementsLedger
