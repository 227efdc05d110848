\* Two reviewers whose batches and locks meet; no symmetry under liveness.
SPECIFICATION FairSpec
CONSTANTS
  Skills = {s1}
  Cards = {c1, c2}
  Rules = {a}
  Clauses = {}
  Triggers = {t1}
  Reviewers = {p1, p2}
  Workers = {w1}
  Editors = {}
  Slow = {}
  Calls = {}
  NoRule = NoRule
  NoSkill = NoSkill
  NoCard = NoCard
  NoCall = NoCall
  NoVector = NoVector
PROPERTY RequestsReturn
