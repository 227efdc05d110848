\* Two exceptions to one rule, opened before either is approved.
SPECIFICATION Spec
CONSTANTS
  Skills = {s1}
  Cards = {c1, c2, c3}
  Rules = {a}
  Clauses = {x}
  Triggers = {t1}
  Reviewers = {p1, p2}
  Workers = {w1}
  Editors = {}
  Slow = {}
  Calls = {}
  NoRule = NoRule
  NoSkill = NoSkill
  NoCard = NoCard
  NoCall = NoCall
  NoVector = NoVector
SYMMETRY Interchangeable
PROPERTY CarveOutsOnlyGrow
