\* Two events that a sweep and its continuation, the cron and one more job extract, each
\* tried twice.
SPECIFICATION MCSpec
CONSTANTS
  Events = {e1, e2}
  Named = {e1, e2}
  Tasks = {e1, e2, SweepCall}
  Receivers = {r1}
  Anonymous = {a1, a2}
  SweepCall = SweepCall
  NoTask = NoTask
  MaxTries = 2
  CronBatch = 1
  SweepBatch = 2
SYMMETRY Interchangeable
INVARIANT AtMostTwoProposals
PROPERTY ImplementsInbox
\* With every event settled there is nothing left to do.
CHECK_DEADLOCK FALSE
