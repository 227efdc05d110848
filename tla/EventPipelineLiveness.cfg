\* Two events, one of a sweep or not, and the cron that finds what was stranded.
SPECIFICATION FairSpec
CONSTANTS
  Events = {e1, e2}
  Named = {e1, e2}
  Tasks = {e1, e2, SweepCall}
  Receivers = {r1}
  Anonymous = {a1}
  SweepCall = SweepCall
  NoTask = NoTask
  MaxTries = 1
  CronBatch = 1
  SweepBatch = 1
PROPERTY EventsAreExtracted
\* With every event settled there is nothing left to do.
CHECK_DEADLOCK FALSE
