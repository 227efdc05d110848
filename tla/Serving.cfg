\* One skill with up to three versions and two wordings, one question, two requests that
\* change it, one of them alone, and one job; three requests of the chat, one an agent's,
\* and a reply of up to six symbols.
SPECIFICATION MCSpec
CONSTANTS
  Skills = {s1}
  Readers = {r1}
  Writers = {w1, w2}
  Alone = w1
  Jobs = {j1}
  MaxVersion = 3
  MaxWording = 2
  MaxModel = 2
  MaxDue = 1
  Askers = {q1, q2, q3}
  Agents = {q3}
  User = q1
  Other = q2
  Agent = q3
  Thread = Thread
  Foreign = Foreign
  MaxText = 6
  MaxPiece = 2
INVARIANTS CachedAnswerStands LabelsFollowVersions VectorOfText PiecesDoNotShow ShownIsStored TurnsAreReplayedWhole
\* The bounds stop every part in the end.
CHECK_DEADLOCK FALSE
