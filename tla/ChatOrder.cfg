\* One turn is enough.
SPECIFICATION ChatSpec
CONSTANTS
  Askers = {r1, r2}
  Agents = {}
  Thread = Thread
  Foreign = Foreign
  MaxText = 1
  MaxPiece = 1
INVARIANT ReplayIsChatOrder
\* Every question is asked once.
CHECK_DEADLOCK FALSE
