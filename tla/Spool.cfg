\* Two turns, two tools of the first and one of the second, a flusher that tries twice and
\* one that is locked out, one confirmation.
SPECIFICATION MCSpec
CONSTANTS
  a = a
  b = b
  c = c
  f1 = f1
  LastTurn = 2
  Tools <- MCTools
  TurnOf <- MCTurnOf
  Evidence <- MCEvidence
  Flushers = {f1, f2}
  NoFlusher = none
  MinSteps = 2
  Attempts = 2
  MaxDones = 1
  MaxFaults = 1
INVARIANTS SpoolInvariant ShippedRunIsWhole OneTurnPerConfirmation
PROPERTIES OnlyDeliveredIsRemoved SpoolDrainsInDelivery
CHECK_DEADLOCK FALSE
