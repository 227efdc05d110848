-------------------------------- MODULE MCSpool --------------------------------
(***************************************************************************)
(* A session of the plugin for TLC.  Three projections, chosen at the      *)
(* start: capture, where two tools run in parallel and a confirmation      *)
(* comes, without faults; delivery, where one tool runs, with a flush at   *)
(* any point, a second one beside it, kills, dropped files and lines too   *)
(* long; retention, where a second turn follows while the file of the      *)
(* first, all of it answered at once, is about to be removed.              *)
(***************************************************************************)
EXTENDS Spool

CONSTANTS a, b, c, f1

MCTools == {a, b, c}
MCTurnOf == [t \in MCTools |-> IF t = c THEN 2 ELSE 1]
MCEvidence == [t \in MCTools |-> IF t = a THEN "test" ELSE "none"]

\* A second flusher comes while the first has an answer to note, and finds the lock taken.
LocksOut(f) ==
  flusher'[f].phase # "idle" => flusher'[f].phase = "spawned" /\ flusher'[f1].phase = "marking"

VARIABLE focus

MCInit == Init /\ focus \in {"capture", "delivery", "retention"}

Working == \E f \in Flushers : flusher[f].phase \notin {"idle", "spawned"}
Ending == \E f \in Flushers : flusher[f].any /\ flusher[f].queue = <<>>
AtRest == \A t \in Tools : ~InFlight(t)

Undelayed ==
  /\ refused' = {} /\ history'.faults = 0 /\ editor' # "again"
  /\ \A f \in Flushers : flusher'[f].tries = 0 /\ flusher'[f].complete
  /\ \A f \in Flushers \ {f1} : flusher'[f].phase = "idle"

MCNext ==
  /\ Next
  /\ focus = "capture" =>
       /\ Undelayed
       /\ Working => flusher' # flusher
       /\ flusher' # flusher /\ hook' = hook => AtRest
       /\ ~\E f \in Flushers : Spawn(f)
       /\ ~aged' /\ tool'[c] = "idle"
       /\ ~BeginStop(FALSE) /\ ~CloseStep(b, "error") /\ ~FailTool(b)
  /\ focus # "capture" =>
       /\ tool'[b] = "idle" /\ ~marker'
       /\ aged' /\ ~aged => AtRest /\ \A h \in Closers : HookIdle(h)
  /\ focus = "delivery" => tool'[c] = "idle"
  /\ focus = "retention" =>
       /\ Undelayed
       /\ StartTool(c) => Ending
       /\ ~BeginEnd /\ ~InterruptTurn /\ \A t \in Tools : ~CloseStep(t, "error") /\ ~FailTool(t)
  /\ \A f \in Flushers \ {f1} : LocksOut(f)
  /\ UNCHANGED focus

MCSpec ==
  /\ MCInit /\ [][MCNext]_<<vars, focus>>
  /\ WF_vars(focus = "delivery" /\ Spawn(f1))
  /\ \A f \in Flushers : WF_vars(focus = "delivery" /\ Flushing(f))
  /\ SF_vars(focus = "delivery" /\ IsAnswered(f1))

\* Time and again everything closed and worth sending has been sent (flush.go: offline for
\* a week means the spool drains when connectivity returns).
SpoolDrainsInDelivery == []<>(focus # "delivery" \/ Drained)
===============================================================================
