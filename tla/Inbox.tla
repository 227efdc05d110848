--------------------------------- MODULE Inbox ---------------------------------
(***************************************************************************)
(* What the extraction of source events promises, and nothing of jobs,     *)
(* sweeps or crons: an event is stored once; a run may start on it only    *)
(* while nothing is recorded about it; only a run that started on it may   *)
(* record an outcome; and an outcome that is there with no run left to     *)
(* overwrite it is there for good.                                         *)
(***************************************************************************)
CONSTANTS Events, Runs

VARIABLES
  outcome,     \* outcome[e]: "none", "queued" or what was recorded last
  racing       \* racing[e]: the runs that started on e and have not ended

inboxVars == <<outcome, racing>>

Outcomes == {"discarded", "written", "failed"}

Init ==
  /\ outcome = [e \in Events |-> "none"]
  /\ racing = [e \in Events |-> {}]

Arrive(new) ==
  /\ \A e \in new : outcome[e] = "none"
  /\ outcome' = [e \in Events |-> IF e \in new THEN "queued" ELSE outcome[e]]
  /\ UNCHANGED racing

Begin(e, run) ==
  /\ outcome[e] = "queued"
  /\ racing' = [racing EXCEPT ![e] = @ \cup {run}]
  /\ UNCHANGED outcome

Record(e, run, result) ==
  /\ run \in racing[e]
  /\ outcome' = [outcome EXCEPT ![e] = result]
  /\ racing' = [racing EXCEPT ![e] = @ \ {run}]

\* Runs are cancelled, or fail without a trace.
Drop ==
  /\ racing' \in [Events -> SUBSET Runs]
  /\ \A e \in Events : racing'[e] \subseteq racing[e]
  /\ UNCHANGED outcome

Next ==
  \/ \E new \in SUBSET Events : Arrive(new)
  \/ \E e \in Events, run \in Runs : Begin(e, run)
  \/ \E e \in Events, run \in Runs, result \in Outcomes : Record(e, run, result)
  \/ Drop

Spec == Init /\ [][Next]_inboxVars
===============================================================================
