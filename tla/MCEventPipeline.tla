---------------------------- MODULE MCEventPipeline ----------------------------
(* Finite instances of the event pipeline for TLC. *)
EXTENDS EventPipeline, TLC

Interchangeable ==
  Permutations(Events) \cup Permutations(Receivers) \cup Permutations(Anonymous)

\* Of two anonymous jobs one is a sweep, and the other its continuation, tried once.
ContinuationsOnly ==
  \A j, k \in Anonymous : j # k /\ status[j] # "absent" =>
    /\ status[k] = "absent" /\ status'[k] # "absent" =>
         status[j] = "running" /\ status'[j] = "kept"
    /\ status[j] = "kept" => tries'[k] <= 1

MCSpec == Init /\ [][Next /\ ContinuationsOnly]_vars
===============================================================================
