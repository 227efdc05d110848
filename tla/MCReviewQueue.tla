----------------------------- MODULE MCReviewQueue -----------------------------
(* Finite instances of the review queue for TLC. *)
EXTENDS ReviewQueue, TLC

CONSTANT Slow   \* the requests of the dashboard that read, and write in a later step

Interchangeable ==
  Permutations(Skills) \cup Permutations(Cards) \cup Permutations(Reviewers)
    \cup Permutations(Rules) \cup Permutations(Workers)

\* The others are creations and deletions, one transaction each.
OthersAreQuick == \A e \in Editors \ Slow : ephase[e] = "idle"

\* It takes two overrides to bring an approved skill below the floor.  The first finds
\* nobody else at work on the skill; the last, which opens the card, overlaps with
\* everything.  Calls are logged in their order.
LoggedCalls == {i \in Calls : calls[i].skill # NoSkill}
OverridesInTurn ==
  /\ \A i \in LoggedCalls, k \in Calls : k < i => calls[k].overridden
  /\ LoggedCalls \notin {{}, Calls} /\ (\E s \in Skills : Published(skills[s])) =>
       /\ \A p \in Reviewers : rphase[p] = "idle"
       /\ \A w \in Workers : wphase[w] = "idle"

Bounds == OthersAreQuick /\ OverridesInTurn
===============================================================================
