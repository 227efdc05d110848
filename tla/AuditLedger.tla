------------------------------ MODULE AuditLedger ------------------------------
(***************************************************************************)
(* What the review queue promises an auditor, and nothing of how it works: *)
(* a card is opened once about one skill and resolved at most once, the    *)
(* history of a skill only grows, it grows only by the approval of a card  *)
(* about that skill and only by rows that name that card, and a skill is   *)
(* published only by such an approval.                                     *)
(***************************************************************************)
CONSTANTS Skills, Cards, NoSkill

VARIABLES
  state,       \* state[c]: "none", "pending", "approved" or "rejected"
  subject,     \* subject[c]: the skill the card is about
  history,     \* history[s]: rows [ver, change, by]
  published    \* the skills agents are served

ledgerVars == <<state, subject, history, published>>

Init ==
  /\ state = [c \in Cards |-> "none"]
  /\ subject = [c \in Cards |-> NoSkill]
  /\ history = [s \in Skills |-> {}]
  /\ published = {}

\* A proposal, by whoever makes it, touches no skill that is already there.
Open(c, s) ==
  /\ state[c] = "none"
  /\ state' = [state EXCEPT ![c] = "pending"]
  /\ subject' = [subject EXCEPT ![c] = s]
  /\ UNCHANGED <<history, published>>

Approve(c) ==
  LET s == subject[c]
  IN /\ state[c] = "pending"
     /\ state' = [state EXCEPT ![c] = "approved"]
     /\ history' = [history EXCEPT ![s] = history'[s]]
     /\ history[s] \subseteq history'[s]
     /\ \A row \in history'[s] \ history[s] : row.by = c
     /\ published' \in {published, published \cup {s}}
     /\ UNCHANGED subject

\* Rejecting one card, or withdrawing a skill, publishes nothing.
Reject(c) ==
  /\ state[c] = "pending"
  /\ state' = [state EXCEPT ![c] = "rejected"]
  /\ published' \in {published, published \ {subject[c]}}
  /\ UNCHANGED <<subject, history>>

Withdraw(s) ==
  /\ s \in published
  /\ published' = published \ {s}
  /\ UNCHANGED <<state, subject, history>>

Next ==
  \/ \E c \in Cards, s \in Skills : Open(c, s)
  \/ \E c \in Cards : Approve(c) \/ Reject(c)
  \/ \E s \in Skills : Withdraw(s)

Spec == Init /\ [][Next]_ledgerVars
===============================================================================
