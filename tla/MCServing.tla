-------------------------------- MODULE MCServing -------------------------------
(***************************************************************************)
(* The serving of answers for TLC.  Six projections, chosen at the start:  *)
(* the cache beside one request that changes the rule, the labels of the   *)
(* index beside two that move the version, the vectors beside two that     *)
(* rewrite the columns, one long streamed answer, two short turns of a     *)
(* user, and one of a user beside one of an agent.                         *)
(***************************************************************************)
EXTENDS Serving, Chat

CONSTANTS
  Alone,               \* the request that changes a skill beside the questions
  User, Other, Agent   \* the requests of the chat

VARIABLE focus

MCInit ==
  /\ Init /\ ChatInit
  /\ focus \in {"answers", "labels", "vectors", "stream", "thread", "agent"}

Does(w, ops) == writer'[w].op \in ops \/ writer'[w] = NoWriter \/ writer'[w] = writer[w]
Short == \A s \in Skills : skill'[s].ver <= 2

\* One request, and triggers that stay; no vector is asked for.
Questions ==
  /\ Next /\ Short /\ UNCHANGED <<model, chatVars>>
  /\ \A w \in Writers : (w = Alone /\ writer'[w].trigger = 0) \/ writer'[w] = writer[w]
  /\ \A j \in Jobs : job'[j].op # "reembed"

\* A request that leaves the wording as it is, beside the approval of a carve-out.
Labels ==
  /\ Next /\ UNCHANGED <<reader, chatVars>>
  /\ \A w \in Writers : writer'[w].trigger = 0 /\ writer'[w].text \in {0, 1}
  /\ \A w \in Writers : Does(w, IF w = Alone THEN {"approve", "write", "delete"} ELSE {"except"})
  /\ \A j \in Jobs : job'[j].op # "reembed"

\* A request that gives a rule beside one that gives a trigger, and no reindexing.
Vectors ==
  /\ Next /\ Short /\ UNCHANGED <<reader, unlabelled, chatVars>>
  /\ \A w \in Writers : Does(w, IF w = Alone THEN {"revise", "edit"} ELSE {"edit"})
  /\ \A w \in Writers : IF w = Alone THEN writer'[w].trigger = 0 ELSE writer'[w].text = 0
  /\ \A j \in Jobs : job'[j].op # "index"

Conversations(requests, length) ==
  /\ ChatNext
  /\ \A r \in Askers : IF r \in requests THEN Len(ask'[r].raw) <= length ELSE ask'[r] = ask[r]
  /\ UNCHANGED vars

MCNext ==
  /\ \/ focus = "answers" /\ Questions
     \/ focus = "labels" /\ Labels
     \/ focus = "vectors" /\ Vectors
     \/ focus = "stream" /\ Conversations({User}, MaxText) /\ ask'[User].to = Thread
     \/ focus = "thread" /\ Conversations({User, Other}, 1)
     \/ focus = "agent" /\ Conversations({User, Agent}, 1)
  /\ UNCHANGED focus

MCSpec == MCInit /\ [][MCNext]_<<vars, chatVars, focus>>
===============================================================================
