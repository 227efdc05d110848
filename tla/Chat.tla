--------------------------------- MODULE Chat ----------------------------------
(***************************************************************************)
(* Questions to the brain (modules/brain): a question is answered from the *)
(* cache or by a model whose JSON reply is parsed while it arrives, so     *)
(* that the text of a grounded answer is streamed to the browser; then the *)
(* question and the answer are stored in a conversation.  The four digits  *)
(* of a Unicode escape are one symbol here.                                *)
(***************************************************************************)
EXTENDS Integers, Sequences, FiniteSets

CONSTANTS
  Askers,      \* requests, each of one and the same question
  Agents,      \* those of them that come with an API key
  Thread,      \* a conversation of the user
  Foreign,     \* a conversation of somebody else, or none
  MaxText,     \* the bound on the symbols of a reply
  MaxPiece     \* the bound on the symbols that arrive at once

ASSUME ChatConstants == /\ Agents \subseteq Askers /\ Thread # Foreign
                        /\ MaxText \in Nat /\ MaxPiece \in Nat

VARIABLES
  ask,         \* ask[r]: a request
  messages,    \* the rows of brain_messages
  logged,      \* the requests with a row in skill_interactions
  remembered,  \* the cached answer, if any
  clock        \* the number of transactions begun

chatVars == <<ask, messages, logged, remembered, clock>>

-------------------------------------------------------------------------------
(***************************************************************************)
(* stream_parser.                                                          *)
(***************************************************************************)
Quote == "\""
High == "D83D"
Low == "DE00"
Symbols == {"u", "\\", Quote, High, Low}   \* "u" is also any other character
Pieces == UNION {[1..n -> Symbols] : n \in 1..MaxPiece}

Held == [text |-> <<>>, length |-> 0]

\* A high surrogate waits for six more characters, whatever they are.
Unicode(raw, i) ==
  LET n == Len(raw)
  IN CASE i + 2 > n -> Held
       [] i + 2 <= n /\ raw[i + 2] = High /\ i + 5 > n -> Held
       [] /\ i + 5 <= n /\ raw[i + 2] = High /\ raw[i + 3] = "\\"
          /\ raw[i + 4] = "u" /\ raw[i + 5] = Low -> [text |-> <<"pair">>, length |-> 6]
       [] OTHER -> [text |-> <<raw[i + 2]>>, length |-> 3]

\* A mutant: a backslash at the end of what has arrived is taken for itself.
Unheld(raw, i) ==
  IF raw[i] # "\\" \/ i + 1 > Len(raw) THEN [text |-> <<raw[i]>>, length |-> 1]
  ELSE IF raw[i + 1] = "u" THEN Unicode(raw, i)
       ELSE [text |-> <<raw[i + 1]>>, length |-> 2]

\* The next character of the answer and what it is written with; Held where the rest of
\* it has not arrived.
Character(raw, i) ==
  IF raw[i] # "\\" THEN [text |-> <<raw[i]>>, length |-> 1]
  ELSE IF i + 1 > Len(raw) THEN Held
  ELSE IF raw[i + 1] = "u" THEN Unicode(raw, i)
       ELSE [text |-> <<raw[i + 1]>>, length |-> 2]

\* What is decoded from i on, where that ends, and whether it ends with the answer;
\* rest[j] is that from j on.
ConsumeAt(raw, i, rest) ==
  IF i > Len(raw) THEN [text |-> <<>>, cursor |-> i, complete |-> FALSE]
  ELSE IF raw[i] = Quote THEN [text |-> <<>>, cursor |-> i + 1, complete |-> TRUE]
  ELSE LET c == Character(raw, i)
       IN IF c = Held THEN [text |-> <<>>, cursor |-> i, complete |-> FALSE]
          ELSE [rest[i + c.length] EXCEPT !.text = c.text \o @]

Consume(raw, i) ==
  LET from[j \in 1..(Len(raw) + 1)] == ConsumeAt(raw, j, from)
  IN from[i]

-------------------------------------------------------------------------------
NoReply == [trust |-> FALSE, text |-> <<"none">>]
Fresh == [phase |-> "idle", live |-> FALSE, to |-> Foreign, head |-> "unseen", raw |-> <<>>,
          cursor |-> 1, parts |-> <<>>, complete |-> FALSE, tokens |-> <<>>,
          core |-> NoReply, at |-> 0]

ChatTypeOK ==
  /\ \A r \in Askers :
       /\ ask[r].phase \in {"idle", "embedding", "writing", "judged", "ready", "storing", "done",
                            "failed"}
       /\ ask[r].head \in {"unseen", "grounded", "ungrounded"} /\ ask[r].live \in BOOLEAN
       /\ ask[r].cursor \in 1..(MaxText + MaxPiece + 1) /\ ask[r].complete \in BOOLEAN
       /\ ask[r].at \in 0..clock /\ ask[r].core.trust \in BOOLEAN
  /\ \A m \in messages : m.turn \in Askers /\ m.role \in {"user", "assistant"}
  /\ logged \subseteq Askers /\ remembered.trust \in BOOLEAN /\ clock \in Nat

ChatInit ==
  /\ ask = [r \in Askers |-> Fresh]
  /\ messages = {} /\ logged = {} /\ clock = 0
  /\ remembered = NoReply

\* query and start_stream; a request for a new conversation names itself.
Ask(r, live, to) ==
  /\ ask[r].phase = "idle" /\ to \in {Thread, Foreign, r}
  /\ ask' = [ask EXCEPT ![r] = [Fresh EXCEPT !.live = live, !.to = to,
       !.phase = IF remembered.trust THEN "ready" ELSE "embedding", !.core = remembered]]
  /\ UNCHANGED <<messages, logged, remembered, clock>>

\* _retrieve: nothing similar is an honest miss.
Look(r, found) ==
  /\ ask[r].phase = "embedding"
  /\ ask' = [ask EXCEPT ![r].phase = IF found THEN "writing" ELSE "judged"]
  /\ UNCHANGED <<messages, logged, remembered, clock>>

\* A grounded reply is an answer, every other an honest miss.
Core(grounded, text) == IF grounded THEN [trust |-> TRUE, text |-> text] ELSE NoReply

\* The whole reply at once.
Reply(r, grounded) ==
  /\ ask[r].phase = "writing" /\ ~ask[r].live
  /\ ask' = [ask EXCEPT ![r].phase = "judged",
                        ![r].core = Core(grounded, <<"u">>)]
  /\ UNCHANGED <<messages, logged, remembered, clock>>

\* A mutant: the verdict is looked at when the reply is whole.
Unjudged(a) == a.head # "unseen"

\* Tokens go out when the reply was called grounded.
Shown(a) == a.head = "grounded"

\* feed, and the token it makes; the first piece of the answer comes with the verdict.
Feed(r, verdict, piece) ==
  LET raw == ask[r].raw \o piece
      new == IF ask[r].complete THEN [text |-> <<>>, cursor |-> ask[r].cursor, complete |-> TRUE]
             ELSE Consume(raw, ask[r].cursor)
      a == [ask[r] EXCEPT !.raw = raw, !.cursor = new.cursor, !.complete = new.complete,
                          !.parts = @ \o new.text,
                          !.head = IF @ = "unseen" THEN verdict ELSE @]
  IN /\ ask[r].phase = "writing" /\ ask[r].live /\ Len(raw) <= MaxText
     /\ verdict \in {"grounded", "ungrounded"}
     /\ ask[r].head # "unseen" => verdict = ask[r].head
     /\ ask' = [ask EXCEPT ![r] = IF Shown(a) THEN [a EXCEPT !.tokens = @ \o new.text] ELSE a]
     /\ UNCHANGED <<messages, logged, remembered, clock>>

\* The stream ends; a reply without an answer has no verdict, and the answer may be cut.
EndReply(r) ==
  /\ ask[r].phase = "writing" /\ ask[r].live
  /\ ask' = [ask EXCEPT ![r].phase = "judged",
                        ![r].core = Core(ask[r].head = "grounded", ask[r].parts)]
  /\ UNCHANGED <<messages, logged, remembered, clock>>

\* Grounded answers are cached.
Remember(r) ==
  /\ ask[r].phase = "judged"
  /\ ask' = [ask EXCEPT ![r].phase = "ready"]
  /\ remembered' = IF ask[r].core.trust THEN ask[r].core ELSE remembered
  /\ UNCHANGED <<messages, logged, clock>>

Forget ==
  /\ remembered.trust /\ remembered' = NoReply
  /\ UNCHANGED <<ask, messages, logged, clock>>

\* _finalize begins its transaction; now() is this moment until the commit.
BeginTurn(r) ==
  /\ ask[r].phase = "ready"
  /\ clock' = clock + 1
  /\ ask' = [ask EXCEPT ![r].phase = "storing", ![r].at = clock + 1]
  /\ UNCHANGED <<messages, logged, remembered>>

\* A mutant: a row has the time at which it is inserted.
Clocked(r, role, text) ==
  [conversation |-> ask[r].to, turn |-> r, role |-> role, text |-> text,
   at |-> IF role = "user" THEN ask[r].at ELSE clock + 1]

Message(r, role, text) ==
  [conversation |-> ask[r].to, turn |-> r, role |-> role, text |-> text, at |-> ask[r].at]

\* _persist_turn: agents have no conversations, and others' are not to be seen.
CommitTurn(r) ==
  /\ ask[r].phase = "storing" /\ (r \in Agents \/ ask[r].to # Foreign)
  /\ logged' = logged \cup {r}
  /\ messages' = IF r \in Agents THEN messages
                 ELSE messages \cup {Message(r, "user", <<"question">>),
                                     Message(r, "assistant", ask[r].core.text)}
  /\ ask' = [ask EXCEPT ![r].phase = "done"]
  /\ UNCHANGED <<remembered, clock>>

\* The model fails, the browser leaves, or the conversation is not the user's.
FailAsk(r) ==
  /\ ask[r].phase \notin {"idle", "done", "failed"}
  /\ ask' = [ask EXCEPT ![r].phase = "failed"]
  /\ UNCHANGED <<messages, logged, remembered, clock>>

-------------------------------------------------------------------------------
ChatNext ==
  \/ Forget
  \/ \E r \in Askers :
       \/ EndReply(r) \/ Remember(r) \/ BeginTurn(r) \/ CommitTurn(r) \/ FailAsk(r)
       \/ \E live \in BOOLEAN, to \in {Thread, Foreign, r} : Ask(r, live, to)
       \/ \E yes \in BOOLEAN : Look(r, yes) \/ Reply(r, yes)
       \/ \E verdict \in {"grounded", "ungrounded"}, piece \in Pieces : Feed(r, verdict, piece)

ChatSpec == ChatInit /\ [][ChatNext]_chatVars

-------------------------------------------------------------------------------
\* However the reply is cut into pieces, in the middle of an escape or of a surrogate pair,
\* what has been decoded is what the whole of it decodes to.
PiecesDoNotShow ==
  \A r \in Askers : LET all == Consume(ask[r].raw, 1)
                    IN ask[r].parts = all.text /\ ask[r].complete = all.complete

\* Nothing that was shown while it arrived is taken back: an answer that a browser watched
\* arrive is the one that is stored and, until it is cleared or another one comes, cached;
\* a miss has shown nothing.
ShownIsStored ==
  \A r \in Askers :
    /\ ask[r].phase \in {"judged", "ready", "storing", "done"} /\ ask[r].tokens # <<>>
         => ask[r].core = [trust |-> TRUE, text |-> ask[r].tokens]
    /\ \A m \in messages : m.turn = r /\ m.role = "assistant" /\ ask[r].tokens # <<>>
         => m.text = ask[r].tokens

\* The orders in which list_messages may return a conversation: by created_at.
Replays(c) ==
  LET rows == {m \in messages : m.conversation = c}
      n == Cardinality(rows)
  IN {s \in [1..n -> rows] : /\ \A m \in rows : \E i \in 1..n : s[i] = m
                             /\ \A i, j \in 1..n : i < j => s[i].at <= s[j].at}

\* Turns that overlap do not mix: in every replay an answer is next to its question.
TurnsAreReplayedWhole ==
  \A c \in {Thread} \cup Askers : \A s \in Replays(c) : \A i, j \in DOMAIN s :
    s[i].turn = s[j].turn => i - j \in {-1, 0, 1}

\* "Every turn in conversation_id, oldest first (chat order)"
\* (modules/brain/repository.py:248): an answer follows its question.  Both rows of a turn
\* have the time at which their transaction began, and nothing else orders them.
ReplayIsChatOrder ==
  \A c \in {Thread} \cup Askers : \A s \in Replays(c) : \A i, j \in DOMAIN s :
    i < j /\ s[i].turn = s[j].turn => s[i].role = "user"
===============================================================================
