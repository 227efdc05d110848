------------------------------- MODULE GoogleFeed ------------------------------
(***************************************************************************)
(* Runs of source_sync over a connection with an opaque cursor             *)
(* (integrations/gmail.py and google_drive.py): a position in the history  *)
(* of a mailbox or the changes of a drive, reached by a backfill that      *)
(* comes in chunks of bounded size.  An item is a message or a version of  *)
(* a file; all of them lie in the window of the backfill.                  *)
(***************************************************************************)
EXTENDS Connectors, FiniteSets

CONSTANTS
  Files,       \* messages, or versions of files
  Fetchers,    \* concurrent executions of source_sync
  Cap          \* the items of a chunk, _BACKFILL_MAX

ASSUME FeedConstants == Cap \in Nat \ {0} /\ IsFiniteSet(Files)

VARIABLES
  kind,        \* "gmail" or "drive"
  change,      \* change[i]: the position of item i in the history, 0 before it is there
  gone,        \* the items deleted, or trashed
  hard,        \* the files Drive refuses to export
  oldest,      \* Gmail has dropped the history before this position
  feed,        \* the source_connections row: its status and its sync_cursor
  fetch,       \* fetch[r]: what a run holds in memory
  kept         \* the items with a source_events row

feedVars == <<kind, change, gone, hard, oldest, feed, fetch, kept>>

There == {i \in Files : change[i] # 0}
Latest == Cardinality(There)
Positions == 0..Cardinality(Files)

\* A cursor: none, a continuation with the position to go on from and what is left to
\* list, or the position alone.
Cursors == [kind: {"none", "pages", "at"}, at: Positions, left: SUBSET Files]
NoCursor == [kind |-> "none", at |-> 0, left |-> Files]
Continuation(at, left) == [kind |-> "pages", at |-> at, left |-> left]
Incremental(at) == [kind |-> "at", at |-> at, left |-> {}]

NoFetch == [phase |-> "idle", whole |-> FALSE, at |-> 0, todo |-> {}, got |-> {}]

FeedTypeOK ==
  /\ kind \in {"gmail", "drive"} /\ change \in [Files -> Positions]
  /\ gone \subseteq There /\ hard \subseteq There /\ kept \subseteq Files
  /\ oldest \in 0..Latest
  /\ feed \in [status: {"absent", "connected", "error"}, cursor: Cursors]
  /\ fetch \in [Fetchers -> [phase: {"idle", "listing", "changes", "reading"}, whole: BOOLEAN,
                             at: Positions, todo: SUBSET Files, got: SUBSET Files]]

FeedInit ==
  /\ kind \in {"gmail", "drive"} /\ change = [i \in Files |-> 0]
  /\ gone = {} /\ hard = {} /\ kept = {} /\ oldest = 0
  /\ feed = [status |-> "connected", cursor |-> NoCursor]
  /\ fetch = [r \in Fetchers |-> NoFetch]

-------------------------------------------------------------------------------
(***************************************************************************)
(* Google.                                                                 *)
(***************************************************************************)
Add(i, refuses) ==
  /\ change[i] = 0 /\ (refuses => kind = "drive")
  /\ change' = [change EXCEPT ![i] = Latest + 1]
  /\ hard' = IF refuses THEN hard \cup {i} ELSE hard
  /\ UNCHANGED <<kind, gone, oldest, feed, fetch, kept>>

RemoveFile(i) ==
  /\ i \in There \ gone
  /\ gone' = gone \cup {i}
  /\ UNCHANGED <<kind, change, hard, oldest, feed, fetch, kept>>

DropHistory ==
  /\ kind = "gmail" /\ oldest < Latest
  /\ oldest' = Latest
  /\ UNCHANGED <<kind, change, gone, hard, feed, fetch, kept>>

(***************************************************************************)
(* A run.                                                                  *)
(***************************************************************************)
\* api_request tries a rate limit and a 5xx again, and raises an error of its own for a
\* limit, which breaks no connection.
GmailMessage(answer) == IF answer = "ok" THEN "items" ELSE Raised(answer)

\* _content: a file whose text cannot be had is stored without.
DriveContent(answer) ==
  CASE answer \in {"ok", "server", "other"} -> "items"
    [] answer \in {"auth", "refused", "limited"} -> Raised(answer)

\* The answers about item i: a message that is gone is a 404, a file that must not be
\* exported a 403.
Forced(i) ==
  CASE i \in gone -> {"other"}
    [] i \in hard \ gone -> {"refused"}
    [] OTHER -> {}
AboutItem(i) == IF Forced(i) = {} THEN Answers ELSE Forced(i)
TakenItem(answer) == IF kind = "gmail" THEN GmailMessage(answer) ELSE DriveContent(answer)

\* A position is taken before anything is listed.
BeginFetch(r) ==
  LET c == feed.cursor
  IN /\ fetch[r].phase = "idle" /\ feed.status # "absent"
     /\ fetch' = [fetch EXCEPT ![r] =
          [NoFetch EXCEPT !.phase = IF c.kind = "at" THEN "changes" ELSE "listing",
                          !.at = IF c.kind = "none" THEN Latest ELSE c.at,
                          !.todo = c.left, !.whole = c.kind # "at"]]
     /\ UNCHANGED <<kind, change, gone, hard, oldest, feed, kept>>

\* _bootstrap and _backfill: the pages that are left.
ListPages(r) ==
  /\ fetch[r].phase = "listing"
  /\ fetch' = [fetch EXCEPT ![r].phase = "reading",
                            ![r].todo = (@ \cap There) \ gone]
  /\ UNCHANGED <<kind, change, gone, hard, oldest, feed, kept>>

\* What the history or the changes since the cursor name: Gmail also what was deleted
\* meanwhile.
Changed(at) == {i \in There : change[i] > at /\ (kind = "gmail" \/ i \notin gone)}

Dropped(r) == fetch[r].at < oldest

\* A history that is gone is a 404, and everything is listed again.
ListChanges(r) ==
  /\ fetch[r].phase = "changes"
  /\ fetch' = [fetch EXCEPT ![r] =
       [NoFetch EXCEPT !.at = Latest, !.whole = Dropped(r),
          !.phase = IF Dropped(r) THEN "listing" ELSE "reading",
          !.todo = IF Dropped(r) THEN Files ELSE Changed(fetch[r].at)]]
  /\ UNCHANGED <<kind, change, gone, hard, oldest, feed, kept>>

\* The chunk is full.
Full(r) == fetch[r].whole /\ Cardinality(fetch[r].got) >= Cap

ReadItem(r, i, answer) ==
  /\ fetch[r].phase = "reading" /\ i \in fetch[r].todo /\ ~Full(r)
  /\ answer \in AboutItem(i) /\ TakenItem(answer) = "items"
  /\ fetch' = [fetch EXCEPT ![r].todo = @ \ {i}, ![r].got = @ \cup {i}]
  /\ UNCHANGED <<kind, change, gone, hard, oldest, feed, kept>>

\* The run ends with nothing stored; mark_error breaks the connection on a 401 or a 403.
FailItem(r, i, answer) ==
  /\ fetch[r].phase = "reading" /\ i \in fetch[r].todo /\ ~Full(r)
  /\ answer \in AboutItem(i) /\ TakenItem(answer) # "items"
  /\ fetch' = [fetch EXCEPT ![r] = NoFetch]
  /\ feed' = IF TakenItem(answer) = "broken" THEN [feed EXCEPT !.status = "error"] ELSE feed
  /\ UNCHANGED <<kind, change, gone, hard, oldest, kept>>

\* A mutant: the position is taken when the last page has been read.
TakenLast(r) == Latest

TakenFirst(r) == fetch[r].at

\* A mutant: the continuation is forgotten.
Restarted(r) ==
  IF fetch[r].todo # {} THEN NoCursor ELSE Incremental(TakenFirst(r))

\* The cursor fetch_since returns.
NextFeedCursor(r) ==
  IF fetch[r].todo # {} THEN Continuation(TakenFirst(r), fetch[r].todo)
  ELSE Incremental(TakenFirst(r))

\* insert_event for every item and advance_sync.
CommitFetch(r) ==
  /\ fetch[r].phase = "reading" /\ (fetch[r].todo = {} \/ Full(r))
  /\ kept' = kept \cup fetch[r].got
  /\ feed' = [status |-> "connected", cursor |-> NextFeedCursor(r)]
  /\ fetch' = [fetch EXCEPT ![r] = NoFetch]
  /\ UNCHANGED <<kind, change, gone, hard, oldest>>

\* A listing that fails, a worker that dies, a job that times out.
KillFetch(r, breaks) ==
  /\ fetch[r].phase # "idle"
  /\ fetch' = [fetch EXCEPT ![r] = NoFetch]
  /\ feed' = IF breaks THEN [feed EXCEPT !.status = "error"] ELSE feed
  /\ UNCHANGED <<kind, change, gone, hard, oldest, kept>>

\* The row goes; the runs under way have none to update.
DisconnectFeed ==
  /\ feed.status # "absent"
  /\ feed' = [status |-> "absent", cursor |-> NoCursor]
  /\ fetch' = [r \in Fetchers |-> NoFetch]
  /\ UNCHANGED <<kind, change, gone, hard, oldest, kept>>

\* upsert_connection keeps the cursor of a row that is there.
ConnectFeed ==
  /\ feed.status # "connected"
  /\ feed' = [feed EXCEPT !.status = "connected"]
  /\ UNCHANGED <<kind, change, gone, hard, oldest, fetch, kept>>

-------------------------------------------------------------------------------
FeedNext ==
  \/ DropHistory \/ DisconnectFeed \/ ConnectFeed
  \/ \E i \in Files : RemoveFile(i) \/ \E refuses \in BOOLEAN : Add(i, refuses)
  \/ \E r \in Fetchers :
       \/ BeginFetch(r) \/ ListPages(r) \/ ListChanges(r) \/ CommitFetch(r)
       \/ \E breaks \in BOOLEAN : KillFetch(r, breaks)
       \/ \E i \in Files, answer \in Answers : ReadItem(r, i, answer) \/ FailItem(r, i, answer)

FeedSpec == FeedInit /\ [][FeedNext]_feedVars

\* The item is read, or fails for a reason that does not go away.
Settle(r) == \E i \in Files, answer \in Answers :
  /\ answer \in Forced(i) \cup {"ok"}
  /\ ReadItem(r, i, answer) \/ FailItem(r, i, answer)

\* A step in which nothing fails that need not.
Untroubled ==
  \/ DropHistory \/ ConnectFeed
  \/ \E i \in Files : RemoveFile(i) \/ \E refuses \in BOOLEAN : Add(i, refuses)
  \/ \E r \in Fetchers :
       BeginFetch(r) \/ ListPages(r) \/ ListChanges(r) \/ CommitFetch(r) \/ Settle(r)

\* In the end no other failure comes, the cron starts the runs of a connected source and
\* they go on, the user reconnects what is broken, and Gmail drops old history.
FeedFairness ==
  /\ <>[][Untroubled]_feedVars
  /\ WF_feedVars(ConnectFeed) /\ WF_feedVars(DropHistory)
  /\ \A r \in Fetchers :
       /\ WF_feedVars(feed.status = "connected" /\ BeginFetch(r))
       /\ WF_feedVars(ListPages(r) \/ ListChanges(r) \/ Settle(r) \/ CommitFetch(r))

FairFeedSpec == FeedSpec /\ FeedFairness

-------------------------------------------------------------------------------
\* No cursor passes an item that is not stored: what came before its position is stored,
\* deleted, or left for the continuation of the backfill, however chunks, changes,
\* failures, dropped history and reconnects alternate and overlap.
FeedPassesNothing ==
  \A i \in There : change[i] <= feed.cursor.at => i \in kept \cup gone \cup feed.cursor.left

\* Every item is stored in the end, or deleted.  A message that is deleted before it was
\* read fails every run until Gmail drops the history that names it; a file that Drive
\* refuses to export breaks the connection each time it is read, and stays in the way.
InTheWay == hard \ (kept \cup gone)
FeedIsStored ==
  \A i \in Files : i \in There ~> i \in kept \cup gone \/ InTheWay # {}
===============================================================================
