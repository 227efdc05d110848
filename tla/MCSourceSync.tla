----------------------------- MODULE MCSourceSync ------------------------------
(***************************************************************************)
(* The source sync for TLC.  Each behaviour is about one connection, with  *)
(* a timestamp or with a position of Google's for its cursor.              *)
(***************************************************************************)
EXTENDS SourceSync, GoogleFeed

CONSTANTS i1, i2, c1, c2

VARIABLE focus

TwoItems == [i \in {i1, i2} |-> IF i = i1 THEN c1 ELSE c2]

mcVars == <<vars, feedVars, focus>>

MCInit ==
  /\ Init /\ FeedInit
  /\ focus \in {"timestamp", "position"}
  /\ focus = "timestamp" => kind = "gmail"
  /\ focus = "position" => provider = "slack"

\* Files are interchangeable: they are added in their order.  One of them is refused or
\* deleted, or is both.
FeedBounds ==
  /\ \A i, j \in Files : i < j /\ change'[j] # 0 => change'[i] # 0 /\ change'[i] < change'[j]
  /\ Cardinality(gone' \cup hard') <= 1

MCNext ==
  /\ \/ focus = "timestamp" /\ Next /\ UNCHANGED feedVars
     \/ focus = "position" /\ FeedNext /\ FeedBounds /\ UNCHANGED vars
  /\ UNCHANGED focus

\* A weakly fair action of the part a behaviour is about.
InSync(A) == focus = "timestamp" /\ A /\ UNCHANGED <<feedVars, focus>>
InFeed(A) == focus = "position" /\ A /\ FeedBounds /\ UNCHANGED <<vars, focus>>

\* FairSpec and FairFeedSpec, each for its part.
MCFairness ==
  /\ <>[][Calm]_vars /\ <>[][Untroubled]_feedVars
  /\ WF_mcVars(InSync(Connect))
  /\ \A r \in Runs :
       /\ WF_mcVars(InSync(conn.status = "connected" /\ BeginSync(r, "ok")))
       /\ WF_mcVars(InSync(\E C \in Queries(r) : Read(r, C, "ok")))
       /\ WF_mcVars(InSync(Commit(r)))
  /\ WF_mcVars(InFeed(ConnectFeed)) /\ WF_mcVars(InFeed(DropHistory))
  /\ \A r \in Fetchers :
       /\ WF_mcVars(InFeed(feed.status = "connected" /\ BeginFetch(r)))
       /\ WF_mcVars(InFeed(ListPages(r) \/ ListChanges(r) \/ Settle(r) \/ CommitFetch(r)))

MCSpec == MCInit /\ [][MCNext]_mcVars /\ MCFairness

\* Whatever a connection delivers is stored in the end, with the exceptions that
\* ItemsAreStored names of a timestamp and FeedIsStored of a position.
ArrivalsAreStored == ItemsAreStored /\ FeedIsStored
===============================================================================
