------------------------------- MODULE SourceSync ------------------------------
(***************************************************************************)
(* Runs of jobs/tasks/source_sync.py over one connection with a timestamp  *)
(* for a cursor.  A run reads the row, lists the containers, reads them    *)
(* one after another while items appear in them, and stores what it got    *)
(* and the next cursor in one transaction.  The cron, a sweep, a retry and *)
(* a webhook start runs without regard for each other.                     *)
(***************************************************************************)
EXTENDS Connectors, FiniteSets

CONSTANTS
  Items,        \* versions of messages, issues, pages and tickets
  Containers,
  Home,         \* Home[i]: the container item i appears in
  Runs,         \* concurrent executions of source_sync
  MaxTime       \* the bound on the provider's clock

ASSUME SyncConstants ==
  /\ Home \in [Items -> Containers]
  /\ MaxTime \in Nat \ {0}

VARIABLES
  provider,     \* the connector of this connection
  now,          \* the provider's clock
  at,           \* at[i]: when item i appeared, 0 while it has not
  stored,       \* the items with a source_events row
  conn,         \* the source_connections row: its status and its last_synced_at
  selected,     \* the containers the picker leaves to be read
  sync,         \* sync[r]: what run r holds in memory
  overlooked    \* items that the cursor passed after they escaped the run

vars == <<provider, now, at, stored, conn, selected, sync, overlooked>>

Connection == [status: {"absent", "connected", "error"}, cursor: 0..MaxTime]
NoConnection == [status |-> "absent", cursor |-> 0]
NoSync == [phase |-> "idle", from |-> 0, todo |-> {}, got |-> {}, newest |-> 0,
           held |-> FALSE, missed |-> {}]
SyncRun == [phase: {"idle", "fetching"}, from: 0..MaxTime, todo: SUBSET Containers,
            got: SUBSET Items, newest: 0..MaxTime, held: BOOLEAN,
            missed: SUBSET Items]

TypeOK ==
  /\ provider \in Providers
  /\ now \in 1..MaxTime
  /\ at \in [Items -> 0..MaxTime]
  /\ stored \in SUBSET Items
  /\ conn \in Connection
  /\ selected \in SUBSET Containers
  /\ sync \in [Runs -> SyncRun]
  /\ overlooked \in SUBSET Items

Init ==
  /\ provider \in Providers
  /\ now = 1
  /\ at = [i \in Items |-> 0]
  /\ stored = {}
  /\ conn = [status |-> "connected", cursor |-> 0]
  /\ selected = Containers
  /\ sync = [r \in Runs |-> NoSync]
  /\ overlooked = {}

Appeared == {i \in Items : at[i] # 0}

\* The query of a run that starts at the cursor no longer returns i.
Passed(i, cursor) == ~Since(provider, cursor, at[i])

(***************************************************************************)
(* The provider.                                                           *)
(***************************************************************************)
Tick ==
  /\ now < MaxTime
  /\ now' = now + 1
  /\ UNCHANGED <<provider, at, stored, conn, selected, sync, overlooked>>

\* An item that appears in a container a run is done with, or at a time the run's
\* query leaves out, escapes the run.
Escapes(i, r) ==
  /\ sync[r].phase = "fetching"
  /\ \/ Home[i] \notin sync[r].todo
     \/ ~Since(provider, sync[r].from, now)

Publish(i) ==
  /\ at[i] = 0
  /\ at' = [at EXCEPT ![i] = now]
  /\ sync' = [r \in Runs |->
                IF Escapes(i, r) THEN [sync[r] EXCEPT !.missed = @ \cup {i}]
                ELSE sync[r]]
  /\ overlooked' = IF Since(provider, conn.cursor, now) THEN overlooked
                   ELSE overlooked \cup {i}
  /\ UNCHANGED <<provider, now, stored, conn, selected>>

\* A webhook stores its event and leaves the cursor alone; it may come at any time
\* or never.
Deliver(i) ==
  /\ provider \in Pushed /\ conn.status # "absent"
  /\ i \in Appeared \ stored
  /\ stored' = stored \cup {i}
  /\ UNCHANGED <<provider, now, at, conn, selected, sync, overlooked>>

(***************************************************************************)
(* A run of source_sync.                                                   *)
(***************************************************************************)
\* The containers a run reads: the selection, where the connector honours it.
Scope == IF provider \in Picks THEN selected ELSE Containers

Fetched(r, C) ==
  {i \in Appeared : Home[i] \in C /\ Since(provider, sync[r].from, at[i])}

EndRun(r) == sync' = [sync EXCEPT ![r] = NoSync]

\* mark_error: a transient failure leaves the status alone.
MarkError(outcome) ==
  conn' = IF outcome = "broken" THEN [conn EXCEPT !.status = "error"] ELSE conn

\* get_sync_state, the selection and the listing of the containers, which may hold
\* them all or end the run.  A run starts from the status "error" too: its job was
\* queued before, or is tried again.
BeginSync(r, answer) ==
  LET outcome == Listed(provider, answer)
  IN /\ sync[r].phase = "idle" /\ conn.status # "absent"
     /\ IF outcome \in {"items", "hold"}
        THEN /\ sync' = [sync EXCEPT ![r] =
                  [phase |-> "fetching", from |-> conn.cursor,
                   todo |-> IF outcome = "items" THEN Scope ELSE {},
                   got |-> {}, newest |-> conn.cursor, held |-> outcome = "hold",
                   missed |-> {i \in Appeared : Home[i] \notin Scope}]]
             /\ UNCHANGED conn
        ELSE MarkError(outcome) /\ UNCHANGED sync
     /\ UNCHANGED <<provider, now, at, stored, selected, overlooked>>

\* The containers of one query.
Queries(r) ==
  IF provider \in Whole THEN {sync[r].todo} ELSE {{c} : c \in sync[r].todo}

MaxOf(m, S) ==
  IF \E n \in S : n > m THEN CHOOSE n \in S : \A k \in S : k <= n ELSE m

\* The provider refused the container, now and for good as far as the code can tell.
Refused(answer) == Taken(provider, answer) = "skip" /\ answer \in {"refused", "other"}

Read(r, C, answer) ==
  LET outcome == Taken(provider, answer)
      new == Fetched(r, C)
  IN /\ C \in Queries(r) /\ C # {}
     /\ outcome \in {"items", "hold", "skip"}
     /\ sync' = [sync EXCEPT
          ![r].todo = @ \ C,
          ![r].got = IF outcome = "items" THEN @ \cup new ELSE @,
          ![r].newest = IF outcome = "items" THEN MaxOf(@, {at[i] : i \in new}) ELSE @,
          ![r].held = @ \/ outcome = "hold",
          ![r].missed = IF Refused(answer) THEN @ \cup new ELSE @]
     /\ UNCHANGED <<provider, now, at, stored, conn, selected, overlooked>>

\* The timezone of the user is not to be had and UTC stands in for it: the bound of
\* the query on a Jira site may come after the cursor.
ReadLate(r, C, bound) ==
  LET new == {i \in Fetched(r, C) : at[i] >= bound}
  IN /\ provider = "jira" /\ C \in Queries(r) /\ C # {}
     /\ sync[r].from # 0 /\ bound > sync[r].from
     /\ sync' = [sync EXCEPT
          ![r].todo = @ \ C,
          ![r].got = @ \cup new,
          ![r].newest = MaxOf(@, {at[i] : i \in new}),
          ![r].missed = @ \cup (Fetched(r, C) \ new)]
     /\ UNCHANGED <<provider, now, at, stored, conn, selected, overlooked>>

\* An answer about one container ends the whole run: nothing is stored yet.
FailRead(r, C, answer) ==
  LET outcome == Taken(provider, answer)
  IN /\ C \in Queries(r) /\ C # {}
     /\ outcome \in {"broken", "fail"}
     /\ EndRun(r)
     /\ MarkError(outcome)
     /\ UNCHANGED <<provider, now, at, stored, selected, overlooked>>

\* A mutant: incomplete is forgotten.
NextCursorUnheld(r) == sync[r].newest

\* The cursor fetch_since returns.
NextCursor(r) == IF sync[r].held THEN sync[r].from ELSE sync[r].newest

\* insert_event for every item and advance_sync, in one transaction: the cursor is
\* the run's own, and the status is connected whatever it was.
Commit(r) ==
  LET cursor == NextCursor(r)
  IN /\ sync[r].phase = "fetching" /\ sync[r].todo = {}
     /\ stored' = stored \cup sync[r].got
     /\ conn' = [status |-> "connected", cursor |-> cursor]
     /\ overlooked' = overlooked \cup {i \in sync[r].missed \ stored' : Passed(i, cursor)}
     /\ EndRun(r)
     /\ UNCHANGED <<provider, now, at, selected>>

\* An item that cannot be normalized: what was inserted before it is committed and
\* the cursor stays.
CommitPart(r, part) ==
  /\ sync[r].phase = "fetching" /\ sync[r].todo = {}
  /\ part \subseteq sync[r].got /\ part # sync[r].got
  /\ stored' = stored \cup part
  /\ EndRun(r)
  /\ UNCHANGED <<provider, now, at, conn, selected, overlooked>>

\* The worker dies, the job times out or the transaction is rolled back.
Kill(r) ==
  /\ sync[r].phase = "fetching"
  /\ EndRun(r)
  /\ UNCHANGED <<provider, now, at, stored, conn, selected, overlooked>>

(***************************************************************************)
(* The user.                                                               *)
(***************************************************************************)
\* DELETE of the row.  The runs under way find no row to update, and a foreign key
\* that refuses their events.
Disconnect ==
  /\ conn.status # "absent"
  /\ conn' = NoConnection
  /\ selected' = Containers
  /\ sync' = [r \in Runs |-> NoSync]
  /\ overlooked' = {}
  /\ UNCHANGED <<provider, now, at, stored>>

\* upsert_connection keeps the cursor of a row that is there.
Connect ==
  /\ conn.status # "connected"
  /\ conn' = [conn EXCEPT !.status = "connected"]
  /\ UNCHANGED <<provider, now, at, stored, selected, sync, overlooked>>

\* select_channels writes the selection and leaves the cursor where it is; with
\* nothing selected everything is read.
Select(S) ==
  /\ conn.status # "absent" /\ provider \in Picks
  /\ S # {} /\ S # selected
  /\ selected' = S
  /\ UNCHANGED <<provider, now, at, stored, conn, sync, overlooked>>

-------------------------------------------------------------------------------
Next ==
  \/ Tick
  \/ \E i \in Items : Publish(i) \/ Deliver(i)
  \/ \E r \in Runs :
       \/ Commit(r) \/ Kill(r)
       \/ \E answer \in Answers :
            \/ BeginSync(r, answer)
            \/ \E C \in Queries(r) : Read(r, C, answer) \/ FailRead(r, C, answer)
       \/ \E C \in Queries(r), bound \in 1..MaxTime : ReadLate(r, C, bound)
       \/ \E part \in SUBSET sync[r].got : CommitPart(r, part)
  \/ Disconnect \/ Connect
  \/ \E S \in SUBSET Containers : Select(S)

Spec == Init /\ [][Next]_vars

\* A step in which nothing fails and the user lets the connection be.
Calm ==
  \/ Tick \/ Connect
  \/ \E i \in Items : Publish(i) \/ Deliver(i)
  \/ \E r \in Runs :
       BeginSync(r, "ok") \/ Commit(r) \/ \E C \in Queries(r) : Read(r, C, "ok")

\* In the end nothing fails any more, the cron starts a run of a connected source, a
\* run goes on to its end and the user reconnects what is broken.
FairSpec ==
  /\ Spec
  /\ <>[][Calm]_vars
  /\ WF_vars(Connect)
  /\ \A r \in Runs :
       /\ WF_vars(conn.status = "connected" /\ BeginSync(r, "ok"))
       /\ WF_vars(\E C \in Queries(r) : Read(r, C, "ok"))
       /\ WF_vars(Commit(r))

-------------------------------------------------------------------------------
\* The cursor passes an item that is not stored only if the item escaped the run that
\* moved it: it appeared in a container that run had read already, or at a time its
\* query left out, or in a container that was refused or not selected.
\* Held containers, failures, kills, reconnects and runs that overlap lose nothing.
OnlyOverlookedAreLost ==
  \A i \in Appeared : Passed(i, conn.cursor) => i \in stored \cup overlooked

\* The export of Zendesk, one query with an inclusive bound, overlooks nothing.
ZendeskLosesNothing ==
  provider = "zendesk" =>
    \A i \in Appeared : Passed(i, conn.cursor) => i \in stored

\* Everything that appears is stored in the end, whatever fails in between, if it is
\* not overlooked and its container stays selected.
Wanted(i) == Home[i] \in Scope
ItemsAreStored ==
  \A i \in Items : i \in Appeared ~> i \in stored \cup overlooked \/ ~Wanted(i)
===============================================================================
