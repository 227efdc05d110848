------------------------------ MODULE Connections ------------------------------
(***************************************************************************)
(* Connections of several workspaces to one account of a provider:         *)
(* SourcesService (modules/sources/service.py) connects and disconnects    *)
(* them, jobs and the channel picker refresh their tokens.  The providers  *)
(* told apart: github, whose App installation all workspaces share and     *)
(* whose tokens are minted from it; jira, which rotates the refresh token  *)
(* at every use; google, whose grant a disconnect revokes.                 *)
(***************************************************************************)
EXTENDS Naturals, FiniteSets

CONSTANTS
  Workspaces,
  Authorizations,       \* rows of oauth_states
  Procs,        \* requests and jobs under way at a time
  MaxToken,     \* the bound on the refresh tokens a provider issues to a workspace
  NoAuthorization

ASSUME ConnectionConstants ==
  MaxToken \in Nat \ {0} /\ NoAuthorization \notin Authorizations /\ Workspaces # {}

VARIABLES
  provider,
  oauth,        \* oauth[n]: an authorization, from its start to its end
  row,          \* row[w]: the source_connections row
  job,          \* job[p]: what process p is doing
  valid,        \* valid[w]: the newest refresh token issued, the only one accepted
  revoked,      \* the workspaces whose grant is revoked
  installed,    \* the App is installed on the account
  lost,         \* the workspaces whose newest token went with its holder, or whose
                \* reconnect overlapped the refresh of an older one
  raced,        \* those that connected while another disconnect was uninstalling, or
                \* whose own disconnect has uninstalled
  connects      \* connects[n]: the connections made from authorization n

vars == <<provider, oauth, row, job, valid, revoked, installed, lost, raced, connects>>

NoRow == [status |-> "absent", token |-> 0, stale |-> FALSE]
Idle == [op |-> "idle", step |-> "none", ws |-> CHOOSE w \in Workspaces : TRUE,
         token |-> 0, state |-> NoAuthorization, gone |-> FALSE]

TypeOK ==
  /\ provider \in {"github", "jira", "google"}
  /\ oauth \in [Authorizations -> [status: {"none", "live", "granted", "consumed", "expired"},
                           ws: Workspaces]]
  /\ row \in [Workspaces -> [status: {"absent", "connected", "error"},
                             token: 0..MaxToken, stale: BOOLEAN]]
  /\ job \in [Procs -> [op: {"idle", "callback", "disconnect", "sync", "picker"},
                        step: {"none", "read", "consumed", "holding", "counted", "done"},
                        ws: Workspaces, token: 0..MaxToken, state: Authorizations \cup {NoAuthorization}, gone: BOOLEAN]]
  /\ valid \in [Workspaces -> 0..MaxToken]
  /\ revoked \in SUBSET Workspaces /\ lost \in SUBSET Workspaces
  /\ raced \in SUBSET Workspaces
  /\ installed \in BOOLEAN
  /\ connects \in [Authorizations -> Nat]

Init ==
  /\ provider \in {"github", "jira", "google"}
  /\ oauth = [n \in Authorizations |-> [status |-> "none", ws |-> Idle.ws]]
  /\ row = [w \in Workspaces |-> NoRow]
  /\ job = [p \in Procs |-> Idle]
  /\ valid = [w \in Workspaces |-> 0]
  /\ revoked = {} /\ lost = {} /\ raced = {}
  /\ installed = FALSE
  /\ connects = [n \in Authorizations |-> 0]

Present(w) == row[w].status # "absent"
End(p) == job' = [job EXCEPT ![p] = Idle]

\* The UPDATE of a source_sync is not committed yet: it holds the lock of the row.
RowLocked(w) == \E p \in Procs : /\ job[p].op = "sync" /\ job[p].step = "holding"
                                /\ job[p].ws = w /\ ~job[p].gone

\* The row process p read is still there: a reconnect after a delete makes another one.
Mine(p) == Present(job[p].ws) /\ ~job[p].gone

(***************************************************************************)
(* The authorization.                                                      *)
(***************************************************************************)
\* start_authorization.
StartAuthorization(n, w) ==
  /\ oauth[n].status = "none"
  /\ oauth' = [oauth EXCEPT ![n] = [status |-> "live", ws |-> w]]
  /\ UNCHANGED <<provider, row, job, valid, revoked, installed, lost, raced, connects>>

\* The user consents on the provider's page, which installs the App.  A decline comes
\* back as a callback with an error, which reads the state and leaves it as it is.
Grant(n) ==
  /\ oauth[n].status = "live"
  /\ oauth' = [oauth EXCEPT ![n].status = "granted"]
  /\ installed' = (provider = "github")
  /\ UNCHANGED <<provider, row, job, valid, revoked, lost, raced, connects>>

ExpireState(n) ==
  /\ oauth[n].status \in {"live", "granted"}
  /\ oauth' = [oauth EXCEPT ![n].status = "expired"]
  /\ UNCHANGED <<provider, row, job, valid, revoked, installed, lost, raced, connects>>

\* consume_oauth_state: UPDATE ... WHERE consumed_at IS NULL AND expires_at > now.
Consumable(n) == oauth[n].status = "granted"

ConsumeState(p, n) ==
  /\ job[p].op = "idle" /\ Consumable(n)
  /\ oauth' = [oauth EXCEPT ![n].status = "consumed"]
  /\ job' = [job EXCEPT ![p] = [Idle EXCEPT !.op = "callback", !.step = "consumed",
                                            !.ws = oauth[n].ws, !.state = n]]
  /\ UNCHANGED <<provider, row, valid, revoked, installed, lost, raced, connects>>

\* What the provider answers to a code or a refresh: a token newer than every other
\* where it rotates them, a token of the installation or the grant elsewhere.
NewToken(w) == IF provider = "jira" THEN valid[w] + 1 ELSE 1

\* The processes that hold a token of w they have not stored.
Holding(w) == {p \in Procs : job[p].step = "holding" /\ job[p].ws = w}

\* exchange_code: GitHub mints from the installation, which must be there.
Exchange(p) ==
  LET w == job[p].ws
  IN /\ job[p].op = "callback" /\ job[p].step = "consumed"
     /\ valid[w] < MaxToken
     /\ provider = "github" => installed
     /\ valid' = [valid EXCEPT ![w] = NewToken(w)]
     /\ revoked' = revoked \ {w}
     /\ lost' = IF Holding(w) = {} THEN lost \ {w} ELSE lost \cup {w}
     /\ job' = [job EXCEPT ![p].step = "holding", ![p].token = NewToken(w)]
     /\ UNCHANGED <<provider, oauth, row, installed, raced, connects>>

\* The processes whose disconnect has found no other connection of the account.
Uninstalling == {p \in Procs : job[p].op = "disconnect" /\ job[p].step = "counted"}

\* upsert_connection, which waits for the lock of a row that is there.
Upsert(p) ==
  LET w == job[p].ws
  IN /\ job[p].op = "callback" /\ job[p].step = "holding" /\ ~RowLocked(w)
     /\ row' = [row EXCEPT ![w] = [status |-> "connected", token |-> job[p].token,
                                   stale |-> FALSE]]
     /\ raced' = CASE Uninstalling # {} -> raced \cup {w}
                   [] Uninstalling = {} /\ installed -> raced \ {w}
                   [] OTHER -> raced
     /\ connects' = [connects EXCEPT ![job[p].state] = @ + 1]
     /\ End(p)
     /\ UNCHANGED <<provider, oauth, valid, revoked, installed, lost>>

(***************************************************************************)
(* disconnect.                                                             *)
(***************************************************************************)
\* The secrets are read in a transaction of their own.
ReadSecrets(p, w) ==
  /\ job[p].op = "idle" /\ Present(w)
  /\ job' = [job EXCEPT ![p] = [Idle EXCEPT !.op = "disconnect", !.step = "read", !.ws = w]]
  /\ UNCHANGED <<provider, oauth, row, valid, revoked, installed, lost, raced, connects>>

\* A mutant: the count runs in the session of the tenant, which sees no other workspace.
TenantOthers(w) == {}

\* count_other_connections_for_account, on the privileged session.
Others(w) == {v \in Workspaces \ {w} : Present(v)}

\* The revocation, and where the provider has an installation the count; a failure of
\* either changes nothing here.
Revoke(p) ==
  LET w == job[p].ws
  IN /\ job[p].op = "disconnect" /\ job[p].step = "read"
     /\ revoked' = IF provider = "google" THEN revoked \cup {w} ELSE revoked
     /\ job' = [job EXCEPT ![p].step = IF provider = "github" /\ Others(w) = {}
                                       THEN "counted" ELSE "done"]
     /\ UNCHANGED <<provider, oauth, row, valid, installed, lost, raced, connects>>

\* uninstall, or its failure, which is swallowed.  A callback that has exchanged its
\* code already will store a token of the installation that goes.
Uninstall(p) ==
  /\ job[p].op = "disconnect" /\ job[p].step = "counted"
  /\ installed' \in {FALSE, installed}
  /\ raced' = raced \cup {job[p].ws}
              \cup {w \in Workspaces : \E q \in Holding(w) : job[q].op = "callback"}
  /\ job' = [job EXCEPT ![p].step = "done"]
  /\ UNCHANGED <<provider, oauth, row, valid, revoked, lost, connects>>

\* delete_connection, by the id that was read.
Delete(p) ==
  LET w == job[p].ws
  IN /\ job[p].op = "disconnect" /\ job[p].step = "done" /\ ~RowLocked(w)
     /\ IF Mine(p)
        THEN /\ row' = [row EXCEPT ![w] = NoRow]
             /\ job' = [q \in Procs |->
                  CASE q = p -> Idle
                    [] q # p /\ job[q].ws = w /\ job[q].op \in {"disconnect", "sync", "picker"}
                         -> [job[q] EXCEPT !.gone = TRUE]
                    [] OTHER -> job[q]]
        ELSE End(p) /\ UNCHANGED row
     /\ UNCHANGED <<provider, oauth, valid, revoked, installed, lost, raced, connects>>

(***************************************************************************)
(* Tokens.                                                                 *)
(***************************************************************************)
\* The access token comes within _REFRESH_SKEW of its expiry.
Age(w) ==
  /\ Present(w) /\ ~row[w].stale
  /\ row' = [row EXCEPT ![w].stale = TRUE]
  /\ UNCHANGED <<provider, oauth, job, valid, revoked, installed, lost, raced, connects>>

\* source_sync reads the row in the transaction it commits at its end; the picker of
\* the channels reads, refreshes and stores in three steps.
ReadToken(p, op, w) ==
  /\ job[p].op = "idle" /\ Present(w) /\ row[w].stale
  /\ job' = [job EXCEPT ![p] = [Idle EXCEPT !.op = op, !.step = "read", !.ws = w,
                                            !.token = row[w].token]]
  /\ UNCHANGED <<provider, oauth, row, valid, revoked, installed, lost, raced, connects>>

Refreshing(p) == job[p].op \in {"sync", "picker"} /\ job[p].step = "read"

Accepted(p) ==
  CASE provider = "github" -> installed
    [] provider = "jira" -> job[p].token = valid[job[p].ws]
    [] provider = "google" -> job[p].ws \notin revoked

\* integration.refresh; a sync's UPDATE follows at once and waits for the lock of the row.
Refresh(p) ==
  LET w == job[p].ws
  IN /\ Refreshing(p) /\ Accepted(p)
     /\ valid[w] < MaxToken
     /\ job[p].op = "sync" => ~RowLocked(w)
     /\ valid' = [valid EXCEPT ![w] = NewToken(w)]
     /\ job' = [job EXCEPT ![p].step = "holding", ![p].token = NewToken(w)]
     /\ UNCHANGED <<provider, oauth, row, revoked, installed, lost, raced, connects>>

\* A refresh that is refused: where the answer is a 401 or a 403 a sync marks the
\* connection broken, and waits for the lock of the row to do so.
RefreshFails(p) ==
  LET w == job[p].ws
  IN /\ Refreshing(p) /\ ~Accepted(p)
     /\ \/ /\ job[p].op = "sync" /\ provider = "jira" /\ Mine(p) /\ ~RowLocked(w)
           /\ row' = [row EXCEPT ![w].status = "error"]
        \/ UNCHANGED row
     /\ End(p)
     /\ UNCHANGED <<provider, oauth, valid, revoked, installed, lost, raced, connects>>

\* A mutant: the rotated refresh token is not written.
OldToken(p) == row[job[p].ws].token

\* refresh_token_enc = COALESCE(new, old).
Stored(p) == job[p].token

\* update_tokens, where the row is still there: the last step of the picker, and the
\* commit of a sync, which leaves the connection connected.
StoreToken(p) ==
  LET w == job[p].ws
  IN /\ job[p].op \in {"sync", "picker"} /\ job[p].step = "holding"
     /\ job[p].op = "picker" => ~RowLocked(w)
     /\ IF Mine(p)
        THEN row' = [row EXCEPT ![w] =
                  [status |-> IF job[p].op = "sync" THEN "connected" ELSE @.status,
                   token |-> Stored(p), stale |-> FALSE]]
        ELSE UNCHANGED row
     /\ End(p)
     /\ UNCHANGED <<provider, oauth, valid, revoked, installed, lost, raced, connects>>

\* The process dies, or the transaction of a sync is rolled back: a token it alone
\* holds is gone.
Die(p) ==
  LET w == job[p].ws
  IN /\ job[p].op # "idle"
     /\ lost' = IF p \in Holding(w) /\ job[p].token = valid[w] THEN lost \cup {w} ELSE lost
     /\ End(p)
     /\ UNCHANGED <<provider, oauth, row, valid, revoked, installed, raced, connects>>

-------------------------------------------------------------------------------
Next ==
  \/ \E n \in Authorizations : \/ Grant(n) \/ ExpireState(n)
                       \/ \E w \in Workspaces : StartAuthorization(n, w)
                       \/ \E p \in Procs : ConsumeState(p, n)
  \/ \E p \in Procs :
       \/ Exchange(p) \/ Upsert(p) \/ Revoke(p) \/ Uninstall(p) \/ Delete(p)
       \/ Refresh(p) \/ RefreshFails(p) \/ StoreToken(p) \/ Die(p)
       \/ \E w \in Workspaces :
            ReadSecrets(p, w) \/ \E op \in {"sync", "picker"} : ReadToken(p, op, w)
  \/ \E w \in Workspaces : Age(w)

Spec == Init /\ [][Next]_vars

-------------------------------------------------------------------------------
\* The newest refresh token of a connected workspace is in its row or one process is about
\* to store it: overlapping refreshes, disconnects and callbacks do not lose it, save when
\* its holder dies or a reconnect overlaps a refresh.
NewestTokenIsKept ==
  provider = "jira" => \A w \in Workspaces : Present(w) =>
    \/ row[w].token = valid[w] \/ w \in lost
    \/ Cardinality({p \in Holding(w) : job[p].token = valid[w]}) = 1

\* A disconnect does not uninstall the App under another workspace, unless that one
\* connected while the disconnect was between its count and the removal.
InstalledWhileConnected ==
  provider = "github" => \A w \in Workspaces : Present(w) => installed \/ w \in raced

\* An authorization makes one connection at most, however often its callback comes.
OneConnectPerState == \A n \in Authorizations : connects[n] <= 1
===============================================================================
