--------------------------------- MODULE Tenancy ---------------------------------
(***************************************************************************)
(* How a request reaches the rows of its workspace: the credential gives a *)
(* context, the route's guard lets it in, the service opens each of its    *)
(* transactions on a pooled connection of the restricted role and sets     *)
(* that context for it alone (shared/middleware/with_tenant.py), and the   *)
(* policies decide what each statement reaches.                            *)
(***************************************************************************)
EXTENDS Policies, Routes

CONSTANTS
  Tenants,     \* workspaces
  People,      \* users
  Visits,      \* requests under way at once
  Pool,        \* connections of the tenant engine
  KeyScopes,   \* the sets of scopes API keys are given
  Served,      \* the names of the routes requests are made to
  NoVisitor    \* nobody holds the connection

ASSUME TenancyConstants ==
  /\ NoTenant \notin Tenants \cup People \cup Roles
  /\ NoVisitor \notin Visits

VARIABLES
  pooled,      \* pooled[c]: who has the connection, and its transaction's settings
  visit,       \* visit[x]: a request
  todo,        \* todo[x]: what is left of its transactions
  met          \* met[x]: the statements it has run, each with its row and outcome

tenancyVars == <<pooled, visit, todo, met>>

\* _from_jwt and _from_api_key.  A user who has just signed up has no workspace.
SignIns ==
  [kind : {"jwt"}, user : People, ws : Tenants, role : Roles, scopes : {{}}]
    \cup [kind : {"jwt"}, user : People, ws : {NoTenant}, role : {NoTenant}, scopes : {{}}]
KeyHolders ==
  [kind : {"api_key"}, user : People, ws : Tenants, role : {"viewer"}, scopes : KeyScopes]
AuthContexts == SignIns \cup KeyHolders

\* The row a request is about, by the id it gives: any row there is.
TenantRows == [ws : Tenants, owner : People, live : BOOLEAN, shared : BOOLEAN]

NoContext == [ws |-> NoTenant, user |-> NoTenant, role |-> NoTenant]
IdleConnection == [by |-> NoVisitor, ctx |-> NoContext]
NoVisit ==
  [phase |-> "idle", auth |-> NoTenant, route |-> "none", ws |-> NoTenant, row |-> NoTenant]

CallRecords ==
  [phase : {"idle", "routed", "inside", "served", "refused", "failed"},
   auth : AuthContexts \cup {NoTenant}, route : Served \cup {"none"},
   ws : Tenants \cup {NoTenant}, row : TenantRows \cup {NoTenant}]
Contexts ==
  [ws : Tenants \cup {NoTenant}, user : People \cup {NoTenant}, role : Roles \cup {NoTenant}]
TenancyTypeOK ==
  /\ pooled \in [Pool -> [by : Visits \cup {NoVisitor}, ctx : Contexts]]
  /\ visit \in [Visits -> CallRecords]
  /\ DOMAIN todo = Visits /\ DOMAIN met = Visits

TenancyInit ==
  /\ pooled = [c \in Pool |-> IdleConnection]
  /\ visit = [x \in Visits |-> NoVisit]
  /\ todo = [x \in Visits |-> <<>>] /\ met = [x \in Visits |-> {}]

\* A mutant: the workspace of the path is taken at its word.
PathWorkspace(auth, w) == IF auth.ws = NoTenant THEN NoTenant ELSE w

\* assert_workspace_member: the caller's workspace, or nothing where it is another one.
AssertWorkspaceMember(auth, w) == IF w = auth.ws THEN auth.ws ELSE NoTenant
TenantFor(route, auth, w) ==
  IF route.path THEN AssertWorkspaceMember(auth, w) ELSE auth.ws

\* A request a guard turns away leaves no trace.
Arrive(x, auth, route, w, row) ==
  /\ visit[x].phase = "idle"
  /\ Admits(route.guard, auth)
  /\ route.people => auth.kind = "jwt"
  /\ TenantFor(route, auth, w) # NoTenant
  /\ visit' = [visit EXCEPT ![x] =
       [phase |-> "routed", auth |-> auth, route |-> route.name,
        ws |-> TenantFor(route, auth, w), row |-> row]]
  /\ todo' = [todo EXCEPT ![x] = route.blocks]
  /\ UNCHANGED <<pooled, met>>

\* run_in_tenant: set_config(..., true) in the transaction of the connection.
TenantContext(x) ==
  [ws |-> visit[x].ws, user |-> visit[x].auth.user, role |-> visit[x].auth.role]
OpenTenant(x, c) ==
  /\ visit[x].phase = "routed" /\ pooled[c].by = NoVisitor
  /\ pooled' = [pooled EXCEPT ![c] = [by |-> x, ctx |-> TenantContext(x)]]
  /\ visit' = [visit EXCEPT ![x].phase = "inside"]
  /\ UNCHANGED <<todo, met>>

\* The transaction ends, the settings with it, and the connection is given back.
GiveBack(x, c) ==
  /\ pooled[c].by = x
  /\ pooled' = [pooled EXCEPT ![c] = IdleConnection]

AtStatement(x) == visit[x].phase = "inside" /\ todo[x][1] # <<>>
Due(x) == Head(todo[x][1])
After(x) == <<Tail(todo[x][1])>> \o Tail(todo[x])

\* The row once the statement is done with it.
Turned(x, s) ==
  IF s.cmd = "insert"
  THEN [ws |-> visit[x].ws, owner |-> visit[x].auth.user, live |-> TRUE, shared |-> FALSE]
  ELSE [visit[x].row EXCEPT !.live = @ /\ ~s.retires]
Outcome(x, c, s) ==
  CASE s.cmd = "own" -> IF visit[x].row.owner = visit[x].auth.user THEN "done" ELSE "missed"
    [] s.cmd = "person" -> IF visit[x].auth.kind = "jwt" THEN "done" ELSE "missed"
    [] OTHER -> OutcomeOf(s.cmd, s.table, pooled[c].ctx, visit[x].row, Turned(x, s))
Run(x, c, s) ==
  [cmd |-> s.cmd, table |-> s.table, outcome |-> Outcome(x, c, s),
   row |-> IF s.cmd = "insert" THEN Turned(x, s) ELSE visit[x].row]
RunDue(x, c) == met' = [met EXCEPT ![x] = @ \cup {Run(x, c, Due(x))}]

\* A statement that did what it was for, or whose miss the service does not mind.
Execute(x, c) ==
  /\ AtStatement(x) /\ pooled[c].by = x
  /\ \/ Outcome(x, c, Due(x)) = "done"
     \/ Outcome(x, c, Due(x)) = "missed" /\ Due(x).miss = "go"
  /\ RunDue(x, c) /\ todo' = [todo EXCEPT ![x] = After(x)]
  /\ UNCHANGED <<pooled, visit>>

\* The rest of the transaction was about a row that is not there.
LeaveOut(x, c) ==
  /\ AtStatement(x) /\ pooled[c].by = x
  /\ Outcome(x, c, Due(x)) = "missed" /\ Due(x).miss = "leave"
  /\ RunDue(x, c) /\ todo' = [todo EXCEPT ![x] = <<<<>>>> \o Tail(@)]
  /\ UNCHANGED <<pooled, visit>>

\* NotFoundError and its like, or an error of the database: the transaction rolls back.
Raise(x, c) ==
  /\ AtStatement(x)
  /\ \/ Outcome(x, c, Due(x)) = "missed" /\ Due(x).miss = "raise"
     \/ Outcome(x, c, Due(x)) = "denied"
  /\ GiveBack(x, c) /\ RunDue(x, c)
  /\ visit' = [visit EXCEPT ![x].phase =
                 IF Outcome(x, c, Due(x)) = "denied" THEN "failed" ELSE "refused"]
  /\ UNCHANGED todo

\* The data does not ask for the statement.
PassOver(x) ==
  /\ AtStatement(x) /\ Due(x).skipped
  /\ todo' = [todo EXCEPT ![x] = After(x)]
  /\ UNCHANGED <<pooled, visit, met>>

\* session.commit(), the last thing each of these transactions does, or its end unwritten.
CommitTenant(x, c) ==
  /\ visit[x].phase = "inside" /\ todo[x][1] = <<>>
  /\ GiveBack(x, c)
  /\ todo' = [todo EXCEPT ![x] = Tail(@)]
  /\ visit' = [visit EXCEPT ![x].phase = IF Tail(todo[x]) = <<>> THEN "served" ELSE "routed"]
  /\ UNCHANGED met

Leave(x) ==
  /\ visit' = [visit EXCEPT ![x] = NoVisit]
  /\ todo' = [todo EXCEPT ![x] = <<>>] /\ met' = [met EXCEPT ![x] = {}]

\* The client is gone or the process is stopped: the transaction rolls back.
CancelCall(x, c) == visit[x].phase = "inside" /\ GiveBack(x, c) /\ Leave(x)

Respond(x) ==
  /\ visit[x].phase \in {"served", "refused", "failed"}
  /\ Leave(x) /\ UNCHANGED pooled

TenancyNext ==
  \E x \in Visits :
    \/ /\ visit[x].phase = "idle"
       /\ \E auth \in AuthContexts, w \in Tenants, row \in TenantRows :
            \E route \in {r \in Routes : r.name \in Served} : Arrive(x, auth, route, w, row)
    \/ \E c \in Pool :
         OpenTenant(x, c) \/ Execute(x, c) \/ LeaveOut(x, c) \/ Raise(x, c)
           \/ CommitTenant(x, c) \/ CancelCall(x, c)
    \/ PassOver(x) \/ Respond(x)

TenancySpec == TenancyInit /\ [][TenancyNext]_tenancyVars

(***************************************************************************)
(* Properties.                                                             *)
(***************************************************************************)

\* What a caller may read or change: rows of its workspace and its own row of users;
\* conversations are their user's alone, an agent is changed by its owner alone and
\* read by others once it is published.
Private == {"brain_conversations", "brain_messages"}
MayMeet(auth, m) ==
  /\ m.row.ws = auth.ws \/ (m.table = "users" /\ m.row.owner = auth.user)
  /\ m.table \in Private => m.row.owner = auth.user
  /\ m.table = "agent_definitions" =>
       m.row.owner = auth.user \/ (m.cmd # "insert" /\ m.row.shared)
  /\ m.table = "agent_definitions" /\ m.cmd = "update" => m.row.owner = auth.user

\* Whatever id a request gives and whatever workspace its path names, no statement of
\* it reaches a row its caller has no business with (the promise of the docstring of
\* shared/middleware/with_tenant.py; the context is set by transaction, on connections
\* that serve every workspace in turn).
OnlyOwnRowsMet ==
  \A x \in Visits : \A m \in met[x] :
    m.cmd \in Commands /\ m.outcome = "done" => MayMeet(visit[x].auth, m)

\* A request about a live row of the caller's workspace that the caller owns.
OnOwnRow(x) ==
  /\ visit[x].phase # "idle"
  /\ visit[x].row.ws = visit[x].auth.ws /\ visit[x].row.owner = visit[x].auth.user
  /\ visit[x].row.live
NothingMissed(x) == \A m \in met[x] : m.cmd \in Commands => m.outcome = "done"

\* Where the API lets in more roles than the policies do: the import health on the
\* overview is an admin's to see, and an override by a viewer finds no skill to change.
Narrower(x, m) ==
  \/ visit[x].route = "overview" /\ m.table = "source_connections"
  \/ visit[x].route = "report override" /\ m.cmd = "update" /\ m.table = "skills"

\* What a route's guard lets a caller do to its own rows, the policies let it do as
\* well, statement by statement: the guards of the routers and the policies of the
\* migrations are written in different places, and where they disagree the statement
\* matches nothing or fails although the request was admitted (as the missing INSERT
\* policies did that migration 0020 added).
AdmittedRequestsWork ==
  \A x \in Visits : OnOwnRow(x) =>
    \A m \in met[x] : m.cmd \in Commands => m.outcome = "done" \/ Narrower(x, m)

\* The override route's docstring (skills/router.py): a reported override drops the
\* skill's confidence.
OverrideReachesSkill ==
  \A x \in Visits : visit[x].route = "report override" /\ OnOwnRow(x) => NothingMissed(x)

===============================================================================
