--------------------------------- MODULE Routes ---------------------------------
(***************************************************************************)
(* The routes of the API on tenant tables: who each lets in (the           *)
(* dependencies of its router, shared/middleware/authorize.py) and the     *)
(* statements its service then runs, transaction by transaction.           *)
(* What a service does between its transactions and what the rows hold is  *)
(* left to the modules of the services.                                    *)
(***************************************************************************)
EXTENDS Naturals, Sequences

CONSTANTS NoTenant     \* NULL: no workspace, no role

\* A statement on a table: what it turns the row into, and what the service does when
\* it matches no row: carry on, leave the rest of the transaction out, or raise.
Statement(cmd, table, miss) ==
  [cmd |-> cmd, table |-> table, miss |-> miss, retires |-> FALSE, skipped |-> FALSE]
Read(table) == Statement("select", table, "go")
Find(table) == Statement("select", table, "raise")
Put(table) == Statement("insert", table, "go")
Set(table) == Statement("update", table, "go")
Alter(table) == Statement("update", table, "raise")
Retire(table) == [Alter(table) EXCEPT !.retires = TRUE]
Drop(table) == Statement("delete", table, "go")
\* The rest of the transaction is about the row the statement changed.
IfSet(table) == Statement("update", table, "leave")
\* What the data decides whether to run.
Perhaps(s) == [s EXCEPT !.skipped = TRUE]
\* Not statements but tests the service makes on its way: that the caller owns the row
\* it has read, and that the caller is no API key.
Owned(table) == Statement("own", table, "raise")
IfPerson == Statement("person", "none", "leave")

\* The dependencies: a role of the hierarchy, a scope, a scope of API keys only.
Role(least) == [by |-> "role", name |-> least]
Scope(scope) == [by |-> "scope", name |-> scope]
BrainAccess(scope) == [by |-> "brain", name |-> scope]
SignedIn == [by |-> "none", name |-> NoTenant]

Rank(role) == IF role = "admin" THEN 3 ELSE IF role = "editor" THEN 2
              ELSE IF role = "viewer" THEN 1 ELSE 0

Admits(guard, auth) ==
  \/ guard.by = "none"
  \/ guard.by = "role" /\ Rank(auth.role) >= Rank(guard.name)
  \/ guard.by = "scope" /\ guard.name \in auth.scopes
  \/ guard.by = "brain" /\ auth.kind = "api_key" /\ guard.name \in auth.scopes
  \/ guard.by = "brain" /\ auth.kind = "jwt" /\ Rank(auth.role) >= Rank("viewer")

\* A route; the workspace is the caller's, or the one in the path, which has to be
\* the caller's.  people: the service turns API keys away.
Route(name, guard, blocks) ==
  [name |-> name, guard |-> guard, blocks |-> blocks, path |-> FALSE, people |-> FALSE]
InPath(route) == [route EXCEPT !.path = TRUE]
ForPeople(route) == [route EXCEPT !.people = TRUE]

SkillRoutes ==
  { Route("list skills", BrainAccess("brain:query"),
          << <<Read("skills"), Read("agent_interactions")>> >>),
    Route("skill stats", BrainAccess("brain:query"), << <<Read("skills")>> >>),
    Route("create skill", Role("admin"),
          << <<Put("skills"), Put("reviews"), Read("skills")>> >>),
    Route("search skills", BrainAccess("brain:query"),
          << <<Read("skills"), Put("agent_interactions"), Read("agent_interactions")>> >>),
    Route("export skills", Role("admin"), << <<Read("skills")>> >>),
    Route("get skill", BrainAccess("brain:query"), << <<Find("skills")>> >>),
    Route("update skill", Role("editor"), << <<Alter("skills")>> >>),
    Route("delete skill", Role("admin"), << <<Retire("skills")>> >>),
    Route("submit skill", Role("admin"),
          << <<Find("skills"), Alter("skills"), Read("reviews"), Perhaps(Put("reviews"))>> >>),
    Route("skill versions", BrainAccess("brain:query"),
          << <<Find("skills"), Read("skill_versions")>> >>),
    Route("report override", BrainAccess("skills:invoke"),
          << <<Find("agent_interactions"), Set("agent_interactions"), IfSet("skills"),
               Perhaps(Read("skills")), Perhaps(Put("reviews"))>> >>) }

\* A baseline version and its provider come with some kinds of review only.
Approval == <<Perhaps(Read("skill_versions")), Perhaps(Put("skill_versions")),
              Perhaps(Set("skills")), Alter("reviews")>>
Correction == << <<Find("reviews"), Find("skills")>>,
                 <<Find("reviews"), Find("skills"), Put("skill_versions"), Set("skills"),
                   Alter("reviews")>> >>
ReviewRoutes ==
  { Route("list reviews", Role("admin"), << <<Read("reviews")>> >>),
    Route("get review", Role("admin"), << <<Find("reviews")>> >>),
    Route("approve review", Role("admin"),
          << <<Find("reviews"), Read("skills")>>,
             <<Find("reviews"), Read("skills")>> \o Approval >>),
    Route("reject review", Role("admin"),
          << <<Find("reviews"), Perhaps(Read("skills")), Perhaps(Set("skills")),
               Alter("reviews")>> >>),
    Route("write correction", Role("admin"), Correction),
    Route("resolve contradiction", Role("admin"), << <<Find("reviews")>> >> \o Correction) }

\* Another transaction reads the agent before each that changes what it declares.
OwnAgent == <<Find("agent_definitions"), Owned("agent_definitions")>>
AgentRoutes ==
  { ForPeople(r) : r \in
    { Route("list agents", SignedIn, << <<Read("agent_definitions")>> >>),
      Route("create agent", Role("editor"), << <<Put("agent_definitions")>> >>),
      Route("get agent", SignedIn, << <<Find("agent_definitions")>> >>),
      Route("update agent", Role("editor"), << OwnAgent, <<Alter("agent_definitions")>> >>),
      Route("publish agent", Role("editor"), << <<Alter("agent_definitions")>> >>),
      Route("list connectors", SignedIn,
            << <<Find("agent_definitions")>>, <<Read("agent_connectors")>> >>),
      Route("add connector", Role("editor"),
            << OwnAgent, <<Read("agent_connectors")>>,
               <<Put("agent_connectors"), Set("agent_definitions")>> >>),
      Route("remove connector", Role("editor"),
            << OwnAgent, <<Read("agent_connectors")>>,
               <<Drop("agent_connectors"), Set("agent_definitions")>> >>) } }

\* What of the dossier is read depends on the match; a turn is stored for people only.
Retrieval ==
  << <<Read("skills")>>,
     <<Read("skills"), Perhaps(Read("reviews")), Perhaps(Read("skill_versions")),
       Perhaps(Read("users")), Read("brain_chunks")>> >>
Turn(conversation) ==
  <<Put("agent_interactions"), IfPerson, conversation, Put("brain_messages"),
    Put("brain_messages"), Set("brain_conversations")>>
BrainRoutes ==
  { Route("brain status", BrainAccess("brain:query"), << <<Read("skills")>> >>),
    Route("brain query", BrainAccess("brain:query"),
          Retrieval \o << Turn(Put("brain_conversations")) >>),
    Route("follow-up query", BrainAccess("brain:query"),
          Retrieval \o << Turn(Find("brain_conversations")) >>),
    ForPeople(Route("list conversations", BrainAccess("brain:query"),
          << <<Read("brain_conversations")>> >>)),
    ForPeople(Route("list messages", BrainAccess("brain:query"),
          << <<Find("brain_conversations"), Read("brain_messages")>> >>)) }

SourceRoutes ==
  { Route("list sources", Role("admin"),
          << <<Read("source_connections"), Read("source_events")>> >>),
    Route("source report", Role("admin"),
          << <<Find("source_connections"), Read("source_events")>> >>),
    Route("backfill source", Role("admin"),
          << <<Find("source_connections")>>,
             <<Read("sweeps"), Perhaps(Put("sweeps")),
               Perhaps(Set("source_connections"))>> >>),
    Route("disconnect source", Role("admin"),
          << <<Find("source_connections")>>,
             <<Set("webhook_subscriptions"), Drop("source_connections")>> >>),
    Route("list channels", Role("admin"),
          << <<Find("source_connections"), Read("source_channels")>> >>),
    Route("select channels", Role("admin"),
          << <<Find("source_connections"), Perhaps(Set("source_connections")),
               Put("source_channels"), Read("source_channels")>> >>) }

SweepRoutes ==
  { Route("start sweep", Role("admin"),
          << <<Read("sweeps"), Perhaps(Put("sweeps")),
               Perhaps(Set("source_connections"))>> >>),
    Route("active sweep", Role("admin"), << <<Read("sweeps")>> >>),
    Route("get sweep", Role("admin"), << <<Find("sweeps")>> >>) }

RunRoutes ==
  { Route("ingest run", Scope("runs:write"), << <<Put("agent_runs"), Read("agent_runs")>> >>) }

DecisionRoutes ==
  { Route("list decisions", Role("viewer"), << <<Read("decisions"), Read("users")>> >>),
    Route("get decision", Role("viewer"), << <<Find("decisions")>> >>) }

WorkspaceRoutes ==
  { InPath(Route("save onboarding", Role("admin"), << <<Set("workspaces")>> >>)),
    InPath(Route("get settings", SignedIn, << <<Find("workspaces")>> >>)),
    InPath(Route("update settings", Role("admin"), << <<Alter("workspaces")>> >>)) }

KeyRoutes ==
  { InPath(Route("list api keys", Role("admin"), << <<Read("api_keys")>> >>)),
    InPath(Route("create api key", Role("admin"), << <<Put("api_keys")>> >>)),
    InPath(Route("revoke api key", Role("admin"), << <<Alter("api_keys")>> >>)) }

MemberRoutes ==
  { InPath(Route("list members", SignedIn,
          << <<Read("workspace_members"), Read("users"), Find("workspaces")>> >>)),
    InPath(Route("invite member", Role("admin"),
          << <<Read("workspace_members"), Read("invitations"), Find("workspaces"),
               Put("invitations")>> >>)) }

DashboardRoutes ==
  { InPath(Route("overview", SignedIn,
          << <<Find("workspaces"), Read("users"), Read("decisions"), Read("skills"),
               Read("reviews"), Read("source_connections"), Read("brain_messages"),
               Read("source_channels"), Read("activity_events")>> >>)),
    InPath(Route("usage", SignedIn, << <<Read("agent_interactions"), Read("skills")>> >>)),
    InPath(Route("activity", SignedIn, << <<Read("activity_events")>> >>)) }

Routes ==
  SkillRoutes \cup ReviewRoutes \cup AgentRoutes \cup BrainRoutes \cup SourceRoutes
    \cup SweepRoutes \cup RunRoutes \cup DecisionRoutes \cup WorkspaceRoutes \cup KeyRoutes
    \cup MemberRoutes \cup DashboardRoutes

===============================================================================
