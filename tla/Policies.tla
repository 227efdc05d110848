-------------------------------- MODULE Policies --------------------------------
(***************************************************************************)
(* The row level security of the tenant tables, as the migrations create   *)
(* it.  A row is what the policies look at: the workspace it belongs to,   *)
(* the user it is about, whether it is soft deleted and whether its owner  *)
(* published it.  A context is the three settings of a transaction.        *)
(***************************************************************************)
Roles == {"admin", "editor", "viewer"}
Editors == {"admin", "editor"}
Commands == {"select", "insert", "update", "delete"}

\* A policy FOR cmds ON table, limited to roles; rows names its USING and kept its
\* WITH CHECK, which most policies write as the same predicate.
PolicyFor(table, cmds, roles, rows) ==
  [table |-> table, cmds |-> cmds, roles |-> roles, rows |-> rows, kept |-> rows]
ForAll(table, roles) == PolicyFor(table, Commands, roles, "any")
ForReaders(table, rows) == PolicyFor(table, {"select"}, Roles, rows)

\* current_workspace_id(), current_user_id(), current_member_role(): NULL where unset.
Meets(rows, ctx, row) ==
  \/ rows = "any" /\ row.ws = ctx.ws
  \/ rows = "live" /\ row.ws = ctx.ws /\ row.live
  \/ rows = "own" /\ row.ws = ctx.ws /\ row.owner = ctx.user
  \/ rows = "shown" /\ row.ws = ctx.ws /\ (row.shared \/ row.owner = ctx.user)
  \/ rows = "self" /\ row.owner = ctx.user
  \/ rows = "fellow" /\ (row.owner = ctx.user \/ row.ws = ctx.ws)

\* A row of users has the workspace of the membership it is seen through.
AccountPolicies ==
  { ForReaders("users", "fellow"),
    PolicyFor("users", {"update"}, Roles, "self"),
    ForReaders("workspaces", "live"),
    PolicyFor("workspaces", {"update"}, {"admin"}, "any"),
    ForReaders("workspace_members", "any"),
    PolicyFor("workspace_members", {"insert", "update"}, {"admin"}, "any"),
    ForAll("invitations", {"admin"}),
    ForReaders("workspace_settings", "any"),
    ForAll("workspace_settings", {"admin"}) }

SourcePolicies ==
  { ForAll("source_connections", {"admin"}),
    ForReaders("source_channels", "any"),
    ForAll("source_channels", {"admin"}),
    ForAll("webhook_subscriptions", {"admin"}) }

KnowledgePolicies ==
  { ForReaders("decisions", "live"),
    ForAll("decisions", Editors),
    ForReaders("decision_pins", "any"),
    PolicyFor("decision_pins", {"insert", "delete"}, Roles, "own"),
    ForReaders("reviews", "any"),
    PolicyFor("reviews", {"update"}, Editors, "any"),
    ForReaders("skills", "live"),
    ForAll("skills", Editors),
    ForReaders("skill_versions", "any") }

\* A message is its conversation's user's.
BrainPolicies ==
  { ForReaders("brain_builds", "any"),
    PolicyFor("brain_builds", {"insert"}, Editors, "any"),
    PolicyFor("brain_conversations", {"select", "insert", "update"}, Roles, "own"),
    PolicyFor("brain_messages", {"select", "insert"}, Roles, "own") }

SystemPolicies ==
  { ForReaders("activity_events", "any"),
    ForAll("api_keys", {"admin"}),
    ForReaders("usage_periods", "any"),
    PolicyFor("audit_log", {"select", "insert"}, Roles, "any"),
    ForAll("source_events", Roles),
    ForAll("sweeps", Roles),
    ForAll("agent_interactions", Roles) }

\* A mutant: versions have no policy to be added under.
WithoutVersions == { PolicyFor("reviews", {"insert"}, Roles, "any") }

\* Later migrations: who may add reviews and versions, and the tables that came after.
InsertPolicies ==
  { PolicyFor("reviews", {"insert"}, Roles, "any"),
    PolicyFor("skill_versions", {"insert"}, Editors, "any") }
ChunkPolicies == { ForAll("brain_chunks", Roles) }
RunPolicies == { ForAll("agent_runs", Roles) }
\* Every vault here is a user's; those of a workspace have none.
AgentPolicies ==
  { [PolicyFor("agent_definitions", Commands, Roles, "shown") EXCEPT !.kept = "own"],
    ForAll("agent_connectors", Roles), ForAll("agent_schedules", Roles),
    PolicyFor("agent_vaults", Commands, Roles, "own"),
    PolicyFor("agent_credentials", Commands, Roles, "own"),
    PolicyFor("agent_sessions", Commands, Roles, "own") }

RowPolicies ==
  AccountPolicies \cup SourcePolicies \cup KnowledgePolicies \cup BrainPolicies
    \cup SystemPolicies \cup InsertPolicies \cup ChunkPolicies \cup RunPolicies
    \cup AgentPolicies

\* Policies are permissive: one that applies is enough, none lets nothing through.
Applying(cmd, table, ctx) ==
  {p \in RowPolicies : p.table = table /\ cmd \in p.cmds /\ ctx.role \in p.roles}
Reaches(cmd, table, ctx, row) ==
  \E p \in Applying(cmd, table, ctx) : Meets(p.rows, ctx, row)
Keeps(cmd, table, ctx, row) ==
  \E p \in Applying(cmd, table, ctx) : Meets(p.kept, ctx, row)
Sees(table, ctx, row) == Reaches("select", table, ctx, row)

\* What becomes of a statement that addresses a row, which it turns into new.  A row
\* out of sight or out of reach is passed over; a row that must not become new is an
\* error, and so is one the statement could not see once it is new.
OutcomeOf(cmd, table, ctx, row, new) ==
  LET addressed == Sees(table, ctx, row) /\ Reaches(cmd, table, ctx, row)
      kept == Keeps(cmd, table, ctx, new) /\ (cmd = "update" => Sees(table, ctx, new))
  IN  CASE cmd # "insert" /\ ~addressed -> "missed"
        [] cmd = "insert" /\ ~kept -> "denied"
        [] cmd = "update" /\ addressed /\ ~kept -> "denied"
        [] OTHER -> "done"

===============================================================================
