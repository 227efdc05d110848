------------------------------- MODULE MCPlatform ------------------------------
(***************************************************************************)
(* The parts of the platform around the brain for TLC: sessions,           *)
(* invitations, the connections of sources, their push channels, the agent *)
(* builder, the tenancy of requests and the gate of the runs.  Each        *)
(* behaviour is about one of them: they share no state that changes, and   *)
(* of a connection the channels see only its start and its end.            *)
(* Tenancy: two workspaces, two users and one request after the other on   *)
(* one pooled connection, which serves both workspaces in turn; any role,  *)
(* any API key of no scope, of one and of all.  The gate: three pushes,    *)
(* two of one run and one of another, of two traces of one task.           *)
(***************************************************************************)
EXTENDS Sessions, Workspaces, Connections, AgentBuilder, Watches, Tenancy, AgentRuns

CONSTANTS push1, push2, one, two

AllScopes == {"brain:query", "skills:invoke", "runs:write"}
MCKeyScopes == {{}, AllScopes} \cup {{scope} : scope \in AllScopes}
EveryRoute == {route.name : route \in Routes}

MCRuns == {one, two}
MCPayloads == {push1, push2}
MCAgent == [p \in MCPayloads |-> "agent"]
MCSha == [p \in MCPayloads |-> p]
MCTask == [p \in MCPayloads |-> 1]
MCPasses == [p \in MCPayloads |-> TRUE]
MCDistance == [t \in {1} |-> [u \in {1} |-> 0]]

VARIABLE focus

mcVars ==
  <<sessionVars, workspaceVars, vars, builderVars, watchVars, tenancyVars, runVars, focus>>

MCInit ==
  /\ SessionInit /\ WorkspaceInit /\ Init /\ BuilderInit /\ WatchInit /\ TenancyInit
  /\ RunsInit
  /\ focus \in {"sessions", "invites", "connections", "builder", "edits", "watches", "tenancy",
                "gates"}
  /\ focus # "connections" => provider = "github"

\* The parts that a behaviour is not about.
BesideSessions ==
  <<workspaceVars, vars, builderVars, watchVars, tenancyVars, runVars, focus>>
BesideWorkspaces ==
  <<sessionVars, vars, builderVars, watchVars, tenancyVars, runVars, focus>>
BesideConnections ==
  <<sessionVars, workspaceVars, builderVars, watchVars, tenancyVars, runVars, focus>>
BesideBuilder ==
  <<sessionVars, workspaceVars, vars, watchVars, tenancyVars, runVars, focus>>
BesideWatches ==
  <<sessionVars, workspaceVars, vars, builderVars, tenancyVars, runVars, focus>>
BesideTenancy ==
  <<sessionVars, workspaceVars, vars, builderVars, watchVars, runVars, focus>>
BesideRuns ==
  <<sessionVars, workspaceVars, vars, builderVars, watchVars, tenancyVars, focus>>

\* Redaction and the embedder fail for one of the payloads only.
Expected(x) ==
  run'[x].push = 0 \/ (run'[x].embedded /\ run'[x].body) \/ run'[x].payload = push1

\* Two pushes of the first run, one of the second; jobs are numbered in their order, and
\* the first of them alone is interrupted.
GateBounds ==
  /\ \A j \in 2..3 : gate'[j].tries > 0 => gate'[j].phase # "queued"
  /\ run'[two].push <= 1 /\ \A x \in {one, two} : Expected(x)
  /\ \A j \in 2..3 : gate'[j - 1].phase = "absent" => gate'[j].phase = "absent"

\* The edits that matter to connector changes have a version and clear nothing; by
\* themselves they are of every kind.
BesideChanges == \A c \in Calls :
  call'[c].op = "edit" => call'[c].base # 0 /\ call'[c].nulls = {}
EditsAlone == \A c \in Calls :
  /\ call'[c].op \notin {"add", "remove"}
  /\ call'[c].op = "edit" => call'[c].sent # {}

\* Only the first channel may be given less than a day, or an end that is not told.
WatchBounds == brief' \cup untold' \subseteq {1} /\ brief' \cap untold' = {}

MCNext ==
  \/ focus = "sessions" /\ SessionNext /\ UNCHANGED BesideSessions
  \/ focus = "invites" /\ InviteNext /\ UNCHANGED BesideWorkspaces
  \/ focus = "connections" /\ Next /\ UNCHANGED BesideConnections
  \/ focus = "builder" /\ BuilderNext /\ BesideChanges /\ UNCHANGED BesideBuilder
  \/ focus = "edits" /\ BuilderNext /\ EditsAlone /\ UNCHANGED BesideBuilder
  \/ focus = "watches" /\ WatchNext /\ WatchBounds /\ UNCHANGED BesideWatches
  \/ focus = "tenancy" /\ TenancyNext /\ UNCHANGED BesideTenancy
  \/ focus = "gates" /\ RunsNext /\ GateBounds /\ UNCHANGED BesideRuns

MCSpec == MCInit /\ [][MCNext]_mcVars
================================================================================
