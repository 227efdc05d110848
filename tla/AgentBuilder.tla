------------------------------ MODULE AgentBuilder ------------------------------
(***************************************************************************)
(* The agent builder (modules/agents): an agent lives at Anthropic, which  *)
(* counts its versions, and is mirrored by a row of agent_definitions and  *)
(* the rows of agent_connectors.  A request reads the rows, calls          *)
(* Anthropic with no transaction open, and then stores what came back;     *)
(* requests overlap, and may fail between the call and the store.          *)
(***************************************************************************)
EXTENDS Naturals, FiniteSets

CONSTANTS
  Agents,      \* agents that are ever created
  Fields,      \* the runtime fields of an agent
  Nullable,    \* those of them a null may clear
  Servers,     \* names of connectors
  Calls,       \* requests under way at once
  MaxVersion   \* the bound on the versions of an agent

ASSUME BuilderConstants ==
  /\ MaxVersion \in Nat \ {0} /\ Agents # {} /\ Servers # {} /\ Nullable \subseteq Fields

VARIABLES
  remote,      \* remote[a]: the agent at Anthropic; version 0 before it is created
  local,       \* local[a]: the row of agent_definitions; version 0 when there is none
  connectors,  \* connectors[a]: the names in agent_connectors
  call,        \* call[c]: a request
  shown,       \* shown[a]: the versions the dashboard has seen in the row
  writer,      \* writer[a][f]: the version made by the last edit that gave field f a value
  unstored,    \* agents an edit of which Anthropic took and the row never will
  overtaken,   \* agents whose connectors were stored while an edit was not
  crossed,     \* agents connector changes of which overlapped
  halted,      \* agents a connector change of which failed after its call
  forced       \* agents an edit of which went unversioned over what its row did not have

builderVars == <<remote, local, connectors, call, shown, writer, unstored, overtaken, crossed,
                 halted, forced>>

\* A field's value is named by the version that gave it, and is 0 where it is null; so
\* is the base of an edit without a version.
Version == 0..MaxVersion
Runtime == [Fields -> Version]
Definition == [version : Version, fields : Runtime]
NoCall == [op |-> "none", phase |-> "idle", agent |-> CHOOSE a \in Agents : TRUE,
           base |-> 0, version |-> 0, current |-> [f \in Fields |-> 0], sent |-> {},
           nulls |-> {}, server |-> CHOOSE n \in Servers : TRUE, wanted |-> {}, gone |-> FALSE]

BuilderTypeOK ==
  /\ remote \in [Agents -> [version : Version, fields : Runtime, tools : SUBSET Servers]]
  /\ local \in [Agents -> Definition]
  /\ connectors \in [Agents -> SUBSET Servers]
  /\ call \in [Calls -> [op : {"none", "create", "edit", "add", "remove"},
                         phase : {"idle", "loaded", "called"}, agent : Agents,
                         base : Version, version : Version, current : Runtime,
                         sent : SUBSET Fields, nulls : SUBSET Fields, server : Servers,
                         wanted : SUBSET Servers, gone : BOOLEAN]]
  /\ shown \in [Agents -> SUBSET Version] /\ writer \in [Agents -> Runtime]
  /\ unstored \subseteq Agents /\ overtaken \subseteq Agents /\ crossed \subseteq Agents
  /\ halted \subseteq Agents /\ forced \subseteq Agents

BuilderInit ==
  /\ remote = [a \in Agents |-> [version |-> 0, fields |-> NoCall.current, tools |-> {}]]
  /\ local = [a \in Agents |-> [version |-> 0, fields |-> NoCall.current]]
  /\ connectors = [a \in Agents |-> {}]
  /\ call = [c \in Calls |-> NoCall]
  /\ shown = [a \in Agents |-> {}]
  /\ writer = [a \in Agents |-> NoCall.current]
  /\ unstored = {} /\ overtaken = {} /\ crossed = {} /\ halted = {}
  /\ forced = {}

\* Requests are the owner's, who alone may change an agent.
Mirrored(a) == local[a].version > 0
Finish(c) == call' = [call EXCEPT ![c] = NoCall]
Called(c, v) == call' = [call EXCEPT ![c].phase = "called", ![c].version = v]

\* What a store shows to the dashboard.
Show(a, v) == shown' = [shown EXCEPT ![a] = @ \cup {v}]

Changes(a) == {c \in Calls : call[c].op \in {"add", "remove"} /\ call[c].agent = a}
EditsUnderWay(a) == {c \in Calls : call[c].op = "edit" /\ call[c].phase = "called"
                                   /\ call[c].agent = a}

(***************************************************************************)
(* create_agent.                                                           *)
(***************************************************************************)
Created == [version |-> 1, fields |-> [f \in Fields |-> 1], tools |-> {}]

CallCreate(c, a) ==
  /\ call[c].phase = "idle" /\ remote[a].version = 0
  /\ remote' = [remote EXCEPT ![a] = Created]
  /\ writer' = [writer EXCEPT ![a] = [f \in Fields |-> 1]]
  /\ call' = [call EXCEPT ![c] = [NoCall EXCEPT !.op = "create", !.phase = "called",
                                                !.agent = a, !.version = 1]]
  /\ UNCHANGED <<local, connectors, shown, unstored, overtaken, crossed, halted, forced>>

StoreNew(c) ==
  LET a == call[c].agent
  IN /\ call[c].op = "create"
     /\ local' = [local EXCEPT ![a] = [version |-> 1, fields |-> [f \in Fields |-> 1]]]
     /\ Show(a, 1)
     /\ Finish(c)
     /\ UNCHANGED <<remote, connectors, writer, unstored, overtaken, crossed, halted, forced>>

(***************************************************************************)
(* update_agent.                                                           *)
(***************************************************************************)
\* _load.  The save carries the version the dashboard saw, or none; sent is empty when
\* it touches no runtime field.
LoadAgent(c, a, base, sent, nulls) ==
  /\ call[c].phase = "idle" /\ Mirrored(a) /\ base \in shown[a] \cup {0}
  /\ nulls \subseteq sent \cap Nullable
  /\ call' = [call EXCEPT ![c] = [NoCall EXCEPT !.op = "edit", !.agent = a, !.base = base,
       !.phase = IF sent = {} THEN "called" ELSE "loaded",
       !.version = local[a].version, !.current = local[a].fields, !.sent = sent,
       !.nulls = nulls]]
  /\ UNCHANGED <<remote, local, connectors, shown, writer, unstored, overtaken, crossed, halted,
                 forced>>

\* A mutant: the version is not passed on.
Unversioned(c) == TRUE

\* Anthropic answers a stale version with a conflict, and takes an edit without one.
Matches(c) == call[c].base \in {0, remote[call[c].agent].version}

\* What was sent, over the fields it is merged with.
Merged(c, old, v) ==
  [f \in Fields |-> IF f \in call[c].nulls THEN 0 ELSE IF f \in call[c].sent THEN v ELSE old[f]]

\* A field that is null is left out of the call, and stays as it was.
Applied(old, new) == [f \in Fields |-> IF new[f] = 0 THEN old[f] ELSE new[f]]

\* The fields that were not sent are the ones the row had; the tools are left alone.
Updated(c, v) ==
  [remote[call[c].agent] EXCEPT !.version = v,
                                !.fields = Applied(@, Merged(c, call[c].current, v))]

\* Without a version, over another than the row had.
Forces(c) == call[c].base = 0 /\ call[c].version # remote[call[c].agent].version

CallEdit(c) ==
  LET a == call[c].agent
      v == remote[a].version + 1
  IN /\ call[c].op = "edit" /\ call[c].phase = "loaded" /\ v <= MaxVersion
     /\ IF Matches(c)
        THEN /\ remote' = [remote EXCEPT ![a] = Updated(c, v)]
             /\ writer' = [writer EXCEPT ![a] =
                  [f \in Fields |-> IF f \in call[c].sent \ call[c].nulls THEN v ELSE @[f]]]
             /\ forced' = IF Forces(c) THEN forced \cup {a} ELSE forced
             /\ Called(c, v)
        ELSE Finish(c) /\ UNCHANGED <<remote, writer, forced>>
     /\ UNCHANGED <<local, connectors, shown, unstored, overtaken, crossed, halted>>

\* The version that was returned; that which was read, where nothing was called.
StoreEdit(c) ==
  LET a == call[c].agent
      v == call[c].version
  IN /\ call[c].op = "edit" /\ call[c].phase = "called"
     /\ local' = [local EXCEPT ![a] = [version |-> v, fields |-> Merged(c, @.fields, v)]]
     /\ Show(a, v)
     /\ Finish(c)
     /\ UNCHANGED <<remote, connectors, writer, unstored, overtaken, crossed, halted, forced>>

(***************************************************************************)
(* add_connector and remove_connector.                                     *)
(***************************************************************************)
\* A mutant: Anthropic is sent the one connector that is new.
Increment(names, op, n) == IF op = "add" THEN {n} ELSE names \ {n}

\* The whole set, as both arrays are replaced.
Wanted(names, op, n) == IF op = "add" THEN names \cup {n} ELSE names \ {n}

LoadConnectors(c, a, op, n) ==
  /\ call[c].phase = "idle" /\ Mirrored(a)
  /\ call' = [call EXCEPT ![c] = [NoCall EXCEPT !.op = op, !.phase = "loaded", !.agent = a,
                          !.server = n, !.wanted = Wanted(connectors[a], op, n)]]
  /\ crossed' = IF Changes(a) # {} THEN crossed \cup {a} ELSE crossed
  /\ UNCHANGED <<remote, local, connectors, shown, writer, unstored, overtaken, halted, forced>>

AddConnector(c, a, n) == n \notin connectors[a] /\ LoadConnectors(c, a, "add", n)
RemoveConnector(c, a, n) == n \in connectors[a] /\ LoadConnectors(c, a, "remove", n)

\* _push_tools sends no version.
PushTools(c) ==
  LET a == call[c].agent
      v == remote[a].version + 1
  IN /\ call[c].op \in {"add", "remove"} /\ call[c].phase = "loaded" /\ v <= MaxVersion
     /\ remote' = [remote EXCEPT ![a].version = v, ![a].tools = call[c].wanted]
     /\ Called(c, v)
     /\ UNCHANGED <<local, connectors, shown, writer, unstored, overtaken, crossed, halted, forced>>

\* The version that came back goes to the row with the connectors.
StoreVersion(c) ==
  LET a == call[c].agent
  IN /\ local' = [local EXCEPT ![a].version = call[c].version]
     /\ Show(a, call[c].version)
     /\ overtaken' = IF EditsUnderWay(a) # {} \/ a \in unstored
                     THEN overtaken \cup {a} ELSE overtaken

\* insert_connector: a name that another request has inserted meanwhile is a conflict.
NameTaken(c) == call[c].server \in connectors[call[c].agent]

StoreAdded(c) ==
  /\ call[c].op = "add" /\ call[c].phase = "called"
  /\ IF NameTaken(c) THEN UNCHANGED <<local, connectors, shown, overtaken>>
     ELSE /\ connectors' = [connectors EXCEPT ![call[c].agent] = @ \cup {call[c].server}]
          /\ StoreVersion(c)
  /\ Finish(c)
  /\ UNCHANGED <<remote, writer, unstored, crossed, halted, forced>>

\* A row is deleted by its id: the removals under way of the same row will find none,
\* whatever is inserted under its name.
StoreRemoved(c) ==
  LET a == call[c].agent
      n == call[c].server
      Same(d) == call[d].op = "remove" /\ call[d].agent = a /\ call[d].server = n
  IN /\ call[c].op = "remove" /\ call[c].phase = "called"
     /\ connectors' = IF call[c].gone THEN connectors
                      ELSE [connectors EXCEPT ![a] = @ \ {n}]
     /\ StoreVersion(c)
     /\ call' = [d \in Calls |-> IF d = c THEN NoCall
                                 ELSE IF Same(d) /\ ~call[c].gone
                                      THEN [call[d] EXCEPT !.gone = TRUE] ELSE call[d]]
     /\ UNCHANGED <<remote, writer, unstored, crossed, halted, forced>>

\* The call or the store fails, or the process dies.
FailCall(c) ==
  LET a == call[c].agent
  IN /\ call[c].phase # "idle"
     /\ Finish(c)
     /\ unstored' = IF c \in EditsUnderWay(a) THEN unstored \cup {a} ELSE unstored
     /\ halted' = IF c \in Changes(a) /\ call[c].phase = "called"
                  THEN halted \cup {a} ELSE halted
     /\ UNCHANGED <<remote, local, connectors, shown, writer, overtaken, crossed, forced>>

-------------------------------------------------------------------------------
BuilderNext ==
  \E c \in Calls :
    \/ StoreNew(c) \/ CallEdit(c) \/ StoreEdit(c) \/ PushTools(c) \/ StoreAdded(c)
    \/ StoreRemoved(c) \/ FailCall(c)
    \/ \E a \in Agents :
         \/ CallCreate(c, a)
         \/ \E base \in Version, sent, nulls \in SUBSET Fields :
              LoadAgent(c, a, base, sent, nulls)
         \/ \E n \in Servers : AddConnector(c, a, n) \/ RemoveConnector(c, a, n)

BuilderSpec == BuilderInit /\ [][BuilderNext]_builderVars

-------------------------------------------------------------------------------
\* No edit takes back a field it did not send: what Anthropic runs is what the last edit
\* that gave the field a value sent, unless an edit without a version went over one the
\* row did not have, or a connector change was stored while an edit that Anthropic had
\* taken was not in the row.
AcceptedEditsSurvive ==
  \A a \in Agents \ (overtaken \cup forced) : remote[a].fields = writer[a]

\* The agent runs with the connectors that are stored, when no change of them is under way
\* and none has overlapped another or failed half-way.
ConnectorsAreDeclared ==
  \A a \in Agents \ (crossed \cup halted) : Changes(a) = {} => remote[a].tools = connectors[a]
===============================================================================
