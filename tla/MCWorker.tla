-------------------------------- MODULE MCWorker -------------------------------
(***************************************************************************)
(* What must come to an end, for TLC, over small constants: the sweeps,    *)
(* the gate of the runs and the API keys. The sweeps: one source, with an  *)
(* opaque cursor and its history in two chunks or with a timestamp, beside *)
(* crons and chains and no job run again; or both sources, in a sweep that *)
(* may be run again, and nothing beside it. The gate: two pushes, of one   *)
(* run or of two, of two traces of one task. Each behaviour is about one   *)
(* of them: they share no state.                                           *)
(***************************************************************************)
EXTENDS Sweeps, AgentRuns, Workspaces

CONSTANTS s1, s2, google, slack, a, b, one, two

SweepNames == {<<"onboarding-sweep", w>> : w \in SweepIds}
  \cup {<<kind, s>> : kind \in {"backfill-chain", "poll-sync"}, s \in Sources}
SweepTasks == SweepIds \cup (Sources \X (SweepIds \cup {NoSweep}))
TwoProviders == [s \in Sources |-> IF s = s1 THEN google ELSE slack]
TwoRanks == [p \in {google, slack} |-> IF p = slack THEN 0 ELSE 1]
TwoChunks == [s \in Sources |-> IF s = s1 THEN 2 ELSE 1]

MCRuns == {one, two}
MCPayloads == {a, b}
MCAgent == [p \in MCPayloads |-> "agent"]
MCSha == [p \in MCPayloads |-> p]
MCTask == [p \in MCPayloads |-> 1]
MCPasses == [p \in MCPayloads |-> TRUE]
MCDistance == [t \in {1} |-> [u \in {1} |-> 0]]

VARIABLE focus

mcVars == <<vars, runVars, workspaceVars, focus>>

\* The behaviours of the sweeps: those of one source, and those of both.
Imports == {"opaque", "timestamp", "both"}
Alone == focus \in {"opaque", "timestamp"}
About == CASE focus = "opaque" -> {s1}
           [] focus = "timestamp" -> {s2}
           [] focus = "both" -> {s1, s2}
           [] OTHER -> {}

\* No source is there but those a behaviour is about.
MCInit ==
  /\ QueueInit /\ RunsInit /\ WorkspaceInit
  /\ focus \in Imports \cup {"gates", "keys"}
  /\ conn = [s \in Sources |->
       [status |-> IF s \in About THEN "connected" ELSE "absent",
        cursor |-> 0, backfilled |-> FALSE]]
  /\ imported = [s \in Sources |-> {}] /\ hollow = {} /\ dropped = {}
  /\ sweep = [w \in SweepIds |-> NoRow] /\ request = [q \in Requests |-> NoRequest]
  /\ work = [j \in Named |-> NoWork]

\* A call asks for everything or for s2, and for what the sweep before it covers; s2
\* alone is disconnected.  A sync that dies is dropped, and so
\* is the sweep of one source.
SweepBounds ==
  /\ \A q \in Requests, w \in SweepIds :
       request'[q].phase # "idle" /\ sweep[w].status # "none"
         => request'[q].scope = sweep[w].scope
  /\ \A q \in Requests : request'[q].scope \in {{}, About \ {s1}}
  /\ conn'[s1].status = "absent" => conn[s1].status = "absent"
  /\ \A j \in SyncJobs : IF Alone THEN tries[j] = 1 => status'[j] # "queued"
                        ELSE status'[j] = "absent"
  /\ \A w \in SweepIds : Alone /\ tries[SweepJob(w)] = 1 => status'[SweepJob(w)] # "queued"

\* Redaction and the embedder fail for one of the payloads only.
Expected(row) == row.push = 0 \/ (row.embedded /\ row.body) \/ row.payload = a

\* Jobs are numbered in their order, and the first of them alone is interrupted.
GateBounds ==
  /\ \A j \in Jobs \ {1} : gate'[j].tries > 0 => gate'[j].phase # "queued"
  /\ run'[two].push <= 1 /\ \A z \in Runs : Expected(run'[z])
  /\ \A i, j \in Jobs : i < j /\ gate'[i].phase = "absent" => gate'[j].phase = "absent"

InSweeps(A) ==
  focus \in Imports /\ A /\ SweepBounds /\ UNCHANGED <<runVars, workspaceVars, focus>>
InGates(A) ==
  focus = "gates" /\ A /\ GateBounds /\ UNCHANGED <<vars, workspaceVars, focus>>
InKeys(A) == focus = "keys" /\ A /\ UNCHANGED <<vars, runVars, focus>>

MCNext == InSweeps(Next) \/ InGates(RunsNext) \/ InKeys(KeyNext)

\* The fairness of FairSpec, with one source that the crons are about, of RunsFairSpec and of WorkspaceFairness.
MCSpec ==
  /\ MCInit /\ [][MCNext]_mcVars
  /\ WF_mcVars(InSweeps(\E s \in Sources : Cron(s)))
  /\ \A Kind \in {{ChainJob(s) : s \in Sources}, {CronJob(s) : s \in Sources}} :
       WF_mcVars(InSweeps(\E j \in Kind : StartSync(j) \/ EndSync(j) \/ GiveUp(j) \/ Expire(j)))
  /\ SF_mcVars(InSweeps(\E j \in SyncJobs : CommitChunk(j)))
  /\ \A w \in SweepIds :
       WF_mcVars(InSweeps(\/ StartSweep(w) \/ GiveUp(SweepJob(w)) \/ CommitChunk(SweepJob(w))
                          \/ SyncWithoutRow(SweepJob(w)) \/ RecordSource(w) \/ EndSweep(w) \/ FinishSweep(w)
                          \/ \E s \in Sources : BeginSource(w, s)))
  /\ \A q \in Pushes : WF_mcVars(InGates((\E j \in Jobs : HandOff(q, j)) \/ LoseHandOff(q)))
  /\ \A j \in Jobs : WF_mcVars(InGates(GateStep(j) \/ DropGate(j)))
  /\ \A p \in Processes, k \in Keys :
       WF_mcVars(InKeys(StoreKey(p, k))) /\ WF_mcVars(InKeys(ForgetKey(p, k)))

\* The history of a source is imported where the crons tick.
HistoryComesIn == focus = "both" \/ HistoryIsImported
===============================================================================
