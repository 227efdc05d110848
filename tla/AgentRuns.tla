-------------------------------- MODULE AgentRuns -------------------------------
(***************************************************************************)
(* Agent runs and the run gate (modules/runs, jobs/tasks/gate_run.py).     *)
(* POST /runs upserts a run by its external id and hands it to a gate job; *)
(* gate jobs of different runs, and of one run pushed again, overlap: each *)
(* reads the run, looks for a duplicate, looks for a cluster and writes    *)
(* its verdict, in one READ COMMITTED transaction.                         *)
(***************************************************************************)
EXTENDS Naturals, FiniteSets

CONSTANTS
  Runs,        \* external ids
  Payloads,    \* the envelopes a harness may push
  AgentOf, ShaOf, TaskOf,   \* of a payload: agent_name, trace_digest.sha256, task
  Passes,      \* Passes[p]: what evaluate says of payload p
  Distance,    \* Distance[t][u]: the cosine distance of the embeddings of two tasks
  Threshold,   \* settings.run_cluster_threshold, as a distance
  Pushes,      \* pushes under way at once
  Jobs,        \* a bound on the gate jobs
  GateTries,   \* WorkerSettings.max_tries
  MaxPushes,   \* a bound on the pushes of one run
  NoRun, NoCluster

ASSUME RunsConstants ==
  /\ Passes \in [Payloads -> BOOLEAN]
  /\ GateTries \in Nat \ {0} /\ MaxPushes \in Nat \ {0} /\ Threshold \in Nat
  \* Tasks are told apart by their embeddings.
  /\ \A p, q \in Payloads :
       /\ Distance[TaskOf[p]][TaskOf[q]] \in Nat
       /\ Distance[TaskOf[p]][TaskOf[q]] = 0 <=> TaskOf[p] = TaskOf[q]
  /\ Payloads # {} /\ NoRun \notin Runs \cup Jobs /\ NoCluster \notin Jobs

VARIABLES
  run,         \* run[x]: the row of agent_runs
  pushing,     \* pushing[q]: the run a request has stored but not handed off
  gate,        \* gate[j]: a gate job
  judged,      \* judged[x]: the push the verdict on x is about
  unjudged,    \* runs a hand-off or a gate job of which came to nothing
  overlapped,  \* tasks of gates, and of the rows they wrote, that another verdict or push
               \* came in between
  outrun       \* runs whose verdict on a push was overwritten by that on an earlier one

runVars == <<run, pushing, gate, judged, unjudged, overlapped, outrun>>

Verdicts == {"none", "eligible", "ineligible"}

RunRow == [payload : Payloads, push : 0..MaxPushes, body : BOOLEAN, embedded : BOOLEAN,
        verdict : Verdicts, cluster : Jobs \cup {NoCluster}]

Phases == {"absent", "queued", "read", "unique", "placed", "over"}

\* seen: the row a gate has read; clear: nothing was written since; verdict, cluster:
\* what it is going to write.
Gate == [phase : Phases, run : Runs \cup {NoRun}, tries : 0..GateTries, seen : RunRow,
         clear : BOOLEAN, verdict : Verdicts, cluster : Jobs \cup {NoCluster}]

RunsTypeOK ==
  /\ run \in [Runs -> RunRow]
  /\ pushing \in [Pushes -> Runs \cup {NoRun}]
  /\ gate \in [Jobs -> Gate]
  /\ judged \in [Runs -> 0..MaxPushes]
  /\ unjudged \subseteq Runs
  /\ overlapped \subseteq {TaskOf[p] : p \in Payloads} /\ outrun \subseteq Runs

Exists(x) == run[x].push > 0

Blank == [payload |-> CHOOSE p \in Payloads : TRUE, push |-> 0, body |-> FALSE,
          embedded |-> FALSE, verdict |-> "none", cluster |-> NoCluster]

NoGate == [phase |-> "absent", run |-> NoRun, tries |-> 0, seen |-> Blank, clear |-> TRUE,
           verdict |-> "none", cluster |-> NoCluster]

Over == [NoGate EXCEPT !.phase = "over"]

RunsInit ==
  /\ run = [x \in Runs |-> Blank]
  /\ pushing = [q \in Pushes |-> NoRun]
  /\ gate = [j \in Jobs |-> NoGate]
  /\ judged = [x \in Runs |-> 0]
  /\ unjudged = {} /\ overlapped = {} /\ outrun = {}

(***************************************************************************)
(* RunsService.ingest.                                                     *)
(***************************************************************************)
\* A write commits while gates other than j are at work.
AtWork(j) == gate[j].phase \in {"read", "unique", "placed"}

Disturbed(jobs, j) ==
  [i \in Jobs |-> IF i # j /\ AtWork(i) THEN [jobs[i] EXCEPT !.clear = FALSE] ELSE jobs[i]]

\* A mutant: a duplicate is not handed off.
NewOnly(x, body) == IF body /\ ~Exists(x) THEN x ELSE NoRun

\* A run is handed off when it has a trace.
ToGate(x, body) == IF body THEN x ELSE NoRun

\* ON CONFLICT DO UPDATE: the newer payload wins and the gate's columns are reset.
\* Redaction may fail: then there is no trace, no embedding, and the verdict is given.
\* The embedding may fail by itself.
Push(q, x, p, body, embedded) ==
  LET row == [payload |-> p, push |-> run[x].push + 1, body |-> body, embedded |-> embedded,
              verdict |-> IF body THEN "none" ELSE "ineligible", cluster |-> NoCluster]
  IN /\ pushing[q] = NoRun /\ run[x].push < MaxPushes
     /\ embedded => body
     /\ run' = [run EXCEPT ![x] = row]
     /\ pushing' = [pushing EXCEPT ![q] = ToGate(x, body)]
     /\ judged' = [judged EXCEPT ![x] = IF body THEN @ ELSE row.push]
     /\ gate' = Disturbed(gate, NoRun)
     /\ UNCHANGED <<unjudged, overlapped, outrun>>

\* enqueue, without a _job_id.
HandOff(q, j) ==
  /\ pushing[q] # NoRun /\ gate[j].phase = "absent"
  /\ gate' = [gate EXCEPT ![j].phase = "queued", ![j].run = pushing[q]]
  /\ pushing' = [pushing EXCEPT ![q] = NoRun]
  /\ UNCHANGED <<run, judged, unjudged, overlapped, outrun>>

\* Redis is out, which enqueue swallows, or the process dies after the commit.
LoseHandOff(q) ==
  /\ pushing[q] # NoRun
  /\ unjudged' = unjudged \cup {pushing[q]}
  /\ pushing' = [pushing EXCEPT ![q] = NoRun]
  /\ UNCHANGED <<run, gate, judged, overlapped, outrun>>

(***************************************************************************)
(* gate_run.                                                               *)
(***************************************************************************)
\* evaluate, of the row as it was read: the verdict reached before a query is made.
\* Nothing in it asks whether a trace is there.
Evaluate(row) == IF Passes[row.payload] THEN "eligible" ELSE "ineligible"

MayStart(j) == gate[j].tries < GateTries

ReadRun(j) ==
  /\ gate[j].phase = "queued" /\ MayStart(j)
  /\ LET row == run[gate[j].run]
     IN gate' = [gate EXCEPT ![j] = [gate[j] EXCEPT
          !.phase = IF Evaluate(row) = "eligible" THEN "read" ELSE "placed",
          !.tries = gate[j].tries + 1, !.seen = row, !.clear = TRUE, !.verdict = Evaluate(row),
          !.cluster = NoCluster]]
  /\ UNCHANGED <<run, pushing, judged, unjudged, overlapped, outrun>>

Sha(row) == IF row.body THEN {ShaOf[row.payload]} ELSE {}
Agent(row) == AgentOf[row.payload]
Task(row) == TaskOf[row.payload]

\* A mutant: only a run that counts is a duplicate's original.
CountedTwin(x, row) ==
  \E y \in Runs \ {x} : /\ Exists(y) /\ Agent(run[y]) = Agent(row)
                        /\ run[y].verdict = "eligible" /\ Sha(run[y]) \cap Sha(row) # {}

\* duplicate_digest_exists: any other run with this trace, eligible or not.
HasTwin(x, row) ==
  \E y \in Runs \ {x} : /\ Exists(y) /\ Agent(run[y]) = Agent(row)
                        /\ Sha(run[y]) \cap Sha(row) # {}

Compare(j) ==
  LET twin == HasTwin(gate[j].run, gate[j].seen)
  IN /\ gate[j].phase = "read"
     /\ gate' = [gate EXCEPT ![j] = [@ EXCEPT
          !.phase = IF twin \/ ~gate[j].seen.embedded THEN "placed" ELSE "unique",
          !.verdict = IF twin THEN "ineligible" ELSE "eligible"]]
     /\ UNCHANGED <<run, pushing, judged, unjudged, overlapped, outrun>>

\* The rows nearest_cluster searches.
Clustered(x, agent) ==
  {y \in Runs \ {x} : /\ Exists(y) /\ Agent(run[y]) = agent /\ run[y].verdict = "eligible"
                      /\ run[y].cluster # NoCluster /\ run[y].embedded}

\* A mutant: a distance equal to the threshold is too far.
StrictlyNear(Y, t) ==
  {y \in Y : /\ Distance[t][Task(run[y])] < Threshold
             /\ \A z \in Y : Distance[t][Task(run[y])] <= Distance[t][Task(run[z])]}

\* ORDER BY ... LIMIT 1, and the threshold on the row that leaves.  The search is taken
\* to be exact, where an HNSW index that is filtered afterwards may miss a row.
Nearest(Y, t) ==
  {y \in Y : /\ Distance[t][Task(run[y])] <= Threshold
             /\ \A z \in Y : Distance[t][Task(run[y])] <= Distance[t][Task(run[z])]}

\* nearest_cluster; a run that is near no other starts a cluster of its own.
Place(j) ==
  LET near == Nearest(Clustered(gate[j].run, Agent(gate[j].seen)), Task(gate[j].seen))
  IN /\ gate[j].phase = "unique"
     /\ \E c \in IF near = {} THEN {j} ELSE {run[y].cluster : y \in near} :
          gate' = [gate EXCEPT ![j] = [@ EXCEPT !.phase = "placed", !.cluster = c]]
     /\ UNCHANGED <<run, pushing, judged, unjudged, overlapped, outrun>>

\* mark_gated writes to the row whatever is there by now.
Mark(j) ==
  LET x == gate[j].run
  IN /\ gate[j].phase = "placed"
     /\ run' = [run EXCEPT ![x].verdict = gate[j].verdict, ![x].cluster = gate[j].cluster]
     /\ judged' = [judged EXCEPT ![x] = gate[j].seen.push]
     /\ overlapped' = IF gate[j].clear THEN overlapped
                      ELSE overlapped \cup {Task(gate[j].seen), Task(run[x])}
     /\ outrun' = IF gate[j].seen.push < judged[x] THEN outrun \cup {x} ELSE outrun
     /\ gate' = [Disturbed(gate, j) EXCEPT ![j] = Over]
     /\ UNCHANGED <<pushing, unjudged>>

\* The worker dies or is shut down: the transaction is rolled back and ARQ starts the job
\* again, up to max_tries.
Interrupt(j) ==
  /\ AtWork(j)
  /\ gate' = [gate EXCEPT ![j] = [NoGate EXCEPT !.phase = "queued", !.run = gate[j].run,
                                             !.tries = gate[j].tries]]
  /\ UNCHANGED <<run, pushing, judged, unjudged, overlapped, outrun>>

\* An exception ends a job; so does its last try.
DropGate(j) ==
  /\ AtWork(j) \/ (gate[j].phase = "queued" /\ gate[j].tries = GateTries)
  /\ gate' = [gate EXCEPT ![j] = Over]
  /\ unjudged' = unjudged \cup {gate[j].run}
  /\ UNCHANGED <<run, pushing, judged, overlapped, outrun>>

GateStep(j) == ReadRun(j) \/ Compare(j) \/ Place(j) \/ Mark(j)

RunsNext ==
  \/ \E q \in Pushes : \/ \E x \in Runs, p \in Payloads, body, embedded \in BOOLEAN :
                            Push(q, x, p, body, embedded)
                       \/ \E j \in Jobs : HandOff(q, j)
                       \/ LoseHandOff(q)
  \/ \E j \in Jobs : GateStep(j) \/ Interrupt(j) \/ DropGate(j)

RunsSpec == RunsInit /\ [][RunsNext]_runVars

\* A push that is stored is handed off, or lost, and workers run what is queued.
RunsFairSpec ==
  /\ RunsSpec
  /\ \A q \in Pushes : WF_runVars((\E j \in Jobs : HandOff(q, j)) \/ LoseHandOff(q))
  /\ \A j \in Jobs : WF_runVars(GateStep(j) \/ DropGate(j))

-------------------------------------------------------------------------------
Judged(x) == judged[x] = run[x].push

\* "Identical traces are one piece of evidence, not N": of two runs of an agent with one
\* trace at most one is eligible, or the verdict on one of them is about an earlier push.
EvidenceCountedOnce ==
  \A x, y \in Runs :
    (/\ x # y /\ run[x].verdict = "eligible" /\ run[y].verdict = "eligible"
     /\ Judged(x) /\ Judged(y) /\ Agent(run[x]) = Agent(run[y]))
    => Sha(run[x]) \cap Sha(run[y]) = {}

\* The runs of one agent on one task are in one cluster, unless a gate that read a run of
\* that task, or wrote to one, overlapped with another gate or a push.
OneClusterPerTask ==
  \A x, y \in Runs :
    (/\ run[x].cluster # NoCluster /\ run[y].cluster # NoCluster /\ Judged(x) /\ Judged(y)
     /\ Agent(run[x]) = Agent(run[y]) /\ Task(run[x]) = Task(run[y])
     /\ Task(run[x]) \notin overlapped)
    => run[x].cluster = run[y].cluster

\* A push of a run that is stored with its trace is judged in the end, or a newer push is,
\* unless nothing came of a hand-off or a gate of an earlier push overtook that of the newer.
RunsAreJudged ==
  \A x \in Runs :
    run[x].body /\ ~Judged(x) ~> Judged(x) \/ ~run[x].body \/ x \in unjudged \cup outrun
===============================================================================
