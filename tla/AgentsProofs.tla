------------------------------ MODULE AgentsProofs -----------------------------
(***************************************************************************)
(* What holds of the runs of agents for any number of runs, payloads,      *)
(* requests and gate jobs, however the jobs overlap and die; then of the   *)
(* agent builder; and then of the spool of the plugin that ships the runs, *)
(* for any number of turns, tool calls and flushers.                       *)
(***************************************************************************)
EXTENDS AgentRuns, AgentBuilder, Spool, WellFoundedInduction, SequenceTheorems,
  FiniteSetTheorems, TLAPS

\* A verdict that says x counts, in its row or on its way there, about its last push.
RowClaims(x) == run[x].verdict = "eligible" /\ Judged(x)
JobClaims(j) == /\ gate[j].phase \in {"unique", "placed"} /\ gate[j].verdict = "eligible"
                /\ gate[j].seen.push = run[gate[j].run].push
Claimed(x) == RowClaims(x) \/ \E j \in Jobs : gate[j].run = x /\ JobClaims(j)

\* Runs that count, or are about to, share no trace.
ClaimsApart ==
  \A x, y \in Runs :
    x # y /\ Claimed(x) /\ Claimed(y) /\ Agent(run[x]) = Agent(run[y])
    => Sha(run[x]) \cap Sha(run[y]) = {}

\* A gate has read the row as it is, unless a push came after.
GatesHaveRead ==
  \A j \in Jobs : AtWork(j) =>
    /\ gate[j].seen.push <= run[gate[j].run].push
    /\ gate[j].seen.push = run[gate[j].run].push =>
         /\ gate[j].seen.payload = run[gate[j].run].payload
         /\ gate[j].seen.body = run[gate[j].run].body

\* Verdicts are about pushes that have been made, and a row that is not there has nothing.
RowsStand ==
  \A x \in Runs :
    /\ judged[x] <= run[x].push
    /\ (run[x].body \/ run[x].embedded) => Exists(x)

\* A job that has not ended is the gate of a run.
JobsKnown == \A j \in Jobs : AtWork(j) \/ gate[j].phase = "queued" => gate[j].run \in Runs

EvidenceInvariant == RunsTypeOK /\ JobsKnown /\ RowsStand /\ GatesHaveRead /\ ClaimsApart

Placed(x) == run[x].cluster # NoCluster
SameTask(r, s) == Agent(r) = Agent(s) /\ Task(r) = Task(s)

\* The search finds every run of a cluster, but those of tasks that gates overlapped on.
ClustersAreSearched ==
  \A x \in Runs : Placed(x) /\ Task(run[x]) \notin overlapped =>
    Exists(x) /\ run[x].verdict = "eligible" /\ run[x].embedded

ClustersHold ==
  \A x, y \in Runs :
    Placed(x) /\ Placed(y) /\ SameTask(run[x], run[y]) /\ Task(run[x]) \notin overlapped
    => run[x].cluster = run[y].cluster

GatesPlace ==
  \A j \in Jobs : AtWork(j) =>
    /\ gate[j].clear => gate[j].seen = run[gate[j].run]
    /\ gate[j].phase = "unique" => gate[j].verdict = "eligible" /\ gate[j].seen.embedded
    /\ gate[j].cluster # NoCluster => gate[j].phase = "placed" /\ gate[j].verdict = "eligible"
                                     /\ gate[j].seen.embedded
    /\ gate[j].clear /\ gate[j].cluster # NoCluster =>
         \A y \in Runs \ {gate[j].run} :
           Placed(y) /\ SameTask(run[y], gate[j].seen) /\ Task(run[y]) \notin overlapped
           => run[y].cluster = gate[j].cluster

ClusterInvariant ==
  EvidenceInvariant /\ ClustersAreSearched /\ ClustersHold /\ GatesPlace

-------------------------------------------------------------------------------
LEMMA BlanksTyped == Blank \in RunRow /\ NoGate \in Gate /\ Over \in Gate
<1>1. Blank \in RunRow
  BY RunsConstants DEF Blank, RunRow, Verdicts
<1>2. NoGate \in Gate
  BY <1>1, RunsConstants DEF NoGate, Gate, Phases, Verdicts
<1> QED
  BY <1>1, <1>2 DEF Over, Gate, Phases

LEMMA RunsTypesStart == RunsInit => RunsTypeOK /\ JobsKnown
<1> SUFFICES ASSUME RunsInit PROVE RunsTypeOK /\ JobsKnown
  OBVIOUS
<1>1. /\ run \in [Runs -> RunRow] /\ gate \in [Jobs -> Gate] /\ pushing \in [Pushes -> Runs \cup {NoRun}]
  BY BlanksTyped DEF RunsInit
<1>2. judged \in [Runs -> 0..MaxPushes]
  BY RunsConstants DEF RunsInit
<1>3. JobsKnown
  BY DEF RunsInit, JobsKnown, AtWork, NoGate
<1> QED
  BY <1>1, <1>2, <1>3 DEF RunsInit, RunsTypeOK

\* What a write does to the other gates.
LEMMA DisturbedTyped ==
  ASSUME NEW jobs \in [Jobs -> Gate], NEW j
  PROVE  /\ Disturbed(jobs, j) \in [Jobs -> Gate]
         /\ \A i \in Jobs : /\ Disturbed(jobs, j)[i].phase = jobs[i].phase
                            /\ Disturbed(jobs, j)[i].run = jobs[i].run
         /\ \A i \in Jobs : /\ Disturbed(jobs, j)[i].seen = jobs[i].seen
                            /\ Disturbed(jobs, j)[i].verdict = jobs[i].verdict
                            /\ Disturbed(jobs, j)[i].cluster = jobs[i].cluster
         /\ \A i \in Jobs : i # j /\ AtWork(i) => Disturbed(jobs, j)[i].clear = FALSE
<1>1. \A i \in Jobs : [jobs[i] EXCEPT !.clear = FALSE] \in Gate
  BY DEF Gate
<1> QED
  BY <1>1 DEF Disturbed, Gate

LEMMA RunsTypesStay ==
  RunsTypeOK /\ JobsKnown /\ [RunsNext]_runVars => RunsTypeOK' /\ JobsKnown'
<1> SUFFICES ASSUME RunsTypeOK, JobsKnown, [RunsNext]_runVars PROVE RunsTypeOK' /\ JobsKnown'
  OBVIOUS
<1>0. /\ run \in [Runs -> RunRow] /\ gate \in [Jobs -> Gate]
      /\ pushing \in [Pushes -> Runs \cup {NoRun}]
      /\ judged \in [Runs -> 0..MaxPushes] /\ unjudged \subseteq Runs
      /\ overlapped \subseteq {TaskOf[p] : p \in Payloads} /\ outrun \subseteq Runs
      /\ MaxPushes \in Nat /\ GateTries \in Nat
  BY RunsConstants DEF RunsTypeOK
<1>b. ASSUME UNCHANGED gate PROVE JobsKnown'
  BY <1>b DEF JobsKnown, AtWork
<1>c. ASSUME NEW j \in Jobs, NEW g \in Gate, gate' = [gate EXCEPT ![j] = g],
             g.phase \in {"read", "unique", "placed", "queued"} => g.run \in Runs
      PROVE  gate' \in [Jobs -> Gate] /\ JobsKnown'
  BY <1>0, <1>c DEF JobsKnown, AtWork
<1>1. ASSUME NEW q \in Pushes, NEW x \in Runs, NEW p \in Payloads, NEW body \in BOOLEAN,
             NEW embedded \in BOOLEAN, Push(q, x, p, body, embedded)
      PROVE  RunsTypeOK' /\ JobsKnown'
  <2> DEFINE row == [payload |-> p, push |-> run[x].push + 1, body |-> body,
                     embedded |-> embedded,
                     verdict |-> IF body THEN "none" ELSE "ineligible", cluster |-> NoCluster]
  <2>1. run[x].push \in 0..MaxPushes /\ run[x].push < MaxPushes
    BY <1>0, <1>1 DEF Push, RunRow
  <2>2. run[x].push + 1 \in 0..MaxPushes
    BY <1>0, <2>1
  <2>3. row \in RunRow
    BY <2>2 DEF RunRow, Verdicts
  <2>4. run' = [run EXCEPT ![x] = row] /\ judged' = [judged EXCEPT ![x] = IF body THEN @ ELSE row.push]
    BY <1>1 DEF Push
  <2>5. run' \in [Runs -> RunRow] /\ judged' \in [Runs -> 0..MaxPushes]
    BY <1>0, <2>2, <2>3, <2>4
  <2>6. pushing' \in [Pushes -> Runs \cup {NoRun}]
    BY <1>0, <1>1 DEF Push, ToGate
  <2>7. gate' \in [Jobs -> Gate] /\ \A i \in Jobs : gate'[i].phase = gate[i].phase
                                                  /\ gate'[i].run = gate[i].run
    <3>1. gate' = Disturbed(gate, NoRun)
      BY <1>1 DEF Push
    <3> QED
      BY <1>0, <3>1, DisturbedTyped
  <2>8. JobsKnown'
    BY <2>7 DEF JobsKnown, AtWork
  <2> QED
    BY <1>0, <1>1, <2>5, <2>6, <2>7, <2>8 DEF Push, RunsTypeOK
<1>2. ASSUME NEW q \in Pushes, NEW j \in Jobs, HandOff(q, j) PROVE RunsTypeOK' /\ JobsKnown'
  <2> DEFINE g == [gate[j] EXCEPT !.phase = "queued", !.run = pushing[q]]
  <2>1. pushing[q] \in Runs
    BY <1>0, <1>2 DEF HandOff
  <2>2. g \in Gate /\ g.run \in Runs
    BY <1>0, <2>1 DEF Gate, Phases
  <2>3. gate' = [gate EXCEPT ![j] = g]
    BY <1>0, <1>2 DEF HandOff, Gate
  <2>4. gate' \in [Jobs -> Gate] /\ JobsKnown'
    BY <1>c, <2>2, <2>3
  <2> QED
    BY <1>0, <1>2, <2>4 DEF HandOff, RunsTypeOK
<1>3. ASSUME NEW q \in Pushes, LoseHandOff(q) PROVE RunsTypeOK' /\ JobsKnown'
  BY <1>0, <1>3, <1>b DEF LoseHandOff, RunsTypeOK
<1>4. ASSUME NEW j \in Jobs, ReadRun(j) PROVE RunsTypeOK' /\ JobsKnown'
  <2> DEFINE row == run[gate[j].run]
             g == [gate[j] EXCEPT
                     !.phase = IF Evaluate(row) = "eligible" THEN "read" ELSE "placed",
                     !.tries = gate[j].tries + 1, !.seen = row, !.clear = TRUE, !.verdict = Evaluate(row),
                     !.cluster = NoCluster]
  <2>1. gate[j].run \in Runs /\ row \in RunRow
    BY <1>0, <1>4 DEF ReadRun, JobsKnown
  <2>2. gate[j].tries + 1 \in 0..GateTries
    BY <1>0, <1>4 DEF ReadRun, MayStart, Gate
  <2>3. Evaluate(row) \in Verdicts
    BY DEF Evaluate, Verdicts
  <2>4. g \in Gate /\ g.run \in Runs
    BY <1>0, <2>1, <2>2, <2>3 DEF Gate, Phases
  <2>5. gate' = [gate EXCEPT ![j] = g]
    BY <1>4 DEF ReadRun
  <2>6. gate' \in [Jobs -> Gate] /\ JobsKnown'
    BY <1>c, <2>4, <2>5
  <2> QED
    BY <1>0, <1>4, <2>6 DEF ReadRun, RunsTypeOK
<1>5. ASSUME NEW j \in Jobs, Compare(j) PROVE RunsTypeOK' /\ JobsKnown'
  <2> DEFINE twin == HasTwin(gate[j].run, gate[j].seen)
             g == [gate[j] EXCEPT
                     !.phase = IF twin \/ ~gate[j].seen.embedded THEN "placed" ELSE "unique",
                     !.verdict = IF twin THEN "ineligible" ELSE "eligible"]
  <2>1. g \in Gate /\ g.run = gate[j].run /\ gate[j].run \in Runs
    BY <1>0, <1>5 DEF Compare, Gate, Phases, Verdicts, JobsKnown, AtWork
  <2>2. gate' = [gate EXCEPT ![j] = g]
    BY <1>5 DEF Compare
  <2>3. gate' \in [Jobs -> Gate] /\ JobsKnown'
    BY <1>c, <2>1, <2>2
  <2> QED
    BY <1>0, <1>5, <2>3 DEF Compare, RunsTypeOK
<1>6. ASSUME NEW j \in Jobs, Place(j) PROVE RunsTypeOK' /\ JobsKnown'
  <2> DEFINE near == Nearest(Clustered(gate[j].run, Agent(gate[j].seen)), Task(gate[j].seen))
  <2>1. PICK c \in IF near = {} THEN {j} ELSE {run[y].cluster : y \in near} :
          gate' = [gate EXCEPT ![j] = [@ EXCEPT !.phase = "placed", !.cluster = c]]
    BY <1>6 DEF Place
  <2>2. near \subseteq Runs
    BY DEF Nearest, Clustered
  <2>3. c \in Jobs \cup {NoCluster}
    BY <1>0, <2>1, <2>2 DEF RunRow
  <2> DEFINE g == [gate[j] EXCEPT !.phase = "placed", !.cluster = c]
  <2>4. g \in Gate /\ g.run = gate[j].run /\ gate[j].run \in Runs
    BY <1>0, <1>6, <2>3 DEF Place, Gate, Phases, JobsKnown, AtWork
  <2>5. gate' = [gate EXCEPT ![j] = g]
    BY <2>1
  <2>6. gate' \in [Jobs -> Gate] /\ JobsKnown'
    BY <1>c, <2>4, <2>5
  <2> QED
    BY <1>0, <1>6, <2>6 DEF Place, RunsTypeOK
<1>7. ASSUME NEW j \in Jobs, Mark(j) PROVE RunsTypeOK' /\ JobsKnown'
  <2> DEFINE x == gate[j].run
             row == [run[x] EXCEPT !.verdict = gate[j].verdict, !.cluster = gate[j].cluster]
  <2>1. x \in Runs /\ gate[j] \in Gate /\ gate[j].seen \in RunRow /\ run[x] \in RunRow
    BY <1>0, <1>7 DEF Mark, JobsKnown, AtWork, Gate
  <2>2. row \in RunRow
    BY <2>1 DEF Gate, RunRow
  <2>3. run' = [run EXCEPT ![x] = row]
    BY <1>0, <1>7 DEF Mark
  <2>4. run' \in [Runs -> RunRow] /\ judged' \in [Runs -> 0..MaxPushes]
    BY <1>0, <1>7, <2>1, <2>2, <2>3 DEF Mark, RunRow
  <2>5. gate[j].seen.payload \in Payloads /\ run[x].payload \in Payloads
    BY <2>1 DEF RunRow
  <2>6. overlapped' \subseteq {TaskOf[p] : p \in Payloads} /\ outrun' \subseteq Runs
    BY <1>0, <1>7, <2>1, <2>5 DEF Mark, Task
  <2>7. gate' = [Disturbed(gate, j) EXCEPT ![j] = Over]
    BY <1>7 DEF Mark
  <2>8. gate' \in [Jobs -> Gate]
    BY <1>0, <2>7, DisturbedTyped, BlanksTyped
  <2>9. \A i \in Jobs : gate'[i].phase = "over" \/ (gate'[i].phase = gate[i].phase /\ gate'[i].run = gate[i].run)
    <3>1. Over.phase = "over"
      BY DEF Over, NoGate
    <3>2. /\ Disturbed(gate, j) \in [Jobs -> Gate]
          /\ \A i \in Jobs : /\ Disturbed(gate, j)[i].phase = gate[i].phase
                             /\ Disturbed(gate, j)[i].run = gate[i].run
      BY <1>0, DisturbedTyped
    <3> QED
      BY <2>7, <3>1, <3>2
  <2>10. JobsKnown'
    BY <2>9 DEF JobsKnown, AtWork
  <2> QED
    BY <1>0, <1>7, <2>4, <2>6, <2>8, <2>10 DEF Mark, RunsTypeOK
<1>8. ASSUME NEW j \in Jobs, Interrupt(j) PROVE RunsTypeOK' /\ JobsKnown'
  <2> DEFINE g == [NoGate EXCEPT !.phase = "queued", !.run = gate[j].run, !.tries = gate[j].tries]
  <2>1. gate[j].run \in Runs
    BY <1>8 DEF Interrupt, JobsKnown
  <2>2. g \in Gate /\ g.run \in Runs
    BY <1>0, <2>1, BlanksTyped DEF Gate, Phases, NoGate
  <2>3. gate' = [gate EXCEPT ![j] = g]
    BY <1>8 DEF Interrupt
  <2>4. gate' \in [Jobs -> Gate] /\ JobsKnown'
    BY <1>c, <2>2, <2>3
  <2> QED
    BY <1>0, <1>8, <2>4 DEF Interrupt, RunsTypeOK
<1>9. ASSUME NEW j \in Jobs, DropGate(j) PROVE RunsTypeOK' /\ JobsKnown'
  <2>1. gate[j].run \in Runs
    BY <1>9 DEF DropGate, JobsKnown
  <2>2. Over.phase = "over"
    BY DEF Over, NoGate
  <2>3. gate' \in [Jobs -> Gate] /\ JobsKnown'
    BY <1>9, <1>c, <2>2, BlanksTyped DEF DropGate
  <2> QED
    BY <1>0, <1>9, <2>1, <2>3 DEF DropGate, RunsTypeOK
<1>10. CASE UNCHANGED runVars
  BY <1>0, <1>10, <1>b DEF runVars, RunsTypeOK
<1> QED
  BY <1>1, <1>2, <1>3, <1>4, <1>5, <1>6, <1>7, <1>8, <1>9, <1>10 DEF RunsNext, GateStep

\* The rows of agent_runs and the gate jobs are of their types, and a job that has not
\* ended is the gate of a run that was pushed.
THEOREM RunTypesHold == RunsSpec => [](RunsTypeOK /\ JobsKnown)
BY RunsTypesStart, RunsTypesStay, PTL DEF RunsSpec

-------------------------------------------------------------------------------
\* A step that writes no row and makes no claim.
LEMMA ClaimsStay ==
  ASSUME UNCHANGED <<run, judged>>, ClaimsApart,
         \A j \in Jobs : JobClaims(j)' => JobClaims(j) /\ gate'[j].run = gate[j].run
  PROVE  ClaimsApart'
<1>1. \A x \in Runs : Claimed(x)' => Claimed(x)
  BY DEF Claimed, RowClaims, Judged
<1> QED
  BY <1>1 DEF ClaimsApart, Sha, Agent

LEMMA EvidenceStarts == RunsInit => EvidenceInvariant
<1> SUFFICES ASSUME RunsInit PROVE EvidenceInvariant
  OBVIOUS
<1>1. RowsStand
  BY DEF RunsInit, RowsStand, Blank
<1>2. GatesHaveRead
  BY DEF RunsInit, GatesHaveRead, AtWork, NoGate
<1>3. ClaimsApart
  BY DEF RunsInit, ClaimsApart, Claimed, RowClaims, JobClaims, NoGate, Blank
<1> QED
  BY <1>1, <1>2, <1>3, RunsTypesStart DEF EvidenceInvariant

LEMMA EvidenceStays == EvidenceInvariant /\ [RunsNext]_runVars => EvidenceInvariant'
<1> SUFFICES ASSUME EvidenceInvariant, [RunsNext]_runVars
             PROVE  RowsStand' /\ GatesHaveRead' /\ ClaimsApart'
  BY RunsTypesStay DEF EvidenceInvariant
<1>0. /\ run \in [Runs -> RunRow] /\ gate \in [Jobs -> Gate]
      /\ judged \in [Runs -> 0..MaxPushes] /\ MaxPushes \in Nat
  BY RunsConstants DEF EvidenceInvariant, RunsTypeOK
<1>k. JobsKnown /\ RowsStand /\ GatesHaveRead /\ ClaimsApart
  BY DEF EvidenceInvariant
<1>n. \A x \in Runs : run[x].push \in Nat /\ judged[x] \in Nat
  BY <1>0 DEF RunRow
<1>s. \A j \in Jobs : gate[j].seen.push \in Nat
  BY <1>0 DEF Gate, RunRow
<1>r. ASSUME UNCHANGED <<run, judged>> PROVE RowsStand'
  BY <1>k, <1>r DEF RowsStand, Exists
\* A step of gate j alone that makes no claim.
<1>c. ASSUME UNCHANGED <<run, judged>>, NEW j \in Jobs,
             \A i \in Jobs \ {j} : gate'[i] = gate[i],
             JobClaims(j)' => JobClaims(j) /\ gate'[j].run = gate[j].run
      PROVE  ClaimsApart'
  <2>1. \A i \in Jobs \ {j} : JobClaims(i)' => JobClaims(i)
    BY <1>c DEF JobClaims
  <2> QED
    BY <1>k, <1>c, <2>1, ClaimsStay
\* A step of gate j alone that keeps what it read.
<1>g. ASSUME UNCHANGED <<run, judged>>, NEW j \in Jobs,
             \A i \in Jobs \ {j} : gate'[i] = gate[i],
             AtWork(j)' => AtWork(j) /\ gate'[j].run = gate[j].run /\ gate'[j].seen = gate[j].seen
      PROVE  GatesHaveRead'
  BY <1>k, <1>g DEF GatesHaveRead, AtWork
<1>1. ASSUME NEW q \in Pushes, NEW x \in Runs, NEW p \in Payloads, NEW body \in BOOLEAN,
             NEW embedded \in BOOLEAN, Push(q, x, p, body, embedded)
      PROVE  RowsStand' /\ GatesHaveRead' /\ ClaimsApart'
  <2> DEFINE row == [payload |-> p, push |-> run[x].push + 1, body |-> body,
                     embedded |-> embedded,
                     verdict |-> IF body THEN "none" ELSE "ineligible", cluster |-> NoCluster]
  <2>1. /\ run' = [run EXCEPT ![x] = row] /\ gate' = Disturbed(gate, NoRun)
        /\ judged' = [judged EXCEPT ![x] = IF body THEN @ ELSE row.push]
    BY <1>1 DEF Push
  <2>2. /\ run'[x] = row /\ \A y \in Runs \ {x} : run'[y] = run[y] /\ judged'[y] = judged[y]
        /\ row.verdict # "eligible" /\ row.push > run[x].push
        /\ judged'[x] <= row.push
    BY <1>0, <1>k, <1>n, <2>1 DEF RowsStand
  <2>3. \A i \in Jobs : /\ gate'[i].phase = gate[i].phase /\ gate'[i].run = gate[i].run
                        /\ gate'[i].seen = gate[i].seen /\ gate'[i].verdict = gate[i].verdict
    BY <1>0, <2>1, DisturbedTyped
  <2>4. RowsStand'
    BY <1>k, <1>n, <2>2 DEF RowsStand, Exists
  <2>5. GatesHaveRead'
    BY <1>k, <1>n, <1>s, <2>2, <2>3 DEF GatesHaveRead, AtWork, JobsKnown
  <2>6. ~Claimed(x)'
    <3>1. \A j \in Jobs : JobClaims(j)' => gate'[j].run # x
      <4> SUFFICES ASSUME NEW j \in Jobs, JobClaims(j)', gate'[j].run = x PROVE FALSE
        OBVIOUS
      <4>1. AtWork(j) /\ gate[j].run = x /\ gate[j].seen.push = row.push
        BY <2>2, <2>3 DEF JobClaims, AtWork
      <4> QED
        BY <1>k, <1>n, <1>s, <2>2, <4>1 DEF GatesHaveRead
    <3> QED
      BY <2>2, <3>1 DEF Claimed, RowClaims
  <2>7. \A y \in Runs \ {x} : Claimed(y)' => Claimed(y)
    BY <2>2, <2>3 DEF Claimed, RowClaims, JobClaims, Judged
  <2>8. ClaimsApart'
    <3> SUFFICES ASSUME NEW y \in Runs, NEW z \in Runs, y # z, Claimed(y)', Claimed(z)',
                        Agent(run'[y]) = Agent(run'[z])
                 PROVE  Sha(run'[y]) \cap Sha(run'[z]) = {}
      BY DEF ClaimsApart, Sha, Agent
    <3>1. /\ Claimed(y) /\ Claimed(z) /\ run'[y] = run[y] /\ run'[z] = run[z]
      BY <2>2, <2>6, <2>7
    <3> QED
      BY <1>k, <3>1 DEF ClaimsApart
  <2> QED
    BY <2>4, <2>5, <2>8
<1>2. ASSUME NEW q \in Pushes, NEW j \in Jobs, HandOff(q, j)
      PROVE  RowsStand' /\ GatesHaveRead' /\ ClaimsApart'
  <2>1. /\ UNCHANGED <<run, judged>> /\ gate'[j].phase = "queued"
        /\ \A i \in Jobs \ {j} : gate'[i] = gate[i]
    BY <1>0, <1>2 DEF HandOff, Gate
  <2>2. GatesHaveRead'
    BY <1>g, <2>1 DEF AtWork
  <2>3. ClaimsApart'
    BY <1>c, <2>1 DEF JobClaims
  <2> QED
    BY <1>r, <2>1, <2>2, <2>3
<1>3. ASSUME UNCHANGED <<run, judged, gate>>
      PROVE  RowsStand' /\ GatesHaveRead' /\ ClaimsApart'
  <2>1. ClaimsApart'
    BY <1>k, <1>3, ClaimsStay DEF JobClaims
  <2> QED
    BY <1>k, <1>r, <1>3, <2>1 DEF GatesHaveRead, AtWork
<1>4. ASSUME NEW j \in Jobs, ReadRun(j) PROVE RowsStand' /\ GatesHaveRead' /\ ClaimsApart'
  <2>1. /\ UNCHANGED <<run, judged>> /\ \A i \in Jobs \ {j} : gate'[i] = gate[i]
        /\ gate'[j].run = gate[j].run /\ gate'[j].seen = run[gate[j].run]
        /\ gate'[j].phase \in {"unique", "placed"} => gate'[j].verdict # "eligible"
    BY <1>0, <1>4 DEF ReadRun, Gate, Evaluate
  <2>2. gate[j].run \in Runs
    BY <1>k, <1>4 DEF ReadRun, JobsKnown
  <2>3. GatesHaveRead'
    BY <1>k, <1>n, <2>1, <2>2 DEF GatesHaveRead, AtWork
  <2>4. ~JobClaims(j)'
    BY <2>1 DEF JobClaims
  <2>5. ClaimsApart'
    BY <1>c, <2>1, <2>4
  <2> QED
    BY <1>r, <2>1, <2>3, <2>5
<1>5. ASSUME NEW j \in Jobs, Compare(j) PROVE RowsStand' /\ GatesHaveRead' /\ ClaimsApart'
  <2> DEFINE x == gate[j].run
  <2>1. /\ UNCHANGED <<run, judged>> /\ \A i \in Jobs \ {j} : gate'[i] = gate[i]
        /\ gate'[j].run = x /\ gate'[j].seen = gate[j].seen /\ AtWork(j)
        /\ gate'[j].verdict = "eligible" => ~HasTwin(x, gate[j].seen)
    BY <1>0, <1>5 DEF Compare, Gate, AtWork
  <2>2. GatesHaveRead'
    BY <1>g, <2>1
  <2>3. x \in Runs
    BY <1>k, <2>1 DEF JobsKnown
  <2>4. CASE ~JobClaims(j)'
    <3>1. ClaimsApart'
      BY <1>c, <2>1, <2>4
    <3> QED
      BY <1>r, <2>1, <2>2, <3>1
  <2>5. CASE JobClaims(j)'
    <3>1. /\ ~HasTwin(x, gate[j].seen) /\ Agent(gate[j].seen) = Agent(run[x])
          /\ Sha(gate[j].seen) = Sha(run[x])
      BY <1>k, <2>1, <2>3, <2>5 DEF JobClaims, GatesHaveRead, Agent, Sha
    <3>2. \A y \in Runs \ {x} :
            Agent(run[y]) = Agent(run[x]) => Sha(run[y]) \cap Sha(run[x]) = {}
      BY <1>k, <3>1 DEF HasTwin, RowsStand, Sha
    <3>3. \A y \in Runs \ {x} : Claimed(y)' => Claimed(y)
      BY <2>1 DEF Claimed, RowClaims, JobClaims, Judged
    <3>4. ClaimsApart'
      BY <1>k, <2>1, <3>2, <3>3 DEF ClaimsApart, Sha, Agent
    <3> QED
      BY <1>r, <2>1, <2>2, <3>4
  <2> QED
    BY <2>4, <2>5
<1>6. ASSUME NEW j \in Jobs, Place(j) PROVE RowsStand' /\ GatesHaveRead' /\ ClaimsApart'
  <2>1. /\ UNCHANGED <<run, judged>> /\ \A i \in Jobs \ {j} : gate'[i] = gate[i]
        /\ gate'[j].run = gate[j].run /\ gate'[j].seen = gate[j].seen /\ AtWork(j)
        /\ gate'[j].verdict = gate[j].verdict /\ gate[j].phase = "unique"
    BY <1>0, <1>6 DEF Place, Gate, AtWork
  <2>2. GatesHaveRead'
    BY <1>g, <2>1
  <2>3. JobClaims(j)' => JobClaims(j)
    BY <2>1 DEF JobClaims
  <2>4. ClaimsApart'
    BY <1>c, <2>1, <2>3
  <2> QED
    BY <1>r, <2>1, <2>2, <2>4
<1>7. ASSUME NEW j \in Jobs, Mark(j) PROVE RowsStand' /\ GatesHaveRead' /\ ClaimsApart'
  <2>0. PICK x \in Runs : x = gate[j].run
    BY <1>k, <1>7 DEF Mark, JobsKnown, AtWork
  <2>1. x \in Runs /\ AtWork(j) /\ gate[j].phase = "placed"
    BY <1>7 DEF Mark, AtWork
  <2>2. /\ run' = [run EXCEPT ![x].verdict = gate[j].verdict, ![x].cluster = gate[j].cluster]
        /\ judged' = [judged EXCEPT ![x] = gate[j].seen.push]
        /\ gate' = [Disturbed(gate, j) EXCEPT ![j] = Over]
    BY <1>7, <2>0 DEF Mark
  <2>3. /\ \A y \in Runs \ {x} : run'[y] = run[y] /\ judged'[y] = judged[y]
        /\ judged'[x] = gate[j].seen.push /\ run'[x].verdict = gate[j].verdict
        /\ \A y \in Runs : /\ run'[y].push = run[y].push /\ run'[y].payload = run[y].payload
                           /\ run'[y].body = run[y].body /\ run'[y].embedded = run[y].embedded
    BY <1>0, <2>1, <2>2 DEF RunRow
  <2>4. /\ gate'[j].phase = "over"
        /\ \A i \in Jobs \ {j} : /\ gate'[i].phase = gate[i].phase /\ gate'[i].run = gate[i].run
                                 /\ gate'[i].seen = gate[i].seen /\ gate'[i].verdict = gate[i].verdict
    <3>1. Over.phase = "over"
      BY DEF Over, NoGate
    <3>2. /\ Disturbed(gate, j) \in [Jobs -> Gate]
          /\ \A i \in Jobs : /\ Disturbed(gate, j)[i].phase = gate[i].phase
                             /\ Disturbed(gate, j)[i].run = gate[i].run
                             /\ Disturbed(gate, j)[i].seen = gate[i].seen
                             /\ Disturbed(gate, j)[i].verdict = gate[i].verdict
      BY <1>0, DisturbedTyped
    <3> QED
      BY <2>2, <3>1, <3>2
  <2>5. RowsStand'
    BY <1>k, <2>0, <2>1, <2>3 DEF RowsStand, GatesHaveRead, Exists
  <2>6. GatesHaveRead'
    BY <1>k, <2>3, <2>4 DEF GatesHaveRead, AtWork, JobsKnown
  <2>7. \A i \in Jobs : JobClaims(i)' => JobClaims(i) /\ gate'[i].run = gate[i].run
    <3> SUFFICES ASSUME NEW i \in Jobs, JobClaims(i)' PROVE JobClaims(i) /\ gate'[i].run = gate[i].run
      OBVIOUS
    <3>1. i # j
      BY <2>4 DEF JobClaims
    <3>2. gate[i].run \in Runs
      BY <1>k, <2>4, <3>1 DEF JobClaims, JobsKnown, AtWork
    <3> QED
      BY <2>3, <2>4, <3>1, <3>2 DEF JobClaims
  <2>8. \A y \in Runs : RowClaims(y)' => Claimed(y)
    <3>1. RowClaims(x)' => JobClaims(j)
      BY <2>0, <2>1, <2>3 DEF RowClaims, JobClaims, Judged
    <3>2. \A y \in Runs \ {x} : RowClaims(y)' => RowClaims(y)
      BY <2>3 DEF RowClaims, Judged
    <3> QED
      BY <2>0, <3>1, <3>2 DEF Claimed
  <2>9. \A y \in Runs : Claimed(y)' => Claimed(y)
    BY <2>7, <2>8 DEF Claimed
  <2>10. ClaimsApart'
    BY <1>k, <2>3, <2>9 DEF ClaimsApart, Sha, Agent
  <2> QED
    BY <2>5, <2>6, <2>10
<1>8. ASSUME NEW j \in Jobs, Interrupt(j) \/ DropGate(j)
      PROVE  RowsStand' /\ GatesHaveRead' /\ ClaimsApart'
  <2>1. /\ UNCHANGED <<run, judged>> /\ gate'[j].phase \in {"queued", "over"}
        /\ \A i \in Jobs \ {j} : gate'[i] = gate[i]
    BY <1>0, <1>8 DEF Interrupt, DropGate, NoGate, Over
  <2>2. GatesHaveRead'
    BY <1>g, <2>1 DEF AtWork
  <2>3. ClaimsApart'
    BY <1>c, <2>1 DEF JobClaims
  <2> QED
    BY <1>r, <2>1, <2>2, <2>3
<1>9. ASSUME NEW q \in Pushes, LoseHandOff(q) PROVE UNCHANGED <<run, judged, gate>>
  BY <1>9 DEF LoseHandOff
<1>10. CASE UNCHANGED runVars
  BY <1>3, <1>10 DEF runVars
<1> QED
  BY <1>1, <1>2, <1>3, <1>4, <1>5, <1>6, <1>7, <1>8, <1>9, <1>10 DEF RunsNext, GateStep

\* "Identical traces are one piece of evidence, not N" (modules/runs/repository.py): however
\* the gates of two runs overlap, die and are run again, and whatever is pushed meanwhile,
\* two runs of an agent with one trace are not both eligible on their last pushes.
THEOREM EvidenceIsCountedOnce == RunsSpec => []EvidenceCountedOnce
<1>1. EvidenceInvariant => EvidenceCountedOnce
  BY DEF EvidenceInvariant, ClaimsApart, Claimed, RowClaims, EvidenceCountedOnce
<1> QED
  BY <1>1, EvidenceStarts, EvidenceStays, PTL DEF RunsSpec

-------------------------------------------------------------------------------
LEMMA ClustersStart == RunsInit => ClusterInvariant
<1> SUFFICES ASSUME RunsInit PROVE ClusterInvariant
  OBVIOUS
<1>1. \A x \in Runs : ~Placed(x)
  BY DEF RunsInit, Placed, Blank
<1>2. \A j \in Jobs : ~AtWork(j)
  BY DEF RunsInit, AtWork, NoGate
<1> QED
  BY <1>1, <1>2, EvidenceStarts
  DEF ClusterInvariant, ClustersAreSearched, ClustersHold, GatesPlace

\* The distance of a task to itself is zero, and to any other it is not.
LEMMA OwnTaskIsNearest ==
  ASSUME NEW r \in RunRow, NEW s \in RunRow
  PROVE  /\ Distance[Task(r)][Task(s)] \in Nat
         /\ Distance[Task(r)][Task(s)] = 0 <=> Task(r) = Task(s)
<1>1. r.payload \in Payloads /\ s.payload \in Payloads
  BY DEF RunRow
<1> QED
  BY <1>1, RunsConstants DEF Task

\* What nearest_cluster finds while a run of the task is in a cluster.
LEMMA NearestIsOfTheTask ==
  ASSUME run \in [Runs -> RunRow], ClustersAreSearched, NEW x \in Runs, NEW r \in RunRow,
         NEW y \in Runs \ {x}, Placed(y), SameTask(run[y], r), Task(r) \notin overlapped,
         NEW near, near = Nearest(Clustered(x, Agent(r)), Task(r))
  PROVE  /\ near # {} /\ near \subseteq Runs
         /\ \A z \in near : Placed(z) /\ SameTask(run[z], r)
<1> DEFINE C == Clustered(x, Agent(r))
<1>1. y \in C /\ Distance[Task(r)][Task(run[y])] = 0
  BY OwnTaskIsNearest DEF ClustersAreSearched, SameTask, Clustered, Placed
<1>2. C \subseteq Runs /\ \A z \in C : run[z] \in RunRow /\ Placed(z) /\ Agent(run[z]) = Agent(r)
  BY DEF Clustered, Placed
<1>3. \A z \in C : Distance[Task(r)][Task(run[z])] \in Nat
  BY <1>2, OwnTaskIsNearest
<1>4. near = {z \in C : /\ Distance[Task(r)][Task(run[z])] <= Threshold
                        /\ \A u \in C : Distance[Task(r)][Task(run[z])]
                                          <= Distance[Task(r)][Task(run[u])]}
  BY DEF Nearest
<1> HIDE DEF C
<1>5. y \in near
  BY <1>1, <1>3, <1>4, RunsConstants
<1>6. \A z \in near : Distance[Task(r)][Task(run[z])] = 0
  BY <1>1, <1>3, <1>4
<1> QED
  BY <1>2, <1>4, <1>5, <1>6, OwnTaskIsNearest DEF SameTask

LEMMA ClustersStay == ClusterInvariant /\ [RunsNext]_runVars => ClusterInvariant'
<1> SUFFICES ASSUME ClusterInvariant, [RunsNext]_runVars
             PROVE  ClustersAreSearched' /\ ClustersHold' /\ GatesPlace'
  BY EvidenceStays DEF ClusterInvariant
<1>0. /\ run \in [Runs -> RunRow] /\ gate \in [Jobs -> Gate]
      /\ JobsKnown /\ RowsStand /\ GatesHaveRead
  BY DEF ClusterInvariant, EvidenceInvariant, RunsTypeOK
<1>k. ClustersAreSearched /\ ClustersHold /\ GatesPlace
  BY DEF ClusterInvariant
\* A step that writes no row.
<1>r. ASSUME UNCHANGED <<run, overlapped>> PROVE ClustersAreSearched' /\ ClustersHold'
  BY <1>k, <1>r DEF ClustersAreSearched, ClustersHold, Placed, SameTask, Agent, Task, Exists
\* What a gate must be for GatesPlace, of the rows in rows.
<1> DEFINE Placing(g) ==
      /\ g.clear => g.seen = run[g.run]
      /\ g.phase = "unique" => g.verdict = "eligible" /\ g.seen.embedded
      /\ g.cluster # NoCluster => g.phase = "placed" /\ g.verdict = "eligible" /\ g.seen.embedded
      /\ g.clear /\ g.cluster # NoCluster =>
           \A y \in Runs \ {g.run} :
             Placed(y) /\ SameTask(run[y], g.seen) /\ Task(run[y]) \notin overlapped
             => run[y].cluster = g.cluster
<1>g. ASSUME UNCHANGED <<run, overlapped>>, NEW j \in Jobs,
             \A i \in Jobs \ {j} : gate'[i] = gate[i], AtWork(j)' => Placing(gate'[j])
      PROVE  GatesPlace'
  <2> SUFFICES ASSUME NEW i \in Jobs, AtWork(i)' PROVE Placing(gate[i])'
    BY DEF GatesPlace
  <2>1. CASE i = j
    BY <1>g, <2>1 DEF Placed, SameTask, Agent, Task
  <2>2. CASE i # j
    <3>1. AtWork(i) /\ gate'[i] = gate[i]
      BY <1>g, <2>2 DEF AtWork
    <3>2. Placing(gate[i])
      BY <1>k, <3>1 DEF GatesPlace
    <3> QED
      BY <1>g, <3>1, <3>2 DEF Placed, SameTask, Agent, Task
  <2> QED
    BY <2>1, <2>2
\* A step that writes a row makes every other gate's reading stale.
<1>d. ASSUME \A i \in Jobs : AtWork(i)' =>
               /\ AtWork(i) /\ ~gate'[i].clear /\ gate'[i].seen = gate[i].seen
               /\ gate'[i].phase = gate[i].phase /\ gate'[i].verdict = gate[i].verdict
               /\ gate'[i].cluster = gate[i].cluster
      PROVE  GatesPlace'
  BY <1>k, <1>d DEF GatesPlace
<1>1. ASSUME NEW q \in Pushes, NEW x \in Runs, NEW p \in Payloads, NEW body \in BOOLEAN,
             NEW embedded \in BOOLEAN, Push(q, x, p, body, embedded)
      PROVE  ClustersAreSearched' /\ ClustersHold' /\ GatesPlace'
  <2>1. /\ run'[x].cluster = NoCluster /\ \A y \in Runs \ {x} : run'[y] = run[y]
        /\ overlapped' = overlapped /\ gate' = Disturbed(gate, NoRun)
    BY <1>0, <1>1 DEF Push
  <2>2. ~Placed(x)' /\ \A y \in Runs : Placed(y)' => Placed(y) /\ run'[y] = run[y]
    BY <2>1 DEF Placed
  <2>3. ClustersAreSearched' /\ ClustersHold'
    BY <1>k, <2>1, <2>2 DEF ClustersAreSearched, ClustersHold, SameTask, Agent, Task, Exists
  <2>4. \A i \in Jobs : i # NoRun
    BY RunsConstants
  <2>5. \A i \in Jobs : AtWork(i) => gate'[i].clear = FALSE
    <3>1. \A i \in Jobs : i # NoRun /\ AtWork(i) => Disturbed(gate, NoRun)[i].clear = FALSE
      BY <1>0, DisturbedTyped
    <3> QED
      BY <2>1, <2>4, <3>1
  <2>6. \A i \in Jobs : /\ gate'[i].phase = gate[i].phase /\ gate'[i].seen = gate[i].seen
                        /\ gate'[i].verdict = gate[i].verdict /\ gate'[i].cluster = gate[i].cluster
    BY <1>0, <2>1, DisturbedTyped
  <2>7. GatesPlace'
    BY <1>d, <2>5, <2>6 DEF AtWork
  <2> QED
    BY <2>3, <2>7
<1>2. ASSUME NEW q \in Pushes, NEW j \in Jobs, HandOff(q, j)
      PROVE  ClustersAreSearched' /\ ClustersHold' /\ GatesPlace'
  <2>1. /\ UNCHANGED <<run, overlapped>> /\ gate'[j].phase = "queued"
        /\ \A i \in Jobs \ {j} : gate'[i] = gate[i]
    BY <1>0, <1>2 DEF HandOff, Gate
  <2> QED
    BY <1>r, <1>g, <2>1 DEF AtWork
<1>3. ASSUME UNCHANGED <<run, overlapped, gate>>
      PROVE  ClustersAreSearched' /\ ClustersHold' /\ GatesPlace'
  BY <1>k, <1>r, <1>3 DEF GatesPlace, AtWork, Placed, SameTask, Agent, Task
<1>4. ASSUME NEW j \in Jobs, ReadRun(j) PROVE ClustersAreSearched' /\ ClustersHold' /\ GatesPlace'
  <2>1. /\ UNCHANGED <<run, overlapped>> /\ \A i \in Jobs \ {j} : gate'[i] = gate[i]
        /\ gate'[j].run = gate[j].run /\ gate'[j].seen = run[gate[j].run]
        /\ gate'[j].cluster = NoCluster /\ gate'[j].phase # "unique"
    BY <1>0, <1>4 DEF ReadRun, Gate
  <2> QED
    BY <1>r, <1>g, <2>1
<1>5. ASSUME NEW j \in Jobs, Compare(j)
      PROVE  ClustersAreSearched' /\ ClustersHold' /\ GatesPlace'
  <2>1. /\ UNCHANGED <<run, overlapped>> /\ \A i \in Jobs \ {j} : gate'[i] = gate[i]
        /\ gate'[j].run = gate[j].run /\ gate'[j].seen = gate[j].seen /\ AtWork(j)
        /\ gate'[j].clear = gate[j].clear /\ gate'[j].cluster = gate[j].cluster
        /\ gate[j].phase = "read"
        /\ gate'[j].phase = "unique" => gate'[j].verdict = "eligible" /\ gate[j].seen.embedded
    BY <1>0, <1>5 DEF Compare, Gate, AtWork
  <2>2. gate[j].cluster = NoCluster /\ (gate[j].clear => gate[j].seen = run[gate[j].run])
    BY <1>k, <2>1 DEF GatesPlace
  <2> QED
    BY <1>r, <1>g, <2>1, <2>2
<1>6. ASSUME NEW j \in Jobs, Place(j) PROVE ClustersAreSearched' /\ ClustersHold' /\ GatesPlace'
  <2> DEFINE near == Nearest(Clustered(gate[j].run, Agent(gate[j].seen)), Task(gate[j].seen))
  <2>1. PICK c \in IF near = {} THEN {j} ELSE {run[y].cluster : y \in near} :
          gate' = [gate EXCEPT ![j] = [@ EXCEPT !.phase = "placed", !.cluster = c]]
    BY <1>6 DEF Place
  <2>2. AtWork(j) /\ gate[j].run \in Runs /\ gate[j].seen \in RunRow /\ UNCHANGED <<run, overlapped>>
    BY <1>0, <1>6 DEF Place, AtWork, JobsKnown, Gate
  <2>3. /\ \A i \in Jobs \ {j} : gate'[i] = gate[i]
        /\ gate'[j].phase = "placed" /\ gate'[j].cluster = c /\ gate'[j].run = gate[j].run
        /\ gate'[j].seen = gate[j].seen /\ gate'[j].verdict = gate[j].verdict
        /\ gate'[j].clear = gate[j].clear
    BY <1>0, <2>1 DEF Gate
  <2>4. /\ gate[j].verdict = "eligible" /\ gate[j].seen.embedded
        /\ gate[j].clear => gate[j].seen = run[gate[j].run]
    BY <1>k, <1>6, <2>2 DEF GatesPlace, Place
  <2>5. ASSUME NEW y \in Runs \ {gate[j].run}, Placed(y), SameTask(run[y], gate[j].seen),
               Task(run[y]) \notin overlapped
        PROVE  run[y].cluster = c
    <3>0. Task(gate[j].seen) \notin overlapped
      BY <2>5 DEF SameTask
    <3>1. /\ near # {} /\ near \subseteq Runs
          /\ \A z \in near : Placed(z) /\ SameTask(run[z], gate[j].seen)
      BY <1>0, <1>k, <2>2, <2>5, <3>0, NearestIsOfTheTask
    <3>2. PICK z \in near : c = run[z].cluster
      BY <2>1, <3>1
    <3>3. z \in Runs /\ Placed(z) /\ SameTask(run[y], run[z])
      BY <2>5, <3>1, <3>2 DEF SameTask
    <3> HIDE DEF near
    <3> QED
      BY <1>k, <2>5, <3>2, <3>3 DEF ClustersHold
  <2> HIDE DEF near
  <2>6. Placing(gate'[j])
    BY <2>3, <2>4, <2>5
  <2> QED
    BY <1>r, <1>g, <2>2, <2>3, <2>6
<1>7. ASSUME NEW j \in Jobs, Mark(j) PROVE ClustersAreSearched' /\ ClustersHold' /\ GatesPlace'
  <2>0. PICK x \in Runs : x = gate[j].run
    BY <1>0, <1>7 DEF Mark, JobsKnown, AtWork
  <2>1. AtWork(j) /\ gate[j].phase = "placed"
    BY <1>7 DEF Mark, AtWork
  <2>2. /\ run' = [run EXCEPT ![x].verdict = gate[j].verdict, ![x].cluster = gate[j].cluster]
        /\ gate' = [Disturbed(gate, j) EXCEPT ![j] = Over]
        /\ overlapped' = IF gate[j].clear THEN overlapped
                         ELSE overlapped \cup {Task(gate[j].seen), Task(run[x])}
    BY <1>7, <2>0 DEF Mark
  <2>3. /\ \A y \in Runs \ {x} : run'[y] = run[y]
        /\ run'[x].verdict = gate[j].verdict /\ run'[x].cluster = gate[j].cluster
        /\ run'[x].push = run[x].push /\ run'[x].payload = run[x].payload
        /\ run'[x].embedded = run[x].embedded
    BY <1>0, <2>2 DEF RunRow
  <2>4. Task(run'[x]) = Task(run[x]) /\ Agent(run'[x]) = Agent(run[x])
    BY <2>3 DEF Task, Agent
  <2>5. GatesPlace'
    <3>1. gate'[j].phase = "over"
      BY <1>0, <2>2, DisturbedTyped DEF Over, NoGate
    <3>2. /\ Disturbed(gate, j) \in [Jobs -> Gate]
          /\ \A i \in Jobs : /\ Disturbed(gate, j)[i].phase = gate[i].phase
                             /\ Disturbed(gate, j)[i].seen = gate[i].seen
                             /\ Disturbed(gate, j)[i].verdict = gate[i].verdict
                             /\ Disturbed(gate, j)[i].cluster = gate[i].cluster
          /\ \A i \in Jobs : i # j /\ AtWork(i) => Disturbed(gate, j)[i].clear = FALSE
      BY <1>0, DisturbedTyped
    <3>3. \A i \in Jobs \ {j} : gate'[i] = Disturbed(gate, j)[i]
      BY <2>2, <3>2
    <3> QED
      BY <1>d, <3>1, <3>2, <3>3 DEF AtWork
  \* The run that is written is found by the searches that follow, and fits its cluster.
  <2>6. ASSUME Placed(x)', Task(run'[x]) \notin overlapped'
        PROVE  /\ Exists(x)' /\ run'[x].verdict = "eligible" /\ run'[x].embedded
               /\ \A y \in Runs \ {x} :
                    Placed(y) /\ SameTask(run[y], run[x]) => run[y].cluster = run'[x].cluster
    <3>1. gate[j].clear /\ gate[j].cluster # NoCluster /\ overlapped' = overlapped
      BY <2>2, <2>3, <2>4, <2>6 DEF Placed
    <3>2. gate[j].seen = run[x] /\ gate[j].verdict = "eligible" /\ run[x].embedded
      BY <1>k, <2>0, <2>1, <3>1 DEF GatesPlace
    <3>3. Exists(x)
      BY <1>0, <3>2 DEF RowsStand
    <3>4. \A y \in Runs \ {x} : Placed(y) /\ SameTask(run[y], run[x]) => run[y].cluster = gate[j].cluster
      BY <1>k, <2>0, <2>1, <2>4, <2>6, <3>1, <3>2 DEF GatesPlace, SameTask
    <3> QED
      BY <2>3, <3>2, <3>3, <3>4 DEF Exists
  <2>7. \A y \in Runs \ {x} : /\ Placed(y)' => Placed(y)
                              /\ Task(run'[y]) = Task(run[y])
    BY <2>3 DEF Placed
  <2>8. overlapped \subseteq overlapped'
    BY <2>2
  <2>9. ClustersAreSearched'
    BY <1>k, <2>3, <2>6, <2>7, <2>8 DEF ClustersAreSearched, Exists
  <2>10. ClustersHold'
    <3> SUFFICES ASSUME NEW y \in Runs, NEW z \in Runs, Placed(y)', Placed(z)',
                        SameTask(run'[y], run'[z]), Task(run'[y]) \notin overlapped'
                 PROVE  run'[y].cluster = run'[z].cluster
      BY DEF ClustersHold, SameTask, Agent, Task
    <3>0. Task(run'[z]) \notin overlapped'
      BY DEF SameTask
    <3>1. CASE y = x /\ z # x
      BY <2>3, <2>4, <2>6, <2>7, <3>1 DEF SameTask
    <3>2. CASE z = x /\ y # x
      BY <2>3, <2>4, <2>6, <2>7, <3>0, <3>2 DEF SameTask
    <3>3. CASE y # x /\ z # x
      BY <1>k, <2>3, <2>7, <2>8, <3>3 DEF ClustersHold
    <3> QED
      BY <3>1, <3>2, <3>3
  <2> QED
    BY <2>5, <2>9, <2>10
<1>8. ASSUME NEW j \in Jobs, Interrupt(j) \/ DropGate(j)
      PROVE  ClustersAreSearched' /\ ClustersHold' /\ GatesPlace'
  <2>1. /\ UNCHANGED <<run, overlapped>> /\ gate'[j].phase \in {"queued", "over"}
        /\ \A i \in Jobs \ {j} : gate'[i] = gate[i]
    BY <1>0, <1>8 DEF Interrupt, DropGate, NoGate, Over
  <2> QED
    BY <1>r, <1>g, <2>1 DEF AtWork
<1>9. ASSUME NEW q \in Pushes, LoseHandOff(q) PROVE UNCHANGED <<run, overlapped, gate>>
  BY <1>9 DEF LoseHandOff
<1>10. CASE UNCHANGED runVars
  BY <1>3, <1>10 DEF runVars
<1> QED
  BY <1>1, <1>2, <1>3, <1>4, <1>5, <1>6, <1>7, <1>8, <1>9, <1>10 DEF RunsNext, GateStep

\* nearest_cluster (modules/runs/repository.py) puts a run with the nearest that is near
\* enough: while no gate overlaps with another verdict or push on the task, the runs of one
\* agent on one task share a cluster, whichever clusters of other tasks are near.
THEOREM OneClusterHolds == RunsSpec => []OneClusterPerTask
<1>1. ClusterInvariant => OneClusterPerTask
  BY DEF ClusterInvariant, ClustersHold, OneClusterPerTask, Placed, SameTask
<1> QED
  BY <1>1, ClustersStart, ClustersStay, PTL DEF RunsSpec

(***************************************************************************)
(* The agent builder, for any number of agents, fields, connectors and     *)
(* overlapping requests.                                                   *)
(***************************************************************************)
CallRow == [op : {"none", "create", "edit", "add", "remove"},
            phase : {"idle", "loaded", "called"}, agent : Agents, base : Version,
            version : Version, current : Runtime, sent : SUBSET Fields, nulls : SUBSET Fields,
            server : Servers, wanted : SUBSET Servers, gone : BOOLEAN]
RemoteRow == [version : Version, fields : Runtime, tools : SUBSET Servers]

\* The dashboard has seen nothing of an agent that is not stored; it sees no version that
\* has not been made.
VersionsFit(a) ==
  /\ \A v \in shown[a] : 0 < v /\ v <= remote[a].version
  /\ Mirrored(a) => local[a].version \in shown[a]
  /\ shown[a] = {} => connectors[a] = {} /\ remote[a].tools = {}

VersionsShown == \A a \in Agents : VersionsFit(a)

\* What a request holds fits what it is doing.
Fits(c) ==
  LET r == call[c]
      a == call[c].agent
  IN /\ r.phase = "idle" <=> r.op = "none"
     /\ r.op = "create" => /\ r.phase = "called" /\ shown[a] = {} /\ remote[a].version = 1
                           /\ writer[a] = [f \in Fields |-> 1]
     /\ r.op \in {"edit", "add", "remove"} => shown[a] # {}
     /\ r.op = "edit" /\ r.phase = "loaded" => 
          r.sent # {} /\ r.base \in shown[a] \cup {0} /\ r.version \in shown[a]
     /\ r.op = "edit" /\ r.sent = {} => r.version \in shown[a] /\ r.nulls = {}
     /\ r.op \in {"edit", "add", "remove"} /\ r.phase = "called" =>
          0 < r.version /\ r.version <= remote[a].version

CallsFit == \A c \in Calls : Fits(c)
CreatedOnce == \A c, d \in Calls : call[c].op = "create" /\ call[d].op = "create"
                                   /\ call[c].agent = call[d].agent => c = d

\* The edits that Anthropic has taken and the row has not.
EditsOut(a) == {c \in EditsUnderWay(a) : call[c].sent # {}}

\* A row has what the last edits gave, or null.
Agrees(row, w) == \A f \in Fields : row[f] \in {0, w[f]}

RowWhole(a) == EditsOut(a) = {} /\ Agrees(local[a].fields, writer[a])
OneEditOut(a) ==
  \E c \in Calls : /\ EditsOut(a) = {c} /\ \A v \in shown[a] : v < call[c].version
                   /\ Agrees(Merged(c, local[a].fields, call[c].version), writer[a])
EditLost(a) == EditsOut(a) = {} /\ a \in unstored /\ remote[a].version \notin shown[a]

\* The row lacks one edit at most, and then the dashboard has not seen the last version.
Spoilt == overtaken \cup forced
RowFollows(a) == RowWhole(a) \/ OneEditOut(a) \/ EditLost(a)
RowsFollow == \A a \in Agents \ Spoilt : shown[a] # {} => RowFollows(a)

\* A request that is going to pass the version check, or one without a version that read
\* the last, has read the last edits.
Basis(c) == IF call[c].base = 0 THEN call[c].version ELSE call[c].base
Fresh(c) ==
  (call[c].op = "edit" /\ call[c].phase = "loaded" /\ call[c].agent \notin Spoilt
     /\ Basis(c) = remote[call[c].agent].version) =>
    Agrees(call[c].current, writer[call[c].agent])
EditsAreFresh == \A c \in Calls : Fresh(c)

\* The one change of an agent's connectors that is under way.
ChangeUnderWay(a, c) ==
  /\ Changes(a) = {c} /\ ~call[c].gone
  /\ call[c].wanted = Wanted(connectors[a], call[c].op, call[c].server)
  /\ call[c].op = "add" => call[c].server \notin connectors[a]
  /\ remote[a].tools = IF call[c].phase = "called" THEN call[c].wanted ELSE connectors[a]

ToolsAt(a) == \/ Changes(a) = {} /\ remote[a].tools = connectors[a]
              \/ \E c \in Calls : ChangeUnderWay(a, c)
ToolsFollow == \A a \in Agents \ (crossed \cup halted) : ToolsAt(a)

CallsInvariant == BuilderTypeOK /\ VersionsShown /\ CallsFit /\ CreatedOnce
EditsInvariant == CallsInvariant /\ AcceptedEditsSurvive /\ RowsFollow /\ EditsAreFresh
ToolsInvariant == CallsInvariant /\ ToolsFollow

LEMMA NoCallTyped ==
  /\ NoCall \in CallRow /\ NoCall.current = [f \in Fields |-> 0] /\ NoCall.current \in Runtime
  /\ 0 \in Version /\ 1 \in Version /\ [f \in Fields |-> 1] \in Runtime
  /\ NoCall.op = "none" /\ NoCall.phase = "idle" /\ NoCall.sent = {} /\ ~NoCall.gone
  /\ NoCall.nulls = {}
<1>1. 0 \in Version /\ 1 \in Version
  BY BuilderConstants DEF Version
<1>2. [f \in Fields |-> 0] \in Runtime /\ [f \in Fields |-> 1] \in Runtime
  BY <1>1 DEF Runtime
<1>3. (CHOOSE a \in Agents : TRUE) \in Agents /\ (CHOOSE n \in Servers : TRUE) \in Servers
  BY BuilderConstants
<1>4. NoCall.current = [f \in Fields |-> 0]
  BY DEF NoCall
<1> HIDE DEF Runtime
<1>5. NoCall \in CallRow
  BY <1>1, <1>2, <1>3 DEF NoCall, CallRow
<1> QED
  BY <1>1, <1>2, <1>4, <1>5 DEF NoCall

\* The state, typed, with the names of the rows.
RowsAreTyped ==
  /\ remote \in [Agents -> RemoteRow] /\ local \in [Agents -> Definition]
  /\ connectors \in [Agents -> SUBSET Servers] /\ call \in [Calls -> CallRow]
  /\ shown \in [Agents -> SUBSET Version] /\ writer \in [Agents -> Runtime]
  /\ unstored \subseteq Agents /\ overtaken \subseteq Agents /\ crossed \subseteq Agents
  /\ halted \subseteq Agents /\ forced \subseteq Agents

LEMMA TypedRows == BuilderTypeOK <=> RowsAreTyped
BY DEF BuilderTypeOK, RowsAreTyped, RemoteRow, CallRow

LEMMA MergedTyped ==
  ASSUME NEW c \in Calls, NEW old \in Runtime, NEW v \in Version
  PROVE  Merged(c, old, v) \in Runtime
BY BuilderConstants DEF Merged, Runtime, Version

LEMMA AppliedTyped ==
  ASSUME NEW old \in Runtime, NEW new \in Runtime
  PROVE  Applied(old, new) \in Runtime
BY DEF Applied, Runtime

LEMMA BuilderTypesStart == BuilderInit => BuilderTypeOK
<1> SUFFICES ASSUME BuilderInit PROVE RowsAreTyped
  BY TypedRows
<1>1. [version |-> 0, fields |-> NoCall.current, tools |-> {}] \in RemoteRow
  BY NoCallTyped DEF RemoteRow
<1>2. [version |-> 0, fields |-> NoCall.current] \in Definition
  BY NoCallTyped DEF Definition
<1>3. remote \in [Agents -> RemoteRow] /\ local \in [Agents -> Definition]
  BY <1>1, <1>2 DEF BuilderInit
<1> QED
  BY <1>3, NoCallTyped DEF BuilderInit, RowsAreTyped

LEMMA BuilderTypesStay == BuilderTypeOK /\ [BuilderNext]_builderVars => BuilderTypeOK'
<1> SUFFICES ASSUME RowsAreTyped, [BuilderNext]_builderVars PROVE RowsAreTyped'
  BY DEF BuilderTypeOK, RowsAreTyped, RemoteRow, CallRow
<1>0. /\ remote \in [Agents -> RemoteRow] /\ local \in [Agents -> Definition]
      /\ connectors \in [Agents -> SUBSET Servers] /\ call \in [Calls -> CallRow]
      /\ shown \in [Agents -> SUBSET Version] /\ writer \in [Agents -> Runtime]
      /\ unstored \subseteq Agents /\ overtaken \subseteq Agents /\ crossed \subseteq Agents
      /\ halted \subseteq Agents /\ forced \subseteq Agents
  BY DEF RowsAreTyped
<1>c. \A c \in Calls : /\ call[c].agent \in Agents /\ call[c].version \in Version
                       /\ call[c].current \in Runtime /\ call[c].sent \in SUBSET Fields
                       /\ call[c].nulls \in SUBSET Fields
                       /\ call[c].server \in Servers /\ call[c].wanted \in SUBSET Servers
  BY <1>0 DEF CallRow
<1>v. \A a \in Agents : /\ remote[a].version \in Version /\ remote[a].fields \in Runtime
                        /\ remote[a].tools \in SUBSET Servers
                        /\ local[a].version \in Version /\ local[a].fields \in Runtime
  BY <1>0 DEF RemoteRow, Definition
<1>f. ASSUME NEW c \in Calls, Finish(c) PROVE call' \in [Calls -> CallRow]
  BY <1>0, <1>f, NoCallTyped DEF Finish
<1>d. ASSUME NEW c \in Calls, NEW v \in Version, Called(c, v) PROVE call' \in [Calls -> CallRow]
  <2> DEFINE r == [call[c] EXCEPT !.phase = "called", !.version = v]
  <2>1. r \in CallRow
    BY <1>0 DEF CallRow
  <2>2. call' = [call EXCEPT ![c] = r]
    BY <1>0, <1>d DEF Called, CallRow
  <2> QED
    BY <1>0, <2>1, <2>2
<1>s. ASSUME NEW a \in Agents, NEW v \in Version, Show(a, v)
      PROVE  shown' \in [Agents -> SUBSET Version]
  BY <1>0, <1>s DEF Show
<1>n. ASSUME NEW a \in Agents, remote[a].version + 1 <= MaxVersion
      PROVE  remote[a].version + 1 \in Version
  BY <1>v, <1>n, BuilderConstants DEF Version
<1>1. ASSUME NEW c \in Calls, NEW a \in Agents, CallCreate(c, a) PROVE RowsAreTyped'
  <2>1. Created \in RemoteRow
    BY NoCallTyped DEF Created, RemoteRow
  <2>2. [NoCall EXCEPT !.op = "create", !.phase = "called", !.agent = a, !.version = 1] \in CallRow
    BY NoCallTyped DEF CallRow
  <2> QED
    BY <1>0, <1>1, <2>1, <2>2, NoCallTyped DEF CallCreate, RowsAreTyped
<1>2. ASSUME NEW c \in Calls, StoreNew(c) PROVE RowsAreTyped'
  <2> DEFINE a == call[c].agent
             d == [version |-> 1, fields |-> [f \in Fields |-> 1]]
  <2>1. d \in Definition
    BY NoCallTyped DEF Definition
  <2>2. local' = [local EXCEPT ![a] = d] /\ Show(a, 1) /\ Finish(c)
    BY <1>2 DEF StoreNew
  <2>3. shown' \in [Agents -> SUBSET Version] /\ call' \in [Calls -> CallRow]
    BY <1>c, <1>f, <1>s, <2>2, NoCallTyped
  <2>4. local' \in [Agents -> Definition]
    BY <1>0, <2>1, <2>2
  <2> QED
    BY <1>0, <1>2, <2>3, <2>4 DEF StoreNew, RowsAreTyped
<1>3. ASSUME NEW c \in Calls, NEW a \in Agents, NEW base \in Version, NEW given \in SUBSET Fields,
             NEW void \in SUBSET Fields, LoadAgent(c, a, base, given, void)
      PROVE  RowsAreTyped'
  <2> DEFINE r == [NoCall EXCEPT !.op = "edit", !.agent = a, !.base = base,
                     !.phase = IF given = {} THEN "called" ELSE "loaded",
                     !.version = local[a].version, !.current = local[a].fields, !.sent = given,
                     !.nulls = void]
  <2>1. r \in CallRow
    BY <1>v, NoCallTyped DEF CallRow
  <2>2. call' = [call EXCEPT ![c] = r]
    BY <1>3 DEF LoadAgent
  <2>3. call' \in [Calls -> CallRow]
    BY <1>0, <2>1, <2>2
  <2> QED
    BY <1>0, <1>3, <2>3 DEF LoadAgent, RowsAreTyped
<1>4. ASSUME NEW c \in Calls, CallEdit(c) PROVE RowsAreTyped'
  <2> DEFINE a == call[c].agent
             v == remote[a].version + 1
  <2>1. v \in Version /\ a \in Agents
    BY <1>4, <1>c, <1>n DEF CallEdit
  <2>2. CASE Matches(c)
    <3> DEFINE w == [f \in Fields |-> IF f \in call[c].sent \ call[c].nulls THEN v ELSE writer[a][f]]
    <3>1. /\ remote' = [remote EXCEPT ![a] = Updated(c, v)]
          /\ writer' = [writer EXCEPT ![a] = w] /\ Called(c, v)
          /\ forced' = IF Forces(c) THEN forced \cup {a} ELSE forced
      BY <1>4, <2>2 DEF CallEdit
    <3>2. Applied(remote[a].fields, Merged(c, call[c].current, v)) \in Runtime
      BY <1>c, <1>v, <2>1, MergedTyped, AppliedTyped
    <3>3. Updated(c, v) \in RemoteRow
      BY <1>0, <2>1, <3>2 DEF Updated, RemoteRow
    <3>4. call' \in [Calls -> CallRow]
      BY <1>d, <2>1, <3>1
    <3>5. w \in Runtime
      BY <1>0, <2>1 DEF Runtime
    <3>6. forced' \subseteq Agents /\ writer' \in [Agents -> Runtime]
      BY <1>0, <2>1, <3>1, <3>5
    <3> QED
      BY <1>0, <1>4, <3>1, <3>3, <3>4, <3>6 DEF CallEdit, RowsAreTyped
  <2>3. CASE ~Matches(c)
    <3>1. call' \in [Calls -> CallRow] /\ UNCHANGED <<remote, writer, forced>>
      BY <1>4, <1>f, <2>3 DEF CallEdit
    <3> QED
      BY <1>0, <1>4, <3>1 DEF CallEdit, RowsAreTyped
  <2> QED
    BY <2>2, <2>3
<1>5. ASSUME NEW c \in Calls, StoreEdit(c) PROVE RowsAreTyped'
  <2> DEFINE a == call[c].agent
             v == call[c].version
  <2>1. a \in Agents /\ v \in Version /\ Merged(c, local[a].fields, v) \in Runtime
    BY <1>c, <1>v, MergedTyped
  <2>2. /\ local' = [local EXCEPT ![a] = [version |-> v, fields |-> Merged(c, @.fields, v)]]
        /\ Show(a, v) /\ Finish(c)
    BY <1>5 DEF StoreEdit
  <2>3. shown' \in [Agents -> SUBSET Version] /\ call' \in [Calls -> CallRow]
    BY <1>f, <1>s, <2>1, <2>2
  <2>4. [version |-> v, fields |-> Merged(c, local[a].fields, v)] \in Definition
    BY <2>1 DEF Definition
  <2>5. local' \in [Agents -> Definition]
    BY <1>0, <2>2, <2>4
  <2> QED
    BY <1>0, <1>5, <2>3, <2>5 DEF StoreEdit, RowsAreTyped
<1>6. ASSUME NEW c \in Calls, NEW a \in Agents, NEW op \in {"add", "remove"}, NEW n \in Servers,
             LoadConnectors(c, a, op, n)
      PROVE  RowsAreTyped'
  <2> DEFINE r == [NoCall EXCEPT !.op = op, !.phase = "loaded", !.agent = a, !.server = n,
                     !.wanted = Wanted(connectors[a], op, n)]
  <2>1. Wanted(connectors[a], op, n) \in SUBSET Servers
    BY <1>0 DEF Wanted
  <2>2. r \in CallRow
    BY <2>1, NoCallTyped DEF CallRow
  <2>3. call' = [call EXCEPT ![c] = r]
    BY <1>6 DEF LoadConnectors
  <2>4. call' \in [Calls -> CallRow]
    BY <1>0, <2>2, <2>3
  <2> QED
    BY <1>0, <1>6, <2>4 DEF LoadConnectors, RowsAreTyped
<1>7. ASSUME NEW c \in Calls, PushTools(c) PROVE RowsAreTyped'
  <2> DEFINE a == call[c].agent
             v == remote[a].version + 1
  <2>1. v \in Version /\ a \in Agents
    BY <1>7, <1>c, <1>n DEF PushTools
  <2>2. remote' = [remote EXCEPT ![a].version = v, ![a].tools = call[c].wanted] /\ Called(c, v)
    BY <1>7 DEF PushTools
  <2>3. remote' \in [Agents -> RemoteRow] /\ call' \in [Calls -> CallRow]
    BY <1>0, <1>c, <1>d, <2>1, <2>2 DEF RemoteRow
  <2> QED
    BY <1>0, <1>7, <2>3 DEF PushTools, RowsAreTyped
<1>8. ASSUME NEW c \in Calls, StoreVersion(c)
      PROVE  /\ local' \in [Agents -> Definition] /\ shown' \in [Agents -> SUBSET Version]
             /\ overtaken' \subseteq Agents
  BY <1>0, <1>8, <1>c, <1>s DEF StoreVersion, Definition
<1>9. ASSUME NEW c \in Calls, StoreAdded(c) PROVE RowsAreTyped'
  <2>1. /\ call' \in [Calls -> CallRow]
        /\ UNCHANGED <<remote, writer, unstored, crossed, halted, forced>>
    BY <1>9, <1>f DEF StoreAdded
  <2>2. CASE NameTaken(c)
    BY <1>0, <1>9, <2>1, <2>2 DEF StoreAdded, RowsAreTyped
  <2>3. CASE ~NameTaken(c)
    <3>1. /\ connectors' = [connectors EXCEPT ![call[c].agent] = @ \cup {call[c].server}]
          /\ StoreVersion(c)
      BY <1>9, <2>3 DEF StoreAdded
    <3>2. connectors' \in [Agents -> SUBSET Servers]
      BY <1>0, <1>c, <3>1
    <3> QED
      BY <1>0, <1>8, <2>1, <3>1, <3>2 DEF RowsAreTyped
  <2> QED
    BY <2>2, <2>3
<1>10. ASSUME NEW c \in Calls, StoreRemoved(c) PROVE RowsAreTyped'
  <2>1. StoreVersion(c) /\ UNCHANGED <<remote, writer, unstored, crossed, halted, forced>>
    BY <1>10 DEF StoreRemoved
  <2>2. connectors' \in [Agents -> SUBSET Servers]
    BY <1>0, <1>10 DEF StoreRemoved
  <2>3. \A d \in Calls : [call[d] EXCEPT !.gone = TRUE] \in CallRow
    BY <1>0 DEF CallRow
  <2>4. call' \in [Calls -> CallRow]
    BY <1>0, <1>10, <2>3, NoCallTyped DEF StoreRemoved
  <2> QED
    BY <1>0, <1>8, <2>1, <2>2, <2>4 DEF RowsAreTyped
<1>11. ASSUME NEW c \in Calls, FailCall(c) PROVE RowsAreTyped'
  <2>1. call' \in [Calls -> CallRow] /\ unstored' \subseteq Agents /\ halted' \subseteq Agents
    BY <1>0, <1>11, <1>c, <1>f DEF FailCall
  <2> QED
    BY <1>0, <1>11, <2>1 DEF FailCall, RowsAreTyped
<1>12. CASE UNCHANGED builderVars
  BY <1>0, <1>12 DEF builderVars, RowsAreTyped
<1> QED
  BY <1>1, <1>2, <1>3, <1>4, <1>5, <1>6, <1>7, <1>9, <1>10, <1>11, <1>12
  DEF BuilderNext, AddConnector, RemoveConnector

\* The mirror, the agents and the requests are of their types.
THEOREM BuilderTypesHold == BuilderSpec => []BuilderTypeOK
BY BuilderTypesStart, BuilderTypesStay, PTL DEF BuilderSpec

-------------------------------------------------------------------------------
LEMMA VersionsAreNumbers ==
  ASSUME BuilderTypeOK
  PROVE  /\ \A a \in Agents : remote[a].version \in Nat /\ local[a].version \in Nat
                              /\ \A v \in shown[a] : v \in Nat
         /\ \A c \in Calls : call[c].version \in Nat /\ call[c].agent \in Agents
<1>1. Version \subseteq Nat
  BY BuilderConstants DEF Version
<1> QED
  BY <1>1, TypedRows DEF RowsAreTyped, RemoteRow, Definition, CallRow

\* What a step of request c on the agent a leaves alone.
OthersStay(c) ==
  \A d \in Calls \ {c} :
    /\ call'[d].op = call[d].op /\ call'[d].phase = call[d].phase
    /\ call'[d].agent = call[d].agent /\ call'[d].version = call[d].version
    /\ call'[d].base = call[d].base /\ call'[d].sent = call[d].sent
    /\ call'[d].current = call[d].current /\ call'[d].nulls = call[d].nulls
ElsewhereStays(a) ==
  \A b \in Agents \ {a} : /\ remote'[b] = remote[b] /\ writer'[b] = writer[b]
                          /\ local'[b] = local[b] /\ shown'[b] = shown[b]
                          /\ connectors'[b] = connectors[b]
Creates(d, a) == call[d].op = "create" /\ call[d].agent = a

\* A request that goes on fits while versions are only made and shown, and nothing happens
\* to an agent that is being created.
LEMMA FitsKept ==
  ASSUME BuilderTypeOK, BuilderTypeOK', NEW c \in Calls, NEW d \in Calls \ {c}, Fits(d),
         OthersStay(c), NEW a \in Agents, ElsewhereStays(a), ~Creates(d, a),
         shown[a] \subseteq shown'[a], remote[a].version <= remote'[a].version
  PROVE  Fits(d)'
<1> DEFINE b == call[d].agent
<1>1. /\ call'[d].op = call[d].op /\ call'[d].phase = call[d].phase
      /\ call'[d].agent = b /\ call'[d].version = call[d].version
      /\ call'[d].base = call[d].base /\ call'[d].sent = call[d].sent
      /\ call'[d].nulls = call[d].nulls
  BY DEF OthersStay
<1>2. /\ b \in Agents /\ remote[b].version \in Nat /\ remote'[b].version \in Nat
      /\ call[d].version \in Nat
  <2>1. Version \subseteq Nat
    BY BuilderConstants DEF Version
  <2>2. b \in Agents
    BY TypedRows DEF RowsAreTyped, CallRow
  <2> QED
    BY <2>1, <2>2 DEF BuilderTypeOK
<1>3. shown[b] \subseteq shown'[b] /\ remote[b].version <= remote'[b].version
  BY <1>2 DEF ElsewhereStays
<1>4. call[d].op = "create" =>
        shown'[b] = shown[b] /\ remote'[b] = remote[b] /\ writer'[b] = writer[b]
  BY <1>2 DEF Creates, ElsewhereStays
<1> QED
  BY <1>1, <1>2, <1>3, <1>4 DEF Fits

LEMMA CallsStart == BuilderInit => CallsInvariant
<1> SUFFICES ASSUME BuilderInit PROVE CallsInvariant
  OBVIOUS
<1>1. VersionsShown
  BY DEF BuilderInit, VersionsShown, VersionsFit, Mirrored
<1>2. CallsFit /\ CreatedOnce
  BY NoCallTyped DEF BuilderInit, CallsFit, Fits, CreatedOnce
<1> QED
  BY <1>1, <1>2, BuilderTypesStart DEF CallsInvariant

LEMMA CallsStay == CallsInvariant /\ [BuilderNext]_builderVars => CallsInvariant'
<1> SUFFICES ASSUME CallsInvariant, [BuilderNext]_builderVars
             PROVE  VersionsShown' /\ CallsFit' /\ CreatedOnce'
  BY BuilderTypesStay DEF CallsInvariant
<1>t. BuilderTypeOK /\ BuilderTypeOK'
  BY BuilderTypesStay DEF CallsInvariant
<1>0. /\ remote \in [Agents -> RemoteRow] /\ local \in [Agents -> Definition]
      /\ connectors \in [Agents -> SUBSET Servers] /\ call \in [Calls -> CallRow]
      /\ shown \in [Agents -> SUBSET Version] /\ writer \in [Agents -> Runtime]
  BY <1>t, TypedRows DEF RowsAreTyped
<1>k. VersionsShown /\ CallsFit /\ CreatedOnce
  BY DEF CallsInvariant
<1>n. /\ \A a \in Agents : /\ remote[a].version \in Nat /\ local[a].version \in Nat
                           /\ \A v \in shown[a] : v \in Nat
      /\ \A c \in Calls : call[c].version \in Nat /\ call[c].agent \in Agents
  BY <1>t, VersionsAreNumbers
\* An agent the dashboard has seen is not being created; one it has not has no request
\* but its creation.
<1>z. \A c \in Calls : /\ call[c].op = "create" => shown[call[c].agent] = {}
                       /\ call[c].op \in {"edit", "add", "remove"} => shown[call[c].agent] # {}
  BY <1>k DEF CallsFit, Fits
<1>o. \A c \in Calls : call[c].op \in {"none", "create", "edit", "add", "remove"}
  BY <1>0 DEF CallRow
\* A step of request c on the agent a.
<1>s. ASSUME NEW c \in Calls, NEW a \in Agents, OthersStay(c), ElsewhereStays(a),
             VersionsFit(a)', shown[a] \subseteq shown'[a],
             remote[a].version <= remote'[a].version,
             \A d \in Calls \ {c} : ~Creates(d, a), Fits(c)', call'[c].op # "create"
      PROVE  VersionsShown' /\ CallsFit' /\ CreatedOnce'
  <2>1. \A b \in Agents \ {a} : VersionsFit(b)'
    BY <1>k, <1>s DEF VersionsShown, VersionsFit, Mirrored, ElsewhereStays
  <2>2. \A d \in Calls \ {c} : Fits(d)'
    BY <1>k, <1>t, <1>s, FitsKept DEF CallsFit
  <2>3. CreatedOnce'
    BY <1>k, <1>s DEF CreatedOnce, OthersStay
  <2> QED
    BY <1>s, <2>1, <2>2, <2>3 DEF VersionsShown, CallsFit
\* Of an agent that the dashboard has seen.
<1>x. ASSUME NEW a \in Agents, shown[a] # {} PROVE \A d \in Calls : ~Creates(d, a)
  BY <1>z, <1>x DEF Creates
<1>i. ASSUME NEW c \in Calls, Finish(c)
      PROVE  Fits(c)' /\ call'[c].op = "none" /\ OthersStay(c)
  BY <1>0, <1>i, NoCallTyped DEF Finish, Fits, OthersStay
<1>1. ASSUME NEW c \in Calls, NEW a \in Agents, CallCreate(c, a)
      PROVE  VersionsShown' /\ CallsFit' /\ CreatedOnce'
  <2>1. shown[a] = {} /\ connectors[a] = {} /\ ~Mirrored(a)
    BY <1>k, <1>n, <1>1 DEF CallCreate, VersionsShown, VersionsFit
  <2>2. \A d \in Calls : call[d].op # "none" => call[d].agent # a
    BY <1>k, <1>o, <1>z, <1>1, <2>1 DEF CallCreate, CallsFit, Fits
  <2>3. /\ remote'[a] = Created /\ writer'[a] = [f \in Fields |-> 1]
        /\ call'[c].op = "create" /\ call'[c].phase = "called" /\ call'[c].agent = a
        /\ call'[c].version = 1 /\ UNCHANGED <<local, connectors, shown>>
        /\ Created.version = 1 /\ Created.tools = {}
    BY <1>0, <1>1, NoCallTyped DEF CallCreate, Created, CallRow
  <2>4. OthersStay(c) /\ ElsewhereStays(a)
    BY <1>0, <1>1 DEF CallCreate, OthersStay, ElsewhereStays
  <2>5. Fits(c)'
    BY <2>1, <2>3 DEF Fits
  <2>6. VersionsShown'
    BY <1>k, <2>1, <2>3, <2>4 DEF VersionsShown, VersionsFit, Mirrored, ElsewhereStays
  <2>7. /\ \A d \in Calls : ~Creates(d, a)
        /\ shown[a] \subseteq shown'[a] /\ remote[a].version <= remote'[a].version
    BY <1>1, <2>1, <2>2, <2>3 DEF Creates, CallCreate
  <2>8. \A d \in Calls \ {c} : Fits(d)'
    BY <1>k, <1>t, <2>4, <2>7, FitsKept DEF CallsFit
  <2>9. CreatedOnce'
    BY <1>k, <2>2, <2>3, <2>4 DEF CreatedOnce, OthersStay
  <2> QED
    BY <2>5, <2>6, <2>8, <2>9 DEF CallsFit
<1>2. ASSUME NEW c \in Calls, StoreNew(c) PROVE VersionsShown' /\ CallsFit' /\ CreatedOnce'
  <2>0. PICK a \in Agents : a = call[c].agent
    BY <1>n
  <2>1. shown[a] = {} /\ remote[a].version = 1 /\ \A d \in Calls \ {c} : ~Creates(d, a)
    BY <1>k, <1>2, <2>0 DEF StoreNew, CallsFit, Fits, CreatedOnce, Creates
  <2>2. Fits(c)' /\ call'[c].op = "none" /\ OthersStay(c) /\ UNCHANGED <<remote, connectors, writer>>
    BY <1>2, <1>i DEF StoreNew
  <2>3. shown'[a] = {1} /\ local'[a].version = 1 /\ ElsewhereStays(a)
    BY <1>0, <1>2, <2>0, <2>1 DEF StoreNew, Show, ElsewhereStays
  <2>4. VersionsFit(a)'
    BY <2>1, <2>2, <2>3 DEF VersionsFit, Mirrored
  <2> QED
    BY <1>s, <2>1, <2>2, <2>3, <2>4
<1>3. ASSUME NEW c \in Calls, NEW a \in Agents, NEW base \in Version, NEW given \in SUBSET Fields,
             NEW void \in SUBSET Fields, LoadAgent(c, a, base, given, void)
      PROVE  VersionsShown' /\ CallsFit' /\ CreatedOnce'
  <2>1. /\ call'[c].op = "edit" /\ call'[c].agent = a /\ call'[c].base = base
        /\ call'[c].phase = IF given = {} THEN "called" ELSE "loaded"
        /\ call'[c].version = local[a].version /\ call'[c].sent = given
        /\ call'[c].nulls = void /\ void \subseteq given
        /\ UNCHANGED <<remote, local, connectors, shown, writer>>
    BY <1>0, <1>3 DEF LoadAgent, NoCall
  <2>2. OthersStay(c) /\ ElsewhereStays(a)
    BY <1>0, <1>3 DEF LoadAgent, OthersStay, ElsewhereStays
  <2>3. /\ local[a].version \in shown[a] /\ 0 < local[a].version
        /\ local[a].version <= remote[a].version /\ base \in shown[a] \cup {0}
    BY <1>k, <1>3 DEF LoadAgent, VersionsShown, VersionsFit, Mirrored
  <2>4. Fits(c)'
    BY <2>1, <2>3 DEF Fits
  <2>5. VersionsFit(a)' /\ shown[a] # {}
    BY <1>k, <2>1, <2>3 DEF VersionsShown, VersionsFit, Mirrored
  <2>6. remote[a].version <= remote'[a].version
    BY <1>n, <2>1
  <2> QED
    BY <1>s, <1>x, <2>1, <2>2, <2>4, <2>5, <2>6
<1>4. ASSUME NEW c \in Calls, CallEdit(c) PROVE VersionsShown' /\ CallsFit' /\ CreatedOnce'
  <2>0. PICK a \in Agents : a = call[c].agent
    BY <1>n
  <2> DEFINE v == remote[a].version + 1
  <2>1. shown[a] # {} /\ UNCHANGED <<local, connectors, shown>> /\ call[c].op = "edit"
    BY <1>4, <1>z, <2>0 DEF CallEdit
  <2>2. CASE Matches(c)
    <3> DEFINE r == [call[c] EXCEPT !.phase = "called", !.version = v]
    <3>1. /\ remote' = [remote EXCEPT ![a] = Updated(c, v)]
          /\ writer' = [writer EXCEPT ![a] =
               [f \in Fields |-> IF f \in call[c].sent \ call[c].nulls THEN v ELSE @[f]]]
          /\ Called(c, v)
      BY <1>4, <2>0, <2>2 DEF CallEdit
    <3>2. remote'[a].version = v /\ ElsewhereStays(a)
      BY <1>0, <2>0, <2>1, <3>1 DEF Updated, RemoteRow, ElsewhereStays
    <3>3. /\ call'[c].op = "edit" /\ call'[c].phase = "called" /\ call'[c].version = v
          /\ call'[c].agent = a /\ call'[c].sent = call[c].sent
      BY <1>0, <2>0, <2>1, <3>1 DEF Called, CallRow
    <3>4. OthersStay(c)
      BY <1>0, <3>1 DEF Called, OthersStay
    <3>5. call[c].sent # {}
      BY <1>k, <1>4, <2>1 DEF CallEdit, CallsFit, Fits
    <3>6. Fits(c)'
      BY <1>n, <2>1, <3>2, <3>3, <3>5 DEF Fits
    <3>7. VersionsFit(a)' /\ remote[a].version <= remote'[a].version
      <4>1. VersionsFit(a) /\ remote'[a].version = remote[a].version + 1
        BY <1>k, <3>2 DEF VersionsShown
      <4> QED
        BY <1>n, <2>1, <4>1 DEF VersionsFit, Mirrored
    <3> QED
      BY <1>s, <1>x, <2>1, <3>2, <3>3, <3>4, <3>6, <3>7
  <2>3. CASE ~Matches(c)
    <3>1. Finish(c) /\ UNCHANGED <<remote, writer>>
      BY <1>4, <2>3 DEF CallEdit
    <3>2. ElsewhereStays(a) /\ VersionsFit(a)'
      BY <1>k, <2>1, <3>1 DEF ElsewhereStays, VersionsShown, VersionsFit, Mirrored
    <3> QED
      BY <1>i, <1>n, <1>s, <1>x, <2>1, <3>1, <3>2
  <2> QED
    BY <2>2, <2>3
<1>5. ASSUME NEW c \in Calls, StoreEdit(c) PROVE VersionsShown' /\ CallsFit' /\ CreatedOnce'
  <2>0. PICK a \in Agents : a = call[c].agent
    BY <1>n
  <2>1. /\ shown[a] # {} /\ 0 < call[c].version /\ call[c].version <= remote[a].version
    BY <1>k, <1>5, <2>0 DEF StoreEdit, CallsFit, Fits
  <2>2. /\ Fits(c)' /\ call'[c].op = "none" /\ OthersStay(c)
        /\ UNCHANGED <<remote, writer, connectors>>
    BY <1>5, <1>i DEF StoreEdit
  <2>3. /\ shown'[a] = shown[a] \cup {call[c].version} /\ local'[a].version = call[c].version
        /\ ElsewhereStays(a)
    BY <1>0, <1>5, <2>0 DEF StoreEdit, Show, ElsewhereStays
  <2>4. VersionsFit(a)' /\ remote[a].version <= remote'[a].version
    BY <1>k, <1>n, <2>1, <2>2, <2>3 DEF VersionsShown, VersionsFit
  <2> QED
    BY <1>s, <1>x, <2>1, <2>2, <2>3, <2>4
<1>6. ASSUME NEW c \in Calls, NEW a \in Agents, NEW op \in {"add", "remove"}, NEW n \in Servers,
             LoadConnectors(c, a, op, n)
      PROVE  VersionsShown' /\ CallsFit' /\ CreatedOnce'
  <2>1. /\ call'[c].op = op /\ call'[c].agent = a /\ call'[c].phase = "loaded"
        /\ UNCHANGED <<remote, local, connectors, shown, writer>>
    BY <1>0, <1>6 DEF LoadConnectors, NoCall
  <2>2. OthersStay(c) /\ ElsewhereStays(a)
    BY <1>0, <1>6 DEF LoadConnectors, OthersStay, ElsewhereStays
  <2>3. shown[a] # {}
    BY <1>k, <1>6 DEF LoadConnectors, VersionsShown, VersionsFit
  <2>4. Fits(c)'
    BY <2>1, <2>3 DEF Fits
  <2>5. VersionsFit(a)' /\ remote[a].version <= remote'[a].version
    BY <1>k, <1>n, <2>1 DEF VersionsShown, VersionsFit, Mirrored
  <2> QED
    BY <1>s, <1>x, <2>1, <2>2, <2>3, <2>4, <2>5
<1>7. ASSUME NEW c \in Calls, PushTools(c) PROVE VersionsShown' /\ CallsFit' /\ CreatedOnce'
  <2>0. PICK a \in Agents : a = call[c].agent
    BY <1>n
  <2> DEFINE v == remote[a].version + 1
  <2>1. /\ shown[a] # {} /\ UNCHANGED <<local, connectors, shown, writer>>
        /\ call[c].op \in {"add", "remove"}
        /\ remote' = [remote EXCEPT ![a].version = v, ![a].tools = call[c].wanted]
        /\ Called(c, v)
    BY <1>7, <1>z, <2>0 DEF PushTools
  <2>2. remote'[a].version = v /\ ElsewhereStays(a)
    BY <1>0, <2>1 DEF RemoteRow, ElsewhereStays
  <2>3. /\ call'[c].op = call[c].op /\ call'[c].phase = "called" /\ call'[c].version = v
        /\ call'[c].agent = a /\ OthersStay(c)
    BY <1>0, <2>0, <2>1 DEF Called, CallRow, OthersStay
  <2>4. Fits(c)'
    BY <1>n, <2>1, <2>2, <2>3 DEF Fits
  <2>5. VersionsFit(a)' /\ remote[a].version <= remote'[a].version
    <3>1. VersionsFit(a) /\ remote'[a].version = remote[a].version + 1
      BY <1>k, <2>2 DEF VersionsShown
    <3> QED
      BY <1>n, <2>1, <3>1 DEF VersionsFit, Mirrored
  <2> QED
    BY <1>s, <1>x, <2>1, <2>2, <2>3, <2>4, <2>5
<1>8. ASSUME NEW c \in Calls, NEW a \in Agents, a = call[c].agent,
             call[c].op \in {"add", "remove"}, call[c].phase = "called", StoreVersion(c),
             UNCHANGED <<remote, writer>>,
             \A b \in Agents \ {a} : connectors'[b] = connectors[b]
       PROVE  /\ shown[a] # {} /\ shown[a] \subseteq shown'[a] /\ VersionsFit(a)'
              /\ ElsewhereStays(a) /\ remote[a].version <= remote'[a].version
  <2>1. shown[a] # {} /\ 0 < call[c].version /\ call[c].version <= remote[a].version
    BY <1>k, <1>8 DEF CallsFit, Fits
  <2>2. /\ shown' = [shown EXCEPT ![a] = @ \cup {call[c].version}]
        /\ local' = [local EXCEPT ![a].version = call[c].version]
    BY <1>8 DEF StoreVersion, Show
  <2>3. /\ shown'[a] = shown[a] \cup {call[c].version} /\ local'[a].version = call[c].version
        /\ ElsewhereStays(a)
    BY <1>0, <1>8, <2>2 DEF Definition, ElsewhereStays
  <2>4. VersionsFit(a)'
    BY <1>k, <1>8, <2>1, <2>3 DEF VersionsShown, VersionsFit
  <2> QED
    BY <1>n, <1>8, <2>1, <2>3, <2>4
<1>9. ASSUME NEW c \in Calls, StoreAdded(c) PROVE VersionsShown' /\ CallsFit' /\ CreatedOnce'
  <2>0. PICK a \in Agents : a = call[c].agent
    BY <1>n
  <2>1. /\ call[c].op = "add" /\ call[c].phase = "called" /\ shown[a] # {}
        /\ UNCHANGED <<remote, writer>>
        /\ Fits(c)' /\ call'[c].op = "none" /\ OthersStay(c)
    BY <1>9, <1>i, <1>z, <2>0 DEF StoreAdded
  <2>2. CASE NameTaken(c)
    <3>1. UNCHANGED <<local, connectors, shown>>
      BY <1>9, <2>2 DEF StoreAdded
    <3>2. ElsewhereStays(a) /\ VersionsFit(a)' /\ remote[a].version <= remote'[a].version
      BY <1>k, <1>n, <2>1, <3>1 DEF ElsewhereStays, VersionsShown, VersionsFit, Mirrored
    <3> QED
      BY <1>s, <1>x, <2>1, <3>1, <3>2
  <2>3. CASE ~NameTaken(c)
    <3>1. StoreVersion(c) /\ connectors' = [connectors EXCEPT ![a] = @ \cup {call[c].server}]
      BY <1>9, <2>0, <2>3 DEF StoreAdded
    <3>2. \A b \in Agents \ {a} : connectors'[b] = connectors[b]
      BY <1>0, <3>1
    <3>3. /\ shown[a] \subseteq shown'[a] /\ VersionsFit(a)'
          /\ ElsewhereStays(a) /\ remote[a].version <= remote'[a].version
      BY <1>8, <2>0, <2>1, <3>1, <3>2
    <3> QED
      BY <1>s, <1>x, <2>1, <3>3
  <2> QED
    BY <2>2, <2>3
<1>10. ASSUME NEW c \in Calls, StoreRemoved(c) PROVE VersionsShown' /\ CallsFit' /\ CreatedOnce'
  <2>0. PICK a \in Agents : a = call[c].agent
    BY <1>n
  <2>1. /\ call[c].op = "remove" /\ call[c].phase = "called" /\ shown[a] # {} /\ StoreVersion(c)
        /\ UNCHANGED <<remote, writer>>
    BY <1>10, <1>z, <2>0 DEF StoreRemoved
  <2>2. call'[c] = NoCall /\ OthersStay(c)
    BY <1>0, <1>10 DEF StoreRemoved, CallRow, OthersStay
  <2>3. \A b \in Agents \ {a} : connectors'[b] = connectors[b]
    BY <1>0, <1>10, <2>0 DEF StoreRemoved
  <2>4. Fits(c)' /\ call'[c].op = "none"
    BY <2>2, NoCallTyped DEF Fits
  <2>5. /\ shown[a] \subseteq shown'[a] /\ VersionsFit(a)'
        /\ ElsewhereStays(a) /\ remote[a].version <= remote'[a].version
    BY <1>8, <2>0, <2>1, <2>3
  <2> QED
    BY <1>s, <1>x, <2>1, <2>2, <2>4, <2>5
<1>11. ASSUME NEW c \in Calls, FailCall(c) PROVE VersionsShown' /\ CallsFit' /\ CreatedOnce'
  <2>0. PICK a \in Agents : a = call[c].agent
    BY <1>n
  <2>1. UNCHANGED <<remote, local, connectors, shown, writer>>
    BY <1>11 DEF FailCall
  <2>2. Fits(c)' /\ call'[c].op = "none" /\ OthersStay(c)
    BY <1>11, <1>i DEF FailCall
  <2>3. call[c].op # "none"
    BY <1>k, <1>11 DEF FailCall, CallsFit, Fits
  <2>4. \A d \in Calls \ {c} : ~Creates(d, a)
    BY <1>k, <1>o, <1>z, <2>0, <2>3 DEF Creates, CreatedOnce
  <2>5. ElsewhereStays(a) /\ VersionsFit(a)' /\ remote[a].version <= remote'[a].version
    BY <1>k, <1>n, <2>1 DEF ElsewhereStays, VersionsShown, VersionsFit, Mirrored
  <2> QED
    BY <1>s, <2>1, <2>2, <2>4, <2>5
<1>12. CASE UNCHANGED builderVars
  BY <1>k, <1>12 DEF builderVars, VersionsShown, VersionsFit, Mirrored, CallsFit, Fits, CreatedOnce
<1> QED
  BY <1>1, <1>2, <1>3, <1>4, <1>5, <1>6, <1>7, <1>9, <1>10, <1>11, <1>12
  DEF BuilderNext, AddConnector, RemoveConnector

-------------------------------------------------------------------------------
LEMMA EditsStart == BuilderInit => EditsInvariant
<1> SUFFICES ASSUME BuilderInit PROVE EditsInvariant
  OBVIOUS
<1>1. AcceptedEditsSurvive /\ RowsFollow
  BY DEF BuilderInit, AcceptedEditsSurvive, RowsFollow
<1>2. EditsAreFresh
  BY NoCallTyped DEF BuilderInit, EditsAreFresh, Fresh
<1> QED
  BY <1>1, <1>2, CallsStart DEF EditsInvariant

LEMMA EditsStay == EditsInvariant /\ [BuilderNext]_builderVars => EditsInvariant'
<1> SUFFICES ASSUME EditsInvariant, [BuilderNext]_builderVars
             PROVE  AcceptedEditsSurvive' /\ RowsFollow' /\ EditsAreFresh'
  BY CallsStay DEF EditsInvariant
<1>t. BuilderTypeOK /\ BuilderTypeOK'
  BY BuilderTypesStay DEF EditsInvariant, CallsInvariant
<1>0. /\ remote \in [Agents -> RemoteRow] /\ local \in [Agents -> Definition]
      /\ connectors \in [Agents -> SUBSET Servers] /\ call \in [Calls -> CallRow]
      /\ shown \in [Agents -> SUBSET Version] /\ writer \in [Agents -> Runtime]
  BY <1>t, TypedRows DEF RowsAreTyped
<1>k. VersionsShown /\ CallsFit /\ CreatedOnce /\ VersionsShown'
  BY CallsStay DEF EditsInvariant, CallsInvariant
<1>e. AcceptedEditsSurvive /\ RowsFollow /\ EditsAreFresh
  BY DEF EditsInvariant
<1>n. /\ \A a \in Agents : /\ remote[a].version \in Nat /\ local[a].version \in Nat
                           /\ \A v \in shown[a] : v \in Nat
      /\ \A c \in Calls : call[c].version \in Nat /\ call[c].agent \in Agents
  BY <1>t, VersionsAreNumbers
<1>o. \A c \in Calls : call[c].op \in {"none", "create", "edit", "add", "remove"}
  BY <1>0 DEF CallRow
<1>i. ASSUME NEW c \in Calls, Finish(c) PROVE call'[c].op = "none" /\ OthersStay(c)
  BY <1>0, <1>i, NoCallTyped DEF Finish, OthersStay
<1>u. \A a \in Agents : \A c \in EditsOut(a) :
        /\ c \in Calls /\ call[c].op = "edit" /\ call[c].agent = a /\ call[c].phase = "called"
        /\ call[c].version \in Nat /\ call[c].version <= remote[a].version
  BY <1>k, <1>n DEF EditsOut, EditsUnderWay, CallsFit, Fits
\* What becomes of the edits that are out in a step of request c.
<1>q. ASSUME NEW c \in Calls, OthersStay(c), NEW a \in Agents
      PROVE  /\ EditsOut(a)' \ {c} = EditsOut(a) \ {c}
             /\ \A d \in EditsOut(a) \ {c} : call'[d].version = call[d].version
                                             /\ call'[d].sent = call[d].sent
  BY <1>q DEF OthersStay, EditsOut, EditsUnderWay
<1>g. ASSUME NEW c \in Calls, call[c].op = "edit", call[c].phase = "loaded"
      PROVE  Basis(c) \in shown[call[c].agent]
  BY <1>k, <1>g DEF CallsFit, Fits, Basis
<1>j. \A a \in Agents : a \notin Spoilt <=> a \notin overtaken /\ a \notin forced
  BY DEF Spoilt
\* The last version was shown: then nothing is out.
<1>w. ASSUME NEW a \in Agents \ Spoilt, remote[a].version \in shown[a] PROVE RowWhole(a)
  <2>1. RowFollows(a)
    BY <1>e, <1>w DEF RowsFollow
  <2>2. ~OneEditOut(a)
    <3> SUFFICES ASSUME NEW c \in Calls, EditsOut(a) = {c}, \A v \in shown[a] : v < call[c].version
                 PROVE  FALSE
      BY DEF OneEditOut
    <3>1. call[c].version <= remote[a].version /\ call[c].version \in Nat
      BY <1>u
    <3> QED
      BY <1>n, <1>w, <3>1
  <2> QED
    BY <1>w, <2>1, <2>2 DEF RowFollows, EditLost
\* The edits of an agent that no step of an edit touches.
<1>m. ASSUME NEW c \in Calls, OthersStay(c), NEW a \in Agents, c \notin EditsOut(a),
             c \notin EditsOut(a)', RowFollows(a), local'[a].fields = local[a].fields,
             writer'[a] = writer[a], shown'[a] = shown[a], unstored \subseteq unstored',
             remote'[a].version = remote[a].version \/ remote'[a].version = remote[a].version + 1
      PROVE  RowFollows(a)'
  <2>0. EditsOut(a)' \ {c} = EditsOut(a) \ {c}
    BY <1>q, <1>m
  <2>1. EditsOut(a)' = EditsOut(a)
    BY <1>m, <2>0
  <2>2. CASE RowWhole(a)
    BY <1>m, <2>1, <2>2 DEF RowFollows, RowWhole
  <2>3. CASE OneEditOut(a)
    <3>1. PICK d \in Calls : /\ EditsOut(a) = {d} /\ \A v \in shown[a] : v < call[d].version
                             /\ Agrees(Merged(d, local[a].fields, call[d].version), writer[a])
      BY <2>3 DEF OneEditOut
    <3>2. /\ d # c /\ call'[d].version = call[d].version /\ call'[d].sent = call[d].sent
          /\ call'[d].nulls = call[d].nulls
      BY <1>m, <3>1 DEF OthersStay
    <3>3. Agrees(Merged(d, local[a].fields, call[d].version), writer[a])'
      BY <1>m, <3>1, <3>2 DEF Merged, Agrees
    <3> QED
      BY <1>m, <2>1, <3>1, <3>2, <3>3 DEF RowFollows, OneEditOut
  <2>4. CASE EditLost(a)
    <3>1. remote'[a].version \notin shown[a]
      BY <1>k, <1>m, <1>n, <2>4 DEF EditLost, VersionsShown, VersionsFit
    <3> QED
      BY <1>m, <2>1, <2>4, <3>1 DEF RowFollows, EditLost
  <2> QED
    BY <1>m, <2>2, <2>3, <2>4 DEF RowFollows
\* A step of request c on the agent a.
<1> DEFINE On(r, a) == r.op # "none" => r.agent = a
<1>s. ASSUME NEW c \in Calls, NEW a \in Agents, OthersStay(c), ElsewhereStays(a),
             On(call[c], a), On(call'[c], a),
             Spoilt \subseteq Spoilt', unstored \subseteq unstored',
             a \notin Spoilt' => remote'[a].fields = writer'[a],
             a \notin Spoilt' /\ shown'[a] # {} => RowFollows(a)', Fresh(c)',
             \/ remote'[a].version = remote[a].version /\ writer'[a] = writer[a]
             \/ remote'[a].version = remote[a].version + 1
      PROVE  AcceptedEditsSurvive' /\ RowsFollow' /\ EditsAreFresh'
  <2>1. AcceptedEditsSurvive'
    BY <1>e, <1>s DEF AcceptedEditsSurvive, ElsewhereStays, Spoilt
  <2>2. ASSUME NEW b \in Agents \ Spoilt', b # a, shown'[b] # {} PROVE RowFollows(b)'
    <3>1. /\ remote'[b] = remote[b] /\ writer'[b] = writer[b] /\ local'[b] = local[b]
          /\ shown'[b] = shown[b] /\ b \in Agents \ Spoilt
      BY <1>s, <2>2 DEF ElsewhereStays
    <3>2. RowFollows(b)
      BY <1>e, <2>2, <3>1 DEF RowsFollow
    <3>3. c \notin EditsOut(b) /\ c \notin EditsOut(b)'
      BY <1>s, <2>2 DEF EditsOut, EditsUnderWay
    <3> QED
      BY <1>m, <1>s, <3>1, <3>2, <3>3
  <2>3. RowsFollow'
    BY <1>s, <2>2 DEF RowsFollow
  <2>4. ASSUME NEW d \in Calls \ {c} PROVE Fresh(d)'
    <3> SUFFICES ASSUME call[d].op = "edit", call[d].phase = "loaded", NEW b, b = call[d].agent,
                        b \notin Spoilt', Basis(d) = remote'[b].version
                 PROVE  Agrees(call[d].current, writer'[b])
      BY <1>s DEF Fresh, OthersStay, Basis
    <3>1. b \in Agents /\ Basis(d) \in shown[b] /\ Fresh(d) /\ b \notin Spoilt
      BY <1>e, <1>g, <1>n, <1>s DEF EditsAreFresh
    <3>2. CASE b = a
      <4>1. remote'[a].version = remote[a].version /\ writer'[a] = writer[a]
        BY <1>k, <1>n, <1>s, <3>1, <3>2 DEF VersionsShown, VersionsFit
      <4> QED
        BY <3>1, <3>2, <4>1 DEF Fresh
    <3>3. CASE b # a
      BY <1>s, <3>1, <3>3 DEF Fresh, ElsewhereStays
    <3> QED
      BY <3>2, <3>3
  <2> QED
    BY <1>s, <2>1, <2>3, <2>4 DEF EditsAreFresh
\* A step that changes nothing an edit sees.
<1>p. ASSUME NEW c \in Calls, NEW a \in Agents, OthersStay(c), ElsewhereStays(a),
             On(call[c], a), On(call'[c], a), UNCHANGED <<overtaken, forced>>, unstored \subseteq unstored',
             c \notin EditsOut(a), c \notin EditsOut(a)', Fresh(c)',
             local'[a].fields = local[a].fields, writer'[a] = writer[a], shown'[a] = shown[a],
             remote'[a].fields = remote[a].fields,
             remote'[a].version = remote[a].version \/ remote'[a].version = remote[a].version + 1
      PROVE  AcceptedEditsSurvive' /\ RowsFollow' /\ EditsAreFresh'
  <2>1. a \notin Spoilt' => remote'[a].fields = writer'[a]
    BY <1>e, <1>j, <1>p DEF AcceptedEditsSurvive, Spoilt
  <2>2. a \notin Spoilt' /\ shown'[a] # {} => RowFollows(a)'
    BY <1>e, <1>m, <1>p DEF RowsFollow, Spoilt
  <2> QED
    BY <1>p, <1>s, <2>1, <2>2 DEF Spoilt
<1>1. ASSUME NEW c \in Calls, NEW a \in Agents, CallCreate(c, a)
      PROVE  AcceptedEditsSurvive' /\ RowsFollow' /\ EditsAreFresh'
  <2>1. OthersStay(c) /\ ElsewhereStays(a)
    BY <1>0, <1>1 DEF CallCreate, OthersStay, ElsewhereStays
  <2>2. /\ call[c].op = "none" /\ call'[c].op = "create" /\ call'[c].agent = a
        /\ remote'[a].fields = writer'[a] /\ remote'[a].version = remote[a].version + 1
        /\ UNCHANGED <<shown, overtaken, forced, unstored>>
    BY <1>0, <1>k, <1>1, NoCallTyped DEF CallCreate, Created, CallsFit, Fits
  <2>3. shown[a] = {}
    BY <1>k, <1>n, <1>1 DEF CallCreate, VersionsShown, VersionsFit
  <2>4. Fresh(c)'
    BY <2>2 DEF Fresh
  <2> QED
    BY <1>s, <2>1, <2>2, <2>3, <2>4 DEF Spoilt
<1>2. ASSUME NEW c \in Calls, StoreNew(c)
      PROVE  AcceptedEditsSurvive' /\ RowsFollow' /\ EditsAreFresh'
  <2>0. PICK a \in Agents : a = call[c].agent
    BY <1>n
  <2>1. OthersStay(c) /\ call'[c].op = "none" /\ UNCHANGED <<remote, writer, overtaken, forced, unstored>>
    BY <1>2, <1>i DEF StoreNew
  <2>2. /\ shown[a] = {} /\ writer[a] = [f \in Fields |-> 1] /\ call[c].op = "create"
    BY <1>k, <1>2, <2>0 DEF StoreNew, CallsFit, Fits
  <2>3. local'[a].fields = [f \in Fields |-> 1] /\ ElsewhereStays(a)
    BY <1>0, <1>2, <2>0 DEF StoreNew, Show, ElsewhereStays
  <2>4. EditsOut(a)' = {}
    <3>1. EditsOut(a) = {}
      BY <1>k, <2>2 DEF EditsOut, EditsUnderWay, CallsFit, Fits
    <3>2. c \notin EditsOut(a)'
      BY <2>1 DEF EditsOut, EditsUnderWay
    <3> QED
      BY <1>q, <2>1, <3>1, <3>2
  <2>5. RowFollows(a)'
    BY <2>1, <2>2, <2>3, <2>4 DEF RowFollows, RowWhole, Agrees
  <2>6. Fresh(c)' /\ (a \notin Spoilt' => remote'[a].fields = writer'[a])
    BY <1>e, <2>1 DEF Fresh, AcceptedEditsSurvive, Spoilt
  <2> QED
    BY <1>s, <2>0, <2>1, <2>3, <2>5, <2>6 DEF Spoilt
<1>3. ASSUME NEW c \in Calls, NEW a \in Agents, NEW base \in Version, NEW given \in SUBSET Fields,
             NEW void \in SUBSET Fields, LoadAgent(c, a, base, given, void)
      PROVE  AcceptedEditsSurvive' /\ RowsFollow' /\ EditsAreFresh'
  <2>1. /\ call'[c].op = "edit" /\ call'[c].agent = a /\ call'[c].base = base
        /\ call'[c].phase = IF given = {} THEN "called" ELSE "loaded"
        /\ call'[c].current = local[a].fields /\ call'[c].sent = given /\ call[c].phase = "idle"
        /\ call'[c].version = local[a].version
        /\ UNCHANGED <<remote, local, shown, writer, overtaken, forced, unstored>>
    BY <1>0, <1>3 DEF LoadAgent, NoCall
  <2>2. OthersStay(c) /\ ElsewhereStays(a)
    BY <1>0, <1>3 DEF LoadAgent, OthersStay, ElsewhereStays
  <2>3. c \notin EditsOut(a) /\ c \notin EditsOut(a)' /\ call[c].op = "none"
    BY <1>k, <2>1 DEF EditsOut, EditsUnderWay, CallsFit, Fits
  <2>4. Fresh(c)'
    <3>1. base \in shown[a] \cup {0} /\ local[a].version \in shown[a]
      BY <1>k, <1>3 DEF LoadAgent, VersionsShown, VersionsFit
    <3> SUFFICES ASSUME a \notin Spoilt, remote[a].version \in shown[a]
                 PROVE  Agrees(local[a].fields, writer[a])
      BY <2>1, <3>1 DEF Fresh, Basis, Spoilt
    <3> QED
      BY <1>w DEF RowWhole
  <2> QED
    BY <1>p, <2>1, <2>2, <2>3, <2>4
<1>4. ASSUME NEW c \in Calls, CallEdit(c)
      PROVE  AcceptedEditsSurvive' /\ RowsFollow' /\ EditsAreFresh'
  <2>0. PICK a \in Agents : a = call[c].agent
    BY <1>n
  <2>v. PICK v : v = remote[a].version + 1
    OBVIOUS
  <2>1. /\ call[c].op = "edit" /\ call[c].phase = "loaded" /\ call[c].sent # {}
        /\ Basis(c) \in shown[a] /\ UNCHANGED <<local, shown, overtaken, unstored>>
        /\ shown[a] # {}
    BY <1>g, <1>k, <1>4, <2>0 DEF CallEdit, CallsFit, Fits
  <2>2. CASE Matches(c)
    <3>1. /\ remote' = [remote EXCEPT ![a] = Updated(c, v)]
          /\ writer' = [writer EXCEPT ![a] =
               [f \in Fields |-> IF f \in call[c].sent \ call[c].nulls THEN v ELSE @[f]]]
          /\ forced' = (IF Forces(c) THEN forced \cup {a} ELSE forced) /\ Called(c, v)
      BY <1>4, <2>0, <2>2, <2>v DEF CallEdit
    <3>2. /\ remote'[a].version = v
          /\ remote'[a].fields = Applied(remote[a].fields, Merged(c, call[c].current, v))
          /\ \A f \in Fields : writer'[a][f] =
               IF f \in call[c].sent \ call[c].nulls THEN v ELSE writer[a][f]
      BY <1>0, <2>0, <3>1 DEF Updated, RemoteRow
    <3>3. OthersStay(c) /\ ElsewhereStays(a) /\ Spoilt \subseteq Spoilt'
      BY <1>0, <2>0, <2>1, <3>1, <1>4 DEF CallEdit, Called, OthersStay, ElsewhereStays, Spoilt
    <3>4. /\ call'[c].op = "edit" /\ call'[c].phase = "called" /\ call'[c].version = v
          /\ call'[c].agent = a /\ call'[c].sent = call[c].sent
          /\ call'[c].nulls = call[c].nulls
      BY <1>0, <2>0, <2>1, <3>1 DEF Called, CallRow
    <3>n. v \in Nat /\ v # 0
      BY <1>n, <2>v
    <3>5. ASSUME a \notin Spoilt'
          PROVE  /\ remote[a].version \in shown[a] /\ a \notin Spoilt
                 /\ remote[a].fields = writer[a] /\ Agrees(call[c].current, writer[a])
      <4>1. ~Forces(c) /\ a \notin Spoilt
        BY <2>1, <3>1, <3>3, <3>5 DEF Spoilt
      <4>2. Basis(c) = remote[a].version
        BY <2>0, <2>2, <4>1 DEF Basis, Forces, Matches
      <4>3. Agrees(call[c].current, writer[a])
        BY <1>e, <2>0, <2>1, <4>1, <4>2 DEF EditsAreFresh, Fresh
      <4> QED
        BY <1>e, <2>1, <4>1, <4>2, <4>3 DEF AcceptedEditsSurvive, Spoilt
    <3>6. ASSUME a \notin Spoilt' PROVE remote'[a].fields = writer'[a]
      <4>1. \A f \in Fields : Applied(remote[a].fields, Merged(c, call[c].current, v))[f]
                                = writer'[a][f]
        BY <3>2, <3>5, <3>6, <3>n DEF Applied, Merged, Agrees
      <4>2. remote'[a].fields \in Runtime /\ writer'[a] \in Runtime
        BY <1>t DEF BuilderTypeOK
      <4> QED
        BY <3>2, <4>1, <4>2 DEF Runtime
    <3>7. ASSUME a \notin Spoilt' PROVE RowFollows(a)'
      <4>1. RowWhole(a)
        BY <1>w, <3>5, <3>7
      <4>2. EditsOut(a)' = {c}
        <5>1. EditsOut(a) = {}
          BY <4>1 DEF RowWhole
        <5>2. c \in EditsOut(a)'
          BY <2>1, <3>4 DEF EditsOut, EditsUnderWay
        <5> QED
          BY <1>q, <3>3, <5>1, <5>2
      <4>3. Agrees(Merged(c, local[a].fields, call[c].version), writer[a])'
        BY <2>1, <3>2, <3>4, <4>1 DEF Merged, RowWhole, Agrees
      <4>4. \A w \in shown[a] : w < v
        BY <1>k, <1>n, <2>v DEF VersionsShown, VersionsFit
      <4> QED
        BY <2>1, <3>4, <4>2, <4>3, <4>4 DEF RowFollows, OneEditOut
    <3>8. Fresh(c)'
      BY <3>4 DEF Fresh
    <3> QED
      BY <1>s, <2>0, <2>1, <2>v, <3>2, <3>3, <3>4, <3>6, <3>7, <3>8
  <2>3. CASE ~Matches(c)
    <3>1. Finish(c) /\ UNCHANGED <<remote, writer, forced>>
      BY <1>4, <2>3 DEF CallEdit
    <3>2. /\ OthersStay(c) /\ call'[c].op = "none" /\ ElsewhereStays(a)
          /\ c \notin EditsOut(a) /\ c \notin EditsOut(a)' /\ Fresh(c)'
      BY <1>4, <1>i, <2>1, <3>1 DEF CallEdit, ElsewhereStays, EditsOut, EditsUnderWay, Fresh
    <3> QED
      BY <1>p, <2>0, <2>1, <3>1, <3>2
  <2> QED
    BY <2>2, <2>3
<1>5. ASSUME NEW c \in Calls, StoreEdit(c)
      PROVE  AcceptedEditsSurvive' /\ RowsFollow' /\ EditsAreFresh'
  <2>0. PICK a \in Agents : a = call[c].agent
    BY <1>n
  <2> DEFINE v == call[c].version
  <2>1. /\ call[c].op = "edit" /\ call[c].phase = "called" /\ call'[c].op = "none" /\ OthersStay(c)
        /\ UNCHANGED <<remote, writer, overtaken, forced, unstored>>
    BY <1>5, <1>i DEF StoreEdit
  <2>2. /\ local'[a].fields = Merged(c, local[a].fields, v)
        /\ shown'[a] = shown[a] \cup {v} /\ ElsewhereStays(a)
    BY <1>0, <1>5, <2>0 DEF StoreEdit, Show, ElsewhereStays
  <2>3. Fresh(c)' /\ c \notin EditsOut(a)'
    BY <2>1 DEF Fresh, EditsOut, EditsUnderWay
  <2>n. call[c].sent = {} => call[c].nulls = {}
    BY <1>k, <2>1 DEF CallsFit, Fits
  <2>4. CASE call[c].sent = {}
    <3>1. v \in shown[a]
      BY <1>k, <2>0, <2>1, <2>4 DEF CallsFit, Fits
    <3>2. local[a].fields \in Runtime
      BY <1>0 DEF Definition
    <3>3. local'[a].fields = local[a].fields /\ shown'[a] = shown[a]
      BY <2>2, <2>4, <2>n, <3>1, <3>2 DEF Merged, Runtime
    <3>4. c \notin EditsOut(a)
      BY <2>4 DEF EditsOut
    <3> QED
      BY <1>p, <2>0, <2>1, <2>2, <2>3, <3>3, <3>4
  <2>5. CASE call[c].sent # {}
    <3>1. c \in EditsOut(a)
      BY <2>0, <2>1, <2>5 DEF EditsOut, EditsUnderWay
    <3>2. ASSUME a \notin Spoilt' PROVE RowFollows(a)'
      <4>1. shown[a] # {}
        BY <1>k, <2>0, <2>1 DEF CallsFit, Fits
      <4>2. RowFollows(a)
        BY <1>e, <2>1, <3>2, <4>1 DEF RowsFollow, Spoilt
      <4>3. EditsOut(a) = {c} /\ Agrees(Merged(c, local[a].fields, v), writer[a])
        BY <3>1, <4>2 DEF RowFollows, RowWhole, EditLost, OneEditOut
      <4>4. EditsOut(a)' = {}
        BY <1>q, <2>1, <2>3, <4>3
      <4> QED
        BY <2>1, <2>2, <4>3, <4>4 DEF RowFollows, RowWhole
    <3>3. a \notin Spoilt' => remote'[a].fields = writer'[a]
      BY <1>e, <2>1 DEF AcceptedEditsSurvive, Spoilt
    <3> QED
      BY <1>s, <2>0, <2>1, <2>2, <2>3, <3>2, <3>3 DEF Spoilt
  <2> QED
    BY <2>4, <2>5
<1>6. ASSUME NEW c \in Calls, NEW a \in Agents, NEW op \in {"add", "remove"}, NEW n \in Servers,
             LoadConnectors(c, a, op, n)
      PROVE  AcceptedEditsSurvive' /\ RowsFollow' /\ EditsAreFresh'
  <2>1. /\ call'[c].op = op /\ call'[c].agent = a /\ call[c].phase = "idle"
        /\ UNCHANGED <<remote, local, shown, writer, overtaken, forced, unstored>>
    BY <1>0, <1>6 DEF LoadConnectors, NoCall
  <2>2. OthersStay(c) /\ ElsewhereStays(a)
    BY <1>0, <1>6 DEF LoadConnectors, OthersStay, ElsewhereStays
  <2>3. /\ c \notin EditsOut(a) /\ c \notin EditsOut(a)' /\ call[c].op = "none" /\ Fresh(c)'
    BY <1>k, <2>1 DEF EditsOut, EditsUnderWay, CallsFit, Fits, Fresh
  <2> QED
    BY <1>p, <2>1, <2>2, <2>3
<1>7. ASSUME NEW c \in Calls, PushTools(c)
      PROVE  AcceptedEditsSurvive' /\ RowsFollow' /\ EditsAreFresh'
  <2>0. PICK a \in Agents : a = call[c].agent
    BY <1>n
  <2> DEFINE v == remote[a].version + 1
  <2>1. /\ UNCHANGED <<local, connectors, shown, writer, overtaken, forced, unstored>>
        /\ call[c].op \in {"add", "remove"}
        /\ remote' = [remote EXCEPT ![a].version = v, ![a].tools = call[c].wanted]
        /\ Called(c, v)
    BY <1>7, <2>0 DEF PushTools
  <2>2. remote'[a].version = v /\ remote'[a].fields = remote[a].fields /\ ElsewhereStays(a)
    BY <1>0, <2>1 DEF RemoteRow, ElsewhereStays
  <2>3. call'[c].op = call[c].op /\ call'[c].agent = a /\ OthersStay(c)
    BY <1>0, <2>0, <2>1 DEF Called, CallRow, OthersStay
  <2>4. c \notin EditsOut(a) /\ c \notin EditsOut(a)' /\ Fresh(c)'
    BY <2>1, <2>3 DEF EditsOut, EditsUnderWay, Fresh
  <2> QED
    BY <1>p, <2>0, <2>1, <2>2, <2>3, <2>4
\* A store of connectors that shows a version: no edit is out, or the agent is overtaken.
<1>8. ASSUME NEW c \in Calls, NEW a \in Agents, a = call[c].agent, call[c].op \in {"add", "remove"},
             StoreVersion(c), OthersStay(c), call'[c].op = "none",
             UNCHANGED <<remote, writer, unstored, forced>>,
             \A b \in Agents \ {a} : connectors'[b] = connectors[b]
      PROVE  AcceptedEditsSurvive' /\ RowsFollow' /\ EditsAreFresh'
  <2>1. /\ local'[a].fields = local[a].fields /\ Spoilt \subseteq Spoilt'
        /\ a \notin Spoilt' => EditsUnderWay(a) = {} /\ a \notin unstored /\ a \notin Spoilt
    BY <1>0, <1>8 DEF StoreVersion, Definition, Spoilt
  <2>2. ElsewhereStays(a)
    BY <1>0, <1>8 DEF StoreVersion, Show, ElsewhereStays
  <2>3. ASSUME a \notin Spoilt' PROVE RowFollows(a)'
    <3>1. shown[a] # {} /\ EditsOut(a) = {}
      BY <1>k, <1>8, <2>1, <2>3 DEF CallsFit, Fits, EditsOut
    <3>2. RowFollows(a)
      BY <1>e, <2>1, <2>3, <3>1 DEF RowsFollow
    <3>3. RowWhole(a)
      BY <2>1, <2>3, <3>1, <3>2 DEF RowFollows, OneEditOut, EditLost
    <3>4. EditsOut(a)' = {}
      <4>1. c \notin EditsOut(a)'
        BY <1>8 DEF EditsOut, EditsUnderWay
      <4> QED
        BY <1>q, <1>8, <3>1, <4>1
    <3> QED
      BY <1>8, <2>1, <3>3, <3>4 DEF RowFollows, RowWhole
  <2>4. Fresh(c)' /\ (a \notin Spoilt' => remote'[a].fields = writer'[a])
    BY <1>e, <1>8, <2>1 DEF Fresh, AcceptedEditsSurvive, Spoilt
  <2> QED
    BY <1>s, <1>8, <2>1, <2>2, <2>3, <2>4
<1>9. ASSUME NEW c \in Calls, StoreAdded(c)
      PROVE  AcceptedEditsSurvive' /\ RowsFollow' /\ EditsAreFresh'
  <2>0. PICK a \in Agents : a = call[c].agent
    BY <1>n
  <2>1. /\ call[c].op = "add" /\ UNCHANGED <<remote, writer, unstored, forced>>
        /\ call'[c].op = "none" /\ OthersStay(c)
    BY <1>9, <1>i DEF StoreAdded
  <2>2. CASE NameTaken(c)
    <3>1. UNCHANGED <<local, connectors, shown, overtaken>>
      BY <1>9, <2>2 DEF StoreAdded
    <3>2. /\ ElsewhereStays(a) /\ c \notin EditsOut(a) /\ c \notin EditsOut(a)' /\ Fresh(c)'
      BY <2>1, <3>1 DEF ElsewhereStays, EditsOut, EditsUnderWay, Fresh
    <3> QED
      BY <1>p, <2>0, <2>1, <3>1, <3>2
  <2>3. CASE ~NameTaken(c)
    <3>1. StoreVersion(c) /\ connectors' = [connectors EXCEPT ![a] = @ \cup {call[c].server}]
      BY <1>9, <2>0, <2>3 DEF StoreAdded
    <3>2. \A b \in Agents \ {a} : connectors'[b] = connectors[b]
      BY <1>0, <3>1
    <3> QED
      BY <1>8, <2>0, <2>1, <3>1, <3>2
  <2> QED
    BY <2>2, <2>3
<1>10. ASSUME NEW c \in Calls, StoreRemoved(c)
       PROVE  AcceptedEditsSurvive' /\ RowsFollow' /\ EditsAreFresh'
  <2>0. PICK a \in Agents : a = call[c].agent
    BY <1>n
  <2>1. call[c].op = "remove" /\ StoreVersion(c) /\ UNCHANGED <<remote, writer, unstored, forced>>
    BY <1>10 DEF StoreRemoved
  <2>2. call'[c] = NoCall /\ OthersStay(c)
    BY <1>0, <1>10 DEF StoreRemoved, CallRow, OthersStay
  <2>3. \A b \in Agents \ {a} : connectors'[b] = connectors[b]
    BY <1>0, <1>10, <2>0 DEF StoreRemoved
  <2> QED
    BY <1>8, <2>0, <2>1, <2>2, <2>3, NoCallTyped
<1>11. ASSUME NEW c \in Calls, FailCall(c)
       PROVE  AcceptedEditsSurvive' /\ RowsFollow' /\ EditsAreFresh'
  <2>0. PICK a \in Agents : a = call[c].agent
    BY <1>n
  <2>1. /\ UNCHANGED <<remote, local, connectors, shown, writer, overtaken, forced>>
        /\ call'[c].op = "none" /\ OthersStay(c) /\ unstored \subseteq unstored'
        /\ c \in EditsUnderWay(a) => a \in unstored'
    BY <1>11, <1>i, <2>0 DEF FailCall
  <2>2. ElsewhereStays(a) /\ Fresh(c)' /\ c \notin EditsOut(a)'
    BY <2>1 DEF ElsewhereStays, Fresh, EditsOut, EditsUnderWay
  <2>3. CASE c \notin EditsOut(a)
    BY <1>p, <2>0, <2>1, <2>2, <2>3
  <2>4. CASE c \in EditsOut(a)
    <3>1. ASSUME a \notin Spoilt' PROVE RowFollows(a)'
      <4>1. shown[a] # {}
        BY <1>k, <2>0, <2>4 DEF CallsFit, Fits, EditsOut, EditsUnderWay
      <4>2. RowFollows(a)
        BY <1>e, <2>1, <3>1, <4>1 DEF RowsFollow, Spoilt
      <4>3. EditsOut(a) = {c} /\ \A w \in shown[a] : w < call[c].version
        BY <2>4, <4>2 DEF RowFollows, RowWhole, EditLost, OneEditOut
      <4>4. call[c].version <= remote[a].version /\ call[c].version \in Nat
        BY <1>u, <2>4
      <4>5. remote[a].version \notin shown[a]
        BY <1>n, <4>3, <4>4
      <4>6. EditsOut(a)' = {} /\ a \in unstored'
        BY <1>q, <2>1, <2>2, <2>4, <4>3 DEF EditsOut
      <4> QED
        BY <2>1, <4>5, <4>6 DEF RowFollows, EditLost
    <3>2. a \notin Spoilt' => remote'[a].fields = writer'[a]
      BY <1>e, <2>1 DEF AcceptedEditsSurvive, Spoilt
    <3> QED
      BY <1>s, <2>0, <2>1, <2>2, <3>1, <3>2 DEF Spoilt
  <2> QED
    BY <2>3, <2>4
<1>12. CASE UNCHANGED builderVars
  <2>1. AcceptedEditsSurvive' /\ EditsAreFresh'
    BY <1>e, <1>12 DEF builderVars, AcceptedEditsSurvive, EditsAreFresh, Fresh, Basis, Spoilt
  <2>2. \A a \in Agents : EditsOut(a)' = EditsOut(a)
    BY <1>12 DEF builderVars, EditsOut, EditsUnderWay
  <2>3. \A a \in Agents : OneEditOut(a) => OneEditOut(a)'
    BY <1>12, <2>2 DEF builderVars, OneEditOut, Merged
  <2>4. \A a \in Agents : RowFollows(a) => RowFollows(a)'
    BY <1>12, <2>2, <2>3 DEF builderVars, RowFollows, RowWhole, EditLost
  <2>5. RowsFollow'
    BY <1>e, <1>12, <2>4 DEF builderVars, RowsFollow, Spoilt
  <2> QED
    BY <2>1, <2>5
<1> QED
  BY <1>1, <1>2, <1>3, <1>4, <1>5, <1>6, <1>7, <1>9, <1>10, <1>11, <1>12
  DEF BuilderNext, AddConnector, RemoveConnector

\* AgentsService.update_agent (modules/agents/service.py) sends the whole configuration with
\* the version the dashboard saw, or none: however saves of an agent overlap with each other
\* and with connector changes, and fail half-way, an accepted save takes back no other
\* save's field, unless a save without a version went over one its row did not have, or a
\* connector change was stored while a save that Anthropic had taken was not.
THEOREM SavesSurvive == BuilderSpec => []AcceptedEditsSurvive
<1>1. EditsInvariant => AcceptedEditsSurvive
  BY DEF EditsInvariant
<1> QED
  BY <1>1, EditsStart, EditsStay, PTL DEF BuilderSpec

-------------------------------------------------------------------------------
\* What a step of a request leaves of the connectors of an agent.
ToolsUntouched(b) ==
  /\ remote'[b].tools = remote[b].tools /\ connectors'[b] = connectors[b]
  /\ Changes(b)' = Changes(b) /\ \A d \in Changes(b) : call'[d] = call[d]
CallsUntouched(c) == \A d \in Calls \ {c} : call'[d] = call[d]
IsChange(r) == r.op \in {"add", "remove"}

LEMMA ToolsStart == BuilderInit => ToolsInvariant
<1> SUFFICES ASSUME BuilderInit PROVE ToolsFollow
  BY CallsStart DEF ToolsInvariant
<1>1. \A a \in Agents : Changes(a) = {} /\ remote[a].tools = connectors[a]
  BY NoCallTyped DEF BuilderInit, Changes
<1> QED
  BY <1>1 DEF ToolsFollow, ToolsAt

LEMMA ToolsKept ==
  ASSUME NEW b \in Agents, ToolsUntouched(b), ToolsAt(b) PROVE ToolsAt(b)'
<1>1. CASE Changes(b) = {} /\ remote[b].tools = connectors[b]
  BY <1>1 DEF ToolsUntouched, ToolsAt
<1>2. ASSUME NEW c \in Calls, ChangeUnderWay(b, c) PROVE ChangeUnderWay(b, c)'
  <2>1. call'[c] = call[c] /\ Changes(b)' = {c}
    BY <1>2 DEF ToolsUntouched, ChangeUnderWay
  <2> QED
    BY <1>2, <2>1 DEF ToolsUntouched, ChangeUnderWay, Wanted
<1> QED
  BY <1>1, <1>2 DEF ToolsAt

LEMMA ToolsStay == ToolsInvariant /\ [BuilderNext]_builderVars => ToolsInvariant'
<1> SUFFICES ASSUME ToolsInvariant, [BuilderNext]_builderVars PROVE ToolsFollow'
  BY CallsStay DEF ToolsInvariant
<1>t. BuilderTypeOK /\ BuilderTypeOK'
  BY BuilderTypesStay DEF ToolsInvariant, CallsInvariant
<1>0. /\ remote \in [Agents -> RemoteRow] /\ connectors \in [Agents -> SUBSET Servers]
      /\ call \in [Calls -> CallRow]
  BY <1>t, TypedRows DEF RowsAreTyped
<1>k. VersionsShown /\ CallsFit /\ ToolsFollow
  BY DEF ToolsInvariant, CallsInvariant
<1>n. /\ \A a \in Agents : remote[a].version \in Nat /\ \A v \in shown[a] : v \in Nat
      /\ \A c \in Calls : call[c].agent \in Agents
  BY <1>t, VersionsAreNumbers
<1>i. ASSUME NEW c \in Calls, Finish(c) PROVE call'[c].op = "none" /\ CallsUntouched(c)
  BY <1>0, <1>i, NoCallTyped DEF Finish, CallsUntouched
<1>o. ASSUME NEW c \in Calls, call[c].phase = "idle" PROVE call[c].op = "none"
  BY <1>k, <1>o DEF CallsFit, Fits
\* A step on the agent a.
<1>s. ASSUME NEW a \in Agents, \A b \in Agents \ {a} : ToolsUntouched(b),
             crossed \subseteq crossed', halted \subseteq halted',
             a \notin crossed' \cup halted' => ToolsAt(a)'
      PROVE  ToolsFollow'
  <2>1. ASSUME NEW b \in Agents \ {a}, b \notin crossed' \cup halted' PROVE ToolsAt(b)'
    BY <1>k, <1>s, <2>1, ToolsKept DEF ToolsFollow
  <2> QED
    BY <1>s, <2>1 DEF ToolsFollow
\* The agents that request c is not a change of.
<1>v. ASSUME NEW c \in Calls, CallsUntouched(c), NEW b \in Agents, remote'[b].tools = remote[b].tools,
             connectors'[b] = connectors[b], IsChange(call[c]) => call[c].agent # b,
             IsChange(call'[c]) => call'[c].agent # b
      PROVE  ToolsUntouched(b)
  BY <1>v DEF CallsUntouched, IsChange, Changes, ToolsUntouched
\* A step of a request that is no change of connectors.
<1>u. ASSUME NEW c \in Calls, CallsUntouched(c), ~IsChange(call[c]), ~IsChange(call'[c]),
             \A b \in Agents : remote'[b].tools = remote[b].tools,
             UNCHANGED <<connectors, crossed>>, halted \subseteq halted'
      PROVE  ToolsFollow'
  <2>1. \A b \in Agents : ToolsUntouched(b)
    BY <1>u, <1>v
  <2> QED
    BY <1>k, <1>u, <2>1, ToolsKept DEF ToolsFollow
\* The change of an agent that neither overlaps nor was cut short.
<1>w. ASSUME NEW c \in Calls, IsChange(call[c]), NEW a \in Agents, a = call[c].agent,
             a \notin crossed \cup halted
      PROVE  ChangeUnderWay(a, c)
  <2>1. c \in Changes(a) /\ ToolsAt(a)
    BY <1>k, <1>w DEF IsChange, Changes, ToolsFollow
  <2>2. PICK d \in Calls : ChangeUnderWay(a, d)
    BY <2>1 DEF ToolsAt
  <2>3. d = c
    BY <2>1, <2>2 DEF ChangeUnderWay
  <2> QED
    BY <2>2, <2>3
\* The end of the one change.
<1>e. ASSUME NEW c \in Calls, NEW a \in Agents, Changes(a) = {c}, call'[c].op = "none",
             \A d \in Calls \ {c} : call'[d].op = call[d].op /\ call'[d].agent = call[d].agent
      PROVE  Changes(a)' = {}
  BY <1>e DEF Changes
<1>1. ASSUME NEW c \in Calls, NEW a \in Agents, CallCreate(c, a) PROVE ToolsFollow'
  <2>1. /\ remote[a].version = 0 /\ remote' = [remote EXCEPT ![a] = Created]
        /\ call[c].op = "none" /\ UNCHANGED <<connectors, crossed, halted>>
    BY <1>1, <1>o DEF CallCreate
  <2>2. remote[a].tools = {}
    BY <1>k, <1>n, <2>1 DEF VersionsShown, VersionsFit
  <2>3. \A b \in Agents : remote'[b].tools = remote[b].tools
    BY <1>0, <2>1, <2>2 DEF Created
  <2>4. CallsUntouched(c) /\ call'[c].op = "create"
    BY <1>0, <1>1 DEF CallCreate, CallsUntouched, NoCall
  <2> QED
    BY <1>u, <2>1, <2>3, <2>4 DEF IsChange
<1>2. ASSUME NEW c \in Calls, StoreNew(c) PROVE ToolsFollow'
  <2>1. /\ call[c].op = "create" /\ Finish(c) /\ UNCHANGED <<remote, connectors, crossed, halted>>
    BY <1>2 DEF StoreNew
  <2> QED
    BY <1>i, <1>u, <2>1 DEF IsChange
<1>3. ASSUME NEW c \in Calls, NEW a \in Agents, NEW base \in Version, NEW given \in SUBSET Fields,
             NEW void \in SUBSET Fields, LoadAgent(c, a, base, given, void)
      PROVE  ToolsFollow'
  <2>1. call[c].op = "none" /\ UNCHANGED <<remote, connectors, crossed, halted>>
    BY <1>3, <1>o DEF LoadAgent
  <2>2. CallsUntouched(c) /\ call'[c].op = "edit"
    BY <1>0, <1>3 DEF LoadAgent, CallsUntouched, NoCall
  <2> QED
    BY <1>u, <2>1, <2>2 DEF IsChange
<1>4. ASSUME NEW c \in Calls, CallEdit(c) PROVE ToolsFollow'
  <2>0. PICK a \in Agents : a = call[c].agent
    BY <1>n
  <2>1. call[c].op = "edit" /\ UNCHANGED <<connectors, crossed, halted>>
    BY <1>4 DEF CallEdit
  <2>2. CASE Matches(c)
    <3>1. PICK v : remote' = [remote EXCEPT ![a] = Updated(c, v)] /\ Called(c, v)
      BY <1>4, <2>0, <2>2 DEF CallEdit
    <3>2. \A b \in Agents : remote'[b].tools = remote[b].tools
      BY <1>0, <2>0, <3>1 DEF Updated, RemoteRow
    <3>3. CallsUntouched(c) /\ call'[c].op = "edit"
      BY <1>0, <2>1, <3>1 DEF Called, CallsUntouched, CallRow
    <3> QED
      BY <1>u, <2>1, <3>2, <3>3 DEF IsChange
  <2>3. CASE ~Matches(c)
    <3>1. Finish(c) /\ UNCHANGED remote
      BY <1>4, <2>3 DEF CallEdit
    <3> QED
      BY <1>i, <1>u, <2>1, <3>1 DEF IsChange
  <2> QED
    BY <2>2, <2>3
<1>5. ASSUME NEW c \in Calls, StoreEdit(c) PROVE ToolsFollow'
  <2>1. call[c].op = "edit" /\ Finish(c) /\ UNCHANGED <<remote, connectors, crossed, halted>>
    BY <1>5 DEF StoreEdit
  <2> QED
    BY <1>i, <1>u, <2>1 DEF IsChange
<1>6. ASSUME NEW c \in Calls, NEW a \in Agents, NEW op \in {"add", "remove"}, NEW n \in Servers,
             LoadConnectors(c, a, op, n), op = "add" => n \notin connectors[a]
      PROVE  ToolsFollow'
  <2>1. /\ call[c].op = "none" /\ UNCHANGED <<remote, connectors, halted>>
        /\ crossed' = IF Changes(a) # {} THEN crossed \cup {a} ELSE crossed
    BY <1>6, <1>o DEF LoadConnectors
  <2>2. /\ CallsUntouched(c) /\ call'[c].op = op /\ call'[c].agent = a /\ call'[c].server = n
        /\ call'[c].phase = "loaded" /\ ~call'[c].gone
        /\ call'[c].wanted = Wanted(connectors[a], op, n)
    BY <1>0, <1>6 DEF LoadConnectors, CallsUntouched, NoCall
  <2>3. \A b \in Agents \ {a} : ToolsUntouched(b)
    BY <1>v, <2>1, <2>2 DEF IsChange
  <2>4. ASSUME a \notin crossed' \cup halted' PROVE ToolsAt(a)'
    <3>1. Changes(a) = {} /\ remote[a].tools = connectors[a]
      BY <1>k, <2>1, <2>4 DEF ToolsFollow, ToolsAt, ChangeUnderWay
    <3>2. Changes(a)' = {c}
      BY <2>2, <3>1 DEF Changes, CallsUntouched
    <3>3. ChangeUnderWay(a, c)'
      BY <1>6, <2>1, <2>2, <3>1, <3>2 DEF ChangeUnderWay
    <3> QED
      BY <3>3 DEF ToolsAt
  <2> QED
    BY <1>s, <2>1, <2>3, <2>4
<1>7. ASSUME NEW c \in Calls, PushTools(c) PROVE ToolsFollow'
  <2>0. PICK a \in Agents : a = call[c].agent
    BY <1>n
  <2>1. PICK v : /\ remote' = [remote EXCEPT ![a].version = v, ![a].tools = call[c].wanted]
                 /\ Called(c, v) /\ call[c].op \in {"add", "remove"}
                 /\ UNCHANGED <<connectors, crossed, halted>>
    BY <1>7, <2>0 DEF PushTools
  <2>2. /\ CallsUntouched(c) /\ call'[c].op = call[c].op /\ call'[c].agent = a
        /\ call'[c].server = call[c].server /\ call'[c].phase = "called"
        /\ call'[c].gone = call[c].gone /\ call'[c].wanted = call[c].wanted
    BY <1>0, <2>0, <2>1 DEF Called, CallsUntouched, CallRow
  <2>3. /\ remote'[a].tools = call[c].wanted
        /\ \A b \in Agents \ {a} : remote'[b].tools = remote[b].tools
    BY <1>0, <2>1 DEF RemoteRow
  <2>4. \A b \in Agents \ {a} : ToolsUntouched(b)
    BY <1>v, <2>0, <2>1, <2>2, <2>3
  <2>5. ASSUME a \notin crossed' \cup halted' PROVE ToolsAt(a)'
    <3>1. ChangeUnderWay(a, c)
      BY <1>w, <2>0, <2>1, <2>5 DEF IsChange
    <3>2. Changes(a)' = {c}
      BY <2>0, <2>1, <2>2, <3>1 DEF Changes, CallsUntouched, ChangeUnderWay
    <3>3. ChangeUnderWay(a, c)'
      BY <2>1, <2>2, <2>3, <3>1, <3>2 DEF ChangeUnderWay, Wanted
    <3> QED
      BY <3>3 DEF ToolsAt
  <2> QED
    BY <1>s, <2>1, <2>4, <2>5
<1>9. ASSUME NEW c \in Calls, StoreAdded(c) PROVE ToolsFollow'
  <2>0. PICK a \in Agents : a = call[c].agent
    BY <1>n
  <2>1. /\ call[c].op = "add" /\ call[c].phase = "called" /\ Finish(c)
        /\ UNCHANGED <<remote, crossed, halted>>
    BY <1>9 DEF StoreAdded
  <2>2. call'[c].op = "none" /\ CallsUntouched(c)
    BY <1>i, <2>1
  <2>3. connectors' = IF NameTaken(c) THEN connectors
                      ELSE [connectors EXCEPT ![a] = @ \cup {call[c].server}]
    BY <1>9, <2>0 DEF StoreAdded
  <2>4. \A b \in Agents \ {a} : connectors'[b] = connectors[b]
    BY <1>0, <2>3
  <2>5. \A b \in Agents \ {a} : ToolsUntouched(b)
    BY <1>v, <2>0, <2>1, <2>2, <2>4 DEF IsChange
  <2>6. ASSUME a \notin crossed' \cup halted' PROVE ToolsAt(a)'
    <3>1. ChangeUnderWay(a, c)
      BY <1>w, <2>0, <2>1, <2>6 DEF IsChange
    <3>2. connectors'[a] = connectors[a] \cup {call[c].server}
      BY <1>0, <2>0, <2>1, <2>3, <3>1 DEF ChangeUnderWay, NameTaken
    <3>3. remote'[a].tools = connectors'[a]
      BY <2>1, <3>1, <3>2 DEF ChangeUnderWay, Wanted
    <3>4. Changes(a)' = {}
      BY <1>e, <2>2, <3>1 DEF ChangeUnderWay, CallsUntouched
    <3> QED
      BY <3>3, <3>4 DEF ToolsAt
  <2> QED
    BY <1>s, <2>1, <2>5, <2>6
<1>10. ASSUME NEW c \in Calls, StoreRemoved(c) PROVE ToolsFollow'
  <2>0. PICK a \in Agents : a = call[c].agent
    BY <1>n
  <2>1. /\ call[c].op = "remove" /\ call[c].phase = "called"
        /\ UNCHANGED <<remote, crossed, halted>>
        /\ connectors' = IF call[c].gone THEN connectors
                         ELSE [connectors EXCEPT ![a] = @ \ {call[c].server}]
    BY <1>10, <2>0 DEF StoreRemoved
  <2>2. /\ call'[c].op = "none"
        /\ \A d \in Calls \ {c} :
             /\ call'[d].op = call[d].op /\ call'[d].agent = call[d].agent
             /\ (call[d].op = "remove" /\ call[d].agent = a) \/ call'[d] = call[d]
    BY <1>0, <1>10, <2>0, NoCallTyped DEF StoreRemoved, CallRow
  <2>3. ASSUME NEW b \in Agents \ {a} PROVE ToolsUntouched(b)
    <3>1. connectors'[b] = connectors[b]
      BY <1>0, <2>1
    <3>2. Changes(b)' = Changes(b) /\ \A d \in Changes(b) : call'[d] = call[d]
      BY <2>0, <2>2 DEF Changes
    <3> QED
      BY <2>1, <3>1, <3>2 DEF ToolsUntouched
  <2>4. ASSUME a \notin crossed' \cup halted' PROVE ToolsAt(a)'
    <3>1. ChangeUnderWay(a, c)
      BY <1>w, <2>0, <2>1, <2>4 DEF IsChange
    <3>2. connectors'[a] = connectors[a] \ {call[c].server}
      BY <1>0, <2>1, <3>1 DEF ChangeUnderWay
    <3>3. remote'[a].tools = connectors'[a]
      BY <2>1, <3>1, <3>2 DEF ChangeUnderWay, Wanted
    <3>4. Changes(a)' = {}
      BY <1>e, <2>2, <3>1 DEF ChangeUnderWay
    <3> QED
      BY <3>3, <3>4 DEF ToolsAt
  <2> QED
    BY <1>s, <2>1, <2>3, <2>4
<1>11. ASSUME NEW c \in Calls, FailCall(c) PROVE ToolsFollow'
  <2>0. PICK a \in Agents : a = call[c].agent
    BY <1>n
  <2>1. /\ call[c].phase # "idle" /\ Finish(c) /\ UNCHANGED <<remote, connectors, crossed>>
        /\ halted' = IF c \in Changes(a) /\ call[c].phase = "called"
                     THEN halted \cup {a} ELSE halted
    BY <1>11, <2>0 DEF FailCall
  <2>2. call'[c].op = "none" /\ CallsUntouched(c)
    BY <1>i, <2>1
  <2>3. CASE ~IsChange(call[c])
    BY <1>u, <2>1, <2>2, <2>3 DEF IsChange
  <2>4. CASE IsChange(call[c])
    <3>1. \A b \in Agents \ {a} : ToolsUntouched(b)
      BY <1>v, <2>0, <2>1, <2>2 DEF IsChange
    <3>2. ASSUME a \notin crossed' \cup halted' PROVE ToolsAt(a)'
      <4>1. ChangeUnderWay(a, c)
        BY <1>w, <2>0, <2>1, <2>4, <3>2
      <4>2. call[c].phase # "called" /\ Changes(a)' = {}
        BY <1>e, <2>1, <2>2, <3>2, <4>1 DEF ChangeUnderWay, CallsUntouched
      <4> QED
        BY <2>1, <4>1, <4>2 DEF ChangeUnderWay, ToolsAt
    <3> QED
      BY <1>s, <2>1, <3>1, <3>2
  <2> QED
    BY <2>3, <2>4
<1>12. CASE UNCHANGED builderVars
  <2>1. \A b \in Agents : ToolsUntouched(b)
    BY <1>12 DEF builderVars, ToolsUntouched, Changes
  <2> QED
    BY <1>k, <1>12, <2>1, ToolsKept DEF builderVars, ToolsFollow
<1>13. ASSUME NEW c \in Calls, NEW a \in Agents, NEW n \in Servers,
              AddConnector(c, a, n) \/ RemoveConnector(c, a, n)
       PROVE  ToolsFollow'
  <2>1. CASE AddConnector(c, a, n)
    BY <1>6, <2>1 DEF AddConnector
  <2>2. CASE RemoveConnector(c, a, n)
    BY <1>6, <2>2 DEF RemoveConnector
  <2> QED
    BY <1>13, <2>1, <2>2
<1> QED
  BY <1>1, <1>2, <1>3, <1>4, <1>5, <1>7, <1>9, <1>10, <1>11, <1>12, <1>13 DEF BuilderNext

\* AgentsService._push_tools (modules/agents/service.py) sends the whole set of connectors
\* with no version: while the changes of an agent's connectors neither overlap nor stop
\* between the call and the store, the agent runs with exactly the connectors that are
\* stored, whatever saves, failures and changes of other agents come between.
THEOREM ConnectorsMatch == BuilderSpec => []ConnectorsAreDeclared
<1>1. ToolsInvariant => ConnectorsAreDeclared
  BY DEF ToolsInvariant, ToolsFollow, ToolsAt, ChangeUnderWay, ConnectorsAreDeclared
<1> QED
  BY <1>1, ToolsStart, ToolsStay, PTL DEF BuilderSpec

\* A set of naturals has a least member.
LEMMA NatOrder ==
  \E R : IsWellFoundedOn(R, Nat) /\ \A x, y \in Nat : x < y => <<x, y>> \in R
BY NatLessThanWellFounded DEF OpToRel

\* A set with every natural whose predecessors it has is all of them.
LEMMA AllNaturals ==
  ASSUME NEW T, \A n \in Nat : (\A m \in Nat : m < n => m \in T) => n \in T
  PROVE  Nat \subseteq T
<1> SUFFICES ASSUME Nat \ T # {} PROVE FALSE
  OBVIOUS
<1>1. PICK R : IsWellFoundedOn(R, Nat) /\ \A x, y \in Nat : x < y => <<x, y>> \in R
  BY NatOrder
<1>2. PICK x \in Nat \ T : \A y \in Nat \ T : ~(<<y, x>> \in R)
  <2>1. IsWellFoundedOn(R, Nat) /\ Nat \ T \subseteq Nat /\ Nat \ T # {}
    BY <1>1
  <2> QED BY <2>1, WFMin
<1>3. \A y \in Nat : y < x => y \in T
  BY <1>1, <1>2
<1> QED BY <1>2, <1>3

\* The last of a finite set of numbers.
LEMMA LastIsThere ==
  ASSUME NEW n \in Nat, NEW S \in SUBSET (1..n), S # {}
  PROVE  LastOf(S) \in S /\ \A l \in S : l <= LastOf(S)
<1> DEFINE T == {k \in Nat : k <= n => \A U \in SUBSET (1..k) :
                   U # {} => \E x \in U : \A l \in U : l <= x}
<1>1. ASSUME NEW k \in Nat, \A m \in Nat : m < k => m \in T PROVE k \in T
  <2> SUFFICES ASSUME k <= n, NEW U \in SUBSET (1..k), U # {}
               PROVE  \E x \in U : \A l \in U : l <= x
    OBVIOUS
  <2>1. CASE k \in U
    BY <2>1
  <2>2. CASE k \notin U
    <3>1. k # 0
      <4> HIDE DEF T
      <4>1. PICK x \in U : TRUE
        OBVIOUS
      <4> QED BY <4>1
    <3>2. k - 1 \in Nat /\ k - 1 < k /\ k - 1 <= n /\ U \in SUBSET (1..(k - 1))
      BY <2>2, <3>1
    <3>3. k - 1 \in T
      <4> HIDE DEF T
      <4> QED BY <3>2, <1>1
    <3> QED BY <3>2, <3>3
  <2> QED BY <2>1, <2>2
<1>2. n \in T
  <2> HIDE DEF T
  <2> QED BY <1>1, AllNaturals
<1>3. \E x \in S : \A l \in S : l <= x
  BY <1>2
<1>4. PICK x \in S : \A l \in S : l <= x
  BY <1>3
<1> QED BY <1>4 DEF LastOf

\* u is the walk that InOrder makes over f.
Walks(S, n, f, u) ==
  u = [k \in 0..n |-> IF k = 0 THEN <<>>
                      ELSE IF k \in S THEN Append(u[k - 1], f[k]) ELSE u[k - 1]]

Picked(S, n, f) == {f[k] : k \in S \cap (1..n)}

LEMMA WalkExists ==
  ASSUME NEW S, NEW f, NEW n \in Nat PROVE \E u : Walks(S, n, f, u)
<1> DEFINE Step(u, k) == IF k = 0 THEN <<>>
                         ELSE IF k \in S THEN Append(u[k - 1], f[k]) ELSE u[k - 1]
           T == {m \in Nat : \E u : u = [k \in 0..m |-> Step(u, k)]}
<1>1. ASSUME NEW m \in Nat, \A l \in Nat : l < m => l \in T PROVE m \in T
  <2>1. CASE m = 0
    <3> DEFINE u == [k \in 0..m |-> <<>>]
    <3>1. u = [k \in 0..m |-> Step(u, k)]
      BY <2>1
    <3> HIDE DEF u, Step
    <3> QED BY <3>1
  <2>2. CASE m # 0
    <3>1. m - 1 \in Nat /\ m - 1 < m
      BY <2>2
    <3>2. m - 1 \in T
      <4> HIDE DEF T
      <4> QED BY <3>1, <1>1
    <3>3. PICK u : u = [k \in 0..(m - 1) |-> Step(u, k)]
      <4> HIDE DEF Step
      <4> QED BY <3>2
    <3> DEFINE v == [k \in 0..m |-> IF k = m THEN Step(u, k) ELSE u[k]]
    <3>4. ASSUME NEW k \in 0..m PROVE v[k] = Step(v, k)
      <4>1. CASE k = 0
        <5>1. v[k] = u[0]
          BY <4>1, <2>2
        <5>2. u[0] = Step(u, 0)
          <6>1. 0 \in 0..(m - 1)
            BY <3>1
          <6> HIDE DEF Step
          <6> QED BY <6>1, <3>3
        <5> QED BY <5>1, <5>2, <4>1
      <4>2. CASE k # 0
        <5>1. k - 1 \in 0..(m - 1) /\ k - 1 \in 0..m /\ k - 1 # m
          BY <4>2
        <5>2. v[k - 1] = u[k - 1]
          <6> HIDE DEF Step
          <6> QED BY <5>1
        <5>3. Step(v, k) = Step(u, k)
          <6> HIDE DEF v
          <6> QED BY <5>2
        <5>4. v[k] = Step(u, k)
          <6>1. CASE k = m
            <7> HIDE DEF Step
            <7> QED BY <6>1
          <6>2. CASE k # m
            <7>1. k \in 0..(m - 1)
              BY <6>2
            <7> HIDE DEF Step
            <7> QED BY <7>1, <3>3, <6>2
          <6> QED BY <6>1, <6>2
        <5> HIDE DEF Step, v
        <5> QED BY <5>3, <5>4
      <4> QED BY <4>1, <4>2
    <3>5. v = [k \in 0..m |-> v[k]]
      OBVIOUS
    <3>6. v = [k \in 0..m |-> Step(v, k)]
      <4> HIDE DEF v, Step
      <4> QED BY <3>4, <3>5
    <3> HIDE DEF v, Step
    <3> QED BY <3>6
  <2> QED BY <2>1, <2>2
<1>2. n \in T
  <2> HIDE DEF T
  <2> QED BY <1>1, AllNaturals
<1>3. PICK u : u = [k \in 0..n |-> Step(u, k)]
  <2> HIDE DEF Step
  <2> QED BY <1>2
<1> QED BY <1>3 DEF Walks

\* What a walk collects: the items of S up to n, all of them and no others.
LEMMA WalkCollects ==
  ASSUME NEW S, NEW f, NEW n \in Nat, NEW u, Walks(S, n, f, u)
  PROVE  /\ u[n] \in Seq(Picked(S, n, f))
         /\ \A m \in S \cap (1..n) : \E e \in DOMAIN u[n] : u[n][e] = f[m]
<1> DEFINE A == Picked(S, n, f)
           Good(k) == /\ u[k] \in Seq(A)
                      /\ \A m \in S \cap (1..k) : \E e \in DOMAIN u[k] : u[k][e] = f[m]
           T == {k \in Nat : k <= n => Good(k)}
<1>0. \A k \in 0..n : u[k] = IF k = 0 THEN <<>>
                             ELSE IF k \in S THEN Append(u[k - 1], f[k]) ELSE u[k - 1]
  BY DEF Walks
<1>1. ASSUME NEW k \in Nat, \A m \in Nat : m < k => m \in T PROVE k \in T
  <2> SUFFICES ASSUME k <= n PROVE Good(k)
    OBVIOUS
  <2>0. k \in 0..n
    OBVIOUS
  <2>1. CASE k = 0
    <3>1. u[k] = <<>>
      BY <1>0, <2>0, <2>1
    <3> HIDE DEF A
    <3> QED BY <3>1, <2>1
  <2>2. CASE k # 0
    <3>1. k - 1 \in Nat /\ k - 1 < k /\ k - 1 <= n
      BY <2>2
    <3>2. Good(k - 1)
      <4>1. k - 1 \in T
        <5> HIDE DEF T
        <5> QED BY <3>1, <1>1
      <4> HIDE DEF Good
      <4> QED BY <3>1, <4>1
    <3>3. CASE k \in S
      <4>1. u[k] = Append(u[k - 1], f[k])
        BY <1>0, <2>0, <2>2, <3>3
      <4>2. f[k] \in A
        BY <2>0, <2>2, <3>3 DEF Picked
      <4> DEFINE w == u[k - 1]
      <4>3. w \in Seq(A) /\ \A m \in S \cap (1..(k - 1)) : \E e \in DOMAIN w : w[e] = f[m]
        BY <3>2
      <4>4. /\ u[k] \in Seq(A) /\ DOMAIN u[k] = 1..(Len(w) + 1) /\ DOMAIN w = 1..Len(w)
            /\ u[k][Len(w) + 1] = f[k] /\ \A e \in 1..Len(w) : u[k][e] = w[e]
            /\ Len(w) \in Nat
        <5> HIDE DEF A, w
        <5>1. u[k] = Append(w, f[k])
          BY <4>1 DEF w
        <5> QED BY <5>1, <4>2, <4>3
      <4>5. ASSUME NEW m \in S \cap (1..k) PROVE \E e \in DOMAIN u[k] : u[k][e] = f[m]
        <5>1. CASE m = k
          <6> HIDE DEF w
          <6>1. Len(w) + 1 \in DOMAIN u[k] /\ u[k][Len(w) + 1] = f[m]
            BY <4>4, <5>1
          <6> QED BY <6>1
        <5>2. CASE m # k
          <6>1. m \in S \cap (1..(k - 1))
            BY <5>2
          <6>2. PICK e \in DOMAIN w : w[e] = f[m]
            <7> HIDE DEF w
            <7> QED BY <6>1, <4>3
          <6>3. e \in DOMAIN u[k] /\ u[k][e] = f[m]
            <7> HIDE DEF w
            <7> QED BY <6>2, <4>4
          <6> QED BY <6>3
        <5> QED BY <5>1, <5>2
      <4> HIDE DEF A
      <4> QED BY <4>4, <4>5
    <3>4. CASE k \notin S
      <4>1. u[k] = u[k - 1]
        BY <1>0, <2>0, <2>2, <3>4
      <4>2. S \cap (1..k) = S \cap (1..(k - 1))
        BY <3>4, <2>2
      <4> HIDE DEF A
      <4> QED BY <4>1, <4>2, <3>2
    <3> QED BY <3>3, <3>4
  <2> QED BY <2>1, <2>2
<1>2. n \in T
  <2> HIDE DEF T
  <2> QED BY <1>1, AllNaturals
<1>3. Good(n)
  <2> HIDE DEF Good
  <2> QED BY <1>2
<1> QED BY <1>3


\* Two walks that agree on S collect the same.
LEMMA WalksAgree ==
  ASSUME NEW S, NEW f, NEW g, NEW n \in Nat, NEW u, NEW v, Walks(S, n, f, u), Walks(S, n, g, v),
         \A m \in S \cap (1..n) : f[m] = g[m]
  PROVE  u[n] = v[n]
<1> DEFINE T == {k \in Nat : k <= n => u[k] = v[k]}
<1>0. /\ \A k \in 0..n : u[k] = IF k = 0 THEN <<>>
                                ELSE IF k \in S THEN Append(u[k - 1], f[k]) ELSE u[k - 1]
      /\ \A k \in 0..n : v[k] = IF k = 0 THEN <<>>
                                ELSE IF k \in S THEN Append(v[k - 1], g[k]) ELSE v[k - 1]
  BY DEF Walks
<1>1. ASSUME NEW k \in Nat, \A m \in Nat : m < k => m \in T PROVE k \in T
  <2> SUFFICES ASSUME k <= n PROVE u[k] = v[k]
    OBVIOUS
  <2>0. k \in 0..n
    OBVIOUS
  <2>1. CASE k = 0
    BY <1>0, <2>0, <2>1
  <2>2. CASE k # 0
    <3>1. k - 1 \in Nat /\ k - 1 < k /\ k - 1 <= n
      BY <2>2
    <3>2. k - 1 \in T
      <4> HIDE DEF T
      <4> QED BY <3>1, <1>1
    <3>3. u[k - 1] = v[k - 1]
      BY <3>1, <3>2
    <3>4. k \in S => f[k] = g[k]
      BY <2>0, <2>2
    <3> QED BY <1>0, <2>0, <2>2, <3>3, <3>4
  <2> QED BY <2>1, <2>2
<1>2. n \in T
  <2> HIDE DEF T
  <2> QED BY <1>1, AllNaturals
<1> QED BY <1>2

\* A walk over the first m numbers takes them one by one.
LEMMA WalkAlong ==
  ASSUME NEW S, NEW f, NEW n \in Nat, NEW u, Walks(S, n, f, u),
         NEW m \in 0..n, S \cap (1..n) = 1..m
  PROVE  u[n] = [k \in 1..m |-> f[k]]
<1> DEFINE lesser(k) == IF k <= m THEN k ELSE m
           T == {k \in Nat : k <= n => /\ u[k] \in Seq(Picked(S, n, f))
                                       /\ Len(u[k]) = lesser(k)
                                       /\ \A e \in 1..lesser(k) : u[k][e] = f[e]}
<1>0. \A k \in 0..n : u[k] = IF k = 0 THEN <<>>
                             ELSE IF k \in S THEN Append(u[k - 1], f[k]) ELSE u[k - 1]
  BY DEF Walks
<1>a. \A k \in 1..n : k \in S <=> k <= m
  <2>1. ASSUME NEW k \in 1..n PROVE k \in S <=> k \in S \cap (1..n)
    OBVIOUS
  <2>2. ASSUME NEW k \in 1..n PROVE k \in 1..m <=> k <= m
    OBVIOUS
  <2> QED BY <2>1, <2>2
<1>1. ASSUME NEW k \in Nat, \A l \in Nat : l < k => l \in T PROVE k \in T
  <2> SUFFICES ASSUME k <= n
               PROVE  /\ u[k] \in Seq(Picked(S, n, f))
                      /\ Len(u[k]) = lesser(k)
                      /\ \A e \in 1..lesser(k) : u[k][e] = f[e]
    OBVIOUS
  <2>0. k \in 0..n
    OBVIOUS
  <2>1. CASE k = 0
    <3>1. u[k] = <<>> /\ lesser(k) = 0
      BY <1>0, <2>0, <2>1
    <3> HIDE DEF lesser
    <3> QED BY <3>1
  <2>2. CASE k # 0
    <3> DEFINE w == u[k - 1]
    <3>1. k - 1 \in Nat /\ k - 1 < k /\ k - 1 <= n /\ k \in 1..n
      BY <2>2
    <3>2. k - 1 \in T
      <4> HIDE DEF T
      <4> QED BY <3>1, <1>1
    <3>3. /\ w \in Seq(Picked(S, n, f)) /\ Len(w) = lesser(k - 1)
          /\ \A e \in 1..lesser(k - 1) : w[e] = f[e]
      BY <3>1, <3>2
    <3>4. CASE k <= m
      <4>1. u[k] = Append(w, f[k])
        BY <1>0, <1>a, <2>0, <2>2, <3>1, <3>4
      <4>2. f[k] \in Picked(S, n, f)
        BY <1>a, <3>1, <3>4 DEF Picked
      <4>3. lesser(k) = k /\ lesser(k - 1) = k - 1
        BY <3>4
      <4>4. Len(w) = k - 1 /\ \A e \in 1..(k - 1) : w[e] = f[e]
        <5> HIDE DEF w, lesser
        <5> QED BY <3>3, <4>3
      <4>5. /\ u[k] \in Seq(Picked(S, n, f)) /\ Len(u[k]) = k
            /\ \A e \in 1..k : u[k][e] = f[e]
        <5> HIDE DEF w, lesser
        <5> QED BY <3>3, <4>1, <4>2, <4>4
      <4> HIDE DEF lesser
      <4> QED BY <4>5, <4>3
    <3>5. CASE ~(k <= m)
      <4>1. u[k] = w
        BY <1>0, <1>a, <2>0, <2>2, <3>1, <3>5
      <4>2. lesser(k) = m /\ lesser(k - 1) = m
        BY <3>5, <3>1
      <4> HIDE DEF w, lesser
      <4> QED BY <4>1, <4>2, <3>3
    <3> QED BY <3>4, <3>5
  <2> QED BY <2>1, <2>2
<1>2. n \in T
  <2> HIDE DEF T
  <2> QED BY <1>1, AllNaturals
<1>3. u[n] \in Seq(Picked(S, n, f)) /\ Len(u[n]) = m /\ \A e \in 1..m : u[n][e] = f[e]
  BY <1>2
<1> QED BY <1>3

\* InOrder, as it is used: over the steps of a run, the turns of a session, their runs, and
\* the indices of a turn.
CallsAt(steps) == {k \in DOMAIN steps : steps[k].call \in Tools}

LEMMA CallsWalk ==
  ASSUME NEW steps, Len(steps) \in Nat
  PROVE  \E u : Walks(CallsAt(steps), Len(steps), steps, u) /\ ToolCalls(steps) = u[Len(steps)]
<1> DEFINE n == Len(steps)
           S == {k \in DOMAIN steps : steps[k].call \in Tools}
           Is(u) == u = [k \in 0..n |-> IF k = 0 THEN <<>>
                                        ELSE IF k \in S THEN Append(u[k - 1], steps[k])
                                        ELSE u[k - 1]]
           all == CHOOSE u : Is(u)
<1>1. ToolCalls(steps) = all[n]
  BY DEF ToolCalls, InOrder
<1>2. \A u : Is(u) <=> Walks(CallsAt(steps), Len(steps), steps, u)
  BY DEF Walks, CallsAt
<1>3. \E u : Is(u)
  <2>1. PICK u : Walks(CallsAt(steps), Len(steps), steps, u)
    BY WalkExists
  <2> HIDE DEF Is
  <2> QED BY <2>1, <1>2
<1>4. Is(all)
  <2> HIDE DEF Is
  <2> QED BY <1>3
<1> HIDE DEF all, Is
<1> QED BY <1>1, <1>2, <1>4

LEMMA TurnsWalk ==
  ASSUME NEW S
  PROVE  \E u : /\ Walks(S, LastTurn, [p \in Turns |-> p], u)
                /\ InOrder(S, LastTurn, LAMBDA p : p) = u[LastTurn]
<1> DEFINE Is(u) == u = [k \in 0..LastTurn |-> IF k = 0 THEN <<>>
                                               ELSE IF k \in S THEN Append(u[k - 1], k)
                                               ELSE u[k - 1]]
           all == CHOOSE u : Is(u)
<1>0. LastTurn \in Nat
  BY SpoolConstants
<1>1. InOrder(S, LastTurn, LAMBDA p : p) = all[LastTurn]
  BY DEF InOrder
<1>2. \A u : Is(u) <=> Walks(S, LastTurn, [p \in Turns |-> p], u)
  <2>1. \A k \in 0..LastTurn : k # 0 => [p \in Turns |-> p][k] = k
    BY <1>0 DEF Turns
  <2> DEFINE g == [p \in Turns |-> p]
  <2>2. \A k \in 0..LastTurn : k # 0 => g[k] = k
    BY <2>1
  <2> HIDE DEF g
  <2>3. \A u : Is(u) <=> Walks(S, LastTurn, g, u)
    BY <2>2 DEF Walks
  <2> QED BY <2>3 DEF g
<1>3. \E u : Is(u)
  <2>1. PICK u : Walks(S, LastTurn, [p \in Turns |-> p], u)
    BY WalkExists, <1>0
  <2> HIDE DEF Is
  <2> QED BY <2>1, <1>2
<1>4. Is(all)
  <2> HIDE DEF Is
  <2> QED BY <1>3
<1> HIDE DEF all, Is
<1> QED BY <1>1, <1>2, <1>4

QueueOf(j, S) == InOrder(S, LastTurn, LAMBDA p : Run(j, p))

LEMMA RunsWalk ==
  ASSUME NEW S, NEW j
  PROVE  \E u : /\ Walks(S, LastTurn, [p \in Turns |-> Run(j, p)], u)
                /\ QueueOf(j, S) = u[LastTurn]
<1> DEFINE Is(u) == u = [k \in 0..LastTurn |-> IF k = 0 THEN <<>>
                                               ELSE IF k \in S THEN Append(u[k - 1], Run(j, k))
                                               ELSE u[k - 1]]
           all == CHOOSE u : Is(u)
<1>0. LastTurn \in Nat
  BY SpoolConstants
<1>1. QueueOf(j, S) = all[LastTurn]
  BY DEF QueueOf, InOrder
<1>2. \A u : Is(u) <=> Walks(S, LastTurn, [p \in Turns |-> Run(j, p)], u)
  <2> DEFINE g == [p \in Turns |-> Run(j, p)]
  <2>2. \A k \in 0..LastTurn : k # 0 => g[k] = Run(j, k)
    BY <1>0 DEF Turns
  <2> HIDE DEF g
  <2>3. \A u : Is(u) <=> Walks(S, LastTurn, g, u)
    BY <2>2 DEF Walks
  <2> QED BY <2>3 DEF g
<1>3. \E u : Is(u)
  <2>1. PICK u : Walks(S, LastTurn, [p \in Turns |-> Run(j, p)], u)
    BY WalkExists, <1>0
  <2> HIDE DEF Is
  <2> QED BY <2>1, <1>2
<1>4. Is(all)
  <2> HIDE DEF Is
  <2> QED BY <1>3
<1> HIDE DEF all, Is
<1> QED BY <1>1, <1>2, <1>4

IndicesOf(j, p) == {j[k].index : k \in Of(j, p, {"step_open", "step"})}
NumberOf(j, p) == Cardinality(IndicesOf(j, p))
Places(j, p) == {i + 1 : i \in IndicesOf(j, p)}
Items(j, p) == [k \in 1..NumberOf(j, p) |-> StepAt(j, p, k - 1)]

LEMMA StepsWalk ==
  ASSUME NEW j, NEW p, NumberOf(j, p) \in Nat
  PROVE  \E u : /\ Walks(Places(j, p), NumberOf(j, p), Items(j, p), u)
                /\ Steps(j, p) = u[NumberOf(j, p)]
<1> DEFINE n == NumberOf(j, p)
           S == Places(j, p)
           Is(u) == u = [k \in 0..n |-> IF k = 0 THEN <<>>
                                        ELSE IF k \in S THEN Append(u[k - 1], StepAt(j, p, k - 1))
                                        ELSE u[k - 1]]
           all == CHOOSE u : Is(u)
<1>1. Steps(j, p) = all[n]
  BY DEF Steps, InOrder, Places, NumberOf, IndicesOf
<1>2. \A u : Is(u) <=> Walks(S, n, Items(j, p), u)
  <2> DEFINE g == Items(j, p)
  <2>1. \A k \in 0..n : k # 0 => g[k] = StepAt(j, p, k - 1)
    BY DEF Items
  <2> HIDE DEF g, n, S
  <2>3. \A u : Is(u) <=> Walks(S, n, g, u)
    BY <2>1 DEF Walks
  <2> QED BY <2>3 DEF g
<1>3. \E u : Is(u)
  <2>1. PICK u : Walks(S, n, Items(j, p), u)
    BY WalkExists
  <2> HIDE DEF Is
  <2> QED BY <2>1, <1>2
<1>4. Is(all)
  <2> HIDE DEF Is
  <2> QED BY <1>3
<1> HIDE DEF all, Is
<1> QED BY <1>1, <1>2, <1>4
-------------------------------------------------------------------------------
JournalRecords ==
  [kind : {"segment_open"}, turn : Turns]
  \cup [kind : {"step_open"}, turn : Turns, tool : Tools, index : Nat]
  \cup [kind : {"step_close"}, turn : Turns, tool : Tools, status : {"ok", "error"}]
  \cup [kind : {"step"}, turn : Turns, index : Nat]
  \cup [kind : {"segment_close"}, turn : Turns, label : Labels]
  \cup [kind : {"overlong"}, turn : Turns]

StepRows == [call : Tools \cup {"message"}, status : {"ok", "error"}]
SpooledRuns == [turn : Turns, steps : Seq(StepRows), label : Labels]

HookRows ==
  [phase : {"idle", "saying", "looking", "closing", "clearing", "writing"},
   view : Seq(JournalRecords), todo : Seq(Turns), label : Labels \cup {<<>>}]
FlusherRows ==
  [phase : {"idle", "spawned", "listing", "pushing", "marking", "removing"},
   queue : Seq(SpooledRuns), tries : 0..Attempts - 1, complete : BOOLEAN, any : BOOLEAN,
   read : Nat]
Histories ==
  [opened : [Turns -> Seq(Tools)], atClose : [Turns -> Nat], late : SUBSET Turns,
   raced : SUBSET Turns, erased : SUBSET Turns, cut : SUBSET Turns, dones : Nat,
   confirmed : SUBSET Turns, shared : BOOLEAN, faults : Nat]

SpoolTyped ==
  /\ turn \in 0..LastTurn
  /\ editor \in {"waiting", "prompting", "active", "stopping", "again", "ended"}
  /\ tool \in [Tools -> {"idle", "numbering", "running", "over"}]
  /\ index \in [Tools -> Nat]
  /\ hook \in [Closers -> HookRows]
  /\ journal \in Seq(JournalRecords)
  /\ marker \in BOOLEAN /\ aged \in BOOLEAN
  /\ sent \in SUBSET Turns /\ refused \in SUBSET Turns
  /\ flusher \in [Flushers -> FlusherRows]
  /\ lock \in Flushers \cup {NoFlusher}
  /\ stored \in [Turns -> SpooledRuns \cup {NotStored}]
  /\ \A p \in Turns : stored[p] = NotStored \/ stored[p].turn = p
  /\ history \in Histories

\* A tool call's records name its turn.
OfItsTurn(r) == r.kind \in {"step_open", "step_close"} => r.turn = TurnOf[r.tool]
RecordsFit ==
  /\ \A k \in DOMAIN journal : OfItsTurn(journal[k])
  /\ \A h \in Closers : \A k \in DOMAIN hook[h].view : OfItsTurn(hook[h].view[k])

\* Where the editor and its hooks are at work, a turn has begun.
TurnHasBegun ==
  /\ editor \in {"prompting", "active", "stopping", "again"} => turn \in Turns
  /\ hook["prompt"].phase # "idle" => turn \in Turns
  /\ hook["stop"].phase \in {"saying", "looking"} => turn \in Turns

HooksStand ==
  \A h \in Closers :
    /\ hook[h].phase \in {"saying", "looking"} => h = "stop" /\ hook[h].todo = <<>>
    /\ hook[h].phase \in {"clearing", "writing"} => hook[h].todo # <<>> /\ hook[h].label \in Labels

SpoolShape == SpoolTyped /\ RecordsFit /\ TurnHasBegun /\ HooksStand

\* The turns a flusher still has to push.
Queued(f) == {flusher[f].queue[k].turn : k \in DOMAIN flusher[f].queue}
Settled == Received \cup refused

HasRead(f) == flusher[f].phase \in {"pushing", "marking", "removing"}

\* What is shippable in the file has been answered, is in the queue of the flusher, or got
\* records it has not read.
Accounted(f) ==
  /\ flusher[f].read <= Len(journal)
  /\ Shippable(journal) \subseteq Settled \cup Queued(f) \cup Unread(f)

\* The flusher at work holds the lock; one that notes a run has its answer; one that has
\* not given up on any run accounts for the file, and one that removes it has nothing left.
FlushersStand ==
  /\ \A f \in Flushers : flusher[f].phase = "listing" \/ HasRead(f) => lock = f
  /\ \A f \in Flushers :
       flusher[f].phase = "marking" =>
         flusher[f].queue # <<>> /\ Head(flusher[f].queue).turn \in Settled
  /\ SentWasAnswered
  /\ \A f \in Flushers : HasRead(f) /\ flusher[f].complete => Accounted(f)
  /\ \A f \in Flushers :
       flusher[f].phase = "removing" => flusher[f].complete /\ flusher[f].queue = <<>>

\* The hooks about to write a confirmation they have taken.
Confirming == {h \in Closers : hook[h].phase = "writing" /\ hook[h].label.confirmed}
Clearing == {h \in Closers : hook[h].phase = "clearing"}

ConfirmationsCounted ==
  history.shared \/
    /\ Cardinality(history.confirmed) + Cardinality(Confirming) + (IF marker THEN 1 ELSE 0)
         <= history.dones
    /\ \A h \in Clearing : marker /\ Clearing = {h}

\* Nothing is left of a turn whose file was removed, unless it went on.
ErasedAreGone ==
  \A p \in history.erased \ history.cut :
    Of(journal, p, {"step_open", "step", "step_close", "segment_close"}) = {}

Steady == Turns \ (history.late \cup history.cut)
LabelFits(parcel) == parcel.label = Resolve(parcel.steps, parcel.label.confirmed)

TurnsIn(j) == {j[k].turn : k \in DOMAIN j}

\* The outcome in a close record is that of the steps in the file, as long as it can be
\* read to its end.
ClosesFit ==
  ~Cropped(journal) => \A k \in DOMAIN journal :
    journal[k].kind = "segment_close" /\ journal[k].turn \in Steady
    => journal[k].label = Resolve(Steps(journal, journal[k].turn), journal[k].label.confirmed)

\* Of the turns it is to close, a hook has read all the steps it can...
TodosFit ==
  \A h \in Closers : \A k \in DOMAIN hook[h].todo :
    hook[h].todo[k] \in Steady \ history.erased
    => \/ Steps(hook[h].view, hook[h].todo[k]) = Steps(journal, hook[h].todo[k])
       \/ Cropped(journal) /\ hook[h].todo[k] \in TurnsIn(journal)

\* ... and has judged by them.
VerdictFits(row) ==
  row.label = Resolve(Steps(row.view, Head(row.todo)), row.label.confirmed)
VerdictsFit ==
  \A h \in Closers : hook[h].phase \in {"clearing", "writing"} => VerdictFits(hook[h])

QueuesFit ==
  \A f \in Flushers : \A k \in DOMAIN flusher[f].queue :
    flusher[f].queue[k].turn \in Steady => LabelFits(flusher[f].queue[k])

LabelsFit == ClosesFit /\ TodosFit /\ VerdictsFit /\ QueuesFit /\ LabelFitsSteps

OpensOf(p) == Of(journal, p, {"step_open"})
\* The steps opened in turn p are spooled under their numbers, and the last message of the
\* turn under one that the next step takes over.
OpensFollow(p) ==
  LET n == Len(history.opened[p])
  IN /\ NextIndex(journal, p) = n
     /\ \A k \in OpensOf(p) : journal[k].index < n
                              /\ journal[k].tool = history.opened[p][journal[k].index + 1]
     /\ \A i \in 0..n - 1 : \E k \in OpensOf(p) : journal[k].index = i
     /\ \A m \in Of(journal, p, {"step"}) :
          /\ journal[m].index <= n
          /\ \A k \in OpensOf(p) : journal[k].index = journal[m].index => m < k

WholeRun(parcel, past) ==
  LET calls == ToolCalls(parcel.steps)
      p == parcel.turn
  IN /\ Len(calls) >= past.atClose[p]
     /\ Len(calls) <= Len(past.opened[p])
     /\ \A k \in DOMAIN calls : calls[k].call = past.opened[p][k]

\* The turns whose records tell what was opened in them.
Intact == Turns \ (history.raced \cup history.cut \cup history.erased)

ClosedOrGone(p) == IsClosed(journal, p) \/ p \in history.erased

RunsAreWhole ==
  /\ \A p \in Intact : OpensFollow(p)
  /\ \A p \in Turns : history.atClose[p] <= Len(history.opened[p])
  /\ \A f \in Flushers : \A k \in DOMAIN flusher[f].queue :
       LET parcel == flusher[f].queue[k]
       IN /\ ClosedOrGone(parcel.turn)
          /\ parcel.turn \notin history.raced \cup history.cut => WholeRun(parcel, history)
  /\ \A p \in Received :
       /\ ClosedOrGone(p)
       /\ p \notin history.raced \cup history.cut => WholeRun(stored[p], history)

SpoolInductive ==
  /\ SpoolShape /\ FlushersStand /\ ConfirmationsCounted /\ ErasedAreGone /\ LabelsFit
  /\ RunsAreWhole

-------------------------------------------------------------------------------
LEMMA RecordsKnown ==
  ASSUME NEW r \in JournalRecords
  PROVE  /\ r.turn \in Turns
         /\ r.kind \in {"segment_open", "step_open", "step_close", "step", "segment_close",
                       "overlong"}
         /\ r.kind = "step_open" => r.tool \in Tools /\ r.index \in Nat
         /\ r.kind = "step_close" => r.tool \in Tools
         /\ r.kind = "step" => r.index \in Nat
         /\ r.kind = "segment_close" => r.label \in Labels
<1>1. CASE r \in [kind : {"segment_open"}, turn : Turns]
  BY <1>1
<1>2. CASE r \in [kind : {"step_open"}, turn : Turns, tool : Tools, index : Nat]
  BY <1>2
<1>3. CASE r \in [kind : {"step_close"}, turn : Turns, tool : Tools, status : {"ok", "error"}]
  BY <1>3
<1>4. CASE r \in [kind : {"step"}, turn : Turns, index : Nat]
  BY <1>4
<1>5. CASE r \in [kind : {"segment_close"}, turn : Turns, label : Labels]
  BY <1>5
<1>6. CASE r \in [kind : {"overlong"}, turn : Turns]
  BY <1>6
<1> QED BY <1>1, <1>2, <1>3, <1>4, <1>5, <1>6, Zenon DEF JournalRecords

LEMMA RecordsMade ==
  /\ \A p \in Turns : /\ SegmentOpen(p) \in JournalRecords /\ OfItsTurn(SegmentOpen(p))
                      /\ SegmentOpen(p).kind = "segment_open" /\ SegmentOpen(p).turn = p
  /\ \A t \in Tools, i \in Nat :
       /\ StepOpen(t, i) \in JournalRecords /\ OfItsTurn(StepOpen(t, i))
       /\ StepOpen(t, i).kind = "step_open" /\ StepOpen(t, i).turn = TurnOf[t]
       /\ StepOpen(t, i).tool = t /\ StepOpen(t, i).index = i
  /\ \A t \in Tools, s \in {"ok", "error"} :
       /\ StepClose(t, s) \in JournalRecords /\ OfItsTurn(StepClose(t, s))
       /\ StepClose(t, s).kind = "step_close" /\ StepClose(t, s).turn = TurnOf[t]
  /\ \A p \in Turns, i \in Nat :
       /\ Message(p, i) \in JournalRecords /\ OfItsTurn(Message(p, i))
       /\ Message(p, i).kind = "step" /\ Message(p, i).turn = p /\ Message(p, i).index = i
  /\ \A p \in Turns, l \in Labels :
       /\ SegmentClose(p, l) \in JournalRecords /\ OfItsTurn(SegmentClose(p, l))
       /\ SegmentClose(p, l).kind = "segment_close" /\ SegmentClose(p, l).turn = p
       /\ SegmentClose(p, l).label = l
  /\ \A p \in Turns : /\ Overlong(p) \in JournalRecords /\ OfItsTurn(Overlong(p))
                      /\ Overlong(p).kind = "overlong" /\ Overlong(p).turn = p
<1>0. \A t \in Tools : TurnOf[t] \in Turns
  BY SpoolConstants
<1>1. ASSUME NEW p \in Turns
      PROVE  /\ SegmentOpen(p) \in JournalRecords /\ OfItsTurn(SegmentOpen(p))
             /\ SegmentOpen(p).kind = "segment_open" /\ SegmentOpen(p).turn = p
  <2>1. SegmentOpen(p) \in [kind : {"segment_open"}, turn : Turns]
    BY DEF SegmentOpen
  <2>2. SegmentOpen(p) \in JournalRecords
    BY <2>1, Zenon DEF JournalRecords
  <2> QED BY <2>2 DEF SegmentOpen, OfItsTurn
<1>2. ASSUME NEW t \in Tools, NEW i \in Nat
      PROVE  /\ StepOpen(t, i) \in JournalRecords /\ OfItsTurn(StepOpen(t, i))
             /\ StepOpen(t, i).kind = "step_open" /\ StepOpen(t, i).turn = TurnOf[t]
             /\ StepOpen(t, i).tool = t /\ StepOpen(t, i).index = i
  <2>1. StepOpen(t, i) \in [kind : {"step_open"}, turn : Turns, tool : Tools, index : Nat]
    BY <1>0 DEF StepOpen
  <2>2. StepOpen(t, i) \in JournalRecords
    BY <2>1, Zenon DEF JournalRecords
  <2> QED BY <2>2 DEF StepOpen, OfItsTurn
<1>3. ASSUME NEW t \in Tools, NEW s \in {"ok", "error"}
      PROVE  /\ StepClose(t, s) \in JournalRecords /\ OfItsTurn(StepClose(t, s))
             /\ StepClose(t, s).kind = "step_close" /\ StepClose(t, s).turn = TurnOf[t]
  <2>1. StepClose(t, s) \in [kind : {"step_close"}, turn : Turns, tool : Tools,
                             status : {"ok", "error"}]
    BY <1>0 DEF StepClose
  <2>2. StepClose(t, s) \in JournalRecords
    BY <2>1, Zenon DEF JournalRecords
  <2> QED BY <2>2 DEF StepClose, OfItsTurn
<1>4. ASSUME NEW p \in Turns, NEW i \in Nat
      PROVE  /\ Message(p, i) \in JournalRecords /\ OfItsTurn(Message(p, i))
             /\ Message(p, i).kind = "step" /\ Message(p, i).turn = p /\ Message(p, i).index = i
  <2>1. Message(p, i) \in [kind : {"step"}, turn : Turns, index : Nat]
    BY DEF Message
  <2>2. Message(p, i) \in JournalRecords
    BY <2>1, Zenon DEF JournalRecords
  <2> QED BY <2>2 DEF Message, OfItsTurn
<1>5. ASSUME NEW p \in Turns, NEW l \in Labels
      PROVE  /\ SegmentClose(p, l) \in JournalRecords /\ OfItsTurn(SegmentClose(p, l))
             /\ SegmentClose(p, l).kind = "segment_close" /\ SegmentClose(p, l).turn = p
             /\ SegmentClose(p, l).label = l
  <2>1. SegmentClose(p, l) \in [kind : {"segment_close"}, turn : Turns, label : Labels]
    BY DEF SegmentClose
  <2>2. SegmentClose(p, l) \in JournalRecords
    BY <2>1, Zenon DEF JournalRecords
  <2> QED BY <2>2 DEF SegmentClose, OfItsTurn
<1>6. ASSUME NEW p \in Turns
      PROVE  /\ Overlong(p) \in JournalRecords /\ OfItsTurn(Overlong(p))
             /\ Overlong(p).kind = "overlong" /\ Overlong(p).turn = p
  <2>1. Overlong(p) \in [kind : {"overlong"}, turn : Turns]
    BY DEF Overlong
  <2>2. Overlong(p) \in JournalRecords
    BY <2>1, Zenon DEF JournalRecords
  <2> QED BY <2>2 DEF Overlong, OfItsTurn
<1> QED BY <1>1, <1>2, <1>3, <1>4, <1>5, <1>6

\* What an append changes.
LEMMA Appended ==
  ASSUME NEW j \in Seq(JournalRecords), NEW r \in JournalRecords
  PROVE  LET j2 == Append(j, r)
         IN /\ j2 \in Seq(JournalRecords)
            /\ Len(j) \in Nat /\ DOMAIN j = 1..Len(j) /\ DOMAIN j2 = 1..(Len(j) + 1)
            /\ j2[Len(j) + 1] = r
            /\ \A k \in 1..Len(j) : j2[k] = j[k] /\ j[k] \in JournalRecords
OBVIOUS

\* What a hook reads of a file.
Before(j) == {k \in DOMAIN j : \A l \in 1..k : j[l].kind # "overlong"}

LEMMA ReadWalk ==
  ASSUME NEW j \in Seq(JournalRecords)
  PROVE  \E u : Walks(Before(j), Len(j), j, u) /\ Readable(j) = u[Len(j)]
<1> DEFINE n == Len(j)
           S == {k \in DOMAIN j : \A l \in 1..k : j[l].kind # "overlong"}
           Is(u) == u = [k \in 0..n |-> IF k = 0 THEN <<>>
                                        ELSE IF k \in S THEN Append(u[k - 1], j[k])
                                        ELSE u[k - 1]]
           all == CHOOSE u : Is(u)
<1>0. n \in Nat
  OBVIOUS
<1>1. Readable(j) = all[n]
  BY DEF Readable, InOrder
<1>2. \A u : Is(u) <=> Walks(Before(j), Len(j), j, u)
  BY DEF Walks, Before
<1>3. \E u : Is(u)
  <2>1. PICK u : Walks(Before(j), Len(j), j, u)
    BY <1>0, WalkExists
  <2> HIDE DEF Is
  <2> QED BY <2>1, <1>2
<1>4. Is(all)
  <2> HIDE DEF Is
  <2> QED BY <1>3
<1> HIDE DEF all, Is
<1> QED BY <1>1, <1>2, <1>4

LEMMA ReadTyped ==
  ASSUME NEW j \in Seq(JournalRecords)
  PROVE  /\ Readable(j) \in Seq(JournalRecords)
         /\ \A k \in DOMAIN Readable(j) : \E l \in DOMAIN j : Readable(j)[k] = j[l]
<1> DEFINE n == Len(j)
           A == Picked(Before(j), n, j)
<1>1. PICK u : Walks(Before(j), n, j, u) /\ Readable(j) = u[n]
  BY ReadWalk
<1>2. Readable(j) \in Seq(A)
  <2>1. n \in Nat
    OBVIOUS
  <2> HIDE DEF n
  <2> QED BY <1>1, <2>1, WalkCollects
<1>3. \A x \in A : x \in JournalRecords /\ \E l \in DOMAIN j : x = j[l]
  BY DEF Picked, Before
<1> HIDE DEF A
<1>4. A \subseteq JournalRecords
  BY <1>3
<1> QED BY <1>2, <1>3, <1>4

\* A file without a line too long is read to its end.
LEMMA ReadWhole ==
  ASSUME NEW j \in Seq(JournalRecords), ~Cropped(j)
  PROVE  Readable(j) = j
<1> DEFINE n == Len(j)
           Good(u, k) == Len(u[k]) = k /\ u[k] \in Seq(JournalRecords)
                         /\ \A i \in 1..k : u[k][i] = j[i]
<1>0. n \in Nat /\ DOMAIN j = 1..n /\ \A k \in 1..n : j[k] \in JournalRecords
  OBVIOUS
<1>1. PICK u : Walks(Before(j), n, j, u) /\ Readable(j) = u[n]
  BY ReadWalk
<1>2. \A k \in 1..n : k \in Before(j)
  BY <1>0 DEF Before, Cropped
<1>3. \A k \in 0..n : u[k] = IF k = 0 THEN <<>>
                             ELSE IF k \in Before(j) THEN Append(u[k - 1], j[k]) ELSE u[k - 1]
  BY <1>1 DEF Walks
<1> DEFINE T == {k \in Nat : k <= n => Good(u, k)}
<1>4. ASSUME NEW k \in Nat, \A m \in Nat : m < k => m \in T PROVE k \in T
  <2> SUFFICES ASSUME k <= n PROVE Good(u, k)
    OBVIOUS
  <2>1. CASE k = 0
    <3>1. u[k] = <<>>
      BY <2>1, <1>0, <1>3
    <3> QED BY <2>1, <3>1
  <2>2. CASE k # 0
    <3>1. k - 1 \in Nat /\ k - 1 < k /\ k - 1 <= n /\ k \in 1..n /\ k \in 0..n
      BY <2>2, <1>0
    <3>2. Good(u, k - 1)
      BY <3>1, <1>4
    <3>3. u[k] = Append(u[k - 1], j[k])
      <4> HIDE DEF T, n
      <4> QED BY <2>2, <3>1, <1>2, <1>3
    <3> DEFINE v == u[k - 1]
    <3>4. v \in Seq(JournalRecords) /\ Len(v) = k - 1 /\ \A i \in 1..k - 1 : v[i] = j[i]
      BY <3>2
    <3>5. j[k] \in JournalRecords
      BY <3>1, <1>0
    <3> HIDE DEF v, T, n
    <3>6. LET w == Append(v, j[k]) IN Len(w) = k /\ w \in Seq(JournalRecords)
                                      /\ \A i \in 1..k : w[i] = j[i]
      BY <3>1, <3>4, <3>5
    <3> QED BY <3>3, <3>6 DEF v
  <2> QED BY <2>1, <2>2
<1>5. n \in T
  <2> HIDE DEF T
  <2> QED BY <1>4, <1>0, AllNaturals
<1>6. Good(u, n)
  BY <1>5, <1>0
<1>7. Readable(j) \in Seq(JournalRecords) /\ Len(Readable(j)) = n
      /\ \A i \in 1..n : Readable(j)[i] = j[i]
  BY <1>6, <1>1
<1> QED BY <1>7

LEMMA OfAppended ==
  ASSUME NEW j \in Seq(JournalRecords), NEW r \in JournalRecords, NEW p, NEW kinds
  PROVE  Of(Append(j, r), p, kinds) =
           IF r.turn = p /\ r.kind \in kinds THEN Of(j, p, kinds) \cup {Len(j) + 1}
           ELSE Of(j, p, kinds)
<1> DEFINE j2 == Append(j, r)
<1>1. /\ Len(j) \in Nat /\ DOMAIN j = 1..Len(j) /\ DOMAIN j2 = 1..(Len(j) + 1)
      /\ j2[Len(j) + 1] = r /\ \A k \in 1..Len(j) : j2[k] = j[k]
  BY Appended
<1>2. DOMAIN j2 = DOMAIN j \cup {Len(j) + 1}
  <2> HIDE DEF j2
  <2> QED BY <1>1
<1> HIDE DEF j2
<1>3. Of(j2, p, kinds) = IF r.turn = p /\ r.kind \in kinds
                         THEN Of(j, p, kinds) \cup {Len(j) + 1} ELSE Of(j, p, kinds)
  BY <1>1, <1>2, Zenon DEF Of
<1> QED BY <1>3 DEF j2

LEMMA OfFinite ==
  ASSUME NEW j \in Seq(JournalRecords), NEW p, NEW kinds
  PROVE  /\ Of(j, p, kinds) \in SUBSET (1..Len(j)) /\ Len(j) \in Nat
         /\ IsFiniteSet(Of(j, p, kinds)) /\ Cardinality(Of(j, p, kinds)) \in Nat
         /\ \A k \in Of(j, p, kinds) : /\ j[k] \in JournalRecords
                                       /\ j[k].turn = p /\ j[k].kind \in kinds
<1>1. Of(j, p, kinds) \in SUBSET (1..Len(j)) /\ Len(j) \in Nat
  BY DEF Of
<1>2. IsFiniteSet(1..Len(j))
  BY <1>1, FS_Interval
<1>3. IsFiniteSet(Of(j, p, kinds))
  BY <1>1, <1>2, FS_Subset
<1>4. Cardinality(Of(j, p, kinds)) \in Nat
  BY <1>3, FS_CardinalityType
<1>5. \A k \in Of(j, p, kinds) : /\ j[k] \in JournalRecords
                                 /\ j[k].turn = p /\ j[k].kind \in kinds
  BY DEF Of
<1> QED BY <1>1, <1>3, <1>4, <1>5

LEMMA OpensOneMore ==
  ASSUME NEW j \in Seq(JournalRecords), NEW r \in JournalRecords, NEW p
  PROVE  /\ NextIndex(j, p) \in Nat
         /\ NextIndex(Append(j, r), p) =
              IF r.turn = p /\ r.kind = "step_open" THEN NextIndex(j, p) + 1 ELSE NextIndex(j, p)
<1> DEFINE S == Of(j, p, {"step_open"})
<1>1. IsFiniteSet(S) /\ Cardinality(S) \in Nat /\ S \in SUBSET (1..Len(j)) /\ Len(j) \in Nat
  BY OfFinite
<1>2. Len(j) + 1 \notin S
  BY <1>1
<1>3. Cardinality(S \cup {Len(j) + 1}) = Cardinality(S) + 1
  <2> HIDE DEF S
  <2> QED BY <1>1, <1>2, FS_AddElement
<1>4. Of(Append(j, r), p, {"step_open"}) =
        IF r.turn = p /\ r.kind = "step_open" THEN S \cup {Len(j) + 1} ELSE S
  <2> DEFINE K == {"step_open"}
  <2>1. Of(Append(j, r), p, K) =
          IF r.turn = p /\ r.kind \in K THEN Of(j, p, K) \cup {Len(j) + 1} ELSE Of(j, p, K)
    <3> HIDE DEF K
    <3> QED BY OfAppended
  <2>3. CASE r.kind = "step_open"
    BY <2>1, <2>3
  <2>4. CASE r.kind # "step_open"
    <3>1. r.kind \notin K
      BY <2>4
    <3> HIDE DEF K
    <3>2. Of(Append(j, r), p, K) = Of(j, p, K)
      BY <2>1, <3>1
    <3> QED BY <2>4, <3>2 DEF K
  <2> QED BY <2>3, <2>4
<1> HIDE DEF S
<1>5. NextIndex(j, p) = Cardinality(S)
  BY DEF NextIndex, S
<1> QED BY <1>1, <1>3, <1>4, <1>5 DEF NextIndex

LEMMA IndicesFinite ==
  ASSUME NEW j \in Seq(JournalRecords), NEW p
  PROVE  /\ NumberOf(j, p) \in Nat /\ IsFiniteSet(IndicesOf(j, p))
         /\ IndicesOf(j, p) \in SUBSET Nat
<1> DEFINE S == Of(j, p, {"step_open", "step"})
           T == {j[k].index : k \in S}
           f == [k \in S |-> j[k].index]
<1>1. IsFiniteSet(S)
  BY OfFinite
<1>2. f \in Surjection(S, T)
  <2> HIDE DEF S
  <2> QED BY DEF Surjection
<1>3. IsFiniteSet(T)
  <2> HIDE DEF S, T, f
  <2> QED BY <1>1, <1>2, FS_Surjection
<1>4. Cardinality(T) \in Nat
  <2> HIDE DEF T
  <2> QED BY <1>3, FS_CardinalityType
<1>5. ASSUME NEW k \in S PROVE j[k].index \in Nat
  <2>1. j[k] \in JournalRecords /\ j[k].kind \in {"step_open", "step"}
    BY OfFinite
  <2> QED BY <2>1, RecordsKnown
<1>6. T \in SUBSET Nat
  <2> HIDE DEF S
  <2> QED BY <1>5
<1>7. T = IndicesOf(j, p)
  BY DEF IndicesOf
<1> HIDE DEF T
<1> QED BY <1>3, <1>4, <1>6, <1>7 DEF NumberOf

\* A step of a turn is assembled from records of that turn.
LEMMA StepAtTyped ==
  ASSUME NEW j \in Seq(JournalRecords), NEW p, NEW i \in IndicesOf(j, p)
  PROVE  StepAt(j, p, i) \in StepRows
<1> DEFINE S == {k \in Of(j, p, {"step_open", "step"}) : j[k].index = i}
           r == j[LastOf(S)]
<1>1. S \in SUBSET (1..Len(j)) /\ Len(j) \in Nat /\ S # {}
  BY OfFinite DEF IndicesOf
<1>2. LastOf(S) \in S
  <2> HIDE DEF S
  <2> QED BY <1>1, LastIsThere
<1>3. r \in JournalRecords /\ r.kind \in {"step_open", "step"}
  <2>1. LastOf(S) \in Of(j, p, {"step_open", "step"})
    BY <1>2
  <2> HIDE DEF S
  <2> QED BY <2>1, OfFinite
<1>4. r.kind # "step" => r.tool \in Tools
  <2> HIDE DEF r
  <2> QED BY <1>3, RecordsKnown
<1>5. StepAt(j, p, i) = IF r.kind = "step" THEN [call |-> "message", status |-> "ok"]
                        ELSE [call |-> r.tool, status |-> Status(j, r.tool)]
  BY DEF StepAt
<1>6. Status(j, r.tool) \in {"ok", "error"}
  BY DEF Status
<1> HIDE DEF r
<1> QED BY <1>4, <1>5, <1>6 DEF StepRows

LEMMA StepsTyped ==
  ASSUME NEW j \in Seq(JournalRecords), NEW p
  PROVE  Steps(j, p) \in Seq(StepRows)
<1> DEFINE n == NumberOf(j, p)
           S == Places(j, p)
           A == Picked(S, n, Items(j, p))
<1>0. n \in Nat
  BY IndicesFinite
<1>1. PICK u : Walks(S, n, Items(j, p), u) /\ Steps(j, p) = u[n]
  BY <1>0, StepsWalk
<1>2. Steps(j, p) \in Seq(A)
  <2> HIDE DEF n, S
  <2> QED BY <1>0, <1>1, WalkCollects
<1>3. ASSUME NEW k \in S \cap (1..n) PROVE Items(j, p)[k] \in StepRows
  <2>1. PICK i \in IndicesOf(j, p) : k = i + 1
    BY DEF Places
  <2>2. i \in Nat
    BY IndicesFinite
  <2>3. Items(j, p)[k] = StepAt(j, p, i)
    <3>1. k - 1 = i
      BY <2>1, <2>2
    <3> HIDE DEF S
    <3> QED BY <3>1 DEF Items
  <2> QED BY <2>3, StepAtTyped
<1>4. A \subseteq StepRows
  <2> HIDE DEF S, n
  <2> QED BY <1>3 DEF Picked
<1> HIDE DEF A
<1> QED BY <1>2, <1>4

\* Records of other turns, and those that open and close a segment, leave the steps alone.
LEMMA StepsKept ==
  ASSUME NEW j \in Seq(JournalRecords), NEW r \in JournalRecords, NEW p,
         OfItsTurn(r), \A k \in DOMAIN j : OfItsTurn(j[k]),
         r.turn # p \/ r.kind \in {"segment_open", "segment_close", "overlong"}
  PROVE  Steps(Append(j, r), p) = Steps(j, p)
<1> DEFINE j2 == Append(j, r)
           K == {"step_open", "step"}
           n == NumberOf(j, p)
<1>0. /\ j2 \in Seq(JournalRecords) /\ Len(j) \in Nat
      /\ DOMAIN j = 1..Len(j) /\ DOMAIN j2 = 1..(Len(j) + 1)
      /\ j2[Len(j) + 1] = r /\ \A k \in 1..Len(j) : j2[k] = j[k]
  BY Appended
<1>1. Of(j2, p, K) = Of(j, p, K)
  <2>1. ~(r.turn = p /\ r.kind \in K)
    OBVIOUS
  <2> QED BY <2>1, OfAppended
<1>a. Of(j, p, K) \subseteq 1..Len(j)
  BY OfFinite
<1>b. \A k \in Of(j, p, K) : j2[k] = j[k]
  <2> HIDE DEF j2, K
  <2> QED BY <1>a, <1>0
<1>2. IndicesOf(j2, p) = IndicesOf(j, p)
  <2> HIDE DEF j2
  <2> QED BY <1>1, <1>b DEF IndicesOf
<1>3. ASSUME NEW t, TurnOf[t] = p PROVE Status(j2, t) = Status(j, t)
  <2>1. r # StepClose(t, "ok")
    BY <1>3 DEF StepClose
  <2>2. (\E k \in DOMAIN j2 : j2[k] = StepClose(t, "ok"))
        <=> (\E k \in DOMAIN j : j[k] = StepClose(t, "ok"))
    <3> HIDE DEF j2
    <3> QED BY <1>0, <2>1
  <2> HIDE DEF j2
  <2> QED BY <2>2 DEF Status
<1>4. ASSUME NEW i \in IndicesOf(j, p) PROVE StepAt(j2, p, i) = StepAt(j, p, i)
  <2> DEFINE S == {k \in Of(j, p, K) : j[k].index = i}
             S2 == {k \in Of(j2, p, K) : j2[k].index = i}
  <2>1. S2 = S
    <3> HIDE DEF j2, K
    <3> QED BY <1>1, <1>b
  <2>2. S \in SUBSET (1..Len(j)) /\ S # {}
    BY <1>a DEF IndicesOf
  <2>3. LastOf(S) \in S
    <3> HIDE DEF S
    <3> QED BY <1>0, <2>2, LastIsThere
  <2>4. LastOf(S) \in Of(j, p, K)
    BY <2>3
  <2> DEFINE l == j[LastOf(S)]
  <2>5. j2[LastOf(S)] = l
    <3> HIDE DEF S, K, j2
    <3> QED BY <2>4, <1>b
  <2>6. l \in JournalRecords /\ l.turn = p /\ l.kind \in K /\ LastOf(S) \in DOMAIN j
    <3> HIDE DEF S
    <3> QED BY <2>4, OfFinite, <1>0, <1>a
  <2>7. l.kind # "step" => TurnOf[l.tool] = p
    <3>1. OfItsTurn(l)
      <4> HIDE DEF S
      <4> QED BY <2>6
    <3> HIDE DEF l
    <3> QED BY <3>1, <2>6 DEF OfItsTurn
  <2>8. StepAt(j, p, i) = IF l.kind = "step" THEN [call |-> "message", status |-> "ok"]
                          ELSE [call |-> l.tool, status |-> Status(j, l.tool)]
    BY DEF StepAt
  <2>9. StepAt(j2, p, i) = IF l.kind = "step" THEN [call |-> "message", status |-> "ok"]
                           ELSE [call |-> l.tool, status |-> Status(j2, l.tool)]
    <3>1. StepAt(j2, p, i) = LET m == j2[LastOf(S2)]
                             IN IF m.kind = "step" THEN [call |-> "message", status |-> "ok"]
                                ELSE [call |-> m.tool, status |-> Status(j2, m.tool)]
      BY DEF StepAt
    <3>2. j2[LastOf(S2)] = l
      <4> HIDE DEF S2, S, l, j2
      <4> QED BY <2>1, <2>5
    <3> HIDE DEF S2, l, j2
    <3> QED BY <3>1, <3>2
  <2>10. l.kind # "step" => Status(j2, l.tool) = Status(j, l.tool)
    <3> HIDE DEF l, j2
    <3> QED BY <2>7, <1>3
  <2> HIDE DEF l, j2
  <2> QED BY <2>8, <2>9, <2>10
<1>5. /\ n \in Nat /\ NumberOf(j2, p) = n /\ Places(j2, p) = Places(j, p)
  <2> HIDE DEF j2
  <2> QED BY <1>2, IndicesFinite DEF NumberOf, Places
<1>6. PICK u : Walks(Places(j, p), n, Items(j, p), u) /\ Steps(j, p) = u[n]
  BY <1>5, StepsWalk
<1>7. PICK v : Walks(Places(j, p), n, Items(j2, p), v) /\ Steps(j2, p) = v[n]
  <2> HIDE DEF j2, n
  <2> QED BY <1>5, StepsWalk
<1>8. ASSUME NEW m \in Places(j, p) \cap (1..n) PROVE Items(j, p)[m] = Items(j2, p)[m]
  <2>1. PICK i \in IndicesOf(j, p) : m = i + 1
    BY DEF Places
  <2>2. i \in Nat
    BY IndicesFinite
  <2>3. m - 1 = i
    BY <2>1, <2>2
  <2>4. Items(j, p)[m] = StepAt(j, p, i)
    BY <2>3 DEF Items
  <2>5. Items(j2, p)[m] = StepAt(j2, p, i)
    <3> HIDE DEF j2
    <3> QED BY <2>3, <1>5 DEF Items
  <2> HIDE DEF j2
  <2> QED BY <2>4, <2>5, <1>4
<1> HIDE DEF j2, n
<1>9. u[n] = v[n]
  BY <1>5, <1>6, <1>7, <1>8, WalksAgree
<1> QED BY <1>6, <1>7, <1>9 DEF j2

LEMMA NoSteps ==
  ASSUME NEW j \in Seq(JournalRecords), NEW p, Of(j, p, {"step_open", "step"}) = {}
  PROVE  Steps(j, p) = <<>>
<1>1. IndicesOf(j, p) = {}
  BY DEF IndicesOf
<1>2. NumberOf(j, p) = 0
  BY <1>1, FS_EmptySet DEF NumberOf
<1>3. PICK u : Walks(Places(j, p), 0, Items(j, p), u) /\ Steps(j, p) = u[0]
  BY <1>2, StepsWalk
<1>4. 0 \in 0..0 /\ u[0] = <<>>
  BY <1>3 DEF Walks
<1> QED BY <1>3, <1>4

LEMMA OutcomeTyped ==
  ASSUME NEW steps, NEW b \in BOOLEAN
  PROVE  Resolve(steps, b) \in Labels /\ Resolve(steps, b).confirmed = b
BY DEF Resolve, Labels

LEMMA ClosedBy ==
  ASSUME NEW j \in Seq(JournalRecords), NEW p, IsClosed(j, p)
  PROVE  \E k \in DOMAIN j : /\ k = LastOf(Of(j, p, {"segment_close"}))
                             /\ j[k].kind = "segment_close" /\ j[k].turn = p
                             /\ j[k].label \in Labels
<1> DEFINE S == Of(j, p, {"segment_close"})
           k == LastOf(S)
<1>1. S \in SUBSET (1..Len(j)) /\ Len(j) \in Nat /\ S # {}
  BY OfFinite DEF IsClosed
<1>2. k \in S
  <2> HIDE DEF S
  <2> QED BY <1>1, LastIsThere
<1>3. j[k] \in JournalRecords /\ j[k].turn = p /\ j[k].kind \in {"segment_close"}
  <2> HIDE DEF k
  <2> QED BY <1>2, OfFinite
<1>4. j[k].label \in Labels
  <2> HIDE DEF k
  <2> QED BY <1>3, RecordsKnown
<1>5. k \in DOMAIN j
  <2> HIDE DEF k
  <2> QED BY <1>1, <1>2
<1> HIDE DEF k
<1> QED BY <1>3, <1>4, <1>5 DEF k

LEMMA RunTyped ==
  ASSUME NEW j \in Seq(JournalRecords), NEW p \in Turns, IsClosed(j, p)
  PROVE  Run(j, p) \in SpooledRuns /\ Run(j, p).turn = p /\ Run(j, p).steps = Steps(j, p)
<1>1. Steps(j, p) \in Seq(StepRows)
  BY StepsTyped
<1>2. j[LastOf(Of(j, p, {"segment_close"}))].label \in Labels
  BY ClosedBy
<1> QED BY <1>1, <1>2 DEF Run, SpooledRuns

LEMMA CloseAppended ==
  ASSUME NEW j \in Seq(JournalRecords), NEW r \in JournalRecords, NEW p
  PROVE  IsClosed(Append(j, r), p) <=> IsClosed(j, p) \/ (r.turn = p /\ r.kind = "segment_close")
<1> DEFINE K == {"segment_close"}
<1>1. Of(Append(j, r), p, K) =
        IF r.turn = p /\ r.kind \in K THEN Of(j, p, K) \cup {Len(j) + 1} ELSE Of(j, p, K)
  <2> HIDE DEF K
  <2> QED BY OfAppended
<1>2. r.kind \in K <=> r.kind = "segment_close"
  OBVIOUS
<1>3. Of(Append(j, r), p, K) # {} <=> Of(j, p, K) # {} \/ (r.turn = p /\ r.kind \in K)
  <2> HIDE DEF K
  <2> QED BY <1>1
<1> QED BY <1>2, <1>3 DEF IsClosed

-------------------------------------------------------------------------------
LEMMA RunsAreReal == NotStored \notin SpooledRuns /\ \A parcel \in SpooledRuns : parcel # NotStored
<1>1. ASSUME NEW parcel \in SpooledRuns PROVE parcel # NotStored
  <2>1. parcel.turn \in Turns /\ 0 \notin Turns
    BY SpoolConstants DEF SpooledRuns, Turns
  <2> QED BY <2>1 DEF NotStored
<1> QED BY <1>1

LEMMA RowsMade ==
  /\ NoHook \in HookRows
  /\ Idle \in FlusherRows
  /\ [Idle EXCEPT !.phase = "spawned"] \in FlusherRows
  /\ \A j \in Seq(JournalRecords), todo \in Seq(Turns) :
       Closing(j, todo) \in HookRows /\ Closing(j, todo).phase = "closing"
<1>1. Attempts - 1 \in Nat
  BY SpoolConstants
<1>2. NoHook \in HookRows
  BY DEF NoHook, HookRows
<1>3. Idle \in FlusherRows /\ [Idle EXCEPT !.phase = "spawned"] \in FlusherRows
  <2>1. <<>> \in Seq(SpooledRuns) /\ 0 \in 0..Attempts - 1
    BY <1>1
  <2> QED BY <2>1 DEF Idle, FlusherRows
<1>4. ASSUME NEW j \in Seq(JournalRecords), NEW todo \in Seq(Turns)
      PROVE  Closing(j, todo) \in HookRows /\ Closing(j, todo).phase = "closing"
  BY DEF Closing, HookRows
<1> QED BY <1>2, <1>3, <1>4

LEMMA UnclosedTyped ==
  ASSUME NEW j
  PROVE  Unclosed(j) \in Seq(Turns)
<1> DEFINE S == {p \in Turns : Of(j, p, {"segment_open"}) # {} /\ ~IsClosed(j, p)}
           f == [p \in Turns |-> p]
<1>1. Unclosed(j) = InOrder(S, LastTurn, LAMBDA p : p)
  BY DEF Unclosed
<1>2. PICK u : Walks(S, LastTurn, f, u) /\ InOrder(S, LastTurn, LAMBDA p : p) = u[LastTurn]
  BY TurnsWalk
<1>3. LastTurn \in Nat
  BY SpoolConstants
<1>4. u[LastTurn] \in Seq(Picked(S, LastTurn, f))
  <2> HIDE DEF S, f
  <2> QED BY <1>2, <1>3, WalkCollects
<1>5. Picked(S, LastTurn, f) \subseteq Turns
  <2> HIDE DEF S
  <2> QED BY DEF Picked, Turns
<1>6. u[LastTurn] \in Seq(Turns)
  <2> HIDE DEF S, f
  <2> QED BY <1>4, <1>5
<1> HIDE DEF S, f
<1> QED BY <1>1, <1>2, <1>6

\* The runs a flusher takes up: those of S, all of them and no others.
LEMMA QueueTaken ==
  ASSUME NEW j \in Seq(JournalRecords), NEW S \in SUBSET Turns, \A p \in S : IsClosed(j, p)
  PROVE  LET q == QueueOf(j, S)
         IN /\ q \in Seq(SpooledRuns)
            /\ \A k \in DOMAIN q : \E p \in S : q[k] = Run(j, p)
            /\ \A p \in S : \E k \in DOMAIN q : q[k] = Run(j, p)
<1> DEFINE f == [p \in Turns |-> Run(j, p)]
           q == QueueOf(j, S)
<1>1. PICK u : Walks(S, LastTurn, f, u) /\ q = u[LastTurn]
  BY RunsWalk
<1>2. LastTurn \in Nat
  BY SpoolConstants
<1> HIDE DEF q
<1>3. /\ q \in Seq(Picked(S, LastTurn, f))
      /\ \A m \in S \cap (1..LastTurn) : \E e \in DOMAIN q : q[e] = f[m]
  <2> HIDE DEF f
  <2> QED BY <1>1, <1>2, WalkCollects
<1>4. ASSUME NEW x \in Picked(S, LastTurn, f) PROVE x \in SpooledRuns /\ \E p \in S : x = Run(j, p)
  <2> HIDE DEF f
  <2>1. PICK p \in S : x = f[p]
    BY DEF Picked
  <2>2. x = Run(j, p)
    BY <2>1 DEF f
  <2> QED BY <2>2, RunTyped
<1>5. q \in Seq(SpooledRuns)
  <2> HIDE DEF f
  <2> QED BY <1>3, <1>4
<1>6. \A k \in DOMAIN q : q[k] \in Picked(S, LastTurn, f)
  <2> HIDE DEF f
  <2> QED BY <1>3
<1>7. ASSUME NEW p \in S PROVE \E k \in DOMAIN q : q[k] = Run(j, p)
  <2>1. p \in S \cap (1..LastTurn)
    BY DEF Turns
  <2>2. PICK e \in DOMAIN q : q[e] = f[p]
    <3> HIDE DEF f
    <3> QED BY <2>1, <1>3
  <2> QED BY <2>2
<1>8. \A k \in DOMAIN q : \E p \in S : q[k] = Run(j, p)
  <2> HIDE DEF f
  <2> QED BY <1>4, <1>6
<1> QED BY <1>5, <1>7, <1>8 DEF q

LEMMA TurnsTyped ==
  ASSUME NEW p \in Turns, SpoolTyped
  PROVE  Cut(p) \in SUBSET Turns /\ Late(p) \in SUBSET Turns
BY DEF SpoolTyped, Histories, Cut, Late

LEMMA SpoolStarts == Init => SpoolShape
<1> SUFFICES ASSUME Init PROVE SpoolShape
  OBVIOUS
<1>1. /\ <<>> \in Seq(JournalRecords) /\ <<>> \in Seq(Tools)
      /\ 0 \in 0..LastTurn
  BY SpoolConstants
<1>2. hook \in [Closers -> HookRows] /\ flusher \in [Flushers -> FlusherRows]
  <2> HIDE DEF HookRows, FlusherRows
  <2> QED BY RowsMade DEF Init
<1>3. history \in Histories
  BY <1>1 DEF Init, Nothing, Histories
<1>4. stored \in [Turns -> SpooledRuns \cup {NotStored}]
      /\ \A p \in Turns : stored[p] = NotStored
  BY DEF Init
<1>5. SpoolTyped
  BY <1>1, <1>2, <1>3, <1>4 DEF Init, SpoolTyped
<1>6. \A h \in Closers : hook[h] = NoHook
  BY DEF Init
<1>7. RecordsFit
  BY <1>6 DEF RecordsFit, Init, NoHook
<1>8. TurnHasBegun /\ HooksStand
  BY <1>6 DEF TurnHasBegun, HooksStand, Init, NoHook, Closers
<1> QED BY <1>5, <1>7, <1>8 DEF SpoolShape

\* What a step may have put into the variables that hold rows.
LEMMA HooksTyped ==
  ASSUME SpoolTyped, NEW h \in Closers, NEW STATE row, row \in HookRows,
         hook' = [hook EXCEPT ![h] = row]
  PROVE  hook' \in [Closers -> HookRows]
BY DEF SpoolTyped

LEMMA FlushersTyped ==
  ASSUME SpoolTyped, NEW f \in Flushers, NEW STATE row, row \in FlusherRows,
         flusher' = [flusher EXCEPT ![f] = row]
  PROVE  flusher' \in [Flushers -> FlusherRows]
BY DEF SpoolTyped

LEMMA JournalTyped ==
  ASSUME SpoolTyped, NEW STATE r, r \in JournalRecords, Append1(r)
  PROVE  journal' \in Seq(JournalRecords) /\ aged' \in BOOLEAN
<1>1. journal \in Seq(JournalRecords)
  BY DEF SpoolTyped
<1>2. journal' = Append(journal, r) /\ aged' = FALSE
  BY DEF Append1
<1> QED BY <1>1, <1>2, Appended

LEMMA RowsOfHooks ==
  ASSUME SpoolTyped, NEW h \in Closers
  PROVE  /\ hook[h] \in HookRows /\ hook[h].view \in Seq(JournalRecords)
         /\ hook[h].todo \in Seq(Turns)
         /\ hook[h].todo # <<>> => /\ Head(hook[h].todo) \in Turns
                                   /\ Tail(hook[h].todo) \in Seq(Turns)
BY DEF SpoolTyped, HookRows

LEMMA RowsOfFlushers ==
  ASSUME SpoolTyped, NEW f \in Flushers
  PROVE  /\ flusher[f] \in FlusherRows /\ flusher[f].queue \in Seq(SpooledRuns)
         /\ flusher[f].queue # <<>> => /\ Head(flusher[f].queue) \in SpooledRuns
                                       /\ Tail(flusher[f].queue) \in Seq(SpooledRuns)
BY DEF SpoolTyped, FlusherRows

LEMMA CurrentTyped == ASSUME NEW j, turn \in Turns PROVE Current(j) \in Seq(Turns)
BY DEF Current

LEMMA CountTyped == ASSUME SpoolTyped, Counted PROVE history' \in Histories
<1> DEFINE n == history.faults + 1
<1>1. history \in Histories /\ n \in Nat /\ history' = [history EXCEPT !.faults = n]
  BY DEF SpoolTyped, Histories, Counted
<1> HIDE DEF n
<1> QED BY <1>1 DEF Histories

LEMMA EditorTypes ==
  ASSUME SpoolShape, EditorStep PROVE SpoolTyped'
<1>0. SpoolTyped /\ TurnHasBegun /\ HooksStand /\ {"prompt", "stop", "end"} = Closers
  BY DEF SpoolShape, Closers
<1> USE <1>0 DEF filed
<1>a. InFile \in Seq(JournalRecords)
  BY ReadTyped DEF InFile, SpoolTyped
<1>1. CASE BeginPrompt
  <2> DEFINE row == Closing(InFile, Unclosed(InFile))
  <2>1. row \in HookRows
    BY <1>a, RowsMade, UnclosedTyped
  <2>2. hook' \in [Closers -> HookRows]
    <3>1. hook' = [hook EXCEPT !["prompt"] = row] /\ "prompt" \in Closers
      BY <1>1 DEF BeginPrompt, Closers
    <3> HIDE DEF row
    <3> QED BY <3>1, <2>1, HooksTyped
  <2>3. turn' \in 0..LastTurn
    BY <1>1, SpoolConstants DEF BeginPrompt, SpoolTyped
  <2> QED BY <1>1, <2>2, <2>3 DEF BeginPrompt, SpoolTyped
<1>2. ASSUME NEW speaks \in BOOLEAN, BeginStop(speaks) PROVE SpoolTyped'
  <2> DEFINE said == [NoHook EXCEPT !.phase = "saying", !.view = InFile]
             row == IF speaks THEN said ELSE Closing(InFile, Current(InFile))
  <2>0. turn \in Turns
    BY <1>2 DEF BeginStop, TurnHasBegun
  <2>1. said \in HookRows
    <3>1. NoHook \in HookRows
      BY RowsMade
    <3> QED BY <3>1, <1>a DEF HookRows
  <2>2. row \in HookRows
    <3> HIDE DEF said
    <3> QED BY <2>0, <2>1, <1>a, RowsMade, CurrentTyped
  <2>3. hook' \in [Closers -> HookRows]
    <3>1. hook' = [hook EXCEPT !["stop"] = row] /\ "stop" \in Closers
      BY <1>2 DEF BeginStop, Closers
    <3> HIDE DEF row
    <3> QED BY <3>1, <2>2, HooksTyped
  <2> QED BY <1>2, <2>3 DEF BeginStop, SpoolTyped
<1>3. CASE Say
  <2> DEFINE i == NextIndex(hook["stop"].view, turn)
             row == [hook["stop"] EXCEPT !.phase = "looking"]
  <2>0. "stop" \in Closers /\ turn \in Turns
    BY <1>3 DEF Say, TurnHasBegun, Closers
  <2>1. i \in Nat
    <3>1. hook["stop"].view \in Seq(JournalRecords)
      BY <2>0, RowsOfHooks
    <3> QED BY <3>1, OfFinite DEF NextIndex
  <2>2. row \in HookRows
    BY <2>0, RowsOfHooks DEF HookRows
  <2>3. hook' \in [Closers -> HookRows]
    <3>1. hook' = [hook EXCEPT !["stop"] = row]
      BY <1>3 DEF Say, SpoolTyped
    <3> HIDE DEF row
    <3> QED BY <3>1, <2>0, <2>2, HooksTyped
  <2>4. journal' \in Seq(JournalRecords) /\ aged' \in BOOLEAN
    <3>1. Append1(Message(turn, i)) /\ Message(turn, i) \in JournalRecords
      BY <1>3, <2>0, <2>1, RecordsMade DEF Say
    <3> QED BY <3>1, JournalTyped
  <2>5. history' \in Histories
    <3>1. Cut(turn) \in SUBSET Turns /\ Late(turn) \in SUBSET Turns
      BY <2>0, TurnsTyped
    <3> QED BY <1>3, <2>0, <3>1 DEF Say, SpoolTyped, Histories
  <2> QED BY <1>3, <2>3, <2>4, <2>5 DEF Say, SpoolTyped
<1>4. CASE Look
  <2> DEFINE row == Closing(InFile, Current(InFile))
  <2>0. "stop" \in Closers /\ turn \in Turns
    BY <1>4 DEF Look, TurnHasBegun, Closers
  <2>1. row \in HookRows
    BY <2>0, <1>a, RowsMade, CurrentTyped
  <2>2. hook' \in [Closers -> HookRows]
    <3>1. hook' = [hook EXCEPT !["stop"] = row]
      BY <1>4 DEF Look
    <3> HIDE DEF row
    <3> QED BY <3>1, <2>0, <2>1, HooksTyped
  <2> QED BY <1>4, <2>2 DEF Look, SpoolTyped
<1>5. CASE BeginEnd
  <2> DEFINE row == Closing(InFile, Unclosed(InFile))
  <2>1. row \in HookRows
    BY <1>a, RowsMade, UnclosedTyped
  <2>2. hook' \in [Closers -> HookRows]
    <3>1. hook' = [hook EXCEPT !["end"] = row] /\ "end" \in Closers
      BY <1>5 DEF BeginEnd, Closers
    <3> HIDE DEF row
    <3> QED BY <3>1, <2>1, HooksTyped
  <2> QED BY <1>5, <2>2 DEF BeginEnd, SpoolTyped
<1>6. CASE EndPrompt
  <2>0. "prompt" \in Closers /\ turn \in Turns
    BY <1>6 DEF EndPrompt, TurnHasBegun, Closers
  <2>1. hook' \in [Closers -> HookRows]
    <3>1. hook' = [hook EXCEPT !["prompt"] = NoHook]
      BY <1>6 DEF EndPrompt
    <3> QED BY <3>1, <2>0, RowsMade, HooksTyped
  <2>2. journal' \in Seq(JournalRecords) /\ aged' \in BOOLEAN
    <3>1. CASE Append1(SegmentOpen(turn))
      BY <3>1, <2>0, RecordsMade, JournalTyped
    <3>2. CASE Append1(Overlong(turn))
      BY <3>2, <2>0, RecordsMade, JournalTyped
    <3> QED BY <1>6, <3>1, <3>2 DEF EndPrompt
  <2>3. history' \in Histories
    BY <1>6, CountTyped DEF EndPrompt, SpoolTyped
  <2> QED BY <1>6, <2>1, <2>2, <2>3 DEF EndPrompt, SpoolTyped
<1>7. CASE InterruptTurn
  BY <1>7 DEF InterruptTurn, SpoolTyped
<1>8. CASE Continue
  BY <1>8 DEF Continue, SpoolTyped
<1>9. CASE Done
  <2>1. history' \in Histories
    <3> DEFINE n == history.dones + 1
    <3>1. history \in Histories /\ history' = [history EXCEPT !.dones = n]
      BY <1>9 DEF Done, SpoolTyped
    <3>2. n \in Nat
      BY <3>1 DEF Histories
    <3> HIDE DEF n
    <3> QED BY <3>1, <3>2 DEF Histories
  <2> QED BY <1>9, <2>1 DEF Done, SpoolTyped
<1>10. CASE Day
  BY <1>10 DEF Day, SpoolTyped
<1> QED BY <1>1, <1>2, <1>3, <1>4, <1>5, <1>6, <1>7, <1>8, <1>9, <1>10 DEF EditorStep

LEMMA FaultCounted ==
  ASSUME SpoolTyped, NEW STATE x, x \in SUBSET Turns,
         history' = [history EXCEPT !.faults = history.faults + 1, !.erased = x]
  PROVE  history' \in Histories
<1> DEFINE n == history.faults + 1
<1>1. history \in Histories /\ n \in Nat
  BY DEF SpoolTyped, Histories
<1>2. history' = [history EXCEPT !.faults = n, !.erased = x]
  OBVIOUS
<1> HIDE DEF n
<1> QED BY <1>1, <1>2 DEF Histories

LEMMA ToolTypes ==
  ASSUME SpoolShape, NEW t \in Tools, ToolStep(t) PROVE SpoolTyped'
<1>0. SpoolTyped /\ TurnOf[t] \in Turns
  BY SpoolConstants DEF SpoolShape
<1> USE <1>0 DEF filed
<1>1. CASE StartTool(t)
  <2>1. NextIndex(InFile, turn) \in Nat
    BY ReadTyped, OfFinite DEF InFile, NextIndex, SpoolTyped
  <2> QED BY <1>1, <2>1 DEF StartTool, SpoolTyped
<1>2. CASE OpenStep(t)
  <2> DEFINE p == TurnOf[t]
             old == NextIndex(journal, p)
  <2>0. index[t] \in Nat
    BY DEF SpoolTyped
  <2>1. journal' \in Seq(JournalRecords) /\ aged' \in BOOLEAN
    <3>1. Append1(StepOpen(t, index[t])) /\ StepOpen(t, index[t]) \in JournalRecords
      BY <1>2, <2>0, RecordsMade DEF OpenStep
    <3> QED BY <3>1, JournalTyped
  <2>2. history' \in Histories
    <3>1. Cut(p) \in SUBSET Turns /\ Late(p) \in SUBSET Turns
      BY TurnsTyped
    <3>2. history.opened[p] \in Seq(Tools)
      BY DEF SpoolTyped, Histories
    <3>3. Append(history.opened[p], t) \in Seq(Tools)
      BY <3>2
    <3> QED BY <1>2, <3>1, <3>3 DEF OpenStep, SpoolTyped, Histories
  <2> QED BY <1>2, <2>1, <2>2 DEF OpenStep, SpoolTyped
<1>3. CASE LoseStep(t)
  <2>1. history' \in Histories
    BY <1>3, CountTyped DEF LoseStep
  <2> QED BY <1>3, <2>1 DEF LoseStep, SpoolTyped
<1>4. CASE FailTool(t)
  BY <1>4 DEF FailTool, SpoolTyped
<1>5. ASSUME NEW status \in {"ok", "error"}, CloseStep(t, status) PROVE SpoolTyped'
  <2>1. journal' \in Seq(JournalRecords) /\ aged' \in BOOLEAN
    <3>1. Append1(StepClose(t, status)) /\ StepClose(t, status) \in JournalRecords
      BY <1>5, RecordsMade DEF CloseStep
    <3> QED BY <3>1, JournalTyped
  <2>2. history' \in Histories
    <3>1. Cut(TurnOf[t]) \in SUBSET Turns /\ Late(TurnOf[t]) \in SUBSET Turns
      BY TurnsTyped
    <3> QED BY <1>5, <3>1 DEF CloseStep, SpoolTyped, Histories
  <2> QED BY <1>5, <2>1, <2>2 DEF CloseStep, SpoolTyped
<1>6. CASE OverfillStep(t)
  <2> DEFINE p == TurnOf[t]
             n == history.faults + 1
  <2>1. journal' \in Seq(JournalRecords) /\ aged' \in BOOLEAN
    <3>1. Append1(Overlong(p)) /\ Overlong(p) \in JournalRecords
      BY <1>6, RecordsMade DEF OverfillStep
    <3> QED BY <3>1, JournalTyped
  <2>2. history' \in Histories
    <3>1. Cut(p) \in SUBSET Turns /\ Late(p) \in SUBSET Turns
      BY TurnsTyped
    <3>2. history \in Histories /\ n \in Nat
          /\ history' = [history EXCEPT !.faults = n, !.cut = Cut(p), !.late = Late(p)]
      BY <1>6 DEF OverfillStep, SpoolTyped, Histories
    <3> HIDE DEF n
    <3> QED BY <3>1, <3>2 DEF Histories
  <2> QED BY <1>6, <2>1, <2>2 DEF OverfillStep, SpoolTyped
<1> QED BY <1>1, <1>2, <1>3, <1>4, <1>5, <1>6 DEF ToolStep

LEMMA HookTypes ==
  ASSUME SpoolShape, NEW h \in Closers, HookStep(h) PROVE SpoolTyped'
<1>0. SpoolTyped /\ hook[h] \in HookRows /\ HooksStand
  BY RowsOfHooks DEF SpoolShape
<1> USE <1>0 DEF filed
<1>1. CASE Judge(h)
  <2> DEFINE verdict == Resolve(Reconciled(hook[h].view, Head(hook[h].todo)), marker)
             row == [hook[h] EXCEPT !.phase = IF marker THEN "clearing" ELSE "writing",
                                    !.label = verdict]
  <2>1. row \in HookRows
    <3>1. verdict \in Labels
      BY OutcomeTyped DEF SpoolTyped
    <3> HIDE DEF verdict
    <3> QED BY <3>1 DEF HookRows
  <2>2. hook' = [hook EXCEPT ![h] = row]
    BY <1>1 DEF Judge, SpoolTyped
  <2>3. hook' \in [Closers -> HookRows]
    <3> HIDE DEF row
    <3> QED BY <2>1, <2>2, HooksTyped
  <2>4. history' \in Histories
    <3> DEFINE b == history.shared \/ (marker /\ \E g \in Closers : hook[g].phase = "clearing")
    <3>1. history \in Histories /\ history' = [history EXCEPT !.shared = b]
      BY <1>1 DEF Judge, SpoolTyped
    <3>2. b \in BOOLEAN
      BY DEF SpoolTyped, Histories
    <3> HIDE DEF b
    <3> QED BY <3>1, <3>2 DEF Histories
  <2> QED BY <1>1, <2>3, <2>4 DEF Judge, SpoolTyped
<1>2. CASE ClearMarker(h)
  <2> DEFINE row == [hook[h] EXCEPT !.phase = "writing"]
  <2>1. row \in HookRows
    BY DEF HookRows
  <2>2. hook' = [hook EXCEPT ![h] = row]
    BY <1>2 DEF ClearMarker, SpoolTyped
  <2>3. hook' \in [Closers -> HookRows]
    <3> HIDE DEF row
    <3> QED BY <2>1, <2>2, HooksTyped
  <2> QED BY <1>2, <2>3 DEF ClearMarker, ClearedMarker, SpoolTyped
<1>3. CASE WriteClose(h)
  <2> DEFINE p == Head(hook[h].todo)
             row == [hook[h] EXCEPT !.phase = "closing", !.todo = Tail(@), !.label = <<>>]
  <2>0. hook[h].todo # <<>> /\ hook[h].label \in Labels
    BY <1>3 DEF WriteClose, HooksStand
  <2>1. p \in Turns /\ Tail(hook[h].todo) \in Seq(Turns)
    BY <2>0, RowsOfHooks
  <2>2. row \in HookRows
    BY <2>1 DEF HookRows
  <2>3. hook' = [hook EXCEPT ![h] = row]
    BY <1>3 DEF WriteClose, SpoolTyped
  <2>4. hook' \in [Closers -> HookRows]
    <3> HIDE DEF row
    <3> QED BY <2>2, <2>3, HooksTyped
  <2>5. journal' \in Seq(JournalRecords) /\ aged' \in BOOLEAN
    <3>1. Append1(SegmentClose(p, hook[h].label))
          /\ SegmentClose(p, hook[h].label) \in JournalRecords
      BY <1>3, <2>0, <2>1, RecordsMade DEF WriteClose
    <3> QED BY <3>1, JournalTyped
  <2>6. history' \in Histories
    <3> DEFINE c == Cut(p)
               n == IF IsClosed(journal, p) THEN history.atClose[p] ELSE Len(history.opened[p])
               d == IF hook[h].label.confirmed THEN history.confirmed \cup {p}
                    ELSE history.confirmed
    <3>1. c \in SUBSET Turns
      BY <2>1, TurnsTyped
    <3>2. history \in Histories /\ n \in Nat /\ d \in SUBSET Turns
      BY <2>1 DEF SpoolTyped, Histories
    <3>3. history' = [history EXCEPT !.cut = c, !.atClose[p] = n, !.confirmed = d]
      BY <1>3 DEF WriteClose
    <3> HIDE DEF p, c, n, d
    <3> QED BY <3>1, <3>2, <3>3 DEF Histories
  <2> QED BY <1>3, <2>4, <2>5, <2>6 DEF WriteClose, SpoolTyped
<1>4. CASE KillHook(h)
  <2>1. hook' \in [Closers -> HookRows]
    BY <1>4, RowsMade, HooksTyped DEF KillHook
  <2>2. history' \in Histories
    BY <1>4, CountTyped DEF KillHook
  <2>3. editor' \in {"waiting", "prompting", "active", "stopping", "again", "ended"}
    BY <1>4 DEF KillHook, AfterStop, SpoolTyped
  <2> QED BY <1>4, <2>1, <2>2, <2>3 DEF KillHook, SpoolTyped
<1>5. ASSUME NEW f \in Flushers, EndClose(h, f) PROVE SpoolTyped'
  <2>1. hook' \in [Closers -> HookRows]
    BY <1>5, RowsMade, HooksTyped DEF EndClose
  <2>2. flusher' \in [Flushers -> FlusherRows]
    <3> DEFINE row == [flusher[f] EXCEPT !.phase = "spawned"]
    <3>1. row \in FlusherRows
      BY RowsOfFlushers DEF FlusherRows
    <3>2. flusher' = [flusher EXCEPT ![f] = row]
      BY <1>5 DEF EndClose, SpoolTyped
    <3> HIDE DEF row
    <3> QED BY <3>1, <3>2, FlushersTyped
  <2> QED BY <1>5, <2>1, <2>2 DEF EndClose, AfterStop, SpoolTyped
<1> QED BY <1>1, <1>2, <1>3, <1>4, <1>5 DEF HookStep

LEMMA FlushTypes ==
  ASSUME SpoolShape, FlushersStand, NEW f \in Flushers, FlushStep(f) PROVE SpoolTyped'
<1>0. SpoolTyped /\ flusher[f] \in FlusherRows
  BY RowsOfFlushers DEF SpoolShape
<1>a. Attempts \in Nat \ {0} /\ 0 \in 0..Attempts - 1
  BY SpoolConstants
<1> USE <1>0
<1>1. CASE Spawn(f)
  <2> DEFINE row == [flusher[f] EXCEPT !.phase = "spawned"]
  <2>1. row \in FlusherRows
    BY DEF FlusherRows
  <2>2. flusher' = [flusher EXCEPT ![f] = row]
    BY <1>1 DEF Spawn, SpoolTyped
  <2>3. flusher' \in [Flushers -> FlusherRows]
    <3> HIDE DEF row
    <3> QED BY <2>1, <2>2, FlushersTyped
  <2> QED BY <1>1, <2>3 DEF Spawn, SpoolTyped
<1>2. CASE Lock(f)
  <2> DEFINE row == [flusher[f] EXCEPT !.phase = "listing"]
  <2>1. row \in FlusherRows
    BY DEF FlusherRows
  <2>2. \/ flusher' = [flusher EXCEPT ![f] = row]
        \/ flusher' = [flusher EXCEPT ![f] = Idle]
    BY <1>2 DEF Lock, SpoolTyped
  <2>3. flusher' \in [Flushers -> FlusherRows]
    <3> HIDE DEF row
    <3> QED BY <2>1, <2>2, FlushersTyped, RowsMade
  <2> QED BY <1>2, <2>3 DEF Lock, SpoolTyped
<1>3. CASE List(f)
  <2> DEFINE q == QueueOf(journal, Shippable(journal) \ sent)
             any == Shippable(journal) # {}
             row == [phase |-> "pushing", tries |-> 0, complete |-> TRUE, any |-> any,
                     read |-> Len(journal), queue |-> q]
  <2>1. q \in Seq(SpooledRuns)
    <3>1. /\ Shippable(journal) \ sent \in SUBSET Turns /\ journal \in Seq(JournalRecords)
          /\ \A p \in Shippable(journal) \ sent : IsClosed(journal, p)
      BY DEF Shippable, SpoolTyped
    <3> QED BY <3>1, QueueTaken
  <2>2. row \in FlusherRows
    <3>1. Len(journal) \in Nat
      BY DEF SpoolTyped
    <3> HIDE DEF q
    <3> QED BY <2>1, <3>1, <1>a DEF FlusherRows
  <2>3. flusher' = [flusher EXCEPT ![f] = row]
    BY <1>3 DEF List, QueueOf
  <2>4. flusher' \in [Flushers -> FlusherRows]
    <3> HIDE DEF row
    <3> QED BY <2>2, <2>3, FlushersTyped
  <2> HIDE DEF row
  <2> QED BY <1>3, <2>4 DEF List, SpoolTyped
<1>4. CASE MarkSent(f)
  <2>0. flusher[f].queue # <<>>
    BY <1>4 DEF MarkSent, FlushersStand
  <2> DEFINE parcel == Head(flusher[f].queue)
             row == [flusher[f] EXCEPT !.phase = "pushing", !.tries = 0, !.queue = Tail(@)]
  <2>1. parcel \in SpooledRuns /\ Tail(flusher[f].queue) \in Seq(SpooledRuns)
    BY <2>0, RowsOfFlushers
  <2>2. row \in FlusherRows /\ parcel.turn \in Turns
    BY <2>1, <1>a DEF FlusherRows, SpooledRuns
  <2>3. flusher' = [flusher EXCEPT ![f] = row]
    BY <1>4 DEF MarkSent, SpoolTyped
  <2>4. flusher' \in [Flushers -> FlusherRows]
    <3> HIDE DEF row
    <3> QED BY <2>2, <2>3, FlushersTyped
  <2>5. sent' \in SUBSET Turns
    BY <1>4, <2>2 DEF MarkSent, SpoolTyped
  <2> QED BY <1>4, <2>4, <2>5 DEF MarkSent, SpoolTyped
<1>5. CASE EndFlush(f)
  <2> DEFINE row == [flusher[f] EXCEPT !.phase = "removing"]
  <2>1. row \in FlusherRows
    BY DEF FlusherRows
  <2>2. \/ flusher' = [flusher EXCEPT ![f] = row] /\ lock' = lock
        \/ flusher' = [flusher EXCEPT ![f] = Idle] /\ lock' = NoFlusher
    BY <1>5 DEF EndFlush, Released, SpoolTyped
  <2>3. flusher' \in [Flushers -> FlusherRows]
    <3> HIDE DEF row
    <3> QED BY <2>1, <2>2, FlushersTyped, RowsMade
  <2> HIDE DEF row
  <2> QED BY <1>5, <2>2, <2>3 DEF EndFlush, SpoolTyped
<1>10. CASE RemoveFile(f)
  <2>1. flusher' \in [Flushers -> FlusherRows]
    BY <1>10, RowsMade, FlushersTyped DEF RemoveFile, Released
  <2> DEFINE x == history.erased \cup {journal[k].turn : k \in DOMAIN journal}
  <2>2. x \in SUBSET Turns
    <3>1. \A k \in DOMAIN journal : journal[k] \in JournalRecords
      BY DEF SpoolTyped
    <3> QED BY <3>1, RecordsKnown DEF SpoolTyped, Histories
  <2>3. history' \in Histories
    <3>1. history' = [history EXCEPT !.faults = history.faults, !.erased = x]
      BY <1>10 DEF RemoveFile, Remove
    <3>2. history \in Histories /\ history.faults \in Nat
      BY DEF SpoolTyped, Histories
    <3> HIDE DEF x
    <3> QED BY <2>2, <3>1, <3>2 DEF Histories
  <2>4. journal' = <<>> /\ sent' = {} /\ aged' = FALSE
    BY <1>10 DEF RemoveFile, Remove
  <2>5. <<>> \in Seq(JournalRecords)
    OBVIOUS
  <2> HIDE DEF x
  <2> QED BY <1>10, <2>1, <2>3, <2>4, <2>5 DEF RemoveFile, Released, SpoolTyped
<1>11. CASE SkipFile(f)
  <2>1. flusher' \in [Flushers -> FlusherRows]
    BY <1>11, RowsMade, FlushersTyped DEF SkipFile, Released
  <2> QED BY <1>11, <2>1 DEF SkipFile, Released, SpoolTyped
<1>6. CASE DropFile(f)
  <2> DEFINE x == history.erased \cup {journal[k].turn : k \in DOMAIN journal}
  <2>1. x \in SUBSET Turns
    <3>1. \A k \in DOMAIN journal : journal[k] \in JournalRecords
      BY DEF SpoolTyped
    <3> QED BY <3>1, RecordsKnown DEF SpoolTyped, Histories
  <2>2. history' \in Histories
    <3>1. history' = [history EXCEPT !.faults = history.faults + 1, !.erased = x]
      BY <1>6 DEF DropFile, Remove
    <3> HIDE DEF x
    <3> QED BY <2>1, <3>1, FaultCounted
  <2>3. journal' \in Seq(JournalRecords) /\ sent' \in SUBSET Turns /\ aged' \in BOOLEAN
    <3>1. journal' = <<>> /\ sent' = {} /\ aged' = FALSE
      BY <1>6 DEF DropFile, Remove
    <3>2. <<>> \in Seq(JournalRecords)
      OBVIOUS
    <3> QED BY <3>1, <3>2
  <2> QED BY <1>6, <2>2, <2>3 DEF DropFile, SpoolTyped
<1>7. CASE KillFlush(f)
  <2>1. flusher' \in [Flushers -> FlusherRows]
    BY <1>7, RowsMade, FlushersTyped DEF KillFlush
  <2>2. history' \in Histories
    BY <1>7, CountTyped DEF KillFlush
  <2> QED BY <1>7, <2>1, <2>2 DEF KillFlush, FreedLock, SpoolTyped
<1>8. ASSUME NEW accepted \in BOOLEAN, Answered(f, accepted) PROVE SpoolTyped'
  <2> DEFINE parcel == Head(flusher[f].queue)
             row == [flusher[f] EXCEPT !.phase = "marking"]
  <2>1. parcel \in SpooledRuns /\ parcel.turn \in Turns
    BY <1>8, RowsOfFlushers DEF Answered, Pushing, SpooledRuns
  <2>2. row \in FlusherRows
    BY DEF FlusherRows
  <2>3. flusher' = [flusher EXCEPT ![f] = row]
    BY <1>8 DEF Answered, SpoolTyped
  <2>4. flusher' \in [Flushers -> FlusherRows]
    <3> HIDE DEF row
    <3> QED BY <2>2, <2>3, FlushersTyped
  <2>5. /\ stored' \in [Turns -> SpooledRuns \cup {NotStored}] /\ refused' \in SUBSET Turns
        /\ \A p \in Turns : stored'[p] = NotStored \/ stored'[p].turn = p
    <3> DEFINE R == SpooledRuns \cup {NotStored}
    <3>1. stored \in [Turns -> R] /\ refused \in SUBSET Turns /\ parcel \in R
          /\ \A p \in Turns : stored[p] = NotStored \/ stored[p].turn = p
      BY <2>1 DEF SpoolTyped
    <3>2. \/ stored' = [stored EXCEPT ![parcel.turn] = parcel] /\ refused' = refused
          \/ refused' = refused \cup {parcel.turn} /\ stored' = stored
      BY <1>8 DEF Answered
    <3> HIDE DEF R, parcel
    <3>3. stored' \in [Turns -> R] /\ refused' \in SUBSET Turns
          /\ \A p \in Turns : stored'[p] = NotStored \/ stored'[p].turn = p
      BY <2>1, <3>1, <3>2
    <3> QED BY <3>3 DEF R
  <2> HIDE DEF row, parcel
  <2> QED BY <1>8, <2>4, <2>5 DEF Answered, SpoolTyped
<1>9. ASSUME NEW arrived \in BOOLEAN, Unanswered(f, arrived) PROVE SpoolTyped'
  <2> DEFINE parcel == Head(flusher[f].queue)
             last == LastTry(flusher[f].tries)
             row == [flusher[f] EXCEPT !.tries = IF last THEN 0 ELSE @ + 1,
                       !.complete = @ /\ ~last, !.queue = IF last THEN Tail(@) ELSE @]
  <2>1. /\ parcel \in SpooledRuns /\ parcel.turn \in Turns
        /\ Tail(flusher[f].queue) \in Seq(SpooledRuns)
    BY <1>9, RowsOfFlushers DEF Unanswered, Pushing, SpooledRuns
  <2>2. row \in FlusherRows
    <3> DEFINE tries == IF last THEN 0 ELSE flusher[f].tries + 1
               complete == flusher[f].complete /\ ~last
               queue == IF last THEN Tail(flusher[f].queue) ELSE flusher[f].queue
    <3>1. tries \in 0..Attempts - 1
      <4>1. flusher[f].tries \in 0..Attempts - 1
        BY DEF FlusherRows
      <4> QED BY <4>1, <1>a DEF LastTry
    <3>2. queue \in Seq(SpooledRuns) /\ complete \in BOOLEAN
      BY <2>1, RowsOfFlushers
    <3>3. row = [flusher[f] EXCEPT !.tries = tries, !.complete = complete, !.queue = queue]
      OBVIOUS
    <3> HIDE DEF row, tries, complete, queue
    <3> QED BY <3>1, <3>2, <3>3 DEF FlusherRows
  <2>3. flusher' = [flusher EXCEPT ![f] = row]
    BY <1>9 DEF Unanswered, SpoolTyped
  <2>4. flusher' \in [Flushers -> FlusherRows]
    <3> HIDE DEF row
    <3> QED BY <2>2, <2>3, FlushersTyped
  <2>5. /\ stored' \in [Turns -> SpooledRuns \cup {NotStored}]
        /\ \A p \in Turns : stored'[p] = NotStored \/ stored'[p].turn = p
    <3> DEFINE R == SpooledRuns \cup {NotStored}
    <3>1. stored \in [Turns -> R] /\ parcel \in R
          /\ \A p \in Turns : stored[p] = NotStored \/ stored[p].turn = p
      BY <2>1 DEF SpoolTyped
    <3>2. stored' = [stored EXCEPT ![parcel.turn] = parcel] \/ stored' = stored
      BY <1>9 DEF Unanswered
    <3> HIDE DEF R, parcel
    <3>3. stored' \in [Turns -> R]
          /\ \A p \in Turns : stored'[p] = NotStored \/ stored'[p].turn = p
      BY <2>1, <3>1, <3>2
    <3> QED BY <3>3 DEF R
  <2>6. sent' = sent
    BY <1>9 DEF Unanswered, LeftForLater
  <2> HIDE DEF row, parcel, last
  <2> QED BY <1>9, <2>4, <2>5, <2>6 DEF Unanswered, SpoolTyped
<1> QED BY <1>1, <1>2, <1>3, <1>4, <1>5, <1>6, <1>7, <1>8, <1>9, <1>10, <1>11 DEF FlushStep, Flushing, IsAnswered

\* A step that changes the file appends a record to it or removes it.
FileGrows == \E r \in JournalRecords : OfItsTurn(r) /\ Append1(r)
FileGoes == journal' = <<>> /\ aged' = FALSE /\ sent' = {}

LEMMA EditorFiles == ASSUME SpoolShape, EditorStep PROVE journal' = journal \/ FileGrows
<1>1. CASE Say
  <2> DEFINE i == NextIndex(hook["stop"].view, turn)
  <2>0. "stop" \in Closers /\ turn \in Turns /\ SpoolTyped
    BY <1>1 DEF Say, SpoolShape, TurnHasBegun, Closers
  <2>1. i \in Nat
    <3>1. hook["stop"].view \in Seq(JournalRecords)
      BY <2>0, RowsOfHooks
    <3> QED BY <3>1, OfFinite DEF NextIndex
  <2>2. Append1(Message(turn, i)) /\ Message(turn, i) \in JournalRecords /\ OfItsTurn(Message(turn, i))
    BY <1>1, <2>0, <2>1, RecordsMade DEF Say
  <2> QED BY <2>2 DEF FileGrows
<1>2. CASE EndPrompt
  <2>0. "prompt" \in Closers /\ turn \in Turns
    BY <1>2 DEF EndPrompt, SpoolShape, TurnHasBegun, Closers
  <2>1. /\ SegmentOpen(turn) \in JournalRecords /\ OfItsTurn(SegmentOpen(turn))
        /\ Overlong(turn) \in JournalRecords /\ OfItsTurn(Overlong(turn))
    BY <2>0, RecordsMade
  <2>2. Append1(SegmentOpen(turn)) \/ Append1(Overlong(turn))
    BY <1>2 DEF EndPrompt
  <2> QED BY <2>1, <2>2 DEF FileGrows
<1>3. CASE BeginPrompt \/ (\E speaks \in BOOLEAN : BeginStop(speaks)) \/ Look \/ BeginEnd \/ InterruptTurn \/ Continue \/ Done \/ Day
  BY <1>3 DEF BeginPrompt, BeginStop, Look, BeginEnd, InterruptTurn, Continue, Done, Day
<1> QED BY <1>1, <1>2, <1>3 DEF EditorStep

LEMMA ToolFiles ==
  ASSUME SpoolShape, NEW t \in Tools, ToolStep(t) PROVE journal' = journal \/ FileGrows
<1>1. CASE OpenStep(t)
  <2>0. index[t] \in Nat
    BY DEF SpoolShape, SpoolTyped
  <2>1. Append1(StepOpen(t, index[t])) /\ StepOpen(t, index[t]) \in JournalRecords
        /\ OfItsTurn(StepOpen(t, index[t]))
    BY <1>1, <2>0, RecordsMade DEF OpenStep
  <2> QED BY <2>1 DEF FileGrows
<1>2. ASSUME NEW status \in {"ok", "error"}, CloseStep(t, status) PROVE FileGrows
  <2>1. Append1(StepClose(t, status)) /\ StepClose(t, status) \in JournalRecords
        /\ OfItsTurn(StepClose(t, status))
    BY <1>2, RecordsMade DEF CloseStep
  <2> QED BY <2>1 DEF FileGrows
<1>3. CASE StartTool(t) \/ LoseStep(t) \/ FailTool(t)
  BY <1>3 DEF StartTool, LoseStep, FailTool
<1>4. CASE OverfillStep(t)
  <2>1. Append1(Overlong(TurnOf[t])) /\ Overlong(TurnOf[t]) \in JournalRecords
        /\ OfItsTurn(Overlong(TurnOf[t]))
    BY <1>4, SpoolConstants, RecordsMade DEF OverfillStep
  <2> QED BY <2>1 DEF FileGrows
<1> QED BY <1>1, <1>2, <1>3, <1>4 DEF ToolStep

LEMMA HookFiles ==
  ASSUME SpoolShape, NEW h \in Closers, HookStep(h) PROVE journal' = journal \/ FileGrows
<1>1. CASE WriteClose(h)
  <2> DEFINE p == Head(hook[h].todo)
  <2>0. SpoolTyped /\ hook[h].todo # <<>> /\ hook[h].label \in Labels
    BY <1>1 DEF WriteClose, SpoolShape, HooksStand
  <2>1. p \in Turns
    BY <2>0, RowsOfHooks
  <2>2. Append1(SegmentClose(p, hook[h].label)) /\ SegmentClose(p, hook[h].label) \in JournalRecords
        /\ OfItsTurn(SegmentClose(p, hook[h].label))
    BY <1>1, <2>0, <2>1, RecordsMade DEF WriteClose
  <2> QED BY <2>2 DEF FileGrows
<1>2. CASE Judge(h) \/ ClearMarker(h) \/ KillHook(h) \/ \E f \in Flushers : EndClose(h, f)
  BY <1>2 DEF Judge, ClearMarker, KillHook, EndClose
<1> QED BY <1>1, <1>2 DEF HookStep

LEMMA FlushFiles ==
  ASSUME NEW f \in Flushers, FlushStep(f) PROVE journal' = journal \/ FileGoes
<1>1. CASE RemoveFile(f) \/ DropFile(f)
  BY <1>1 DEF RemoveFile, DropFile, Remove, FileGoes
<1>2. CASE Spawn(f) \/ Lock(f) \/ List(f) \/ SkipFile(f) \/ MarkSent(f) \/ EndFlush(f) \/ KillFlush(f)
  BY <1>2 DEF Spawn, Lock, List, SkipFile, MarkSent, EndFlush, KillFlush
<1>3. CASE IsAnswered(f) \/ \E arrived \in BOOLEAN : Unanswered(f, arrived)
  BY <1>3 DEF IsAnswered, Answered, Unanswered
<1> QED BY <1>1, <1>2, <1>3 DEF FlushStep, Flushing

LEMMA FileMoves ==
  ASSUME SpoolShape, Next PROVE journal' = journal \/ FileGrows \/ FileGoes
BY EditorFiles, ToolFiles, HookFiles, FlushFiles, Zenon DEF Next

\* What a hook has read is what was to be read of the file at some moment.
LEMMA ViewsMove ==
  ASSUME SpoolShape, Next, NEW h \in Closers
  PROVE  hook'[h].view \in {hook[h].view, InFile, <<>>}
<1>0. hook \in [Closers -> HookRows]
  BY DEF SpoolShape, SpoolTyped
<1> DEFINE Goal == hook'[h].view \in {hook[h].view, InFile, <<>>}
<1>1. CASE EditorStep
  <2>1. CASE BeginPrompt
    BY <1>0, <2>1 DEF BeginPrompt, Closing
  <2>2. ASSUME NEW speaks \in BOOLEAN, BeginStop(speaks) PROVE Goal
    <3>1. CASE speaks
      BY <1>0, <2>2, <3>1 DEF BeginStop, NoHook
    <3>2. CASE ~speaks
      BY <1>0, <2>2, <3>2 DEF BeginStop, Closing
    <3> QED BY <3>1, <3>2
  <2>3. CASE Say
    BY <1>0, <2>3 DEF Say, HookRows
  <2>4. CASE Look
    BY <1>0, <2>4 DEF Look, Closing
  <2>5. CASE BeginEnd
    BY <1>0, <2>5 DEF BeginEnd, Closing
  <2>6. CASE EndPrompt
    BY <1>0, <2>6 DEF EndPrompt, NoHook
  <2>7. CASE InterruptTurn \/ Continue \/ Done \/ Day
    BY <2>7 DEF InterruptTurn, Continue, Done, Day
  <2> QED BY <1>1, <2>1, <2>2, <2>3, <2>4, <2>5, <2>6, <2>7 DEF EditorStep
<1>2. CASE \E t \in Tools : ToolStep(t)
  BY <1>2 DEF ToolStep, StartTool, OpenStep, OverfillStep, LoseStep, FailTool, CloseStep
<1>3. ASSUME NEW g \in Closers, HookStep(g) PROVE Goal
  <2>1. CASE Judge(g)
    BY <1>0, <2>1 DEF Judge, HookRows
  <2>2. CASE ClearMarker(g)
    BY <1>0, <2>2 DEF ClearMarker, HookRows
  <2>3. CASE WriteClose(g)
    BY <1>0, <2>3 DEF WriteClose, HookRows
  <2>4. CASE KillHook(g) \/ \E f \in Flushers : EndClose(g, f)
    BY <1>0, <2>4 DEF KillHook, EndClose, NoHook
  <2> QED BY <1>3, <2>1, <2>2, <2>3, <2>4 DEF HookStep
<1>4. ASSUME NEW f \in Flushers, FlushStep(f) PROVE hook' = hook
  BY <1>4 DEF FlushStep, Flushing, IsAnswered, Spawn, Lock, List, SkipFile, MarkSent, EndFlush, RemoveFile, DropFile,
              KillFlush, Answered, Unanswered
<1> QED BY <1>1, <1>2, <1>3, <1>4 DEF Next

LEMMA FitStays ==
  ASSUME SpoolShape, Next PROVE RecordsFit'
<1>0. SpoolTyped /\ RecordsFit
  BY DEF SpoolShape
<1>1. \A k \in DOMAIN journal' : OfItsTurn(journal'[k])
  <2>1. CASE journal' = journal
    BY <1>0, <2>1 DEF RecordsFit
  <2>2. CASE FileGrows
    <3>1. PICK r \in JournalRecords : OfItsTurn(r) /\ journal' = Append(journal, r)
      BY <2>2 DEF FileGrows, Append1
    <3>2. journal \in Seq(JournalRecords)
      BY <1>0 DEF SpoolTyped
    <3> DEFINE j2 == Append(journal, r)
    <3>3. /\ DOMAIN journal = 1..Len(journal) /\ DOMAIN j2 = 1..(Len(journal) + 1)
          /\ Len(journal) \in Nat /\ j2[Len(journal) + 1] = r
          /\ \A k \in 1..Len(journal) : j2[k] = journal[k]
      BY <3>2, Appended
    <3> HIDE DEF j2
    <3>4. \A k \in DOMAIN j2 : OfItsTurn(j2[k])
      <4>1. ASSUME NEW k \in DOMAIN j2 PROVE OfItsTurn(j2[k])
        <5>1. CASE k = Len(journal) + 1
          BY <3>1, <3>3, <5>1
        <5>2. CASE k # Len(journal) + 1
          <6>1. k \in DOMAIN journal /\ j2[k] = journal[k]
            BY <3>3, <5>2
          <6> QED BY <6>1, <1>0 DEF RecordsFit
        <5> QED BY <5>1, <5>2
      <4> QED BY <4>1
    <3>5. journal' = j2
      BY <3>1 DEF j2
    <3> QED BY <3>4, <3>5
  <2>3. CASE FileGoes
    BY <2>3 DEF FileGoes
  <2> QED BY <2>1, <2>2, <2>3, FileMoves
<1>2. ASSUME NEW h \in Closers, NEW k \in DOMAIN hook'[h].view PROVE OfItsTurn(hook'[h].view[k])
  <2> DEFINE v == hook'[h].view
  <2>1. v \in {hook[h].view, InFile, <<>>}
    BY ViewsMove
  <2>2. DOMAIN <<>> = {}
    OBVIOUS
  <2>3. v # <<>>
    <3>1. k \in DOMAIN v
      OBVIOUS
    <3> HIDE DEF v
    <3> QED BY <3>1, <2>2
  <2>4. v = hook[h].view \/ v = InFile
    BY <2>1, <2>3
  <2>5. CASE v = InFile
    <3>1. \A l \in DOMAIN Readable(journal) :
            \E m \in DOMAIN journal : Readable(journal)[l] = journal[m]
      BY <1>0, ReadTyped DEF SpoolTyped
    <3>2. PICK m \in DOMAIN journal : v[k] = journal[m]
      BY <2>5, <3>1 DEF InFile
    <3> QED BY <1>0, <3>2 DEF RecordsFit
  <2> QED BY <1>0, <2>4, <2>5 DEF RecordsFit
<1> QED BY <1>1, <1>2 DEF RecordsFit

LEMMA HooksStay ==
  ASSUME SpoolShape, Next PROVE TurnHasBegun' /\ HooksStand'
<1>0. /\ SpoolTyped /\ TurnHasBegun /\ HooksStand /\ hook \in [Closers -> HookRows]
      /\ turn \in 0..LastTurn /\ LastTurn \in Nat
  BY SpoolConstants DEF SpoolShape, SpoolTyped
<1>a. Closers = {"prompt", "stop", "end"}
  BY DEF Closers
<1>1. CASE BeginPrompt
  <2>1. /\ hook' = [hook EXCEPT !["prompt"] = Closing(InFile, Unclosed(InFile))]
        /\ turn' = turn + 1 /\ turn < LastTurn
    BY <1>1 DEF BeginPrompt
  <2>2. turn' \in Turns
    BY <1>0, <2>1 DEF Turns
  <2>3. Closing(InFile, Unclosed(InFile)).phase = "closing"
    BY DEF Closing
  <2> DEFINE row == Closing(InFile, Unclosed(InFile))
  <2>4. \A h \in Closers : hook'[h] = IF h = "prompt" THEN row ELSE hook[h]
    <3> HIDE DEF row
    <3> QED BY <2>1, <1>0 DEF row
  <2> HIDE DEF row
  <2>5. HooksStand'
    BY <1>0, <2>3, <2>4 DEF HooksStand, row
  <2> QED BY <2>2, <2>5 DEF TurnHasBegun
<1>2. ASSUME NEW speaks \in BOOLEAN, BeginStop(speaks) PROVE TurnHasBegun' /\ HooksStand'
  <2> DEFINE said == [NoHook EXCEPT !.phase = "saying", !.view = InFile]
             row == IF speaks THEN said ELSE Closing(InFile, Current(InFile))
  <2>1. /\ hook' = [hook EXCEPT !["stop"] = row]
        /\ editor = "active" /\ turn' = turn /\ editor' = "stopping"
    BY <1>2 DEF BeginStop
  <2>2. said.phase = "saying" /\ said.todo = <<>> /\ Closing(InFile, Current(InFile)).phase = "closing"
    BY DEF NoHook, Closing
  <2>3. row.phase = "closing" \/ (row.phase = "saying" /\ row.todo = <<>>)
    <3> HIDE DEF said
    <3> QED BY <2>2
  <2> HIDE DEF row
  <2>4. \A h \in Closers : hook'[h] = IF h = "stop" THEN row ELSE hook[h]
    BY <1>0, <2>1
  <2> QED BY <1>0, <1>a, <2>1, <2>3, <2>4 DEF HooksStand, TurnHasBegun
<1>3. CASE Say
  <2>1. hook' = [hook EXCEPT !["stop"].phase = "looking"] /\ hook["stop"].phase = "saying"
        /\ turn' = turn /\ editor' = editor
    BY <1>3 DEF Say
  <2>2. \A h \in Closers : h # "stop" => hook'[h] = hook[h]
    BY <1>0, <2>1
  <2>3. hook'["stop"].phase = "looking" /\ hook'["stop"].todo = hook["stop"].todo
    BY <1>0, <1>a, <2>1 DEF HookRows
  <2> QED BY <1>0, <1>a, <2>1, <2>2, <2>3 DEF HooksStand, TurnHasBegun
<1>4. CASE Look
  <2> DEFINE row == Closing(InFile, Current(InFile))
  <2>1. hook' = [hook EXCEPT !["stop"] = row] /\ turn' = turn /\ editor' = editor
    BY <1>4 DEF Look
  <2>2. row.phase = "closing"
    BY DEF Closing
  <2> HIDE DEF row
  <2>3. \A h \in Closers : hook'[h] = IF h = "stop" THEN row ELSE hook[h]
    BY <1>0, <2>1
  <2> QED BY <1>0, <1>a, <2>1, <2>2, <2>3 DEF HooksStand, TurnHasBegun
<1>5. CASE BeginEnd
  <2> DEFINE row == Closing(InFile, Unclosed(InFile))
  <2>1. hook' = [hook EXCEPT !["end"] = row] /\ turn' = turn /\ editor' = "ended"
    BY <1>5 DEF BeginEnd
  <2>2. row.phase = "closing"
    BY DEF Closing
  <2> HIDE DEF row
  <2>3. \A h \in Closers : hook'[h] = IF h = "end" THEN row ELSE hook[h]
    BY <1>0, <2>1
  <2> QED BY <1>0, <1>a, <2>1, <2>2, <2>3 DEF HooksStand, TurnHasBegun
<1>6. CASE EndPrompt
  <2>1. hook' = [hook EXCEPT !["prompt"] = NoHook] /\ turn' = turn
        /\ hook["prompt"].phase = "closing"
    BY <1>6 DEF EndPrompt
  <2>2. NoHook.phase = "idle"
    BY DEF NoHook
  <2>3. \A h \in Closers : hook'[h] = IF h = "prompt" THEN NoHook ELSE hook[h]
    BY <1>0, <2>1
  <2>4. turn \in Turns
    BY <1>0, <2>1 DEF TurnHasBegun
  <2> QED BY <1>0, <1>a, <2>1, <2>2, <2>3, <2>4 DEF HooksStand, TurnHasBegun
<1>7. CASE InterruptTurn \/ Continue \/ Done \/ Day
  <2>1. hook' = hook /\ turn' = turn
        /\ (editor' = editor \/ editor' = "waiting" \/ (editor' = "again" /\ turn > 0))
    BY <1>7 DEF InterruptTurn, Continue, Done, Day
  <2>2. turn > 0 => turn \in Turns
    BY <1>0 DEF Turns
  <2> QED BY <1>0, <2>1, <2>2 DEF HooksStand, TurnHasBegun
<1>8. ASSUME NEW t \in Tools, ToolStep(t) PROVE TurnHasBegun' /\ HooksStand'
  <2>1. hook' = hook /\ turn' = turn /\ editor' = editor
    BY <1>8 DEF ToolStep, StartTool, OpenStep, OverfillStep, LoseStep, FailTool, CloseStep
  <2> QED BY <1>0, <2>1 DEF HooksStand, TurnHasBegun
<1>9. ASSUME NEW g \in Closers, HookStep(g) PROVE TurnHasBegun' /\ HooksStand'
  <2>1. CASE Judge(g)
    <3> DEFINE verdict == Resolve(Reconciled(hook[g].view, Head(hook[g].todo)), marker)
    <3>0. verdict \in Labels
      BY <1>0, OutcomeTyped DEF SpoolTyped
    <3>1. /\ hook' = [hook EXCEPT ![g].phase = IF marker THEN "clearing" ELSE "writing",
                                  ![g].label = verdict]
          /\ hook[g].phase = "closing" /\ hook[g].todo # <<>> /\ turn' = turn /\ editor' = editor
      BY <2>1 DEF Judge
    <3> HIDE DEF verdict
    <3>2. /\ hook'[g].phase \in {"clearing", "writing"} /\ hook'[g].label = verdict
          /\ hook'[g].todo = hook[g].todo
          /\ \A h \in Closers : h # g => hook'[h] = hook[h]
      BY <1>0, <3>1 DEF HookRows
    <3> QED BY <1>0, <1>a, <3>0, <3>1, <3>2 DEF HooksStand, TurnHasBegun
  <2>2. CASE ClearMarker(g)
    <3>1. /\ hook' = [hook EXCEPT ![g].phase = "writing"] /\ hook[g].phase = "clearing"
          /\ turn' = turn /\ editor' = editor
      BY <2>2 DEF ClearMarker
    <3>2. /\ hook'[g].phase = "writing" /\ hook'[g].label = hook[g].label
          /\ hook'[g].todo = hook[g].todo
          /\ \A h \in Closers : h # g => hook'[h] = hook[h]
      BY <1>0, <3>1 DEF HookRows
    <3> QED BY <1>0, <1>a, <3>1, <3>2 DEF HooksStand, TurnHasBegun
  <2>3. CASE WriteClose(g)
    <3>1. /\ hook' = [hook EXCEPT ![g].phase = "closing", ![g].todo = Tail(@), ![g].label = <<>>]
          /\ hook[g].phase = "writing" /\ turn' = turn /\ editor' = editor
      BY <2>3 DEF WriteClose
    <3>2. /\ hook'[g].phase = "closing"
          /\ \A h \in Closers : h # g => hook'[h] = hook[h]
      BY <1>0, <3>1 DEF HookRows
    <3> QED BY <1>0, <1>a, <3>1, <3>2 DEF HooksStand, TurnHasBegun
  <2>4. CASE KillHook(g)
    <3>1. /\ hook' = [hook EXCEPT ![g] = NoHook] /\ turn' = turn /\ hook[g].phase # "idle"
          /\ \/ editor' = AfterStop \/ editor' = editor
             \/ g = "prompt" /\ editor' = "active"
      BY <2>4 DEF KillHook, HookIdle
    <3>2. NoHook.phase = "idle"
      BY DEF NoHook
    <3>3. \A h \in Closers : hook'[h] = IF h = g THEN NoHook ELSE hook[h]
      BY <1>0, <3>1
    <3> QED BY <1>0, <1>a, <3>1, <3>2, <3>3 DEF HooksStand, TurnHasBegun, AfterStop
  <2>5. ASSUME NEW f \in Flushers, EndClose(g, f) PROVE TurnHasBegun' /\ HooksStand'
    <3>1. /\ hook' = [hook EXCEPT ![g] = NoHook] /\ turn' = turn
          /\ (editor' = AfterStop \/ editor' = editor)
      BY <2>5 DEF EndClose
    <3>2. NoHook.phase = "idle"
      BY DEF NoHook
    <3>3. \A h \in Closers : hook'[h] = IF h = g THEN NoHook ELSE hook[h]
      BY <1>0, <3>1
    <3> QED BY <1>0, <1>a, <3>1, <3>2, <3>3 DEF HooksStand, TurnHasBegun, AfterStop
  <2> QED BY <1>9, <2>1, <2>2, <2>3, <2>4, <2>5 DEF HookStep
<1>10. ASSUME NEW f \in Flushers, FlushStep(f) PROVE TurnHasBegun' /\ HooksStand'
  <2>1. hook' = hook /\ turn' = turn /\ editor' = editor
    BY <1>10 DEF FlushStep, Flushing, IsAnswered, Spawn, Lock, List, SkipFile, MarkSent, EndFlush, RemoveFile, DropFile,
                 KillFlush, Answered, Unanswered
  <2> QED BY <1>0, <2>1 DEF HooksStand, TurnHasBegun
<1> QED BY <1>1, <1>2, <1>3, <1>4, <1>5, <1>6, <1>7, <1>8, <1>9, <1>10 DEF Next, EditorStep

LEMMA StandStill ==
  ASSUME UNCHANGED vars
  PROVE  /\ turn' = turn /\ editor' = editor /\ tool' = tool /\ index' = index /\ hook' = hook
         /\ journal' = journal /\ marker' = marker /\ sent' = sent /\ aged' = aged
         /\ flusher' = flusher /\ lock' = lock /\ stored' = stored /\ refused' = refused
         /\ history' = history
BY DEF vars

LEMMA ShapeStays ==
  ASSUME SpoolShape, FlushersStand, [Next]_vars PROVE SpoolShape'
<1>1. CASE Next
  <2>1. SpoolTyped'
    BY <1>1, EditorTypes, ToolTypes, HookTypes, FlushTypes, Zenon DEF Next
  <2> QED BY <1>1, <2>1, FitStays, HooksStay DEF SpoolShape
<1>2. CASE UNCHANGED vars
  BY <1>2, StandStill DEF SpoolShape, SpoolTyped, RecordsFit, TurnHasBegun, HooksStand
<1> QED BY <1>1, <1>2


-------------------------------------------------------------------------------
(***************************************************************************)
(* Delivery: whatever is killed, nothing is dropped from the sidecar's     *)
(* account, and retention removes only what was answered.                  *)
(***************************************************************************)
\* What the editor and its hooks leave to the flushers.
Undisturbed ==
  /\ stored' = stored /\ refused' = refused /\ sent' = sent /\ lock' = lock
  /\ journal' = journal \/ FileGrows
  /\ \A f \in Flushers :
       flusher'[f] = flusher[f] \/ (flusher'[f].phase = "spawned" /\ flusher[f].phase = "idle")

LEMMA OthersUndisturbed ==
  ASSUME SpoolShape, EditorStep \/ (\E t \in Tools : ToolStep(t)) \/ (\E h \in Closers : HookStep(h))
  PROVE  Undisturbed
<1>0. flusher \in [Flushers -> FlusherRows]
  BY DEF SpoolShape, SpoolTyped
<1>a. journal' = journal \/ FileGrows
  BY EditorFiles, ToolFiles, HookFiles
<1>1. CASE EditorStep
  <2>1. /\ flusher' = flusher /\ stored' = stored /\ refused' = refused /\ sent' = sent
        /\ lock' = lock
    BY <1>1 DEF EditorStep, BeginPrompt, BeginStop, Say, Look, BeginEnd, EndPrompt, InterruptTurn,
                Continue, Done, Day, filed
  <2> QED BY <1>a, <2>1 DEF Undisturbed
<1>2. CASE \E t \in Tools : ToolStep(t)
  <2>1. /\ flusher' = flusher /\ stored' = stored /\ refused' = refused /\ sent' = sent
        /\ lock' = lock
    BY <1>2 DEF ToolStep, StartTool, OpenStep, OverfillStep, LoseStep, FailTool, CloseStep, filed
  <2> QED BY <1>a, <2>1 DEF Undisturbed
<1>3. ASSUME NEW h \in Closers, HookStep(h) PROVE Undisturbed
  <2>1. CASE Judge(h) \/ ClearMarker(h) \/ WriteClose(h) \/ KillHook(h)
    <3>1. /\ flusher' = flusher /\ stored' = stored /\ refused' = refused /\ sent' = sent
          /\ lock' = lock
      BY <2>1 DEF Judge, ClearMarker, WriteClose, KillHook, filed
    <3> QED BY <1>a, <3>1 DEF Undisturbed
  <2>2. ASSUME NEW f \in Flushers, EndClose(h, f) PROVE Undisturbed
    <3>1. /\ stored' = stored /\ refused' = refused /\ sent' = sent /\ lock' = lock
          /\ flusher[f].phase = "idle" /\ flusher' = [flusher EXCEPT ![f].phase = "spawned"]
      BY <2>2 DEF EndClose
    <3>2. \A g \in Flushers : flusher'[g] = flusher[g]
                              \/ (flusher'[g].phase = "spawned" /\ flusher[g].phase = "idle")
      BY <1>0, <3>1 DEF FlusherRows
    <3> QED BY <1>a, <3>1, <3>2 DEF Undisturbed
  <2> QED BY <1>3, <2>1, <2>2 DEF HookStep
<1> QED BY <1>1, <1>2, <1>3

\* Turns of a queue.
LEMMA QueuedTurns ==
  ASSUME SpoolTyped, NEW f \in Flushers
  PROVE  /\ Queued(f) \in SUBSET Turns
         /\ flusher[f].queue = <<>> => Queued(f) = {}
         /\ flusher[f].queue # <<>> =>
              Queued(f) = {Head(flusher[f].queue).turn}
                          \cup {Tail(flusher[f].queue)[k].turn : k \in DOMAIN Tail(flusher[f].queue)}
<1> DEFINE q == flusher[f].queue
<1>1. q \in Seq(SpooledRuns)
  BY RowsOfFlushers
<1>2. Queued(f) = {q[k].turn : k \in DOMAIN q}
  BY DEF Queued
<1>3. \A k \in DOMAIN q : q[k] \in SpooledRuns
  <2> HIDE DEF q
  <2> QED BY <1>1
<1>4. Queued(f) \in SUBSET Turns
  BY <1>2, <1>3 DEF SpooledRuns
<1>5. ASSUME q = <<>> PROVE Queued(f) = {}
  <2> HIDE DEF q
  <2> QED BY <1>2, <1>5
<1>6. ASSUME q # <<>>
      PROVE  {q[k].turn : k \in DOMAIN q}
             = {Head(q).turn} \cup {Tail(q)[k].turn : k \in DOMAIN Tail(q)}
  <2> HIDE DEF q
  <2>1. /\ Len(q) \in Nat /\ Len(q) >= 1 /\ DOMAIN q = 1..Len(q) /\ Head(q) = q[1]
        /\ DOMAIN Tail(q) = 1..(Len(q) - 1)
        /\ \A k \in 1..(Len(q) - 1) : Tail(q)[k] = q[k + 1]
    BY <1>1, <1>6
  <2>2. ASSUME NEW k \in DOMAIN q
        PROVE  q[k].turn \in {Head(q).turn} \cup {Tail(q)[l].turn : l \in DOMAIN Tail(q)}
    <3>1. CASE k = 1
      BY <3>1, <2>1
    <3>2. CASE k # 1
      <4>1. k - 1 \in DOMAIN Tail(q) /\ Tail(q)[k - 1] = q[k]
        BY <2>1, <3>2
      <4> QED BY <4>1
    <3> QED BY <3>1, <3>2
  <2>3. ASSUME NEW l \in DOMAIN Tail(q) PROVE Tail(q)[l].turn \in {q[k].turn : k \in DOMAIN q}
    <3>1. l + 1 \in DOMAIN q /\ Tail(q)[l] = q[l + 1]
      BY <2>1
    <3> QED BY <3>1
  <2>4. Head(q).turn \in {q[k].turn : k \in DOMAIN q}
    <3>1. 1 \in DOMAIN q /\ Head(q) = q[1]
      BY <2>1
    <3> QED BY <3>1
  <2> QED BY <2>2, <2>3, <2>4
<1> QED BY <1>2, <1>4, <1>5, <1>6

LEMMA SettledGrows ==
  ASSUME SpoolTyped, NEW f \in Flushers, Pushing(f),
         (\E accepted \in BOOLEAN : Answered(f, accepted)) \/ (\E arrived \in BOOLEAN : Unanswered(f, arrived))
  PROVE  Settled \subseteq Settled'
<1> DEFINE parcel == Head(flusher[f].queue)
<1>1. parcel \in SpooledRuns /\ parcel.turn \in Turns
  BY RowsOfFlushers DEF Pushing, SpooledRuns
<1>2. parcel # NotStored
  BY <1>1, RunsAreReal
<1>3. /\ stored' = stored \/ stored' = [stored EXCEPT ![parcel.turn] = parcel]
      /\ refused \subseteq refused'
  BY DEF Answered, Unanswered
<1>4. stored \in [Turns -> SpooledRuns \cup {NotStored}]
  BY DEF SpoolTyped
<1> HIDE DEF parcel
<1>5. Received \subseteq Received'
  BY <1>1, <1>2, <1>3, <1>4 DEF Received
<1> QED BY <1>3, <1>5 DEF Settled

LEMMA FlushersStart == Init => FlushersStand
<1> SUFFICES ASSUME Init PROVE FlushersStand
  OBVIOUS
<1>1. \A f \in Flushers : flusher[f].phase = "idle"
  BY DEF Init, Idle
<1>2. sent = {}
  BY DEF Init
<1> QED BY <1>1, <1>2 DEF FlushersStand, HasRead, SentWasAnswered

\* A record makes at most its own turn shippable.
LEMMA ShippableBefore ==
  ASSUME NEW j \in Seq(JournalRecords), NEW r \in JournalRecords, NEW p,
         OfItsTurn(r), \A k \in DOMAIN j : OfItsTurn(j[k]),
         p \in Shippable(Append(j, r)), p # r.turn
  PROVE  p \in Shippable(j)
<1>1. Steps(Append(j, r), p) = Steps(j, p)
  BY StepsKept
<1>2. IsClosed(Append(j, r), p) <=> IsClosed(j, p)
  BY CloseAppended
<1> QED BY <1>1, <1>2 DEF Shippable

\* A flusher that has read the file still accounts for it when the file has grown.
LEMMA AccountStays ==
  ASSUME SpoolShape, NEW f \in Flushers, Accounted(f), journal' = journal \/ FileGrows,
         Settled \subseteq Settled', Queued(f)' = Queued(f), flusher'[f].read = flusher[f].read
  PROVE  Accounted(f)'
<1>0. /\ journal \in Seq(JournalRecords) /\ \A k \in DOMAIN journal : OfItsTurn(journal[k])
      /\ flusher[f].read \in Nat
  BY DEF SpoolShape, SpoolTyped, RecordsFit, FlusherRows
<1>1. CASE journal' = journal
  <2>1. Unread(f)' = Unread(f) /\ Shippable(journal') = Shippable(journal)
    BY <1>1 DEF Unread
  <2> QED BY <1>1, <2>1 DEF Accounted
<1>2. CASE FileGrows
  <2>1. PICK r \in JournalRecords : OfItsTurn(r) /\ journal' = Append(journal, r)
    BY <1>2 DEF FileGrows, Append1
  <2> DEFINE j2 == Append(journal, r)
             n == Len(journal)
  <2>2. /\ n \in Nat /\ Len(j2) = n + 1 /\ j2[n + 1] = r
        /\ \A k \in 1..n : j2[k] = journal[k]
    BY <1>0
  <2>3. flusher[f].read <= n
    BY DEF Accounted
  <2>4. Unread(f)' = {j2[k].turn : k \in flusher[f].read + 1..n + 1}
    <3> HIDE DEF j2
    <3>1. journal' = j2 /\ Len(j2) = n + 1
      BY <2>1, <2>2 DEF j2
    <3> QED BY <3>1 DEF Unread
  <2>5. Unread(f) = {journal[k].turn : k \in flusher[f].read + 1..n}
    BY DEF Unread
  <2> HIDE DEF n
  <2>6. r.turn \in Unread(f)' /\ Unread(f) \subseteq Unread(f)'
    <3> HIDE DEF j2
    <3> DEFINE m == flusher[f].read
    <3>1. m \in Nat
      BY <1>0
    <3> HIDE DEF m
    <3>2. n + 1 \in m + 1..n + 1 /\ \A k \in m + 1..n : k \in m + 1..n + 1 /\ k \in 1..n
      BY <2>2, <2>3, <3>1 DEF m
    <3> QED BY <2>2, <2>4, <2>5, <3>2 DEF m
  <2>7. ASSUME NEW p \in Shippable(journal') PROVE p \in Settled' \cup Queued(f)' \cup Unread(f)'
    <3>1. CASE p = r.turn
      BY <3>1, <2>6
    <3>2. CASE p # r.turn
      <4>1. p \in Shippable(journal)
        BY <1>0, <2>1, <2>7, <3>2, ShippableBefore
      <4> QED BY <4>1, <2>6 DEF Accounted
    <3> QED BY <3>1, <3>2
  <2>8. Len(journal') = n + 1
    BY <2>1, <2>2
  <2>9. flusher'[f].read <= Len(journal')
    BY <1>0, <2>2, <2>3, <2>8
  <2> QED BY <2>7, <2>9 DEF Accounted
<1> QED BY <1>1, <1>2

LEMMA FlushersUndisturbed ==
  ASSUME SpoolShape, FlushersStand, Undisturbed PROVE FlushersStand'
<1>0. /\ stored' = stored /\ refused' = refused /\ sent' = sent /\ lock' = lock
      /\ \A f \in Flushers : flusher'[f] = flusher[f] \/ flusher'[f].phase = "spawned"
  BY DEF Undisturbed
<1>1. Settled' = Settled /\ Received' = Received
  BY <1>0 DEF Settled, Received
<1>2. SentWasAnswered'
  BY <1>0, <1>1 DEF FlushersStand, SentWasAnswered
<1>3. ASSUME NEW f \in Flushers, flusher'[f] = flusher[f], HasRead(f), flusher[f].complete
      PROVE  Accounted(f)'
  <2>1. Queued(f)' = Queued(f) /\ flusher'[f].read = flusher[f].read
    BY <1>3 DEF Queued
  <2>2. Accounted(f)
    BY <1>3 DEF FlushersStand
  <2>3. Settled \subseteq Settled' /\ (journal' = journal \/ FileGrows)
    BY <1>1 DEF Undisturbed
  <2> QED BY <2>1, <2>2, <2>3, AccountStays
<1>4. ASSUME NEW f \in Flushers
      PROVE  /\ flusher'[f].phase = "listing" \/ HasRead(f)' => lock' = f
             /\ flusher'[f].phase = "marking" =>
                  flusher'[f].queue # <<>> /\ Head(flusher'[f].queue).turn \in Settled'
             /\ HasRead(f)' /\ flusher'[f].complete => Accounted(f)'
             /\ flusher'[f].phase = "removing" => flusher'[f].complete /\ flusher'[f].queue = <<>>
  <2>1. CASE flusher'[f] = flusher[f]
    <3>1. HasRead(f)' <=> HasRead(f)
      BY <2>1 DEF HasRead
    <3>2. HasRead(f) /\ flusher[f].complete => Accounted(f)'
      BY <1>3, <2>1
    <3> QED BY <1>0, <1>1, <2>1, <3>1, <3>2 DEF FlushersStand
  <2>2. CASE flusher'[f].phase = "spawned"
    BY <2>2 DEF HasRead
  <2> QED BY <1>0, <2>1, <2>2
<1> QED BY <1>2, <1>4 DEF FlushersStand

\* A flusher's step leaves the others as they are, and the file unless it holds the lock.
LEMMA OthersWait ==
  ASSUME SpoolTyped, NEW f \in Flushers, FlushStep(f)
  PROVE  \A g \in Flushers \ {f} : flusher'[g] = flusher[g]
<1>0. flusher \in [Flushers -> FlusherRows]
  BY DEF SpoolTyped
<1>1. CASE Spawn(f) \/ Flushing(f) \/ DropFile(f) \/ KillFlush(f)
  BY <1>0, <1>1 DEF Spawn, Flushing, Lock, List, SkipFile, MarkSent, EndFlush, RemoveFile, Released,
                    DropFile, KillFlush
<1>2. CASE IsAnswered(f) \/ \E arrived \in BOOLEAN : Unanswered(f, arrived)
  BY <1>0, <1>2 DEF IsAnswered, Answered, Unanswered
<1> QED BY <1>1, <1>2 DEF FlushStep

LEMMA OneFlusherSteps ==
  ASSUME SpoolTyped, FlushersStand, NEW f \in Flushers, FlushStep(f)
  PROVE  /\ \A g \in Flushers \ {f} : flusher'[g] = flusher[g]
         /\ \/ journal' = journal
            \/ flusher[f].phase \in {"listing", "removing"}
         /\ \/ lock' = lock
            \/ lock = NoFlusher /\ lock' = f
            \/ lock = f /\ lock' = NoFlusher
<1>0. flusher \in [Flushers -> FlusherRows]
  BY DEF SpoolTyped
<1>1. CASE Spawn(f) \/ Lock(f) \/ List(f) \/ MarkSent(f)
  BY <1>0, <1>1 DEF Spawn, Lock, List, MarkSent
<1>2. CASE SkipFile(f) \/ EndFlush(f) \/ RemoveFile(f)
  <2>1. flusher[f].phase \in {"listing", "pushing", "removing"}
    BY <1>2 DEF SkipFile, EndFlush, RemoveFile
  <2>2. lock = f
    BY <2>1 DEF FlushersStand, HasRead
  <2> QED BY <1>0, <1>2, <2>2 DEF SkipFile, EndFlush, RemoveFile, Released
<1>3. CASE KillFlush(f) \/ DropFile(f)
  BY <1>0, <1>3 DEF KillFlush, FreedLock, DropFile
<1>4. CASE IsAnswered(f) \/ \E arrived \in BOOLEAN : Unanswered(f, arrived)
  BY <1>0, <1>4 DEF IsAnswered, Answered, Unanswered
<1> QED BY <1>1, <1>2, <1>3, <1>4 DEF FlushStep, Flushing

\* What is left to show of a step of one flusher: what it makes of itself.
Stands(f) ==
  /\ flusher[f].phase = "listing" \/ HasRead(f) => lock = f
  /\ flusher[f].phase = "marking" =>
       flusher[f].queue # <<>> /\ Head(flusher[f].queue).turn \in Settled
  /\ HasRead(f) /\ flusher[f].complete => Accounted(f)
  /\ flusher[f].phase = "removing" => flusher[f].complete /\ flusher[f].queue = <<>>

LEMMA FlusherSteps ==
  ASSUME SpoolShape, FlushersStand, NEW f \in Flushers, FlushStep(f),
         Settled \subseteq Settled', SentWasAnswered', Stands(f)'
  PROVE  FlushersStand'
<1>0. SpoolTyped
  BY DEF SpoolShape
<1>1. ASSUME NEW g \in Flushers PROVE Stands(g)'
  <2>1. CASE g = f
    BY <2>1
  <2>2. CASE g # f
    <3>1. /\ flusher'[g] = flusher[g] /\ Queued(g)' = Queued(g)
          /\ flusher'[g].read = flusher[g].read /\ (HasRead(g)' <=> HasRead(g))
      BY <1>0, <2>2, OneFlusherSteps DEF Queued, HasRead
    <3>2. CASE flusher[g].phase = "listing" \/ HasRead(g)
      <4>1. lock = g /\ NoFlusher \notin Flushers
        BY <3>2, SpoolConstants DEF FlushersStand
      <4>2. flusher[f].phase \notin {"listing", "removing"}
        BY <2>2, <4>1 DEF FlushersStand, HasRead
      <4>3. lock' = g /\ journal' = journal
        BY <1>0, <2>2, <4>1, <4>2, OneFlusherSteps
      <4>4. HasRead(g) /\ flusher[g].complete => Accounted(g)'
        BY <3>1, <4>3, AccountStays DEF FlushersStand
      <4> QED BY <3>1, <4>3, <4>4 DEF Stands, FlushersStand
    <3>3. CASE flusher[g].phase # "listing" /\ ~HasRead(g)
      BY <3>1, <3>3 DEF Stands, HasRead
    <3> QED BY <3>2, <3>3
  <2> QED BY <2>1, <2>2
<1> QED BY <1>1 DEF FlushersStand, Stands

LEMMA FlushersStay ==
  ASSUME SpoolShape, FlushersStand, [Next]_vars PROVE FlushersStand'
<1>0. SpoolTyped /\ flusher \in [Flushers -> FlusherRows]
  BY DEF SpoolShape, SpoolTyped
<1>1. CASE EditorStep \/ (\E t \in Tools : ToolStep(t)) \/ (\E h \in Closers : HookStep(h))
  BY <1>1, OthersUndisturbed, FlushersUndisturbed
<1>2. ASSUME NEW f \in Flushers, FlushStep(f) PROVE FlushersStand'
  <2> DEFINE row == flusher[f]
  <2>0. row \in FlusherRows
    BY <1>0
  <2>1. ASSUME Settled \subseteq Settled', SentWasAnswered', Stands(f)' PROVE FlushersStand'
    BY <1>2, <2>1, FlusherSteps
  <2>2. ASSUME stored' = stored, refused' = refused
        PROVE  Settled' = Settled /\ (sent' = sent \/ sent' = {} => SentWasAnswered')
    <3>1. Settled' = Settled /\ Received' = Received
      BY <2>2 DEF Settled, Received
    <3>2. sent \subseteq Settled
      BY DEF FlushersStand, SentWasAnswered, Settled
    <3> QED BY <2>2, <3>1, <3>2 DEF SentWasAnswered, Settled
  <2>3. CASE Spawn(f) \/ Lock(f) \/ KillFlush(f) \/ DropFile(f) \/ SkipFile(f) \/ RemoveFile(f)
    <3>1. /\ stored' = stored /\ refused' = refused /\ (sent' = sent \/ sent' = {})
          /\ \/ flusher'[f].phase \in {"spawned", "idle"}
             \/ flusher'[f].phase = "listing" /\ lock' = f
      <4>1. CASE Spawn(f) \/ Lock(f) \/ KillFlush(f)
        BY <1>0, <4>1 DEF Spawn, Lock, KillFlush, Idle, FlusherRows
      <4>2. CASE DropFile(f)
        <5>1. lock = f
          BY <4>2 DEF DropFile, FlushersStand
        <5> QED BY <1>0, <4>2, <5>1 DEF DropFile, Remove
      <4>3. CASE SkipFile(f) \/ RemoveFile(f)
        BY <1>0, <4>3 DEF SkipFile, RemoveFile, Remove, Released, Idle
      <4> QED BY <2>3, <4>1, <4>2, <4>3
    <3>2. Stands(f)'
      BY <3>1 DEF Stands, HasRead
    <3> QED BY <2>1, <2>2, <3>1, <3>2
  <2>4. CASE List(f)
    <3>1. /\ stored' = stored /\ refused' = refused /\ sent' = sent /\ journal' = journal
          /\ lock' = lock /\ row.phase = "listing"
          /\ flusher'[f].phase = "pushing" /\ flusher'[f].read = Len(journal)
          /\ flusher'[f].queue = QueueOf(journal, Shippable(journal) \ sent)
      BY <1>0, <2>4 DEF List, QueueOf
    <3>2. sent \subseteq Settled
      BY DEF FlushersStand, SentWasAnswered, Settled
    <3>3. ASSUME NEW p \in Shippable(journal) \ sent PROVE p \in Queued(f)'
      <4>1. /\ Shippable(journal) \ sent \in SUBSET Turns /\ journal \in Seq(JournalRecords)
            /\ \A q \in Shippable(journal) \ sent : IsClosed(journal, q)
        BY <1>0 DEF Shippable, SpoolTyped
      <4> DEFINE queue == QueueOf(journal, Shippable(journal) \ sent)
      <4>2. \E k \in DOMAIN queue : queue[k] = Run(journal, p)
        BY <3>3, <4>1, QueueTaken
      <4>3. PICK k \in DOMAIN queue : queue[k] = Run(journal, p)
        BY <4>2
      <4>4. queue[k].turn = p
        <5>1. p \in Turns /\ IsClosed(journal, p)
          BY <4>1, <3>3
        <5>2. Run(journal, p).turn = p
          BY <5>1, <4>1, RunTyped
        <5> QED BY <4>3, <5>2
      <4> HIDE DEF queue
      <4>5. flusher'[f].queue = queue
        BY <3>1 DEF queue
      <4> QED BY <4>3, <4>4, <4>5 DEF Queued
    <3>4. Shippable(journal') \subseteq Settled' \cup Queued(f)'
      BY <3>1, <3>2, <3>3, <2>2
    <3>5. Accounted(f)'
      <4>1. Len(journal) \in Nat
        BY <1>0 DEF SpoolTyped
      <4> QED BY <3>1, <3>4, <4>1 DEF Accounted
    <3>6. lock' = f
      BY <3>1 DEF FlushersStand
    <3> QED BY <2>1, <2>2, <3>1, <3>5, <3>6 DEF Stands
  <2>5. CASE MarkSent(f)
    <3>1. /\ row.phase = "marking" /\ stored' = stored /\ refused' = refused /\ lock' = lock
          /\ sent' = sent \cup {Head(row.queue).turn} /\ journal' = journal
          /\ flusher'[f].phase = "pushing" /\ flusher'[f].queue = Tail(row.queue)
          /\ flusher'[f].complete = row.complete /\ flusher'[f].read = row.read
      BY <1>0, <2>5 DEF MarkSent, FlusherRows
    <3>2. row.queue # <<>> /\ Head(row.queue).turn \in Settled /\ lock = f
      BY <3>1 DEF FlushersStand, HasRead
    <3>3. Settled' = Settled
      BY <2>2, <3>1
    <3>4. SentWasAnswered'
      BY <3>1, <3>2, <3>3 DEF SentWasAnswered, FlushersStand, Settled
    <3>5. Queued(f) = {Head(row.queue).turn}
                      \cup {Tail(row.queue)[k].turn : k \in DOMAIN Tail(row.queue)}
      BY <1>0, <3>2, QueuedTurns
    <3>6. Queued(f)' = {Tail(row.queue)[k].turn : k \in DOMAIN Tail(row.queue)}
      <4> HIDE DEF row
      <4> QED BY <3>1 DEF Queued
    <3>7. flusher'[f].complete => Accounted(f)'
      <4>1. flusher'[f].complete => Accounted(f)
        BY <3>1 DEF FlushersStand, HasRead
      <4>2. Unread(f)' = Unread(f)
        BY <3>1 DEF Unread
      <4> HIDE DEF row
      <4>3. Settled \cup Queued(f) \subseteq Settled' \cup Queued(f)'
        BY <3>2, <3>3, <3>5, <3>6
      <4> QED BY <3>1, <4>1, <4>2, <4>3 DEF Accounted, row
    <3> QED BY <2>1, <3>1, <3>2, <3>3, <3>4, <3>7 DEF Stands
  <2>6. CASE EndFlush(f)
    <3>1. /\ stored' = stored /\ refused' = refused /\ sent' = sent /\ journal' = journal
          /\ row.phase = "pushing" /\ row.queue = <<>>
          /\ \/ flusher'[f].phase = "idle"
             \/ /\ row.complete /\ flusher'[f].phase = "removing" /\ lock' = lock
                /\ flusher'[f].complete = row.complete /\ flusher'[f].read = row.read
                /\ flusher'[f].queue = row.queue
      BY <1>0, <2>6 DEF EndFlush, MayRemove, Released, Idle, FlusherRows
    <3>2. Settled' = Settled
      BY <2>2, <3>1
    <3>3. CASE flusher'[f].phase = "idle"
      <4>1. Stands(f)'
        BY <3>3 DEF Stands, HasRead
      <4> QED BY <2>1, <2>2, <3>1, <4>1
    <3>4. CASE flusher'[f].phase # "idle"
      <4>1. Accounted(f) /\ lock = f
        BY <3>1, <3>4 DEF FlushersStand, HasRead
      <4>2. Queued(f)' = Queued(f)
        BY <3>1, <3>4 DEF Queued
      <4>3. Accounted(f)'
        BY <3>1, <3>2, <3>4, <4>1, <4>2, AccountStays
      <4> QED BY <2>1, <2>2, <3>1, <3>2, <3>4, <4>1, <4>3 DEF Stands
    <3> QED BY <3>3, <3>4
  <2>7. ASSUME NEW accepted \in BOOLEAN, Answered(f, accepted) PROVE FlushersStand'
    <3> DEFINE parcel == Head(row.queue)
    <3>1. /\ Pushing(f) /\ row.phase = "pushing" /\ row.queue # <<>> /\ lock' = lock
          /\ sent' = sent /\ journal' = journal
          /\ flusher'[f].phase = "marking" /\ flusher'[f].queue = row.queue
          /\ flusher'[f].complete = row.complete /\ flusher'[f].read = row.read
      BY <1>0, <2>7 DEF Answered, Pushing, FlusherRows
    <3>2. Settled \subseteq Settled'
      BY <1>0, <2>7, <3>1, SettledGrows
    <3>3. parcel \in SpooledRuns /\ parcel.turn \in Turns
      BY <1>0, <3>1, RowsOfFlushers DEF SpooledRuns
    <3>4. parcel.turn \in Settled'
      <4>1. CASE accepted
        <5>1. stored' = [stored EXCEPT ![parcel.turn] = parcel]
          BY <2>7, <4>1 DEF Answered
        <5>2. stored'[parcel.turn] = parcel /\ parcel # NotStored
          <6>1. stored \in [Turns -> SpooledRuns \cup {NotStored}]
            BY <1>0 DEF SpoolTyped
          <6>2. parcel # NotStored
            BY <3>3, RunsAreReal
          <6> HIDE DEF parcel
          <6> QED BY <3>3, <5>1, <6>1, <6>2
        <5> HIDE DEF parcel
        <5> QED BY <3>3, <5>2 DEF Settled, Received
      <4>2. CASE ~accepted
        <5>1. refused' = refused \cup {parcel.turn}
          BY <2>7, <4>2 DEF Answered
        <5> QED BY <5>1 DEF Settled
      <4> QED BY <4>1, <4>2
    <3>5. SentWasAnswered'
      BY <3>1, <3>2 DEF SentWasAnswered, FlushersStand, Settled
    <3>6. Queued(f)' = Queued(f)
      BY <3>1 DEF Queued
    <3>7. lock = f /\ (row.complete => Accounted(f))
      BY <3>1 DEF FlushersStand, HasRead
    <3>8. row.complete => Accounted(f)'
      BY <3>1, <3>2, <3>6, <3>7, AccountStays
    <3> QED BY <2>1, <3>1, <3>2, <3>4, <3>5, <3>7, <3>8 DEF Stands
  <2>8. ASSUME NEW arrived \in BOOLEAN, Unanswered(f, arrived) PROVE FlushersStand'
    <3>1. /\ Pushing(f) /\ row.phase = "pushing" /\ sent' = sent /\ journal' = journal
          /\ flusher'[f].phase = "pushing" /\ flusher'[f].read = row.read /\ lock' = lock
          /\ flusher'[f].complete => row.complete /\ flusher'[f].queue = row.queue
      <4>1. CASE LastTry(row.tries)
        BY <1>0, <2>8, <4>1 DEF Unanswered, Pushing, LeftForLater, FlusherRows
      <4>2. CASE ~LastTry(row.tries)
        BY <1>0, <2>8, <4>2 DEF Unanswered, Pushing, FlusherRows
      <4> QED BY <4>1, <4>2
    <3>2. Settled \subseteq Settled'
      BY <1>0, <2>8, <3>1, SettledGrows
    <3>3. SentWasAnswered'
      BY <3>1, <3>2 DEF SentWasAnswered, FlushersStand, Settled
    <3>4. flusher'[f].complete => Accounted(f)'
      <4> SUFFICES ASSUME flusher'[f].complete PROVE Accounted(f)'
        OBVIOUS
      <4>1. Queued(f)' = Queued(f) /\ Accounted(f)
        BY <3>1 DEF Queued, FlushersStand, HasRead
      <4> QED BY <3>1, <3>2, <4>1, AccountStays
    <3>5. lock = f
      BY <3>1 DEF FlushersStand, HasRead
    <3> QED BY <2>1, <3>1, <3>2, <3>3, <3>4, <3>5 DEF Stands
  <2> QED BY <1>2, <2>3, <2>4, <2>5, <2>6, <2>7, <2>8 DEF FlushStep, Flushing, IsAnswered
<1>3. CASE UNCHANGED vars
  BY <1>3, StandStill DEF FlushersStand, HasRead, Accounted, Unread, SentWasAnswered, Settled,
                          Received, Queued
<1> QED BY <1>1, <1>2, <1>3 DEF Next

LEMMA ShapeIsTyped == SpoolShape => TypeOK
<1> SUFFICES ASSUME SpoolShape PROVE TypeOK
  OBVIOUS
<1>0. SpoolTyped
  BY DEF SpoolShape
<1>1. ASSUME NEW h \in Closers
      PROVE  /\ hook[h].phase \in {"idle", "saying", "looking", "closing", "clearing", "writing"}
             /\ hook[h].label \in Labels \cup {<<>>}
             /\ \A k \in DOMAIN hook[h].todo : hook[h].todo[k] \in Turns
  <2>1. hook[h] \in HookRows
    BY <1>0, RowsOfHooks
  <2> QED BY <2>1 DEF HookRows
<1>2. \A k \in DOMAIN journal : journal[k].turn \in Turns
  <2>1. \A k \in DOMAIN journal : journal[k] \in JournalRecords
    BY <1>0 DEF SpoolTyped
  <2> QED BY <2>1, RecordsKnown
<1>3. ASSUME NEW f \in Flushers
      PROVE  /\ flusher[f].phase \in {"idle", "spawned", "listing", "pushing", "marking",
                                    "removing"}
             /\ flusher[f].tries \in 0..Attempts - 1
  <2>1. flusher[f] \in FlusherRows
    BY <1>0, RowsOfFlushers
  <2> QED BY <2>1 DEF FlusherRows
<1>4. ASSUME NEW p \in Turns PROVE stored[p].turn \in {0, p} /\ stored[p].label \in Labels \cup {<<>>}
  <2>1. stored[p] \in SpooledRuns \/ stored[p] = NotStored
    BY <1>0 DEF SpoolTyped
  <2>2. stored[p] = NotStored \/ stored[p].turn = p
    BY <1>0 DEF SpoolTyped
  <2>3. CASE stored[p] = NotStored
    BY <2>3 DEF NotStored
  <2>4. CASE stored[p] # NotStored
    BY <2>1, <2>2, <2>4 DEF SpooledRuns
  <2> QED BY <2>3, <2>4
<1> QED BY <1>0, <1>1, <1>2, <1>3, <1>4 DEF TypeOK, SpoolTyped

\* A step that removes the file is the cap's, or finds everything answered that it has read.
LEMMA RemovalIsEarned ==
  ASSUME SpoolShape, FlushersStand, [Next]_vars, journal # <<>>, journal' = <<>>
  PROVE  \E f \in Flushers :
           \/ flusher[f].phase = "listing"
           \/ /\ flusher[f].phase = "removing"
              /\ Shippable(journal) \subseteq Received \cup refused \cup Unread(f)
<1>0. SpoolTyped /\ journal \in Seq(JournalRecords)
  BY DEF SpoolShape, SpoolTyped
<1>1. Next
  BY StandStill
<1>2. ~FileGrows
  <2> SUFFICES ASSUME NEW r \in JournalRecords, journal' = Append(journal, r) PROVE FALSE
    BY DEF FileGrows, Append1
  <2> QED BY <1>0
<1>3. PICK f \in Flushers : FlushStep(f)
  BY <1>1, <1>2, EditorFiles, ToolFiles, HookFiles DEF Next
<1>4. flusher[f].phase \in {"listing", "removing"}
  BY <1>0, <1>3, OneFlusherSteps
<1>5. CASE flusher[f].phase = "removing"
  <2>1. Accounted(f) /\ flusher[f].queue = <<>>
    BY <1>5 DEF FlushersStand, HasRead
  <2>2. Queued(f) = {}
    BY <1>0, <2>1, QueuedTurns
  <2> QED BY <1>5, <2>1, <2>2 DEF Accounted, Settled
<1> QED BY <1>4, <1>5

-------------------------------------------------------------------------------
(***************************************************************************)
(* Confirmations: each is spent on one turn.                               *)
(***************************************************************************)
Markers == IF marker THEN 1 ELSE 0

LEMMA ConfirmingFinite ==
  /\ IsFiniteSet(Closers) /\ IsFiniteSet(Confirming) /\ Cardinality(Confirming) \in Nat
  /\ Confirming \in SUBSET Closers
<1>1. IsFiniteSet({}) /\ Closers = (({} \cup {"prompt"}) \cup {"stop"}) \cup {"end"}
  BY FS_EmptySet DEF Closers
<1>2. IsFiniteSet(Closers)
  BY <1>1, FS_AddElement
<1>3. Confirming \in SUBSET Closers
  BY DEF Confirming
<1>4. IsFiniteSet(Confirming) /\ Cardinality(Confirming) \in Nat
  BY <1>2, <1>3, FS_Subset, FS_CardinalityType
<1> QED BY <1>2, <1>3, <1>4

LEMMA ConfirmedFinite ==
  ASSUME SpoolTyped
  PROVE  /\ IsFiniteSet(history.confirmed) /\ Cardinality(history.confirmed) \in Nat
         /\ history.dones \in Nat
<1>1. history.confirmed \in SUBSET (1..LastTurn) /\ history.dones \in Nat
  BY DEF SpoolTyped, Histories, Turns
<1>2. IsFiniteSet(1..LastTurn)
  BY SpoolConstants, FS_Interval
<1> QED BY <1>1, <1>2, FS_Subset, FS_CardinalityType

\* What a step may do to the count.
Spent ==
  /\ history'.confirmed = history.confirmed /\ history'.dones = history.dones
  /\ history'.shared = history.shared

LEMMA CountKept ==
  ASSUME SpoolShape, ConfirmationsCounted, Spent, marker' = marker,
         Confirming' \subseteq Confirming, Clearing' \subseteq Clearing
  PROVE  ConfirmationsCounted'
<1>0. SpoolTyped
  BY DEF SpoolShape
<1>1. IsFiniteSet(Confirming) /\ Cardinality(Confirming) \in Nat
  BY ConfirmingFinite
<1>2. Cardinality(Confirming') <= Cardinality(Confirming) /\ Cardinality(Confirming') \in Nat
  <2> DEFINE T == Confirming'
  <2>0. T \in SUBSET Confirming
    OBVIOUS
  <2> HIDE DEF T
  <2>1. Cardinality(T) <= Cardinality(Confirming) /\ IsFiniteSet(T)
    BY <1>1, <2>0, FS_Subset
  <2>2. Cardinality(T) \in Nat
    BY <2>1, FS_CardinalityType
  <2> QED BY <2>1, <2>2 DEF T
<1>3. Cardinality(history.confirmed) \in Nat /\ history.dones \in Nat
  BY <1>0, ConfirmedFinite
<1>4. CASE history.shared
  BY <1>4 DEF ConfirmationsCounted, Spent
<1>5. CASE ~history.shared
  <2> DEFINE c == Cardinality(history.confirmed)
             w == Cardinality(Confirming)
             w2 == Cardinality(Confirming')
             d == history.dones
             m == Markers
  <2>1. c + w + m <= d
    BY <1>5 DEF ConfirmationsCounted, Markers
  <2>2. c \in Nat /\ w \in Nat /\ w2 \in Nat /\ d \in Nat /\ m \in Nat /\ w2 <= w
    BY <1>1, <1>2, <1>3 DEF Markers
  <2> HIDE DEF c, w, w2, d, m
  <2>3. c + w2 + m <= d
    BY <2>1, <2>2
  <2>4. Cardinality(history'.confirmed) + Cardinality(Confirming') + (IF marker' THEN 1 ELSE 0)
          <= history'.dones
    BY <2>3 DEF c, w2, d, m, Spent, Markers
  <2>5. \A h \in Clearing' : marker' /\ Clearing' = {h}
    BY <1>5 DEF ConfirmationsCounted
  <2> QED BY <2>4, <2>5 DEF ConfirmationsCounted
<1> QED BY <1>4, <1>5

LEMMA CountStarts == Init => ConfirmationsCounted
<1> SUFFICES ASSUME Init PROVE ConfirmationsCounted
  OBVIOUS
<1>1. Confirming = {} /\ Clearing = {}
  BY DEF Init, NoHook, Confirming, Clearing
<1>2. history.confirmed = {} /\ history.dones = 0 /\ marker = FALSE
  BY DEF Init, Nothing
<1> QED BY <1>1, <1>2, FS_EmptySet DEF ConfirmationsCounted

\* A hook that is set to a row that neither clears nor writes.
LEMMA HookSetAside ==
  ASSUME SpoolShape, NEW h \in Closers, NEW STATE row, hook' = [hook EXCEPT ![h] = row],
         row.phase \notin {"clearing", "writing"}
  PROVE  Confirming' \subseteq Confirming /\ Clearing' \subseteq Clearing
<1>1. hook \in [Closers -> HookRows]
  BY DEF SpoolShape, SpoolTyped
<1>2. \A g \in Closers : hook'[g] = IF g = h THEN row ELSE hook[g]
  BY <1>1
<1> QED BY <1>2 DEF Confirming, Clearing

LEMMA EditorCounts ==
  ASSUME SpoolShape, ConfirmationsCounted, EditorStep PROVE ConfirmationsCounted'
<1>0. /\ SpoolTyped /\ hook \in [Closers -> HookRows] /\ history \in Histories
      /\ "prompt" \in Closers /\ "stop" \in Closers /\ "end" \in Closers
  BY DEF SpoolShape, SpoolTyped, Closers
<1>1. CASE BeginPrompt
  <2>1. hook' = [hook EXCEPT !["prompt"] = Closing(InFile, Unclosed(InFile))]
        /\ marker' = marker /\ Spent
    BY <1>1 DEF BeginPrompt, Spent
  <2>2. Closing(InFile, Unclosed(InFile)).phase = "closing"
    BY DEF Closing
  <2>3. Confirming' \subseteq Confirming /\ Clearing' \subseteq Clearing
    BY <1>0, <2>1, <2>2, HookSetAside
  <2> QED BY <2>1, <2>3, CountKept
<1>2. ASSUME NEW speaks \in BOOLEAN, BeginStop(speaks) PROVE ConfirmationsCounted'
  <2> DEFINE row == IF speaks THEN [NoHook EXCEPT !.phase = "saying", !.view = InFile]
                    ELSE Closing(InFile, Current(InFile))
  <2>1. hook' = [hook EXCEPT !["stop"] = row] /\ marker' = marker /\ Spent
    BY <1>2 DEF BeginStop, Spent
  <2>2. row.phase \in {"saying", "closing"}
    BY DEF NoHook, Closing
  <2> HIDE DEF row
  <2>3. Confirming' \subseteq Confirming /\ Clearing' \subseteq Clearing
    BY <1>0, <2>1, <2>2, HookSetAside
  <2> QED BY <2>1, <2>3, CountKept
<1>3. CASE Say
  <2>1. hook' = [hook EXCEPT !["stop"] = [hook["stop"] EXCEPT !.phase = "looking"]]
    BY <1>0, <1>3 DEF Say
  <2>2. marker' = marker /\ Spent
    BY <1>0, <1>3 DEF Say, Spent, Histories
  <2>3. [hook["stop"] EXCEPT !.phase = "looking"].phase = "looking"
    BY <1>0 DEF HookRows
  <2>4. Confirming' \subseteq Confirming /\ Clearing' \subseteq Clearing
    BY <1>0, <2>1, <2>3, HookSetAside
  <2> QED BY <2>2, <2>4, CountKept
<1>4. CASE Look
  <2> DEFINE row == Closing(InFile, Current(InFile))
  <2>1. hook' = [hook EXCEPT !["stop"] = row] /\ marker' = marker /\ Spent
    BY <1>4 DEF Look, Spent
  <2>2. row.phase = "closing"
    BY DEF Closing
  <2>3. Confirming' \subseteq Confirming /\ Clearing' \subseteq Clearing
    <3> HIDE DEF row
    <3> QED BY <1>0, <2>1, <2>2, HookSetAside
  <2> QED BY <2>1, <2>3, CountKept
<1>5. CASE BeginEnd
  <2>1. hook' = [hook EXCEPT !["end"] = Closing(InFile, Unclosed(InFile))]
        /\ marker' = marker /\ Spent
    BY <1>5 DEF BeginEnd, Spent
  <2>2. Closing(InFile, Unclosed(InFile)).phase = "closing"
    BY DEF Closing
  <2>3. Confirming' \subseteq Confirming /\ Clearing' \subseteq Clearing
    BY <1>0, <2>1, <2>2, HookSetAside
  <2> QED BY <2>1, <2>3, CountKept
<1>6. CASE EndPrompt
  <2>1. hook' = [hook EXCEPT !["prompt"] = NoHook] /\ marker' = marker /\ Spent
    BY <1>0, <1>6 DEF EndPrompt, Counted, Spent, Histories
  <2>2. NoHook.phase = "idle"
    BY DEF NoHook
  <2>3. Confirming' \subseteq Confirming /\ Clearing' \subseteq Clearing
    BY <1>0, <2>1, <2>2, HookSetAside
  <2> QED BY <2>1, <2>3, CountKept
<1>7. CASE InterruptTurn \/ Continue \/ Day
  <2>1. hook' = hook /\ marker' = marker /\ Spent
    BY <1>7 DEF InterruptTurn, Continue, Day, Spent
  <2>2. Confirming' = Confirming /\ Clearing' = Clearing
    BY <2>1 DEF Confirming, Clearing
  <2> QED BY <2>1, <2>2, CountKept
<1>8. CASE Done
  <2>1. hook' = hook /\ marker = FALSE /\ marker' = TRUE
    BY <1>0, <1>8 DEF Done, SpoolTyped
  <2>2. history'.confirmed = history.confirmed /\ history'.shared = history.shared
        /\ history'.dones = history.dones + 1
    BY <1>0, <1>8 DEF Done, Histories
  <2>3. Confirming' = Confirming /\ Clearing' = Clearing
    BY <2>1 DEF Confirming, Clearing
  <2>4. CASE history.shared
    BY <2>2, <2>4 DEF ConfirmationsCounted
  <2>5. CASE ~history.shared
    <3> DEFINE c == Cardinality(history.confirmed)
               w == Cardinality(Confirming)
               d == history.dones
    <3>1. c \in Nat /\ w \in Nat /\ d \in Nat
      BY <1>0, ConfirmedFinite, ConfirmingFinite
    <3>2. c + w + 0 <= d /\ Clearing = {}
      BY <2>1, <2>5 DEF ConfirmationsCounted
    <3> HIDE DEF c, w, d
    <3>3. c + w + 1 <= d + 1
      BY <3>1, <3>2
    <3>4. Cardinality(history'.confirmed) + Cardinality(Confirming') + (IF marker' THEN 1 ELSE 0)
            <= history'.dones
      BY <2>1, <2>2, <2>3, <3>3 DEF c, w, d
    <3> QED BY <2>3, <3>2, <3>4 DEF ConfirmationsCounted
  <2> QED BY <2>4, <2>5
<1> QED BY <1>1, <1>2, <1>3, <1>4, <1>5, <1>6, <1>7, <1>8 DEF EditorStep

LEMMA HookCounts ==
  ASSUME SpoolShape, ConfirmationsCounted, NEW h \in Closers, HookStep(h)
  PROVE  ConfirmationsCounted'
<1>0. /\ SpoolTyped /\ hook \in [Closers -> HookRows] /\ history \in Histories
      /\ hook[h] \in HookRows
  BY DEF SpoolShape, SpoolTyped
<1> DEFINE c == Cardinality(history.confirmed)
           w == Cardinality(Confirming)
           d == history.dones
<1>a. c \in Nat /\ w \in Nat /\ d \in Nat /\ IsFiniteSet(Confirming) /\ IsFiniteSet(history.confirmed)
  BY <1>0, ConfirmedFinite, ConfirmingFinite
<1>b. Cardinality(Confirming \cup {h}) = IF h \in Confirming THEN w ELSE w + 1
  BY <1>a, FS_AddElement
<1>1. CASE Judge(h)
  <2> DEFINE verdict == Resolve(Reconciled(hook[h].view, Head(hook[h].todo)), marker)
             taken == marker /\ \E g \in Closers : hook[g].phase = "clearing"
  <2>0. marker \in BOOLEAN /\ verdict.confirmed = marker
    BY <1>0, OutcomeTyped DEF SpoolTyped
  <2>1. /\ hook' = [hook EXCEPT ![h].phase = IF marker THEN "clearing" ELSE "writing",
                                ![h].label = verdict]
        /\ marker' = marker
    BY <1>1 DEF Judge
  <2>2. /\ history'.confirmed = history.confirmed /\ history'.dones = history.dones
        /\ history'.shared = (history.shared \/ taken)
    BY <1>0, <1>1 DEF Judge, Histories
  <2> HIDE DEF verdict
  <2>3. /\ hook'[h].phase = (IF marker THEN "clearing" ELSE "writing")
        /\ hook'[h].label.confirmed = marker
        /\ \A g \in Closers : g # h => hook'[g] = hook[g]
    BY <1>0, <2>0, <2>1 DEF HookRows
  <2>4. Confirming' \subseteq Confirming
    BY <2>3 DEF Confirming
  <2>5. CASE history.shared \/ taken
    BY <2>2, <2>5 DEF ConfirmationsCounted
  <2>6. CASE ~(history.shared \/ taken)
    <3>1. \A g \in Clearing' : marker' /\ Clearing' = {h}
      <4>1. marker => Clearing = {}
        BY <2>6 DEF Clearing
      <4>2. ~marker => Clearing = {}
        BY <2>6 DEF ConfirmationsCounted
      <4>3. \A g \in Closers : g # h => hook'[g].phase # "clearing"
        BY <4>1, <4>2, <2>3, <2>0 DEF Clearing
      <4>4. Clearing' \subseteq {h}
        BY <4>3 DEF Clearing
      <4>5. h \in Clearing' => marker'
        BY <2>0, <2>1, <2>3 DEF Clearing
      <4> QED BY <4>4, <4>5
    <3> DEFINE w2 == Cardinality(Confirming')
               m == Markers
    <3>2. w2 <= w /\ w2 \in Nat /\ m \in Nat
      <4> DEFINE T == Confirming'
      <4>0. T \in SUBSET Confirming
        BY <2>4
      <4> HIDE DEF T
      <4>1. Cardinality(T) <= Cardinality(Confirming) /\ IsFiniteSet(T)
        BY <1>a, <4>0, FS_Subset
      <4>2. Cardinality(T) \in Nat
        BY <4>1, FS_CardinalityType
      <4> QED BY <4>1, <4>2 DEF T, Markers
    <3>3. c + w + m <= d
      BY <2>6 DEF ConfirmationsCounted, Markers
    <3> HIDE DEF c, w, d, w2, m
    <3>4. c + w2 + m <= d
      BY <1>a, <3>2, <3>3
    <3>5. Cardinality(history'.confirmed) + Cardinality(Confirming') + (IF marker' THEN 1 ELSE 0)
            <= history'.dones
      BY <3>4, <2>1, <2>2 DEF c, w2, d, m, Markers
    <3>6. \A g \in Clearing' : marker' /\ Clearing' = {g}
      BY <3>1
    <3> QED BY <3>5, <3>6 DEF ConfirmationsCounted
  <2> QED BY <2>5, <2>6
<1>2. CASE ClearMarker(h)
  <2>1. /\ hook' = [hook EXCEPT ![h].phase = "writing"] /\ hook[h].phase = "clearing"
        /\ marker' = FALSE /\ history' = history
    BY <1>2 DEF ClearMarker, ClearedMarker
  <2>2. /\ hook'[h].phase = "writing"
        /\ \A g \in Closers : g # h => hook'[g] = hook[g]
    BY <1>0, <2>1 DEF HookRows
  <2>3. CASE history.shared
    BY <2>1, <2>3 DEF ConfirmationsCounted
  <2>4. CASE ~history.shared
    <3>1. marker /\ Clearing = {h}
      <4>1. h \in Clearing
        BY <2>1 DEF Clearing
      <4> QED BY <4>1, <2>4 DEF ConfirmationsCounted
    <3>2. Clearing' = {}
      BY <3>1, <2>2 DEF Clearing
    <3>3. Confirming' \subseteq Confirming \cup {h} /\ h \notin Confirming
      BY <2>1, <2>2 DEF Confirming
    <3> DEFINE w2 == Cardinality(Confirming')
    <3>4. w2 <= w + 1 /\ w2 \in Nat
      <4> DEFINE T == Confirming'
                 U == Confirming \cup {h}
      <4>0. T \in SUBSET U /\ IsFiniteSet(U) /\ Cardinality(U) = w + 1
        BY <3>3, <1>a, <1>b, FS_AddElement
      <4> HIDE DEF T, U
      <4>1. Cardinality(T) <= Cardinality(U) /\ IsFiniteSet(T)
        BY <4>0, FS_Subset
      <4>2. Cardinality(T) \in Nat
        BY <4>1, FS_CardinalityType
      <4> QED BY <4>0, <4>1, <4>2 DEF T
    <3>5. c + w + 1 <= d
      BY <2>4, <3>1 DEF ConfirmationsCounted
    <3> HIDE DEF c, w, d, w2
    <3>6. c + w2 + 0 <= d
      BY <1>a, <3>4, <3>5
    <3>7. Cardinality(history'.confirmed) + Cardinality(Confirming') + (IF marker' THEN 1 ELSE 0)
            <= history'.dones
      BY <3>6, <2>1 DEF c, w2, d
    <3> QED BY <3>2, <3>7 DEF ConfirmationsCounted
  <2> QED BY <2>3, <2>4
<1>3. CASE WriteClose(h)
  <2> DEFINE p == Head(hook[h].todo)
  <2>1. /\ hook' = [hook EXCEPT ![h].phase = "closing", ![h].todo = Tail(@), ![h].label = <<>>]
        /\ hook[h].phase = "writing" /\ marker' = marker
    BY <1>3 DEF WriteClose
  <2>2. /\ history'.confirmed = (IF hook[h].label.confirmed THEN history.confirmed \cup {p}
                                 ELSE history.confirmed)
        /\ history'.dones = history.dones /\ history'.shared = history.shared
    BY <1>0, <1>3 DEF WriteClose, Histories
  <2>3. /\ hook'[h].phase = "closing"
        /\ \A g \in Closers : g # h => hook'[g] = hook[g]
    BY <1>0, <2>1 DEF HookRows
  <2>4. Clearing' = Clearing /\ Confirming' = Confirming \ {h}
        /\ (h \in Confirming <=> hook[h].label.confirmed)
    BY <2>1, <2>3 DEF Clearing, Confirming
  <2>5. CASE history.shared
    BY <2>2, <2>5 DEF ConfirmationsCounted
  <2>6. CASE ~history.shared
    <3> DEFINE w2 == Cardinality(Confirming')
               c2 == Cardinality(history'.confirmed)
               m == Markers
    <3>1. w2 = (IF h \in Confirming THEN w - 1 ELSE w) /\ w2 \in Nat
      <4>1. Cardinality(Confirming \ {h}) = (IF h \in Confirming THEN w - 1 ELSE w)
            /\ IsFiniteSet(Confirming \ {h})
        BY <1>a, FS_RemoveElement
      <4>2. Cardinality(Confirming \ {h}) \in Nat
        BY <4>1, FS_CardinalityType
      <4> QED BY <4>1, <4>2, <2>4
    <3>2. c2 <= (IF h \in Confirming THEN c + 1 ELSE c) /\ c2 \in Nat
      <4>1. Cardinality(history.confirmed \cup {p}) <= c + 1
            /\ Cardinality(history.confirmed \cup {p}) \in Nat
        <5>1. Cardinality(history.confirmed \cup {p}) =
                (IF p \in history.confirmed THEN c ELSE c + 1)
          BY <1>a, FS_AddElement
        <5> HIDE DEF c
        <5> QED BY <1>a, <5>1
      <4>2. CASE h \in Confirming
        <5>1. c2 = Cardinality(history.confirmed \cup {p})
          BY <4>2, <2>2, <2>4
        <5> HIDE DEF c, c2
        <5> QED BY <4>1, <4>2, <5>1
      <4>3. CASE h \notin Confirming
        <5>1. c2 = c
          BY <4>3, <2>2, <2>4
        <5> HIDE DEF c, c2
        <5> QED BY <1>a, <4>3, <5>1
      <4> QED BY <4>2, <4>3
    <3>3. c + w + m <= d /\ m \in Nat
      BY <2>6 DEF ConfirmationsCounted, Markers
    <3> HIDE DEF c, w, d, w2, c2, m
    <3>4. c2 + w2 + m <= d
      BY <1>a, <3>1, <3>2, <3>3
    <3>5. Cardinality(history'.confirmed) + Cardinality(Confirming') + (IF marker' THEN 1 ELSE 0)
            <= history'.dones
      BY <3>4, <2>1, <2>2 DEF c2, w2, d, m, Markers
    <3>6. \A g \in Clearing' : marker' /\ Clearing' = {g}
      BY <2>1, <2>4, <2>6 DEF ConfirmationsCounted
    <3> QED BY <3>5, <3>6 DEF ConfirmationsCounted
  <2> QED BY <2>5, <2>6
<1>4. CASE KillHook(h) \/ \E f \in Flushers : EndClose(h, f)
  <2>1. hook' = [hook EXCEPT ![h] = NoHook] /\ marker' = marker
    BY <1>4 DEF KillHook, EndClose
  <2>2. Spent
    BY <1>0, <1>4 DEF KillHook, EndClose, Counted, Spent, Histories
  <2>3. NoHook.phase = "idle"
    BY DEF NoHook
  <2>4. Confirming' \subseteq Confirming /\ Clearing' \subseteq Clearing
    BY <2>1, <2>3, HookSetAside
  <2> QED BY <2>1, <2>2, <2>4, CountKept
<1> QED BY <1>1, <1>2, <1>3, <1>4 DEF HookStep

LEMMA CountStays ==
  ASSUME SpoolShape, ConfirmationsCounted, [Next]_vars PROVE ConfirmationsCounted'
<1>0. history \in Histories
  BY DEF SpoolShape, SpoolTyped
<1>1. ASSUME NEW t \in Tools, ToolStep(t) PROVE ConfirmationsCounted'
  <2>1. hook' = hook /\ marker' = marker
    BY <1>1 DEF ToolStep, StartTool, OpenStep, OverfillStep, LoseStep, FailTool, CloseStep
  <2>2. Spent
    <3>1. CASE OpenStep(t) \/ OverfillStep(t)
      BY <1>0, <3>1 DEF OpenStep, OverfillStep, Spent, Histories
    <3>2. CASE StartTool(t) \/ LoseStep(t) \/ FailTool(t)
      BY <1>0, <3>2 DEF StartTool, LoseStep, FailTool, Counted, Spent, Histories
    <3>3. CASE \E status \in {"ok", "error"} : CloseStep(t, status)
      BY <1>0, <3>3 DEF CloseStep, Spent, Histories
    <3> QED BY <1>1, <3>1, <3>2, <3>3 DEF ToolStep
  <2>3. Confirming' = Confirming /\ Clearing' = Clearing
    BY <2>1 DEF Confirming, Clearing
  <2> QED BY <2>1, <2>2, <2>3, CountKept
<1>2. ASSUME NEW f \in Flushers, FlushStep(f) PROVE ConfirmationsCounted'
  <2>1. hook' = hook /\ marker' = marker
    BY <1>2 DEF FlushStep, Flushing, IsAnswered, Spawn, Lock, List, SkipFile, MarkSent, EndFlush,
                RemoveFile, DropFile, KillFlush, Answered, Unanswered
  <2>2. Spent
    <3>1. CASE DropFile(f) \/ RemoveFile(f)
      BY <1>0, <3>1 DEF DropFile, RemoveFile, Remove, Spent, Histories
    <3>2. CASE KillFlush(f)
      BY <1>0, <3>2 DEF KillFlush, Counted, Spent, Histories
    <3>3. CASE \/ Spawn(f) \/ Lock(f) \/ List(f) \/ SkipFile(f) \/ MarkSent(f) \/ EndFlush(f)
               \/ IsAnswered(f) \/ \E arrived \in BOOLEAN : Unanswered(f, arrived)
      BY <3>3 DEF Spawn, Lock, List, SkipFile, MarkSent, EndFlush, IsAnswered, Answered, Unanswered, Spent
    <3> QED BY <1>2, <3>1, <3>2, <3>3 DEF FlushStep, Flushing
  <2>3. Confirming' = Confirming /\ Clearing' = Clearing
    BY <2>1 DEF Confirming, Clearing
  <2> QED BY <2>1, <2>2, <2>3, CountKept
<1>3. CASE UNCHANGED vars
  <2>1. hook' = hook /\ marker' = marker /\ Spent
    BY <1>3, StandStill DEF Spent
  <2>2. Confirming' = Confirming /\ Clearing' = Clearing
    BY <2>1 DEF Confirming, Clearing
  <2> QED BY <2>1, <2>2, CountKept
<1> QED BY <1>1, <1>2, <1>3, EditorCounts, HookCounts DEF Next

-------------------------------------------------------------------------------
(***************************************************************************)
(* What becomes of the file and of what the hooks know of it.              *)
(***************************************************************************)
HistoryKept ==
  /\ history'.opened = history.opened /\ history'.atClose = history.atClose
  /\ history'.late = history.late /\ history'.raced = history.raced
  /\ history'.erased = history.erased /\ history'.cut = history.cut

Removed ==
  /\ journal' = <<>>
  /\ history'.opened = history.opened /\ history'.atClose = history.atClose
  /\ history'.late = history.late /\ history'.raced = history.raced
  /\ history'.erased = history.erased \cup {journal[k].turn : k \in DOMAIN journal}
  /\ history'.cut = history.cut

\* A record of a step, and the turns it makes late and cut.
Worked(r) ==
  /\ r.kind \in {"step_open", "step_close", "step"} /\ journal' = Append(journal, r)
  /\ history'.late = Late(r.turn) /\ history'.cut = Cut(r.turn)
  /\ history'.erased = history.erased /\ history'.atClose = history.atClose

Opened == \E t \in Tools : OpenStep(t) /\ Worked(StepOpen(t, index[t]))
Returned ==
  \E t \in Tools, status \in {"ok", "error"} :
    CloseStep(t, status) /\ Worked(StepClose(t, status))
Said == Say /\ Worked(Message(turn, NextIndex(hook["stop"].view, turn))) /\ turn \in Turns
        /\ NextIndex(hook["stop"].view, turn) \in Nat
Closed(h) ==
  LET p == Head(hook[h].todo)
  IN /\ WriteClose(h) /\ p \in Turns /\ hook[h].label \in Labels /\ hook[h].todo # <<>>
     /\ journal' = Append(journal, SegmentClose(p, hook[h].label))
     /\ history'.opened = history.opened /\ history'.late = history.late
     /\ history'.raced = history.raced /\ history'.erased = history.erased
     /\ history'.cut = Cut(p)
     /\ history'.atClose = [history.atClose EXCEPT
          ![p] = IF IsClosed(journal, p) THEN @ ELSE Len(history.opened[p])]
Begun == EndPrompt /\ turn \in Turns /\ journal' = Append(journal, SegmentOpen(turn)) /\ HistoryKept
Quiet == journal' = journal /\ HistoryKept

\* A line that is too long for any reader.
Overfilled ==
  /\ \E p \in Turns : journal' = Append(journal, Overlong(p))
  /\ history'.opened = history.opened /\ history'.atClose = history.atClose
  /\ history'.raced = history.raced /\ history'.erased = history.erased
  /\ history.late \subseteq history'.late /\ history.cut \subseteq history'.cut

LEMMA StepsOfTheFile ==
  ASSUME SpoolShape, Next
  PROVE  \/ Quiet \/ Opened \/ Returned \/ Said \/ (\E h \in Closers : Closed(h)) \/ Begun
         \/ Overfilled \/ Removed
<1>0. /\ SpoolTyped /\ history \in Histories /\ TurnHasBegun /\ HooksStand
      /\ "prompt" \in Closers /\ "stop" \in Closers
  BY DEF SpoolShape, SpoolTyped, Closers
<1>1. CASE EditorStep
  <2>1. CASE Say
    <3> DEFINE i == NextIndex(hook["stop"].view, turn)
    <3>1. turn \in Turns
      BY <1>0, <2>1 DEF Say, TurnHasBegun
    <3>2. i \in Nat
      <4>1. hook["stop"].view \in Seq(JournalRecords)
        BY <1>0, RowsOfHooks
      <4> QED BY <4>1, OfFinite DEF NextIndex
    <3>3. Message(turn, i).kind = "step" /\ Message(turn, i).turn = turn
      BY DEF Message
    <3>4. journal' = Append(journal, Message(turn, i))
      BY <2>1 DEF Say, Append1
    <3>5. /\ history'.late = Late(turn) /\ history'.cut = Cut(turn)
          /\ history'.erased = history.erased /\ history'.atClose = history.atClose
      BY <1>0, <2>1 DEF Say, Histories
    <3>6. Worked(Message(turn, i))
      <4> HIDE DEF i
      <4> QED BY <3>3, <3>4, <3>5 DEF Worked
    <3> QED BY <2>1, <3>1, <3>2, <3>6 DEF Said
  <2>2. CASE EndPrompt
    <3>1. turn \in Turns
      BY <1>0, <2>2 DEF EndPrompt, TurnHasBegun
    <3>2. CASE Append1(SegmentOpen(turn)) /\ UNCHANGED history
      BY <2>2, <3>1, <3>2 DEF Append1, HistoryKept, Begun
    <3>3. CASE Append1(Overlong(turn)) /\ Counted
      BY <1>0, <3>1, <3>3 DEF Append1, Counted, Overfilled, Histories
    <3> QED BY <2>2, <3>2, <3>3 DEF EndPrompt
  <2>3. CASE BeginPrompt \/ (\E speaks \in BOOLEAN : BeginStop(speaks)) \/ Look \/ BeginEnd \/ InterruptTurn \/ Continue \/ Day
    BY <2>3 DEF BeginPrompt, BeginStop, Look, BeginEnd, InterruptTurn, Continue, Day, Quiet, HistoryKept
  <2>4. CASE Done
    BY <1>0, <2>4 DEF Done, Quiet, HistoryKept, Histories
  <2> QED BY <1>1, <2>1, <2>2, <2>3, <2>4 DEF EditorStep
<1>2. ASSUME NEW t \in Tools, ToolStep(t) PROVE Quiet \/ Opened \/ Returned \/ Overfilled
  <2>1. CASE OpenStep(t)
    <3>1. StepOpen(t, index[t]).kind = "step_open" /\ StepOpen(t, index[t]).turn = TurnOf[t]
      BY DEF StepOpen
    <3>2. journal' = Append(journal, StepOpen(t, index[t]))
      BY <2>1 DEF OpenStep, Append1
    <3>3. /\ history'.late = Late(TurnOf[t]) /\ history'.cut = Cut(TurnOf[t])
          /\ history'.erased = history.erased /\ history'.atClose = history.atClose
      BY <1>0, <2>1 DEF OpenStep, Histories
    <3>4. Worked(StepOpen(t, index[t]))
      BY <3>1, <3>2, <3>3 DEF Worked
    <3> QED BY <2>1, <3>4 DEF Opened
  <2>2. ASSUME NEW status \in {"ok", "error"}, CloseStep(t, status) PROVE Returned
    <3>1. StepClose(t, status).kind = "step_close" /\ StepClose(t, status).turn = TurnOf[t]
      BY DEF StepClose
    <3>2. journal' = Append(journal, StepClose(t, status))
      BY <2>2 DEF CloseStep, Append1
    <3>3. /\ history'.late = Late(TurnOf[t]) /\ history'.cut = Cut(TurnOf[t])
          /\ history'.erased = history.erased /\ history'.atClose = history.atClose
      BY <1>0, <2>2 DEF CloseStep, Histories
    <3>4. Worked(StepClose(t, status))
      BY <3>1, <3>2, <3>3 DEF Worked
    <3> QED BY <2>2, <3>4 DEF Returned
  <2>3. CASE StartTool(t) \/ FailTool(t)
    BY <2>3 DEF StartTool, FailTool, Quiet, HistoryKept
  <2>4. CASE LoseStep(t)
    BY <1>0, <2>4 DEF LoseStep, Counted, Quiet, HistoryKept, Histories
  <2>5. CASE OverfillStep(t)
    <3>1. TurnOf[t] \in Turns /\ journal' = Append(journal, Overlong(TurnOf[t]))
      BY <2>5, SpoolConstants DEF OverfillStep, Append1
    <3>2. /\ history'.opened = history.opened /\ history'.atClose = history.atClose
          /\ history'.raced = history.raced /\ history'.erased = history.erased
          /\ history'.late = Late(TurnOf[t]) /\ history'.cut = Cut(TurnOf[t])
      BY <1>0, <2>5 DEF OverfillStep, Histories
    <3> QED BY <3>1, <3>2 DEF Overfilled, Late, Cut
  <2> QED BY <1>2, <2>1, <2>2, <2>3, <2>4, <2>5 DEF ToolStep
<1>3. ASSUME NEW h \in Closers, HookStep(h) PROVE Quiet \/ Closed(h)
  <2>1. CASE WriteClose(h)
    <3> DEFINE p == Head(hook[h].todo)
    <3>1. hook[h].todo # <<>> /\ hook[h].label \in Labels
      BY <1>0, <2>1 DEF WriteClose, HooksStand
    <3>2. p \in Turns
      BY <1>0, <3>1, RowsOfHooks
    <3>3. journal' = Append(journal, SegmentClose(p, hook[h].label))
      BY <2>1 DEF WriteClose, Append1
    <3>4. /\ history'.opened = history.opened /\ history'.late = history.late
          /\ history'.raced = history.raced /\ history'.erased = history.erased
          /\ history'.cut = Cut(p)
          /\ history'.atClose = [history.atClose EXCEPT
               ![p] = IF IsClosed(journal, p) THEN @ ELSE Len(history.opened[p])]
      <4> HIDE DEF p
      <4> QED BY <1>0, <2>1 DEF WriteClose, Histories, p
    <3> QED BY <2>1, <3>1, <3>2, <3>3, <3>4 DEF Closed
  <2>2. CASE Judge(h) \/ ClearMarker(h) \/ KillHook(h) \/ \E f \in Flushers : EndClose(h, f)
    BY <1>0, <2>2 DEF Judge, ClearMarker, KillHook, EndClose, Counted, Quiet, HistoryKept, Histories
  <2> QED BY <1>3, <2>1, <2>2 DEF HookStep
<1>4. ASSUME NEW f \in Flushers, FlushStep(f) PROVE Quiet \/ Removed
  <2>1. CASE DropFile(f) \/ RemoveFile(f)
    BY <1>0, <2>1 DEF DropFile, RemoveFile, Remove, Removed, Histories
  <2>2. CASE KillFlush(f)
    BY <1>0, <2>2 DEF KillFlush, Counted, Quiet, HistoryKept, Histories
  <2>3. CASE \/ Spawn(f) \/ Lock(f) \/ List(f) \/ SkipFile(f) \/ MarkSent(f) \/ EndFlush(f)
             \/ IsAnswered(f) \/ \E arrived \in BOOLEAN : Unanswered(f, arrived)
    BY <2>3 DEF Spawn, Lock, List, SkipFile, MarkSent, EndFlush, IsAnswered, Answered, Unanswered,
                Quiet, HistoryKept
  <2> QED BY <1>4, <2>1, <2>2, <2>3 DEF FlushStep, Flushing
<1> QED BY <1>1, <1>2, <1>3, <1>4 DEF Next

\* A record of a step that is spooled.
LEMMA WorkedRecord ==
  ASSUME SpoolShape, Opened \/ Returned \/ Said
  PROVE  \E r \in JournalRecords : OfItsTurn(r) /\ Worked(r)
<1>1. CASE Opened
  <2>1. PICK t \in Tools : OpenStep(t) /\ Worked(StepOpen(t, index[t]))
    BY <1>1 DEF Opened
  <2>2. index[t] \in Nat
    BY DEF SpoolShape, SpoolTyped
  <2> QED BY <2>1, <2>2, RecordsMade
<1>2. CASE Returned
  <2>1. PICK t \in Tools, status \in {"ok", "error"} :
          CloseStep(t, status) /\ Worked(StepClose(t, status))
    BY <1>2 DEF Returned
  <2> QED BY <2>1, RecordsMade
<1>3. CASE Said
  BY <1>3, RecordsMade DEF Said
<1> QED BY <1>1, <1>2, <1>3

LEMMA MarksGrow ==
  ASSUME SpoolShape, Next
  PROVE  Steady' \subseteq Steady /\ history.erased \subseteq history'.erased
         /\ history.cut \subseteq history'.cut
<1>1. CASE Quiet \/ Begun \/ Overfilled \/ Removed
  BY <1>1 DEF Quiet, Begun, HistoryKept, Overfilled, Removed, Steady
<1>2. CASE Opened \/ Returned \/ Said
  <2>1. PICK r : Worked(r)
    BY <1>2, WorkedRecord
  <2> QED BY <2>1 DEF Worked, Steady, Late, Cut
<1>3. CASE \E h \in Closers : Closed(h)
  BY <1>3 DEF Closed, Steady, Cut
<1> QED BY <1>1, <1>2, <1>3, StepsOfTheFile

LEMMA ErasedStart == Init => ErasedAreGone
BY DEF Init, Nothing, ErasedAreGone

LEMMA ErasedStay ==
  ASSUME SpoolShape, ErasedAreGone, [Next]_vars PROVE ErasedAreGone'
<1> DEFINE K == {"step_open", "step", "step_close", "segment_close"}
<1>0. journal \in Seq(JournalRecords) /\ SpoolTyped
  BY DEF SpoolShape, SpoolTyped
<1>1. CASE Next
  <2>1. CASE Quiet
    BY <2>1 DEF Quiet, HistoryKept, ErasedAreGone
  <2>2. ASSUME NEW r \in JournalRecords, journal' = Append(journal, r),
               history'.erased = history.erased, history.cut \subseteq history'.cut,
               r.turn \in history.erased /\ r.kind \in K => r.turn \in history'.cut
        PROVE  ErasedAreGone'
    <3>1. ASSUME NEW p \in history'.erased \ history'.cut PROVE Of(journal', p, K) = {}
      <4>1. Of(journal, p, K) = {}
        BY <2>2, <3>1 DEF ErasedAreGone
      <4>2. ~(r.turn = p /\ r.kind \in K)
        BY <2>2, <3>1
      <4> HIDE DEF K
      <4>3. Of(Append(journal, r), p, K) = Of(journal, p, K)
        BY <1>0, <4>2, OfAppended
      <4> QED BY <2>2, <4>1, <4>3
    <3> QED BY <3>1 DEF ErasedAreGone
  <2>3. CASE Opened \/ Returned \/ Said
    <3>1. PICK r \in JournalRecords : Worked(r)
      BY <2>3, WorkedRecord
    <3>2. r.turn \in history.erased => r.turn \in history'.cut
      BY <3>1 DEF Worked, Cut
    <3>3. journal' = Append(journal, r) /\ history'.erased = history.erased
      BY <3>1 DEF Worked
    <3> QED BY <1>1, <2>2, <3>2, <3>3, MarksGrow
  <2>4. CASE \E h \in Closers : Closed(h)
    <3>1. PICK h \in Closers : Closed(h)
      BY <2>4
    <3> DEFINE r == SegmentClose(Head(hook[h].todo), hook[h].label)
    <3>2. r \in JournalRecords /\ r.turn = Head(hook[h].todo)
      BY <3>1, RecordsMade DEF Closed
    <3>3. r.turn \in history.erased => r.turn \in history'.cut
      BY <3>1, <3>2 DEF Closed, Cut
    <3>4. journal' = Append(journal, r) /\ history'.erased = history.erased
      BY <3>1 DEF Closed
    <3> HIDE DEF r
    <3> QED BY <1>1, <2>2, <3>2, <3>3, <3>4, MarksGrow
  <2>5. CASE Begun
    <3> DEFINE r == SegmentOpen(turn)
    <3>1. r \in JournalRecords /\ r.kind = "segment_open" /\ journal' = Append(journal, r)
          /\ history'.erased = history.erased
      BY <2>5, RecordsMade DEF Begun, HistoryKept
    <3> HIDE DEF r
    <3>2. r.kind \notin K
      BY <3>1
    <3> QED BY <1>1, <2>2, <3>1, <3>2, MarksGrow
  <2>6. CASE Removed
    BY <2>6 DEF Removed, ErasedAreGone, Of
  <2>7. CASE Overfilled
    <3>1. PICK r \in JournalRecords : r.kind = "overlong" /\ journal' = Append(journal, r)
      BY <2>7, RecordsMade DEF Overfilled
    <3>2. r.kind \notin K
      BY <3>1
    <3> QED BY <1>1, <2>2, <2>7, <3>1, <3>2, MarksGrow DEF Overfilled
  <2> QED BY <1>1, <2>1, <2>3, <2>4, <2>5, <2>6, <2>7, StepsOfTheFile
<1>2. CASE UNCHANGED vars
  BY <1>2, StandStill DEF ErasedAreGone
<1> QED BY <1>1, <1>2

-------------------------------------------------------------------------------
(***************************************************************************)
(* Outcomes: judged by the hook that closes a turn, from what it has read, *)
(* and fitting what the flusher assembles.                                 *)
(***************************************************************************)
\* A turn that a hook is closing or that is closed.
Awaited(p) ==
  IsClosed(journal, p) \/ \E h \in Closers : \E k \in DOMAIN hook[h].todo : hook[h].todo[k] = p

\* The steps of such a turn stay what they are, unless it goes on or its file is removed.
LEMMA StepsSteady ==
  ASSUME SpoolShape, Next, NEW p \in Steady', Awaited(p),
         p \notin history'.erased \/ ~Removed
  PROVE  Steps(journal', p) = Steps(journal, p)
<1>0. /\ journal \in Seq(JournalRecords) /\ \A k \in DOMAIN journal : OfItsTurn(journal[k])
  BY DEF SpoolShape, SpoolTyped, RecordsFit
<1>1. CASE Quiet
  BY <1>1 DEF Quiet
<1>2. CASE Opened \/ Returned \/ Said
  <2>1. PICK r \in JournalRecords : OfItsTurn(r) /\ Worked(r)
    BY <1>2, WorkedRecord
  <2>2. r.turn # p
    BY <2>1 DEF Worked, Late, Awaited, Steady
  <2>3. Steps(Append(journal, r), p) = Steps(journal, p)
    BY <1>0, <2>1, <2>2, StepsKept
  <2> QED BY <2>1, <2>3 DEF Worked
<1>3. CASE \E h \in Closers : Closed(h)
  <2>1. PICK h \in Closers : Closed(h)
    BY <1>3
  <2> DEFINE r == SegmentClose(Head(hook[h].todo), hook[h].label)
  <2>2. r \in JournalRecords /\ OfItsTurn(r) /\ r.kind = "segment_close" /\ journal' = Append(journal, r)
    BY <2>1, RecordsMade DEF Closed
  <2> HIDE DEF r
  <2>3. Steps(Append(journal, r), p) = Steps(journal, p)
    BY <1>0, <2>2, StepsKept
  <2> QED BY <2>2, <2>3
<1>4. CASE Begun
  <2> DEFINE r == SegmentOpen(turn)
  <2>1. r \in JournalRecords /\ OfItsTurn(r) /\ r.kind = "segment_open" /\ journal' = Append(journal, r)
    BY <1>4, RecordsMade DEF Begun
  <2> HIDE DEF r
  <2>2. Steps(Append(journal, r), p) = Steps(journal, p)
    BY <1>0, <2>1, StepsKept
  <2> QED BY <2>1, <2>2
<1>5. CASE Removed
  <2>1. p \notin history'.erased /\ journal' = <<>>
    BY <1>5 DEF Removed
  <2>2. \A k \in DOMAIN journal : journal[k].turn # p
    BY <1>5, <2>1 DEF Removed
  <2>3. Of(journal, p, {"step_open", "step"}) = {} /\ Of(<<>>, p, {"step_open", "step"}) = {}
    BY <2>2 DEF Of
  <2>4. <<>> \in Seq(JournalRecords)
    OBVIOUS
  <2>5. Steps(journal, p) = <<>> /\ Steps(<<>>, p) = <<>>
    BY <1>0, <2>3, <2>4, NoSteps
  <2> QED BY <2>1, <2>5
<1>6. CASE Overfilled
  <2>1. PICK r \in JournalRecords : /\ OfItsTurn(r) /\ r.kind = "overlong"
                                    /\ journal' = Append(journal, r)
    BY <1>6, RecordsMade DEF Overfilled
  <2>2. Steps(Append(journal, r), p) = Steps(journal, p)
    BY <1>0, <2>1, StepsKept
  <2> QED BY <2>1, <2>2
<1> QED BY <1>1, <1>2, <1>3, <1>4, <1>5, <1>6, StepsOfTheFile

\* What a hook reads of a turn are its steps, unless a line too long hides some.
LEMMA ReadSteps ==
  ASSUME NEW j \in Seq(JournalRecords), NEW p
  PROVE  Steps(Readable(j), p) = Steps(j, p) \/ (Cropped(j) /\ p \in TurnsIn(j))
<1>1. CASE ~Cropped(j)
  BY <1>1, ReadWhole
<1>2. CASE p \notin TurnsIn(j)
  <2> DEFINE view == Readable(j)
  <2>1. view \in Seq(JournalRecords) /\ \A k \in DOMAIN view : \E l \in DOMAIN j : view[k] = j[l]
    BY ReadTyped
  <2> HIDE DEF view
  <2>2. Of(j, p, {"step_open", "step"}) = {} /\ Of(view, p, {"step_open", "step"}) = {}
    BY <1>2, <2>1 DEF Of, TurnsIn
  <2>3. Steps(j, p) = <<>> /\ Steps(view, p) = <<>>
    BY <2>1, <2>2, NoSteps
  <2> QED BY <2>3 DEF view
<1> QED BY <1>1, <1>2

\* What a step makes of a hook.
HookMoved(h) ==
  LET row == hook[h]
      row2 == hook'[h]
      shut == row2.phase \notin {"clearing", "writing"}
  IN \/ row2 = row
     \/ row2.todo = <<>> /\ shut
     \/ row2.view = InFile /\ journal' = journal /\ shut
     \/ row2.view = row.view /\ row2.todo = row.todo /\ VerdictFits(row2)
     \/ row2.view = row.view /\ row2.todo = row.todo /\ row2.label = row.label
        /\ row.phase \in {"clearing", "writing"}
     \/ row2.view = row.view /\ row.todo # <<>> /\ row2.todo = Tail(row.todo) /\ shut

LEMMA HooksMove ==
  ASSUME SpoolShape, Next, NEW h \in Closers PROVE HookMoved(h)
<1>0. /\ SpoolTyped /\ hook \in [Closers -> HookRows] /\ HooksStand /\ hook[h] \in HookRows
      /\ "prompt" \in Closers /\ "stop" \in Closers /\ "end" \in Closers
  BY DEF SpoolShape, SpoolTyped, Closers
<1>a. ASSUME hook'[h] = hook[h] PROVE HookMoved(h)
  BY <1>a DEF HookMoved
<1>b. ASSUME hook'[h].todo = <<>>, hook'[h].phase \notin {"clearing", "writing"} PROVE HookMoved(h)
  BY <1>b DEF HookMoved
<1>c. ASSUME hook'[h].view = InFile, journal' = journal,
             hook'[h].phase \notin {"clearing", "writing"} PROVE HookMoved(h)
  BY <1>c DEF HookMoved
<1>1. CASE BeginPrompt
  <2> DEFINE row == Closing(InFile, Unclosed(InFile))
  <2>1. hook' = [hook EXCEPT !["prompt"] = row] /\ journal' = journal
    BY <1>1 DEF BeginPrompt
  <2>2. row.view = InFile /\ row.phase = "closing"
    BY DEF Closing
  <2> HIDE DEF row
  <2>3. hook'[h] = IF h = "prompt" THEN row ELSE hook[h]
    BY <1>0, <2>1
  <2> QED BY <1>a, <1>c, <2>1, <2>2, <2>3
<1>2. ASSUME NEW speaks \in BOOLEAN, BeginStop(speaks) PROVE HookMoved(h)
  <2> DEFINE said == [NoHook EXCEPT !.phase = "saying", !.view = InFile]
             shut == Closing(InFile, Current(InFile))
  <2>1. /\ hook' = [hook EXCEPT !["stop"] = IF speaks THEN said ELSE shut]
        /\ journal' = journal
    BY <1>2 DEF BeginStop
  <2>2. said.todo = <<>> /\ said.phase = "saying" /\ shut.view = InFile /\ shut.phase = "closing"
    BY DEF NoHook, Closing
  <2> HIDE DEF said, shut
  <2>3. hook'[h] = IF h # "stop" THEN hook[h] ELSE IF speaks THEN said ELSE shut
    BY <1>0, <2>1
  <2> QED BY <1>a, <1>b, <1>c, <2>1, <2>2, <2>3
<1>3. CASE Say
  <2>1. hook' = [hook EXCEPT !["stop"].phase = "looking"] /\ hook["stop"].phase = "saying"
    BY <1>3 DEF Say
  <2>2. CASE h = "stop"
    <3>1. hook'[h].phase = "looking" /\ hook'[h].todo = hook[h].todo
      BY <1>0, <2>1, <2>2 DEF HookRows
    <3>2. hook[h].todo = <<>>
      BY <1>0, <2>1, <2>2 DEF HooksStand
    <3> QED BY <1>b, <3>1, <3>2
  <2>3. CASE h # "stop"
    BY <1>0, <1>a, <2>1, <2>3
  <2> QED BY <2>2, <2>3
<1>4. CASE Look
  <2> DEFINE row == Closing(InFile, Current(InFile))
  <2>1. hook' = [hook EXCEPT !["stop"] = row] /\ journal' = journal
    BY <1>4 DEF Look
  <2>2. row.view = InFile /\ row.phase = "closing"
    BY DEF Closing
  <2> HIDE DEF row
  <2>3. hook'[h] = IF h = "stop" THEN row ELSE hook[h]
    BY <1>0, <2>1
  <2> QED BY <1>a, <1>c, <2>1, <2>2, <2>3
<1>5. CASE BeginEnd
  <2> DEFINE row == Closing(InFile, Unclosed(InFile))
  <2>1. hook' = [hook EXCEPT !["end"] = row] /\ journal' = journal
    BY <1>5 DEF BeginEnd
  <2>2. row.view = InFile /\ row.phase = "closing"
    BY DEF Closing
  <2> HIDE DEF row
  <2>3. hook'[h] = IF h = "end" THEN row ELSE hook[h]
    BY <1>0, <2>1
  <2> QED BY <1>a, <1>c, <2>1, <2>2, <2>3
<1>6. ASSUME NEW g \in Closers, hook' = [hook EXCEPT ![g] = NoHook] PROVE HookMoved(h)
  <2>1. NoHook.todo = <<>> /\ NoHook.phase = "idle"
    BY DEF NoHook
  <2>2. hook'[h] = IF h = g THEN NoHook ELSE hook[h]
    BY <1>0, <1>6
  <2> QED BY <1>a, <1>b, <2>1, <2>2
<1>7. ASSUME NEW g \in Closers, HookStep(g) PROVE HookMoved(h)
  <2>1. CASE Judge(g)
    <3> DEFINE verdict == Resolve(Reconciled(hook[g].view, Head(hook[g].todo)), marker)
    <3>1. hook' = [hook EXCEPT ![g].phase = IF marker THEN "clearing" ELSE "writing",
                               ![g].label = verdict]
      BY <2>1 DEF Judge
    <3>2. CASE h = g
      <4>1. verdict = Resolve(Steps(hook[h].view, Head(hook[h].todo)), verdict.confirmed)
        <5>1. verdict.confirmed = marker
          BY <1>0, OutcomeTyped DEF SpoolTyped
        <5> QED BY <5>1, <3>2 DEF Reconciled
      <4> HIDE DEF verdict
      <4>2. hook'[h].view = hook[h].view /\ hook'[h].todo = hook[h].todo /\ hook'[h].label = verdict
        BY <1>0, <3>1, <3>2 DEF HookRows
      <4>3. VerdictFits(hook'[h])
        BY <4>1, <4>2 DEF VerdictFits
      <4> QED BY <4>2, <4>3 DEF HookMoved
    <3>3. CASE h # g
      BY <1>0, <1>a, <3>1, <3>3
    <3> QED BY <3>2, <3>3
  <2>2. CASE ClearMarker(g)
    <3>1. hook' = [hook EXCEPT ![g].phase = "writing"] /\ hook[g].phase = "clearing"
      BY <2>2 DEF ClearMarker
    <3>2. CASE h = g
      <4>1. hook'[h].view = hook[h].view /\ hook'[h].todo = hook[h].todo
            /\ hook'[h].label = hook[h].label
        BY <1>0, <3>1, <3>2 DEF HookRows
      <4> QED BY <3>1, <3>2, <4>1 DEF HookMoved
    <3>3. CASE h # g
      BY <1>0, <1>a, <3>1, <3>3
    <3> QED BY <3>2, <3>3
  <2>3. CASE WriteClose(g)
    <3>1. /\ hook' = [hook EXCEPT ![g].phase = "closing", ![g].todo = Tail(@), ![g].label = <<>>]
          /\ hook[g].todo # <<>>
      BY <1>0, <2>3 DEF WriteClose, HooksStand
    <3>2. CASE h = g
      <4>1. hook'[h].view = hook[h].view /\ hook'[h].todo = Tail(hook[h].todo)
            /\ hook'[h].phase = "closing"
        BY <1>0, <3>1, <3>2 DEF HookRows
      <4> QED BY <3>1, <3>2, <4>1 DEF HookMoved
    <3>3. CASE h # g
      BY <1>0, <1>a, <3>1, <3>3
    <3> QED BY <3>2, <3>3
  <2>4. CASE KillHook(g) \/ \E f \in Flushers : EndClose(g, f)
    BY <1>6, <2>4 DEF KillHook, EndClose
  <2> QED BY <1>7, <2>1, <2>2, <2>3, <2>4 DEF HookStep
<1>8. CASE EndPrompt
  BY <1>0, <1>6, <1>8 DEF EndPrompt
<1>9. CASE InterruptTurn \/ Continue \/ Done \/ Day \/ (\E t \in Tools : ToolStep(t))
  BY <1>a, <1>9 DEF InterruptTurn, Continue, Done, Day, ToolStep, StartTool, OpenStep,
                    OverfillStep, LoseStep, FailTool, CloseStep
<1>10. CASE \E f \in Flushers : FlushStep(f)
  <2>1. hook' = hook
    BY <1>10 DEF FlushStep, Flushing, IsAnswered, Spawn, Lock, List, SkipFile, MarkSent, EndFlush,
                 RemoveFile, DropFile, KillFlush, Answered, Unanswered
  <2> QED BY <1>a, <2>1
<1> QED BY <1>1, <1>2, <1>3, <1>4, <1>5, <1>7, <1>8, <1>9, <1>10 DEF Next, EditorStep

LEMMA LabelsStart == Init => LabelsFit
<1> SUFFICES ASSUME Init PROVE LabelsFit
  OBVIOUS
<1>1. ClosesFit
  BY DEF Init, ClosesFit
<1>2. TodosFit /\ VerdictsFit
  BY DEF Init, NoHook, TodosFit, VerdictsFit
<1>3. QueuesFit
  BY DEF Init, Idle, QueuesFit
<1>4. LabelFitsSteps
  BY DEF Init, LabelFitsSteps, Received
<1> QED BY <1>1, <1>2, <1>3, <1>4 DEF LabelsFit

LEMMA VerdictsStay ==
  ASSUME SpoolShape, VerdictsFit, Next PROVE VerdictsFit'
<1>1. ASSUME NEW h \in Closers, hook'[h].phase \in {"clearing", "writing"}
      PROVE  VerdictFits(hook'[h])
  <2>1. HookMoved(h)
    BY HooksMove
  <2> QED BY <1>1, <2>1 DEF HookMoved, VerdictsFit, VerdictFits
<1> QED BY <1>1 DEF VerdictsFit

\* A file with a line too long stays as it is, with all its turns, until it is removed.
LEMMA CropStays ==
  ASSUME SpoolShape, Next, Cropped(journal), NEW p \in TurnsIn(journal), p \notin history'.erased
  PROVE  Cropped(journal') /\ p \in TurnsIn(journal')
<1>0. journal \in Seq(JournalRecords)
  BY DEF SpoolShape, SpoolTyped
<1>1. CASE Removed
  BY <1>1 DEF Removed, TurnsIn
<1>2. CASE journal' = journal
  BY <1>2
<1>3. ASSUME NEW r, journal' = Append(journal, r)
      PROVE  Cropped(journal') /\ p \in TurnsIn(journal')
  <2> DEFINE j2 == Append(journal, r)
  <2>1. \A k \in DOMAIN journal : k \in DOMAIN j2 /\ j2[k] = journal[k]
    BY <1>0
  <2> HIDE DEF j2
  <2>2. Cropped(j2) /\ p \in TurnsIn(j2)
    BY <2>1 DEF Cropped, TurnsIn
  <2> QED BY <1>3, <2>2 DEF j2
<1>4. CASE Opened \/ Returned \/ Said
  BY <1>3, <1>4, WorkedRecord DEF Worked
<1> QED BY <1>1, <1>2, <1>3, <1>4, StepsOfTheFile DEF Quiet, Closed, Begun, Overfilled

LEMMA TodosStay ==
  ASSUME SpoolShape, TodosFit, Next PROVE TodosFit'
<1>1. ASSUME NEW h \in Closers, NEW k \in DOMAIN hook'[h].todo,
             hook'[h].todo[k] \in Steady' \ history'.erased
      PROVE  \/ Steps(hook'[h].view, hook'[h].todo[k]) = Steps(journal', hook'[h].todo[k])
             \/ Cropped(journal') /\ hook'[h].todo[k] \in TurnsIn(journal')
  <2> DEFINE p == hook'[h].todo[k]
             row == hook[h]
             row2 == hook'[h]
  <2>0. p \in Steady \ history.erased
    BY <1>1, MarksGrow
  <2>1. row.todo \in Seq(Turns)
    BY RowsOfHooks DEF SpoolShape
  <2>2. ASSUME row2.view = row.view, NEW l \in DOMAIN row.todo, row.todo[l] = p
        PROVE  \/ Steps(row2.view, p) = Steps(journal', p)
               \/ Cropped(journal') /\ p \in TurnsIn(journal')
    <3>1. \/ Steps(row.view, p) = Steps(journal, p)
          \/ Cropped(journal) /\ p \in TurnsIn(journal)
      BY <2>0, <2>2 DEF TodosFit
    <3>2. Awaited(p)
      BY <2>2 DEF Awaited
    <3>3. Steps(journal', p) = Steps(journal, p)
      BY <1>1, <3>2, StepsSteady
    <3>4. CASE Cropped(journal) /\ p \in TurnsIn(journal)
      BY <1>1, <3>4, CropStays
    <3> QED BY <2>2, <3>1, <3>3, <3>4
  <2>3. HookMoved(h)
    BY HooksMove
  <2>4. CASE row2.todo = <<>>
    BY <2>4
  <2>5. CASE row2.view = InFile /\ journal' = journal
    <3>1. \/ Steps(InFile, p) = Steps(journal, p)
          \/ Cropped(journal) /\ p \in TurnsIn(journal)
      BY ReadSteps DEF InFile, SpoolShape, SpoolTyped
    <3> QED BY <2>5, <3>1 DEF TurnsIn, Cropped
  <2>6. CASE row2.view = row.view /\ row2.todo = row.todo
    BY <2>2, <2>6
  <2>7. CASE row2.view = row.view /\ row.todo # <<>> /\ row2.todo = Tail(row.todo)
    <3>1. k + 1 \in DOMAIN row.todo /\ row.todo[k + 1] = p
      <4> HIDE DEF row
      <4>1. k \in DOMAIN Tail(row.todo) /\ p = Tail(row.todo)[k]
        BY <2>7
      <4> HIDE DEF p, row2
      <4> QED BY <2>1, <2>7, <4>1
    <3> QED BY <2>2, <2>7, <3>1
  <2> QED BY <2>3, <2>4, <2>5, <2>6, <2>7 DEF HookMoved
<1>2. TodosFit' <=>
        \A h \in Closers : \A k \in DOMAIN hook'[h].todo :
          hook'[h].todo[k] \in Steady' \ history'.erased
          => \/ Steps(hook'[h].view, hook'[h].todo[k]) = Steps(journal', hook'[h].todo[k])
             \/ Cropped(journal') /\ hook'[h].todo[k] \in TurnsIn(journal')
  BY DEF TodosFit
<1> QED BY <1>1, <1>2

LEMMA ClosesStay ==
  ASSUME SpoolShape, ClosesFit, TodosFit, VerdictsFit, Next PROVE ClosesFit'
<1>0. /\ SpoolTyped /\ journal \in Seq(JournalRecords) /\ HooksStand
  BY DEF SpoolShape, SpoolTyped
<1>1. CASE Removed
  BY <1>1 DEF Removed, ClosesFit
<1>2. CASE Quiet
  BY <1>2, MarksGrow DEF Quiet, ClosesFit
<1>3. ASSUME ~Removed, NEW r \in JournalRecords, journal' = Append(journal, r),
             ~Cropped(journal') /\ r.kind = "segment_close" /\ r.turn \in Steady'
             => r.label = Resolve(Steps(journal', r.turn), r.label.confirmed)
      PROVE  ClosesFit'
  <2> DEFINE j2 == Append(journal, r)
  <2>0. /\ DOMAIN j2 = 1..(Len(journal) + 1) /\ DOMAIN journal = 1..Len(journal)
        /\ j2[Len(journal) + 1] = r /\ Len(journal) \in Nat
        /\ \A k \in 1..Len(journal) : j2[k] = journal[k]
    BY <1>0, Appended
  <2>1. journal' = j2
    BY <1>3
  <2> HIDE DEF j2
  <2>a. Cropped(journal) => Cropped(j2)
    BY <2>0 DEF Cropped
  <2>2. ASSUME ~Cropped(j2), NEW k \in DOMAIN j2, j2[k].kind = "segment_close", j2[k].turn \in Steady'
        PROVE  j2[k].label = Resolve(Steps(j2, j2[k].turn), j2[k].label.confirmed)
    <3>1. CASE k = Len(journal) + 1
      BY <1>3, <2>0, <2>1, <2>2, <3>1
    <3>2. CASE k # Len(journal) + 1
      <4> DEFINE p == journal[k].turn
      <4>1. k \in DOMAIN journal /\ j2[k] = journal[k]
        BY <2>0, <3>2
      <4>2. p \in Steady /\ p \in Steady'
        BY <2>2, <4>1, MarksGrow
      <4>3. journal[k].label = Resolve(Steps(journal, p), journal[k].label.confirmed)
        BY <2>a, <2>2, <4>1, <4>2 DEF ClosesFit
      <4>4. Awaited(p)
        BY <2>2, <4>1 DEF Awaited, IsClosed, Of
      <4>5. Steps(j2, p) = Steps(journal, p)
        BY <1>3, <2>1, <4>2, <4>4, StepsSteady
      <4> QED BY <4>1, <4>3, <4>5
    <3> QED BY <3>1, <3>2
  <2> QED BY <2>1, <2>2 DEF ClosesFit
<1>4. CASE ~Removed /\ (Opened \/ Returned \/ Said)
  <2>1. PICK r \in JournalRecords : Worked(r)
    BY <1>4, WorkedRecord
  <2>2. r.kind # "segment_close" /\ journal' = Append(journal, r)
    BY <2>1 DEF Worked
  <2> QED BY <1>3, <1>4, <2>2
<1>5. CASE ~Removed /\ Begun
  <2>1. SegmentOpen(turn) \in JournalRecords /\ SegmentOpen(turn).kind = "segment_open"
        /\ journal' = Append(journal, SegmentOpen(turn))
    BY <1>5, RecordsMade DEF Begun
  <2> QED BY <1>3, <1>5, <2>1
<1>6. CASE ~Removed /\ \E h \in Closers : Closed(h)
  <2>1. PICK h \in Closers : Closed(h)
    BY <1>6
  <2> DEFINE p == Head(hook[h].todo)
             l == hook[h].label
             r == SegmentClose(p, l)
  <2>2. /\ r \in JournalRecords /\ r.turn = p /\ r.label = l /\ journal' = Append(journal, r)
        /\ p \in Turns /\ hook[h].todo # <<>>
    BY <2>1, RecordsMade DEF Closed
  <2>a. Cropped(journal) => Cropped(journal')
    BY <1>0, <2>2, Appended DEF Cropped
  <2>3. ASSUME ~Cropped(journal'), p \in Steady' PROVE l = Resolve(Steps(journal', p), l.confirmed)
    <3>1. p \notin history.erased
      BY <2>1, <2>3 DEF Closed, Cut, Steady
    <3>2. p \in Steady \ history.erased
      BY <2>3, <3>1, MarksGrow
    <3>3. 1 \in DOMAIN hook[h].todo /\ hook[h].todo[1] = p
      <4>1. hook[h].todo \in Seq(Turns)
        BY <1>0, RowsOfHooks
      <4> DEFINE s == hook[h].todo
      <4>2. s \in Seq(Turns) /\ s # <<>>
        BY <4>1, <2>2
      <4> HIDE DEF s
      <4>3. 1 \in DOMAIN s /\ s[1] = Head(s)
        BY <4>2
      <4> QED BY <4>3 DEF s
    <3>4. Steps(hook[h].view, p) = Steps(journal, p)
      BY <2>a, <2>3, <3>2, <3>3 DEF TodosFit
    <3>5. VerdictFits(hook[h])
      BY <2>1 DEF Closed, WriteClose, VerdictsFit
    <3>6. Awaited(p)
      BY <3>3 DEF Awaited
    <3>7. Steps(journal', p) = Steps(journal, p)
      BY <1>6, <2>3, <3>6, StepsSteady
    <3> QED BY <3>4, <3>5, <3>7 DEF VerdictFits
  <2> HIDE DEF r, p, l
  <2> QED BY <1>3, <1>6, <2>2, <2>3
<1>7. CASE ~Removed /\ Overfilled
  <2>1. PICK r \in JournalRecords : r.kind = "overlong" /\ journal' = Append(journal, r)
    BY <1>7, RecordsMade DEF Overfilled
  <2> QED BY <1>3, <1>7, <2>1
<1> QED BY <1>1, <1>2, <1>4, <1>5, <1>6, <1>7, StepsOfTheFile

-------------------------------------------------------------------------------
(***************************************************************************)
(* Runs: assembled by List, kept in a queue, stored by the server.         *)
(***************************************************************************)
Assembled(parcel) ==
  /\ journal' = journal /\ HistoryKept /\ ~Cropped(journal)
  /\ \E p \in Turns : IsClosed(journal, p) /\ parcel = Run(journal, p)

InQueue(f, parcel) == \E k \in DOMAIN flusher[f].queue : flusher[f].queue[k] = parcel

LEMMA TailIsInQueue ==
  ASSUME SpoolTyped, NEW f \in Flushers, flusher[f].queue # <<>>
  PROVE  /\ \A k \in DOMAIN Tail(flusher[f].queue) : InQueue(f, Tail(flusher[f].queue)[k])
         /\ InQueue(f, Head(flusher[f].queue))
<1> DEFINE s == flusher[f].queue
<1>1. s \in Seq(SpooledRuns) /\ s # <<>>
  BY RowsOfFlushers
<1> HIDE DEF s
<1>2. /\ \A k \in DOMAIN Tail(s) : k + 1 \in DOMAIN s /\ s[k + 1] = Tail(s)[k]
      /\ 1 \in DOMAIN s /\ s[1] = Head(s)
  BY <1>1
<1>3. (\A k \in DOMAIN Tail(s) : \E l \in DOMAIN s : s[l] = Tail(s)[k])
      /\ (\E l \in DOMAIN s : s[l] = Head(s))
  BY <1>2
<1> QED BY <1>3 DEF InQueue, s

\* What is in a queue was there before, or has just been assembled.
LEMMA QueuesMove ==
  ASSUME SpoolShape, Next, NEW f \in Flushers, NEW k \in DOMAIN flusher'[f].queue
  PROVE  InQueue(f, flusher'[f].queue[k]) \/ Assembled(flusher'[f].queue[k])
<1>0. SpoolTyped /\ flusher \in [Flushers -> FlusherRows]
  BY DEF SpoolShape, SpoolTyped
<1>a. ASSUME flusher'[f].queue = flusher[f].queue PROVE InQueue(f, flusher'[f].queue[k])
  BY <1>a DEF InQueue
<1>b. ASSUME flusher'[f].queue = <<>> PROVE FALSE
  BY <1>b
<1>c. ASSUME flusher[f].queue # <<>>, flusher'[f].queue = Tail(flusher[f].queue)
      PROVE  InQueue(f, flusher'[f].queue[k])
  <2>1. k \in DOMAIN Tail(flusher[f].queue)
    BY <1>c
  <2> QED BY <1>0, <1>c, <2>1, TailIsInQueue
<1>1. CASE EditorStep \/ (\E t \in Tools : ToolStep(t))
  <2>1. flusher' = flusher
    <3>1. CASE EditorStep
      BY <3>1 DEF EditorStep, BeginPrompt, BeginStop, Say, Look, BeginEnd, EndPrompt, InterruptTurn,
        Continue, Done, Day, filed
    <3>2. CASE \E t \in Tools : ToolStep(t)
      BY <3>2 DEF ToolStep, StartTool, OpenStep, OverfillStep, LoseStep, CloseStep, FailTool, filed
    <3> QED BY <1>1, <3>1, <3>2
  <2> QED BY <2>1, <1>a
<1>2. ASSUME NEW h \in Closers, HookStep(h) PROVE InQueue(f, flusher'[f].queue[k])
  <2>1. flusher'[f].queue = flusher[f].queue
    <3>1. CASE Judge(h) \/ ClearMarker(h) \/ WriteClose(h) \/ KillHook(h)
      BY <3>1 DEF Judge, ClearMarker, WriteClose, KillHook, filed
    <3>2. CASE \E g \in Flushers : EndClose(h, g)
      BY <1>0, <3>2 DEF EndClose, FlusherRows
    <3> QED BY <1>2, <3>1, <3>2 DEF HookStep
  <2> QED BY <2>1, <1>a
<1>3. ASSUME NEW g \in Flushers, FlushStep(g)
      PROVE  InQueue(f, flusher'[f].queue[k]) \/ Assembled(flusher'[f].queue[k])
  <2>1. CASE g # f
    BY <1>0, <1>3, <1>a, <2>1, OthersWait
  <2>2. CASE g = f
    <3>0. FlushStep(f)
      BY <1>3, <2>2
    <3>1. CASE Spawn(f) \/ DropFile(f)
      <4>1. flusher'[f].queue = flusher[f].queue
        BY <1>0, <3>1 DEF Spawn, DropFile, FlusherRows
      <4> QED BY <4>1, <1>a
    <3>2. CASE SkipFile(f) \/ EndFlush(f) \/ RemoveFile(f) \/ KillFlush(f)
      <4>1. flusher'[f].queue \in {<<>>, flusher[f].queue}
        BY <1>0, <3>2 DEF SkipFile, EndFlush, RemoveFile, Released, KillFlush, Idle, FlusherRows
      <4> QED BY <4>1, <1>a, <1>b
    <3>3. CASE Lock(f)
      <4>1. flusher'[f].queue \in {<<>>, flusher[f].queue}
        BY <1>0, <3>3 DEF Lock, Idle, FlusherRows
      <4> QED BY <4>1, <1>a, <1>b
    <3>4. CASE IsAnswered(f)
      <4>1. flusher'[f].queue = flusher[f].queue
        BY <1>0, <3>4 DEF IsAnswered, Answered, FlusherRows
      <4> QED BY <4>1, <1>a
    <3>5. CASE \E arrived \in BOOLEAN : Unanswered(f, arrived)
      <4>1. flusher[f].queue # <<>>
            /\ flusher'[f].queue \in {Tail(flusher[f].queue), flusher[f].queue}
        BY <1>0, <3>5 DEF Unanswered, Pushing, FlusherRows
      <4> QED BY <4>1, <1>a, <1>c
    <3>6. CASE MarkSent(f)
      <4>1. flusher'[f].queue = Tail(flusher[f].queue)
        BY <1>0, <3>6 DEF MarkSent, FlusherRows
      <4>2. CASE flusher[f].queue # <<>>
        BY <4>1, <4>2, <1>c
      <4>3. CASE flusher[f].queue = <<>>
        <5>1. flusher'[f].queue = Tail(<<>>)
          BY <4>1, <4>3
        <5>2. Tail(<<>>) = <<>>
          OBVIOUS
        <5> QED BY <5>1, <5>2, <1>b
      <4> QED BY <4>2, <4>3
    <3>7. CASE List(f)
      <4> DEFINE S == Shippable(journal) \ sent
                 q == QueueOf(journal, S)
      <4>1. flusher'[f].queue = q /\ journal' = journal /\ HistoryKept /\ ~Cropped(journal)
        BY <1>0, <3>7 DEF List, QueueOf, HistoryKept
      <4>2. S \in SUBSET Turns /\ journal \in Seq(JournalRecords) /\ \A p \in S : IsClosed(journal, p)
        BY <1>0 DEF Shippable, SpoolTyped
      <4> HIDE DEF S
      <4>3. \A l \in DOMAIN q : \E p \in S : q[l] = Run(journal, p)
        BY <4>2, QueueTaken
      <4>4. \E p \in S : flusher'[f].queue[k] = Run(journal, p)
        <5> HIDE DEF q
        <5> QED BY <4>1, <4>3
      <4> QED BY <4>1, <4>2, <4>4 DEF Assembled
    <3> QED BY <3>0, <3>1, <3>2, <3>3, <3>4, <3>5, <3>6, <3>7 DEF FlushStep, Flushing
  <2> QED BY <2>1, <2>2
<1> QED BY <1>1, <1>2, <1>3 DEF Next

\* What the server stores comes from the head of a queue.
LEMMA StoredMoves ==
  ASSUME SpoolShape, Next, NEW p \in Turns, stored'[p] # stored[p]
  PROVE  /\ journal' = journal /\ HistoryKept /\ stored'[p].turn = p
         /\ \E f \in Flushers : InQueue(f, stored'[p])
<1>0. SpoolTyped /\ stored \in [Turns -> SpooledRuns \cup {NotStored}]
  BY DEF SpoolShape, SpoolTyped
<1>1. CASE EditorStep \/ (\E t \in Tools : ToolStep(t)) \/ (\E h \in Closers : HookStep(h))
  BY <1>1, OthersUndisturbed DEF Undisturbed
<1>2. ASSUME NEW f \in Flushers, FlushStep(f)
      PROVE  /\ journal' = journal /\ HistoryKept /\ stored'[p].turn = p
             /\ InQueue(f, stored'[p])
  <2> DEFINE parcel == Head(flusher[f].queue)
  <2>1. CASE \/ Spawn(f) \/ Lock(f) \/ List(f) \/ SkipFile(f) \/ MarkSent(f) \/ EndFlush(f)
             \/ RemoveFile(f) \/ DropFile(f) \/ KillFlush(f)
    BY <2>1 DEF Spawn, Lock, List, SkipFile, MarkSent, EndFlush, RemoveFile, DropFile, KillFlush
  <2>2. CASE IsAnswered(f) \/ \E arrived \in BOOLEAN : Unanswered(f, arrived)
    <3>1. /\ flusher[f].queue # <<>> /\ journal' = journal /\ HistoryKept
          /\ stored' = stored \/ stored' = [stored EXCEPT ![parcel.turn] = parcel]
      BY <2>2 DEF IsAnswered, Answered, Unanswered, Pushing, HistoryKept
    <3>2. InQueue(f, parcel)
      BY <1>0, <3>1, TailIsInQueue
    <3> HIDE DEF parcel
    <3>3. p = parcel.turn /\ stored'[p] = parcel
      BY <1>0, <3>1
    <3> QED BY <3>1, <3>2, <3>3
  <2> QED BY <1>2, <2>1, <2>2 DEF FlushStep, Flushing
<1> QED BY <1>1, <1>2 DEF Next

\* The run that List assembles carries the outcome of its steps.
LEMMA AssembledFits ==
  ASSUME SpoolShape, ClosesFit, NEW parcel, Assembled(parcel), parcel.turn \in Steady
  PROVE  LabelFits(parcel)
<1>1. PICK p \in Turns : IsClosed(journal, p) /\ parcel = Run(journal, p)
  BY DEF Assembled
<1>2. journal \in Seq(JournalRecords)
  BY DEF SpoolShape, SpoolTyped
<1>3. PICK k \in DOMAIN journal : /\ k = LastOf(Of(journal, p, {"segment_close"}))
                                  /\ journal[k].kind = "segment_close" /\ journal[k].turn = p
  BY <1>1, <1>2, ClosedBy
<1>4. parcel.turn = p /\ parcel.steps = Steps(journal, p) /\ parcel.label = journal[k].label
  BY <1>1, <1>3 DEF Run
<1>5. journal[k].label = Resolve(Steps(journal, p), journal[k].label.confirmed)
  BY <1>3, <1>4 DEF ClosesFit, Assembled
<1> QED BY <1>4, <1>5 DEF LabelFits

LEMMA QueuesFitStay ==
  ASSUME SpoolShape, ClosesFit, QueuesFit, Next PROVE QueuesFit'
<1>1. ASSUME NEW f \in Flushers, NEW k \in DOMAIN flusher'[f].queue,
             flusher'[f].queue[k].turn \in Steady'
      PROVE  LabelFits(flusher'[f].queue[k])
  <2> DEFINE parcel == flusher'[f].queue[k]
  <2>1. parcel.turn \in Steady
    BY <1>1, MarksGrow
  <2>2. InQueue(f, parcel) \/ Assembled(parcel)
    BY <1>1, QueuesMove
  <2> HIDE DEF parcel
  <2>3. LabelFits(parcel)
    BY <2>1, <2>2, AssembledFits DEF InQueue, QueuesFit
  <2> QED BY <2>3 DEF parcel
<1> QED BY <1>1 DEF QueuesFit, LabelFits

LEMMA StoredFitStay ==
  ASSUME SpoolShape, QueuesFit, LabelFitsSteps, Next PROVE LabelFitsSteps'
<1>1. ASSUME NEW p \in Turns, stored'[p] # NotStored, p \in Steady'
      PROVE  stored'[p].label = Resolve(stored'[p].steps, stored'[p].label.confirmed)
  <2>1. p \in Steady
    BY <1>1, MarksGrow
  <2>2. CASE stored'[p] = stored[p]
    BY <1>1, <2>1, <2>2 DEF LabelFitsSteps, Received, Steady
  <2>3. CASE stored'[p] # stored[p]
    BY <2>1, <2>3, StoredMoves DEF InQueue, QueuesFit, LabelFits
  <2> QED BY <2>2, <2>3
<1> QED BY <1>1 DEF LabelFitsSteps, Received, Steady

LEMMA LabelsStay ==
  ASSUME SpoolShape, LabelsFit, [Next]_vars PROVE LabelsFit'
<1>1. CASE Next
  BY <1>1, ClosesStay, TodosStay, VerdictsStay, QueuesFitStay, StoredFitStay DEF LabelsFit
<1>2. CASE UNCHANGED vars
  BY <1>2, StandStill DEF LabelsFit, ClosesFit, TodosFit, VerdictsFit, VerdictFits, QueuesFit,
    LabelFits, LabelFitsSteps, Received, Steady
<1> QED BY <1>1, <1>2

-------------------------------------------------------------------------------
(***************************************************************************)
(* Steps: those of a run are the ones that were opened, in their order.    *)
(***************************************************************************)
\* The open record of a step is the last one under its number.
LEMMA StepIsOpened ==
  ASSUME SpoolShape, NEW p \in Turns, OpensFollow(p), NEW i \in 0..Len(history.opened[p]) - 1
  PROVE  StepAt(journal, p, i).call = history.opened[p][i + 1]
         /\ history.opened[p][i + 1] \in Tools
<1> DEFINE K == {"step_open", "step"}
           S == {k \in Of(journal, p, K) : journal[k].index = i}
           x == LastOf(S)
<1>0. /\ journal \in Seq(JournalRecords) /\ history.opened[p] \in Seq(Tools)
      /\ Len(history.opened[p]) \in Nat /\ i + 1 \in 1..Len(history.opened[p])
  BY DEF SpoolShape, SpoolTyped, Histories
<1>1. PICK k \in OpensOf(p) : journal[k].index = i
  BY DEF OpensFollow
<1>2. k \in Of(journal, p, K)
  BY DEF OpensOf, Of
<1>3. S \in SUBSET (1..Len(journal)) /\ Len(journal) \in Nat /\ S # {}
  <2>1. Of(journal, p, K) \in SUBSET (1..Len(journal)) /\ Len(journal) \in Nat
    BY <1>0, OfFinite
  <2> QED BY <2>1, <1>1, <1>2
<1>4. x \in S /\ \A l \in S : l <= x
  <2> HIDE DEF S
  <2> QED BY <1>3, LastIsThere
<1>5. k \in S
  BY <1>1, <1>2
<1>6. x \in Of(journal, p, K) /\ journal[x].index = i /\ k <= x /\ x \in Nat /\ k \in Nat
  BY <1>3, <1>4, <1>5
<1>7. StepAt(journal, p, i) =
        IF journal[x].kind = "step" THEN [call |-> "message", status |-> "ok"]
        ELSE [call |-> journal[x].tool, status |-> Status(journal, journal[x].tool)]
  BY DEF StepAt
<1> HIDE DEF x, S, K
<1>8. x \in OpensOf(p) /\ journal[x].kind # "step"
  <2>1. journal[x].kind \in {"step_open", "step"} /\ journal[x].turn = p /\ x \in DOMAIN journal
    BY <1>6 DEF Of, K
  <2>2. CASE journal[x].kind = "step"
    <3>1. x \in Of(journal, p, {"step"})
      BY <2>1, <2>2 DEF Of
    <3>2. x < k
      BY <3>1, <1>1, <1>6 DEF OpensFollow
    <3> QED BY <3>2, <1>6
  <2>3. CASE journal[x].kind = "step_open"
    BY <2>1, <2>3 DEF OpensOf, Of
  <2> QED BY <2>1, <2>2, <2>3
<1>9. journal[x].tool = history.opened[p][i + 1]
  BY <1>6, <1>8 DEF OpensFollow
<1>10. StepAt(journal, p, i).call = journal[x].tool
  BY <1>7, <1>8
<1>11. history.opened[p][i + 1] \in Tools
  <2> DEFINE s == history.opened[p]
  <2>1. s \in Seq(Tools) /\ i + 1 \in 1..Len(s)
    BY <1>0
  <2> HIDE DEF s
  <2>2. s[i + 1] \in Tools
    BY <2>1
  <2> QED BY <2>2 DEF s
<1> QED BY <1>9, <1>10, <1>11

\* What is spooled under the number after the last step is a message.
LEMMA MessageIsLast ==
  ASSUME SpoolShape, NEW p \in Turns, OpensFollow(p),
         Len(history.opened[p]) \in IndicesOf(journal, p)
  PROVE  StepAt(journal, p, Len(history.opened[p])).call = "message"
<1> DEFINE K == {"step_open", "step"}
           n == Len(history.opened[p])
           S == {k \in Of(journal, p, K) : journal[k].index = n}
           x == LastOf(S)
<1>0. journal \in Seq(JournalRecords) /\ n \in Nat
  <2>1. history.opened[p] \in Seq(Tools)
    BY DEF SpoolShape, SpoolTyped, Histories
  <2> QED BY <2>1 DEF SpoolShape, SpoolTyped
<1>1. S \in SUBSET (1..Len(journal)) /\ Len(journal) \in Nat /\ S # {}
  <2>1. Of(journal, p, K) \in SUBSET (1..Len(journal)) /\ Len(journal) \in Nat
    BY <1>0, OfFinite
  <2>2. \E k \in Of(journal, p, K) : journal[k].index = n
    BY DEF IndicesOf
  <2> QED BY <2>1, <2>2
<1>2. x \in S
  <2> HIDE DEF S
  <2> QED BY <1>1, LastIsThere
<1>3. x \in Of(journal, p, K) /\ journal[x].index = n
  BY <1>2
<1>4. StepAt(journal, p, n) =
        IF journal[x].kind = "step" THEN [call |-> "message", status |-> "ok"]
        ELSE [call |-> journal[x].tool, status |-> Status(journal, journal[x].tool)]
  BY DEF StepAt
<1>5. journal[x].kind = "step"
  <2> HIDE DEF x, S
  <2>1. journal[x].kind \in {"step_open", "step"} /\ journal[x].turn = p /\ x \in DOMAIN journal
    BY <1>3 DEF Of, K
  <2>2. ASSUME journal[x].kind = "step_open" PROVE FALSE
    <3>1. x \in OpensOf(p)
      BY <2>1, <2>2 DEF OpensOf, Of
    <3>2. journal[x].index < n
      BY <3>1 DEF OpensFollow
    <3> HIDE DEF n
    <3> QED BY <3>2, <1>3, <1>0
  <2> QED BY <2>1, <2>2
<1> HIDE DEF x, S
<1> QED BY <1>4, <1>5

\* The numbers used in such a turn.
LEMMA NumbersInARow ==
  ASSUME SpoolShape, NEW p \in Turns, OpensFollow(p)
  PROVE  LET n == Len(history.opened[p])
             c == NumberOf(journal, p)
         IN /\ n \in Nat /\ c \in n..(n + 1)
            /\ Places(journal, p) = 1..c
            /\ c = n + 1 => n \in IndicesOf(journal, p)
<1> DEFINE n == Len(history.opened[p])
           I == IndicesOf(journal, p)
<1>0. journal \in Seq(JournalRecords) /\ n \in Nat
  <2>1. history.opened[p] \in Seq(Tools)
    BY DEF SpoolShape, SpoolTyped, Histories
  <2> QED BY <2>1 DEF SpoolShape, SpoolTyped
<1>1. 0..(n - 1) \subseteq I
  <2>1. ASSUME NEW i \in 0..(n - 1) PROVE i \in I
    <3>1. PICK k \in OpensOf(p) : journal[k].index = i
      BY DEF OpensFollow
    <3>2. k \in Of(journal, p, {"step_open", "step"})
      BY DEF OpensOf, Of
    <3> QED BY <3>1, <3>2 DEF IndicesOf
  <2> QED BY <2>1
<1>2. I \subseteq 0..n
  <2>1. ASSUME NEW k \in Of(journal, p, {"step_open", "step"}) PROVE journal[k].index \in 0..n
    <3>1. /\ journal[k] \in JournalRecords /\ journal[k].turn = p
          /\ journal[k].kind \in {"step_open", "step"}
      BY <1>0, OfFinite
    <3>2. journal[k].index \in Nat
      BY <3>1, RecordsKnown
    <3>3. CASE journal[k].kind = "step_open"
      <4>1. k \in OpensOf(p)
        BY <3>1, <3>3 DEF OpensOf, Of
      <4>2. journal[k].index < n
        BY <4>1 DEF OpensFollow
      <4> HIDE DEF n
      <4> QED BY <1>0, <3>2, <4>2
    <3>4. CASE journal[k].kind = "step"
      <4>1. k \in Of(journal, p, {"step"})
        BY <3>1, <3>4 DEF Of
      <4>2. journal[k].index <= n
        BY <4>1 DEF OpensFollow
      <4> HIDE DEF n
      <4> QED BY <1>0, <3>2, <4>2
    <3> QED BY <3>1, <3>3, <3>4
  <2> QED BY <2>1 DEF IndicesOf
<1>3. NumberOf(journal, p) = Cardinality(I) /\ Places(journal, p) = {i + 1 : i \in I}
  BY DEF NumberOf, Places
<1> HIDE DEF n, I
<1>4. CASE n \in I
  <2>0. \A i \in 0..n : i \in 0..(n - 1) \/ i = n
    BY <1>0
  <2>1. I = 0..n
    BY <2>0, <1>1, <1>2, <1>4
  <2>2. Cardinality(0..n) = n + 1
    BY <1>0, FS_Interval
  <2>3. {i + 1 : i \in 0..n} = 1..(n + 1)
    <3>1. \A x \in 1..(n + 1) : x - 1 \in 0..n /\ x = (x - 1) + 1
      BY <1>0
    <3>2. \A i \in 0..n : i + 1 \in 1..(n + 1)
      BY <1>0
    <3> QED BY <3>1, <3>2
  <2>4. NumberOf(journal, p) = n + 1 /\ Places(journal, p) = 1..(n + 1)
    BY <1>3, <2>1, <2>2, <2>3
  <2>5. /\ n \in Nat /\ NumberOf(journal, p) \in n..(n + 1)
        /\ Places(journal, p) = 1..NumberOf(journal, p)
    BY <1>0, <2>4
  <2> QED BY <2>5, <1>4 DEF n, I
<1>5. CASE n \notin I
  <2>0. \A i \in 0..n : i \in 0..(n - 1) \/ i = n
    BY <1>0
  <2>1. I = 0..(n - 1)
    BY <2>0, <1>1, <1>2, <1>5
  <2>2. Cardinality(0..(n - 1)) = n
    <3>1. 0 \in Int /\ n - 1 \in Int
      BY <1>0
    <3>2. Cardinality(0..(n - 1)) = IF 0 > n - 1 THEN 0 ELSE (n - 1) - 0 + 1
      BY <3>1, FS_Interval
    <3> QED BY <3>2, <1>0
  <2>3. {i + 1 : i \in 0..(n - 1)} = 1..n
    <3>1. \A x \in 1..n : x - 1 \in 0..(n - 1) /\ x = (x - 1) + 1
      BY <1>0
    <3>2. \A i \in 0..(n - 1) : i + 1 \in 1..n
      BY <1>0
    <3> QED BY <3>1, <3>2
  <2>4. NumberOf(journal, p) = n /\ Places(journal, p) = 1..n
    BY <1>3, <2>1, <2>2, <2>3
  <2>5. /\ n \in Nat /\ NumberOf(journal, p) \in n..(n + 1) /\ NumberOf(journal, p) # n + 1
        /\ Places(journal, p) = 1..NumberOf(journal, p)
    BY <1>0, <2>4
  <2> QED BY <2>5 DEF n, I
<1> QED BY <1>4, <1>5

LEMMA CallsAreTheOpened ==
  ASSUME SpoolShape, NEW p \in Turns, OpensFollow(p)
  PROVE  LET calls == ToolCalls(Steps(journal, p))
         IN /\ Len(calls) = Len(history.opened[p])
            /\ \A k \in DOMAIN calls : calls[k].call = history.opened[p][k]
<1> DEFINE n == Len(history.opened[p])
           c == NumberOf(journal, p)
           steps == Steps(journal, p)
           items == Items(journal, p)
<1>0. /\ n \in Nat /\ c \in n..(n + 1) /\ c \in Nat /\ Places(journal, p) = 1..c
      /\ c = n + 1 => n \in IndicesOf(journal, p)
  <2>1. /\ n \in Nat /\ c \in n..(n + 1) /\ Places(journal, p) = 1..c
        /\ c = n + 1 => n \in IndicesOf(journal, p)
    BY NumbersInARow
  <2> HIDE DEF n, c
  <2> QED BY <2>1
<1>1. steps = [k \in 1..c |-> items[k]]
  <2>1. PICK u : Walks(Places(journal, p), c, items, u) /\ steps = u[c]
    BY <1>0, StepsWalk
  <2> HIDE DEF c, items, steps
  <2>2. c \in 0..c /\ Places(journal, p) \cap (1..c) = 1..c
    BY <1>0
  <2>3. u[c] = [k \in 1..c |-> items[k]]
    BY <1>0, <2>1, <2>2, WalkAlong
  <2> QED BY <2>1, <2>3
<1>2. \A k \in 1..c : items[k] = StepAt(journal, p, k - 1)
  BY DEF Items
<1>3. DOMAIN steps = 1..c /\ Len(steps) = c /\ \A k \in 1..c : steps[k] = StepAt(journal, p, k - 1)
  <2> HIDE DEF c, items, steps
  <2> QED BY <1>0, <1>1, <1>2
<1>4. \A k \in 1..n : k \in 1..c /\ steps[k].call = history.opened[p][k] /\ steps[k].call \in Tools
  <2> SUFFICES ASSUME NEW k \in 1..n
               PROVE  k \in 1..c /\ steps[k].call = history.opened[p][k] /\ steps[k].call \in Tools
    OBVIOUS
  <2> HIDE DEF c, steps, items
  <2>1. k \in 1..c /\ k - 1 \in 0..(n - 1) /\ (k - 1) + 1 = k
    <3> HIDE DEF n
    <3> QED BY <1>0
  <2>2. StepAt(journal, p, k - 1).call = history.opened[p][(k - 1) + 1]
        /\ history.opened[p][(k - 1) + 1] \in Tools
    BY <2>1, StepIsOpened
  <2>3. steps[k].call = history.opened[p][(k - 1) + 1] /\ steps[k].call \in Tools
    BY <1>3, <2>1, <2>2
  <2> QED BY <2>1, <2>3
<1>5. c = n + 1 => steps[c].call = "message"
  <2> SUFFICES ASSUME c = n + 1 PROVE steps[c].call = "message"
    OBVIOUS
  <2>1. StepAt(journal, p, n).call = "message"
    BY <1>0, MessageIsLast
  <2>2. c \in 1..c /\ c - 1 = n
    <3> HIDE DEF c, n
    <3> QED BY <1>0
  <2>3. steps[c] = StepAt(journal, p, c - 1)
    <3> HIDE DEF c, steps
    <3> QED BY <1>3, <2>2
  <2> HIDE DEF c, n, steps
  <2> QED BY <2>1, <2>2, <2>3
<1>6. CallsAt(steps) = 1..n
  <2>0. "message" \notin Tools
    BY SpoolConstants
  <2> HIDE DEF c, steps, items, n
  <2>1. \A k \in 1..c : k \in 1..n \/ (k = c /\ c = n + 1)
    BY <1>0
  <2>2. \A k \in DOMAIN steps : steps[k].call \in Tools => k \in 1..n
    BY <1>3, <1>5, <2>0, <2>1
  <2>3. \A k \in 1..n : k \in DOMAIN steps /\ steps[k].call \in Tools
    BY <1>3, <1>4
  <2> QED BY <2>2, <2>3 DEF CallsAt
<1>7. ToolCalls(steps) = [k \in 1..n |-> steps[k]]
  <2> HIDE DEF c, items, n, steps
  <2>1. Len(steps) \in Nat
    BY <1>0, <1>3
  <2>2. PICK u : Walks(CallsAt(steps), Len(steps), steps, u) /\ ToolCalls(steps) = u[Len(steps)]
    BY <2>1, CallsWalk
  <2>3. n \in 0..Len(steps) /\ CallsAt(steps) \cap (1..Len(steps)) = 1..n
    BY <1>0, <1>3, <1>6
  <2>4. u[Len(steps)] = [k \in 1..n |-> steps[k]]
    BY <2>1, <2>2, <2>3, WalkAlong
  <2> QED BY <2>2, <2>4
<1> HIDE DEF steps, items, c, n
<1>8. /\ DOMAIN ToolCalls(steps) = 1..n /\ Len(ToolCalls(steps)) = n
      /\ \A k \in 1..n : ToolCalls(steps)[k] = steps[k]
  BY <1>0, <1>7
<1>9. \A k \in DOMAIN ToolCalls(steps) : ToolCalls(steps)[k].call = history.opened[p][k]
  BY <1>4, <1>8
<1> QED BY <1>8, <1>9 DEF n, steps

LEMMA RunsStart == Init => RunsAreWhole
<1> SUFFICES ASSUME Init PROVE RunsAreWhole
  OBVIOUS
<1>1. /\ journal = <<>> /\ \A f \in Flushers : flusher[f].queue = <<>>
      /\ \A p \in Turns : stored[p] = NotStored /\ history.opened[p] = <<>> /\ history.atClose[p] = 0
  BY DEF Init, Idle, Nothing
<1>2. ASSUME NEW p \in Turns PROVE OpensFollow(p)
  <2>1. OpensOf(p) = {} /\ Of(journal, p, {"step"}) = {} /\ Len(history.opened[p]) = 0
    BY <1>1 DEF OpensOf, Of
  <2>2. NextIndex(journal, p) = 0
    BY <2>1, FS_EmptySet DEF NextIndex, OpensOf
  <2>3. 0..(0 - 1) = {}
    OBVIOUS
  <2> QED BY <2>1, <2>2, <2>3 DEF OpensFollow
<1>3. \A p \in Turns : history.atClose[p] <= Len(history.opened[p])
  BY <1>1
<1>4. Received = {}
  BY <1>1 DEF Received
<1> QED BY <1>1, <1>2, <1>3, <1>4 DEF RunsAreWhole, Intact

\* What is known of the opened steps of a turn, and of the file, after a step.
Followed(j, past, p) ==
  LET n == Len(past.opened[p])
      opens == Of(j, p, {"step_open"})
  IN /\ NextIndex(j, p) = n
     /\ \A k \in opens : j[k].index < n /\ j[k].tool = past.opened[p][j[k].index + 1]
     /\ \A i \in 0..n - 1 : \E k \in opens : j[k].index = i
     /\ \A m \in Of(j, p, {"step"}) :
          /\ j[m].index <= n
          /\ \A k \in opens : j[k].index = j[m].index => m < k

LEMMA FollowedIs == \A p : OpensFollow(p) <=> Followed(journal, history, p)
BY DEF OpensFollow, OpensOf, Followed

\* A record that is not of a step of turn p leaves what is known of it.
LEMMA FollowedKept ==
  ASSUME NEW j \in Seq(JournalRecords), NEW r \in JournalRecords, NEW past, NEW past2,
         NEW p \in Turns, Followed(j, past, p), past2.opened[p] = past.opened[p],
         r.turn # p \/ r.kind \notin {"step_open", "step"}
  PROVE  Followed(Append(j, r), past2, p)
<1> DEFINE j2 == Append(j, r)
<1>1. Of(j2, p, {"step_open"}) = Of(j, p, {"step_open"})
  BY OfAppended
<1>2. Of(j2, p, {"step"}) = Of(j, p, {"step"})
  BY OfAppended
<1>3. NextIndex(j2, p) = NextIndex(j, p)
  BY <1>1 DEF NextIndex
<1>4. \A k \in Of(j, p, {"step_open"}) \cup Of(j, p, {"step"}) : j2[k] = j[k]
  <2>1. /\ Of(j, p, {"step_open"}) \in SUBSET (1..Len(j))
        /\ Of(j, p, {"step"}) \in SUBSET (1..Len(j))
    BY OfFinite
  <2> QED BY <2>1, Appended
<1> HIDE DEF j2
<1>5. Followed(j2, past2, p)
  BY <1>1, <1>2, <1>3, <1>4 DEF Followed
<1> QED BY <1>5 DEF j2

\* A step opened under the number that is next.
LEMMA FollowedByOpen ==
  ASSUME NEW j \in Seq(JournalRecords), NEW t \in Tools, NEW past, NEW past2,
         NEW p \in Turns, Followed(j, past, p), p = TurnOf[t], past.opened[p] \in Seq(Tools),
         past2.opened[p] = Append(past.opened[p], t),
         NEW i \in Nat, i = NextIndex(j, p)
  PROVE  Followed(Append(j, StepOpen(t, i)), past2, p)
<1> DEFINE r == StepOpen(t, i)
           j2 == Append(j, r)
           n == Len(past.opened[p])
           s == past.opened[p]
           O == Of(j, p, {"step_open"})
           M == Of(j, p, {"step"})
           l == Len(j) + 1
<1>0. r \in JournalRecords /\ r.kind = "step_open" /\ r.turn = p /\ r.tool = t /\ r.index = i
  BY RecordsMade
<1> HIDE DEF r
<1>1. Of(j2, p, {"step_open"}) = O \cup {l}
  BY <1>0, OfAppended
<1>2. Of(j2, p, {"step"}) = M
  BY <1>0, OfAppended
<1>3. NextIndex(j2, p) = n + 1 /\ n \in Nat /\ i = n
  <2>1. NextIndex(j2, p) = NextIndex(j, p) + 1 /\ NextIndex(j, p) \in Nat
    BY <1>0, OpensOneMore
  <2>2. NextIndex(j, p) = n
    BY DEF Followed
  <2> QED BY <2>1, <2>2
<1>4. /\ O \in SUBSET (1..Len(j)) /\ M \in SUBSET (1..Len(j)) /\ Len(j) \in Nat
      /\ \A k \in O : j[k].index \in Nat
      /\ \A m \in M : j[m].index \in Nat
  <2>1. /\ O \in SUBSET (1..Len(j)) /\ M \in SUBSET (1..Len(j)) /\ Len(j) \in Nat
    BY OfFinite
  <2>2. /\ \A k \in O : j[k] \in JournalRecords /\ j[k].kind = "step_open"
        /\ \A k \in M : j[k] \in JournalRecords /\ j[k].kind = "step"
    BY OfFinite
  <2> QED BY <2>1, <2>2, RecordsKnown
<1>5. j2[l] = r /\ \A k \in O \cup M : j2[k] = j[k]
  BY <1>0, <1>4, Appended
<1>6. /\ Len(past2.opened[p]) = n + 1 /\ past2.opened[p][n + 1] = t
      /\ \A k \in 1..n : past2.opened[p][k] = past.opened[p][k]
  <2>1. s \in Seq(Tools) /\ past2.opened[p] = Append(s, t)
    OBVIOUS
  <2> HIDE DEF s
  <2>2. /\ Len(Append(s, t)) = Len(s) + 1 /\ Append(s, t)[Len(s) + 1] = t
        /\ \A k \in 1..Len(s) : Append(s, t)[k] = s[k]
    BY <2>1
  <2>3. n = Len(s)
    BY DEF s
  <2>4. /\ Len(past2.opened[p]) = n + 1 /\ past2.opened[p][n + 1] = t
        /\ \A k \in 1..n : past2.opened[p][k] = s[k]
    BY <2>1, <2>2, <2>3
  <2> QED BY <2>4 DEF s
<1>7. /\ \A k \in O : j[k].index < n /\ j[k].tool = past.opened[p][j[k].index + 1]
      /\ \A e \in 0..n - 1 : \E k \in O : j[k].index = e
      /\ \A m \in M : /\ j[m].index <= n
                      /\ \A k \in O : j[k].index = j[m].index => m < k
  BY DEF Followed
<1> HIDE DEF j2, n, O, M, l, s
<1>8. ASSUME NEW k \in O \cup {l}
      PROVE  j2[k].index < n + 1 /\ j2[k].tool = past2.opened[p][j2[k].index + 1]
  <2>1. CASE k = l
    BY <1>0, <1>3, <1>5, <1>6, <2>1
  <2>2. CASE k \in O
    <3>1. j2[k] = j[k] /\ j[k].index \in Nat /\ j[k].index < n
      BY <1>4, <1>5, <1>7, <2>2
    <3>2. j[k].index + 1 \in 1..n /\ j[k].index < n + 1
      BY <1>3, <3>1
    <3>3. j[k].tool = past2.opened[p][j[k].index + 1]
      BY <1>6, <1>7, <2>2, <3>2
    <3> QED BY <3>1, <3>2, <3>3
  <2> QED BY <2>1, <2>2
<1>9. ASSUME NEW e \in 0..(n + 1) - 1 PROVE \E k \in O \cup {l} : j2[k].index = e
  <2>1. CASE e = n
    BY <1>0, <1>3, <1>5, <2>1
  <2>2. CASE e # n
    <3>1. e \in 0..n - 1
      BY <1>3, <2>2
    <3>2. PICK k \in O : j[k].index = e
      BY <1>7, <3>1
    <3> QED BY <1>5, <3>2
  <2> QED BY <2>1, <2>2
<1>10. ASSUME NEW m \in M
       PROVE  /\ j2[m].index <= n + 1
              /\ \A k \in O \cup {l} : j2[k].index = j2[m].index => m < k
  <2>1. j2[m] = j[m] /\ j[m].index \in Nat /\ j[m].index <= n + 1
    BY <1>3, <1>4, <1>5, <1>7
  <2>2. m < l
    BY <1>4 DEF l
  <2>3. \A k \in O : j2[k] = j[k]
    BY <1>5
  <2> QED BY <1>7, <2>1, <2>2, <2>3
<1>11. Followed(j2, past2, p)
  <2> DEFINE n2 == Len(past2.opened[p])
             opens == Of(j2, p, {"step_open"})
  <2>1. NextIndex(j2, p) = n2 /\ n2 = n + 1 /\ opens = O \cup {l}
    BY <1>1, <1>3, <1>6
  <2>2. \A k \in opens : j2[k].index < n2 /\ j2[k].tool = past2.opened[p][j2[k].index + 1]
    <3> HIDE DEF n2, opens
    <3> QED BY <2>1, <1>8
  <2>3. \A e \in 0..n2 - 1 : \E k \in opens : j2[k].index = e
    <3> HIDE DEF n2, opens
    <3> QED BY <2>1, <1>9
  <2>4. \A m \in Of(j2, p, {"step"}) :
          /\ j2[m].index <= n2
          /\ \A k \in opens : j2[k].index = j2[m].index => m < k
    <3> HIDE DEF n2, opens
    <3> QED BY <2>1, <1>2, <1>10
  <2> QED BY <2>1, <2>2, <2>3, <2>4 DEF Followed
<1> QED BY <1>11 DEF j2, r

\* The last message under the number after the steps.
LEMMA FollowedByMessage ==
  ASSUME NEW j \in Seq(JournalRecords), NEW past, NEW past2, NEW p \in Turns, Followed(j, past, p),
         past2.opened[p] = past.opened[p], NEW i \in Nat, i = NextIndex(j, p)
  PROVE  Followed(Append(j, Message(p, i)), past2, p)
<1> DEFINE r == Message(p, i)
           j2 == Append(j, r)
           n == Len(past.opened[p])
           O == Of(j, p, {"step_open"})
           M == Of(j, p, {"step"})
           l == Len(j) + 1
<1>0. r \in JournalRecords /\ r.kind = "step" /\ r.turn = p /\ r.index = i
  BY RecordsMade
<1> HIDE DEF r
<1>1. Of(j2, p, {"step_open"}) = O
  BY <1>0, OfAppended
<1>2. Of(j2, p, {"step"}) = M \cup {l}
  BY <1>0, OfAppended
<1>3. NextIndex(j2, p) = n /\ i = n /\ n \in Nat
  <2>1. NextIndex(j, p) = n
    BY DEF Followed
  <2> QED BY <2>1, <1>1 DEF NextIndex
<1>4. O \in SUBSET (1..Len(j)) /\ M \in SUBSET (1..Len(j)) /\ Len(j) \in Nat
  BY OfFinite
<1>5. j2[l] = r /\ \A k \in O \cup M : j2[k] = j[k]
  BY <1>0, <1>4, Appended
<1>6. /\ \A k \in O : j[k].index < n /\ j[k].tool = past.opened[p][j[k].index + 1]
      /\ \A e \in 0..n - 1 : \E k \in O : j[k].index = e
      /\ \A m \in M : /\ j[m].index <= n
                      /\ \A k \in O : j[k].index = j[m].index => m < k
  BY DEF Followed
<1>7. \A k \in O : j[k].index \in Nat
  <2>1. \A k \in O : j[k] \in JournalRecords /\ j[k].kind = "step_open"
    BY OfFinite
  <2> QED BY <2>1, RecordsKnown
<1>n. Len(past2.opened[p]) = n
  OBVIOUS
<1> HIDE DEF j2, n, O, M, l
<1>8. \A k \in O : j2[k].index < n /\ j2[k].tool = past2.opened[p][j2[k].index + 1]
  BY <1>5, <1>6
<1>9. \A e \in 0..n - 1 : \E k \in O : j2[k].index = e
  BY <1>5, <1>6
<1>10. ASSUME NEW m \in M \cup {l}
       PROVE  /\ j2[m].index <= n
              /\ \A k \in O : j2[k].index = j2[m].index => m < k
  <2>1. CASE m = l
    <3>1. j2[m].index = n /\ n <= n
      BY <1>0, <1>3, <1>5, <2>1
    <3>2. ASSUME NEW k \in O PROVE j2[k].index # n
      <4>1. j[k].index < n /\ j[k].index \in Nat /\ j2[k] = j[k]
        BY <1>5, <1>6, <1>7
      <4> QED BY <1>3, <4>1
    <3> QED BY <3>1, <3>2
  <2>2. CASE m \in M
    BY <1>5, <1>6, <2>2
  <2> QED BY <2>1, <2>2
<1>11. Followed(j2, past2, p)
  BY <1>1, <1>2, <1>3, <1>n, <1>8, <1>9, <1>10 DEF Followed
<1> QED BY <1>11 DEF j2, r

\* What a step adds to the past of a turn.
PastMoves(p) ==
  /\ \/ history'.opened[p] = history.opened[p]
     \/ \E t \in Tools : history'.opened[p] = Append(history.opened[p], t)
  /\ \/ history'.atClose[p] = history.atClose[p]
     \/ /\ ~IsClosed(journal, p) /\ history'.atClose[p] = Len(history.opened[p])
        /\ history'.opened[p] = history.opened[p]
        /\ p \in history.erased => p \in history'.cut
  /\ history.raced \subseteq history'.raced
  /\ history.cut \subseteq history'.cut

LEMMA OpenedPast ==
  ASSUME SpoolTyped, NEW t \in Tools, OpenStep(t)
  PROVE  LET q == TurnOf[t]
         IN /\ history'.opened = [history.opened EXCEPT ![q] = Append(@, t)]
            /\ history'.raced = (IF index[t] = NextIndex(journal, q) THEN history.raced
                                 ELSE history.raced \cup {q})
            /\ history'.atClose = history.atClose /\ history'.erased = history.erased
            /\ history'.cut = Cut(q) /\ q \in Turns
            /\ journal' = Append(journal, StepOpen(t, index[t]))
<1>1. history \in Histories /\ TurnOf[t] \in Turns
  BY SpoolConstants DEF SpoolTyped
<1> QED BY <1>1 DEF OpenStep, Append1, Histories

LEMMA ReturnedPast ==
  ASSUME SpoolTyped, NEW t \in Tools, NEW status \in {"ok", "error"}, CloseStep(t, status)
  PROVE  /\ history'.opened = history.opened /\ history'.raced = history.raced
         /\ history'.atClose = history.atClose
         /\ history'.cut = Cut(TurnOf[t])
<1>1. history \in Histories
  BY DEF SpoolTyped
<1> QED BY <1>1 DEF CloseStep, Histories

LEMMA SaidPast ==
  ASSUME SpoolTyped, Say
  PROVE  LET i == NextIndex(hook["stop"].view, turn)
         IN /\ history'.opened = history.opened
            /\ history'.raced = (IF i = NextIndex(journal, turn) THEN history.raced
                                 ELSE history.raced \cup {turn})
            /\ history'.atClose = history.atClose /\ history'.cut = Cut(turn)
            /\ journal' = Append(journal, Message(turn, i))
<1>1. history \in Histories
  BY DEF SpoolTyped
<1> QED BY <1>1 DEF Say, Append1, Histories

LEMMA ThePastMoves ==
  ASSUME SpoolShape, Next, NEW p \in Turns PROVE PastMoves(p)
<1>0. SpoolTyped /\ history.opened \in [Turns -> Seq(Tools)] /\ history.atClose \in [Turns -> Nat]
  BY DEF SpoolShape, SpoolTyped, Histories
<1>1. CASE Quiet \/ Begun \/ Removed \/ Overfilled
  BY <1>1 DEF Quiet, Begun, Removed, Overfilled, HistoryKept, PastMoves
<1>2. CASE Opened
  <2>1. PICK t \in Tools : OpenStep(t)
    BY <1>2 DEF Opened
  <2> DEFINE q == TurnOf[t]
  <2>2. /\ history'.opened = [history.opened EXCEPT ![q] = Append(@, t)]
        /\ history.raced \subseteq history'.raced
        /\ history'.atClose = history.atClose
    BY <1>0, <2>1, OpenedPast
  <2>3. \/ history'.opened[p] = history.opened[p]
        \/ history'.opened[p] = Append(history.opened[p], t)
    <3> HIDE DEF q
    <3> QED BY <1>0, <2>2
  <2> HIDE DEF q
  <2> QED BY <2>2, <2>3, MarksGrow DEF PastMoves
<1>3. CASE Returned
  <2>1. PICK t \in Tools, status \in {"ok", "error"} : CloseStep(t, status)
    BY <1>3 DEF Returned
  <2> QED BY <1>0, <2>1, ReturnedPast, MarksGrow DEF PastMoves
<1>4. CASE Said
  BY <1>0, <1>4, SaidPast, MarksGrow DEF Said, PastMoves
<1>5. CASE \E h \in Closers : Closed(h)
  <2>1. PICK h \in Closers : Closed(h)
    BY <1>5
  <2> DEFINE q == Head(hook[h].todo)
  <2>2. /\ history'.opened = history.opened /\ history'.raced = history.raced
        /\ history'.cut = Cut(q) /\ q \in Turns
        /\ history'.atClose = [history.atClose EXCEPT
             ![q] = IF IsClosed(journal, q) THEN @ ELSE Len(history.opened[q])]
    BY <2>1 DEF Closed
  <2> HIDE DEF q
  <2>3. CASE p = q
    <3>1. history'.atClose[p] = IF IsClosed(journal, p) THEN history.atClose[p]
                                ELSE Len(history.opened[p])
      BY <1>0, <2>2, <2>3
    <3>2. p \in history.erased => p \in history'.cut
      BY <2>2, <2>3 DEF Cut
    <3> QED BY <2>2, <3>1, <3>2, MarksGrow DEF PastMoves
  <2>4. CASE p # q
    BY <1>0, <2>2, <2>4, MarksGrow DEF PastMoves
  <2> QED BY <2>3, <2>4
<1> QED BY <1>1, <1>2, <1>3, <1>4, <1>5, StepsOfTheFile

LEMMA GoneStaysGone ==
  ASSUME SpoolShape, Next, NEW p \in Turns, ClosedOrGone(p) PROVE ClosedOrGone(p)'
<1>0. journal \in Seq(JournalRecords)
  BY DEF SpoolShape, SpoolTyped
<1>1. CASE p \in history.erased
  BY <1>1, MarksGrow DEF ClosedOrGone
<1>2. CASE IsClosed(journal, p)
  <2>1. CASE journal' = journal
    BY <1>2, <2>1 DEF ClosedOrGone
  <2>2. ASSUME NEW r \in JournalRecords, journal' = Append(journal, r) PROVE ClosedOrGone(p)'
    <3>1. IsClosed(Append(journal, r), p)
      BY <1>0, <1>2, CloseAppended
    <3> QED BY <2>2, <3>1 DEF ClosedOrGone
  <2>3. CASE Removed
    <3>1. \E k \in DOMAIN journal : journal[k].turn = p
      BY <1>2 DEF IsClosed, Of
    <3> QED BY <2>3, <3>1 DEF Removed, ClosedOrGone
  <2>4. CASE Opened \/ Returned \/ Said
    <3>1. PICK r \in JournalRecords : Worked(r)
      BY <2>4, WorkedRecord
    <3> QED BY <2>2, <3>1 DEF Worked
  <2>5. CASE Begun
    <3>1. SegmentOpen(turn) \in JournalRecords /\ journal' = Append(journal, SegmentOpen(turn))
      BY <2>5, RecordsMade DEF Begun
    <3> QED BY <2>2, <3>1
  <2>6. CASE \E h \in Closers : Closed(h)
    <3>1. PICK h \in Closers : Closed(h)
      BY <2>6
    <3>2. /\ SegmentClose(Head(hook[h].todo), hook[h].label) \in JournalRecords
          /\ journal' = Append(journal, SegmentClose(Head(hook[h].todo), hook[h].label))
      BY <3>1, RecordsMade DEF Closed
    <3> QED BY <2>2, <3>2
  <2>7. CASE Overfilled
    BY <2>2, <2>7, RecordsMade DEF Overfilled
  <2> QED BY <2>1, <2>3, <2>4, <2>5, <2>6, <2>7, StepsOfTheFile DEF Quiet
<1> QED BY <1>1, <1>2 DEF ClosedOrGone

LEMMA CallsAreASequence ==
  ASSUME NEW steps \in Seq(StepRows)
  PROVE  LET calls == ToolCalls(steps)
         IN Len(calls) \in Nat /\ DOMAIN calls = 1..Len(calls)
<1>1. Len(steps) \in Nat
  OBVIOUS
<1> DEFINE n == Len(steps)
           A == Picked(CallsAt(steps), n, steps)
<1>2. PICK u : Walks(CallsAt(steps), n, steps, u) /\ ToolCalls(steps) = u[n]
  BY <1>1, CallsWalk
<1>3. u[n] \in Seq(A)
  BY <1>1, <1>2, WalkCollects
<1> HIDE DEF n, A
<1>4. ToolCalls(steps) \in Seq(A)
  BY <1>2, <1>3
<1> QED BY <1>4

\* A whole run stays whole: what is closed is not closed for a first time, and the list of
\* opened steps is only added to.
LEMMA WholeKept ==
  ASSUME SpoolShape, Next, NEW parcel \in SpooledRuns, ClosedOrGone(parcel.turn),
         parcel.turn \notin history'.cut, WholeRun(parcel, history)
  PROVE  WholeRun(parcel, history')
<1> DEFINE p == parcel.turn
           calls == ToolCalls(parcel.steps)
           s == history.opened[p]
           s2 == history'.opened[p]
<1>0. p \in Turns
  BY DEF SpooledRuns
<1>1. s \in Seq(Tools)
  BY <1>0 DEF SpoolShape, SpoolTyped, Histories
<1>2. s2 = s \/ \E t \in Tools : s2 = Append(s, t)
  BY <1>0, ThePastMoves DEF PastMoves
<1>3. history'.atClose[p] = history.atClose[p]
  BY <1>0, ThePastMoves DEF PastMoves, ClosedOrGone
<1>4. /\ Len(calls) >= history.atClose[p] /\ Len(calls) <= Len(s)
      /\ \A k \in DOMAIN calls : calls[k].call = s[k]
  BY DEF WholeRun
<1>5. DOMAIN calls = 1..Len(calls) /\ Len(calls) \in Nat
  <2>1. parcel.steps \in Seq(StepRows)
    BY DEF SpooledRuns
  <2> QED BY <2>1, CallsAreASequence
<1> HIDE DEF calls, s, s2
<1>6. Len(s) <= Len(s2) /\ \A k \in 1..Len(s) : s2[k] = s[k]
  BY <1>1, <1>2
<1>7. Len(calls) <= Len(s2) /\ \A k \in DOMAIN calls : calls[k].call = s2[k]
  <2>1. Len(s) \in Nat /\ Len(s2) \in Nat
    BY <1>1, <1>2
  <2> QED BY <1>4, <1>5, <1>6, <2>1
<1>8. WholeRun(parcel, history')
  BY <1>3, <1>4, <1>7 DEF WholeRun, calls, s2
<1> QED BY <1>8

LEMMA IntactShrinks == ASSUME SpoolShape, Next PROVE Intact' \subseteq Intact
<1>1. ASSUME NEW p \in Intact' PROVE p \in Intact
  <2>1. p \in Turns /\ p \notin history'.raced /\ p \notin history'.cut /\ p \notin history'.erased
    BY <1>1 DEF Intact
  <2>2. history.raced \subseteq history'.raced
    BY <2>1, ThePastMoves DEF PastMoves
  <2> QED BY <2>1, <2>2, MarksGrow DEF Intact
<1> QED BY <1>1

LEMMA IntactFollow ==
  ASSUME SpoolShape, Next, NEW p \in Intact', Followed(journal, history, p)
  PROVE  Followed(journal', history', p)
<1>0. /\ SpoolTyped /\ journal \in Seq(JournalRecords) /\ p \in Turns
      /\ history.opened \in [Turns -> Seq(Tools)] /\ index \in [Tools -> Nat]
  BY DEF SpoolShape, SpoolTyped, Histories, Intact
<1>1. CASE Quiet
  BY <1>1 DEF Quiet, HistoryKept, Followed
<1>2. CASE Begun
  <2> DEFINE r == SegmentOpen(turn)
  <2>1. /\ r \in JournalRecords /\ r.kind = "segment_open" /\ journal' = Append(journal, r)
        /\ history'.opened[p] = history.opened[p]
    BY <1>2, RecordsMade DEF Begun, HistoryKept
  <2> HIDE DEF r
  <2>2. Followed(Append(journal, r), history', p)
    BY <1>0, <2>1, FollowedKept
  <2> QED BY <2>1, <2>2
<1>3. CASE \E h \in Closers : Closed(h)
  <2>1. PICK h \in Closers : Closed(h)
    BY <1>3
  <2> DEFINE r == SegmentClose(Head(hook[h].todo), hook[h].label)
  <2>2. /\ r \in JournalRecords /\ r.kind = "segment_close" /\ journal' = Append(journal, r)
        /\ history'.opened[p] = history.opened[p]
    BY <2>1, RecordsMade DEF Closed
  <2> HIDE DEF r
  <2>3. Followed(Append(journal, r), history', p)
    BY <1>0, <2>2, FollowedKept
  <2> QED BY <2>2, <2>3
<1>4. CASE Returned
  <2>1. PICK t \in Tools, status \in {"ok", "error"} :
          CloseStep(t, status) /\ Worked(StepClose(t, status))
    BY <1>4 DEF Returned
  <2> DEFINE r == StepClose(t, status)
  <2>2. r \in JournalRecords /\ r.kind = "step_close" /\ journal' = Append(journal, r)
    BY <2>1, RecordsMade DEF Worked
  <2>3. history'.opened[p] = history.opened[p]
    BY <1>0, <2>1, ReturnedPast
  <2> HIDE DEF r
  <2>4. Followed(Append(journal, r), history', p)
    BY <1>0, <2>2, <2>3, FollowedKept
  <2> QED BY <2>2, <2>4
<1>5. CASE Opened
  <2>1. PICK t \in Tools : OpenStep(t)
    BY <1>5 DEF Opened
  <2> DEFINE q == TurnOf[t]
             i == index[t]
             r == StepOpen(t, i)
  <2>2. /\ history'.opened = [history.opened EXCEPT ![q] = Append(@, t)]
        /\ history'.raced = (IF i = NextIndex(journal, q) THEN history.raced
                             ELSE history.raced \cup {q})
        /\ journal' = Append(journal, r) /\ q \in Turns
    BY <1>0, <2>1, OpenedPast
  <2>3. i \in Nat /\ r \in JournalRecords /\ r.turn = q
    BY <1>0, RecordsMade
  <2>4. CASE p = q
    <3>1. p \notin history'.raced
      BY DEF Intact
    <3>2. i = NextIndex(journal, p)
      BY <2>2, <2>4, <3>1
    <3>3. history'.opened[p] = Append(history.opened[p], t) /\ history.opened[p] \in Seq(Tools)
      BY <1>0, <2>2, <2>4
    <3>4. Followed(Append(journal, StepOpen(t, i)), history', p)
      <4> HIDE DEF i
      <4> QED BY <1>0, <2>3, <2>4, <3>2, <3>3, FollowedByOpen
    <3> QED BY <2>2, <3>4
  <2>5. CASE p # q
    <3>1. history'.opened[p] = history.opened[p]
      BY <1>0, <2>2, <2>5
    <3> HIDE DEF r
    <3>2. Followed(Append(journal, r), history', p)
      BY <1>0, <2>3, <2>5, <3>1, FollowedKept
    <3> QED BY <2>2, <3>2
  <2> QED BY <2>4, <2>5
<1>6. CASE Said
  <2> DEFINE i == NextIndex(hook["stop"].view, turn)
             r == Message(turn, i)
  <2>1. /\ history'.opened = history.opened
        /\ history'.raced = (IF i = NextIndex(journal, turn) THEN history.raced
                             ELSE history.raced \cup {turn})
        /\ journal' = Append(journal, r) /\ turn \in Turns /\ i \in Nat
    BY <1>0, <1>6, SaidPast DEF Said
  <2> HIDE DEF i
  <2>2. r \in JournalRecords /\ r.turn = turn
    BY <2>1, RecordsMade
  <2>3. CASE p = turn
    <3>1. p \notin history'.raced
      BY DEF Intact
    <3>2. i = NextIndex(journal, p)
      BY <2>1, <2>3, <3>1
    <3>3. Followed(Append(journal, Message(p, i)), history', p)
      BY <1>0, <2>1, <3>2, FollowedByMessage
    <3> QED BY <2>1, <2>3, <3>3
  <2>4. CASE p # turn
    <3> HIDE DEF r
    <3>1. Followed(Append(journal, r), history', p)
      BY <1>0, <2>1, <2>2, <2>4, FollowedKept
    <3> QED BY <2>1, <3>1
  <2> QED BY <2>3, <2>4
<1>7. CASE Removed
  <2>1. p \notin history'.erased
    BY DEF Intact
  <2>2. \A k \in DOMAIN journal : journal[k].turn # p
    BY <1>7, <2>1 DEF Removed
  <2>3. \A kinds : Of(journal, p, kinds) = {} /\ Of(<<>>, p, kinds) = {}
    BY <2>2 DEF Of
  <2>4. NextIndex(<<>>, p) = NextIndex(journal, p)
    BY <2>3 DEF NextIndex
  <2>5. journal' = <<>> /\ history'.opened[p] = history.opened[p]
    BY <1>7 DEF Removed
  <2>6. Followed(<<>>, history', p)
    BY <2>3, <2>4, <2>5 DEF Followed
  <2> QED BY <2>5, <2>6
<1>8. CASE Overfilled
  <2>1. PICK r \in JournalRecords : r.kind = "overlong" /\ journal' = Append(journal, r)
    BY <1>8, RecordsMade DEF Overfilled
  <2>2. history'.opened[p] = history.opened[p]
    BY <1>8 DEF Overfilled
  <2>3. Followed(Append(journal, r), history', p)
    BY <1>0, <2>1, <2>2, FollowedKept
  <2> QED BY <2>1, <2>3
<1> QED BY <1>1, <1>2, <1>3, <1>4, <1>5, <1>6, <1>7, <1>8, StepsOfTheFile

\* What List assembles of a turn in which no number was taken twice is all there is of it.
LEMMA AssembledWhole ==
  ASSUME SpoolShape, ErasedAreGone, RunsAreWhole, NEW parcel, Assembled(parcel),
         parcel.turn \notin history.raced \cup history.cut
  PROVE  WholeRun(parcel, history)
<1>1. PICK p \in Turns : IsClosed(journal, p) /\ parcel = Run(journal, p)
  BY DEF Assembled
<1>2. parcel.turn = p /\ parcel.steps = Steps(journal, p)
  BY <1>1 DEF Run
<1>3. p \notin history.erased
  <2>1. \E k \in DOMAIN journal : journal[k].turn = p /\ journal[k].kind = "segment_close"
    BY <1>1 DEF IsClosed, Of
  <2> QED BY <1>2, <2>1 DEF ErasedAreGone, Of
<1>4. OpensFollow(p)
  BY <1>2, <1>3 DEF RunsAreWhole, Intact
<1> DEFINE calls == ToolCalls(Steps(journal, p))
<1>5. /\ Len(calls) = Len(history.opened[p])
      /\ \A k \in DOMAIN calls : calls[k].call = history.opened[p][k]
  BY <1>4, CallsAreTheOpened
<1>6. history.atClose[p] <= Len(history.opened[p])
  BY DEF RunsAreWhole
<1>7. Len(history.opened[p]) \in Nat
  <2>1. history.opened[p] \in Seq(Tools)
    BY DEF SpoolShape, SpoolTyped, Histories
  <2> QED BY <2>1
<1>8. Len(calls) >= history.atClose[p] /\ Len(calls) <= Len(history.opened[p])
  <2>1. history.atClose[p] \in Nat
    BY DEF SpoolShape, SpoolTyped, Histories
  <2> HIDE DEF calls
  <2> QED BY <1>5, <1>6, <1>7, <2>1
<1> QED BY <1>2, <1>5, <1>8 DEF WholeRun

LEMMA RunsStay ==
  ASSUME SpoolShape, ErasedAreGone, RunsAreWhole, Next PROVE RunsAreWhole'
<1>0. SpoolTyped
  BY DEF SpoolShape
<1>1. ASSUME NEW p \in Intact' PROVE OpensFollow(p)'
  <2>1. Followed(journal, history, p)
    BY IntactShrinks, FollowedIs DEF RunsAreWhole
  <2>2. Followed(journal', history', p)
    BY <2>1, IntactFollow
  <2> QED BY <2>2 DEF OpensFollow, OpensOf, Followed
<1>2. ASSUME NEW p \in Turns PROVE history'.atClose[p] <= Len(history'.opened[p])
  <2> DEFINE s == history.opened[p]
             s2 == history'.opened[p]
  <2>1. s \in Seq(Tools) /\ history.atClose[p] \in Nat /\ history.atClose[p] <= Len(s)
    BY DEF SpoolShape, SpoolTyped, Histories, RunsAreWhole
  <2>2. s2 = s \/ \E t \in Tools : s2 = Append(s, t)
    BY ThePastMoves DEF PastMoves
  <2>3. \/ history'.atClose[p] = history.atClose[p]
        \/ history'.atClose[p] = Len(s) /\ s2 = s
    BY ThePastMoves DEF PastMoves
  <2> HIDE DEF s, s2
  <2>4. Len(s) \in Nat /\ Len(s2) \in Nat /\ Len(s) <= Len(s2)
    BY <2>1, <2>2
  <2>5. history'.atClose[p] <= Len(s2)
    BY <2>1, <2>3, <2>4
  <2> QED BY <2>5 DEF s2
<1>a. /\ history.raced \subseteq history'.raced /\ history.cut \subseteq history'.cut
  <2>1. ASSUME NEW p \in Turns PROVE history.raced \subseteq history'.raced
    BY ThePastMoves DEF PastMoves
  <2>2. history.raced \in SUBSET Turns
    BY DEF SpoolShape, SpoolTyped, Histories
  <2> QED BY <2>1, <2>2, MarksGrow
\* A run that was in a queue or has just been assembled.
<1>3. ASSUME NEW parcel, (\E f \in Flushers : InQueue(f, parcel)) \/ Assembled(parcel)
      PROVE  /\ parcel \in SpooledRuns /\ ClosedOrGone(parcel.turn)
             /\ parcel.turn \notin history.raced \cup history.cut => WholeRun(parcel, history)
  <2>1. CASE \E f \in Flushers : InQueue(f, parcel)
    <3>0. PICK f \in Flushers : InQueue(f, parcel)
      BY <2>1
    <3>1. PICK k \in DOMAIN flusher[f].queue : flusher[f].queue[k] = parcel
      BY <3>0 DEF InQueue
    <3>2. flusher[f].queue \in Seq(SpooledRuns)
      BY <1>0, RowsOfFlushers
    <3>3. parcel \in SpooledRuns
      BY <3>1, <3>2
    <3> QED BY <3>1, <3>3 DEF RunsAreWhole
  <2>2. CASE Assembled(parcel)
    <3>1. PICK p \in Turns : IsClosed(journal, p) /\ parcel = Run(journal, p)
      BY <2>2 DEF Assembled
    <3>2. parcel \in SpooledRuns /\ parcel.turn = p
      BY <1>0, <3>1, RunTyped DEF SpoolTyped
    <3> QED BY <2>2, <3>1, <3>2, AssembledWhole DEF ClosedOrGone
  <2> QED BY <1>3, <2>1, <2>2
<1>4. ASSUME NEW parcel, (\E f \in Flushers : InQueue(f, parcel)) \/ Assembled(parcel)
      PROVE  /\ ClosedOrGone(parcel.turn)'
             /\ parcel.turn \notin history'.raced \cup history'.cut => WholeRun(parcel, history')
  <2>1. /\ parcel \in SpooledRuns /\ ClosedOrGone(parcel.turn)
        /\ parcel.turn \notin history.raced \cup history.cut => WholeRun(parcel, history)
    BY <1>3, <1>4
  <2>2. parcel.turn \in Turns
    BY <2>1 DEF SpooledRuns
  <2>3. ClosedOrGone(parcel.turn)'
    BY <2>1, <2>2, GoneStaysGone
  <2>4. ASSUME parcel.turn \notin history'.raced \cup history'.cut PROVE WholeRun(parcel, history')
    BY <1>a, <2>1, <2>4, WholeKept
  <2> QED BY <2>3, <2>4
<1>5. ASSUME NEW f \in Flushers, NEW k \in DOMAIN flusher'[f].queue
      PROVE  LET parcel == flusher'[f].queue[k]
             IN /\ IsClosed(journal', parcel.turn) \/ parcel.turn \in history'.erased
                /\ parcel.turn \notin history'.raced \cup history'.cut => WholeRun(parcel, history')
  <2>1. PICK parcel : parcel = flusher'[f].queue[k]
    OBVIOUS
  <2>2. InQueue(f, parcel) \/ Assembled(parcel)
    <3>1. InQueue(f, flusher'[f].queue[k]) \/ Assembled(flusher'[f].queue[k])
      BY QueuesMove
    <3> QED BY <2>1, <3>1 DEF InQueue, Assembled
  <2>3. /\ ClosedOrGone(parcel.turn)'
        /\ parcel.turn \notin history'.raced \cup history'.cut => WholeRun(parcel, history')
    BY <2>2, <1>4
  <2> QED BY <2>1, <2>3 DEF ClosedOrGone
<1>6. ASSUME NEW p \in Turns, stored'[p] # NotStored
      PROVE  /\ IsClosed(journal', p) \/ p \in history'.erased
             /\ p \notin history'.raced \cup history'.cut => WholeRun(stored'[p], history')
  <2>1. PICK parcel : parcel = stored'[p]
    OBVIOUS
  <2>2. CASE stored'[p] = stored[p]
    <3>0. parcel = stored[p] /\ parcel # NotStored
      BY <1>6, <2>1, <2>2
    <3>1. parcel \in SpooledRuns /\ parcel.turn = p
      BY <1>0, <3>0 DEF SpoolTyped
    <3>2. /\ ClosedOrGone(p)
          /\ p \notin history.raced \cup history.cut => WholeRun(parcel, history)
      BY <3>0 DEF RunsAreWhole, Received
    <3>3. ClosedOrGone(p)'
      BY <3>2, GoneStaysGone
    <3>4. ASSUME p \notin history'.raced \cup history'.cut PROVE WholeRun(parcel, history')
      BY <1>a, <3>1, <3>2, <3>4, WholeKept
    <3> QED BY <2>1, <3>3, <3>4 DEF ClosedOrGone
  <2>3. CASE stored'[p] # stored[p]
    <3>1. parcel.turn = p /\ \E f \in Flushers : InQueue(f, parcel)
      BY <2>1, <2>3, StoredMoves DEF InQueue
    <3>2. /\ ClosedOrGone(parcel.turn)'
          /\ parcel.turn \notin history'.raced \cup history'.cut => WholeRun(parcel, history')
      BY <3>1, <1>4
    <3> QED BY <2>1, <3>1, <3>2 DEF ClosedOrGone
  <2> QED BY <2>2, <2>3
<1> QED BY <1>1, <1>2, <1>5, <1>6 DEF RunsAreWhole, Received, ClosedOrGone

LEMMA WholeShips == SpoolShape /\ RunsAreWhole => ShippedRunIsWhole
<1> SUFFICES ASSUME SpoolShape, RunsAreWhole, NEW p \in Received \ (history.raced \cup history.cut)
             PROVE  LET calls == ToolCalls(stored[p].steps)
                    IN /\ Len(calls) >= history.atClose[p]
                       /\ Len(calls) <= Len(history.opened[p])
                       /\ \A k \in DOMAIN calls : calls[k].call = history.opened[p][k]
  BY DEF ShippedRunIsWhole
<1>1. stored[p].turn = p
  BY DEF SpoolShape, SpoolTyped, Received
<1>2. WholeRun(stored[p], history)
  BY DEF RunsAreWhole
<1> QED BY <1>1, <1>2 DEF WholeRun

-------------------------------------------------------------------------------
LEMMA SpoolInductiveStarts == Init => SpoolInductive
BY SpoolStarts, FlushersStart, CountStarts, ErasedStart, LabelsStart, RunsStart DEF SpoolInductive

LEMMA SpoolInductiveStays == SpoolInductive /\ [Next]_vars => SpoolInductive'
<1> SUFFICES ASSUME SpoolInductive, [Next]_vars PROVE SpoolInductive'
  OBVIOUS
<1>1. /\ SpoolShape /\ FlushersStand /\ ConfirmationsCounted /\ ErasedAreGone /\ LabelsFit
      /\ RunsAreWhole
  BY DEF SpoolInductive
<1>2. SpoolShape' /\ FlushersStand' /\ ConfirmationsCounted' /\ ErasedAreGone' /\ LabelsFit'
  BY <1>1, ShapeStays, FlushersStay, CountStays, ErasedStay, LabelsStay
<1>3. RunsAreWhole'
  <2>1. CASE Next
    BY <1>1, <2>1, RunsStay
  <2>2. CASE UNCHANGED vars
    BY <1>1, <2>2, StandStill DEF RunsAreWhole, Intact, OpensFollow, OpensOf, ClosedOrGone, Received
  <2> QED BY <2>1, <2>2
<1> QED BY <1>2, <1>3 DEF SpoolInductive

LEMMA SpoolInductiveHolds == Spec => []SpoolInductive
BY SpoolInductiveStarts, SpoolInductiveStays, PTL DEF Spec

\* The spool and its sidecar: types hold, a turn in the sidecar has been taken or refused by
\* the server, and the outcome the server has of a turn is that of the steps it has, although
\* a hook judged the one and a flusher assembled the others.
THEOREM SpoolStands == Spec => []SpoolInvariant
<1>1. SpoolInductive => SpoolInvariant
  BY ShapeIsTyped DEF SpoolInductive, FlushersStand, LabelsFit, SpoolInvariant
<1> QED BY <1>1, SpoolInductiveHolds, PTL

\* A confirmation closes one turn, unless two hooks saw its marker, whatever hook is killed.
THEOREM ConfirmsOneTurn == Spec => []OneTurnPerConfirmation
<1>1. SpoolInductive => OneTurnPerConfirmation
  <2> SUFFICES ASSUME SpoolInductive, ~history.shared
               PROVE  Cardinality(history.confirmed) <= history.dones
    BY DEF OneTurnPerConfirmation
  <2>1. SpoolTyped
    BY DEF SpoolInductive, SpoolShape
  <2> DEFINE c == Cardinality(history.confirmed)
             w == Cardinality(Confirming)
             m == IF marker THEN 1 ELSE 0
  <2>2. c \in Nat /\ w \in Nat /\ m \in Nat /\ history.dones \in Nat
    BY <2>1, ConfirmingFinite, ConfirmedFinite
  <2>3. c + w + m <= history.dones
    BY DEF SpoolInductive, ConfirmationsCounted
  <2> HIDE DEF c, w, m
  <2>4. c <= history.dones
    BY <2>2, <2>3
  <2> QED BY <2>4 DEF c
<1> QED BY <1>1, SpoolInductiveHolds, PTL

\* Retention removes a file only when the server has answered for every run in it, but for
\* turns written to after the flusher had read the file, though flushers are killed between
\* a push and its note, give up on pushes, and sleep with the machine at any point.
THEOREM RemovedWasDelivered == Spec => OnlyDeliveredIsRemoved
<1>1. SpoolInductive /\ [Next]_vars =>
        [journal # <<>> /\ journal' = <<>> =>
           \E f \in Flushers :
             \/ flusher[f].phase = "listing"
             \/ /\ flusher[f].phase = "removing"
                /\ Shippable(journal) \subseteq Received \cup refused \cup Unread(f)]_vars
  BY RemovalIsEarned DEF SpoolInductive
<1> QED BY <1>1, SpoolInductiveHolds, PTL DEF Spec, OnlyDeliveredIsRemoved

\* The run the server has of a turn holds the calls whose steps were opened before it was
\* closed, in their order, unless two hooks took one number or the turn outlived its file.
THEOREM RunsShipWhole == Spec => []ShippedRunIsWhole
<1>1. SpoolInductive => ShippedRunIsWhole
  BY WholeShips DEF SpoolInductive
<1> QED BY <1>1, SpoolInductiveHolds, PTL
================================================================================
