---------------------------- MODULE SourceSyncProofs ---------------------------
(***************************************************************************)
(* Theorems about the source sync, for any items, containers and number of *)
(* runs, and any bound on the clock.                                       *)
(***************************************************************************)
EXTENDS SourceSync, GoogleFeed, FiniteSetTheorems, WellFoundedInduction, TLAPS

\* A nonempty set of times has a greatest one.
LEMMA GreatestExists ==
  ASSUME NEW S \in SUBSET (0..MaxTime), S # {}
  PROVE  \E n \in S : \A k \in S : k <= n
<1> DEFINE T == {MaxTime - n : n \in S}
<1>1. MaxTime \in Nat
  BY SyncConstants
<1>2. ASSUME NEW n \in S PROVE n \in Nat /\ MaxTime - n \in Nat
  BY <1>1
<1>3. T \subseteq Nat /\ T # {}
  BY <1>2
<1>4. PICK x \in T : \A y \in T : ~(<<y, x>> \in OpToRel(<, Nat))
  <2> HIDE DEF T
  <2> QED
    BY <1>3, NatLessThanWellFounded, WFMin
<1>5. \A y \in T : ~(y < x)
  BY <1>3, <1>4 DEF OpToRel
<1>6. PICK n \in S : x = MaxTime - n
  BY <1>4
<1>7. ASSUME NEW k \in S PROVE k <= n
  <2>1. ~(MaxTime - k < MaxTime - n)
    BY <1>5, <1>6, <1>7
  <2> HIDE DEF T
  <2> QED
    BY <2>1, <1>1, <1>2
<1> QED
  BY <1>7

LEMMA MaxOfBounds ==
  ASSUME NEW m \in 0..MaxTime, NEW S \in SUBSET (0..MaxTime)
  PROVE  /\ MaxOf(m, S) \in S \cup {m} /\ MaxOf(m, S) \in 0..MaxTime
         /\ m <= MaxOf(m, S)
<1>1. CASE \E n \in S : n > m
  <2>1. PICK n \in S : n > m
    BY <1>1
  <2>2. PICK x \in S : \A k \in S : k <= x
    BY <2>1, GreatestExists
  <2> DEFINE y == CHOOSE x_1 \in S : \A k \in S : k <= x_1
  <2>3. y \in S /\ \A k \in S : k <= y
    BY <2>2
  <2>4. MaxOf(m, S) = y
    BY <1>1 DEF MaxOf
  <2> HIDE DEF y
  <2>5. y \in 0..MaxTime /\ n <= y /\ n \in 0..MaxTime
    BY <2>1, <2>3
  <2> QED
    BY <2>1, <2>3, <2>4, <2>5, SyncConstants
<1>2. CASE ~\E n \in S : n > m
  <2>1. MaxOf(m, S) = m
    BY <1>2 DEF MaxOf
  <2> QED
    BY <2>1, SyncConstants
<1> QED
  BY <1>1, <1>2

\* An item of run r, stored or not, is accounted for.
Accounted(i, r) ==
  \/ i \in stored \cup overlooked \cup sync[r].missed
  \/ /\ Since(provider, sync[r].from, at[i])
     /\ i \in sync[r].got \/ Home[i] \in sync[r].todo \/ sync[r].held

RunsAccount ==
  \A r \in Runs : sync[r].phase = "fetching" => \A i \in Appeared : Accounted(i, r)

SyncInvariant == TypeOK /\ OnlyOverlookedAreLost /\ RunsAccount

-------------------------------------------------------------------------------
LEMMA InitHolds == Init => SyncInvariant
BY SyncConstants DEF Init, SyncInvariant, TypeOK, OnlyOverlookedAreLost, RunsAccount, Appeared,
   Connection, NoSync, SyncRun

LEMMA TypesKept == TypeOK /\ [Next]_vars => TypeOK'
<1> SUFFICES ASSUME TypeOK, [Next]_vars PROVE TypeOK'
  OBVIOUS
<1> USE SyncConstants
<1>1. CASE Tick
  BY <1>1 DEF Tick, TypeOK
<1>2. ASSUME NEW i \in Items, Publish(i) PROVE TypeOK'
  <2>1. sync' \in [Runs -> SyncRun]
    BY <1>2 DEF Publish, TypeOK, SyncRun
  <2>2. at' \in [Items -> 0..MaxTime] /\ overlooked' \in SUBSET Items
    BY <1>2 DEF Publish, TypeOK
  <2> QED
    BY <1>2, <2>1, <2>2 DEF Publish, TypeOK
<1>3. ASSUME NEW i \in Items, Deliver(i) PROVE TypeOK'
  BY <1>3 DEF Deliver, TypeOK
<1>4. ASSUME NEW r \in Runs, Commit(r) PROVE TypeOK'
  <2>1. sync[r] \in SyncRun
    BY DEF TypeOK
  <2>2. conn' \in Connection /\ NextCursor(r) \in 0..MaxTime
    BY <1>4, <2>1 DEF Commit, NextCursor, SyncRun, Connection
  <2>3. stored' \in SUBSET Items /\ overlooked' \in SUBSET Items
    BY <1>4, <2>1 DEF Commit, TypeOK, SyncRun
  <2>4. sync' \in [Runs -> SyncRun]
    BY <1>4 DEF Commit, EndRun, TypeOK, SyncRun, NoSync
  <2> QED
    BY <1>4, <2>2, <2>3, <2>4 DEF Commit, TypeOK
<1>5. ASSUME NEW r \in Runs, Kill(r) PROVE TypeOK'
  BY <1>5 DEF Kill, EndRun, TypeOK, SyncRun, NoSync
<1>6. ASSUME NEW r \in Runs, NEW answer \in Answers, BeginSync(r, answer) PROVE TypeOK'
  <2>1. conn \in Connection /\ conn.cursor \in 0..MaxTime
    BY DEF TypeOK, Connection
  <2>2. CASE Listed(provider, answer) \in {"items", "hold"}
    <3> DEFINE begun ==
          [phase |-> "fetching", from |-> conn.cursor,
           todo |-> IF Listed(provider, answer) = "items" THEN Scope ELSE {},
           got |-> {}, newest |-> conn.cursor, held |-> Listed(provider, answer) = "hold",
           missed |-> {i \in Appeared : Home[i] \notin Scope}]
    <3>1. Scope \in SUBSET Containers /\ Appeared \in SUBSET Items
      BY DEF Scope, Appeared, TypeOK
    <3>2. begun \in SyncRun
      BY <2>1, <3>1 DEF SyncRun
    <3>3. sync' = [sync EXCEPT ![r] = begun] /\ UNCHANGED conn
      BY <1>6, <2>2 DEF BeginSync
    <3>4. sync' \in [Runs -> SyncRun]
      <4> HIDE DEF begun
      <4> QED
        BY <3>2, <3>3 DEF TypeOK
    <3> QED
      BY <1>6, <3>3, <3>4 DEF BeginSync, TypeOK
  <2>3. CASE Listed(provider, answer) \notin {"items", "hold"}
    <3>1. MarkError(Listed(provider, answer)) /\ UNCHANGED sync
      BY <1>6, <2>3 DEF BeginSync
    <3>2. conn' \in Connection
      BY <2>1, <3>1 DEF MarkError, Connection
    <3> QED
      BY <1>6, <3>1, <3>2 DEF BeginSync, TypeOK
  <2> QED
    BY <2>2, <2>3
<1>7. ASSUME NEW r \in Runs, NEW answer \in Answers, NEW C \in Queries(r), Read(r, C, answer)
      PROVE  TypeOK'
  <2> DEFINE new == Fetched(r, C)
  <2>1. sync[r] \in SyncRun /\ new \in SUBSET Items
    BY DEF TypeOK, Fetched, Appeared
  <2>2. MaxOf(sync[r].newest, {at[i] : i \in new}) \in 0..MaxTime
    <3>1. {at[i] : i \in new} \in SUBSET (0..MaxTime) /\ sync[r].newest \in 0..MaxTime
      BY <2>1 DEF TypeOK, SyncRun
    <3> HIDE DEF new
    <3> QED
      BY <3>1, MaxOfBounds
  <2>3. sync' \in [Runs -> SyncRun]
    <3> DEFINE after == [sync[r] EXCEPT
          !.todo = @ \ C,
          !.got = IF Taken(provider, answer) = "items" THEN @ \cup new ELSE @,
          !.newest = IF Taken(provider, answer) = "items"
                     THEN MaxOf(@, {at[i] : i \in new}) ELSE @,
          !.held = @ \/ Taken(provider, answer) = "hold",
          !.missed = IF Refused(answer) THEN @ \cup new ELSE @]
    <3>1. after \in SyncRun
      <4> HIDE DEF new
      <4> QED
        BY <2>1, <2>2 DEF SyncRun
    <3>2. sync' = [sync EXCEPT ![r] = after]
      BY <1>7, <2>1 DEF Read, TypeOK, SyncRun
    <3> HIDE DEF after
    <3> QED
      BY <3>1, <3>2 DEF TypeOK
  <2> QED
    BY <1>7, <2>3 DEF Read, TypeOK
<1>19. ASSUME NEW r \in Runs, NEW C \in Queries(r), NEW bound \in 1..MaxTime,
              ReadLate(r, C, bound)
       PROVE  TypeOK'
  <2> DEFINE all == Fetched(r, C)
             new == {i \in all : at[i] >= bound}
             newest == MaxOf(sync[r].newest, {at[i] : i \in new})
  <2>1. sync[r] \in SyncRun /\ all \in SUBSET Items /\ new \in SUBSET Items
    BY DEF TypeOK, Fetched, Appeared
  <2>2. newest \in 0..MaxTime
    <3>1. {at[i] : i \in new} \in SUBSET (0..MaxTime) /\ sync[r].newest \in 0..MaxTime
      BY <2>1 DEF TypeOK, SyncRun
    <3> HIDE DEF new
    <3> QED
      BY <3>1, MaxOfBounds
  <2>3. sync' = [sync EXCEPT ![r].todo = @ \ C, ![r].got = @ \cup new,
                             ![r].newest = newest, ![r].missed = @ \cup (all \ new)]
    BY <1>19 DEF ReadLate
  <2> HIDE DEF all, new, newest
  <2>4. sync' \in [Runs -> SyncRun]
    BY <2>1, <2>2, <2>3 DEF TypeOK, SyncRun
  <2> QED
    BY <1>19, <2>4 DEF ReadLate, TypeOK
<1>8. ASSUME NEW r \in Runs, NEW answer \in Answers, NEW C \in Queries(r),
             FailRead(r, C, answer)
      PROVE  TypeOK'
  BY <1>8 DEF FailRead, EndRun, MarkError, TypeOK, SyncRun, NoSync, Connection
<1>9. ASSUME NEW r \in Runs, NEW part \in SUBSET sync[r].got, CommitPart(r, part)
      PROVE  TypeOK'
  <2>1. sync[r].got \in SUBSET Items
    BY DEF TypeOK, SyncRun
  <2> QED
    BY <1>9, <2>1 DEF CommitPart, EndRun, TypeOK, SyncRun, NoSync
<1>10. CASE Disconnect
  BY <1>10 DEF Disconnect, NoConnection, Connection, NoSync, TypeOK, SyncRun
<1>11. CASE Connect
  BY <1>11 DEF Connect, Connection, TypeOK
<1>12. ASSUME NEW S \in SUBSET Containers, Select(S) PROVE TypeOK'
  BY <1>12 DEF Select, TypeOK
<1>13. CASE UNCHANGED vars
  BY <1>13 DEF vars, TypeOK
<1> QED
  BY <1>1, <1>2, <1>3, <1>4, <1>5, <1>6, <1>7, <1>8, <1>9, <1>10, <1>11, <1>12, <1>13, <1>19
  DEF Next

-------------------------------------------------------------------------------
\* What a step that leaves the items, the cursor and the other runs alone may do to
\* run r: end it, or keep its account.
LEMMA OtherRunsKept ==
  ASSUME SyncInvariant, UNCHANGED <<provider, at>>,
         stored \subseteq stored', overlooked \subseteq overlooked',
         NEW r \in Runs, \A q \in Runs : q # r => sync'[q] = sync[q],
         sync'[r].phase = "fetching" => \A i \in Appeared : Accounted(i, r)'
  PROVE  RunsAccount'
<1>1. Appeared' = Appeared
  BY DEF Appeared
<1>2. ASSUME NEW q \in Runs, q # r, NEW i \in Appeared, sync[q].phase = "fetching"
      PROVE  Accounted(i, q)'
  <2>1. Accounted(i, q) /\ sync'[q] = sync[q]
    BY <1>2 DEF SyncInvariant, RunsAccount
  <2> QED
    BY <2>1 DEF Accounted, Since
<1> QED
  BY <1>1, <1>2 DEF RunsAccount

LEMMA RunEnds ==
  ASSUME TypeOK, NEW r \in Runs, EndRun(r)
  PROVE  /\ sync'[r].phase = "idle"
         /\ \A q \in Runs : q # r => sync'[q] = sync[q]
BY DEF EndRun, NoSync, TypeOK

LEMMA PassedKept ==
  ASSUME OnlyOverlookedAreLost, UNCHANGED <<provider, at>>, conn'.cursor = conn.cursor,
         stored \subseteq stored', overlooked \subseteq overlooked'
  PROVE  OnlyOverlookedAreLost'
BY DEF OnlyOverlookedAreLost, Appeared, Passed, Since

LEMMA PublishKeeps ==
  ASSUME SyncInvariant, NEW i \in Items, Publish(i)
  PROVE  OnlyOverlookedAreLost' /\ RunsAccount'
<1>1. /\ UNCHANGED <<provider, now, stored, conn>> /\ overlooked \subseteq overlooked'
      /\ at'[i] = now /\ \A j \in Items : j # i => at'[j] = at[j]
  BY DEF Publish, SyncInvariant, TypeOK
<1>2. ASSUME NEW j \in Appeared', j # i PROVE j \in Appeared
  BY <1>1, <1>2 DEF Appeared
<1>3. ASSUME NEW j \in Appeared', Passed(j, conn.cursor)' PROVE j \in stored' \cup overlooked'
  <2>1. CASE j = i
    BY <1>1, <1>3, <2>1 DEF Publish, Passed, Since
  <2>2. CASE j # i
    <3>1. j \in Appeared /\ Passed(j, conn.cursor)
      BY <1>1, <1>2, <1>3, <2>2 DEF Passed, Since, Appeared
    <3> QED
      BY <1>1, <3>1 DEF SyncInvariant, OnlyOverlookedAreLost
  <2> QED
    BY <2>1, <2>2
<1>4. ASSUME NEW r \in Runs, sync'[r].phase = "fetching", NEW j \in Appeared'
      PROVE  Accounted(j, r)'
  <2>1. sync'[r] = IF Escapes(i, r) THEN [sync[r] EXCEPT !.missed = @ \cup {i}] ELSE sync[r]
    BY DEF Publish
  <2>2. sync[r] \in SyncRun
    BY DEF SyncInvariant, TypeOK
  <2>3. /\ sync'[r].phase = sync[r].phase /\ sync'[r].from = sync[r].from
        /\ sync'[r].todo = sync[r].todo /\ sync'[r].got = sync[r].got
        /\ sync'[r].held = sync[r].held /\ sync[r].missed \subseteq sync'[r].missed
        /\ Escapes(i, r) => i \in sync'[r].missed
    BY <2>1, <2>2 DEF SyncRun
  <2>4. CASE j = i
    BY <1>1, <1>4, <2>3, <2>4 DEF Accounted, Escapes, Since
  <2>5. CASE j # i
    <3>1. Accounted(j, r)
      BY <1>2, <1>4, <2>3, <2>5 DEF SyncInvariant, RunsAccount
    <3>2. at'[j] = at[j]
      BY <1>1, <2>5 DEF Appeared
    <3> QED
      BY <1>1, <2>3, <3>1, <3>2 DEF Accounted, Since
  <2> QED
    BY <2>4, <2>5
<1> QED
  BY <1>3, <1>4 DEF OnlyOverlookedAreLost, RunsAccount

LEMMA BeginKeeps ==
  ASSUME SyncInvariant, NEW r \in Runs, NEW answer \in Answers, BeginSync(r, answer)
  PROVE  OnlyOverlookedAreLost' /\ RunsAccount'
<1>1. UNCHANGED <<provider, at, stored, overlooked>>
  BY DEF BeginSync
<1>2. CASE Listed(provider, answer) \in {"items", "hold"}
  <2> DEFINE begun ==
        [phase |-> "fetching", from |-> conn.cursor,
         todo |-> IF Listed(provider, answer) = "items" THEN Scope ELSE {},
         got |-> {}, newest |-> conn.cursor, held |-> Listed(provider, answer) = "hold",
         missed |-> {i \in Appeared : Home[i] \notin Scope}]
  <2>1. sync' = [sync EXCEPT ![r] = begun] /\ UNCHANGED conn
    BY <1>2 DEF BeginSync
  <2>2. sync'[r] = begun /\ \A q \in Runs : q # r => sync'[q] = sync[q]
    <3> HIDE DEF begun
    <3> QED
      BY <2>1 DEF SyncInvariant, TypeOK
  <2>3. ASSUME NEW i \in Appeared PROVE Accounted(i, r)'
    <3>1. CASE Passed(i, conn.cursor)
      BY <1>1, <3>1 DEF SyncInvariant, OnlyOverlookedAreLost, Accounted
    <3>2. CASE ~Passed(i, conn.cursor)
      <4>1. Since(provider', sync'[r].from, at'[i])
        BY <1>1, <2>2, <3>2 DEF Passed
      <4>2. CASE Home[i] \notin Scope
        BY <2>2, <4>2 DEF Accounted
      <4>3. CASE Home[i] \in Scope
        <5>1. CASE Listed(provider, answer) = "items"
          <6>1. Home[i] \in sync'[r].todo
            BY <2>2, <4>3, <5>1
          <6> QED
            BY <4>1, <6>1 DEF Accounted
        <5>2. CASE Listed(provider, answer) = "hold"
          <6>1. begun.held = (Listed(provider, answer) = "hold")
            OBVIOUS
          <6>2. begun.held
            BY <5>2, <6>1
          <6> HIDE DEF begun
          <6>3. sync'[r].held
            BY <2>2, <6>2
          <6> QED
            BY <4>1, <6>3 DEF Accounted
        <5> QED
          BY <1>2, <5>1, <5>2
      <4> QED
        BY <4>2, <4>3
    <3> QED
      BY <3>1, <3>2
  <2> QED
    BY <1>1, <2>1, <2>2, <2>3, OtherRunsKept, PassedKept DEF SyncInvariant
<1>3. CASE Listed(provider, answer) \notin {"items", "hold"}
  <2>1. MarkError(Listed(provider, answer)) /\ UNCHANGED sync
    BY <1>3 DEF BeginSync
  <2>2. conn'.cursor = conn.cursor
    BY <2>1 DEF MarkError, SyncInvariant, TypeOK, Connection
  <2>3. RunsAccount'
    BY <1>1, <2>1 DEF SyncInvariant, RunsAccount, Accounted, Since, Appeared
  <2> QED
    BY <1>1, <2>2, <2>3, PassedKept DEF SyncInvariant
<1> QED
  BY <1>2, <1>3

FetchedAt(r, C) == {at[i] : i \in Fetched(r, C)}

\* A container is skipped for no other reason than that it was refused.
LEMMA SkipIsRefused ==
  ASSUME NEW answer \in Answers, provider \in Providers, Taken(provider, answer) = "skip"
  PROVE  Refused(answer)
BY DEF Refused, Taken, SlackChannel, GithubRepository, JiraSite, NotionSearch, ZendeskExport,
       Raised, Answers, Providers

\* What an answer changes in the run that got it.
LEMMA ReadSets ==
  ASSUME TypeOK, NEW r \in Runs, NEW answer, NEW C, Read(r, C, answer)
  PROVE  /\ sync'[r].from = sync[r].from /\ sync'[r].phase = sync[r].phase
         /\ sync'[r].todo = sync[r].todo \ C
         /\ sync'[r].got = (IF Taken(provider, answer) = "items"
                            THEN sync[r].got \cup Fetched(r, C) ELSE sync[r].got)
         /\ sync'[r].newest = (IF Taken(provider, answer) = "items"
                               THEN MaxOf(sync[r].newest, FetchedAt(r, C))
                               ELSE sync[r].newest)
         /\ sync'[r].held <=> (sync[r].held \/ Taken(provider, answer) = "hold")
         /\ sync'[r].missed = (IF Refused(answer)
                               THEN sync[r].missed \cup Fetched(r, C)
                               ELSE sync[r].missed)
         /\ \A q \in Runs : q # r => sync'[q] = sync[q]
<1> DEFINE outcome == Taken(provider, answer)
           seen == FetchedAt(r, C)
           new == Fetched(r, C)
           newest == MaxOf(sync[r].newest, seen)
<1>1. sync[r] \in SyncRun
  BY DEF TypeOK
<1>2. sync' = [sync EXCEPT
        ![r].todo = @ \ C,
        ![r].got = IF outcome = "items" THEN @ \cup new ELSE @,
        ![r].newest = IF outcome = "items" THEN MaxOf(@, seen) ELSE @,
        ![r].held = @ \/ outcome = "hold",
        ![r].missed = IF Refused(answer) THEN @ \cup new ELSE @]
  BY DEF Read, FetchedAt
<1> HIDE DEF outcome, seen, new
<1>3. /\ sync'[r].from = sync[r].from /\ sync'[r].phase = sync[r].phase
      /\ sync'[r].todo = sync[r].todo \ C
      /\ sync'[r].got = (IF outcome = "items" THEN sync[r].got \cup new ELSE sync[r].got)
      /\ sync'[r].newest = (IF outcome = "items" THEN newest ELSE sync[r].newest)
      /\ sync'[r].held <=> (sync[r].held \/ outcome = "hold")
      /\ sync'[r].missed = (IF Refused(answer) THEN sync[r].missed \cup new
                            ELSE sync[r].missed)
      /\ \A q \in Runs : q # r => sync'[q] = sync[q]
  BY <1>1, <1>2 DEF TypeOK, SyncRun
<1> QED
  BY <1>3 DEF outcome, seen, new

LEMMA ReadKeeps ==
  ASSUME SyncInvariant, NEW r \in Runs, NEW answer \in Answers, NEW C \in Queries(r),
         Read(r, C, answer)
  PROVE  OnlyOverlookedAreLost' /\ RunsAccount'
<1> DEFINE new == Fetched(r, C)
           outcome == Taken(provider, answer)
<1>1. UNCHANGED <<provider, at, stored, conn, overlooked>> /\ outcome \in {"items", "hold", "skip"}
  BY DEF Read
<1>2. outcome = "skip" => Refused(answer)
  BY SkipIsRefused DEF SyncInvariant, TypeOK
<1>3. /\ sync'[r].from = sync[r].from /\ sync'[r].phase = sync[r].phase
      /\ sync'[r].todo = sync[r].todo \ C
      /\ sync'[r].got = (IF outcome = "items" THEN sync[r].got \cup new ELSE sync[r].got)
      /\ sync'[r].held <=> (sync[r].held \/ outcome = "hold")
      /\ sync'[r].missed = (IF Refused(answer) THEN sync[r].missed \cup new
                            ELSE sync[r].missed)
      /\ \A q \in Runs : q # r => sync'[q] = sync[q]
  <2>1. TypeOK
    BY DEF SyncInvariant
  <2> QED
    BY <2>1, ReadSets
<1>4. ASSUME sync[r].phase = "fetching", NEW i \in Appeared PROVE Accounted(i, r)'
  <2>1. Accounted(i, r)
    BY <1>4 DEF SyncInvariant, RunsAccount
  <2>2. Since(provider, sync[r].from, at[i]) /\ Home[i] \in C => i \in new
    BY DEF Fetched
  <2> HIDE DEF new, outcome
  <2>3. CASE i \in stored \cup overlooked \cup sync[r].missed
    BY <1>1, <1>3, <2>3 DEF Accounted
  <2>4. CASE Since(provider, sync[r].from, at[i]) /\ (i \in sync[r].got \/ sync[r].held)
    <3>1. Since(provider', sync'[r].from, at'[i])
      BY <1>1, <1>3, <2>4
    <3>2. i \in sync'[r].got \/ sync'[r].held
      BY <1>3, <2>4
    <3> QED
      BY <3>1, <3>2 DEF Accounted
  <2>5. CASE Since(provider, sync[r].from, at[i]) /\ Home[i] \in sync[r].todo
    <3>1. Since(provider', sync'[r].from, at'[i])
      BY <1>1, <1>3, <2>5
    <3> QED
      BY <1>1, <1>2, <1>3, <2>2, <2>5, <3>1 DEF Accounted
  <2> QED
    BY <2>1, <2>3, <2>4, <2>5 DEF Accounted
<1>5. RunsAccount'
  BY <1>1, <1>3, <1>4, OtherRunsKept
<1> QED
  BY <1>1, <1>5, PassedKept DEF SyncInvariant

\* What a late bound leaves out is among what the run missed.
LEMMA ReadLateKeeps ==
  ASSUME SyncInvariant, NEW r \in Runs, NEW C \in Queries(r), NEW bound \in 1..MaxTime,
         ReadLate(r, C, bound)
  PROVE  OnlyOverlookedAreLost' /\ RunsAccount'
<1> DEFINE all == Fetched(r, C)
           new == {i \in all : at[i] >= bound}
           newest == MaxOf(sync[r].newest, {at[i] : i \in new})
<1>1. UNCHANGED <<provider, at, stored, conn, overlooked>> /\ new \subseteq all
  BY DEF ReadLate
<1>2. sync' = [sync EXCEPT ![r].todo = @ \ C, ![r].got = @ \cup new,
                           ![r].newest = newest, ![r].missed = @ \cup (all \ new)]
  BY DEF ReadLate
<1>3. ASSUME NEW i \in Appeared, Since(provider, sync[r].from, at[i]), Home[i] \in C
      PROVE  i \in all
  BY <1>3 DEF Fetched
<1> HIDE DEF all, new, newest
<1>4. /\ sync'[r].from = sync[r].from /\ sync'[r].phase = sync[r].phase
      /\ sync'[r].todo = sync[r].todo \ C /\ sync'[r].got = sync[r].got \cup new
      /\ sync'[r].held = sync[r].held /\ sync'[r].missed = sync[r].missed \cup (all \ new)
      /\ \A q \in Runs : q # r => sync'[q] = sync[q]
  BY <1>2 DEF SyncInvariant, TypeOK, SyncRun
<1>5. ASSUME sync[r].phase = "fetching", NEW i \in Appeared PROVE Accounted(i, r)'
  <2>1. Accounted(i, r)
    BY <1>5 DEF SyncInvariant, RunsAccount
  <2> QED
    BY <1>1, <1>3, <1>4, <2>1 DEF Accounted
<1>6. RunsAccount'
  BY <1>1, <1>4, <1>5, OtherRunsKept
<1> QED
  BY <1>1, <1>6, PassedKept DEF SyncInvariant

LEMMA CommitKeeps ==
  ASSUME SyncInvariant, NEW r \in Runs, Commit(r)
  PROVE  OnlyOverlookedAreLost' /\ RunsAccount'
<1> DEFINE cursor == NextCursor(r)
<1>1. /\ UNCHANGED <<provider, at>> /\ stored' = stored \cup sync[r].got
      /\ conn'.cursor = cursor /\ EndRun(r)
      /\ overlooked' = overlooked \cup {i \in sync[r].missed \ stored' : Passed(i, cursor)}
      /\ sync[r].phase = "fetching" /\ sync[r].todo = {}
  BY DEF Commit
<1>2. ASSUME NEW i \in Appeared', Passed(i, conn.cursor)' PROVE i \in stored' \cup overlooked'
  <2>1. i \in Appeared /\ Passed(i, cursor)
    BY <1>1, <1>2 DEF Appeared, Passed, Since
  <2>2. Accounted(i, r)
    BY <1>1, <2>1 DEF SyncInvariant, RunsAccount
  <2>3. CASE i \in stored \cup overlooked \cup sync[r].missed
    BY <1>1, <2>1, <2>3
  <2>4. CASE Since(provider, sync[r].from, at[i]) /\ i \in sync[r].got
    BY <1>1, <2>4
  <2>5. CASE Since(provider, sync[r].from, at[i]) /\ sync[r].held
    BY <2>1, <2>5 DEF NextCursor, Passed
  <2> QED
    BY <1>1, <2>2, <2>3, <2>4, <2>5 DEF Accounted
<1>3. RunsAccount'
  <2> HIDE DEF cursor
  <2>1. sync'[r].phase = "idle" /\ \A q \in Runs : q # r => sync'[q] = sync[q]
    BY <1>1, RunEnds DEF SyncInvariant
  <2> QED
    BY <1>1, <2>1, OtherRunsKept
<1> QED
  BY <1>2, <1>3 DEF OnlyOverlookedAreLost

LEMMA NextKeeps == SyncInvariant /\ [Next]_vars => SyncInvariant'
<1> SUFFICES ASSUME SyncInvariant, [Next]_vars
             PROVE  OnlyOverlookedAreLost' /\ RunsAccount'
  BY TypesKept DEF SyncInvariant
<1>1. ASSUME UNCHANGED <<provider, at, conn, sync>>, overlooked' = overlooked,
             stored \subseteq stored'
      PROVE  OnlyOverlookedAreLost' /\ RunsAccount'
  BY <1>1 DEF SyncInvariant, OnlyOverlookedAreLost, RunsAccount, Accounted, Appeared,
              Passed, Since
<1>2. CASE Tick \/ UNCHANGED vars
  BY <1>1, <1>2 DEF Tick, vars
<1>3. ASSUME NEW i \in Items, Publish(i) PROVE OnlyOverlookedAreLost' /\ RunsAccount'
  BY <1>3, PublishKeeps
<1>4. ASSUME NEW i \in Items, Deliver(i) PROVE OnlyOverlookedAreLost' /\ RunsAccount'
  BY <1>1, <1>4 DEF Deliver
<1>5. ASSUME NEW r \in Runs, Commit(r) PROVE OnlyOverlookedAreLost' /\ RunsAccount'
  BY <1>5, CommitKeeps
<1>6. ASSUME NEW r \in Runs, UNCHANGED <<provider, at, overlooked>>, EndRun(r),
             stored \subseteq stored', conn'.cursor = conn.cursor
      PROVE  OnlyOverlookedAreLost' /\ RunsAccount'
  <2>1. sync'[r].phase = "idle" /\ \A q \in Runs : q # r => sync'[q] = sync[q]
    BY <1>6, RunEnds DEF SyncInvariant
  <2> QED
    BY <1>6, <2>1, OtherRunsKept, PassedKept DEF SyncInvariant
<1>7. ASSUME NEW r \in Runs, Kill(r) PROVE OnlyOverlookedAreLost' /\ RunsAccount'
  BY <1>6, <1>7 DEF Kill
<1>8. ASSUME NEW r \in Runs, NEW answer \in Answers, BeginSync(r, answer)
      PROVE  OnlyOverlookedAreLost' /\ RunsAccount'
  BY <1>8, BeginKeeps
<1>9. ASSUME NEW r \in Runs, NEW answer \in Answers, NEW C \in Queries(r), Read(r, C, answer)
      PROVE  OnlyOverlookedAreLost' /\ RunsAccount'
  BY <1>9, ReadKeeps
<1>19. ASSUME NEW r \in Runs, NEW C \in Queries(r), NEW bound \in 1..MaxTime,
              ReadLate(r, C, bound)
       PROVE  OnlyOverlookedAreLost' /\ RunsAccount'
  BY <1>19, ReadLateKeeps
<1>10. ASSUME NEW r \in Runs, NEW answer \in Answers, NEW C \in Queries(r),
              FailRead(r, C, answer)
       PROVE  OnlyOverlookedAreLost' /\ RunsAccount'
  <2>1. conn'.cursor = conn.cursor
    BY <1>10 DEF FailRead, MarkError, SyncInvariant, TypeOK, Connection
  <2> QED
    BY <1>6, <1>10, <2>1 DEF FailRead
<1>11. ASSUME NEW r \in Runs, NEW part \in SUBSET sync[r].got, CommitPart(r, part)
       PROVE  OnlyOverlookedAreLost' /\ RunsAccount'
  BY <1>6, <1>11 DEF CommitPart
<1>12. CASE Disconnect
  <2>1. ASSUME NEW i \in Appeared' PROVE ~Passed(i, conn.cursor)'
    <3>1. at'[i] \in Nat /\ at'[i] # 0 /\ conn'.cursor = 0
      BY <1>12, <2>1, SyncConstants DEF Disconnect, NoConnection, SyncInvariant, TypeOK,
         Appeared
    <3> QED
      BY <3>1 DEF Passed, Since
  <2>2. RunsAccount'
    BY <1>12 DEF Disconnect, RunsAccount, NoSync
  <2> QED
    BY <2>1, <2>2 DEF OnlyOverlookedAreLost
<1>13. CASE Connect
  <2>1. conn'.cursor = conn.cursor
    BY <1>13 DEF Connect, SyncInvariant, TypeOK, Connection
  <2>2. RunsAccount'
    BY <1>13 DEF Connect, SyncInvariant, RunsAccount, Accounted, Appeared, Since
  <2> QED
    BY <1>13, <2>1, <2>2, PassedKept DEF Connect, SyncInvariant
<1>14. ASSUME NEW S \in SUBSET Containers, Select(S)
       PROVE  OnlyOverlookedAreLost' /\ RunsAccount'
  BY <1>1, <1>14 DEF Select
<1> QED
  BY <1>2, <1>3, <1>4, <1>5, <1>7, <1>8, <1>9, <1>10, <1>11, <1>12, <1>13, <1>14,
     <1>19 DEF Next

\* The inductive invariant: whatever has appeared is stored, overlooked, or in the
\* account of every run under way.
THEOREM SyncIsConsistent == Spec => []SyncInvariant
BY InitHolds, NextKeeps, PTL DEF Spec

\* Every row of the source sync has its type.
THEOREM SyncTypesHold == Spec => []TypeOK
<1>1. SyncInvariant => TypeOK
  BY DEF SyncInvariant
<1> QED
  BY <1>1, SyncIsConsistent, PTL

\* However runs overlap, fail, are killed, held or started again: what the cursor has
\* passed is stored, or escaped the run that moved it.
THEOREM NothingElseIsLost == Spec => []OnlyOverlookedAreLost
<1>1. SyncInvariant => OnlyOverlookedAreLost
  BY DEF SyncInvariant
<1> QED
  BY <1>1, SyncIsConsistent, PTL

-------------------------------------------------------------------------------
(***************************************************************************)
(* Zendesk: one query, whose bound is inclusive.                           *)
(***************************************************************************)
\* What a run of Zendesk missed is no older than the newest item it has seen, and it
\* misses nothing before its one query is answered.
ExportIsInclusive ==
  provider = "zendesk" =>
    /\ overlooked = {} /\ conn.cursor <= now
    /\ \A i \in Items : at[i] <= now
    /\ \A r \in Runs : sync[r].phase = "fetching" =>
         /\ sync[r].from <= sync[r].newest /\ sync[r].newest <= now
         /\ \A i \in sync[r].missed : sync[r].newest <= at[i]
         /\ sync[r].todo \in {{}, Containers}
         /\ sync[r].missed # {} => sync[r].todo = {}

ExportInvariant == SyncInvariant /\ ExportIsInclusive

\* The part of it that is about one run.
RunIsInclusive(r) ==
  /\ sync[r].from <= sync[r].newest /\ sync[r].newest <= now
  /\ \A i \in sync[r].missed : sync[r].newest <= at[i]
  /\ sync[r].todo \in {{}, Containers}
  /\ sync[r].missed # {} => sync[r].todo = {}

LEMMA OtherRunsInclusive ==
  ASSUME ExportInvariant, provider = "zendesk",
         UNCHANGED <<provider, at, now>>, overlooked' = {}, conn'.cursor <= now,
         NEW r \in Runs, \A q \in Runs : q # r => sync'[q] = sync[q],
         sync'[r].phase = "fetching" => RunIsInclusive(r)'
  PROVE  ExportIsInclusive'
BY DEF ExportInvariant, ExportIsInclusive, RunIsInclusive

LEMMA ProviderFixed == [Next]_vars => UNCHANGED provider
<1> SUFFICES ASSUME [Next]_vars PROVE UNCHANGED provider
  OBVIOUS
<1>1. ASSUME NEW i \in Items, Publish(i) \/ Deliver(i) PROVE UNCHANGED provider
  BY <1>1 DEF Publish, Deliver
<1>2. ASSUME NEW r \in Runs, Commit(r) \/ Kill(r) PROVE UNCHANGED provider
  BY <1>2 DEF Commit, Kill
<1>3. ASSUME NEW r \in Runs, NEW answer \in Answers, BeginSync(r, answer)
      PROVE  UNCHANGED provider
  BY <1>3 DEF BeginSync
<1>4. ASSUME NEW r \in Runs, NEW answer \in Answers, NEW C \in Queries(r),
             Read(r, C, answer) \/ FailRead(r, C, answer)
      PROVE  UNCHANGED provider
  BY <1>4 DEF Read, FailRead
<1>19. ASSUME NEW r \in Runs, NEW C \in Queries(r), NEW bound \in 1..MaxTime,
              ReadLate(r, C, bound)
       PROVE  UNCHANGED provider
  BY <1>19 DEF ReadLate
<1>5. ASSUME NEW r \in Runs, NEW part \in SUBSET sync[r].got, CommitPart(r, part)
      PROVE  UNCHANGED provider
  BY <1>5 DEF CommitPart
<1>6. ASSUME NEW S \in SUBSET Containers, Select(S) PROVE UNCHANGED provider
  BY <1>6 DEF Select
<1>7. CASE Tick \/ Disconnect \/ Connect \/ UNCHANGED vars
  BY <1>7 DEF Tick, Disconnect, Connect, vars
<1> QED
  BY <1>1, <1>2, <1>3, <1>4, <1>5, <1>6, <1>7, <1>19 DEF Next

LEMMA ExportStep == ExportInvariant /\ [Next]_vars => ExportIsInclusive'
<1> SUFFICES ASSUME ExportInvariant, [Next]_vars, provider' = "zendesk"
             PROVE  ExportIsInclusive'
  BY DEF ExportIsInclusive
<1>1. provider = "zendesk" /\ UNCHANGED provider
  BY ProviderFixed
<1>2. /\ TypeOK /\ conn \in Connection /\ conn.cursor \in Nat /\ now \in Nat
      /\ overlooked = {} /\ conn.cursor <= now
      /\ \A i \in Items : at[i] \in Nat /\ at[i] <= now
      /\ \A r \in Runs : /\ sync[r] \in SyncRun
                         /\ sync[r].from \in Nat /\ sync[r].newest \in Nat
                         /\ sync[r].phase = "fetching" => RunIsInclusive(r)
  BY <1>1, SyncConstants DEF ExportInvariant, SyncInvariant, TypeOK, Connection, SyncRun,
     ExportIsInclusive, RunIsInclusive
<1>3. CASE Tick
  BY <1>1, <1>2, <1>3 DEF Tick, ExportIsInclusive, RunIsInclusive, SyncRun
<1>4. ASSUME NEW i \in Items, Publish(i) PROVE ExportIsInclusive'
  <2>1. /\ UNCHANGED <<now, conn>> /\ at[i] = 0 /\ at'[i] = now
        /\ \A j \in Items : j # i => at'[j] = at[j]
    BY <1>2, <1>4 DEF Publish, TypeOK
  <2>2. overlooked' = {}
    BY <1>1, <1>2, <1>4 DEF Publish, Since
  <2>3. ASSUME NEW r \in Runs, sync'[r].phase = "fetching" PROVE RunIsInclusive(r)'
    <3>1. sync'[r] = IF Escapes(i, r) THEN [sync[r] EXCEPT !.missed = @ \cup {i}] ELSE sync[r]
      BY <1>4 DEF Publish
    <3>2. /\ sync'[r].phase = sync[r].phase /\ sync'[r].from = sync[r].from
          /\ sync'[r].todo = sync[r].todo /\ sync'[r].newest = sync[r].newest
          /\ sync'[r].missed = IF Escapes(i, r) THEN sync[r].missed \cup {i}
                               ELSE sync[r].missed
      BY <1>2, <3>1 DEF SyncRun
    <3>3. RunIsInclusive(r) /\ sync[r].missed \in SUBSET Items
      BY <1>2, <2>3, <3>2 DEF SyncRun
    <3>4. Escapes(i, r) => sync[r].todo = {}
      <4>1. sync[r].from <= now /\ Home[i] \in Containers
        BY <1>2, <3>3, SyncConstants DEF RunIsInclusive
      <4>2. Since(provider, sync[r].from, now)
        BY <1>1, <1>2, <4>1 DEF Since
      <4> QED
        BY <3>3, <4>1, <4>2 DEF Escapes, RunIsInclusive
    <3>5. ASSUME NEW j \in sync'[r].missed PROVE sync'[r].newest <= at'[j]
      <4>1. CASE j = i
        BY <2>1, <3>2, <3>3, <4>1 DEF RunIsInclusive
      <4>2. CASE j # i
        BY <2>1, <3>2, <3>3, <3>5, <4>2 DEF RunIsInclusive
      <4> QED
        BY <4>1, <4>2
    <3> QED
      BY <2>1, <3>2, <3>3, <3>4, <3>5 DEF RunIsInclusive
  <2>4. \A j \in Items : at'[j] <= now'
    BY <1>2, <2>1
  <2> QED
    BY <1>2, <2>1, <2>2, <2>3, <2>4 DEF ExportIsInclusive, RunIsInclusive
<1>5. CASE UNCHANGED <<at, now, conn, sync, overlooked>>
  BY <1>1, <1>2, <1>5 DEF ExportIsInclusive, RunIsInclusive
<1>6. ASSUME NEW r \in Runs, UNCHANGED <<at, now, overlooked>>, EndRun(r), conn'.cursor <= now
      PROVE  ExportIsInclusive'
  <2>1. sync'[r].phase = "idle" /\ \A q \in Runs : q # r => sync'[q] = sync[q]
    BY <1>2, <1>6, RunEnds
  <2> QED
    BY <1>1, <1>2, <1>6, <2>1, OtherRunsInclusive
<1>7. ASSUME NEW r \in Runs, Commit(r) PROVE ExportIsInclusive'
  <2>1. RunIsInclusive(r) /\ NextCursor(r) \in Nat /\ NextCursor(r) <= sync[r].newest
    BY <1>2, <1>7 DEF Commit, NextCursor, RunIsInclusive
  <2>2. conn'.cursor = NextCursor(r)
    BY <1>7 DEF Commit
  <2>3. ASSUME NEW i \in sync[r].missed PROVE ~Passed(i, NextCursor(r))
    <3>1. i \in Items /\ sync[r].newest <= at[i]
      BY <1>2, <2>1, <2>3 DEF RunIsInclusive, SyncRun
    <3> QED
      BY <1>1, <1>2, <2>1, <3>1 DEF Passed, Since
  <2>4. overlooked' = {}
    BY <1>2, <1>7, <2>3 DEF Commit
  <2>5. conn'.cursor <= now
    BY <1>2, <2>1, <2>2 DEF RunIsInclusive
  <2> QED
    BY <1>2, <1>6, <1>7, <2>4, <2>5 DEF Commit
<1>8. ASSUME NEW r \in Runs, Kill(r) PROVE ExportIsInclusive'
  BY <1>2, <1>6, <1>8 DEF Kill
<1>9. ASSUME NEW r \in Runs, NEW answer \in Answers, BeginSync(r, answer)
      PROVE  ExportIsInclusive'
  <2> DEFINE begun ==
        [phase |-> "fetching", from |-> conn.cursor, todo |-> Containers,
         got |-> {}, newest |-> conn.cursor, held |-> FALSE, missed |-> {}]
  <2>1. Listed(provider, answer) = "items" /\ Scope = Containers
    BY <1>1 DEF Listed, Scope, Picks
  <2>2. {i \in Appeared : Home[i] \notin Scope} = {}
    BY <2>1, SyncConstants DEF Appeared
  <2>3. sync' = [sync EXCEPT ![r] = begun] /\ UNCHANGED <<conn, at, now, overlooked>>
    BY <1>9, <2>1, <2>2 DEF BeginSync
  <2>4. sync'[r] = begun /\ \A q \in Runs : q # r => sync'[q] = sync[q]
    <3> HIDE DEF begun
    <3> QED
      BY <1>2, <2>3 DEF TypeOK
  <2>5. RunIsInclusive(r)'
    BY <1>2, <2>3, <2>4 DEF RunIsInclusive
  <2> QED
    BY <1>1, <1>2, <2>3, <2>4, <2>5, OtherRunsInclusive
<1>10. ASSUME NEW r \in Runs, NEW answer \in Answers, NEW C \in Queries(r), Read(r, C, answer)
       PROVE  ExportIsInclusive'
  <2> DEFINE new == Fetched(r, C)
             seen == FetchedAt(r, C)
  <2>1. Taken(provider, answer) = "items"
    BY <1>1, <1>10 DEF Read, Taken, ZendeskExport, Raised
  <2>2. C = sync[r].todo /\ C # {}
    BY <1>1, <1>10 DEF Read, Queries, Whole
  <2>3. /\ UNCHANGED <<at, now, conn, overlooked>>
        /\ sync'[r].from = sync[r].from /\ sync'[r].phase = sync[r].phase
        /\ sync'[r].todo = {} /\ sync'[r].missed = sync[r].missed
        /\ sync'[r].newest = MaxOf(sync[r].newest, seen)
        /\ \A q \in Runs : q # r => sync'[q] = sync[q]
    <3>1. UNCHANGED <<at, now, conn, overlooked>>
      BY <1>10 DEF Read
    <3>2. sync[r].todo \ C = {}
      BY <2>2
    <3>3. ~Refused(answer)
      BY <2>1 DEF Refused
    <3> QED
      BY <1>2, <1>10, <2>1, <3>1, <3>2, <3>3, ReadSets
  <2>4. ASSUME sync[r].phase = "fetching" PROVE RunIsInclusive(r)'
    <3>1. RunIsInclusive(r) /\ sync[r].missed = {}
      BY <1>2, <2>2, <2>4 DEF RunIsInclusive
    <3>2. /\ seen \in SUBSET (0..MaxTime) /\ sync[r].newest \in 0..MaxTime
          /\ \A n \in seen : n <= now
      BY <1>2 DEF FetchedAt, Fetched, Appeared, TypeOK, SyncRun
    <3> HIDE DEF seen
    <3>3. /\ MaxOf(sync[r].newest, seen) \in seen \cup {sync[r].newest}
          /\ MaxOf(sync[r].newest, seen) \in Nat
          /\ sync[r].newest <= MaxOf(sync[r].newest, seen)
      BY <3>2, MaxOfBounds, SyncConstants
    <3>4. MaxOf(sync[r].newest, seen) <= now
      BY <3>1, <3>2, <3>3 DEF RunIsInclusive
    <3>5. sync[r].from <= MaxOf(sync[r].newest, seen)
      BY <1>2, <3>1, <3>3 DEF RunIsInclusive
    <3> QED
      BY <2>3, <3>1, <3>4, <3>5 DEF RunIsInclusive
  <2> HIDE DEF seen
  <2> QED
    BY <1>1, <1>2, <2>3, <2>4, OtherRunsInclusive
<1>19. ASSUME NEW r \in Runs, NEW C \in Queries(r), NEW bound \in 1..MaxTime,
              ReadLate(r, C, bound)
       PROVE  ExportIsInclusive'
  BY <1>1, <1>19 DEF ReadLate
<1>11. ASSUME NEW r \in Runs, NEW answer \in Answers, NEW C \in Queries(r),
              FailRead(r, C, answer)
       PROVE  ExportIsInclusive'
  <2>1. conn'.cursor = conn.cursor
    BY <1>2, <1>11 DEF FailRead, MarkError, Connection
  <2> QED
    BY <1>2, <1>6, <1>11, <2>1 DEF FailRead
<1>12. ASSUME NEW r \in Runs, NEW part \in SUBSET sync[r].got, CommitPart(r, part)
       PROVE  ExportIsInclusive'
  BY <1>2, <1>6, <1>12 DEF CommitPart
<1>13. CASE Disconnect
  BY <1>2, <1>13 DEF Disconnect, NoConnection, NoSync, ExportIsInclusive
<1>14. CASE Connect
  <2>1. conn'.cursor = conn.cursor
    BY <1>2, <1>14 DEF Connect, Connection
  <2> QED
    BY <1>1, <1>2, <1>14, <2>1 DEF Connect, ExportIsInclusive, RunIsInclusive
<1>15. ASSUME NEW i \in Items, Deliver(i) PROVE ExportIsInclusive'
  BY <1>5, <1>15 DEF Deliver
<1>16. ASSUME NEW S \in SUBSET Containers, Select(S) PROVE ExportIsInclusive'
  BY <1>5, <1>16 DEF Select
<1> QED
  BY <1>3, <1>4, <1>5, <1>7, <1>8, <1>9, <1>10, <1>11, <1>12, <1>13, <1>14, <1>15, <1>16, <1>19
  DEF Next, vars

\* The export's bound includes the cursor: whatever Zendesk's cursor passed is stored.
THEOREM ZendeskExportIsComplete == Spec => []ZendeskLosesNothing
<1>1. Init => ExportIsInclusive
  BY SyncConstants DEF Init, ExportIsInclusive, NoSync
<1>2. ExportInvariant /\ [Next]_vars => ExportInvariant'
  BY NextKeeps, ExportStep DEF ExportInvariant
<1>3. Spec => []ExportInvariant
  BY <1>1, <1>2, InitHolds, PTL DEF Spec, ExportInvariant
<1>4. ExportInvariant => ZendeskLosesNothing
  BY DEF ExportInvariant, ExportIsInclusive, SyncInvariant, OnlyOverlookedAreLost,
     ZendeskLosesNothing
<1> QED
  BY <1>3, <1>4, PTL

-------------------------------------------------------------------------------
(***************************************************************************)
(* Theorems about connections with an opaque cursor, for any finite set of *)
(* items, any size of a chunk and any number of runs that overlap.         *)
(***************************************************************************)

FetchRow == [phase: {"idle", "listing", "changes", "reading"}, whole: BOOLEAN,
             at: Positions, todo: SUBSET Files, got: SUBSET Files]
FeedRow == [status: {"absent", "connected", "error"}, cursor: Cursors]

\* Every item up to the position upto is stored, deleted, or one of S.
Covered(upto, S) == \A i \in There : change[i] <= upto => i \in kept \cup gone \cup S

FetchesCover == \A r \in Fetchers : Covered(fetch[r].at, fetch[r].todo \cup fetch[r].got)

\* A continuation only exists while a backfill goes on; one that has not begun has all
\* items before it.
Shapes ==
  /\ feed.cursor.kind = "at" => feed.cursor.left = {}
  /\ feed.cursor.kind = "none" => feed.cursor.left = Files
  /\ \A r \in Fetchers : fetch[r].phase = "changes" => fetch[r].todo = {} /\ fetch[r].got = {}

\* No position lies in the future.
Bounded == feed.cursor.at <= Latest /\ \A r \in Fetchers : fetch[r].at <= Latest

FeedInvariant == FeedTypeOK /\ Shapes /\ Bounded /\ FeedPassesNothing /\ FetchesCover

-------------------------------------------------------------------------------
LEMMA FilesAreFinite == IsFiniteSet(Files) /\ Cardinality(Files) \in Nat
BY FeedConstants, FS_CardinalityType

LEMMA LatestType == There \subseteq Files /\ IsFiniteSet(There) /\ Latest \in Positions
<1>1. There \in SUBSET Files
  BY DEF There
<1>2. IsFiniteSet(There) /\ Cardinality(There) <= Cardinality(Files)
  BY <1>1, FilesAreFinite, FS_Subset
<1>3. Cardinality(There) \in Nat
  BY <1>2, FS_CardinalityType
<1> QED
  BY <1>1, <1>2, <1>3, FilesAreFinite DEF Latest, Positions

LEMMA AddIsNext ==
  ASSUME FeedTypeOK, NEW i \in Files, NEW refuses \in BOOLEAN, Add(i, refuses)
  PROVE  /\ There' = There \cup {i} /\ i \notin There
         /\ change' = [change EXCEPT ![i] = Latest + 1]
         /\ Latest' = Latest + 1 /\ Latest \in Nat /\ Latest + 1 \in Positions
<1>1. Latest \in Nat /\ Latest \in Positions /\ IsFiniteSet(There) /\ There \subseteq Files
  BY LatestType, FilesAreFinite DEF Positions
<1>2. i \notin There /\ change' = [change EXCEPT ![i] = Latest + 1]
  BY DEF Add, There
<1>3. There' = There \cup {i}
  <2>1. \A j \in Files : change'[j] = IF j = i THEN Latest + 1 ELSE change[j]
    BY <1>2 DEF FeedTypeOK
  <2>2. Latest + 1 # 0
    BY <1>1
  <2> QED
    BY <2>1, <2>2 DEF There
<1>4. Latest' = Latest + 1
  BY <1>1, <1>2, <1>3, FS_AddElement DEF Latest
<1>5. There' \in SUBSET Files
  BY <1>1, <1>3
<1>6. Cardinality(There') <= Cardinality(Files)
  BY <1>5, FilesAreFinite, FS_Subset
<1>7. Latest + 1 \in Positions
  BY <1>1, <1>4, <1>6, FilesAreFinite DEF Latest, Positions
<1> QED
  BY <1>1, <1>2, <1>3, <1>4, <1>7

\* Only Add changes what is there.
LEMMA SameThere == ASSUME UNCHANGED change PROVE There' = There /\ Latest' = Latest
BY DEF There, Latest

LEMMA NoFetchType == NoFetch \in FetchRow
BY FilesAreFinite DEF NoFetch, FetchRow, Positions

LEMMA NoCursorType == NoCursor \in Cursors
BY FilesAreFinite DEF NoCursor, Cursors, Positions

-------------------------------------------------------------------------------
LEMMA FeedInitHolds == FeedInit => FeedInvariant
<1> SUFFICES ASSUME FeedInit PROVE FeedInvariant
  OBVIOUS
<1>1. There = {} /\ Latest \in Nat
  BY LatestType, FilesAreFinite DEF FeedInit, There, Positions
<1>2. FeedTypeOK
  BY <1>1, NoFetchType, NoCursorType, FilesAreFinite DEF FeedInit, FeedTypeOK, FetchRow, Positions
<1> QED
  BY <1>1, <1>2 DEF FeedInit, FeedInvariant, Shapes, Bounded, FeedPassesNothing, FetchesCover,
     Covered, NoCursor, NoFetch

LEMMA FeedTypesKept == FeedTypeOK /\ [FeedNext]_feedVars => FeedTypeOK'
<1> SUFFICES ASSUME FeedTypeOK, [FeedNext]_feedVars PROVE FeedTypeOK'
  OBVIOUS
<1> USE LatestType, FilesAreFinite
<1>0. Latest \in Nat /\ 0 \in Positions /\ fetch \in [Fetchers -> FetchRow] /\ feed \in FeedRow
  BY DEF FeedTypeOK, FetchRow, FeedRow, Positions
<1>a. ASSUME NEW r \in Fetchers PROVE fetch[r] \in FetchRow
  BY <1>0
<1>b. ASSUME UNCHANGED <<kind, change, gone, hard, oldest>>, feed' \in FeedRow, kept' \subseteq Files,
             fetch' \in [Fetchers -> FetchRow]
      PROVE  FeedTypeOK'
  BY <1>b, SameThere DEF FeedTypeOK, FetchRow, FeedRow
<1>c. kept \subseteq Files
  BY DEF FeedTypeOK
<1>1. ASSUME NEW i \in Files, NEW refuses \in BOOLEAN, Add(i, refuses) PROVE FeedTypeOK'
  <2>1. /\ There' = There \cup {i} /\ change' = [change EXCEPT ![i] = Latest + 1]
        /\ Latest' = Latest + 1 /\ Latest + 1 \in Positions
    BY <1>1, AddIsNext
  <2>2. oldest \in 0..Latest'
    BY <2>1, <1>0 DEF FeedTypeOK
  <2>3. change' \in [Files -> Positions]
    BY <2>1 DEF FeedTypeOK
  <2>4. UNCHANGED <<kind, gone, oldest, feed, fetch, kept>> /\ hard' \subseteq There'
    BY <1>1, <2>1 DEF Add, FeedTypeOK
  <2> QED
    BY <2>1, <2>2, <2>3, <2>4 DEF FeedTypeOK
<1>2. ASSUME NEW i \in Files, RemoveFile(i) PROVE FeedTypeOK'
  BY <1>2, SameThere DEF RemoveFile, FeedTypeOK
<1>3. CASE DropHistory
  BY <1>3, <1>0, SameThere DEF DropHistory, FeedTypeOK
<1>4. ASSUME NEW r \in Fetchers, BeginFetch(r) PROVE FeedTypeOK'
  <2> DEFINE c == feed.cursor
             row == [NoFetch EXCEPT !.phase = IF c.kind = "at" THEN "changes" ELSE "listing",
                                    !.at = IF c.kind = "none" THEN Latest ELSE c.at,
                                    !.todo = c.left, !.whole = c.kind # "at"]
  <2>1. c \in Cursors
    BY <1>0 DEF FeedRow
  <2>2. row \in FetchRow
    BY <2>1, NoFetchType DEF FetchRow, Cursors, NoFetch
  <2>3. fetch' = [fetch EXCEPT ![r] = row] /\ UNCHANGED <<kind, change, gone, hard, oldest, feed, kept>>
    BY <1>4 DEF BeginFetch
  <2> HIDE DEF row
  <2> QED
    BY <1>0, <1>b, <1>c, <2>2, <2>3
<1>5. ASSUME NEW r \in Fetchers, ListPages(r) PROVE FeedTypeOK'
  <2>1. fetch' \in [Fetchers -> FetchRow]
    BY <1>5, <1>0, <1>a DEF ListPages, FetchRow
  <2> QED
    BY <1>0, <1>b, <1>c, <1>5, <2>1 DEF ListPages
<1>6. ASSUME NEW r \in Fetchers, ListChanges(r) PROVE FeedTypeOK'
  <2> DEFINE row == [NoFetch EXCEPT !.at = Latest, !.whole = Dropped(r),
                       !.phase = IF Dropped(r) THEN "listing" ELSE "reading",
                       !.todo = IF Dropped(r) THEN Files ELSE Changed(fetch[r].at)]
  <2>1. Changed(fetch[r].at) \subseteq Files /\ Dropped(r) \in BOOLEAN
    BY DEF Changed, Dropped
  <2>2. row \in FetchRow
    <3> HIDE DEF Changed, Dropped
    <3> QED
      BY <2>1, NoFetchType DEF FetchRow, NoFetch
  <2>3. fetch' = [fetch EXCEPT ![r] = row] /\ UNCHANGED <<kind, change, gone, hard, oldest, feed, kept>>
    BY <1>6 DEF ListChanges
  <2> HIDE DEF row
  <2> QED
    BY <1>0, <1>b, <1>c, <2>2, <2>3
<1>7. ASSUME NEW r \in Fetchers, CommitFetch(r) PROVE FeedTypeOK'
  <2>1. fetch[r] \in FetchRow
    BY <1>a
  <2>2. NextFeedCursor(r) \in Cursors
    BY <2>1 DEF NextFeedCursor, Continuation, Incremental, TakenFirst, Cursors, FetchRow
  <2>3. feed' \in FeedRow /\ fetch' \in [Fetchers -> FetchRow]
    BY <1>0, <1>7, <2>2, NoFetchType DEF CommitFetch, FeedRow
  <2>4. kept' \subseteq Files
    BY <1>7, <2>1 DEF CommitFetch, FetchRow, FeedTypeOK
  <2> QED
    BY <1>b, <1>7, <2>3, <2>4 DEF CommitFetch
<1>8. ASSUME NEW r \in Fetchers, NEW breaks \in BOOLEAN, KillFetch(r, breaks) PROVE FeedTypeOK'
  <2>1. fetch' \in [Fetchers -> FetchRow] /\ feed' \in FeedRow
    BY <1>0, <1>8, NoFetchType DEF KillFetch, FeedRow
  <2> QED
    BY <1>b, <1>c, <1>8, <2>1 DEF KillFetch
<1>9. ASSUME NEW r \in Fetchers, NEW i \in Files, NEW answer \in Answers, ReadItem(r, i, answer)
      PROVE  FeedTypeOK'
  <2>1. fetch' \in [Fetchers -> FetchRow]
    BY <1>0, <1>a, <1>9 DEF ReadItem, FetchRow
  <2> QED
    BY <1>0, <1>b, <1>c, <1>9, <2>1 DEF ReadItem
<1>10. ASSUME NEW r \in Fetchers, NEW i \in Files, NEW answer \in Answers, FailItem(r, i, answer)
       PROVE  FeedTypeOK'
  <2>1. fetch' \in [Fetchers -> FetchRow] /\ feed' \in FeedRow
    BY <1>0, <1>10, NoFetchType DEF FailItem, FeedRow
  <2> QED
    BY <1>b, <1>c, <1>10, <2>1 DEF FailItem
<1>11. CASE DisconnectFeed
  <2>1. fetch' \in [Fetchers -> FetchRow] /\ feed' \in FeedRow
    BY <1>11, NoFetchType, NoCursorType DEF DisconnectFeed, FeedRow
  <2> QED
    BY <1>b, <1>c, <1>11, <2>1 DEF DisconnectFeed
<1>12. CASE ConnectFeed
  <2>1. feed' \in FeedRow
    BY <1>0, <1>12 DEF ConnectFeed, FeedRow
  <2> QED
    BY <1>0, <1>b, <1>c, <1>12, <2>1 DEF ConnectFeed
<1>13. CASE UNCHANGED feedVars
  BY <1>13, SameThere DEF feedVars, FeedTypeOK
<1> QED
  BY <1>1, <1>2, <1>3, <1>4, <1>5, <1>6, <1>7, <1>8, <1>9, <1>10, <1>11, <1>12, <1>13 DEF FeedNext

-------------------------------------------------------------------------------
\* What is covered stays covered while nothing is added.
LEMMA CoveredGrows ==
  ASSUME UNCHANGED change, kept \subseteq kept', gone \subseteq gone', NEW upto, NEW S,
         Covered(upto, S)
  PROVE  Covered(upto, S)'
BY SameThere DEF Covered

LEMMA FeedInvariantKept == FeedInvariant /\ [FeedNext]_feedVars => FeedInvariant'
<1> SUFFICES ASSUME FeedInvariant, [FeedNext]_feedVars PROVE FeedInvariant'
  OBVIOUS
<1>0. FeedTypeOK /\ FeedTypeOK'
  BY FeedTypesKept DEF FeedInvariant
<1> USE LatestType, FilesAreFinite
<1>a. /\ Latest \in Nat /\ fetch \in [Fetchers -> FetchRow] /\ feed \in FeedRow
      /\ feed.cursor.at \in Nat
  BY <1>0 DEF FeedTypeOK, FetchRow, FeedRow, Positions, Cursors
<1>b. ASSUME NEW r \in Fetchers PROVE fetch[r] \in FetchRow /\ fetch[r].at \in Nat
  BY <1>a DEF FetchRow, Positions
<1>c. FeedPassesNothing <=> Covered(feed.cursor.at, feed.cursor.left)
  BY DEF FeedPassesNothing, Covered
<1>d. FeedPassesNothing' <=> Covered(feed.cursor.at, feed.cursor.left)'
  BY DEF FeedPassesNothing, Covered
<1>1. ASSUME NEW i \in Files, NEW refuses \in BOOLEAN, Add(i, refuses) PROVE FeedInvariant'
  <2>1. /\ There' = There \cup {i} /\ i \notin There
        /\ change' = [change EXCEPT ![i] = Latest + 1] /\ Latest' = Latest + 1
    BY <1>0, <1>1, AddIsNext
  <2>2. UNCHANGED <<feed, fetch, kept, gone>>
    BY <1>1 DEF Add
  <2>3. ASSUME NEW upto \in Nat, upto <= Latest, NEW S,
               Covered(upto, S)
        PROVE  Covered(upto, S)'
    <3>1. ASSUME NEW j \in There', change'[j] <= upto PROVE j \in There /\ change'[j] = change[j]
      BY <1>0, <1>a, <2>1, <2>3, <3>1 DEF FeedTypeOK
    <3> QED
      BY <2>2, <2>3, <3>1 DEF Covered
  <2>4. FetchesCover'
    BY <1>b, <2>2, <2>3 DEF FeedInvariant, FetchesCover, Bounded
  <2>5. FeedPassesNothing'
    BY <1>a, <1>c, <1>d, <2>2, <2>3 DEF FeedInvariant, Bounded
  <2>6. Bounded'
    BY <1>a, <1>b, <2>1, <2>2 DEF FeedInvariant, Bounded
  <2> QED
    BY <1>0, <2>2, <2>4, <2>5, <2>6 DEF FeedInvariant, Shapes
<1> DEFINE FeedStays ==
      /\ UNCHANGED change /\ kept \subseteq kept' /\ gone \subseteq gone'
\* The rows of the runs that a step does not touch.
<1>e. ASSUME FeedStays, NEW r \in Fetchers, fetch' \in [Fetchers -> FetchRow],
             \A q \in Fetchers \ {r} : fetch'[q] = fetch[q],
             fetch'[r].at <= Latest, Covered(fetch[r].at, fetch[r].todo \cup fetch[r].got)',
             fetch'[r].phase = "changes" => fetch'[r].todo = {} /\ fetch'[r].got = {},
             UNCHANGED feed
      PROVE  FeedInvariant'
  <2>1. FetchesCover'
    <3> SUFFICES ASSUME NEW q \in Fetchers
                 PROVE  Covered(fetch[q].at, fetch[q].todo \cup fetch[q].got)'
      BY DEF FetchesCover
    <3>1. CASE q # r
      <4>1. Covered(fetch[q].at, fetch[q].todo \cup fetch[q].got)
        BY DEF FeedInvariant, FetchesCover
      <4> QED
        BY <1>e, <3>1, <4>1, CoveredGrows DEF Covered
    <3> QED
      BY <1>e, <3>1
  <2>2. FeedPassesNothing'
    BY <1>c, <1>d, <1>e, CoveredGrows DEF FeedInvariant
  <2>3. Bounded'
    BY <1>e, SameThere DEF FeedInvariant, Bounded
  <2>4. Shapes'
    BY <1>e DEF FeedInvariant, Shapes
  <2> QED
    BY <1>0, <2>1, <2>2, <2>3, <2>4 DEF FeedInvariant
\* Runs that end hold nothing any more.
<1>f. ASSUME FeedStays, NEW R \in SUBSET Fetchers,
             \A q \in Fetchers : fetch'[q] = IF q \in R THEN NoFetch ELSE fetch[q],
             UNCHANGED feed \/ feed'.cursor = feed.cursor \/ feed'.cursor = NoCursor
                            \/ (/\ feed'.cursor.at <= Latest
                                /\ Covered(feed.cursor.at, feed.cursor.left)'
                                /\ feed'.cursor.kind = "at" => feed'.cursor.left = {}
                                /\ feed'.cursor.kind # "none")
      PROVE  FeedInvariant'
  <2>1. FetchesCover'
    <3> SUFFICES ASSUME NEW q \in Fetchers
                 PROVE  Covered(fetch[q].at, fetch[q].todo \cup fetch[q].got)'
      BY DEF FetchesCover
    <3>1. CASE q \notin R
      <4>1. Covered(fetch[q].at, fetch[q].todo \cup fetch[q].got)
        BY DEF FeedInvariant, FetchesCover
      <4> QED
        BY <1>f, <3>1, <4>1, CoveredGrows DEF Covered
    <3>2. CASE q \in R
      <4>1. fetch'[q].at = 0
        BY <1>f, <3>2 DEF NoFetch
      <4>2. \A j \in There' : ~(change'[j] <= 0)
        BY <1>0 DEF FeedTypeOK, There, Positions
      <4> QED
        BY <4>1, <4>2 DEF Covered
    <3> QED
      BY <3>1, <3>2
  <2>2. FeedPassesNothing'
    <3>1. CASE feed'.cursor = feed.cursor
      BY <1>c, <1>d, <1>f, <3>1, CoveredGrows DEF FeedInvariant, Covered
    <3>2. CASE feed'.cursor = NoCursor
      <4>1. There' \subseteq Files
        BY DEF There
      <4> QED
        BY <3>2, <4>1 DEF FeedPassesNothing, NoCursor
    <3>3. CASE Covered(feed.cursor.at, feed.cursor.left)'
      BY <1>d, <3>3
    <3> QED
      BY <1>f, <3>1, <3>2, <3>3
  <2>3. Bounded'
    <3>1. feed'.cursor.at <= Latest
      BY <1>a, <1>f DEF FeedInvariant, Bounded, NoCursor
    <3>2. \A q \in Fetchers : fetch'[q].at <= Latest
      BY <1>a, <1>f DEF FeedInvariant, Bounded, NoFetch
    <3> QED
      BY <1>f, <3>1, <3>2, SameThere DEF Bounded
  <2>4. Shapes'
    BY <1>f DEF FeedInvariant, Shapes, NoCursor, NoFetch
  <2> QED
    BY <1>0, <2>1, <2>2, <2>3, <2>4 DEF FeedInvariant
\* Steps that leave the cursor and the runs alone.
<1>g. ASSUME FeedStays, fetch' = fetch, feed'.cursor = feed.cursor PROVE FeedInvariant'
  <2> DEFINE R == {}
  <2>1. R \in SUBSET Fetchers /\ \A q \in Fetchers : fetch'[q] = IF q \in R THEN NoFetch ELSE fetch[q]
    BY <1>g
  <2> HIDE DEF R
  <2> QED
    BY <1>f, <1>g, <2>1
<1>2. ASSUME NEW i \in Files, RemoveFile(i) PROVE FeedInvariant'
  <2>1. FeedStays /\ fetch' = fetch /\ feed'.cursor = feed.cursor
    BY <1>2 DEF RemoveFile
  <2> QED
    BY <1>g, <2>1
<1>3. CASE DropHistory
  <2>1. FeedStays /\ fetch' = fetch /\ feed'.cursor = feed.cursor
    BY <1>3 DEF DropHistory
  <2> QED
    BY <1>g, <2>1
<1>4. ASSUME NEW r \in Fetchers, BeginFetch(r) PROVE FeedInvariant'
  <2> DEFINE c == feed.cursor
  <2>1. /\ fetch'[r].at = IF c.kind = "none" THEN Latest ELSE c.at
        /\ fetch'[r].todo = c.left /\ fetch'[r].got = {}
        /\ fetch'[r].phase = "changes" => c.kind = "at"
        /\ \A q \in Fetchers \ {r} : fetch'[q] = fetch[q]
    BY <1>4, <1>a DEF BeginFetch, NoFetch
  <2>2. Covered(fetch[r].at, fetch[r].todo \cup fetch[r].got)'
    <3>1. CASE c.kind = "none"
      <4>1. fetch'[r].todo = Files /\ There' \subseteq Files
        BY <2>1, <3>1 DEF FeedInvariant, Shapes, There
      <4> QED
        BY <4>1 DEF Covered
    <3>2. CASE c.kind # "none"
      BY <1>4, <1>c, <2>1, <3>2, SameThere DEF BeginFetch, FeedInvariant, Covered
    <3> QED
      BY <3>1, <3>2
  <2>3. fetch'[r].at <= Latest
    BY <1>a, <2>1 DEF FeedInvariant, Bounded
  <2>4. fetch'[r].phase = "changes" => fetch'[r].todo = {} /\ fetch'[r].got = {}
    BY <2>1 DEF FeedInvariant, Shapes
  <2>5. FeedStays /\ UNCHANGED feed /\ fetch' \in [Fetchers -> FetchRow]
    BY <1>0, <1>4 DEF BeginFetch, FeedTypeOK, FetchRow
  <2> QED
    BY <1>e, <2>1, <2>2, <2>3, <2>4, <2>5
<1>5. ASSUME NEW r \in Fetchers, ListPages(r) PROVE FeedInvariant'
  <2>1. /\ fetch'[r].at = fetch[r].at /\ fetch'[r].phase = "reading"
        /\ fetch'[r].todo = (fetch[r].todo \cap There) \ gone
        /\ fetch'[r].got = fetch[r].got
        /\ \A q \in Fetchers \ {r} : fetch'[q] = fetch[q]
    BY <1>5, <1>a, <1>b DEF ListPages, FetchRow
  <2>2. FeedStays /\ UNCHANGED <<feed, gone, kept>> /\ fetch' \in [Fetchers -> FetchRow]
    BY <1>0, <1>5 DEF ListPages, FeedTypeOK, FetchRow
  <2>3. Covered(fetch[r].at, fetch[r].todo \cup fetch[r].got)'
    BY <2>1, <2>2, SameThere DEF FeedInvariant, FetchesCover, Covered
  <2>4. fetch'[r].at <= Latest
    BY <2>1 DEF FeedInvariant, Bounded
  <2> QED
    BY <1>e, <2>1, <2>2, <2>3, <2>4
<1>6. ASSUME NEW r \in Fetchers, ListChanges(r) PROVE FeedInvariant'
  <2>1. /\ fetch'[r].at = Latest /\ fetch'[r].phase # "changes"
        /\ fetch'[r].todo = IF Dropped(r) THEN Files ELSE Changed(fetch[r].at)
        /\ \A q \in Fetchers \ {r} : fetch'[q] = fetch[q]
    BY <1>6, <1>a DEF ListChanges, NoFetch
  <2>2. FeedStays /\ UNCHANGED <<feed, gone, kept, change>> /\ fetch' \in [Fetchers -> FetchRow]
    BY <1>0, <1>6 DEF ListChanges, FeedTypeOK, FetchRow
  <2>3. \A j \in There : change[j] <= fetch[r].at => j \in kept \cup gone
    BY <1>6 DEF ListChanges, FeedInvariant, Shapes, FetchesCover, Covered
  <2>4. \A j \in There : change[j] \in Nat
    BY <1>0 DEF FeedTypeOK, There, Positions
  <2>5. \A j \in There : j \in kept \cup gone \/ j \in fetch'[r].todo
    <3>1. CASE Dropped(r)
      BY <2>1, <3>1 DEF There
    <3>2. CASE ~Dropped(r)
      BY <1>b, <2>1, <2>3, <2>4, <3>2 DEF Changed
    <3> QED
      BY <3>1, <3>2
  <2>6. Covered(fetch[r].at, fetch[r].todo \cup fetch[r].got)'
    BY <2>2, <2>5, SameThere DEF Covered
  <2>7. fetch'[r].at <= Latest
    BY <1>a, <2>1
  <2> QED
    BY <1>e, <2>1, <2>2, <2>6, <2>7
<1>7. ASSUME NEW r \in Fetchers, CommitFetch(r) PROVE FeedInvariant'
  <2>1. FeedStays /\ kept' = kept \cup fetch[r].got /\ gone' = gone /\ UNCHANGED change
    BY <1>7 DEF CommitFetch
  <2>2. /\ feed'.cursor.at = fetch[r].at /\ feed'.cursor.left = fetch[r].todo
        /\ feed'.cursor.kind = "at" => feed'.cursor.left = {}
        /\ feed'.cursor.kind # "none"
    BY <1>7 DEF CommitFetch, NextFeedCursor, Continuation, Incremental, TakenFirst
  <2>3. Covered(fetch[r].at, fetch[r].todo \cup fetch[r].got)
    BY DEF FeedInvariant, FetchesCover
  <2>4. Covered(feed.cursor.at, feed.cursor.left)'
    BY <2>1, <2>2, <2>3, SameThere DEF Covered
  <2>5. feed'.cursor.at <= Latest
    BY <2>2 DEF FeedInvariant, Bounded
  <2>6. \A q \in Fetchers : fetch'[q] = IF q \in {r} THEN NoFetch ELSE fetch[q]
    BY <1>7, <1>a DEF CommitFetch
  <2> QED
    BY <1>f, <2>1, <2>2, <2>4, <2>5, <2>6
<1>8. ASSUME NEW r \in Fetchers, NEW breaks \in BOOLEAN, KillFetch(r, breaks) PROVE FeedInvariant'
  <2>1. \A q \in Fetchers : fetch'[q] = IF q \in {r} THEN NoFetch ELSE fetch[q]
    BY <1>8, <1>a DEF KillFetch
  <2>2. feed'.cursor = feed.cursor /\ FeedStays
    BY <1>8, <1>a DEF KillFetch, FeedRow
  <2> QED
    BY <1>f, <2>1, <2>2
<1>9. ASSUME NEW r \in Fetchers, NEW i \in Files, NEW answer \in Answers, ReadItem(r, i, answer)
      PROVE  FeedInvariant'
  <2>1. /\ fetch'[r].at = fetch[r].at /\ fetch'[r].phase = "reading"
        /\ fetch'[r].todo = fetch[r].todo \ {i} /\ fetch'[r].got = fetch[r].got \cup {i}
        /\ \A q \in Fetchers \ {r} : fetch'[q] = fetch[q]
    BY <1>9, <1>a, <1>b DEF ReadItem, FetchRow
  <2>2. FeedStays /\ UNCHANGED <<feed, gone, kept>> /\ fetch' \in [Fetchers -> FetchRow]
    BY <1>0, <1>9 DEF ReadItem, FeedTypeOK, FetchRow
  <2>3. Covered(fetch[r].at, fetch[r].todo \cup fetch[r].got)'
    BY <2>1, <2>2, SameThere DEF FeedInvariant, FetchesCover, Covered
  <2>4. fetch'[r].at <= Latest
    BY <2>1 DEF FeedInvariant, Bounded
  <2> QED
    BY <1>e, <2>1, <2>2, <2>3, <2>4
<1>10. ASSUME NEW r \in Fetchers, NEW i \in Files, NEW answer \in Answers, FailItem(r, i, answer)
       PROVE  FeedInvariant'
  <2>1. \A q \in Fetchers : fetch'[q] = IF q \in {r} THEN NoFetch ELSE fetch[q]
    BY <1>10, <1>a DEF FailItem
  <2>2. feed'.cursor = feed.cursor /\ FeedStays
    BY <1>10, <1>a DEF FailItem, FeedRow
  <2> QED
    BY <1>f, <2>1, <2>2
<1>11. CASE DisconnectFeed
  <2> DEFINE R == Fetchers
  <2>1. R \in SUBSET Fetchers /\ \A q \in Fetchers : fetch'[q] = IF q \in R THEN NoFetch ELSE fetch[q]
    BY <1>11 DEF DisconnectFeed
  <2>2. feed'.cursor = NoCursor /\ FeedStays
    BY <1>11 DEF DisconnectFeed
  <2> HIDE DEF R
  <2> QED
    BY <1>f, <2>1, <2>2
<1>12. CASE ConnectFeed
  <2>1. feed'.cursor = feed.cursor /\ FeedStays /\ fetch' = fetch
    BY <1>12, <1>a DEF ConnectFeed, FeedRow
  <2> QED
    BY <1>g, <2>1
<1>13. CASE UNCHANGED feedVars
  <2>1. FeedStays /\ fetch' = fetch /\ feed'.cursor = feed.cursor
    BY <1>13 DEF feedVars
  <2> QED
    BY <1>g, <2>1
<1> QED
  BY <1>1, <1>2, <1>3, <1>4, <1>5, <1>6, <1>7, <1>8, <1>9, <1>10, <1>11, <1>12, <1>13 DEF FeedNext

LEMMA FeedInvariantImplies == FeedInvariant => FeedTypeOK /\ FeedPassesNothing
BY DEF FeedInvariant

\* The types of the connection, its runs and Google's side.
THEOREM FeedTypesHold == FeedSpec => []FeedTypeOK
<1> QED
  BY FeedInitHolds, FeedInvariantKept, FeedInvariantImplies, PTL DEF FeedSpec

\* However many runs overlap, in chunks of whatever size, the cursor of a Gmail or Drive
\* connection passes no item that is not stored, deleted, or left for its continuation.
THEOREM FeedLosesNothing == FeedSpec => []FeedPassesNothing
<1> QED
  BY FeedInitHolds, FeedInvariantKept, FeedInvariantImplies, PTL DEF FeedSpec
===============================================================================
