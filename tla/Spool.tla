---------------------------------- MODULE Spool ---------------------------------
(***************************************************************************)
(* The Claude Code plugin (plugin/internal) over one session.  The hooks   *)
(* of the editor are processes that append to the journal of the session;  *)
(* some read it first.  Flushers, detached and serialised by a file lock,  *)
(* assemble the closed segments of the journal, one per turn, push them to *)
(* POST /runs and note which were answered in a sidecar file.              *)
(***************************************************************************)
EXTENDS Naturals, Sequences, FiniteSets

CONSTANTS
  LastTurn,     \* the bound on the prompts of the session
  Tools,        \* the tool calls the agent may make
  TurnOf,       \* TurnOf[t]: the turn t belongs to
  Evidence,     \* Evidence[t]: "test", "commit" or "none"
  Flushers,     \* processes of the flush subcommand
  MinSteps,     \* config.MinSteps
  Attempts,     \* flushAttempts
  MaxDones,     \* the bound on the confirmations
  MaxFaults,    \* the bound on processes killed, files dropped and lines too long
  NoFlusher

Turns == 1..LastTurn

ASSUME SpoolConstants ==
  /\ LastTurn \in Nat /\ MinSteps \in Nat
  /\ Attempts \in Nat \ {0} /\ MaxDones \in Nat /\ MaxFaults \in Nat
  /\ TurnOf \in [Tools -> Turns]
  /\ Evidence \in [Tools -> {"test", "commit", "none"}]
  /\ NoFlusher \notin Flushers
  /\ "message" \notin Tools

VARIABLES
  turn,         \* the turn of the session
  editor,       \* where the editor is in that turn
  tool,         \* tool[t]: where a tool call and its hooks are
  index,        \* index[t]: what the PreToolUse hook of t computed
  hook,         \* hook[h]: the hooks that close segments
  journal,      \* the spool file
  marker,       \* the file a confirmation leaves
  sent,         \* the sidecar of the spool file
  aged,         \* the spool file is a day old
  flusher,      \* flusher[f]
  lock,         \* the holder of flush.lock
  stored,       \* stored[p]: the run the server has for turn p
  refused,      \* the turns whose run the server refused for good
  history       \* what happened, for the properties

vars == <<turn, editor, tool, index, hook, journal, marker, sent, aged, flusher, lock,
          stored, refused, history>>
filed == <<flusher, lock, stored, refused, sent>>

Closers == {"prompt", "stop", "end"}
NoHook == [phase |-> "idle", view |-> <<>>, todo |-> <<>>, label |-> <<>>]
Idle == [phase |-> "idle", queue |-> <<>>, tries |-> 0, complete |-> TRUE, any |-> FALSE,
         read |-> 0]

(***************************************************************************)
(* The records of the journal, and what they are assembled into.           *)
(***************************************************************************)
SegmentOpen(p) == [kind |-> "segment_open", turn |-> p]
StepOpen(t, i) == [kind |-> "step_open", turn |-> TurnOf[t], tool |-> t, index |-> i]
StepClose(t, status) == [kind |-> "step_close", turn |-> TurnOf[t], tool |-> t,
                         status |-> status]
Message(p, i) == [kind |-> "step", turn |-> p, index |-> i]
SegmentClose(p, label) == [kind |-> "segment_close", turn |-> p, label |-> label]

\* A line of over 4 MB: a prompt, a command or arguments.  Read stops before it...
Overlong(p) == [kind |-> "overlong", turn |-> p]
Cropped(j) == \E k \in DOMAIN j : j[k].kind = "overlong"

Of(j, p, kinds) == {k \in DOMAIN j : j[k].turn = p /\ j[k].kind \in kinds}

\* A mutant: it counts the steps that have come back.
Finished(j, p) == Cardinality(Of(j, p, {"step_close"}))

\* spool.NextIndex: the steps opened so far.
NextIndex(j, p) == Cardinality(Of(j, p, {"step_open"}))

IsClosed(j, p) == Of(j, p, {"segment_close"}) # {}

LastOf(S) == CHOOSE k \in S : \A l \in S : l <= k

\* Item(k) of the numbers k of S from 1 to n, in their order.
InOrder(S, n, Item(_)) ==
  LET upTo[k \in 0..n] == IF k = 0 THEN <<>>
                          ELSE IF k \in S THEN Append(upTo[k - 1], Item(k)) ELSE upTo[k - 1]
  IN upTo[n]

\* ... with an error, which the hooks ignore.
Readable(j) ==
  InOrder({k \in DOMAIN j : \A l \in 1..k : j[l].kind # "overlong"}, Len(j), LAMBDA k : j[k])

\* A step that was opened and never closed failed.
Status(j, t) ==
  IF \E k \in DOMAIN j : j[k] = StepClose(t, "ok") THEN "ok" ELSE "error"

StepAt(j, p, i) ==
  LET r == j[LastOf({k \in Of(j, p, {"step_open", "step"}) : j[k].index = i})]
  IN IF r.kind = "step" THEN [call |-> "message", status |-> "ok"]
     ELSE [call |-> r.tool, status |-> Status(j, r.tool)]

\* reconcile and Assemble walk the indices from 0, as many as there are: of two steps
\* with one index the later stays, and behind a hole steps are cut off.
Steps(j, p) ==
  LET indices == {j[k].index : k \in Of(j, p, {"step_open", "step"})}
  IN InOrder({i + 1 : i \in indices}, Cardinality(indices), LAMBDA k : StepAt(j, p, k - 1))

ToolCalls(steps) ==
  InOrder({k \in DOMAIN steps : steps[k].call \in Tools}, Len(steps), LAMBDA k : steps[k])

\* The hook that closes a segment rebuilds its steps by the same rule.
Reconciled(j, p) == Steps(j, p)

\* outcome.Resolve.
TailIsClean(steps) ==
  \A k \in DOMAIN steps : k + 3 > Len(steps) => steps[k].status # "error"

\* A call that is a test or a commit came back with that status.
Ran(steps, e, status) ==
  \E k \in DOMAIN steps :
    steps[k].call \in Tools /\ Evidence[steps[k].call] = e /\ steps[k].status = status

Resolve(steps, confirmed) ==
  LET passed == Ran(steps, "test", "ok") /\ ~Ran(steps, "test", "error")
      committed == Ran(steps, "commit", "ok") /\ ~Ran(steps, "test", "error")
  IN [confirmed |-> confirmed,
      outcome |-> IF confirmed \/ passed \/ committed THEN "success"
                  ELSE IF ~TailIsClean(steps) THEN "failure" ELSE "ambiguous"]

\* The run of a closed segment, the last of whose close records counts.
Run(j, p) ==
  [turn |-> p, steps |-> Steps(j, p), label |-> j[LastOf(Of(j, p, {"segment_close"}))].label]

IsTrivial(steps) == Len(steps) < MinSteps \/ ToolCalls(steps) = <<>>

\* envelope.Build over the segments Assemble found closed, in their order.
Shippable(j) == {p \in Turns : IsClosed(j, p) /\ ~IsTrivial(Steps(j, p))}

-------------------------------------------------------------------------------
Labels == [confirmed : BOOLEAN, outcome : {"success", "failure", "ambiguous"}]
NotStored == [turn |-> 0, steps |-> <<>>, label |-> <<>>]

TypeOK ==
  /\ turn \in 0..LastTurn
  /\ editor \in {"waiting", "prompting", "active", "stopping", "again", "ended"}
  /\ tool \in [Tools -> {"idle", "numbering", "running", "over"}]
  /\ index \in [Tools -> Nat]
  /\ \A h \in Closers :
       /\ hook[h].phase \in {"idle", "saying", "looking", "closing", "clearing",
                           "writing"}
       /\ hook[h].label \in Labels \cup {<<>>}
       /\ \A k \in DOMAIN hook[h].todo : hook[h].todo[k] \in Turns
  /\ \A k \in DOMAIN journal : journal[k].turn \in Turns
  /\ marker \in BOOLEAN /\ aged \in BOOLEAN
  /\ sent \subseteq Turns /\ refused \subseteq Turns
  /\ \A f \in Flushers :
       /\ flusher[f].phase \in {"idle", "spawned", "listing", "pushing", "marking",
                              "removing"}
       /\ flusher[f].tries \in 0..Attempts - 1
  /\ lock \in Flushers \cup {NoFlusher}
  /\ \A p \in Turns : stored[p].turn \in {0, p} /\ stored[p].label \in Labels \cup {<<>>}

\* opened[p]: the calls of turn p in the order their steps were spooled; atClose[p]: how
\* many when it was closed; late: turns that went on after a hook had read the journal to
\* close them; raced: turns in which an index was stale when it was spooled; erased, cut:
\* turns in a file that was removed, and those that went on after it; dones, confirmed:
\* the confirmations given, and the turns closed with one; shared: two hooks saw one
\* confirmation; faults: the processes killed, the files dropped and the lines too long.
Nothing ==
  [opened |-> [p \in Turns |-> <<>>], atClose |-> [p \in Turns |-> 0], late |-> {},
   raced |-> {}, erased |-> {}, cut |-> {}, dones |-> 0, confirmed |-> {},
   shared |-> FALSE, faults |-> 0]

Init ==
  /\ turn = 0 /\ editor = "waiting"
  /\ tool = [t \in Tools |-> "idle"] /\ index = [t \in Tools |-> 0]
  /\ hook = [h \in Closers |-> NoHook]
  /\ journal = <<>> /\ marker = FALSE /\ sent = {} /\ aged = FALSE
  /\ flusher = [f \in Flushers |-> Idle] /\ lock = NoFlusher
  /\ stored = [p \in Turns |-> NotStored] /\ refused = {}
  /\ history = Nothing

\* spool.Append.
Append1(r) == journal' = Append(journal, r) /\ aged' = FALSE

\* What a hook finds in the file.
InFile == Readable(journal)

Faulty == history.faults < MaxFaults
Counted == history' = [history EXCEPT !.faults = @ + 1]

\* A record of a turn some hook is closing or has closed.
Late(p) ==
  IF \/ IsClosed(journal, p)
     \/ \E h \in Closers : \E k \in DOMAIN hook[h].todo : hook[h].todo[k] = p
  THEN history.late \cup {p} ELSE history.late

\* A record of a turn whose file was removed.
Cut(p) == IF p \in history.erased THEN history.cut \cup {p} ELSE history.cut

(***************************************************************************)
(* Tool calls, which run in parallel.                                      *)
(***************************************************************************)
AgentWorks == editor \in {"active", "again"}

\* PreToolUse reads the journal...
StartTool(t) ==
  /\ AgentWorks /\ TurnOf[t] = turn /\ tool[t] = "idle"
  /\ tool' = [tool EXCEPT ![t] = "numbering"]
  /\ index' = [index EXCEPT ![t] = NextIndex(InFile, turn)]
  /\ UNCHANGED <<turn, editor, hook, journal, marker, aged, filed, history>>

\* ... and then appends to it.
OpenStep(t) ==
  LET p == TurnOf[t]
  IN /\ tool[t] = "numbering"
     /\ Append1(StepOpen(t, index[t]))
     /\ tool' = [tool EXCEPT ![t] = IF AgentWorks /\ turn = p THEN "running" ELSE "over"]
     /\ history' = [history EXCEPT
          !.opened[p] = Append(@, t), !.cut = Cut(p), !.late = Late(p),
          !.raced = IF index[t] = NextIndex(journal, p) THEN @ ELSE @ \cup {p}]
     /\ UNCHANGED <<turn, editor, index, hook, marker, filed>>

\* The line is longer than any reader takes.
OverfillStep(t) ==
  LET p == TurnOf[t]
  IN /\ tool[t] = "numbering" /\ Faulty
     /\ Append1(Overlong(p))
     /\ tool' = [tool EXCEPT ![t] = IF AgentWorks /\ turn = p THEN "running" ELSE "over"]
     /\ history' = [history EXCEPT !.faults = @ + 1, !.cut = Cut(p), !.late = Late(p)]
     /\ UNCHANGED <<turn, editor, index, hook, marker, filed>>

\* The hook dies; the tool runs without it.
LoseStep(t) ==
  /\ tool[t] = "numbering" /\ Faulty
  /\ tool' = [tool EXCEPT ![t] = "over"]
  /\ Counted
  /\ UNCHANGED <<turn, editor, index, hook, journal, marker, aged, filed>>

\* PostToolUse.
CloseStep(t, status) ==
  /\ tool[t] = "running"
  /\ Append1(StepClose(t, status))
  /\ tool' = [tool EXCEPT ![t] = "over"]
  /\ history' = [history EXCEPT !.cut = Cut(TurnOf[t]), !.late = Late(TurnOf[t])]
  /\ UNCHANGED <<turn, editor, index, hook, marker, filed>>

\* A call that fails or is denied has no PostToolUse.
FailTool(t) ==
  /\ tool[t] = "running"
  /\ tool' = [tool EXCEPT ![t] = "over"]
  /\ UNCHANGED <<turn, editor, index, hook, journal, marker, aged, filed, history>>

(***************************************************************************)
(* The hooks that close segments.                                          *)
(***************************************************************************)
InFlight(t) == tool[t] \in {"numbering", "running"}
HookIdle(h) == hook[h].phase = "idle"

\* The turns a hook finds open, and the turn of the session if it does.
Unclosed(j) ==
  InOrder({p \in Turns : Of(j, p, {"segment_open"}) # {} /\ ~IsClosed(j, p)}, LastTurn,
          LAMBDA p : p)
Current(j) == IF IsClosed(j, turn) THEN <<>> ELSE <<turn>>

Closing(view, todo) == [phase |-> "closing", view |-> view, todo |-> todo, label |-> <<>>]

\* UserPromptSubmit closes what is open before it opens a segment.
BeginPrompt ==
  /\ editor = "waiting" /\ turn < LastTurn /\ HookIdle("prompt")
  /\ editor' = "prompting" /\ turn' = turn + 1
  /\ hook' = [hook EXCEPT !["prompt"] = Closing(InFile, Unclosed(InFile))]
  /\ UNCHANGED <<tool, index, journal, marker, aged, filed, history>>

\* Stop spools the last message, if there is one, at the index after the steps it has read.
BeginStop(speaks) ==
  /\ editor = "active" /\ HookIdle("stop")
  /\ \A t \in Tools : TurnOf[t] = turn => ~InFlight(t)
  /\ editor' = "stopping"
  /\ hook' = [hook EXCEPT !["stop"] =
       IF speaks THEN [NoHook EXCEPT !.phase = "saying", !.view = InFile]
       ELSE Closing(InFile, Current(InFile))]
  /\ UNCHANGED <<turn, tool, index, journal, marker, aged, filed, history>>

Say ==
  LET i == NextIndex(hook["stop"].view, turn)
  IN /\ hook["stop"].phase = "saying"
     /\ Append1(Message(turn, i))
     /\ hook' = [hook EXCEPT !["stop"].phase = "looking"]
     /\ history' = [history EXCEPT !.cut = Cut(turn), !.late = Late(turn),
          !.raced = IF i = NextIndex(journal, turn) THEN @ ELSE @ \cup {turn}]
     /\ UNCHANGED <<turn, editor, tool, index, marker, filed>>

Look ==
  /\ hook["stop"].phase = "looking"
  /\ hook' = [hook EXCEPT !["stop"] = Closing(InFile, Current(InFile))]
  /\ UNCHANGED <<turn, editor, tool, index, journal, marker, aged, filed, history>>

\* SessionEnd, while other hooks may still be at work.
BeginEnd ==
  /\ editor # "ended"
  /\ editor' = "ended"
  /\ tool' = [t \in Tools |-> IF tool[t] = "running" THEN "over" ELSE tool[t]]
  /\ hook' = [hook EXCEPT !["end"] = Closing(InFile, Unclosed(InFile))]
  /\ UNCHANGED <<turn, index, journal, marker, aged, filed, history>>

\* closeSegment: the outcome of the steps it has read, and whether a marker is there...
Judge(h) ==
  /\ hook[h].phase = "closing" /\ hook[h].todo # <<>>
  /\ hook' = [hook EXCEPT ![h].phase = IF marker THEN "clearing" ELSE "writing",
       ![h].label = Resolve(Reconciled(hook[h].view, Head(hook[h].todo)), marker)]
  /\ history' = [history EXCEPT
       !.shared = @ \/ (marker /\ \E g \in Closers : hook[g].phase = "clearing")]
  /\ UNCHANGED <<turn, editor, tool, index, journal, marker, aged, filed>>

\* A mutant: the marker stays.
KeptMarker == UNCHANGED marker

ClearedMarker == marker' = FALSE

\* ... which is then removed: it confirms one turn.
ClearMarker(h) ==
  /\ hook[h].phase = "clearing"
  /\ ClearedMarker
  /\ hook' = [hook EXCEPT ![h].phase = "writing"]
  /\ UNCHANGED <<turn, editor, tool, index, journal, aged, filed, history>>

WriteClose(h) ==
  LET p == Head(hook[h].todo)
  IN /\ hook[h].phase = "writing"
     /\ Append1(SegmentClose(p, hook[h].label))
     /\ hook' = [hook EXCEPT ![h].phase = "closing", ![h].todo = Tail(@), ![h].label = <<>>]
     /\ history' = [history EXCEPT !.cut = Cut(p),
          !.atClose[p] = IF IsClosed(journal, p) THEN @ ELSE Len(history.opened[p]),
          !.confirmed = IF hook[h].label.confirmed THEN @ \cup {p} ELSE @]
     /\ UNCHANGED <<turn, editor, tool, index, marker, filed>>

\* The prompt hook opens the segment of its turn.
EndPrompt ==
  /\ hook["prompt"].phase = "closing" /\ hook["prompt"].todo = <<>>
  /\ hook' = [hook EXCEPT !["prompt"] = NoHook]
  /\ editor' = IF editor = "prompting" THEN "active" ELSE editor
  /\ \/ Append1(SegmentOpen(turn)) /\ UNCHANGED history
     \/ Faulty /\ Append1(Overlong(turn)) /\ Counted
  /\ UNCHANGED <<turn, tool, index, marker, filed>>

AfterStop == IF editor = "stopping" THEN "waiting" ELSE editor

\* spawnFlush.
EndClose(h, f) ==
  /\ h \in {"stop", "end"}
  /\ hook[h].phase = "closing" /\ hook[h].todo = <<>>
  /\ flusher[f].phase = "idle"
  /\ flusher' = [flusher EXCEPT ![f].phase = "spawned"]
  /\ hook' = [hook EXCEPT ![h] = NoHook]
  /\ editor' = IF h = "stop" THEN AfterStop ELSE editor
  /\ UNCHANGED <<turn, tool, index, journal, marker, sent, aged, lock, stored, refused,
                 history>>

\* The hook runs into its timeout or is killed.  Nobody is told of what it closed.
KillHook(h) ==
  /\ ~HookIdle(h) /\ Faulty
  /\ hook' = [hook EXCEPT ![h] = NoHook]
  /\ editor' = CASE h = "stop" -> AfterStop
                 [] h = "prompt" /\ editor = "prompting" -> "active"
                 [] OTHER -> editor
  /\ Counted
  /\ UNCHANGED <<turn, tool, index, journal, marker, aged, filed>>

(***************************************************************************)
(* The user and the editor.                                                *)
(***************************************************************************)
\* A turn ends without Stop; the hooks under way go on.
InterruptTurn ==
  /\ AgentWorks
  /\ editor' = "waiting"
  /\ tool' = [t \in Tools |-> IF tool[t] = "running" THEN "over" ELSE tool[t]]
  /\ UNCHANGED <<turn, index, hook, journal, marker, aged, filed, history>>

\* Another Stop hook makes the agent go on with the turn; when it stops again,
\* stop_hook_active keeps Stop from doing anything: the turn is just over.
Continue ==
  /\ editor = "waiting" /\ turn > 0 /\ IsClosed(journal, turn)
  /\ editor' = "again"
  /\ UNCHANGED <<turn, tool, index, hook, journal, marker, aged, filed, history>>

\* Done: the model runs it as a tool, or the user in a shell.
Done ==
  /\ journal # <<>> /\ ~marker /\ history.dones < MaxDones
  /\ marker' = TRUE
  /\ history' = [history EXCEPT !.dones = @ + 1]
  /\ UNCHANGED <<turn, editor, tool, index, hook, journal, aged, filed>>

\* A day without a record; the machine may sleep, and with it what is under way.
Day ==
  /\ journal # <<>> /\ ~aged
  /\ aged' = TRUE
  /\ UNCHANGED <<turn, editor, tool, index, hook, journal, marker, filed, history>>

(***************************************************************************)
(* flush.                                                                  *)
(***************************************************************************)
\* PreCompact, and the hooks of other sessions, which flush this one's file as well.
Spawn(f) ==
  /\ flusher[f].phase = "idle" /\ journal # <<>>
  /\ flusher' = [flusher EXCEPT ![f].phase = "spawned"]
  /\ UNCHANGED <<turn, editor, tool, index, hook, journal, marker, sent, aged, lock, stored,
                 refused, history>>

\* acquireFlushLock does not wait.
Lock(f) ==
  /\ flusher[f].phase = "spawned"
  /\ IF lock = NoFlusher
     THEN lock' = f /\ flusher' = [flusher EXCEPT ![f].phase = "listing"]
     ELSE flusher' = [flusher EXCEPT ![f] = Idle] /\ UNCHANGED lock
  /\ UNCHANGED <<turn, editor, tool, index, hook, journal, marker, sent, aged, stored,
                 refused, history>>

\* The file is removed, with its sidecar.
Remove(faults) ==
  /\ journal' = <<>> /\ sent' = {} /\ aged' = FALSE
  /\ history' = [history EXCEPT !.faults = faults,
       !.erased = @ \cup {journal[k].turn : k \in DOMAIN journal}]

\* enforceSpoolCap: the spool of all sessions is over its budget and this file is among
\* the oldest, sent or not.
DropFile(f) ==
  /\ flusher[f].phase = "listing" /\ journal # <<>> /\ Faulty
  /\ Remove(history.faults + 1)
  /\ UNCHANGED <<turn, editor, tool, index, hook, marker, flusher, lock, stored, refused>>

\* Read, ReadSent and Assemble.
List(f) ==
  /\ flusher[f].phase = "listing" /\ ~Cropped(journal)
  /\ flusher' = [flusher EXCEPT ![f] =
       [phase |-> "pushing", tries |-> 0, complete |-> TRUE, any |-> Shippable(journal) # {},
        read |-> Len(journal),
        queue |-> InOrder(Shippable(journal) \ sent, LastTurn, LAMBDA p : Run(journal, p))]]
  /\ UNCHANGED <<turn, editor, tool, index, hook, journal, marker, sent, aged, lock, stored,
                 refused, history>>

Pushing(f) == flusher[f].phase = "pushing" /\ flusher[f].queue # <<>>

\* POST /runs is answered with 2xx, or with an error that no retry can mend.
Answered(f, accepted) ==
  LET run == Head(flusher[f].queue)
  IN /\ Pushing(f)
     /\ IF accepted
        THEN stored' = [stored EXCEPT ![run.turn] = run] /\ UNCHANGED refused
        ELSE refused' = refused \cup {run.turn} /\ UNCHANGED stored
     /\ flusher' = [flusher EXCEPT ![f].phase = "marking"]
     /\ UNCHANGED <<turn, editor, tool, index, hook, journal, marker, sent, aged, lock,
                    history>>

\* A mutant: a run that was given up is noted like one that was answered.
NotedAnyway(p) == sent' = sent \cup {p}

LeftForLater(p) == UNCHANGED sent

LastTry(tries) == tries + 1 = Attempts

\* No answer, 429 or 5xx: the run may have been stored.  After flushAttempts it is left.
Unanswered(f, arrived) ==
  LET run == Head(flusher[f].queue)
      last == LastTry(flusher[f].tries)
  IN /\ Pushing(f)
     /\ stored' = IF arrived THEN [stored EXCEPT ![run.turn] = run] ELSE stored
     /\ flusher' = [flusher EXCEPT
          ![f].tries = IF last THEN 0 ELSE @ + 1,
          ![f].complete = @ /\ ~last,
          ![f].queue = IF last THEN Tail(@) ELSE @]
     /\ IF last THEN LeftForLater(run.turn) ELSE UNCHANGED sent
     /\ UNCHANGED <<turn, editor, tool, index, hook, journal, marker, aged, lock, refused,
                    history>>

MarkSent(f) ==
  /\ flusher[f].phase = "marking"
  /\ sent' = sent \cup {Head(flusher[f].queue).turn}
  /\ flusher' = [flusher EXCEPT ![f].phase = "pushing", ![f].tries = 0, ![f].queue = Tail(@)]
  /\ UNCHANGED <<turn, editor, tool, index, hook, journal, marker, aged, lock, stored,
                 refused, history>>

\* A mutant: runs that were given up count as sent.
AnyRuns(f) == flusher[f].any

MayRemove(f) == flusher[f].complete /\ flusher[f].any

Released(f) == flusher' = [flusher EXCEPT ![f] = Idle] /\ lock' = NoFlusher

\* A file that could not be read to its end is left as it is.
SkipFile(f) ==
  /\ flusher[f].phase = "listing" /\ Cropped(journal)
  /\ Released(f)
  /\ UNCHANGED <<turn, editor, tool, index, hook, journal, marker, sent, aged, stored,
                 refused, history>>

\* What was sent is kept for a day: the flusher looks at the time of the file...
EndFlush(f) ==
  /\ flusher[f].phase = "pushing" /\ flusher[f].queue = <<>>
  /\ IF MayRemove(f) /\ aged
     THEN flusher' = [flusher EXCEPT ![f].phase = "removing"] /\ UNCHANGED lock
     ELSE Released(f)
  /\ UNCHANGED <<turn, editor, tool, index, hook, journal, marker, sent, aged, stored,
                 refused, history>>

\* ... and then removes it, whatever has been appended meanwhile.
RemoveFile(f) ==
  /\ flusher[f].phase = "removing"
  /\ Remove(history.faults)
  /\ Released(f)
  /\ UNCHANGED <<turn, editor, tool, index, hook, marker, stored, refused>>

\* A mutant: a lock file in place of the lock of the kernel.
StaleLock(f) == UNCHANGED lock

FreedLock(f) == lock' = IF lock = f THEN NoFlusher ELSE lock

\* The kernel releases the lock of a process that dies.
KillFlush(f) ==
  /\ flusher[f].phase # "idle" /\ Faulty
  /\ flusher' = [flusher EXCEPT ![f] = Idle]
  /\ FreedLock(f)
  /\ Counted
  /\ UNCHANGED <<turn, editor, tool, index, hook, journal, marker, sent, aged, stored,
                 refused>>

-------------------------------------------------------------------------------
HookStep(h) ==
  \/ Judge(h) \/ ClearMarker(h) \/ WriteClose(h) \/ KillHook(h)
  \/ \E f \in Flushers : EndClose(h, f)

ToolStep(t) ==
  \/ StartTool(t) \/ OpenStep(t) \/ OverfillStep(t) \/ LoseStep(t) \/ FailTool(t)
  \/ \E status \in {"ok", "error"} : CloseStep(t, status)

EditorStep ==
  \/ BeginPrompt \/ Say \/ Look \/ BeginEnd \/ EndPrompt
  \/ \E speaks \in BOOLEAN : BeginStop(speaks)
  \/ InterruptTurn \/ Continue \/ Done \/ Day

\* What a flusher does by itself.
Flushing(f) ==
  Lock(f) \/ List(f) \/ SkipFile(f) \/ MarkSent(f) \/ EndFlush(f) \/ RemoveFile(f)

IsAnswered(f) == \E accepted \in BOOLEAN : Answered(f, accepted)

FlushStep(f) ==
  \/ Spawn(f) \/ Flushing(f) \/ DropFile(f) \/ KillFlush(f) \/ IsAnswered(f)
  \/ \E arrived \in BOOLEAN : Unanswered(f, arrived)

Next ==
  \/ EditorStep
  \/ \E t \in Tools : ToolStep(t)
  \/ \E h \in Closers : HookStep(h)
  \/ \E f \in Flushers : FlushStep(f)

Spec == Init /\ [][Next]_vars

\* Sessions go on to start flushers, a flusher that runs goes on, and the server is not
\* unreachable for ever.
FairSpec ==
  /\ Spec
  /\ \A f \in Flushers : WF_vars(Spawn(f)) /\ WF_vars(Flushing(f)) /\ SF_vars(IsAnswered(f))

-------------------------------------------------------------------------------
Received == {p \in Turns : stored[p] # NotStored}

\* The run the server has of a turn holds its tool calls in the order their PreToolUse
\* hooks spooled them, all those from before the close, unless two hooks took one index
\* or the file was removed under the turn.
ShippedRunIsWhole ==
  \A p \in Received \ (history.raced \cup history.cut) :
    LET calls == ToolCalls(stored[p].steps)
    IN /\ Len(calls) >= history.atClose[p]
       /\ Len(calls) <= Len(history.opened[p])
       /\ \A k \in DOMAIN calls : calls[k].call = history.opened[p][k]

\* The outcome the server has of a turn is that of the very steps it has, although the one
\* was decided by a hook and the others assembled by a flusher, unless the turn went on.
LabelFitsSteps ==
  \A p \in Received \ (history.late \cup history.cut) :
    stored[p].label = Resolve(stored[p].steps, stored[p].label.confirmed)

\* A confirmation closes one turn as a success, unless two hooks saw the marker.
OneTurnPerConfirmation ==
  history.shared \/ Cardinality(history.confirmed) <= history.dones

\* A turn in the sidecar has been taken or refused by the server: whatever is killed, it is
\* rather sent twice than not at all.
SentWasAnswered == sent \subseteq Received \cup refused

\* What holds of the spool and its sidecar at every moment: types, the sidecar, labels.
SpoolInvariant == TypeOK /\ SentWasAnswered /\ LabelFitsSteps

\* The turns with records a flusher has not read.
Unread(f) == {journal[k].turn : k \in flusher[f].read + 1..Len(journal)}

\* Retention removes a file only when the server has answered for every run in it, but
\* for turns a hook wrote to after the flusher had read the file; only the cap on the size
\* of the spool drops others.
OnlyDeliveredIsRemoved ==
  [][journal # <<>> /\ journal' = <<>> =>
       \E f \in Flushers :
         \/ flusher[f].phase = "listing"
         \/ /\ flusher[f].phase = "removing"
            /\ Shippable(journal) \subseteq Received \cup refused \cup Unread(f)]_vars

\* Every closed turn worth sending has been sent, or was lost with its file, unless a line
\* of the file is too long to be read.
Drained == Cropped(journal) \/ Shippable(journal) \subseteq sent \cup history.erased
===============================================================================
