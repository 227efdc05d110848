-------------------------------- MODULE Watches --------------------------------
(***************************************************************************)
(* The push channels of Google sources (jobs/tasks/google_watch.py): a     *)
(* callback enqueues a registration, a daily cron opens a new channel for  *)
(* every subscription that expires within a day, a disconnect revokes the  *)
(* subscriptions of its source.  Google's side is a set of channels, each  *)
(* with the end Google gave it, which it may keep to itself.  A unit of    *)
(* time is half a day: a job ends within it.                               *)
(***************************************************************************)
EXTENDS Naturals, FiniteSets

CONSTANTS
  Sources,       \* ids of source_connections, each used once
  Subs,          \* ids of webhook_subscriptions
  WatchJobs,     \* jobs under way
  Lives,         \* for how long Google may keep a channel open
  MaxChannel,    \* the bound on the channels opened
  MaxTime        \* the bound on the time

\* watch_renew runs every Day units and renews what expires within a Day.
Day == 2

ASSUME WatchConstants ==
  /\ Sources # {} /\ Subs # {}
  /\ MaxChannel \in Nat /\ MaxTime \in Nat
  /\ Lives \subseteq Nat \ {0}

VARIABLES
  source,        \* source[s]: the state of a connection
  sub,           \* sub[b]: a row of webhook_subscriptions
  ends,          \* ends[c]: when channel c ends, 0 for one that is not open yet
  watch,         \* watch[j]: a watch_register or watch_renew job
  time,
  renewed,       \* the cron of this moment has run, or has been missed
  missed,        \* the subscriptions whose last renewal was missed, or failed
  late,          \* the subscriptions inserted after a disconnect of their source
  brief,         \* the channels Google gave less than a Day
  untold         \* the channels whose end it did not tell: expires_at is NULL

watchVars == <<source, sub, ends, watch, time, renewed, missed, late, brief, untold>>

Channels == 1..MaxChannel
NoSub == [status |-> "none", of |-> CHOOSE s \in Sources : TRUE, channel |-> 0]
Asleep == [op |-> "idle", step |-> "none", of |-> NoSub.of, sub |-> CHOOSE b \in Subs : TRUE,
           channel |-> 0, left |-> {}]

WatchTypeOK ==
  /\ source \in [Sources -> {"new", "connected", "gone"}]
  /\ sub \in [Subs -> [status: {"none", "active", "revoked"}, of: Sources, channel: 0..MaxChannel]]
  /\ ends \in [Channels -> Nat]
  /\ watch \in [WatchJobs -> [op: {"idle", "register", "renew"}, of: Sources, sub: Subs,
                              step: {"none", "queued", "opened", "checked", "listed"},
                              channel: 0..MaxChannel, left: SUBSET Subs]]
  /\ time \in 0..MaxTime /\ renewed \in BOOLEAN
  /\ missed \in SUBSET Subs /\ late \in SUBSET Subs
  /\ brief \in SUBSET Channels /\ untold \in SUBSET Channels

WatchInit ==
  /\ source = [s \in Sources |-> "new"]
  /\ sub = [b \in Subs |-> NoSub]
  /\ ends = [c \in Channels |-> 0]
  /\ watch = [j \in WatchJobs |-> Asleep]
  /\ time = 0 /\ renewed = FALSE
  /\ missed = {} /\ late = {} /\ brief = {} /\ untold = {}

Active(b) == sub[b].status = "active"
Rest(j) == watch' = [watch EXCEPT ![j] = Asleep]

-------------------------------------------------------------------------------
\* handle_callback: a new connection, or the same one again, and a registration.
ConnectSource(s, j) ==
  /\ source[s] # "gone" /\ watch[j].op = "idle"
  /\ source' = [source EXCEPT ![s] = "connected"]
  /\ watch' = [watch EXCEPT ![j] = [Asleep EXCEPT !.op = "register", !.step = "queued", !.of = s]]
  /\ UNCHANGED <<sub, ends, time, renewed, missed, late, brief, untold>>

\* A mutant: the subscriptions are left to run out.
NotRevoked(s) == sub

\* revoke_subscriptions_for_source.
RevokedSubs(s) ==
  [b \in Subs |-> IF Active(b) /\ sub[b].of = s THEN [sub[b] EXCEPT !.status = "revoked"]
                  ELSE sub[b]]

\* The second transaction of disconnect; registrations that have seen the connection a
\* second time commit later.
DisconnectSource(s) ==
  /\ source[s] = "connected"
  /\ source' = [source EXCEPT ![s] = "gone"]
  /\ sub' = RevokedSubs(s)
  /\ UNCHANGED <<ends, watch, time, renewed, missed, late, brief, untold>>

(***************************************************************************)
(* watch_register, and the channel both jobs open.                         *)
(***************************************************************************)
Unopened == {c \in Channels : ends[c] = 0}

\* _open_channel: the connection and its token are read, then Google is asked.
OpenChannel(j, s, row) ==
  /\ source[s] = "connected"
  /\ \E c \in Unopened, life \in Lives, told \in BOOLEAN :
       /\ \A d \in Unopened : c <= d
       /\ ends' = [ends EXCEPT ![c] = time + life]
       /\ brief' = IF life < Day THEN brief \cup {c} ELSE brief
       /\ untold' = IF told THEN untold ELSE untold \cup {c}
       /\ watch' = [watch EXCEPT ![j].step = "opened", ![j].channel = c, ![j].sub = row]
  /\ UNCHANGED <<source, sub, time, renewed, missed, late>>

OpenRegistered(j) ==
  /\ watch[j].op = "register" /\ watch[j].step = "queued"
  /\ OpenChannel(j, watch[j].of, watch[j].sub)

\* get_sync_state for the provider: a connection that is gone by now is an error.
CheckSource(j) ==
  /\ watch[j].op = "register" /\ watch[j].step = "opened"
  /\ source[watch[j].of] = "connected"
  /\ watch' = [watch EXCEPT ![j].step = "checked"]
  /\ UNCHANGED <<source, sub, ends, time, renewed, missed, late, brief, untold>>

\* insert_subscription and the commit.
InsertSub(j, b) ==
  /\ watch[j].op = "register" /\ watch[j].step = "checked" /\ sub[b].status = "none"
  /\ sub' = [sub EXCEPT ![b] = [status |-> "active", of |-> watch[j].of,
                                channel |-> watch[j].channel]]
  /\ late' = IF source[watch[j].of] = "gone" THEN late \cup {b} ELSE late
  /\ Rest(j)
  /\ UNCHANGED <<source, ends, time, renewed, missed, brief, untold>>

\* No token, no answer, or no connection: the job raises and is not tried again.
FailRegister(j) ==
  /\ watch[j].op = "register"
  /\ Rest(j)
  /\ UNCHANGED <<source, sub, ends, time, renewed, missed, late, brief, untold>>

\* The worker is stopped and ARQ runs the job again: its channel stays open.
RestartRegister(j) ==
  /\ watch[j].op = "register" /\ watch[j].step # "queued"
  /\ watch' = [watch EXCEPT ![j].step = "queued", ![j].channel = 0]
  /\ UNCHANGED <<source, sub, ends, time, renewed, missed, late, brief, untold>>

(***************************************************************************)
(* watch_renew.                                                            *)
(***************************************************************************)
RenewalDue == time % Day = 0 /\ ~renewed

\* A mutant: only channels that have ended are renewed.
Ended(b) == Active(b) /\ sub[b].channel \notin untold /\ ends[sub[b].channel] < time

\* list_expiring_subscriptions: an expires_at that is NULL is never near, and the end of
\* the window is outside it.
Expiring(b) ==
  Active(b) /\ sub[b].channel \notin untold /\ ends[sub[b].channel] < time + Day

StartRenewal(j) ==
  /\ RenewalDue /\ watch[j].op = "idle"
  /\ renewed' = TRUE
  /\ watch' = [watch EXCEPT ![j] = [Asleep EXCEPT !.op = "renew", !.step = "listed",
                                                  !.left = {b \in Subs : Expiring(b)}]]
  /\ UNCHANGED <<source, sub, ends, time, missed, late, brief, untold>>

\* No worker runs at that time.
MissRenewal ==
  /\ RenewalDue
  /\ renewed' = TRUE
  /\ missed' = missed \cup {b \in Subs : Expiring(b)}
  /\ UNCHANGED <<source, sub, ends, watch, time, late, brief, untold>>

Renewing(j, b) == watch[j].op = "renew" /\ watch[j].step = "listed" /\ b \in watch[j].left

\* The channel is opened and stored in a transaction of its own for each row.
OpenRenewed(j, b) == Renewing(j, b) /\ OpenChannel(j, sub[b].of, b)

\* update_subscription, whatever became of the row.
RenewedRow(row, c) == [row EXCEPT !.channel = c]

StoreRenewed(j) ==
  LET b == watch[j].sub
  IN /\ watch[j].op = "renew" /\ watch[j].step = "opened"
     /\ sub' = [sub EXCEPT ![b] = RenewedRow(@, watch[j].channel)]
     /\ missed' = missed \ {b}
     /\ watch' = [watch EXCEPT ![j] = [Asleep EXCEPT !.op = "renew", !.step = "listed",
                                                     !.left = watch[j].left \ {b}]]
     /\ UNCHANGED <<source, ends, time, renewed, late, brief, untold>>

\* One channel that cannot be renewed does not stall the rest.
FailRenewed(j, b) ==
  /\ \/ Renewing(j, b)
     \/ watch[j].op = "renew" /\ watch[j].step = "opened" /\ watch[j].sub = b
  /\ missed' = missed \cup {b}
  /\ watch' = [watch EXCEPT ![j] = [Asleep EXCEPT !.op = "renew", !.step = "listed",
                                                  !.left = watch[j].left \ {b}]]
  /\ UNCHANGED <<source, sub, ends, time, renewed, late, brief, untold>>

EndRenewal(j) ==
  /\ watch[j].op = "renew" /\ watch[j].step = "listed" /\ watch[j].left = {}
  /\ Rest(j)
  /\ UNCHANGED <<source, sub, ends, time, renewed, missed, late, brief, untold>>

\* The worker dies, or the job times out: what is left waits for the next day.
CutRenewal(j) ==
  /\ watch[j].op = "renew"
  /\ missed' = missed \cup watch[j].left
  /\ Rest(j)
  /\ UNCHANGED <<source, sub, ends, time, renewed, late, brief, untold>>

Pass ==
  /\ time < MaxTime /\ ~RenewalDue
  /\ \A j \in WatchJobs : watch[j].op = "idle"
  /\ time' = time + 1 /\ renewed' = FALSE
  /\ UNCHANGED <<source, sub, ends, watch, missed, late, brief, untold>>

-------------------------------------------------------------------------------
WatchNext ==
  \/ \E s \in Sources : DisconnectSource(s) \/ \E j \in WatchJobs : ConnectSource(s, j)
  \/ \E j \in WatchJobs :
       \/ OpenRegistered(j) \/ CheckSource(j) \/ FailRegister(j) \/ RestartRegister(j)
       \/ StartRenewal(j) \/ StoreRenewed(j) \/ EndRenewal(j) \/ CutRenewal(j)
       \/ \E b \in Subs : InsertSub(j, b) \/ OpenRenewed(j, b) \/ FailRenewed(j, b)
  \/ MissRenewal \/ Pass

WatchSpec == WatchInit /\ [][WatchNext]_watchVars

-------------------------------------------------------------------------------
\* get_subscription_by_ref: a delivery on channel c is accepted for s; others get a 401.
Heard(c, s) == \E b \in Subs : Active(b) /\ sub[b].channel = c /\ sub[b].of = s

\* A renewal has the subscription on its list.
Listed(b) == \E j \in WatchJobs : watch[j].op = "renew" /\ b \in watch[j].left

\* A source that is watched stays watched, also between the opening of a channel and the
\* row that knows it.  The daily run has no slack: a channel that ends just past its window
\* is out by the next run, and its source unheard until that run reaches the row.  A
\* channel given less than a day leaves its source unheard, for less than a day.  A
\* renewal that was missed, and an end that was not told, are excepted.
WatchedStaysWatched ==
  \A b \in Subs :
    (Active(b) /\ source[sub[b].of] = "connected" /\ b \notin missed
       /\ sub[b].channel \notin untold) =>
      \/ \E c \in Channels : ends[c] > time /\ Heard(c, sub[b].of)
      \/ ends[sub[b].channel] = time /\ (RenewalDue \/ Listed(b))
      \/ sub[b].channel \in brief /\ time < ends[sub[b].channel] + Day

\* No subscription of a source that is disconnected is kept alive: a renewal that overlaps
\* the disconnect does not bring it back.  Only a registration that saw the connection and
\* commits after its disconnect leaves one.
GoneIsUnwatched ==
  \A b \in Subs : Active(b) /\ source[sub[b].of] = "gone" => b \in late
===============================================================================
