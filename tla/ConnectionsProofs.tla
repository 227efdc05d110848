---------------------------- MODULE ConnectionsProofs ---------------------------
(***************************************************************************)
(* What holds of the connections for any number of workspaces,             *)
(* authorizations and overlapping requests and jobs.                       *)
(***************************************************************************)
EXTENDS Connections, Watches, FiniteSetTheorems, TLAPS

OAuthRow == [status : {"none", "live", "granted", "consumed", "expired"}, ws : Workspaces]
ConnRow == [status : {"absent", "connected", "error"}, token : 0..MaxToken, stale : BOOLEAN]
JobRow == [op : {"idle", "callback", "disconnect", "sync", "picker"},
           step : {"none", "read", "consumed", "holding", "counted", "done"},
           ws : Workspaces, token : 0..MaxToken, state : Authorizations \cup {NoAuthorization},
           gone : BOOLEAN]

RowsTyped ==
  /\ provider \in {"github", "jira", "google"} /\ oauth \in [Authorizations -> OAuthRow]
  /\ row \in [Workspaces -> ConnRow] /\ job \in [Procs -> JobRow]
  /\ valid \in [Workspaces -> 0..MaxToken]
  /\ revoked \in SUBSET Workspaces /\ lost \in SUBSET Workspaces /\ raced \in SUBSET Workspaces
  /\ installed \in BOOLEAN /\ connects \in [Authorizations -> Nat]

\* A callback under way is the only one of its authorization, which is consumed and has
\* connected nothing yet.
Callback(p) == job[p].op = "callback"
CallbacksAlone ==
  /\ \A n \in Authorizations : connects[n] <= 1 /\ (oauth[n].status # "consumed" => connects[n] = 0)
  /\ \A p \in Procs : Callback(p) =>
       /\ job[p].state \in Authorizations
       /\ oauth[job[p].state].status = "consumed" /\ connects[job[p].state] = 0
  /\ \A p, q \in Procs : Callback(p) /\ Callback(q) /\ job[p].state = job[q].state => p = q

\* Those connected while a disconnect is about to uninstall, and those about to store a
\* token of an installation that is gone, are counted as raced.
Counted(p) == job[p].op = "disconnect" /\ job[p].step = "counted"
Storing(p) == job[p].op = "callback" /\ job[p].step = "holding"
InstallFits ==
  /\ \A p \in Procs, v \in Workspaces : Counted(p) /\ Present(v) => v = job[p].ws \/ v \in raced
  /\ \A p \in Procs : Storing(p) => installed \/ job[p].ws \in raced
  /\ \A w \in Workspaces : Present(w) => installed \/ w \in raced

\* Unless it was lost, the newest token of w has one place: a process holds it that nobody
\* else has seen it from, or it is in the row.
Reads(p, w) == job[p].op \in {"sync", "picker"} /\ job[p].step = "read" /\ job[p].ws = w
Holds(p, w) == job[p].step = "holding" /\ job[p].ws = w
KeptFits(w) ==
  /\ \A p, q \in Procs : Holds(p, w) /\ Holds(q, w) => p = q
  /\ \A p \in Procs : Holds(p, w) =>
       /\ job[p].token = valid[w]
       /\ Present(w) => row[w].token < valid[w] /\ (job[p].op # "callback" => ~job[p].gone)
       /\ \A q \in Procs : Reads(q, w) => job[q].token < valid[w]
  /\ Present(w) /\ (\A p \in Procs : ~Holds(p, w)) => row[w].token = valid[w]
  /\ \A q \in Procs : Reads(q, w) /\ job[q].gone /\ Present(w) => job[q].token < valid[w]
TokenFits(w) ==
  /\ row[w].token <= valid[w]
  /\ \A p \in Procs : Reads(p, w) \/ Holds(p, w) => job[p].token <= valid[w]
  /\ w \notin lost => KeptFits(w)

IdleRests == \A p \in Procs : job[p].op = "idle" => job[p].step = "none"

ConnectionInvariant ==
  /\ RowsTyped /\ CallbacksAlone /\ IdleRests
  /\ provider = "github" => InstallFits
  /\ provider = "jira" => \A w \in Workspaces : TokenFits(w)

LEMMA IdleTyped ==
  /\ Idle \in JobRow /\ NoRow \in ConnRow
  /\ Idle.op = "idle" /\ Idle.step = "none" /\ Idle.gone = FALSE /\ Idle.token = 0
  /\ Idle.state = NoAuthorization /\ Idle.ws \in Workspaces
<1>1. (CHOOSE w \in Workspaces : TRUE) \in Workspaces
  BY ConnectionConstants
<1> QED
  BY <1>1, ConnectionConstants DEF Idle, JobRow, NoRow, ConnRow

LEMMA ConnectionsStart == Init => ConnectionInvariant
<1> SUFFICES ASSUME Init PROVE ConnectionInvariant
  OBVIOUS
<1>1. RowsTyped
  <2>1. oauth \in [Authorizations -> OAuthRow] /\ valid \in [Workspaces -> 0..MaxToken]
    BY IdleTyped, ConnectionConstants DEF Init, OAuthRow
  <2>2. row \in [Workspaces -> ConnRow] /\ job \in [Procs -> JobRow]
    BY IdleTyped DEF Init
  <2> QED
    BY <2>1, <2>2 DEF Init, RowsTyped
<1>2. CallbacksAlone /\ IdleRests /\ InstallFits
  BY IdleTyped DEF Init, CallbacksAlone, Callback, IdleRests, InstallFits, Counted, Storing, Present, NoRow
<1>3. \A w \in Workspaces : TokenFits(w)
  BY IdleTyped DEF Init, TokenFits, KeptFits, Reads, Holds, Present, NoRow
<1> QED
  BY <1>1, <1>2, <1>3 DEF ConnectionInvariant

-------------------------------------------------------------------------------
\* What a step leaves alone.
\* No token of w is read or held by p after the step, and none was held.
LetsGo(p, w) == ~Holds(p, w) /\ ~Holds(p, w)' /\ ~Reads(p, w)'

LEMMA TokensStay ==
  ASSUME NEW w \in Workspaces, TokenFits(w), row'[w].token = row[w].token,
         Present(w)' <=> Present(w), valid'[w] = valid[w], w \notin lost' => w \notin lost,
         \A p \in Procs : job'[p] = job[p] \/ LetsGo(p, w)
  PROVE  TokenFits(w)'
<1>1. \A p \in Procs : /\ Reads(p, w)' => Reads(p, w) /\ job'[p] = job[p]
                       /\ Holds(p, w)' <=> Holds(p, w)
                       /\ Holds(p, w) => job'[p] = job[p]
  BY DEF LetsGo, Reads, Holds
<1>2. (\A p \in Procs : Reads(p, w) \/ Holds(p, w) => job[p].token <= valid[w])'
  BY <1>1 DEF TokenFits
<1>3. ASSUME KeptFits(w) PROVE KeptFits(w)'
  BY <1>1, <1>3 DEF KeptFits
<1> QED
  BY <1>2, <1>3 DEF TokenFits

LEMMA InstallStays ==
  ASSUME InstallFits, raced' = raced, installed => installed',
         \A v \in Workspaces : Present(v)' => Present(v),
         \A p \in Procs : \/ job'[p].op = job[p].op /\ job'[p].step = job[p].step /\ job'[p].ws = job[p].ws
                          \/ ~Counted(p)' /\ ~Storing(p)'
  PROVE  InstallFits'
<1>1. \A p \in Procs : /\ Counted(p)' => Counted(p) /\ job'[p].ws = job[p].ws
                       /\ Storing(p)' => Storing(p) /\ job'[p].ws = job[p].ws
  BY DEF Counted, Storing
<1> QED
  BY <1>1 DEF InstallFits

LEMMA AloneStays ==
  ASSUME CallbacksAlone, connects' = connects,
         \A n \in Authorizations : oauth[n].status = "consumed" <=> oauth'[n].status = "consumed",
         \A p \in Procs : \/ job'[p].op = job[p].op /\ job'[p].state = job[p].state
                          \/ ~Callback(p)'
  PROVE  CallbacksAlone'
BY DEF CallbacksAlone, Callback

LEMMA JobSet ==
  ASSUME RowsTyped, NEW p \in Procs, NEW new \in JobRow, job' = [job EXCEPT ![p] = new]
  PROVE  job' \in [Procs -> JobRow] /\ job'[p] = new /\ \A q \in Procs \ {p} : job'[q] = job[q]
BY DEF RowsTyped

\* A process that holds no token and is done has let go of everything.
LEMMA Over ==
  ASSUME RowsTyped, NEW p \in Procs, End(p)
  PROVE  /\ job' \in [Procs -> JobRow] /\ job'[p] = Idle /\ \A q \in Procs \ {p} : job'[q] = job[q]
         /\ ~Callback(p)' /\ ~Counted(p)' /\ ~Storing(p)'
         /\ \A w \in Workspaces : ~Holds(p, w) => LetsGo(p, w)
<1>1. job' \in [Procs -> JobRow] /\ job'[p] = Idle /\ \A q \in Procs \ {p} : job'[q] = job[q]
  BY IdleTyped, JobSet DEF End
<1> QED
  BY <1>1, IdleTyped DEF Callback, Counted, Storing, LetsGo, Holds, Reads

\* A step that leaves rows, tokens and the account alone, and whose process p goes on
\* without reading or storing.
LEMMA QuietStep ==
  ASSUME ConnectionInvariant, NEW p \in Procs, NEW new \in JobRow,
         job' = [job EXCEPT ![p] = new],
         UNCHANGED <<provider, row, valid, lost, raced, installed, connects>>,
         oauth' \in [Authorizations -> OAuthRow], revoked' \in SUBSET Workspaces,
         CallbacksAlone', job[p].step # "holding",
         new.op \in {"callback", "disconnect"}, new.step \notin {"holding", "counted"}
  PROVE  ConnectionInvariant'
<1>1. job' \in [Procs -> JobRow] /\ job'[p] = new /\ \A q \in Procs \ {p} : job'[q] = job[q]
  BY JobSet DEF ConnectionInvariant
<1>2. RowsTyped' /\ IdleRests'
  BY <1>1 DEF ConnectionInvariant, RowsTyped, IdleRests
<1>3. provider = "github" => InstallFits'
  BY <1>1, InstallStays DEF ConnectionInvariant, Counted, Storing, Present
<1>4. ASSUME provider = "jira", NEW w \in Workspaces PROVE TokenFits(w)'
  <2>1. LetsGo(p, w)
    BY <1>1 DEF LetsGo, Holds, Reads
  <2> QED
    BY <1>1, <1>4, <2>1, TokensStay DEF ConnectionInvariant, Present
<1> QED
  BY <1>2, <1>3, <1>4 DEF ConnectionInvariant

-------------------------------------------------------------------------------
\* The authorization.
LEMMA AuthorizationKeeps ==
  ASSUME ConnectionInvariant, NEW n \in Authorizations,
         Grant(n) \/ ExpireState(n) \/ \E w \in Workspaces : StartAuthorization(n, w)
  PROVE  ConnectionInvariant'
<1>1. UNCHANGED <<provider, row, job, valid, revoked, lost, raced, connects>>
  BY DEF Grant, ExpireState, StartAuthorization
<1>2. /\ oauth' \in [Authorizations -> OAuthRow]
      /\ \A x \in Authorizations : oauth[x].status = "consumed" <=> oauth'[x].status = "consumed"
  <2>1. oauth \in [Authorizations -> OAuthRow]
    BY DEF ConnectionInvariant, RowsTyped
  <2>2. CASE Grant(n)
    BY <2>1, <2>2 DEF Grant, OAuthRow
  <2>3. CASE ExpireState(n)
    BY <2>1, <2>3 DEF ExpireState, OAuthRow
  <2>4. ASSUME NEW w \in Workspaces, StartAuthorization(n, w)
        PROVE  /\ oauth' \in [Authorizations -> OAuthRow]
               /\ \A x \in Authorizations :
                    oauth[x].status = "consumed" <=> oauth'[x].status = "consumed"
    <3>1. [status |-> "live", ws |-> w] \in OAuthRow
      BY DEF OAuthRow
    <3> QED
      BY <2>1, <2>4, <3>1 DEF StartAuthorization
  <2> QED
    BY <2>2, <2>3, <2>4
<1>3. installed' \in BOOLEAN /\ (provider = "github" /\ installed => installed')
  BY DEF Grant, ExpireState, StartAuthorization, ConnectionInvariant, RowsTyped
<1>4. RowsTyped' /\ IdleRests'
  BY <1>1, <1>2, <1>3 DEF ConnectionInvariant, RowsTyped, IdleRests
<1>5. CallbacksAlone'
  BY <1>1, <1>2, AloneStays DEF ConnectionInvariant
<1>6. provider = "github" => InstallFits'
  BY <1>1, <1>3, InstallStays DEF ConnectionInvariant, Present
<1>7. provider = "jira" => \A w \in Workspaces : TokenFits(w)'
  BY <1>1, TokensStay DEF ConnectionInvariant, Present
<1> QED
  BY <1>1, <1>4, <1>5, <1>6, <1>7 DEF ConnectionInvariant

LEMMA ConsumeKeeps ==
  ASSUME ConnectionInvariant, NEW p \in Procs, NEW n \in Authorizations, ConsumeState(p, n)
  PROVE  ConnectionInvariant'
<1> DEFINE new == [Idle EXCEPT !.op = "callback", !.step = "consumed", !.ws = oauth[n].ws,
                               !.state = n]
<1>0. RowsTyped /\ CallbacksAlone /\ oauth \in [Authorizations -> OAuthRow] /\ job \in [Procs -> JobRow]
  BY DEF ConnectionInvariant, RowsTyped
<1>1. /\ new \in JobRow /\ new.op = "callback" /\ new.step = "consumed" /\ new.state = n
  BY <1>0, IdleTyped DEF JobRow, OAuthRow
<1>2. job' = [job EXCEPT ![p] = new] /\ job[p].op = "idle" /\ oauth[n].status = "granted"
      /\ oauth' = [oauth EXCEPT ![n].status = "consumed"]
      /\ UNCHANGED <<provider, row, valid, revoked, installed, lost, raced, connects>>
  BY DEF ConsumeState, Consumable
<1> HIDE DEF new
<1>3. job'[p] = new /\ \A q \in Procs \ {p} : job'[q] = job[q]
  BY <1>0, <1>1, <1>2, JobSet
<1>4. oauth' \in [Authorizations -> OAuthRow] /\ oauth'[n].status = "consumed"
      /\ \A x \in Authorizations \ {n} : oauth'[x] = oauth[x]
  BY <1>0, <1>2 DEF OAuthRow
<1>5. connects[n] = 0 /\ \A q \in Procs : Callback(q) => job[q].state # n
  BY <1>0, <1>2 DEF CallbacksAlone
<1>6. CallbacksAlone'
  BY <1>0, <1>1, <1>2, <1>3, <1>4, <1>5 DEF CallbacksAlone, Callback
<1>7. job[p].step # "holding"
  BY <1>2 DEF ConnectionInvariant, IdleRests
<1> QED
  BY <1>0, <1>1, <1>2, <1>4, <1>6, <1>7, QuietStep DEF RowsTyped

LEMMA ExchangeKeeps ==
  ASSUME ConnectionInvariant, NEW p \in Procs, Exchange(p) PROVE ConnectionInvariant'
<1> DEFINE new == [job[p] EXCEPT !.step = "holding", !.token = NewToken(job[p].ws)]
<1>0. RowsTyped /\ CallbacksAlone /\ IdleRests /\ job[p] \in JobRow
      /\ valid \in [Workspaces -> 0..MaxToken]
  BY DEF ConnectionInvariant, RowsTyped
<1>1. PICK w \in Workspaces : w = job[p].ws
  BY <1>0 DEF JobRow
<1>2. /\ job[p].op = "callback" /\ job[p].step = "consumed" /\ valid[w] < MaxToken
      /\ provider = "github" => installed
      /\ valid' = [valid EXCEPT ![w] = NewToken(w)]
      /\ lost' = IF Holding(w) = {} THEN lost \ {w} ELSE lost \cup {w}
      /\ job' = [job EXCEPT ![p] = new]
      /\ UNCHANGED <<provider, oauth, row, installed, raced, connects>>
  BY <1>0, <1>1 DEF Exchange, RowsTyped
<1>3. NewToken(w) \in 0..MaxToken /\ (provider = "jira" => NewToken(w) = valid[w] + 1)
  BY <1>0, <1>2, ConnectionConstants DEF NewToken
<1>4. /\ new \in JobRow /\ new.op = "callback" /\ new.step = "holding" /\ new.ws = w
      /\ new.token = NewToken(w) /\ new.state = job[p].state /\ new.gone = job[p].gone
  BY <1>0, <1>1, <1>2, <1>3 DEF JobRow
<1> HIDE DEF new
<1>5. job' \in [Procs -> JobRow] /\ job'[p] = new /\ \A q \in Procs \ {p} : job'[q] = job[q]
  BY <1>0, <1>2, <1>4, JobSet
<1>6. valid' \in [Workspaces -> 0..MaxToken] /\ valid'[w] = NewToken(w)
      /\ \A v \in Workspaces \ {w} : valid'[v] = valid[v]
  BY <1>0, <1>2, <1>3
<1>7. RowsTyped' /\ IdleRests'
  BY <1>0, <1>2, <1>4, <1>5, <1>6 DEF RowsTyped, IdleRests, Exchange
<1>8. CallbacksAlone'
  BY <1>0, <1>2, <1>4, <1>5, AloneStays
<1>9. ASSUME provider = "github" PROVE InstallFits'
  BY <1>2, <1>4, <1>5, <1>9 DEF ConnectionInvariant, InstallFits, Counted, Storing, Present
<1>10. ASSUME provider = "jira", NEW v \in Workspaces PROVE TokenFits(v)'
  <2>1. CASE v # w
    <3>1. LetsGo(p, v)
      BY <1>1, <1>4, <1>5, <2>1 DEF LetsGo, Holds, Reads
    <3>2. v \notin lost' => v \notin lost
      BY <1>2, <2>1
    <3>3. TokenFits(v) /\ valid'[v] = valid[v] /\ row' = row
      BY <1>2, <1>6, <1>10, <2>1 DEF ConnectionInvariant
    <3> QED
      BY <1>5, <3>1, <3>2, <3>3, TokensStay DEF Present
  <2>2. CASE v = w
    <3>0. row[w].token \in Nat /\ valid[w] \in Nat /\ \A q \in Procs : job[q].token \in Nat
      BY <1>0 DEF RowsTyped, ConnRow, JobRow
    <3>1. TokenFits(w) /\ valid'[w] = valid[w] + 1 /\ row' = row
      BY <1>2, <1>3, <1>6, <1>10 DEF ConnectionInvariant
    <3>2. \A q \in Procs : Reads(q, w)' => Reads(q, w) /\ job'[q] = job[q] /\ job'[q].token < valid'[w]
      BY <1>4, <1>5, <3>0, <3>1 DEF Reads, TokenFits
    <3>3. row'[w].token < valid'[w]
      BY <3>0, <3>1 DEF TokenFits
    <3>4. ASSUME w \notin lost' PROVE KeptFits(w)'
      <4>1. \A q \in Procs : ~Holds(q, w)
        BY <1>2, <3>4 DEF Holding, Holds
      <4>2. \A q \in Procs : Holds(q, w)' => q = p
        BY <1>5, <4>1 DEF Holds
      <4>3. Holds(p, w)' /\ job'[p].token = valid'[w]
        BY <1>4, <1>5, <1>6 DEF Holds
      <4>4. job'[p].op = "callback"
        BY <1>4, <1>5
      <4> QED
        BY <3>2, <3>3, <4>2, <4>3, <4>4 DEF KeptFits
    <3>5. \A q \in Procs : Holds(q, w)' => job'[q].token <= valid'[w]
      <4>1. job'[p].token = valid'[w]
        BY <1>4, <1>5, <1>6
      <4>2. \A q \in Procs \ {p} : Holds(q, w)' => Holds(q, w) /\ job'[q] = job[q]
        BY <1>5 DEF Holds
      <4>3. \A q \in Procs \ {p} : Holds(q, w)' => job'[q].token <= valid'[w]
        BY <3>0, <3>1, <4>2 DEF TokenFits
      <4> QED
        BY <3>0, <3>1, <4>1, <4>3
    <3> QED
      BY <2>2, <3>0, <3>1, <3>2, <3>3, <3>4, <3>5 DEF TokenFits
  <2> QED
    BY <2>1, <2>2
<1> QED
  BY <1>2, <1>7, <1>8, <1>9, <1>10 DEF ConnectionInvariant

LEMMA UpsertKeeps ==
  ASSUME ConnectionInvariant, NEW p \in Procs, Upsert(p) PROVE ConnectionInvariant'
<1> DEFINE new == [status |-> "connected", token |-> job[p].token, stale |-> FALSE]
<1>0. RowsTyped /\ CallbacksAlone /\ IdleRests /\ job[p] \in JobRow
  BY DEF ConnectionInvariant, RowsTyped
<1>1. PICK w \in Workspaces : w = job[p].ws
  BY <1>0 DEF JobRow
<1>2. /\ job[p].op = "callback" /\ job[p].step = "holding" /\ End(p)
      /\ row' = [row EXCEPT ![w] = new]
      /\ raced' = CASE Uninstalling # {} -> raced \cup {w}
                    [] Uninstalling = {} /\ installed -> raced \ {w}
                    [] OTHER -> raced
      /\ connects' = [connects EXCEPT ![job[p].state] = @ + 1]
      /\ UNCHANGED <<provider, oauth, valid, revoked, installed, lost>>
  BY <1>1 DEF Upsert
<1>3. new \in ConnRow /\ new.status = "connected" /\ new.token = job[p].token
  BY <1>0 DEF ConnRow, JobRow
<1> HIDE DEF new
<1>4. /\ job' \in [Procs -> JobRow] /\ job'[p] = Idle /\ \A q \in Procs \ {p} : job'[q] = job[q]
      /\ ~Callback(p)' /\ ~Counted(p)' /\ ~Storing(p)'
      /\ \A v \in Workspaces : ~Holds(p, v) => LetsGo(p, v)
  BY <1>0, <1>2, Over
<1>5. row' \in [Workspaces -> ConnRow] /\ row'[w] = new /\ \A v \in Workspaces \ {w} : row'[v] = row[v]
  BY <1>0, <1>2, <1>3 DEF RowsTyped
<1>6. Present(w)' /\ \A v \in Workspaces \ {w} : Present(v)' <=> Present(v)
  BY <1>3, <1>5 DEF Present
<1>7. PICK n \in Authorizations : /\ n = job[p].state /\ oauth[n].status = "consumed"
                                  /\ connects[n] = 0
  BY <1>0, <1>2 DEF CallbacksAlone, Callback
<1>8. connects' \in [Authorizations -> Nat] /\ connects'[n] = 1
      /\ \A x \in Authorizations \ {n} : connects'[x] = connects[x]
  BY <1>0, <1>2, <1>7 DEF RowsTyped
<1>9. raced' \in SUBSET Workspaces
  BY <1>0, <1>2 DEF RowsTyped
<1>10. RowsTyped' /\ IdleRests'
  BY <1>0, <1>2, <1>4, <1>5, <1>8, <1>9, IdleTyped DEF RowsTyped, IdleRests
<1>11. CallbacksAlone'
  <2>1. \A q \in Procs : Callback(q)' => Callback(q) /\ job'[q] = job[q] /\ job[q].state # n
    BY <1>0, <1>2, <1>4, <1>7 DEF CallbacksAlone, Callback
  <2> QED
    BY <1>0, <1>2, <1>7, <1>8, <2>1 DEF CallbacksAlone, Callback
<1>12. ASSUME provider = "github" PROVE InstallFits'
  <2>1. InstallFits /\ (installed \/ w \in raced)
    BY <1>1, <1>2, <1>12 DEF ConnectionInvariant, InstallFits, Storing
  <2>2. \A q \in Procs : /\ Counted(q)' => Counted(q) /\ job'[q] = job[q]
                         /\ Storing(q)' => Storing(q) /\ job'[q] = job[q]
    BY <1>4 DEF Counted, Storing
  <2>3. CASE Uninstalling # {}
    BY <1>2, <1>6, <2>1, <2>2, <2>3 DEF InstallFits
  <2>4. CASE Uninstalling = {} /\ installed
    <3>1. \A q \in Procs : ~Counted(q)
      BY <2>4 DEF Uninstalling, Counted
    <3> QED
      BY <1>2, <2>2, <2>4, <3>1 DEF InstallFits
  <2>5. CASE Uninstalling = {} /\ ~installed
    <3>1. \A q \in Procs : ~Counted(q)
      BY <2>5 DEF Uninstalling, Counted
    <3>2. raced' = raced /\ installed' = installed
      BY <1>2, <2>5
    <3> QED
      BY <1>6, <2>1, <2>2, <2>5, <3>1, <3>2 DEF InstallFits
  <2> QED
    BY <2>3, <2>4, <2>5
<1>13. ASSUME provider = "jira", NEW v \in Workspaces PROVE TokenFits(v)'
  <2>1. CASE v # w
    <3>1. LetsGo(p, v)
      BY <1>1, <1>4, <2>1 DEF Holds
    <3> QED
      BY <1>2, <1>4, <1>5, <1>6, <1>13, <2>1, <3>1, TokensStay DEF ConnectionInvariant
  <2>2. CASE v = w
    <3>0. TokenFits(w) /\ valid' = valid /\ lost' = lost
      BY <1>2, <1>13 DEF ConnectionInvariant
    <3>1. \A q \in Procs : /\ Reads(q, w)' => Reads(q, w) /\ job'[q] = job[q]
                           /\ Holds(q, w)' => Holds(q, w) /\ job'[q] = job[q] /\ q # p
      BY <1>4, IdleTyped DEF Reads, Holds
    <3>2. Holds(p, w) /\ row'[w].token = job[p].token
      BY <1>1, <1>2, <1>3, <1>5 DEF Holds
    <3>3. ASSUME w \notin lost PROVE KeptFits(w)'
      <4>1. KeptFits(w)
        BY <3>0, <3>3 DEF TokenFits
      <4>2. \A q \in Procs : ~Holds(q, w)'
        BY <3>1, <3>2, <4>1 DEF KeptFits
      <4>3. row'[w].token = valid'[w] /\ \A q \in Procs : Reads(q, w)' => job'[q].token < valid'[w]
        BY <3>0, <3>1, <3>2, <4>1 DEF KeptFits
      <4> QED
        BY <4>2, <4>3 DEF KeptFits
    <3>4. \A q \in Procs : Reads(q, w)' \/ Holds(q, w)' => job'[q].token <= valid'[w]
      BY <3>0, <3>1 DEF TokenFits
    <3>5. row'[w].token <= valid'[w]
      BY <3>0, <3>2 DEF TokenFits
    <3> QED
      BY <2>2, <3>0, <3>3, <3>4, <3>5 DEF TokenFits
  <2> QED
    BY <2>1, <2>2
<1> QED
  BY <1>2, <1>10, <1>11, <1>12, <1>13 DEF ConnectionInvariant

-------------------------------------------------------------------------------
\* disconnect.
LEMMA ReadSecretsKeeps ==
  ASSUME ConnectionInvariant, NEW p \in Procs, NEW w \in Workspaces, ReadSecrets(p, w)
  PROVE  ConnectionInvariant'
<1> DEFINE new == [Idle EXCEPT !.op = "disconnect", !.step = "read", !.ws = w]
<1>0. RowsTyped /\ CallbacksAlone /\ job[p].step # "holding"
  BY DEF ConnectionInvariant, IdleRests, ReadSecrets
<1>1. new \in JobRow /\ new.op = "disconnect" /\ new.step = "read"
  BY IdleTyped DEF JobRow
<1>2. job' = [job EXCEPT ![p] = new]
      /\ UNCHANGED <<provider, oauth, row, valid, revoked, installed, lost, raced, connects>>
  BY DEF ReadSecrets
<1> HIDE DEF new
<1>3. CallbacksAlone'
  BY <1>0, <1>1, <1>2, JobSet, AloneStays DEF Callback
<1> QED
  BY <1>0, <1>1, <1>2, <1>3, QuietStep DEF RowsTyped

LEMMA RevokeKeeps ==
  ASSUME ConnectionInvariant, NEW p \in Procs, Revoke(p) PROVE ConnectionInvariant'
<1> DEFINE w == job[p].ws
           new == [job[p] EXCEPT !.step = IF provider = "github" /\ Others(w) = {}
                                          THEN "counted" ELSE "done"]
<1>0. RowsTyped /\ CallbacksAlone /\ IdleRests /\ job[p] \in JobRow /\ w \in Workspaces
  BY DEF ConnectionInvariant, RowsTyped, JobRow
<1>1. /\ job[p].op = "disconnect" /\ job[p].step = "read" /\ job' = [job EXCEPT ![p] = new]
      /\ UNCHANGED <<provider, oauth, row, valid, installed, lost, raced, connects>>
      /\ revoked' \in SUBSET Workspaces
  BY <1>0 DEF Revoke, RowsTyped
<1>2. /\ new \in JobRow /\ new.op = "disconnect" /\ new.ws = w /\ new.step \in {"counted", "done"}
      /\ new.step = "counted" => Others(w) = {}
  BY <1>0, <1>1 DEF JobRow
<1> HIDE DEF new
<1>3. job' \in [Procs -> JobRow] /\ job'[p] = new /\ \A q \in Procs \ {p} : job'[q] = job[q]
  BY <1>0, <1>1, <1>2, JobSet
<1>4. RowsTyped' /\ IdleRests'
  BY <1>0, <1>1, <1>2, <1>3 DEF RowsTyped, IdleRests
<1>5. CallbacksAlone'
  BY <1>0, <1>1, <1>2, <1>3, AloneStays DEF Callback
<1>6. ASSUME provider = "github" PROVE InstallFits'
  <2>1. ~Storing(p)' /\ \A v \in Workspaces : Present(v)' <=> Present(v)
    BY <1>1, <1>2, <1>3 DEF Storing, Present
  <2>2. ASSUME Counted(p)', NEW v \in Workspaces, Present(v) PROVE v = w
    BY <1>2, <1>3, <2>2 DEF Counted, Others
  <2>3. \A q \in Procs \ {p} : /\ Counted(q)' <=> Counted(q)
                               /\ Storing(q)' <=> Storing(q)
                               /\ job'[q].ws = job[q].ws
    BY <1>3 DEF Counted, Storing
  <2>4. InstallFits /\ raced' = raced /\ installed' = installed /\ job'[p].ws = w
    BY <1>1, <1>2, <1>3, <1>6 DEF ConnectionInvariant
  <2> QED
    BY <2>1, <2>2, <2>3, <2>4 DEF InstallFits
<1>7. ASSUME provider = "jira", NEW v \in Workspaces PROVE TokenFits(v)'
  <2>1. LetsGo(p, v)
    BY <1>1, <1>2, <1>3 DEF LetsGo, Holds, Reads
  <2> QED
    BY <1>1, <1>3, <1>7, <2>1, TokensStay DEF ConnectionInvariant, Present
<1> QED
  BY <1>1, <1>4, <1>5, <1>6, <1>7 DEF ConnectionInvariant

LEMMA UninstallKeeps ==
  ASSUME ConnectionInvariant, NEW p \in Procs, Uninstall(p) PROVE ConnectionInvariant'
<1> DEFINE w == job[p].ws
           new == [job[p] EXCEPT !.step = "done"]
<1>0. RowsTyped /\ CallbacksAlone /\ IdleRests /\ job[p] \in JobRow /\ w \in Workspaces
  BY DEF ConnectionInvariant, RowsTyped, JobRow
<1>1. /\ Counted(p) /\ job' = [job EXCEPT ![p] = new]
      /\ installed' \in {FALSE, installed}
      /\ raced' = raced \cup {w}
                  \cup {v \in Workspaces : \E q \in Holding(v) : job[q].op = "callback"}
      /\ UNCHANGED <<provider, oauth, row, valid, revoked, lost, connects>>
  BY DEF Uninstall, Counted
<1>2. new \in JobRow /\ new.op = "disconnect" /\ new.step = "done" /\ new.ws = w
  BY <1>0, <1>1 DEF JobRow, Counted
<1> HIDE DEF new
<1>3. job' \in [Procs -> JobRow] /\ job'[p] = new /\ \A q \in Procs \ {p} : job'[q] = job[q]
  BY <1>0, <1>1, <1>2, JobSet
<1>4. installed' \in BOOLEAN /\ raced' \in SUBSET Workspaces /\ raced \subseteq raced'
  BY <1>0, <1>1 DEF RowsTyped
<1>5. RowsTyped' /\ IdleRests'
  BY <1>0, <1>1, <1>2, <1>3, <1>4 DEF RowsTyped, IdleRests
<1>6. CallbacksAlone'
  BY <1>0, <1>1, <1>2, <1>3, AloneStays DEF Callback, Counted
<1>7. ASSUME provider = "github" PROVE InstallFits'
  <2>1. ~Counted(p)' /\ ~Storing(p)' /\ \A v \in Workspaces : Present(v)' <=> Present(v)
    BY <1>1, <1>2, <1>3 DEF Counted, Storing, Present
  <2>2. \A q \in Procs \ {p} : /\ Counted(q)' <=> Counted(q)
                               /\ Storing(q)' <=> Storing(q)
                               /\ job'[q].ws = job[q].ws
    BY <1>3 DEF Counted, Storing
  <2>3. InstallFits
    BY <1>7 DEF ConnectionInvariant
  <2>4. \A v \in Workspaces : Present(v) => v \in raced'
    BY <1>1, <2>3 DEF InstallFits
  <2>5. ASSUME NEW q \in Procs, Storing(q) PROVE job[q].ws \in raced'
    <3>1. PICK v \in Workspaces : v = job[q].ws
      BY <1>0 DEF RowsTyped, JobRow
    <3>2. q \in Holding(v) /\ job[q].op = "callback"
      BY <2>5, <3>1 DEF Storing, Holding
    <3> QED
      BY <1>1, <3>1, <3>2
  <2> QED
    BY <2>1, <2>2, <2>4, <2>5 DEF InstallFits
<1>8. ASSUME provider = "jira", NEW v \in Workspaces PROVE TokenFits(v)'
  <2>1. LetsGo(p, v)
    BY <1>1, <1>2, <1>3 DEF LetsGo, Holds, Reads, Counted
  <2> QED
    BY <1>1, <1>3, <1>8, <2>1, TokensStay DEF ConnectionInvariant, Present
<1> QED
  BY <1>1, <1>5, <1>6, <1>7, <1>8 DEF ConnectionInvariant

LEMMA DeleteKeeps ==
  ASSUME ConnectionInvariant, NEW p \in Procs, Delete(p) PROVE ConnectionInvariant'
<1> DEFINE w == job[p].ws
<1>0. RowsTyped /\ CallbacksAlone /\ IdleRests /\ job[p] \in JobRow /\ w \in Workspaces
  BY DEF ConnectionInvariant, RowsTyped, JobRow
<1>1. /\ job[p].op = "disconnect" /\ job[p].step = "done"
      /\ UNCHANGED <<provider, oauth, valid, revoked, installed, lost, raced, connects>>
  BY DEF Delete
<1>2. \/ End(p) /\ row' = row
      \/ /\ row' = [row EXCEPT ![w] = NoRow]
         /\ job' = [q \in Procs |->
              CASE q = p -> Idle
                [] q # p /\ job[q].ws = w /\ job[q].op \in {"disconnect", "sync", "picker"}
                     -> [job[q] EXCEPT !.gone = TRUE]
                [] OTHER -> job[q]]
  BY DEF Delete
\* Either way p is over, and the others keep all but what they know of the row.
<1>3. job'[p] = Idle
  BY <1>0, <1>2 DEF End, RowsTyped
<1>4. ASSUME NEW q \in Procs \ {p}
      PROVE  /\ job'[q] \in JobRow /\ job'[q].op = job[q].op /\ job'[q].step = job[q].step
             /\ job'[q].ws = job[q].ws /\ job'[q].token = job[q].token
             /\ job'[q].state = job[q].state
             /\ job[q].ws # w => job'[q] = job[q]
  <2>1. job[q] \in JobRow
    BY <1>0 DEF RowsTyped
  <2>2. job'[q] \in {job[q], [job[q] EXCEPT !.gone = TRUE]} /\ (job[q].ws # w => job'[q] = job[q])
    <3>1. CASE End(p)
      BY <1>0, <3>1 DEF End, RowsTyped
    <3>2. CASE job' = [x \in Procs |->
              CASE x = p -> Idle
                [] x # p /\ job[x].ws = w /\ job[x].op \in {"disconnect", "sync", "picker"}
                     -> [job[x] EXCEPT !.gone = TRUE]
                [] OTHER -> job[x]]
      BY <3>2
    <3> QED
      BY <1>2, <3>1, <3>2
  <2> QED
    BY <2>1, <2>2 DEF JobRow
<1>5. job' \in [Procs -> JobRow]
  <2>1. \A q \in Procs : job'[q] \in JobRow
    BY <1>3, <1>4, IdleTyped
  <2>2. job' = [q \in Procs |-> job'[q]]
    BY <1>0, <1>2 DEF End, RowsTyped
  <2> QED
    BY <2>1, <2>2
<1>6. row' \in [Workspaces -> ConnRow] /\ \A v \in Workspaces : Present(v)' => Present(v)
  <2>1. CASE row' = row
    BY <1>0, <2>1 DEF RowsTyped, Present
  <2>2. CASE row' = [row EXCEPT ![w] = NoRow]
    BY <1>0, <2>2, IdleTyped DEF RowsTyped, Present, NoRow
  <2> QED
    BY <1>2, <2>1, <2>2
<1>7. RowsTyped' /\ IdleRests'
  BY <1>0, <1>1, <1>3, <1>4, <1>5, <1>6, IdleTyped DEF RowsTyped, IdleRests
<1>8. \A q \in Procs : \/ /\ job'[q].op = job[q].op /\ job'[q].step = job[q].step
                          /\ job'[q].ws = job[q].ws /\ job'[q].state = job[q].state
                       \/ ~Callback(q)' /\ ~Counted(q)' /\ ~Storing(q)'
  BY <1>3, <1>4, IdleTyped DEF Callback, Counted, Storing
<1>9. CallbacksAlone'
  BY <1>0, <1>1, <1>8, AloneStays
<1>10. ASSUME provider = "github" PROVE InstallFits'
  <2>1. InstallFits
    BY <1>10 DEF ConnectionInvariant
  <2> QED
    BY <1>1, <1>6, <1>8, <2>1, InstallStays
<1>11. ASSUME provider = "jira", NEW v \in Workspaces PROVE TokenFits(v)'
  <2>1. ~Holds(p, v) /\ LetsGo(p, v) /\ TokenFits(v)
    BY <1>1, <1>3, <1>11, IdleTyped DEF ConnectionInvariant, LetsGo, Holds, Reads
  <2>2. CASE v # w \/ (row' = row /\ End(p))
    <3>1. \A q \in Procs : job'[q] = job[q] \/ LetsGo(q, v)
      <4>1. CASE End(p)
        BY <1>0, <2>1, <4>1 DEF End, RowsTyped
      <4>2. CASE v # w
        BY <1>4, <2>1, <4>2 DEF LetsGo, Holds, Reads
      <4> QED
        BY <2>2, <4>1, <4>2
    <3>2. row'[v] = row[v]
      BY <1>0, <1>2, <2>2 DEF RowsTyped
    <3> QED
      BY <1>1, <2>1, <3>1, <3>2, TokensStay DEF Present
  <2>3. CASE v = w /\ row' = [row EXCEPT ![w] = NoRow]
    <3>1. ~Present(v)' /\ row'[v].token = 0
      BY <1>0, <2>3 DEF RowsTyped, Present, NoRow
    <3>2. \A q \in Procs : /\ Reads(q, v)' => Reads(q, v) /\ job'[q].token = job[q].token
                           /\ Holds(q, v)' => Holds(q, v) /\ job'[q].token = job[q].token
                                               /\ q # p
      BY <1>3, <1>4, IdleTyped DEF Reads, Holds
    <3>3. valid' = valid /\ lost' = lost /\ valid[v] \in Nat
      BY <1>0, <1>1 DEF RowsTyped
    <3>4. KeptFits(v) => KeptFits(v)'
      BY <3>1, <3>2, <3>3 DEF KeptFits
    <3> QED
      BY <2>1, <2>3, <3>1, <3>2, <3>3, <3>4 DEF TokenFits
  <2> QED
    BY <1>2, <2>2, <2>3
<1> QED
  BY <1>1, <1>7, <1>9, <1>10, <1>11 DEF ConnectionInvariant

-------------------------------------------------------------------------------
\* Tokens.
LEMMA AgeKeeps ==
  ASSUME ConnectionInvariant, NEW w \in Workspaces, Age(w) PROVE ConnectionInvariant'
<1>0. RowsTyped /\ CallbacksAlone /\ IdleRests /\ row[w] \in ConnRow
  BY DEF ConnectionInvariant, RowsTyped
<1>1. row' = [row EXCEPT ![w].stale = TRUE]
      /\ UNCHANGED <<provider, oauth, job, valid, revoked, installed, lost, raced, connects>>
  BY DEF Age
<1>2. row' \in [Workspaces -> ConnRow]
      /\ \A v \in Workspaces : row'[v].token = row[v].token /\ (Present(v)' <=> Present(v))
  BY <1>0, <1>1 DEF RowsTyped, ConnRow, Present
<1>3. RowsTyped' /\ IdleRests'
  BY <1>0, <1>1, <1>2 DEF RowsTyped, IdleRests
<1>4. CallbacksAlone'
  BY <1>0, <1>1, AloneStays
<1>5. provider = "github" => InstallFits'
  BY <1>1, <1>2, InstallStays DEF ConnectionInvariant
<1>6. provider = "jira" => \A v \in Workspaces : TokenFits(v)'
  BY <1>1, <1>2, TokensStay DEF ConnectionInvariant
<1> QED
  BY <1>1, <1>3, <1>4, <1>5, <1>6 DEF ConnectionInvariant

LEMMA ReadTokenKeeps ==
  ASSUME ConnectionInvariant, NEW p \in Procs, NEW op \in {"sync", "picker"},
         NEW w \in Workspaces, ReadToken(p, op, w)
  PROVE  ConnectionInvariant'
<1> DEFINE new == [Idle EXCEPT !.op = op, !.step = "read", !.ws = w, !.token = row[w].token]
<1>0. RowsTyped /\ CallbacksAlone /\ IdleRests /\ row[w] \in ConnRow
  BY DEF ConnectionInvariant, RowsTyped
<1>1. /\ new \in JobRow /\ new.op = op /\ new.step = "read" /\ new.ws = w
      /\ new.token = row[w].token /\ new.gone = FALSE
  BY <1>0, IdleTyped DEF JobRow, ConnRow
<1>2. /\ job[p].op = "idle" /\ Present(w) /\ job' = [job EXCEPT ![p] = new]
      /\ UNCHANGED <<provider, oauth, row, valid, revoked, installed, lost, raced, connects>>
  BY DEF ReadToken
<1>3. job[p].step = "none"
  BY <1>0, <1>2 DEF IdleRests
<1> HIDE DEF new
<1>4. job' \in [Procs -> JobRow] /\ job'[p] = new /\ \A q \in Procs \ {p} : job'[q] = job[q]
  BY <1>0, <1>1, <1>2, JobSet
<1>5. RowsTyped' /\ IdleRests'
  BY <1>0, <1>1, <1>2, <1>4 DEF RowsTyped, IdleRests
<1>6. CallbacksAlone'
  BY <1>0, <1>1, <1>2, <1>4, AloneStays DEF Callback
<1>7. ~Counted(p)' /\ ~Storing(p)'
  BY <1>1, <1>4 DEF Counted, Storing
<1>8. provider = "github" => InstallFits'
  BY <1>2, <1>4, <1>7, InstallStays DEF ConnectionInvariant, Present
<1>9. ASSUME provider = "jira", NEW v \in Workspaces PROVE TokenFits(v)'
  <2>1. CASE v # w
    <3>1. LetsGo(p, v)
      BY <1>1, <1>3, <1>4, <2>1 DEF LetsGo, Holds, Reads
    <3> QED
      BY <1>2, <1>4, <1>9, <3>1, TokensStay DEF ConnectionInvariant, Present
  <2>2. CASE v = w
    <3>1. TokenFits(w) /\ UNCHANGED <<row, valid, lost>> /\ (Present(w)' <=> Present(w))
      BY <1>2, <1>9 DEF ConnectionInvariant, Present
    <3>2. \A q \in Procs \ {p} : job'[q] = job[q] /\ (Reads(q, w)' <=> Reads(q, w))
                                 /\ (Holds(q, w)' <=> Holds(q, w))
      BY <1>4 DEF Reads, Holds
    <3>3. ~Holds(p, w) /\ ~Holds(p, w)' /\ job'[p].token = row[w].token /\ job'[p].gone = FALSE
      BY <1>1, <1>3, <1>4 DEF Holds
    <3>4. KeptFits(w) => KeptFits(w)'
      <4> SUFFICES ASSUME KeptFits(w) PROVE KeptFits(w)'
        OBVIOUS
      <4>1. \A q \in Procs : Holds(q, w)' <=> (Holds(q, w) /\ q # p)
        BY <3>2, <3>3
      <4>2. \A q, x \in Procs : Holds(q, w)' /\ Reads(x, w)' => job'[x].token < valid'[w]
        BY <1>2, <3>1, <3>2, <3>3, <4>1 DEF KeptFits
      <4>3. \A q \in Procs : Reads(q, w)' /\ job'[q].gone /\ Present(w)' => job'[q].token < valid'[w]
        BY <3>1, <3>2, <3>3 DEF KeptFits
      <4> QED
        BY <3>1, <3>2, <3>3, <4>1, <4>2, <4>3 DEF KeptFits
    <3> QED
      BY <2>2, <3>1, <3>2, <3>3, <3>4 DEF TokenFits
  <2> QED
    BY <2>1, <2>2
<1> QED
  BY <1>2, <1>5, <1>6, <1>8, <1>9 DEF ConnectionInvariant

LEMMA RefreshKeeps ==
  ASSUME ConnectionInvariant, NEW p \in Procs, Refresh(p) PROVE ConnectionInvariant'
<1> DEFINE new == [job[p] EXCEPT !.step = "holding", !.token = NewToken(job[p].ws)]
<1>0. RowsTyped /\ CallbacksAlone /\ IdleRests /\ job[p] \in JobRow
      /\ valid \in [Workspaces -> 0..MaxToken]
  BY DEF ConnectionInvariant, RowsTyped
<1>1. PICK w \in Workspaces : w = job[p].ws
  BY <1>0 DEF JobRow
<1>2. /\ job[p].op \in {"sync", "picker"} /\ job[p].step = "read" /\ valid[w] < MaxToken
      /\ provider = "jira" => job[p].token = valid[w]
      /\ valid' = [valid EXCEPT ![w] = NewToken(w)]
      /\ job' = [job EXCEPT ![p] = new]
      /\ UNCHANGED <<provider, oauth, row, revoked, installed, lost, raced, connects>>
  BY <1>1 DEF Refresh, Refreshing, Accepted
<1>3. NewToken(w) \in 0..MaxToken /\ (provider = "jira" => NewToken(w) = valid[w] + 1)
  BY <1>0, <1>2, ConnectionConstants DEF NewToken
<1>4. /\ new \in JobRow /\ new.op = job[p].op /\ new.step = "holding" /\ new.ws = w
      /\ new.token = NewToken(w) /\ new.gone = job[p].gone
  BY <1>0, <1>1, <1>2, <1>3 DEF JobRow
<1> HIDE DEF new
<1>5. job' \in [Procs -> JobRow] /\ job'[p] = new /\ \A q \in Procs \ {p} : job'[q] = job[q]
  BY <1>0, <1>2, <1>4, JobSet
<1>6. valid' \in [Workspaces -> 0..MaxToken] /\ valid'[w] = NewToken(w)
      /\ \A v \in Workspaces \ {w} : valid'[v] = valid[v]
  BY <1>0, <1>2, <1>3
<1>7. RowsTyped' /\ IdleRests'
  BY <1>0, <1>2, <1>4, <1>5, <1>6 DEF RowsTyped, IdleRests
<1>8. CallbacksAlone'
  BY <1>0, <1>2, <1>4, <1>5, AloneStays DEF Callback
<1>9. ~Counted(p)' /\ ~Storing(p)'
  BY <1>2, <1>4, <1>5 DEF Counted, Storing
<1>10. provider = "github" => InstallFits'
  BY <1>2, <1>5, <1>9, InstallStays DEF ConnectionInvariant, Present
<1>11. ASSUME provider = "jira", NEW v \in Workspaces PROVE TokenFits(v)'
  <2>1. CASE v # w
    <3>1. LetsGo(p, v)
      BY <1>1, <1>4, <1>5, <2>1 DEF LetsGo, Holds, Reads
    <3> QED
      BY <1>2, <1>5, <1>6, <1>11, <2>1, <3>1, TokensStay DEF ConnectionInvariant, Present
  <2>2. CASE v = w
    <3>0. row[w].token \in Nat /\ valid[w] \in Nat /\ \A q \in Procs : job[q].token \in Nat
      BY <1>0 DEF RowsTyped, ConnRow, JobRow
    <3>1. TokenFits(w) /\ valid'[w] = valid[w] + 1 /\ UNCHANGED <<row, lost>>
          /\ (Present(w)' <=> Present(w)) /\ Reads(p, w) /\ job[p].token = valid[w]
      BY <1>1, <1>2, <1>3, <1>6, <1>11 DEF ConnectionInvariant, Present, Reads
    <3>2. \A q \in Procs \ {p} : job'[q] = job[q] /\ (Reads(q, w)' <=> Reads(q, w))
                                 /\ (Holds(q, w)' <=> Holds(q, w))
      BY <1>5 DEF Reads, Holds
    <3>3. Holds(p, w)' /\ ~Reads(p, w)' /\ job'[p].token = valid'[w] /\ job'[p].gone = job[p].gone
      BY <1>4, <1>5, <1>6 DEF Holds, Reads
    <3>4. row'[w].token < valid'[w] /\ \A q \in Procs : Reads(q, w)' => job'[q].token < valid'[w]
      BY <3>0, <3>1, <3>2, <3>3 DEF TokenFits
    <3>5. \A q \in Procs : Holds(q, w)' => job'[q].token <= valid'[w]
      BY <3>0, <3>1, <3>2, <3>3 DEF TokenFits
    <3>6. ASSUME KeptFits(w) PROVE KeptFits(w)'
      <4>1. \A q \in Procs : ~Holds(q, w)
        BY <3>0, <3>1, <3>6 DEF KeptFits
      <4>2. \A q \in Procs : Holds(q, w)' => q = p
        BY <3>2, <4>1
      <4>3. Present(w) => ~job'[p].gone
        BY <3>0, <3>1, <3>3, <3>6 DEF KeptFits
      <4> QED
        BY <3>1, <3>3, <3>4, <4>2, <4>3 DEF KeptFits
    <3>7. \A q \in Procs : job'[q].token \in Nat
      BY <1>5 DEF JobRow
    <3>8. row'[w].token <= valid'[w] /\ \A q \in Procs : Reads(q, w)' => job'[q].token <= valid'[w]
      BY <3>0, <3>1, <3>4, <3>7
    <3> QED
      BY <2>2, <3>1, <3>5, <3>6, <3>8 DEF TokenFits
  <2> QED
    BY <2>1, <2>2
<1> QED
  BY <1>2, <1>7, <1>8, <1>10, <1>11 DEF ConnectionInvariant

LEMMA RefreshFailsKeeps ==
  ASSUME ConnectionInvariant, NEW p \in Procs, RefreshFails(p) PROVE ConnectionInvariant'
<1>0. RowsTyped /\ CallbacksAlone /\ IdleRests /\ job[p] \in JobRow
  BY DEF ConnectionInvariant, RowsTyped
<1>1. /\ job[p].step = "read" /\ End(p)
      /\ UNCHANGED <<provider, oauth, valid, revoked, installed, lost, raced, connects>>
  BY DEF RefreshFails, Refreshing
<1>2. row' \in [Workspaces -> ConnRow]
      /\ \A v \in Workspaces : row'[v].token = row[v].token /\ (Present(v)' <=> Present(v))
  <2>1. row' = row \/ \E w \in Workspaces : Present(w) /\ row' = [row EXCEPT ![w].status = "error"]
    BY <1>0 DEF RefreshFails, Mine, JobRow
  <2>2. ASSUME NEW w \in Workspaces, Present(w), row' = [row EXCEPT ![w].status = "error"]
        PROVE  /\ row' \in [Workspaces -> ConnRow]
               /\ \A v \in Workspaces : row'[v].token = row[v].token /\ (Present(v)' <=> Present(v))
    BY <1>0, <2>2 DEF RowsTyped, ConnRow, Present
  <2> QED
    BY <1>0, <2>1, <2>2 DEF RowsTyped, Present
<1>3. /\ job' \in [Procs -> JobRow] /\ job'[p] = Idle /\ \A q \in Procs \ {p} : job'[q] = job[q]
      /\ ~Callback(p)' /\ ~Counted(p)' /\ ~Storing(p)'
      /\ \A w \in Workspaces : ~Holds(p, w) => LetsGo(p, w)
  BY <1>0, <1>1, Over
<1>4. RowsTyped' /\ IdleRests'
  BY <1>0, <1>1, <1>2, <1>3, IdleTyped DEF RowsTyped, IdleRests
<1>5. CallbacksAlone'
  BY <1>0, <1>1, <1>3, AloneStays
<1>6. provider = "github" => InstallFits'
  BY <1>1, <1>2, <1>3, InstallStays DEF ConnectionInvariant
<1>7. \A w \in Workspaces : LetsGo(p, w)
  BY <1>1, <1>3 DEF Holds
<1>8. provider = "jira" => \A v \in Workspaces : TokenFits(v)'
  BY <1>1, <1>2, <1>3, <1>7, TokensStay DEF ConnectionInvariant
<1> QED
  BY <1>1, <1>4, <1>5, <1>6, <1>8 DEF ConnectionInvariant

LEMMA StoreKeeps ==
  ASSUME ConnectionInvariant, NEW p \in Procs, StoreToken(p) PROVE ConnectionInvariant'
<1>0. RowsTyped /\ CallbacksAlone /\ IdleRests /\ job[p] \in JobRow
  BY DEF ConnectionInvariant, RowsTyped
<1>1. PICK w \in Workspaces : w = job[p].ws
  BY <1>0 DEF JobRow
<1>2. /\ job[p].op \in {"sync", "picker"} /\ job[p].step = "holding" /\ End(p)
      /\ UNCHANGED <<provider, oauth, valid, revoked, installed, lost, raced, connects>>
      /\ Mine(p) => row' = [row EXCEPT ![w] =
            [status |-> IF job[p].op = "sync" THEN "connected" ELSE row[w].status,
             token |-> job[p].token, stale |-> FALSE]]
      /\ ~Mine(p) => row' = row
  BY <1>0, <1>1 DEF StoreToken, Stored, RowsTyped
<1>3. /\ row' \in [Workspaces -> ConnRow] /\ \A v \in Workspaces : Present(v)' <=> Present(v)
      /\ \A v \in Workspaces \ {w} : row'[v] = row[v]
      /\ row'[w].token = IF Mine(p) THEN job[p].token ELSE row[w].token
  <2>1. CASE Mine(p)
    <3> DEFINE new == [status |-> IF job[p].op = "sync" THEN "connected" ELSE row[w].status,
                       token |-> job[p].token, stale |-> FALSE]
    <3>1. new \in ConnRow /\ (new.status # "absent" <=> Present(w)) /\ new.token = job[p].token
      BY <1>0, <1>1, <2>1 DEF ConnRow, JobRow, RowsTyped, Mine, Present
    <3>2. row' = [row EXCEPT ![w] = new]
      BY <1>2, <2>1
    <3> HIDE DEF new
    <3> QED
      BY <1>0, <2>1, <3>1, <3>2 DEF RowsTyped, Present
  <2>2. CASE ~Mine(p)
    BY <1>0, <1>2, <2>2 DEF RowsTyped, Present
  <2> QED
    BY <2>1, <2>2
<1>4. /\ job' \in [Procs -> JobRow] /\ job'[p] = Idle /\ \A q \in Procs \ {p} : job'[q] = job[q]
      /\ ~Callback(p)' /\ ~Counted(p)' /\ ~Storing(p)'
      /\ \A v \in Workspaces : ~Holds(p, v) => LetsGo(p, v)
  BY <1>0, <1>2, Over
<1>5. RowsTyped' /\ IdleRests'
  BY <1>0, <1>2, <1>3, <1>4, IdleTyped DEF RowsTyped, IdleRests
<1>6. CallbacksAlone'
  BY <1>0, <1>2, <1>4, AloneStays
<1>7. provider = "github" => InstallFits'
  BY <1>2, <1>3, <1>4, InstallStays DEF ConnectionInvariant
<1>8. ASSUME provider = "jira", NEW v \in Workspaces PROVE TokenFits(v)'
  <2>1. CASE v # w
    <3>1. LetsGo(p, v)
      BY <1>1, <1>4, <2>1 DEF Holds
    <3> QED
      BY <1>2, <1>3, <1>4, <1>8, <2>1, <3>1, TokensStay DEF ConnectionInvariant
  <2>2. CASE v = w
    <3>1. TokenFits(w) /\ UNCHANGED <<valid, lost>> /\ (Present(w)' <=> Present(w)) /\ Holds(p, w)
      BY <1>1, <1>2, <1>3, <1>8 DEF ConnectionInvariant, Holds
    <3>2. \A q \in Procs : /\ Reads(q, w)' => Reads(q, w) /\ job'[q] = job[q]
                           /\ Holds(q, w)' => Holds(q, w) /\ job'[q] = job[q] /\ q # p
      BY <1>4, IdleTyped DEF Reads, Holds
    <3>3. row'[w].token <= valid'[w]
      BY <1>3, <3>1 DEF TokenFits
    <3>4. ASSUME KeptFits(w) PROVE KeptFits(w)'
      <4>1. job[p].token = valid[w] /\ \A q \in Procs : ~Holds(q, w)'
        BY <3>1, <3>2, <3>4 DEF KeptFits
      <4>2. Present(w) => Mine(p)
        BY <1>1, <1>2, <3>1, <3>4 DEF KeptFits, Mine
      <4>3. Present(w)' => row'[w].token = valid'[w]
        BY <1>3, <3>1, <4>1, <4>2
      <4>4. \A q \in Procs : Reads(q, w)' /\ job'[q].gone /\ Present(w)' => job'[q].token < valid'[w]
        BY <3>1, <3>2, <3>4 DEF KeptFits
      <4> QED
        BY <4>1, <4>3, <4>4 DEF KeptFits
    <3> QED
      BY <2>2, <3>1, <3>2, <3>3, <3>4 DEF TokenFits
  <2> QED
    BY <2>1, <2>2
<1> QED
  BY <1>2, <1>5, <1>6, <1>7, <1>8 DEF ConnectionInvariant

LEMMA DieKeeps ==
  ASSUME ConnectionInvariant, NEW p \in Procs, Die(p) PROVE ConnectionInvariant'
<1>0. RowsTyped /\ CallbacksAlone /\ IdleRests /\ job[p] \in JobRow
  BY DEF ConnectionInvariant, RowsTyped
<1>1. PICK w \in Workspaces : w = job[p].ws
  BY <1>0 DEF JobRow
<1>2. /\ End(p) /\ UNCHANGED <<provider, oauth, row, valid, revoked, installed, raced, connects>>
      /\ lost' = IF p \in Holding(w) /\ job[p].token = valid[w] THEN lost \cup {w} ELSE lost
  BY <1>1 DEF Die
<1>3. /\ job' \in [Procs -> JobRow] /\ job'[p] = Idle /\ \A q \in Procs \ {p} : job'[q] = job[q]
      /\ ~Callback(p)' /\ ~Counted(p)' /\ ~Storing(p)'
      /\ \A v \in Workspaces : ~Holds(p, v) => LetsGo(p, v)
  BY <1>0, <1>2, Over
<1>4. RowsTyped' /\ IdleRests'
  BY <1>0, <1>2, <1>3, IdleTyped DEF RowsTyped, IdleRests
<1>5. CallbacksAlone'
  BY <1>0, <1>2, <1>3, AloneStays
<1>6. provider = "github" => InstallFits'
  BY <1>2, <1>3, InstallStays DEF ConnectionInvariant, Present
<1>7. ASSUME provider = "jira", NEW v \in Workspaces PROVE TokenFits(v)'
  <2>0. TokenFits(v) /\ (v \notin lost' => v \notin lost) /\ row' = row /\ valid' = valid
    BY <1>2, <1>7 DEF ConnectionInvariant
  <2>1. CASE ~Holds(p, v)
    BY <1>3, <2>0, <2>1, TokensStay DEF Present
  <2>2. CASE Holds(p, v)
    <3>1. v = w
      BY <1>1, <2>2 DEF Holds
    <3>2. v \in lost'
      <4>1. CASE v \in lost
        BY <1>2, <4>1
      <4>2. CASE v \notin lost
        <5>1. job[p].token = valid[w]
          BY <2>0, <2>2, <3>1, <4>2 DEF TokenFits, KeptFits
        <5>2. p \in Holding(w)
          BY <2>2, <3>1 DEF Holds, Holding
        <5> QED
          BY <1>2, <3>1, <5>1, <5>2
      <4> QED
        BY <4>1, <4>2
    <3>3. \A q \in Procs : /\ Reads(q, v)' => Reads(q, v) /\ job'[q] = job[q]
                           /\ Holds(q, v)' => Holds(q, v) /\ job'[q] = job[q]
      BY <1>3, IdleTyped DEF Reads, Holds
    <3> QED
      BY <2>0, <3>2, <3>3 DEF TokenFits
  <2> QED
    BY <2>1, <2>2
<1> QED
  BY <1>2, <1>4, <1>5, <1>6, <1>7 DEF ConnectionInvariant

-------------------------------------------------------------------------------
LEMMA ConnectionsStay == ConnectionInvariant /\ [Next]_vars => ConnectionInvariant'
<1> SUFFICES ASSUME ConnectionInvariant, [Next]_vars PROVE ConnectionInvariant'
  OBVIOUS
<1>1. CASE \E n \in Authorizations :
             \/ Grant(n) \/ ExpireState(n)
             \/ \E w \in Workspaces : StartAuthorization(n, w)
             \/ \E p \in Procs : ConsumeState(p, n)
  BY <1>1, AuthorizationKeeps, ConsumeKeeps
<1>2. CASE \E p \in Procs :
             \/ Exchange(p) \/ Upsert(p) \/ Revoke(p) \/ Uninstall(p) \/ Delete(p)
             \/ Refresh(p) \/ RefreshFails(p) \/ StoreToken(p) \/ Die(p)
             \/ \E w \in Workspaces :
                  ReadSecrets(p, w) \/ \E op \in {"sync", "picker"} : ReadToken(p, op, w)
  BY <1>2, ExchangeKeeps, UpsertKeeps, RevokeKeeps, UninstallKeeps, DeleteKeeps, RefreshKeeps,
     RefreshFailsKeeps, StoreKeeps, DieKeeps, ReadSecretsKeeps, ReadTokenKeeps
<1>3. CASE \E w \in Workspaces : Age(w)
  BY <1>3, AgeKeeps
<1>4. CASE UNCHANGED vars
  <2>1. UNCHANGED <<provider, oauth, row, job, valid, revoked, installed, lost, raced, connects>>
    BY <1>4 DEF vars
  <2>2. RowsTyped' /\ IdleRests' /\ CallbacksAlone'
    BY <2>1, AloneStays DEF ConnectionInvariant, RowsTyped, IdleRests
  <2>3. provider = "github" => InstallFits'
    BY <2>1, InstallStays DEF ConnectionInvariant, Present
  <2>4. provider = "jira" => \A w \in Workspaces : TokenFits(w)'
    BY <2>1, TokensStay DEF ConnectionInvariant, Present
  <2> QED
    BY <2>1, <2>2, <2>3, <2>4 DEF ConnectionInvariant
<1> QED
  BY <1>1, <1>2, <1>3, <1>4 DEF Next

LEMMA InvariantHolds == Spec => []ConnectionInvariant
BY ConnectionsStay, ConnectionsStart, PTL DEF Spec

-------------------------------------------------------------------------------
\* The rows, the authorizations and what the processes hold keep their types.
THEOREM ConnectionTypesHold == Spec => []TypeOK
<1>1. ConnectionInvariant => TypeOK
  BY DEF ConnectionInvariant, RowsTyped, TypeOK, OAuthRow, ConnRow, JobRow
<1> QED
  BY <1>1, InvariantHolds, PTL

\* update_tokens and upsert_connection store every rotated token, and a disconnect counts
\* on its own row only: the newest refresh token is not lost while its holder lives and no
\* reconnect overlaps a refresh.
THEOREM NewestTokenStays == Spec => []NewestTokenIsKept
<1>1. ConnectionInvariant => NewestTokenIsKept
  <2> SUFFICES ASSUME ConnectionInvariant, provider = "jira", NEW w \in Workspaces, Present(w),
                      row[w].token # valid[w], w \notin lost
               PROVE  Cardinality({p \in Holding(w) : job[p].token = valid[w]}) = 1
    BY DEF NewestTokenIsKept
  <2>1. KeptFits(w)
    BY DEF ConnectionInvariant, TokenFits
  <2>2. PICK p \in Procs : Holds(p, w)
    BY <2>1 DEF KeptFits
  <2>3. {q \in Holding(w) : job[q].token = valid[w]} = {p}
    BY <2>1, <2>2 DEF KeptFits, Holding, Holds
  <2> QED
    BY <2>3, FS_Singleton
<1> QED
  BY <1>1, InvariantHolds, PTL

\* count_other_connections_for_account keeps a disconnect from uninstalling the App under
\* a workspace that was connected when it counted.
THEOREM AppStaysInstalled == Spec => []InstalledWhileConnected
<1>1. ConnectionInvariant => InstalledWhileConnected
  BY DEF ConnectionInvariant, InstallFits, InstalledWhileConnected
<1> QED
  BY <1>1, InvariantHolds, PTL

\* consume_oauth_state: whatever callbacks come, one connection comes of an authorization.
THEOREM AuthorizationsConnectOnce == Spec => []OneConnectPerState
<1>1. ConnectionInvariant => OneConnectPerState
  BY DEF ConnectionInvariant, CallbacksAlone, OneConnectPerState
<1> QED
  BY <1>1, InvariantHolds, PTL

-------------------------------------------------------------------------------
(***************************************************************************)
(* What holds of the push channels for any number of sources,              *)
(* subscriptions and jobs: types, the subscriptions of a source that is    *)
(* gone, and the channel of one that is watched.                           *)
(***************************************************************************)

\* The shapes of the rows.
Job == [op: {"idle", "register", "renew"}, of: Sources, sub: Subs,
        step: {"none", "queued", "opened", "checked", "listed"},
        channel: 0..MaxChannel, left: SUBSET Subs]
SubRow == [status: {"none", "active", "revoked"}, of: Sources, channel: 0..MaxChannel]

LEMMA BlankRows == NoSub \in SubRow /\ Asleep \in Job
<1>1. NoSub.of \in Sources
  BY WatchConstants DEF NoSub
<1>2. (CHOOSE b \in Subs : TRUE) \in Subs
  BY WatchConstants
<1>3. 0 \in 0..MaxChannel
  BY WatchConstants
<1> QED
  BY <1>1, <1>2, <1>3 DEF NoSub, Asleep, SubRow, Job

LEMMA TypesStart == WatchInit => WatchTypeOK
<1> SUFFICES ASSUME WatchInit PROVE WatchTypeOK
  OBVIOUS
<1>1. sub \in [Subs -> SubRow] /\ watch \in [WatchJobs -> Job]
  BY BlankRows DEF WatchInit
<1>2. source \in [Sources -> {"new", "connected", "gone"}] /\ ends \in [Channels -> Nat]
  BY DEF WatchInit
<1>3. time \in 0..MaxTime
  BY WatchConstants DEF WatchInit
<1>4. /\ renewed \in BOOLEAN /\ missed \in SUBSET Subs /\ late \in SUBSET Subs
      /\ brief \in SUBSET Channels /\ untold \in SUBSET Channels
  BY DEF WatchInit
<1> QED
  BY <1>1, <1>2, <1>3, <1>4 DEF WatchTypeOK, SubRow, Job

\* A step that leaves a table alone, or gives one of its rows a row of its type, keeps
\* the types.
LEMMA TypesKept == WatchTypeOK /\ [WatchNext]_watchVars => WatchTypeOK'
<1> SUFFICES ASSUME WatchTypeOK, [WatchNext]_watchVars PROVE WatchTypeOK'
  OBVIOUS
<1>0. /\ source \in [Sources -> {"new", "connected", "gone"}]
      /\ sub \in [Subs -> SubRow] /\ ends \in [Channels -> Nat]
      /\ watch \in [WatchJobs -> Job] /\ time \in 0..MaxTime /\ renewed \in BOOLEAN
      /\ missed \in SUBSET Subs /\ late \in SUBSET Subs
      /\ brief \in SUBSET Channels /\ untold \in SUBSET Channels
  BY DEF WatchTypeOK, SubRow, Job
<1>a. ASSUME /\ source' \in [Sources -> {"new", "connected", "gone"}]
             /\ sub' \in [Subs -> SubRow] /\ ends' \in [Channels -> Nat]
             /\ watch' \in [WatchJobs -> Job] /\ time' \in 0..MaxTime /\ renewed' \in BOOLEAN
             /\ missed' \in SUBSET Subs /\ late' \in SUBSET Subs
             /\ brief' \in SUBSET Channels /\ untold' \in SUBSET Channels
      PROVE  WatchTypeOK'
  BY <1>a DEF WatchTypeOK, SubRow, Job
<1>b. ASSUME NEW j \in WatchJobs, Rest(j) PROVE watch' \in [WatchJobs -> Job]
  BY <1>0, <1>b, BlankRows DEF Rest
<1>1. ASSUME NEW s \in Sources, DisconnectSource(s) PROVE WatchTypeOK'
  <2>1. sub' \in [Subs -> SubRow]
    BY <1>0, <1>1 DEF DisconnectSource, RevokedSubs, SubRow
  <2> QED
    BY <1>0, <1>1, <1>a, <2>1 DEF DisconnectSource
<1>2. ASSUME NEW s \in Sources, NEW j \in WatchJobs, ConnectSource(s, j) PROVE WatchTypeOK'
  <2>1. [Asleep EXCEPT !.op = "register", !.step = "queued", !.of = s] \in Job
    BY BlankRows DEF Job
  <2>2. watch' \in [WatchJobs -> Job]
    BY <1>0, <1>2, <2>1 DEF ConnectSource
  <2> QED
    BY <1>0, <1>2, <1>a, <2>2 DEF ConnectSource
<1>3. ASSUME NEW j \in WatchJobs, NEW s \in Sources, NEW kept \in Subs, OpenChannel(j, s, kept)
      PROVE  WatchTypeOK'
  <2>1. PICK c \in Unopened, life \in Lives, told \in BOOLEAN :
          /\ ends' = [ends EXCEPT ![c] = time + life]
          /\ brief' = IF life < Day THEN brief \cup {c} ELSE brief
          /\ untold' = IF told THEN untold ELSE untold \cup {c}
          /\ watch' = [watch EXCEPT ![j].step = "opened", ![j].channel = c, ![j].sub = kept]
    BY <1>3 DEF OpenChannel
  <2>2. c \in 0..MaxChannel /\ time + life \in Nat
    BY <1>0, WatchConstants DEF Unopened, Channels
  <2>3. /\ ends' \in [Channels -> Nat]
        /\ brief' \in SUBSET Channels /\ untold' \in SUBSET Channels
    BY <1>0, <2>1, <2>2 DEF Unopened
  <2> DEFINE now == [watch[j] EXCEPT !.step = "opened", !.channel = c, !.sub = kept]
  <2>4. now \in Job /\ watch' = [watch EXCEPT ![j] = now]
    BY <1>0, <2>1, <2>2 DEF Job
  <2>5. watch' \in [WatchJobs -> Job]
    BY <1>0, <2>4
  <2> QED
    BY <1>0, <1>3, <1>a, <2>3, <2>5 DEF OpenChannel
<1>4. ASSUME NEW j \in WatchJobs, OpenRegistered(j) PROVE WatchTypeOK'
  BY <1>0, <1>3, <1>4 DEF OpenRegistered, Job
<1>5. ASSUME NEW j \in WatchJobs, CheckSource(j) PROVE WatchTypeOK'
  <2>1. watch' \in [WatchJobs -> Job]
    BY <1>0, <1>5 DEF CheckSource, Job
  <2> QED
    BY <1>0, <1>5, <1>a, <2>1 DEF CheckSource
<1>6. ASSUME NEW j \in WatchJobs, FailRegister(j) PROVE WatchTypeOK'
  BY <1>0, <1>6, <1>a, <1>b DEF FailRegister
<1>7. ASSUME NEW j \in WatchJobs, RestartRegister(j) PROVE WatchTypeOK'
  <2> DEFINE now == [watch[j] EXCEPT !.step = "queued", !.channel = 0]
  <2>1. 0 \in 0..MaxChannel
    BY WatchConstants
  <2>2. now \in Job
    BY <1>0, <2>1 DEF Job
  <2>3. watch' = [watch EXCEPT ![j] = now]
    BY <1>0, <1>7 DEF RestartRegister, Job
  <2>4. watch' \in [WatchJobs -> Job]
    BY <1>0, <2>2, <2>3
  <2> QED
    BY <1>0, <1>7, <1>a, <2>4 DEF RestartRegister
<1>8. ASSUME NEW j \in WatchJobs, StartRenewal(j) PROVE WatchTypeOK'
  <2> DEFINE due == {b \in Subs : Expiring(b)}
  <2>1. [Asleep EXCEPT !.op = "renew", !.step = "listed", !.left = due] \in Job
    BY BlankRows DEF Job
  <2>2. watch' \in [WatchJobs -> Job]
    BY <1>0, <1>8, <2>1 DEF StartRenewal
  <2> QED
    BY <1>0, <1>8, <1>a, <2>2 DEF StartRenewal
<1>9. ASSUME NEW j \in WatchJobs, NEW b \in Subs PROVE
        [Asleep EXCEPT !.op = "renew", !.step = "listed", !.left = watch[j].left \ {b}] \in Job
  BY <1>0, BlankRows DEF Job
<1>10. ASSUME NEW j \in WatchJobs, StoreRenewed(j) PROVE WatchTypeOK'
  <2>1. watch[j].sub \in Subs /\ watch[j].channel \in 0..MaxChannel
    BY <1>0 DEF Job
  <2>2. watch' \in [WatchJobs -> Job]
    BY <1>0, <1>9, <1>10, <2>1 DEF StoreRenewed
  <2>3. sub' \in [Subs -> SubRow]
    BY <1>0, <1>10, <2>1 DEF StoreRenewed, RenewedRow, SubRow
  <2> QED
    BY <1>0, <1>10, <1>a, <2>2, <2>3 DEF StoreRenewed
<1>11. ASSUME NEW j \in WatchJobs, EndRenewal(j) PROVE WatchTypeOK'
  BY <1>0, <1>11, <1>a, <1>b DEF EndRenewal
<1>12. ASSUME NEW j \in WatchJobs, CutRenewal(j) PROVE WatchTypeOK'
  <2>1. missed' \in SUBSET Subs
    BY <1>0, <1>12 DEF CutRenewal, Job
  <2> QED
    BY <1>0, <1>12, <1>a, <1>b, <2>1 DEF CutRenewal
<1>13. ASSUME NEW j \in WatchJobs, NEW b \in Subs, InsertSub(j, b) PROVE WatchTypeOK'
  <2>1. [status |-> "active", of |-> watch[j].of, channel |-> watch[j].channel] \in SubRow
    BY <1>0 DEF Job, SubRow
  <2>2. sub' \in [Subs -> SubRow] /\ late' \in SUBSET Subs
    BY <1>0, <1>13, <2>1 DEF InsertSub
  <2> QED
    BY <1>0, <1>13, <1>a, <1>b, <2>2 DEF InsertSub
<1>14. ASSUME NEW j \in WatchJobs, NEW b \in Subs, OpenRenewed(j, b) PROVE WatchTypeOK'
  BY <1>0, <1>3, <1>14 DEF OpenRenewed, SubRow
<1>15. ASSUME NEW j \in WatchJobs, NEW b \in Subs, FailRenewed(j, b) PROVE WatchTypeOK'
  <2>1. watch' \in [WatchJobs -> Job] /\ missed' \in SUBSET Subs
    BY <1>0, <1>9, <1>15 DEF FailRenewed
  <2> QED
    BY <1>0, <1>15, <1>a, <2>1 DEF FailRenewed
<1>16. CASE MissRenewal
  BY <1>0, <1>16, <1>a DEF MissRenewal
<1>17. CASE Pass
  <2>1. time' \in 0..MaxTime
    BY <1>0, <1>17, WatchConstants DEF Pass
  <2> QED
    BY <1>0, <1>17, <1>a, <2>1 DEF Pass
<1>18. CASE UNCHANGED watchVars
  BY <1>0, <1>18, <1>a DEF watchVars
<1> QED
  BY <1>1, <1>2, <1>4, <1>5, <1>6, <1>7, <1>8, <1>10, <1>11, <1>12, <1>13, <1>14, <1>15,
     <1>16, <1>17, <1>18 DEF WatchNext

\* The types of the sources, their subscriptions, Google's channels and the jobs.
THEOREM WatchTypesHold == WatchSpec => []WatchTypeOK
<1> QED
  BY TypesStart, TypesKept, PTL DEF WatchSpec

-------------------------------------------------------------------------------
LEMMA NothingWatchedAtStart == WatchInit => GoneIsUnwatched
BY DEF WatchInit, GoneIsUnwatched, Active, NoSub

LEMMA GoneStaysUnwatched ==
  WatchTypeOK /\ GoneIsUnwatched /\ [WatchNext]_watchVars => GoneIsUnwatched'
<1> SUFFICES ASSUME WatchTypeOK, GoneIsUnwatched, [WatchNext]_watchVars PROVE GoneIsUnwatched'
  OBVIOUS
<1>0. sub \in [Subs -> SubRow] /\ watch \in [WatchJobs -> Job]
      /\ source \in [Sources -> {"new", "connected", "gone"}]
  BY DEF WatchTypeOK, SubRow, Job
\* Steps after which the rows are those from before, or keep their source and status.
<1>a. ASSUME late \subseteq late', source' = source,
             \A b \in Subs : sub'[b].status = sub[b].status /\ sub'[b].of = sub[b].of
      PROVE  GoneIsUnwatched'
  BY <1>a DEF GoneIsUnwatched, Active
<1>1. ASSUME NEW s \in Sources, DisconnectSource(s) PROVE GoneIsUnwatched'
  <2>1. \A b \in Subs : sub'[b] = IF Active(b) /\ sub[b].of = s
                                  THEN [sub[b] EXCEPT !.status = "revoked"] ELSE sub[b]
    BY <1>1 DEF DisconnectSource, RevokedSubs
  <2>2. \A b \in Subs : sub'[b].status = "active" => Active(b) /\ sub'[b].of = sub[b].of /\ sub[b].of # s
    BY <1>0, <2>1 DEF SubRow, Active
  <2>3. late' = late /\ source' = [source EXCEPT ![s] = "gone"]
    BY <1>1 DEF DisconnectSource
  <2>4. \A b \in Subs : sub[b].of \in Sources
    BY <1>0 DEF SubRow
  <2> QED
    BY <1>0, <2>2, <2>3, <2>4 DEF GoneIsUnwatched, Active
<1>2. ASSUME NEW s \in Sources, NEW j \in WatchJobs, ConnectSource(s, j) PROVE GoneIsUnwatched'
  <2>1. \A b \in Subs : sub[b].of \in Sources
    BY <1>0 DEF SubRow
  <2>2. sub' = sub /\ late' = late /\ source' = [source EXCEPT ![s] = "connected"]
    BY <1>2 DEF ConnectSource
  <2> QED
    BY <1>0, <2>1, <2>2 DEF GoneIsUnwatched, Active
<1>3. ASSUME NEW j \in WatchJobs, NEW b \in Subs, InsertSub(j, b) PROVE GoneIsUnwatched'
  <2>1. /\ \A c \in Subs \ {b} : sub'[c] = sub[c]
        /\ sub'[b].of = watch[j].of /\ source' = source
        /\ late' = IF source[watch[j].of] = "gone" THEN late \cup {b} ELSE late
    BY <1>0, <1>3 DEF InsertSub
  <2> QED
    BY <2>1 DEF GoneIsUnwatched, Active
<1>4. ASSUME NEW j \in WatchJobs, StoreRenewed(j) PROVE GoneIsUnwatched'
  <2>1. \A b \in Subs : sub'[b].status = sub[b].status /\ sub'[b].of = sub[b].of
    BY <1>0, <1>4 DEF StoreRenewed, RenewedRow, SubRow
  <2> QED
    BY <1>4, <1>a, <2>1 DEF StoreRenewed
<1>5. CASE UNCHANGED <<source, sub, late>>
  BY <1>5, <1>a
<1>6. ASSUME NEW j \in WatchJobs, NEW s \in Sources, NEW kept \in Subs, OpenChannel(j, s, kept)
      PROVE  UNCHANGED <<source, sub, late>>
  BY <1>6 DEF OpenChannel
<1>7. ASSUME NEW j \in WatchJobs, OpenRegistered(j) PROVE UNCHANGED <<source, sub, late>>
  BY <1>7 DEF OpenRegistered, OpenChannel
<1>8. ASSUME NEW j \in WatchJobs, \/ CheckSource(j) \/ FailRegister(j) \/ RestartRegister(j)
                                  \/ StartRenewal(j) \/ EndRenewal(j) \/ CutRenewal(j)
      PROVE  UNCHANGED <<source, sub, late>>
  BY <1>8 DEF CheckSource, FailRegister, RestartRegister, StartRenewal, EndRenewal, CutRenewal
<1>9. ASSUME NEW j \in WatchJobs, NEW b \in Subs, OpenRenewed(j, b) \/ FailRenewed(j, b)
      PROVE  UNCHANGED <<source, sub, late>>
  BY <1>9 DEF OpenRenewed, OpenChannel, FailRenewed
<1>10. CASE MissRenewal \/ Pass \/ UNCHANGED watchVars
  BY <1>5, <1>10 DEF MissRenewal, Pass, watchVars
<1> QED
  BY <1>1, <1>2, <1>3, <1>4, <1>5, <1>7, <1>8, <1>9, <1>10 DEF WatchNext

\* However disconnects, registrations and renewals overlap, only a registration that
\* commits late leaves an active subscription to a source that is gone.
THEOREM GoneAreUnwatched == WatchSpec => []GoneIsUnwatched
<1> QED
  BY TypesStart, TypesKept, NothingWatchedAtStart, GoneStaysUnwatched, PTL DEF WatchSpec

-------------------------------------------------------------------------------
\* The next moment at which watch_renew runs, or should.
Due == IF time % Day = 0 THEN IF renewed THEN time + Day ELSE time ELSE time + 1

\* The last moment to which the channel may be relied on: its end, and for a channel given
\* less than a day the moment before a day after it.
Until == [c \in Channels |-> IF c \in brief THEN ends[c] + Day - 1 ELSE ends[c]]

\* The channel of an active subscription, when its end was told, can be relied on until
\* the next renewal, or one has it on its list; one that a job has just opened for a day.
Lasting ==
  \A b \in Subs : Active(b) /\ b \notin missed =>
    /\ sub[b].channel \in Channels
    /\ sub[b].channel \in untold \/ Until[sub[b].channel] >= time
    /\ sub[b].channel \in untold \/ Until[sub[b].channel] >= Due \/ Listed(b)
JustOpened ==
  \A j \in WatchJobs : watch[j].step \in {"opened", "checked"} =>
    /\ watch[j].op # "idle"
    /\ watch[j].channel \in Channels /\ Until[watch[j].channel] >= time + Day
WatchInvariant == WatchTypeOK /\ Lasting /\ JustOpened

LEMMA DueIsNear == WatchTypeOK => Due \in Nat /\ time <= Due /\ Due <= time + Day
BY WatchConstants DEF WatchTypeOK, Due, Day

LEMMA UntilStays == UNCHANGED <<ends, brief>> => Until' = Until
BY DEF Until

LEMMA UntilTyped == WatchTypeOK => Until \in [Channels -> Nat]
BY DEF WatchTypeOK, Until, Day

LEMMA InvariantStarts == WatchInit => WatchInvariant
BY TypesStart DEF WatchInit, WatchInvariant, Lasting, JustOpened, Active, NoSub, Asleep

LEMMA InvariantKept == WatchInvariant /\ [WatchNext]_watchVars => WatchInvariant'
<1> SUFFICES ASSUME WatchInvariant, [WatchNext]_watchVars PROVE WatchInvariant'
  OBVIOUS
<1>t. WatchTypeOK /\ WatchTypeOK'
  BY TypesKept DEF WatchInvariant
<1>0. /\ sub \in [Subs -> SubRow] /\ ends \in [Channels -> Nat]
      /\ watch \in [WatchJobs -> Job] /\ time \in Nat /\ Lasting /\ JustOpened
      /\ Until \in [Channels -> Nat]
  BY WatchConstants, UntilTyped DEF WatchInvariant, WatchTypeOK, SubRow, Job
<1>d. Due \in Nat /\ time <= Due /\ Due <= time + Day
  BY <1>t, DueIsNear
<1>u. Until' \in [Channels -> Nat]
  BY <1>t DEF WatchTypeOK, Until, Day
\* Steps that leave the time and the open channels alone, and unlist nothing that is not
\* missed or renewed.
<1>a. ASSUME UNCHANGED <<time, renewed, ends, brief, untold>>, JustOpened',
             \A b \in Subs : (Active(b) /\ b \notin missed)' =>
               \/ /\ Active(b) /\ b \notin missed /\ sub'[b].channel = sub[b].channel
                  /\ Listed(b) => Listed(b)'
               \/ sub'[b].channel \in Channels /\ Until[sub'[b].channel] >= time + Day
      PROVE  WatchInvariant'
  <2>1. Due' = Due
    BY <1>a DEF Due
  <2>2. ASSUME NEW b \in Subs, (Active(b) /\ b \notin missed)'
        PROVE  /\ sub'[b].channel \in Channels
               /\ sub'[b].channel \in untold' \/ Until'[sub'[b].channel] >= time'
               /\ sub'[b].channel \in untold' \/ Until'[sub'[b].channel] >= Due' \/ Listed(b)'
    <3>1. CASE sub'[b].channel \in Channels /\ Until[sub'[b].channel] >= time + Day
      BY <1>0, <1>a, <1>d, <2>1, <3>1, UntilStays DEF Day
    <3>2. CASE /\ Active(b) /\ b \notin missed /\ sub'[b].channel = sub[b].channel
               /\ Listed(b) => Listed(b)'
      BY <1>0, <1>a, <2>1, <3>2, UntilStays DEF Lasting
    <3> QED
      BY <1>a, <2>2, <3>1, <3>2
  <2>3. Lasting'
    BY <2>2 DEF Lasting
  <2> QED
    BY <1>a, <1>t, <2>3 DEF WatchInvariant
\* Steps in which the jobs that renew keep their lists and no job opens a channel.
<1>b. ASSUME UNCHANGED <<time, renewed, ends, sub, brief, untold>>, missed \subseteq missed',
             \A j \in WatchJobs : \/ watch'[j] = watch[j]
                                  \/ watch'[j].step \notin {"opened", "checked"} /\ watch[j].op # "renew"
                                  \/ /\ watch'[j].step \notin {"opened", "checked"}
                                     /\ watch[j].left \subseteq missed'
                                  \/ /\ watch'[j].step \notin {"opened", "checked"}
                                     /\ watch'[j].op = "renew"
                                     /\ watch[j].left \subseteq watch'[j].left \cup missed'
                                  \/ /\ watch[j].step \in {"opened", "checked"} /\ watch[j].op # "renew"
                                     /\ watch'[j].channel = watch[j].channel
                                     /\ watch'[j].op = watch[j].op
      PROVE  WatchInvariant'
  <2>1. JustOpened'
    BY <1>0, <1>b, UntilStays DEF JustOpened
  <2>2. ASSUME NEW b \in Subs, (Active(b) /\ b \notin missed)', Listed(b) PROVE Listed(b)'
    BY <1>b, <2>2 DEF Listed
  <2>3. \A b \in Subs : (Active(b) /\ b \notin missed)' => Active(b) /\ b \notin missed
    BY <1>b DEF Active
  <2> QED
    BY <1>a, <1>b, <2>1, <2>2, <2>3
<1>c. ASSUME NEW j \in WatchJobs, Rest(j)
      PROVE  watch'[j].step = "none" /\ \A k \in WatchJobs \ {j} : watch'[k] = watch[k]
  BY <1>0, <1>c DEF Rest, Asleep
<1>1. ASSUME NEW s \in Sources, DisconnectSource(s) PROVE WatchInvariant'
  <2>1. \A b \in Subs : sub'[b] = IF Active(b) /\ sub[b].of = s
                                  THEN [sub[b] EXCEPT !.status = "revoked"] ELSE sub[b]
    BY <1>1 DEF DisconnectSource, RevokedSubs
  <2>2. \A b \in Subs : sub'[b].status = "active" => Active(b) /\ sub'[b].channel = sub[b].channel
    BY <1>0, <2>1 DEF SubRow, Active
  <2>3. UNCHANGED <<time, renewed, ends, watch, missed, brief, untold>>
    BY <1>1 DEF DisconnectSource
  <2> QED
    BY <1>0, <1>a, <2>2, <2>3, UntilStays DEF Active, Listed, JustOpened
<1>2. ASSUME NEW s \in Sources, NEW j \in WatchJobs, ConnectSource(s, j) PROVE WatchInvariant'
  <2>1. /\ watch'[j].step = "queued" /\ watch[j].op # "renew"
        /\ \A k \in WatchJobs \ {j} : watch'[k] = watch[k]
    BY <1>0, <1>2 DEF ConnectSource, Asleep
  <2> QED
    BY <1>2, <1>b, <2>1 DEF ConnectSource
<1>3. ASSUME NEW j \in WatchJobs, NEW s \in Sources, NEW kept \in Subs, OpenChannel(j, s, kept),
             watch[j].op # "idle"
      PROVE  WatchInvariant'
  <2>1. PICK c \in Unopened, life \in Lives, told \in BOOLEAN :
          /\ ends' = [ends EXCEPT ![c] = time + life]
          /\ brief' = IF life < Day THEN brief \cup {c} ELSE brief
          /\ untold' = IF told THEN untold ELSE untold \cup {c}
          /\ watch' = [watch EXCEPT ![j].step = "opened", ![j].channel = c, ![j].sub = kept]
    BY <1>3 DEF OpenChannel
  <2>2. c \in Channels /\ ends[c] = 0 /\ life \in Nat /\ life >= 1
    BY WatchConstants DEF Unopened
  <2>3. /\ ends'[c] = time + life /\ \A d \in Channels \ {c} : ends'[d] = ends[d]
        /\ watch'[j].channel = c /\ watch'[j].op = watch[j].op /\ watch'[j].left = watch[j].left
        /\ \A k \in WatchJobs \ {j} : watch'[k] = watch[k]
    BY <1>0, <2>1, <2>2 DEF Job
  <2>4. UNCHANGED <<sub, time, renewed, missed>> /\ Due' = Due
    BY <1>3 DEF OpenChannel, Due
  <2>5. \A d \in Channels \ {c} :
          /\ Until'[d] = Until[d] /\ (d \in untold' <=> d \in untold)
    BY <2>1, <2>3 DEF Until
  <2>9. Until'[c] >= time + Day
    BY <1>0, <2>1, <2>2, <2>3 DEF Until, Day
  <2>6. JustOpened'
    <3> SUFFICES ASSUME NEW k \in WatchJobs, watch'[k].step \in {"opened", "checked"}
                 PROVE  /\ watch'[k].op # "idle" /\ watch'[k].channel \in Channels
                        /\ Until'[watch'[k].channel] >= time + Day
      BY <2>4 DEF JustOpened
    <3>1. CASE k = j
      BY <1>3, <2>2, <2>3, <2>9, <3>1
    <3>2. CASE k # j
      <4>1. /\ watch[k].op # "idle" /\ watch[k].channel \in Channels
            /\ Until[watch[k].channel] >= time + Day /\ watch'[k] = watch[k]
        BY <1>0, <2>3, <3>2 DEF JustOpened
      <4>2. Until'[watch[k].channel] >= time + Day
        BY <2>3, <2>5, <2>9, <4>1
      <4> QED
        BY <4>1, <4>2
    <3> QED
      BY <3>1, <3>2
  <2>7. \A b \in Subs : Listed(b) => Listed(b)'
    BY <2>3 DEF Listed
  <2>8. Lasting'
    <3> SUFFICES ASSUME NEW b \in Subs, Active(b), b \notin missed
                 PROVE  /\ sub[b].channel \in Channels
                        /\ sub[b].channel \in untold' \/ Until'[sub[b].channel] >= time
                        /\ \/ sub[b].channel \in untold' \/ Until'[sub[b].channel] >= Due
                           \/ Listed(b)'
      BY <2>4 DEF Lasting, Active
    <3>1. CASE sub[b].channel = c
      BY <1>0, <1>d, <1>u, <2>2, <2>9, <3>1 DEF Day
    <3>2. CASE sub[b].channel # c
      <4>1. /\ sub[b].channel \in Channels
            /\ sub[b].channel \in untold \/ Until[sub[b].channel] >= time
            /\ sub[b].channel \in untold \/ Until[sub[b].channel] >= Due \/ Listed(b)
        BY <1>0 DEF Lasting
      <4> QED
        BY <2>5, <2>7, <3>2, <4>1
    <3> QED
      BY <3>1, <3>2
  <2> QED
    BY <1>t, <2>6, <2>8 DEF WatchInvariant
<1>4. ASSUME NEW j \in WatchJobs, OpenRegistered(j) PROVE WatchInvariant'
  BY <1>0, <1>3, <1>4 DEF OpenRegistered, Job
<1>5. ASSUME NEW j \in WatchJobs, NEW b \in Subs, OpenRenewed(j, b) PROVE WatchInvariant'
  BY <1>0, <1>3, <1>5 DEF OpenRenewed, Renewing, SubRow
<1>6. ASSUME NEW j \in WatchJobs, CheckSource(j) PROVE WatchInvariant'
  <2>1. /\ watch[j].step = "opened" /\ watch[j].op = "register"
        /\ watch'[j].channel = watch[j].channel /\ watch'[j].op = watch[j].op
        /\ \A k \in WatchJobs \ {j} : watch'[k] = watch[k]
    BY <1>0, <1>6 DEF CheckSource, Job
  <2> QED
    BY <1>6, <1>b, <2>1 DEF CheckSource
<1>7. ASSUME NEW j \in WatchJobs, FailRegister(j) PROVE WatchInvariant'
  <2>1. watch[j].op # "renew" /\ UNCHANGED <<time, renewed, ends, sub, missed, brief, untold>>
    BY <1>7 DEF FailRegister
  <2> QED
    BY <1>7, <1>b, <1>c, <2>1 DEF FailRegister
<1>8. ASSUME NEW j \in WatchJobs, RestartRegister(j) PROVE WatchInvariant'
  <2>1. /\ watch'[j].step = "queued" /\ watch[j].op # "renew"
        /\ \A k \in WatchJobs \ {j} : watch'[k] = watch[k]
    BY <1>0, <1>8 DEF RestartRegister, Job
  <2> QED
    BY <1>8, <1>b, <2>1 DEF RestartRegister
<1>9. ASSUME NEW j \in WatchJobs, NEW b \in Subs, InsertSub(j, b) PROVE WatchInvariant'
  <2>1. /\ sub'[b].channel = watch[j].channel /\ \A c \in Subs \ {b} : sub'[c] = sub[c]
        /\ UNCHANGED <<time, renewed, ends, missed, brief, untold>>
        /\ watch[j].step = "checked" /\ watch[j].op = "register"
    BY <1>0, <1>9 DEF InsertSub
  <2>2. watch'[j].step = "none" /\ \A k \in WatchJobs \ {j} : watch'[k] = watch[k]
    BY <1>9, <1>c DEF InsertSub
  <2>3. JustOpened'
    BY <1>0, <2>1, <2>2, UntilStays DEF JustOpened
  <2>4. \A c \in Subs : Listed(c) => Listed(c)'
    BY <2>1, <2>2 DEF Listed
  <2>5. watch[j].channel \in Channels /\ Until[watch[j].channel] >= time + Day
    BY <1>0, <2>1, UntilStays DEF JustOpened
  <2> QED
    BY <1>a, <2>1, <2>3, <2>4, <2>5 DEF Active
<1>10. ASSUME NEW j \in WatchJobs, StartRenewal(j) PROVE WatchInvariant'
  <2>1. /\ watch[j].op = "idle" /\ watch'[j].step = "listed" /\ watch'[j].op = "renew"
        /\ watch'[j].left = {b \in Subs : Expiring(b)}
        /\ \A k \in WatchJobs \ {j} : watch'[k] = watch[k]
        /\ UNCHANGED <<time, sub, ends, missed, brief, untold>>
    BY <1>0, <1>10 DEF StartRenewal, Asleep
  <2>2. Due' = time + Day
    BY <1>10 DEF StartRenewal, RenewalDue, Due
  <2>3. JustOpened'
    BY <1>0, <2>1, UntilStays DEF JustOpened
  <2>4. ASSUME NEW b \in Subs, Active(b), b \notin missed
        PROVE  \/ sub[b].channel \in untold \/ Until[sub[b].channel] >= Due' \/ Listed(b)'
    <3>1. CASE Expiring(b)
      BY <2>1, <3>1 DEF Listed
    <3>2. CASE ~Expiring(b)
      BY <1>0, <2>2, <2>4, <3>2 DEF Expiring, Lasting, Day, Until
    <3> QED
      BY <3>1, <3>2
  <2>5. Lasting'
    BY <1>0, <2>1, <2>4, UntilStays DEF Lasting, Active
  <2> QED
    BY <1>t, <2>3, <2>5 DEF WatchInvariant
<1>11. ASSUME NEW j \in WatchJobs, StoreRenewed(j) PROVE WatchInvariant'
  <2> DEFINE b == watch[j].sub
  <2>1. b \in Subs /\ watch[j].channel \in Channels /\ Until[watch[j].channel] >= time + Day
    BY <1>0, <1>11 DEF StoreRenewed, Job, JustOpened
  <2>2. /\ watch'[j].step = "listed" /\ watch'[j].op = "renew"
        /\ watch'[j].left = watch[j].left \ {b}
        /\ \A k \in WatchJobs \ {j} : watch'[k] = watch[k]
    BY <1>0, <1>11 DEF StoreRenewed, Asleep
  <2>3. /\ sub'[b].channel = watch[j].channel /\ \A c \in Subs \ {b} : sub'[c] = sub[c]
        /\ UNCHANGED <<time, renewed, ends, brief, untold>> /\ missed' = missed \ {b}
    BY <1>0, <1>11, <2>1 DEF StoreRenewed, RenewedRow, SubRow
  <2> HIDE DEF b
  <2>4. JustOpened'
    BY <1>0, <2>2, <2>3, UntilStays DEF JustOpened
  <2>5. \A c \in Subs \ {b} : Listed(c) => Listed(c)'
    BY <2>2 DEF Listed
  <2> QED
    BY <1>a, <2>1, <2>3, <2>4, <2>5 DEF Active
<1>12. ASSUME NEW j \in WatchJobs, NEW b \in Subs, FailRenewed(j, b) PROVE WatchInvariant'
  <2>1. /\ watch'[j].step = "listed" /\ watch'[j].op = "renew"
        /\ watch'[j].left = watch[j].left \ {b} /\ missed' = missed \cup {b}
        /\ \A k \in WatchJobs \ {j} : watch'[k] = watch[k]
    BY <1>0, <1>12 DEF FailRenewed, Asleep
  <2> QED
    BY <1>12, <1>b, <2>1 DEF FailRenewed
<1>13. ASSUME NEW j \in WatchJobs, EndRenewal(j) PROVE WatchInvariant'
  <2>1. watch[j].left = {} /\ UNCHANGED <<time, renewed, ends, sub, missed, brief, untold>>
    BY <1>13 DEF EndRenewal
  <2> QED
    BY <1>13, <1>b, <1>c, <2>1 DEF EndRenewal
<1>14. ASSUME NEW j \in WatchJobs, CutRenewal(j) PROVE WatchInvariant'
  <2>1. missed' = missed \cup watch[j].left /\ UNCHANGED <<time, renewed, ends, sub, brief, untold>>
    BY <1>14 DEF CutRenewal
  <2> QED
    BY <1>14, <1>b, <1>c, <2>1 DEF CutRenewal
<1>15. CASE MissRenewal
  <2>1. /\ missed' = missed \cup {b \in Subs : Expiring(b)}
        /\ UNCHANGED <<sub, ends, watch, time, brief, untold>>
    BY <1>15 DEF MissRenewal
  <2>2. Due' = time + Day
    BY <1>15 DEF MissRenewal, RenewalDue, Due
  <2>3. JustOpened'
    BY <1>0, <2>1, UntilStays DEF JustOpened
  <2>4. ASSUME NEW b \in Subs, (Active(b) /\ b \notin missed)'
        PROVE  /\ Active(b) /\ b \notin missed
               /\ sub[b].channel \in untold \/ Until[sub[b].channel] >= Due'
    BY <1>0, <2>1, <2>2, <2>4 DEF Expiring, Active, Lasting, Day, Until
  <2>5. Lasting'
    BY <1>0, <2>1, <2>4, UntilStays DEF Lasting
  <2> QED
    BY <1>t, <2>3, <2>5 DEF WatchInvariant
<1>16. CASE Pass
  <2>1. /\ time' = time + 1 /\ renewed' = FALSE /\ ~RenewalDue
        /\ \A j \in WatchJobs : watch[j].op = "idle"
        /\ UNCHANGED <<sub, ends, watch, missed, brief, untold>>
    BY <1>16 DEF Pass
  <2>2. time' <= Due /\ Due' = Due
    BY <1>0, <2>1 DEF RenewalDue, Due, Day
  <2>3. \A b \in Subs : ~Listed(b)
    BY <2>1 DEF Listed
  <2>4. Lasting'
    BY <1>0, <1>d, <2>1, <2>2, <2>3, UntilStays DEF Lasting, Active
  <2>5. JustOpened'
    BY <1>0, <2>1, UntilStays DEF JustOpened
  <2> QED
    BY <1>t, <2>4, <2>5 DEF WatchInvariant
<1>17. CASE UNCHANGED watchVars
  BY <1>17, <1>b DEF watchVars
<1> QED
  BY <1>1, <1>2, <1>4, <1>5, <1>6, <1>7, <1>8, <1>9, <1>10, <1>11, <1>12, <1>13, <1>14,
     <1>15, <1>16, <1>17 DEF WatchNext

LEMMA InvariantImplies == WatchInvariant => WatchedStaysWatched
<1> SUFFICES ASSUME WatchInvariant, NEW b \in Subs, Active(b), b \notin missed,
                    sub[b].channel \notin untold
             PROVE  \/ \E c \in Channels : ends[c] > time /\ Heard(c, sub[b].of)
                    \/ ends[sub[b].channel] = time /\ (RenewalDue \/ Listed(b))
                    \/ sub[b].channel \in brief /\ time < ends[sub[b].channel] + Day
  BY DEF WatchedStaysWatched
<1>1. PICK c \in Channels : c = sub[b].channel
  BY DEF WatchInvariant, Lasting
<1>2. /\ Until[c] >= time /\ (Until[c] >= Due \/ Listed(b))
      /\ ends[c] \in Nat /\ time \in Nat /\ Due \in Nat
  BY <1>1, DueIsNear, WatchConstants DEF WatchInvariant, Lasting, WatchTypeOK
<1>3. Due <= time => RenewalDue
  BY <1>2 DEF Due, RenewalDue, Day
<1>4. CASE c \in brief
  <2>1. Until[c] = ends[c] + Day - 1
    BY <1>4 DEF Until
  <2> QED
    BY <1>1, <1>2, <1>4, <2>1 DEF Day
<1>5. CASE c \notin brief
  <2>1. Until[c] = ends[c]
    BY <1>5 DEF Until
  <2>2. CASE ends[c] > time
    BY <1>1, <2>2 DEF Heard
  <2>3. CASE ends[c] <= time
    <3>1. ends[c] = time
      BY <1>2, <2>1, <2>3
    <3>2. RenewalDue \/ Listed(b)
      BY <1>2, <1>3, <2>1, <3>1
    <3> QED
      BY <1>1, <3>1, <3>2
  <2> QED
    BY <1>2, <2>2, <2>3
<1> QED
  BY <1>4, <1>5

\* Whatever lives Google gives its channels, a source that is watched is unheard only
\* while the run that renews its channel is under way, or for less than a day where the
\* channel was given less than one; a missed renewal and an end that was not told are
\* excepted.  For any number of sources, subscriptions and overlapping jobs.
THEOREM WatchedStayWatched == WatchSpec => []WatchedStaysWatched
<1> QED
  BY InvariantStarts, InvariantKept, InvariantImplies, PTL DEF WatchSpec
===============================================================================
