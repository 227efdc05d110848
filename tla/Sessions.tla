-------------------------------- MODULE Sessions --------------------------------
(***************************************************************************)
(* Accounts and sign-in sessions (modules/auth).  A session is a family of *)
(* refresh tokens: POST /auth/refresh replaces the token it is given by a  *)
(* new one of the family, and a replaced token that turns up again ends    *)
(* the family.  Requests overlap; the row of the token a refresh presents  *)
(* is locked for the length of its transaction.                            *)
(***************************************************************************)
EXTENDS Naturals, FiniteSets

CONSTANTS
  Emails,      \* addresses, in lower case
  Tokens,      \* rows of refresh_tokens: a bound on those ever inserted
  States,      \* rows of oauth_states
  Requests,    \* requests under way at once
  NoOne,       \* no user, no token, no state, no request
  Free         \* nobody holds the lock of a row

ASSUME SessionConstants ==
  /\ NoOne \notin Emails \cup Tokens \cup States
  /\ Free \notin Requests

VARIABLES
  users,       \* the rows of users: [id, email], ids being the requests' inserts
  token,       \* token[t]: a row of refresh_tokens
  rowLock,     \* rowLock[t]: the request that holds the lock of that row
  state,       \* state[s]: a row of oauth_states
  req,         \* req[r]: a request
  ended,       \* families a replay or a logout was to end
  slipped,     \* families a rotation of which committed while they were being ended
  granted      \* granted[s]: the sessions started by callbacks with state s

sessionVars == <<users, token, rowLock, state, req, ended, slipped, granted>>

NoToken == [status |-> "absent", user |-> NoOne, family |-> NoOne]
NoState == [status |-> "absent", user |-> NoOne]
Done == [op |-> "none", phase |-> "idle", email |-> NoOne, token |-> NoOne, state |-> NoOne,
         seen |-> {}]

Ops == {"none", "signup", "signin", "refresh", "logout", "callback"}

SessionTypeOK ==
  /\ users \subseteq Emails
  /\ token \in [Tokens -> [status : {"absent", "live", "revoked", "expired"},
                           user : Emails \cup {NoOne}, family : Tokens \cup {NoOne}]]
  /\ rowLock \in [Tokens -> Requests \cup {Free}]
  /\ state \in [States -> [status : {"absent", "live", "consumed"},
                           user : Emails \cup {NoOne}]]
  /\ req \in [Requests -> [op : Ops, phase : {"idle", "checked", "locked", "ending",
                                              "exchanging"},
                           email : Emails \cup {NoOne}, token : Tokens \cup {NoOne},
                           state : States \cup {NoOne}, seen : SUBSET Tokens]]
  /\ ended \subseteq Tokens /\ slipped \subseteq Tokens
  /\ granted \in [States -> Nat]

SessionInit ==
  /\ users = {}
  /\ token = [t \in Tokens |-> NoToken]
  /\ rowLock = [t \in Tokens |-> Free]
  /\ state = [s \in States |-> NoState]
  /\ req = [r \in Requests |-> Done]
  /\ ended = {} /\ slipped = {}
  /\ granted = [s \in States |-> 0]

Issued(t) == token[t].status # "absent"
Alive(t) == token[t].status = "live"
Family(f) == {t \in Tokens : Issued(t) /\ token[t].family = f}

\* _persist_session_tokens: a row for a new token.
Row(u, f) == [status |-> "live", user |-> u, family |-> f]

\* issue_token_pair: a family of its own.
Start(u, t) == ~Issued(t) /\ token' = [token EXCEPT ![t] = Row(u, t)]

(***************************************************************************)
(* signup and signin.                                                      *)
(***************************************************************************)
\* find_user_by_email.
CheckEmail(r, e) ==
  /\ req[r].phase = "idle" /\ e \notin users
  /\ req' = [req EXCEPT ![r] = [Done EXCEPT !.op = "signup", !.phase = "checked", !.email = e]]
  /\ UNCHANGED <<users, token, rowLock, state, ended, slipped, granted>>

\* The unique index on lower(email): the insert of a request that lost the race fails.
SignUp(r, t) ==
  LET e == req[r].email
  IN /\ req[r].op = "signup" /\ req[r].phase = "checked"
     /\ IF e \in users THEN UNCHANGED <<users, token>>
        ELSE users' = users \cup {e} /\ Start(e, t)
     /\ req' = [req EXCEPT ![r] = Done]
     /\ UNCHANGED <<rowLock, state, ended, slipped, granted>>

SignIn(e, t) ==
  /\ e \in users
  /\ Start(e, t)
  /\ UNCHANGED <<users, rowLock, state, req, ended, slipped, granted>>

(***************************************************************************)
(* refresh.                                                                *)
(***************************************************************************)
\* A mutant: the token is looked up without FOR UPDATE.
Unlocked(r, t) == UNCHANGED rowLock

\* find_by_token_hash(for_update=True).
TakeLock(r, t) == rowLock[t] = Free /\ rowLock' = [rowLock EXCEPT ![t] = r]

Unlock(r) == rowLock' = [t \in Tokens |-> IF rowLock[t] = r THEN Free ELSE rowLock[t]]

\* Whoever holds a token that was issued once may present it.  Of a revoked one the whole
\* family is to be revoked: the UPDATE picks the live rows that are committed when it
\* starts.
PresentToken(r, t) ==
  /\ req[r].phase = "idle" /\ Issued(t)
  /\ TakeLock(r, t)
  /\ req' = [req EXCEPT ![r] = [Done EXCEPT !.op = "refresh", !.token = t,
       !.phase = IF token[t].status = "revoked" THEN "ending" ELSE "locked",
       !.seen = IF token[t].status = "revoked"
                THEN {u \in Family(token[t].family) : token[u].status # "revoked"} ELSE {}]]
  /\ UNCHANGED <<users, token, state, ended, slipped, granted>>

Refuse(r) ==
  /\ req[r].op = "refresh" /\ req[r].phase = "locked" /\ token[req[r].token].status = "expired"
  /\ Unlock(r)
  /\ req' = [req EXCEPT ![r] = Done]
  /\ UNCHANGED <<users, token, state, ended, slipped, granted>>

\* The new row and the end of the old one are committed together.
Rotate(r, n) ==
  LET t == req[r].token
  IN /\ req[r].op = "refresh" /\ req[r].phase = "locked" /\ token[t].status # "expired"
     /\ ~Issued(n)
     /\ token' = [token EXCEPT ![t].status = "revoked", ![n] = Row(token[t].user, token[t].family)]
     /\ Unlock(r)
     /\ req' = [req EXCEPT ![r] = Done]
     /\ slipped' = IF \E q \in Requests : t \in req[q].seen
                   THEN slipped \cup {token[t].family} ELSE slipped
     /\ UNCHANGED <<users, state, ended, granted>>

\* A mutant: the exception is raised before the commit.
RolledBack(U) == UNCHANGED token

Revoked(U) == token' = [t \in Tokens |-> IF t \in U THEN [token[t] EXCEPT !.status = "revoked"]
                                         ELSE token[t]]

\* revoke_family waits for the locks of the rows it picked and looks at them again; a row
\* inserted meanwhile is not among them.
EndFamily(r) ==
  LET f == token[req[r].token].family
  IN /\ req[r].op = "refresh" /\ req[r].phase = "ending"
     /\ \A u \in req[r].seen : rowLock[u] \in {r, Free}
     /\ Revoked(req[r].seen)
     /\ Unlock(r)
     /\ ended' = ended \cup {f}
     /\ req' = [req EXCEPT ![r] = Done]
     /\ UNCHANGED <<users, state, slipped, granted>>

(***************************************************************************)
(* logout.                                                                 *)
(***************************************************************************)
\* The token is read without a lock; an unknown or revoked one is nothing to do.
FindToken(r, t) ==
  /\ req[r].phase = "idle" /\ Issued(t) /\ token[t].status # "revoked"
  /\ req' = [req EXCEPT ![r] = [Done EXCEPT !.op = "logout", !.phase = "checked", !.token = t,
                                            !.seen = {t}]]
  /\ UNCHANGED <<users, token, rowLock, state, ended, slipped, granted>>

\* revoke_token waits for a rotation of the row, and then finds it revoked.
LogOut(r) ==
  LET t == req[r].token
  IN /\ req[r].op = "logout" /\ req[r].phase = "checked" /\ rowLock[t] = Free
     /\ Revoked({t})
     /\ ended' = ended \cup {token[t].family}
     /\ req' = [req EXCEPT ![r] = Done]
     /\ UNCHANGED <<users, rowLock, state, slipped, granted>>

Expire(t) ==
  /\ Alive(t)
  /\ token' = [token EXCEPT ![t].status = "expired"]
  /\ UNCHANGED <<users, rowLock, state, req, ended, slipped, granted>>

(***************************************************************************)
(* OAuth sign-in.                                                          *)
(***************************************************************************)
\* start_oauth, anonymous or by a user who is signed in.
StartOAuth(s, u) ==
  /\ state[s].status = "absent" /\ u \in users \cup {NoOne}
  /\ state' = [state EXCEPT ![s] = [status |-> "live", user |-> u]]
  /\ UNCHANGED <<users, token, rowLock, req, ended, slipped, granted>>

Marked(s) == state' = [state EXCEPT ![s].status = "consumed"]

\* Phase 1 of handle_oauth_callback, in a transaction of its own that locks the row.
Consume(r, s) ==
  /\ req[r].phase = "idle" /\ state[s].status = "live"
  /\ Marked(s)
  /\ req' = [req EXCEPT ![r] = [Done EXCEPT !.op = "callback", !.phase = "exchanging",
                                            !.state = s]]
  /\ UNCHANGED <<users, token, rowLock, ended, slipped, granted>>

\* Phase 3, with the address the provider vouches for: the user is found or created, and
\* has to be the one a linking state was made for.
FinishOAuth(r, e, t) ==
  LET s == req[r].state
      linked == state[s].user
  IN /\ req[r].op = "callback" /\ linked \in {NoOne, e}
     /\ users' = users \cup {e}
     /\ Start(e, t)
     /\ granted' = [granted EXCEPT ![s] = @ + 1]
     /\ req' = [req EXCEPT ![r] = Done]
     /\ UNCHANGED <<rowLock, state, ended, slipped>>

\* The provider fails, the address is another user's, or the request dies: the transaction
\* is rolled back and its locks go.
Abort(r) ==
  /\ req[r].phase # "idle"
  /\ Unlock(r)
  /\ req' = [req EXCEPT ![r] = Done]
  /\ UNCHANGED <<users, token, state, ended, slipped, granted>>

SessionNext ==
  \/ \E r \in Requests :
       \/ \E e \in Emails : CheckEmail(r, e)
       \/ \E t \in Tokens : SignUp(r, t) \/ PresentToken(r, t) \/ Rotate(r, t) \/ FindToken(r, t)
       \/ Refuse(r) \/ EndFamily(r) \/ LogOut(r) \/ Abort(r)
       \/ \E s \in States : Consume(r, s)
       \/ \E e \in Emails, t \in Tokens : FinishOAuth(r, e, t)
  \/ \E e \in Emails, t \in Tokens : SignIn(e, t)
  \/ \E t \in Tokens : Expire(t)
  \/ \E s \in States, u \in Emails \cup {NoOne} : StartOAuth(s, u)

SessionSpec == SessionInit /\ [][SessionNext]_sessionVars

-------------------------------------------------------------------------------
\* The rotations of a session never fork it: a family has one token at most that a
\* refresh would still take.
OneLiveToken ==
  \A t, u \in Tokens :
    (/\ token[t].status \in {"live", "expired"} /\ token[u].status \in {"live", "expired"}
     /\ token[t].family = token[u].family)
    => t = u

\* A session that was logged out of, or one token of which turned up twice, is over,
\* unless a rotation of it committed in between.
EndedIsOver ==
  \A t \in Tokens : Issued(t) /\ token[t].family \in ended \ slipped
                    => token[t].status = "revoked"

\* However callbacks overlap, a state starts one session at most.
OneSessionPerState == \A s \in States : granted[s] <= 1
===============================================================================
